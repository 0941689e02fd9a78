--------------------------- MODULE PubsubService ---------------------------
(* PubsubService (galacteek/ipfs/pubsub/service.py) as the DAG exchange      *)
(* service is one (srvs/dagexchange.py): serve() reads the messages of the   *)
(* topic and queues them, processMessages() treats them one by one, and both *)
(* are stopped and started again when the IPFS operator changes.  An         *)
(* exchange is handled under a MsgSpy, which looks its digest up in a        *)
(* database.  Left out are the filters, whose messages change nothing here,  *)
(* and the throttler: the first stop, before the first start, pauses it for  *)
(* good, and then it lets everything through.                                *)
EXTENDS Integers, Sequences

CONSTANTS
    Loops, Procs, \* jobs that run serve(), and jobs that run processMessages()
    None,
    Msgs,         \* what messages say, i.e. their digests
    Events,       \* what happens to the service, a subset of EventKinds
    QueueSize,    \* maxsize of inQueue
    MaxArrivals,  \* bound: messages that the loops receive
    MaxStarts     \* bound: times that the service is started

EventKinds == {"change", \* the IPFS operator changes: the first start comes so
               "stop",   \* the service is stopped
               "error",  \* the subscription is lost
               "day"}    \* a day passes: MsgSpy looks no further back

ASSUME PubsubAssumption ==
    /\ None \notin Loops \union Procs \union Msgs
    /\ Events \subseteq EventKinds
    /\ QueueSize \in Nat \ {0} /\ MaxArrivals \in Nat /\ MaxStarts \in Nat \ {0}

VARIABLES
    shuttingDown, \* _shuttingDown
    tskServe, tskProcess,
    dbReady,      \* psDbManager is set
    registered,   \* the topic is in PubsubMaster's list
    starts,
    serve,        \* where serve() is in each job, and the message it holds
    arrivals,
    queue,        \* inQueue
    proc,         \* where processMessages() is in each job, and its message
    recorded,     \* digests in the database, of the last day
    ctl           \* where stopListening() and the event handlers are

life    == <<shuttingDown, tskServe, tskProcess, dbReady, starts>>
network == <<registered, serve, arrivals>>
work    == <<proc, recorded>>
vars    == <<life, network, queue, work, ctl>>

Off      == [at |-> "off", msg |-> None]
Idle     == [at |-> "idle", again |-> FALSE]
Hearing  == {"listen", "put"}  \* cancelled there, serve() calls unreg()

Init ==
    /\ shuttingDown = FALSE /\ tskServe = None /\ tskProcess = None
    /\ dbReady = FALSE /\ registered = FALSE /\ starts = 0
    /\ serve = [l \in Loops |-> Off] /\ arrivals = 0
    /\ queue = <<>>
    /\ proc = [p \in Procs |-> Off] /\ recorded = {}
    /\ ctl = Idle

-----------------------------------------------------------------------------
(* serve() *)

(* The job runs: reg(), then the subscription. *)
Subscribe(l) ==
    /\ serve[l].at \in {"start", "later"}
    /\ serve' = [serve EXCEPT ![l] = [at |-> "listen", msg |-> None]]
    /\ registered' = TRUE
    /\ UNCHANGED <<life, arrivals, queue, work, ctl>>

(* A message passes the filters.  A service that is shutting down returns    *)
(* at once, and its topic stays in the list.                                 *)
Receive(l, m) ==
    /\ serve[l].at = "listen" /\ arrivals < MaxArrivals
    /\ arrivals' = arrivals + 1
    /\ serve' = [serve EXCEPT ![l] = IF shuttingDown THEN Off ELSE [at |-> "put", msg |-> m]]
    /\ UNCHANGED <<life, registered, queue, work, ctl>>

(* The operators named ..Mutant are faulty variants of the definition that    *)
(* follows: each shows that a property notices that fault.                   *)
NoBoundMutant(l) ==
    /\ serve[l].at = "put"
    /\ queue' = Append(queue, serve[l].msg)
    /\ serve' = [serve EXCEPT ![l] = [at |-> "listen", msg |-> None]]
    /\ UNCHANGED <<life, registered, arrivals, work, ctl>>

(* inQueue.put() waits while the queue is full. *)
Put(l) ==
    /\ serve[l].at = "put" /\ Len(queue) < QueueSize
    /\ queue' = Append(queue, serve[l].msg)
    /\ serve' = [serve EXCEPT ![l] = [at |-> "listen", msg |-> None]]
    /\ UNCHANGED <<life, registered, arrivals, work, ctl>>

(* The subscription is lost: ensureLater() runs serve() again five seconds   *)
(* later, in a task that nobody holds; tskServe is a job that has ended.     *)
ServeError(l) ==
    /\ "error" \in Events /\ serve[l].at = "listen"
    /\ registered' = FALSE
    /\ serve' = [serve EXCEPT ![l] = [at |-> "later", msg |-> None]]
    /\ tskServe' = IF tskServe = l THEN None ELSE tskServe
    /\ UNCHANGED <<shuttingDown, tskProcess, dbReady, starts, arrivals, queue, work, ctl>>

-----------------------------------------------------------------------------
(* processMessages() *)

(* `while not self._shuttingDown` *)
Again == IF shuttingDown THEN Off ELSE [at |-> "get", msg |-> None]

Get(p) ==
    /\ proc[p].at = "get" /\ queue # <<>>
    /\ proc' = [proc EXCEPT ![p] = IF shuttingDown THEN Off
                                   ELSE [at |-> "decode", msg |-> Head(queue)]]
    /\ queue' = Tail(queue)
    /\ UNCHANGED <<life, network, recorded, ctl>>

Goes(p, x) == proc' = [proc EXCEPT ![p] = x]
GoesTo(p, at) == Goes(p, [proc[p] EXCEPT !.at = at])

(* A message that cannot be decrypted or decoded is dropped. *)
Decode(p) ==
    /\ proc[p].at = "decode" /\ (GoesTo(p, "record") \/ Goes(p, Again))
    /\ UNCHANGED <<life, network, queue, recorded, ctl>>

(* recordMessage() may fail, as it does before psDbManager is set; then the  *)
(* message is dropped, like one whose sender is not an authenticated peer or *)
(* that is no valid exchange message.                                        *)
Record(p) ==
    /\ proc[p].at = "record" /\ ((dbReady /\ GoesTo(p, "search")) \/ Goes(p, Again))
    /\ UNCHANGED <<life, network, queue, recorded, ctl>>

NoSearchMutant(p) ==
    /\ proc[p].at = "search" /\ GoesTo(p, "exchange")
    /\ UNCHANGED <<life, network, queue, recorded, ctl>>

(* MsgSpy.__aenter__(): an exchange that the database knows is not handled,  *)
(* nor one that could not be looked up.                                      *)
Search(p) ==
    /\ proc[p].at = "search"
    /\ \/ proc[p].msg \notin recorded /\ GoesTo(p, "exchange")
       \/ Goes(p, Again)
    /\ UNCHANGED <<life, network, queue, recorded, ctl>>

(* The body ends, well or not, and __aexit__() writes the digest. *)
Exchange(p) ==
    /\ proc[p].at = "exchange" /\ GoesTo(p, "write")
    /\ UNCHANGED <<life, network, queue, recorded, ctl>>

(* recordMsgAttribute() hides every error, e.g. when recordMessage() was     *)
(* cancelled and there is no record to attach the digest to.                 *)
Write(p) ==
    /\ proc[p].at \in {"write", "abort"}
    /\ recorded' \in {recorded, recorded \union {proc[p].msg}}
    /\ Goes(p, IF proc[p].at = "abort" THEN Off ELSE Again)
    /\ UNCHANGED <<life, network, queue, ctl>>

Process(p) == Get(p) \/ Decode(p) \/ Record(p) \/ Search(p) \/ Exchange(p) \/ Write(p)

(* searchMsgAttribute() looks one day back. *)
Forget(m) ==
    /\ "day" \in Events /\ m \in recorded
    /\ recorded' = recorded \ {m}
    /\ UNCHANGED <<life, network, queue, proc, ctl>>

-----------------------------------------------------------------------------
SwallowMutant(p) ==
    /\ GoesTo(p, IF proc[p].at = "exchange" THEN "abort" ELSE proc[p].at)
    /\ UNCHANGED recorded

(* Task.cancel() on the processing job.  recordMessage() swallows it and the *)
(* message is treated all the same; in the body, __aexit__() still writes    *)
(* the digest, unless an `except Exception` takes the cancellation for an    *)
(* error of the exchange (before Python 3.8) and the body goes on; a write   *)
(* may or may not have reached the database.                                 *)
Cancel(p) ==
    /\ CASE proc[p].at = "record"   -> GoesTo(p, "search")
         [] proc[p].at = "exchange" -> GoesTo(p, "abort") \/ UNCHANGED proc
         [] OTHER -> Goes(p, Off)
    /\ recorded' \in {recorded} \union
                     (IF proc[p].at \in {"write", "abort"}
                      THEN {recorded \union {proc[p].msg}} ELSE {})

-----------------------------------------------------------------------------
(* stopListening().  close() cancels a job and waits until it has ended;     *)
(* serve() does so at once.                                                  *)
Stop(again) ==
    /\ shuttingDown' = TRUE
    /\ serve' = [l \in Loops |-> IF l = tskServe THEN Off ELSE serve[l]]
    /\ registered' = (registered /\ \A l \in Loops : l = tskServe => serve[l].at \notin Hearing)
    /\ ctl' = [at |-> "close", again |-> again]
    /\ UNCHANGED <<tskServe, tskProcess, dbReady, starts, arrivals, queue, work>>

(* What follows stopListening(): 0.9 seconds pass before the next start. *)
Stopped == ctl' = IF ctl.again THEN [ctl EXCEPT !.at = "nap"] ELSE Idle

Ended == tskProcess = None \/ proc[tskProcess] = Off

NoWaitMutant ==
    /\ ctl.at = "close"
    /\ Stopped
    /\ IF Ended THEN UNCHANGED work ELSE Cancel(tskProcess)
    /\ UNCHANGED <<life, network, queue>>

CloseProcess ==
    /\ ctl.at = "close"
    /\ IF Ended THEN Stopped /\ UNCHANGED work
       ELSE Cancel(tskProcess) /\ ctl' = [ctl EXCEPT !.at = "wait"]
    /\ UNCHANGED <<life, network, queue>>

(* The job has not ended after a second: it is cancelled again. *)
CloseTimeout ==
    /\ ctl.at = "wait" /\ ~Ended
    /\ Cancel(tskProcess)
    /\ ctl' = [ctl EXCEPT !.at = "late"]
    /\ UNCHANGED <<life, network, queue>>

Closed ==
    /\ ctl.at \in {"wait", "late"} /\ Ended
    /\ Stopped
    /\ UNCHANGED <<life, network, queue, work>>

-----------------------------------------------------------------------------
(* startListening(): both jobs are spawned, then psDbManager is looked up. *)
Start ==
    /\ ctl.at = "nap" /\ ctl' = [at |-> "db", again |-> FALSE]
    /\ shuttingDown' = FALSE /\ starts' = starts + 1
    /\ \E l \in Loops, p \in Procs :
          /\ serve[l] = Off /\ proc[p] = Off
          /\ tskServe' = l /\ tskProcess' = p
          /\ serve' = [serve EXCEPT ![l].at = "start"]
          /\ proc' = [proc EXCEPT ![p].at = "get"]
    /\ UNCHANGED <<dbReady, registered, arrivals, queue, recorded>>

SetDb ==
    /\ ctl.at = "db" /\ ctl' = Idle
    /\ dbReady' = TRUE
    /\ UNCHANGED <<shuttingDown, tskServe, tskProcess, starts, network, queue, work>>

(* IpfsOperatorChange *)
OperatorChange ==
    /\ "change" \in Events /\ starts < MaxStarts /\ ctl.at = "idle"
    /\ Stop(TRUE)

(* on_stop() *)
OnStop ==
    /\ "stop" \in Events /\ ctl.at = "idle" /\ starts > 0
    /\ Stop(FALSE)

ControlStep  == CloseProcess \/ CloseTimeout \/ Closed
ServeStep(l) == Subscribe(l) \/ Put(l)

Next ==
    \/ Start \/ SetDb \/ OperatorChange \/ OnStop \/ ControlStep
    \/ \E p \in Procs : Process(p)
    \/ \E m \in Msgs : Forget(m)
    \/ \E l \in Loops : \/ ServeStep(l) \/ ServeError(l)
                        \/ \E m \in Msgs : Receive(l, m)

Spec == Init /\ [][Next]_vars
=============================================================================
