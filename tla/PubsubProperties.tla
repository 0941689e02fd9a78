-------------------------- MODULE PubsubProperties --------------------------
(* What the service of the DAG exchanges must guarantee                      *)
(* (galacteek/ipfs/pubsub/service.py).                                       *)
EXTENDS PubsubService

(* The state of the service, its queue's bound included. *)
TypeOK ==
    /\ shuttingDown \in BOOLEAN /\ dbReady \in BOOLEAN /\ registered \in BOOLEAN
    /\ tskServe \in Loops \union {None} /\ tskProcess \in Procs \union {None}
    /\ starts \in 0..MaxStarts /\ arrivals \in 0..MaxArrivals
    /\ serve \in [Loops -> [at : {"off", "start", "later", "listen", "put"},
                            msg : Msgs \union {None}]]
    /\ queue \in Seq(Msgs) /\ Len(queue) <= QueueSize
    /\ proc \in [Procs -> [at : {"off", "get", "decode", "record", "search", "exchange",
                                 "write", "abort"}, msg : Msgs \union {None}]]
    /\ recorded \subseteq Msgs
    /\ ctl \in [at : {"idle", "close", "wait", "late", "nap", "db"}, again : BOOLEAN]

(* "to be later treated in the processMessages() task" (lines 349-350): the  *)
(* messages are treated by one task, however often the service is stopped    *)
(* and started: stopListening() waits for the old task, even one that its    *)
(* cancellation does not stop at once, and startListening() comes after it.  *)
OneTreats == \A p, q \in Procs : proc[p] # Off /\ proc[q] # Off => p = q

(* While the database knows a digest of the last day, no exchange of it is   *)
(* handled, and two tasks never handle the same one at once, as MsgSpy       *)
(* (lines 55-79) promises: it reads and writes the database in two steps,    *)
(* and only the sequence of processMessages(), across stops and starts,      *)
(* makes them one.                                                           *)
Handles(p, m) == proc[p].msg = m /\ proc[p].at \in {"exchange", "write", "abort"}

ExchangedOnce ==
    \A p \in Procs, m \in Msgs : Handles(p, m) =>
        m \notin recorded /\ \A q \in Procs \ {p} : ~Handles(q, m)

-----------------------------------------------------------------------------
(* Fairness: the event loop runs what can run, delays end.  Nobody has to    *)
(* send a message or to stop the service or change the operator.             *)
FairSpec ==
    /\ Spec
    /\ WF_vars(Start) /\ WF_vars(SetDb) /\ WF_vars(ControlStep)
    /\ \A p \in Procs : WF_vars(Process(p))
    /\ \A l \in Loops : WF_vars(ServeStep(l))

(* When the IPFS operator has changed, the service listens again (lines 223  *)
(* to 227) whatever its tasks were doing, e.g. waiting to put a message on a *)
(* full queue, or ignoring a cancellation; unless it is stopped for good.    *)
Listens ==
    ctl.again ~>
        \/ \E l \in Loops : serve[l].at = "listen"
        \/ ctl.at # "idle" /\ ~ctl.again /\ shuttingDown
=============================================================================
