---------------------------- MODULE PubsubProofs ----------------------------
(* Proofs about PubsubService for any jobs, messages and bounds. *)
EXTENDS PubsubProperties, TLAPS

Serving == [at : {"off", "start", "later", "listen", "put"}, msg : Msgs \union {None}]
Treating == [at : {"off", "get", "decode", "record", "search", "exchange", "write", "abort"},
             msg : Msgs \union {None}]
Control == [at : {"idle", "close", "wait", "late", "nap", "db"}, again : BOOLEAN]

(* Whoever needs a message has one, a job that is waited for exists, and     *)
(* there is a start left for an operator that will start the service again.  *)
Holding ==
    /\ \A l \in Loops : serve[l].at = "put" => serve[l].msg \in Msgs
    /\ \A p \in Procs : proc[p].at \notin {"off", "get"} => proc[p].msg \in Msgs
    /\ ctl.at \in {"wait", "late"} => tskProcess \in Procs
    /\ ctl.at = "nap" => ctl.again
    /\ ctl.again => starts < MaxStarts

TInv == TypeOK /\ Holding

LEMMA TypeInit == Init => TInv
<1> SUFFICES ASSUME Init PROVE TInv
  OBVIOUS
<1>1. Off \in [at : {"off"}, msg : {None}] /\ Idle \in [at : {"idle"}, again : {FALSE}]
  BY DEF Off, Idle
<1>2. queue \in Seq(Msgs) /\ Len(queue) <= QueueSize
  BY PubsubAssumption DEF Init
<1>3. starts \in 0..MaxStarts /\ arrivals \in 0..MaxArrivals
  BY PubsubAssumption DEF Init
<1>4. TypeOK
  BY <1>1, <1>2, <1>3 DEF TypeOK, Init
<1>5. Holding
  BY <1>1 DEF Holding, Init
<1> QED
  BY <1>4, <1>5 DEF TInv

(* A step of the jobs that serve() runs in. *)
LEMMA TypeServe ==
    ASSUME TInv, NEW l \in Loops,
           Subscribe(l) \/ Put(l) \/ ServeError(l) \/ \E m \in Msgs : Receive(l, m)
    PROVE  TInv'
<1> USE PubsubAssumption DEF TInv, life, work
<1>1. /\ ctl' = ctl /\ proc' = proc /\ starts' = starts /\ recorded' = recorded
      /\ shuttingDown' = shuttingDown /\ dbReady' = dbReady /\ tskProcess' = tskProcess
  BY DEF Subscribe, Put, ServeError, Receive
<1>2. PICK x \in Serving : /\ serve' = [serve EXCEPT ![l] = x]
                           /\ x.at = "put" => x.msg \in Msgs
  <2>1. CASE \E m \in Msgs : Receive(l, m)
    <3>1. PICK m \in Msgs : Receive(l, m)
      BY <2>1
    <3> DEFINE x == IF shuttingDown THEN Off ELSE [at |-> "put", msg |-> m]
    <3>2. x \in Serving /\ (x.at = "put" => x.msg \in Msgs)
      BY DEF Off, Serving
    <3> QED
      BY <3>1, <3>2 DEF Receive
  <2>2. CASE Subscribe(l) \/ Put(l) \/ ServeError(l)
    BY <2>2 DEF Subscribe, Put, ServeError, Serving
  <2> QED
    BY <2>1, <2>2
<1>3. serve' \in [Loops -> Serving]
  BY <1>2 DEF TypeOK, Serving
<1>4. queue' \in Seq(Msgs) /\ Len(queue') <= QueueSize
  <2>1. CASE Put(l)
    <3>1. serve[l].msg \in Msgs /\ queue \in Seq(Msgs) /\ Len(queue) < QueueSize
          /\ queue' = Append(queue, serve[l].msg)
      BY <2>1 DEF Put, TypeOK, Holding
    <3> QED
      BY <3>1
  <2>2. CASE ~Put(l)
    BY <2>2 DEF Subscribe, ServeError, Receive, TypeOK
  <2> QED
    BY <2>1, <2>2
<1>5. arrivals' \in 0..MaxArrivals
  BY DEF Subscribe, Put, ServeError, Receive, TypeOK, network
<1>6. tskServe' \in Loops \union {None} /\ registered' \in BOOLEAN
  BY DEF Subscribe, Put, ServeError, Receive, TypeOK
<1>7. TypeOK'
  BY <1>1, <1>3, <1>4, <1>5, <1>6 DEF TypeOK, Serving
<1>8. Holding'
  BY <1>1, <1>2 DEF Holding, TypeOK
<1> QED
  BY <1>7, <1>8

(* Where the job that treats a message goes. *)
LEMMA Going ==
    ASSUME TInv, NEW p \in Procs, NEW x \in Treating, Goes(p, x),
           x.at \notin {"off", "get"} => x.msg \in Msgs
    PROVE  /\ proc' \in [Procs -> Treating] /\ proc'[p] = x
           /\ \A q \in Procs : q # p => proc'[q] = proc[q]
           /\ \A q \in Procs : proc'[q].at \notin {"off", "get"} => proc'[q].msg \in Msgs
BY DEF TInv, TypeOK, Holding, Goes, Treating

LEMMA GoingTo ==
    ASSUME TInv, NEW p \in Procs, proc[p].at \notin {"off", "get"},
           NEW at \in {"off", "get", "decode", "record", "search", "exchange", "write", "abort"},
           GoesTo(p, at)
    PROVE  /\ proc' \in [Procs -> Treating] /\ proc'[p].at = at /\ proc'[p].msg = proc[p].msg
           /\ \A q \in Procs : q # p => proc'[q] = proc[q]
           /\ \A q \in Procs : proc'[q].at \notin {"off", "get"} => proc'[q].msg \in Msgs
<1> DEFINE x == [proc[p] EXCEPT !.at = at]
<1>1. proc[p] \in Treating /\ proc[p].msg \in Msgs
  BY DEF TInv, TypeOK, Holding, Treating
<1>2. x \in Treating /\ x.at = at /\ x.msg = proc[p].msg
  BY <1>1 DEF Treating
<1>3. Goes(p, x)
  BY DEF GoesTo
<1> HIDE DEF x
<1> QED
  BY <1>1, <1>2, <1>3, Going

LEMMA Ends == /\ Off \in Treating /\ Off.at = "off"
              /\ Again \in Treating /\ Again.at \in {"off", "get"}
BY DEF Off, Again, Treating

(* A step of a job that treats messages: it runs, and no other job moves.    *)
LEMMA ProcessMoves ==
    ASSUME TInv, NEW p \in Procs, Process(p)
    PROVE  /\ proc' \in [Procs -> Treating] /\ proc[p] # Off
           /\ \A q \in Procs : q # p => proc'[q] = proc[q]
           /\ \A q \in Procs : proc'[q].at \notin {"off", "get"} => proc'[q].msg \in Msgs
<1> USE DEF TInv
<1>0. proc[p] # Off
  BY DEF Process, Get, Decode, Record, Search, Exchange, Write, Off
<1>1. CASE Get(p)
  <2> DEFINE x == IF shuttingDown THEN Off ELSE [at |-> "decode", msg |-> Head(queue)]
  <2>1. Head(queue) \in Msgs
    BY <1>1 DEF Get, TypeOK
  <2>2. x \in Treating /\ (x.at \notin {"off", "get"} => x.msg \in Msgs)
    BY <2>1 DEF Treating, Off
  <2>3. Goes(p, x)
    BY <1>1 DEF Get, Goes
  <2> HIDE DEF x
  <2> QED
    BY <1>0, <2>2, <2>3, Going
<1>2. CASE \E at \in {"record", "search", "exchange", "write"} :
              proc[p].at \notin {"off", "get"} /\ GoesTo(p, at)
  BY <1>0, <1>2, GoingTo
<1>3. CASE Goes(p, Again) \/ Goes(p, Off)
  BY <1>0, <1>3, Ends, Going
<1>4. Decode(p) \/ Record(p) \/ Search(p) \/ Exchange(p) \/ Write(p) =>
        \/ \E at \in {"record", "search", "exchange", "write"} :
              proc[p].at \notin {"off", "get"} /\ GoesTo(p, at)
        \/ Goes(p, Again) \/ Goes(p, Off)
  BY DEF Decode, Record, Search, Exchange, Write
<1> QED
  BY <1>1, <1>2, <1>3, <1>4 DEF Process

LEMMA TypeProcess == ASSUME TInv, NEW p \in Procs, Process(p) PROVE TInv'
<1> USE DEF TInv, life, network
<1>1. /\ ctl' = ctl /\ serve' = serve /\ starts' = starts /\ arrivals' = arrivals
      /\ shuttingDown' = shuttingDown /\ dbReady' = dbReady /\ registered' = registered
      /\ tskServe' = tskServe /\ tskProcess' = tskProcess
  BY DEF Process, Get, Decode, Record, Search, Exchange, Write
<1>2. queue' \in Seq(Msgs) /\ Len(queue') <= QueueSize
  <2>1. CASE Get(p)
    BY <2>1, PubsubAssumption DEF Get, TypeOK
  <2>2. CASE ~Get(p)
    BY <2>2 DEF Process, Decode, Record, Search, Exchange, Write, TypeOK
  <2> QED
    BY <2>1, <2>2
<1>3. recorded' \subseteq Msgs
  BY DEF Process, Get, Decode, Record, Search, Exchange, Write, TypeOK, Holding
<1>4. TypeOK'
  BY <1>1, <1>2, <1>3, ProcessMoves DEF TypeOK, Treating
<1>5. Holding'
  BY <1>1, ProcessMoves DEF Holding
<1> QED
  BY <1>4, <1>5

(* What a cancellation leaves: the job ends, or goes on with its message; a  *)
(* digest that it adds is that of a job that it ends.                        *)
LEMMA Cancels ==
    ASSUME TInv, NEW p \in Procs, Cancel(p)
    PROVE  /\ proc' \in [Procs -> Treating] /\ recorded' \subseteq Msgs
           /\ \A q \in Procs : q # p => proc'[q] = proc[q]
           /\ \A q \in Procs : proc'[q].at \notin {"off", "get"} => proc'[q].msg \in Msgs
           /\ \/ proc'[p] = Off /\ recorded' \subseteq recorded \union {proc[p].msg}
              \/ proc[p].at = "record" /\ proc'[p].at = "search" /\ recorded' = recorded
              \/ /\ proc[p].at = "exchange" /\ recorded' = recorded
                 /\ proc'[p].at \in {"exchange", "abort"} /\ proc'[p].msg = proc[p].msg
<1> USE DEF TInv
<1>1. /\ recorded' \subseteq recorded \union {proc[p].msg}
      /\ proc[p].at \notin {"write", "abort"} => recorded' = recorded
      /\ recorded' \subseteq Msgs
  BY DEF Cancel, TypeOK, Holding
<1>2. CASE proc[p].at = "record"
  <2>1. GoesTo(p, "search")
    BY <1>2 DEF Cancel
  <2> QED
    BY <1>1, <1>2, <2>1, GoingTo
<1>3. CASE proc[p].at = "exchange"
  <2>1. GoesTo(p, "abort") \/ proc' = proc
    BY <1>3 DEF Cancel
  <2>2. CASE GoesTo(p, "abort")
    BY <1>1, <1>3, <2>2, GoingTo
  <2>3. CASE proc' = proc
    BY <1>1, <1>3, <2>3 DEF TypeOK, Holding, Treating
  <2> QED
    BY <2>1, <2>2, <2>3
<1>4. CASE proc[p].at \notin {"record", "exchange"}
  <2>1. Goes(p, Off)
    BY <1>4 DEF Cancel
  <2> QED
    BY <1>1, <2>1, Ends, Going
<1> QED
  BY <1>2, <1>3, <1>4

(* The stop of the service begins. *)
LEMMA TypeStop ==
    ASSUME TInv, NEW again \in BOOLEAN, Stop(again), again => starts < MaxStarts
    PROVE  TInv'
<1> USE PubsubAssumption DEF TInv, work
<1>1. /\ tskServe' = tskServe /\ tskProcess' = tskProcess /\ dbReady' = dbReady
      /\ starts' = starts /\ arrivals' = arrivals /\ queue' = queue
      /\ proc' = proc /\ recorded' = recorded
      /\ shuttingDown' = TRUE /\ registered' \in BOOLEAN
      /\ ctl' = [at |-> "close", again |-> again]
  BY DEF Stop
<1>2. serve' \in [Loops -> Serving] /\ \A l \in Loops : serve'[l].at = "put" => serve'[l] = serve[l]
  BY DEF Stop, TypeOK, Off, Serving
<1>3. TypeOK'
  BY <1>1, <1>2 DEF TypeOK, Serving
<1>4. Holding'
  BY <1>1, <1>2 DEF Holding
<1> QED
  BY <1>3, <1>4

(* It waits for the job that treats messages: the job has ended and so does  *)
(* the stop, or the job is cancelled.                                        *)
LEMMA ControlMoves ==
    ASSUME TInv, ControlStep
    PROVE  /\ UNCHANGED <<life, network, queue>>
           /\ \/ Ended /\ Stopped /\ UNCHANGED work
              \/ /\ ~Ended /\ tskProcess \in Procs /\ Cancel(tskProcess)
                 /\ \E at \in {"wait", "late"} : ctl' = [ctl EXCEPT !.at = at]
BY DEF ControlStep, CloseProcess, CloseTimeout, Closed, Ended, TInv, TypeOK

LEMMA Stopping ==
    ASSUME TInv, Stopped
    PROVE  ctl' \in Control /\ ctl'.at \in {"idle", "nap"} /\ (ctl'.again <=> ctl.again)
           /\ (ctl'.at = "nap" => ctl'.again)
<1>1. ctl \in Control
  BY DEF TInv, TypeOK, Control
<1>2. CASE ctl.again
  BY <1>1, <1>2 DEF Stopped, Control
<1>3. CASE ~ctl.again
  BY <1>1, <1>3 DEF Stopped, Control, Idle
<1> QED
  BY <1>2, <1>3

LEMMA TypeControl == ASSUME TInv, ControlStep PROVE TInv'
<1> USE DEF TInv, life, network
<1>1. UNCHANGED <<life, network, queue>>
  BY ControlMoves
<1>2. CASE Ended /\ Stopped /\ UNCHANGED work
  <2>1. TypeOK'
    BY <1>1, <1>2, Stopping DEF TypeOK, Control, work
  <2>2. Holding'
    BY <1>1, <1>2, Stopping DEF Holding, work
  <2> QED
    BY <2>1, <2>2
<1>3. CASE /\ tskProcess \in Procs /\ Cancel(tskProcess)
           /\ \E at \in {"wait", "late"} : ctl' = [ctl EXCEPT !.at = at]
  <2>1. ctl' \in Control /\ ctl'.at \in {"wait", "late"} /\ ctl'.again = ctl.again
    BY <1>3 DEF TypeOK, Control
  <2>2. TypeOK'
    BY <1>1, <1>3, <2>1, Cancels DEF TypeOK, Control, Treating
  <2>3. Holding'
    BY <1>1, <1>3, <2>1, Cancels DEF Holding
  <2> QED
    BY <2>2, <2>3
<1> QED
  BY <1>2, <1>3, ControlMoves

(* The service starts. *)
LEMMA Starting ==
    ASSUME TInv, Start
    PROVE  \E l \in Loops, p \in Procs :
              /\ tskServe' = l /\ tskProcess' = p
              /\ serve' \in [Loops -> Serving]
              /\ \A k \in Loops : serve'[k].at = "put" => serve'[k] = serve[k]
              /\ proc' \in [Procs -> Treating] /\ proc'[p].at = "get"
              /\ \A q \in Procs : q # p => proc'[q] = proc[q]
<1>1. PICK l \in Loops, p \in Procs :
          /\ tskServe' = l /\ tskProcess' = p
          /\ serve' = [serve EXCEPT ![l].at = "start"]
          /\ proc' = [proc EXCEPT ![p].at = "get"]
  BY DEF Start
<1>2. serve \in [Loops -> Serving] /\ proc \in [Procs -> Treating]
  BY DEF TInv, TypeOK, Serving, Treating
<1> DEFINE x == [serve[l] EXCEPT !.at = "start"]
           y == [proc[p] EXCEPT !.at = "get"]
<1>3. x \in Serving /\ x.at = "start"
  <2>1. serve[l] \in Serving
    BY <1>2
  <2> QED
    BY <2>1 DEF Serving
<1>4. y \in Treating /\ y.at = "get"
  <2>1. proc[p] \in Treating
    BY <1>2
  <2> QED
    BY <2>1 DEF Treating
<1>5. serve' = [serve EXCEPT ![l] = x] /\ proc' = [proc EXCEPT ![p] = y]
  BY <1>1
<1> HIDE DEF x, y
<1>6. serve' \in [Loops -> Serving] /\ \A k \in Loops : serve'[k].at = "put" => serve'[k] = serve[k]
  BY <1>2, <1>3, <1>5
<1>7. proc' \in [Procs -> Treating] /\ proc'[p].at = "get" /\ \A q \in Procs : q # p => proc'[q] = proc[q]
  BY <1>2, <1>4, <1>5
<1> QED
  BY <1>1, <1>6, <1>7

LEMMA TypeStart == ASSUME TInv, Start PROVE TInv'
<1> USE PubsubAssumption DEF TInv
<1>1. PICK l \in Loops, p \in Procs :
          /\ tskServe' = l /\ tskProcess' = p
          /\ serve' \in [Loops -> Serving]
          /\ \A k \in Loops : serve'[k].at = "put" => serve'[k] = serve[k]
          /\ proc' \in [Procs -> Treating] /\ proc'[p].at = "get"
          /\ \A q \in Procs : q # p => proc'[q] = proc[q]
  BY Starting
<1>2. /\ ctl.at = "nap" /\ ctl' = [at |-> "db", again |-> FALSE]
      /\ shuttingDown' = FALSE /\ starts' = starts + 1 /\ dbReady' = dbReady
      /\ registered' = registered /\ arrivals' = arrivals /\ queue' = queue /\ recorded' = recorded
  BY DEF Start
<1>3. starts' \in 0..MaxStarts
  BY <1>2 DEF Holding, TypeOK
<1>4. TypeOK'
  BY <1>1, <1>2, <1>3 DEF TypeOK, Serving, Treating
<1>5. Holding'
  BY <1>1, <1>2 DEF Holding
<1> QED
  BY <1>4, <1>5

LEMMA TypeStep == TInv /\ [Next]_vars => TInv'
<1> SUFFICES ASSUME TInv, [Next]_vars PROVE TInv'
  OBVIOUS
<1>1. CASE UNCHANGED vars
  BY <1>1 DEF TInv, TypeOK, Holding, vars, life, network, work
<1>2. CASE \E m \in Msgs : Forget(m)
  BY <1>2 DEF Forget, TInv, TypeOK, Holding, life, network
<1>3. CASE SetDb
  <2>1. ctl' = Idle /\ Idle.at = "idle" /\ Idle.again = FALSE /\ Idle \in Control
    BY <1>3 DEF SetDb, Idle, Control
  <2> QED
    BY <1>3, <2>1 DEF SetDb, TInv, TypeOK, Holding, Control, network, work
<1>4. CASE Start
  BY <1>4, TypeStart
<1>5. CASE OperatorChange \/ OnStop
  BY <1>5, TypeStop DEF OperatorChange, OnStop
<1>6. CASE ControlStep
  BY <1>6, TypeControl
<1>7. CASE \E p \in Procs : Process(p)
  BY <1>7, TypeProcess
<1>8. CASE \E l \in Loops : Subscribe(l) \/ Put(l) \/ ServeError(l) \/ \E m \in Msgs : Receive(l, m)
  BY <1>8, TypeServe
<1> QED
  BY <1>1, <1>2, <1>3, <1>4, <1>5, <1>6, <1>7, <1>8 DEF Next, ServeStep

(* Every reachable state has the types that TypeOK says. *)
THEOREM TypeCorrect == Spec => []TypeOK
<1>1. Spec => []TInv
  BY TypeInit, TypeStep, PTL DEF Spec
<1>2. TInv => TypeOK
  BY DEF TInv
<1> QED
  BY <1>1, <1>2, PTL

-----------------------------------------------------------------------------
(* Only the job that tskProcess names may be running, and it has ended when  *)
(* the service is about to be started again.  The digest that it handles is  *)
(* not in the database.                                                      *)
Quiet == \A p \in Procs : proc[p] = Off

OneInv ==
    /\ \A p \in Procs : proc[p] # Off => p = tskProcess
    /\ ctl.at = "nap" => Quiet
    /\ \A p \in Procs, m \in Msgs : Handles(p, m) => m \notin recorded

LEMMA OneInit == Init => OneInv
BY DEF Init, OneInv, Quiet, Idle, Handles, Off

(* A step of the job that treats messages.                                   *)
LEMMA OneProcess == ASSUME TInv, OneInv, NEW p \in Procs, Process(p) PROVE OneInv'
<1>1. /\ proc[p] # Off /\ p = tskProcess /\ tskProcess' = tskProcess /\ ctl' = ctl
      /\ \A q \in Procs : q # p => proc'[q] = proc[q] /\ proc[q] = Off
  BY ProcessMoves DEF OneInv, Process, Get, Decode, Record, Search, Exchange, Write, life
<1>2. \A m \in Msgs : Handles(p, m)' => m \notin recorded'
  <2>1. CASE Goes(p, Again) \/ Goes(p, Off)
    <3>1. proc'[p].at \in {"off", "get"}
      BY <2>1, Ends DEF Goes, TInv, TypeOK
    <3> QED
      BY <3>1 DEF Handles
  <2>2. CASE Get(p)
    <3>1. proc'[p].at \in {"off", "decode"}
      BY <2>2 DEF Get, TInv, TypeOK, Off
    <3> QED
      BY <3>1 DEF Handles
  <2>3. CASE \E at \in {"record", "search"} : proc[p].at \notin {"off", "get"} /\ GoesTo(p, at)
    <3>1. proc'[p].at \in {"record", "search"}
      BY <2>3, GoingTo
    <3> QED
      BY <3>1 DEF Handles
  <2>4. CASE proc[p].at = "search" /\ proc[p].msg \notin recorded /\ GoesTo(p, "exchange")
             /\ recorded' = recorded
    <3>1. proc'[p].msg = proc[p].msg
      BY <2>4, GoingTo
    <3> QED
      BY <2>4, <3>1 DEF Handles
  <2>5. CASE proc[p].at = "exchange" /\ GoesTo(p, "write") /\ recorded' = recorded
    <3>1. proc'[p].msg = proc[p].msg
      BY <2>5, GoingTo
    <3> QED
      BY <2>5, <3>1 DEF Handles, OneInv
  <2> QED
    BY <2>1, <2>2, <2>3, <2>4, <2>5 DEF Process, Decode, Record, Search, Exchange, Write
<1>3. \A q \in Procs, m \in Msgs : Handles(q, m)' => q = p
  BY <1>1 DEF Handles, Off
<1>4. ctl'.at # "nap"
  BY <1>1 DEF OneInv, Quiet
<1> QED
  BY <1>1, <1>2, <1>3, <1>4 DEF OneInv

LEMMA OneControl == ASSUME TInv, OneInv, ControlStep PROVE OneInv'
<1>1. UNCHANGED <<life, network, queue>>
  BY ControlMoves
<1>2. CASE Ended /\ Stopped /\ UNCHANGED work
  <2>1. Quiet'
    BY <1>2, PubsubAssumption DEF Ended, OneInv, Quiet, work, TInv, TypeOK
  <2> QED
    BY <1>1, <1>2, <2>1 DEF OneInv, Quiet, work, life, Handles
<1>3. CASE /\ ~Ended /\ tskProcess \in Procs /\ Cancel(tskProcess)
           /\ \E at \in {"wait", "late"} : ctl' = [ctl EXCEPT !.at = at]
  <2> DEFINE p == tskProcess
  <2>1. ctl'.at # "nap"
    BY <1>3 DEF TInv, TypeOK
  <2>2. \A q \in Procs : q # p => proc'[q] = proc[q] /\ proc[q] = Off
    BY <1>3, Cancels DEF OneInv
  <2>3. \A m \in Msgs : Handles(p, m)' => m \notin recorded'
    <3>1. CASE proc'[p].at \in {"off", "search"}
      BY <3>1, <1>1 DEF Handles, life
    <3>2. CASE /\ proc[p].at = "exchange" /\ recorded' = recorded /\ proc'[p].msg = proc[p].msg
      BY <1>3, <3>2, <1>1 DEF Handles, OneInv, life
    <3> QED
      BY <1>3, <3>1, <3>2, Cancels, Ends
  <2>4. \A q \in Procs, m \in Msgs : Handles(q, m)' => q = p
    BY <2>2 DEF Handles, Off
  <2> QED
    BY <1>1, <2>1, <2>2, <2>3, <2>4 DEF OneInv, life
<1> QED
  BY <1>2, <1>3, ControlMoves

LEMMA OneStep ==
    ASSUME TInv, OneInv, [Next]_vars
    PROVE  OneInv'
<1>1. CASE UNCHANGED vars
  BY <1>1 DEF OneInv, Quiet, Handles, vars, life, work
<1>2. CASE \E m \in Msgs : Forget(m)
  BY <1>2 DEF Forget, OneInv, Quiet, Handles, life
<1>3. CASE SetDb \/ OperatorChange \/ OnStop
  <2>1. proc' = proc /\ recorded' = recorded /\ tskProcess' = tskProcess /\ ctl'.at # "nap"
    BY <1>3 DEF SetDb, OperatorChange, OnStop, Stop, work, Idle
  <2> QED
    BY <2>1 DEF OneInv, Handles
<1>4. CASE Start
  <2>1. PICK p \in Procs : /\ tskProcess' = p /\ proc'[p].at = "get"
                           /\ \A q \in Procs : q # p => proc'[q] = proc[q]
    BY <1>4, Starting
  <2>2. Quiet /\ ctl'.at = "db" /\ recorded' = recorded
    BY <1>4 DEF Start, OneInv
  <2>3. \A q \in Procs, m \in Msgs : ~Handles(q, m)'
    BY <2>1, <2>2 DEF Quiet, Handles, Off
  <2> QED
    BY <2>1, <2>2, <2>3 DEF OneInv, Quiet
<1>5. CASE ControlStep
  BY <1>5, OneControl
<1>6. CASE \E p \in Procs : Process(p)
  BY <1>6, OneProcess
<1>7. CASE \E l \in Loops : Subscribe(l) \/ Put(l) \/ ServeError(l) \/ \E m \in Msgs : Receive(l, m)
  <2>1. proc' = proc /\ recorded' = recorded /\ tskProcess' = tskProcess /\ ctl' = ctl
    BY <1>7 DEF Subscribe, Put, ServeError, Receive, life, work
  <2> QED
    BY <2>1 DEF OneInv, Quiet, Handles
<1> QED
  BY <1>1, <1>2, <1>3, <1>4, <1>5, <1>6, <1>7 DEF Next, ServeStep

LEMMA OneAlways == Spec => []OneInv
<1>1. Spec => []TInv
  BY TypeInit, TypeStep, PTL DEF Spec
<1>2. TInv /\ OneInv /\ [Next]_vars => OneInv'
  BY OneStep
<1> QED
  BY <1>1, <1>2, OneInit, PTL DEF Spec

(* One task treats the messages, however often the service is stopped,       *)
(* started, and loses its subscription.                                      *)
THEOREM OneTaskTreats == Spec => []OneTreats
<1>1. OneInv => OneTreats
  BY DEF OneInv, OneTreats
<1> QED
  BY <1>1, OneAlways, PTL

(* An exchange that the database knows is not handled, and none is handled   *)
(* by two tasks at once: the lookup and the write of MsgSpy are one step for *)
(* the tasks of the service, whatever stops and starts come between them.    *)
THEOREM ExchangeHandledOnce == Spec => []ExchangedOnce
<1>1. OneInv => ExchangedOnce
  BY DEF OneInv, ExchangedOnce, Handles, Off
<1> QED
  BY <1>1, OneAlways, PTL
=============================================================================
