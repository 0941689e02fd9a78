------------------------- MODULE PinningProperties -------------------------
(* What PinningMaster must guarantee (galacteek/ipfs/pinning/__init__.py). *)
EXTENDS Pinning

Live == {"ready", "saving", "pinning", "pinned"}

(* The state of the orchestrator and its status file. *)
TypeOK ==
    /\ up \in {"up", "stopping", "down"}
    /\ orders \in Seq(Order) /\ Len(orders) <= MaxOrders
    /\ taken \in 0..Len(orders)
    /\ task \in [Ids -> Live \union {"none", "dropped", "ended"}]
    /\ item \in [Ids -> Item]
    /\ entry \in [Keys -> 0..MaxOrders]
    /\ savers \in Seq(Ids \union {User, Stopper}) /\ (open => savers # <<>>)
    /\ open \in BOOLEAN /\ snap \subseteq Keys
    /\ file \in (SUBSET Keys) \union {Cut}

(* Whenever nobody is writing the status file, it holds every unfinished pin *)
(* that is registered: stopping or losing the application then loses none.   *)
UnfinishedAreSaved == savers = <<>> => up = "down" \/ Unfinished \subseteq file

(* An order that is dropped as 'already queued' (line 350) is served by      *)
(* another: its path is pinned or a task is pinning it, provided that no     *)
(* exception and no short answer leaves the path registered behind.  This is *)
(* about paths: pathRegistered() (line 349) does not ask whether the other   *)
(* order is recursive, so a recursive one may be served by one that is not.  *)
Served(p) ==
    \/ \E i \in DOMAIN orders : orders[i].path = p /\ task[i] \in Live
    \/ \E k \in Keys : k[2] = p /\ entry[k] # 0 /\ item[entry[k]].pinned
DroppedAreServed ==
    [][\A i \in Ids : task[i] # "dropped" /\ task'[i] = "dropped" => Served(orders'[i].path)]_vars

-----------------------------------------------------------------------------
(* Fairness: the event loop and the threads that write files run what can    *)
(* run; the node goes on answering a pin, or its answer ends.  No user has   *)
(* to queue, cancel, stop or start anything.                                 *)
FairSpec ==
    /\ Spec
    /\ WF_vars(up # "down" /\ Process)
    /\ WF_vars(up # "down" /\ (SaveOpen \/ SaveClose))
    /\ \A i \in Ids : WF_vars(up # "down" /\ (PinStart(i) \/ PinMessage(i) \/ PinDone(i)))

(* A cancelled item leaves the queue, unless its pin ends before the cancel  *)
(* is seen (the flag is only looked at when a message comes).                *)
CancelEnds == \A k \in Keys, i \in Ids :
    entry[k] = i /\ item[i].cancel ~> (entry[k] # i \/ item[i].pinned \/ up = "down")

(* An object that never makes progress is given up after maxStalledMessages. *)
StalledEnds == \A i \in Ids :
    task[i] = "ready" ~> (task[i] \in {"ended", "none"} \/ item[i].moved \/ up = "down")
=============================================================================
