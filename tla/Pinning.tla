------------------------------ MODULE Pinning ------------------------------
(* PinningMaster (galacteek/ipfs/pinning/__init__.py): orders wait in a      *)
(* queue, process() starts a task for each path that is not registered yet,  *)
(* and a status file lets a restarted application take the unfinished pins   *)
(* up again.  The locks of pinStatus are never held across a suspension      *)
(* point, that of the status file is.                                        *)
EXTENDS Integers, Sequences, SequencesExt, FiniteSets

CONSTANTS
    Paths, QNames,
    Faults,     \* what may go wrong, a subset of FaultKinds
    MaxStalled, \* maxStalledMessages
    MaxOrders   \* bound: orders between two starts

FaultKinds == {"api",    \* the node answers with an error
               "error",  \* any other exception, e.g. a lost connection
               "cut",    \* the node's answer ends without the pins
               "crash"}

ASSUME PinningAssumption ==
    /\ Faults \subseteq FaultKinds
    /\ MaxStalled \in Nat \ {0} /\ MaxOrders \in Nat

VARIABLES
    up,     \* the application runs, is stopping, or is down
    orders, \* the orders queued since the start, the first `taken` of them
    taken,  \*   being out of the queue: an order is named by its position
    task,   \* what became of each order
    item,   \* the status record that the task of an order made
    entry,  \* pinStatus: the order whose record is registered, 0 if none
    savers, \* who holds the status file's lock (first) and who waits for it
    open,   \* the holder has opened the file,
    snap,   \*   and writes this
    file    \* the status file

queue == <<orders, taken>>
state == <<item, entry>>
saves == <<savers, open, snap, file>>
vars  == <<up, queue, task, state, saves>>

Ids     == 1..MaxOrders
User    == 0     \* the coroutine that cancels
Stopper == -1    \* the coroutine that stops the service
Keys    == QNames \X Paths
Order   == [qname : QNames, path : Paths]
Item    == [status : {"none", "empty", "progress", "pins"}, stalled : 0..(MaxStalled - 1),
            moved : BOOLEAN, cancel : BOOLEAN, pinned : BOOLEAN, old : BOOLEAN]
NewItem == [status |-> "none", stalled |-> 0, moved |-> FALSE, cancel |-> FALSE,
            pinned |-> FALSE, old |-> FALSE]
Cut     == {<<>>}  \* a status file that was opened and not written
Nothing == [k \in Keys |-> 0]

Registered(ent, path) == \E q \in QNames : ent[q, path] # 0

(* The operators named ..Mutant are faulty variants of the definition that    *)
(* follows: each shows that a property notices that fault.                   *)
ForgetNothingMutant(ent, paths) == ent

(* pathDelete(): a path is removed from every queue. *)
Delete(ent, paths) == [k \in Keys |-> IF k[2] \in paths THEN 0 ELSE ent[k]]

(* status(): the items that are not pinned. *)
Unfinished == {k \in Keys : entry[k] # 0 /\ ~item[entry[k]].pinned}

Boot ==
    /\ taken' = 0
    /\ task' = [i \in Ids |-> "none"] /\ item' = [i \in Ids |-> NewItem]
    /\ entry' = Nothing
    /\ savers' = <<>> /\ open' = FALSE /\ snap' = {}

Init ==
    /\ up = "up" /\ orders = <<>> /\ taken = 0
    /\ task = [i \in Ids |-> "none"] /\ item = [i \in Ids |-> NewItem]
    /\ entry = Nothing
    /\ savers = <<>> /\ open = FALSE /\ snap = {} /\ file = {}

-----------------------------------------------------------------------------
(* queue(); the bound is far below the 1024 orders that make callers wait.    *)
(* An order is a path in a queue: nothing here depends on `recursive`.       *)
Queue(q, p) ==
    /\ up = "up" /\ Len(orders) < MaxOrders
    /\ orders' = Append(orders, [qname |-> q, path |-> p])
    /\ UNCHANGED <<up, taken, task, state, saves>>

Waiting == taken + 1..Len(orders)

(* cleanupStatus(), which runs at most once a minute. *)
Expired(ent) == {p \in Paths : \E q \in QNames : ent[q, p] # 0 /\ item[ent[q, p]].old}

(* The loop of process() does not suspend while orders are waiting, so the   *)
(* tasks it starts run only after it: two orders for one path may both start.*)
(* The status is cleaned after the first order, before the loop waits again. *)
Process ==
    /\ up = "up" /\ taken < Len(orders)
    /\ \E due \in BOOLEAN : entry' = IF due THEN Delete(entry, Expired(entry)) ELSE entry
    /\ LET known(i) == IF i = taken + 1 THEN entry ELSE entry'
       IN  task' = [i \in Ids |->
              IF i \notin Waiting THEN task[i]
              ELSE IF Registered(known(i), orders[i].path) THEN "dropped" ELSE "ready"]
    /\ taken' = Len(orders)
    /\ UNCHANGED <<up, orders, item, saves>>

-----------------------------------------------------------------------------
(* saveStatus(): opening the file empties it, the status is taken then, and  *)
(* is in the file when it is closed.                                         *)
Saving(who) == savers' = Append(savers, who) /\ UNCHANGED <<open, snap, file>>

SaveOpen ==
    /\ savers # <<>> /\ ~open /\ open' = TRUE
    /\ file' = Cut /\ snap' = Unfinished
    /\ UNCHANGED <<up, queue, task, state, savers>>

SaveClose ==
    /\ open /\ open' = FALSE
    /\ file' = snap /\ snap' = {} /\ savers' = Tail(savers)
    /\ LET who == Head(savers)
       IN  /\ task' = [i \in Ids |-> IF i # who THEN task[i]
                                     ELSE IF task[i] = "saving" THEN "pinning" ELSE "ended"]
           /\ up' = IF who = Stopper THEN "down" ELSE up
    /\ UNCHANGED <<queue, state>>

-----------------------------------------------------------------------------
(* pin() *)

Key(i) == <<orders[i].qname, orders[i].path>>

UnsavedMutant(i) ==
    /\ task[i] = "ready" /\ task' = [task EXCEPT ![i] = "pinning"]
    /\ entry' = [entry EXCEPT ![Key(i)] = i]
    /\ UNCHANGED <<up, queue, item, saves>>

(* pathRegister(), then saveStatus(). *)
PinStart(i) ==
    /\ task[i] = "ready" /\ task' = [task EXCEPT ![i] = "saving"]
    /\ entry' = [entry EXCEPT ![Key(i)] = i]
    /\ Saving(i)
    /\ UNCHANGED <<up, queue, item>>

(* The task ends and its path is not registered any more. *)
GiveUp(i) ==
    /\ task' = [task EXCEPT ![i] = "ended"]
    /\ entry' = Delete(entry, {orders[i].path})
    /\ UNCHANGED item

CancelUnseenMutant(i) == FALSE
CancelSeen(i) == item[i].cancel

OffByOneMutant(n)     == n > MaxStalled
StartOverMutant(i, m) == (item[i].stalled + 1) % MaxStalled

(* Messages without progress are counted until there has been some. *)
Moved(i, m)   == item[i].moved \/ m = "progress"
Stalled(i, m) == item[i].stalled + (IF m = "empty" /\ ~Moved(i, m) THEN 1 ELSE 0)
TooMany(n)    == n >= MaxStalled

(* A message comes while the pin goes on. *)
PinMessage(i) ==
    /\ task[i] = "pinning" /\ item[i].status # "pins"
    /\ \E m \in {"empty", "progress", "pins"} :
          IF CancelSeen(i) \/ TooMany(Stalled(i, m)) THEN GiveUp(i)
          ELSE /\ item' = [item EXCEPT ![i].status = m, ![i].moved = Moved(i, m),
                                       ![i].stalled = Stalled(i, m)]
               /\ UNCHANGED <<task, entry>>
    /\ UNCHANGED <<up, queue, saves>>

(* APIError *)
PinError(i) ==
    /\ "api" \in Faults /\ task[i] = "pinning"
    /\ GiveUp(i)
    /\ UNCHANGED <<up, queue, saves>>

(* The decorator ipfsOp hides the exception; the item stays registered. *)
PinLost(i) ==
    /\ "error" \in Faults /\ task[i] = "pinning"
    /\ task' = [task EXCEPT ![i] = "ended"]
    /\ UNCHANGED <<up, queue, state, saves>>

(* The messages end: 'Invalid pin status' when there was none. *)
PinInvalid(i) ==
    /\ "cut" \in Faults /\ task[i] = "pinning"
    /\ item[i].status \in {"none", "empty"}
    /\ task' = [task EXCEPT ![i] = "ended"]
    /\ UNCHANGED <<up, queue, state, saves>>

PinDone(i) ==
    /\ task[i] = "pinning" /\ task' = [task EXCEPT ![i] = "pinned"]
    /\ item[i].status = "pins" \/ ("cut" \in Faults /\ item[i].status = "progress")
    /\ item' = [item EXCEPT ![i].pinned = (item[i].status = "pins")]
    /\ Saving(i)
    /\ UNCHANGED <<up, queue, entry>>

(* pinnedExpires seconds have passed. *)
Expire(i) ==
    /\ item[i].pinned /\ ~item[i].old
    /\ item' = [item EXCEPT ![i].old = TRUE]
    /\ UNCHANGED <<up, queue, task, entry, saves>>

(* cancel(): one call at a time, saved like the rest. *)
Cancel(k) ==
    /\ up = "up" /\ entry[k] # 0 /\ ~Contains(savers, User)
    /\ item' = [item EXCEPT ![entry[k]].cancel = TRUE]
    /\ Saving(User)
    /\ UNCHANGED <<up, queue, task, entry>>

-----------------------------------------------------------------------------
(* stop(): process() is closed, the status is saved. *)
Stop ==
    /\ up = "up" /\ up' = "stopping"
    /\ Saving(Stopper)
    /\ UNCHANGED <<queue, task, state>>

Crash ==
    /\ "crash" \in Faults /\ up # "down" /\ up' = "down"
    /\ UNCHANGED <<queue, task, state, saves>>

(* start(): restoreStatus() queues the items of the file again; an empty     *)
(* file cannot be read and is ignored.                                       *)
Start ==
    /\ up = "down" /\ up' = "up"
    /\ Boot
    /\ file' = file
    /\ \E restored \in SetToSeqs(IF file = Cut THEN {} ELSE file) :
          orders' = [i \in DOMAIN restored |-> [qname |-> restored[i][1], path |-> restored[i][2]]]

Pin(i) == \/ PinStart(i) \/ PinMessage(i) \/ PinError(i) \/ PinLost(i)
          \/ PinInvalid(i) \/ PinDone(i) \/ Expire(i)

Next ==
    \/ Stop \/ Crash \/ Start
    \/ /\ up # "down"
       /\ \/ Process \/ SaveOpen \/ SaveClose
          \/ \E q \in QNames, p \in Paths : Queue(q, p)
          \/ \E k \in Keys : Cancel(k)
          \/ \E i \in Ids : Pin(i)

Spec == Init /\ [][Next]_vars
=============================================================================
