--------------------------- MODULE PinningProofs ---------------------------
(* Proofs about Pinning for any paths and queues, any bounds and, except     *)
(* where a theorem says so, any faults.                                      *)
EXTENDS PinningProperties, FiniteSetTheorems, TLAPS

(* Queues, tasks and records.  A path is registered for an order that has    *)
(* been taken, under the name of its queue.                                  *)
OrdersOK ==
    /\ up \in {"up", "stopping", "down"}
    /\ orders \in Seq(Order) /\ Len(orders) <= MaxOrders
    /\ taken \in 0..Len(orders)
    /\ task \in [Ids -> Live \union {"none", "dropped", "ended"}]
    /\ \A i \in Ids : task[i] = "ready" => i <= taken
    /\ item \in [Ids -> Item]
    /\ entry \in [Keys -> 0..MaxOrders]
    /\ \A k \in Keys : entry[k] # 0 => entry[k] <= taken /\ Key(entry[k]) = k

(* A set of pins that no more orders than the bound can register. *)
Fits(S) == S \subseteq Keys /\ IsFiniteSet(S) /\ Cardinality(S) <= MaxOrders

(* The status file and those who write it. *)
FileOK ==
    /\ savers \in Seq(Ids \union {User, Stopper})
    /\ open \in BOOLEAN /\ (open => savers # <<>>)
    /\ Fits(snap)
    /\ file = Cut \/ Fits(file)

(* What is unfinished is in the file, is being written to it, or will be by  *)
(* a saver that has not opened it yet.                                       *)
Covered ==
    \/ up = "down"
    \/ savers # <<>> /\ ~open
    \/ Len(savers) > 1
    \/ open /\ Unfinished \subseteq snap
    \/ savers = <<>> /\ Unfinished \subseteq file

Sound == OrdersOK /\ FileOK

(* An item keeps its type when it is cancelled or gets old.                  *)
LEMMA Flagged ==
    ASSUME NEW it \in [Ids -> Item], NEW i
    PROVE  /\ [it EXCEPT ![i].cancel = TRUE] \in [Ids -> Item]
           /\ [it EXCEPT ![i].old = TRUE] \in [Ids -> Item]
<1>1. CASE i \notin Ids
  BY <1>1
<1>2. CASE i \in Ids
  <2>1. it[i] \in Item
    BY <1>2
  <2>2. [it[i] EXCEPT !.cancel = TRUE] \in Item /\ [it[i] EXCEPT !.old = TRUE] \in Item
    BY <2>1 DEF Item
  <2> QED
    BY <1>2, <2>2
<1> QED
  BY <1>1, <1>2

LEMMA NothingFits == Fits({})
BY FS_EmptySet, PinningAssumption DEF Fits

(* Every key has at most one order, so the unfinished pins fit. *)
LEMMA UnfinishedFits == ASSUME OrdersOK PROVE Fits(Unfinished)
<1> DEFINE f == [k \in Unfinished |-> entry[k]]
<1>1. \A k \in Unfinished : k \in Keys /\ entry[k] \in 1..MaxOrders /\ Key(entry[k]) = k
  BY PinningAssumption DEF OrdersOK, Unfinished
<1>2. f \in Injection(Unfinished, 1..MaxOrders)
  BY <1>1 DEF Injection, IsInjective
<1>3. IsFiniteSet(1..MaxOrders) /\ Cardinality(1..MaxOrders) = MaxOrders
  BY FS_Interval, PinningAssumption
<1>4. IsFiniteSet(Unfinished) /\ Cardinality(Unfinished) <= MaxOrders
  BY <1>2, <1>3, FS_Injection
<1>5. Unfinished \subseteq Keys
  BY DEF Unfinished
<1> QED
  BY <1>4, <1>5 DEF Fits

(* The orders that a start queues again. *)
LEMMA Restored ==
    ASSUME NEW S, Fits(S), NEW r \in SetToSeqs(S),
           NEW os, os = [i \in DOMAIN r |-> [qname |-> r[i][1], path |-> r[i][2]]]
    PROVE  os \in Seq(Order) /\ Len(os) <= MaxOrders
<1>1. Cardinality(S) \in Nat
  BY FS_CardinalityType DEF Fits
<1>2. r \in [1..Cardinality(S) -> S]
  BY DEF SetToSeqs
<1>3. \A i \in DOMAIN r : [qname |-> r[i][1], path |-> r[i][2]] \in Order
  BY <1>2 DEF Fits, Keys, Order
<1>4. os \in [1..Cardinality(S) -> Order]
  BY <1>2, <1>3
<1>5. os \in Seq(Order) /\ Len(os) = Cardinality(S)
  BY <1>1, <1>4
<1> QED
  BY <1>1, <1>5 DEF Fits

LEMMA SoundInit == Init => Sound
<1> SUFFICES ASSUME Init PROVE Sound
  OBVIOUS
<1> USE PinningAssumption DEF Init, Ids
<1>1. NewItem \in Item
  BY DEF NewItem, Item
<1>2. OrdersOK
  BY <1>1 DEF OrdersOK, Nothing, Keys, Live
<1>3. FileOK
  <2>1. savers \in Seq(Ids \union {User, Stopper})
    OBVIOUS
  <2>2. Fits(snap) /\ Fits(file)
    BY NothingFits
  <2> QED
    BY <2>1, <2>2 DEF FileOK
<1> QED
  BY <1>2, <1>3 DEF Sound

(* What is done to a record keeps its type. *)
LEMMA RecordKept ==
    ASSUME NEW x \in Item, NEW b \in BOOLEAN, NEW c \in BOOLEAN,
           NEW m \in {"empty", "progress", "pins"}, NEW n \in 0..(MaxStalled - 1)
    PROVE  /\ [x EXCEPT !.cancel = b] \in Item
           /\ [x EXCEPT !.pinned = b] \in Item
           /\ [x EXCEPT !.old = b] \in Item
           /\ [x EXCEPT !.status = m, !.moved = c, !.stalled = n] \in Item
BY DEF Item

(* Removing paths keeps what is registered. *)
LEMMA DeleteKept ==
    ASSUME NEW ent \in [Keys -> 0..MaxOrders], NEW ps
    PROVE  /\ Delete(ent, ps) \in [Keys -> 0..MaxOrders]
           /\ \A k \in Keys : Delete(ent, ps)[k] # 0 => Delete(ent, ps)[k] = ent[k] /\ k[2] \notin ps
BY PinningAssumption DEF Delete

LEMMA OrdersStep == OrdersOK /\ FileOK /\ [Next]_vars => OrdersOK'
<1> SUFFICES ASSUME OrdersOK, FileOK, [Next]_vars PROVE OrdersOK'
  OBVIOUS
<1> USE PinningAssumption DEF Ids
<1>1. CASE Stop \/ Crash
  BY <1>1 DEF Stop, Crash, OrdersOK, queue, state, Key
<1>2. CASE Start
  <2>1. PICK r \in SetToSeqs(IF file = Cut THEN {} ELSE file) :
            orders' = [i \in DOMAIN r |-> [qname |-> r[i][1], path |-> r[i][2]]]
    BY <1>2 DEF Start
  <2>2. orders' \in Seq(Order) /\ Len(orders') <= MaxOrders
    BY <2>1, Restored, NothingFits DEF FileOK
  <2>3. NewItem \in Item
    BY DEF NewItem, Item
  <2>4. taken' = 0 /\ entry' = Nothing /\ up' = "up" /\ task' = [i \in Ids |-> "none"]
        /\ item' = [i \in Ids |-> NewItem]
    BY <1>2 DEF Start, Boot
  <2> QED
    BY <2>2, <2>3, <2>4 DEF OrdersOK, Nothing, Live
<1>3. CASE Process
  <2>1. /\ up' = up /\ orders' = orders /\ item' = item /\ taken' = Len(orders)
        /\ entry' = entry \/ entry' = Delete(entry, Expired(entry))
    BY <1>3 DEF Process
  <2>2. /\ entry' \in [Keys -> 0..MaxOrders]
        /\ \A k \in Keys : entry'[k] # 0 => entry'[k] = entry[k]
    <3>1. entry \in [Keys -> 0..MaxOrders]
      BY DEF OrdersOK
    <3>2. CASE entry' = entry
      BY <3>1, <3>2
    <3>3. CASE entry' = Delete(entry, Expired(entry))
      BY <3>1, <3>3, DeleteKept
    <3> QED
      BY <2>1, <3>2, <3>3
  <2>3. \A k \in Keys : entry'[k] # 0 => entry'[k] <= taken' /\ Key(entry[k])' = k
    BY <2>1, <2>2 DEF OrdersOK, Key
  <2>4. /\ task' \in [Ids -> Live \union {"none", "dropped", "ended"}]
        /\ \A i \in Ids : task'[i] = "ready" => i <= taken'
    BY <1>3 DEF Process, OrdersOK, Waiting, Live
  <2> QED
    BY <2>1, <2>2, <2>3, <2>4 DEF OrdersOK
<1>4. CASE SaveOpen
  BY <1>4 DEF SaveOpen, OrdersOK, queue, state, Key
<1>5. CASE SaveClose
  <2>1. /\ up' \in {up, "down"} /\ UNCHANGED <<orders, taken, item, entry>>
        /\ task' = [i \in Ids |-> IF i # Head(savers) THEN task[i]
                                  ELSE IF task[i] = "saving" THEN "pinning" ELSE "ended"]
    BY <1>5 DEF SaveClose, queue, state
  <2> QED
    BY <2>1 DEF OrdersOK, Key, Live
<1>6. ASSUME NEW q \in QNames, NEW p \in Paths, Queue(q, p) PROVE OrdersOK'
  <2>1. /\ orders' = Append(orders, [qname |-> q, path |-> p]) /\ Len(orders) < MaxOrders
        /\ UNCHANGED <<up, taken, task, item, entry>>
    BY <1>6 DEF Queue, state
  <2>2. /\ orders' \in Seq(Order) /\ Len(orders') = Len(orders) + 1
        /\ \A i \in 1..Len(orders) : orders'[i] = orders[i]
    BY <2>1 DEF OrdersOK, Order
  <2>3. \A k \in Keys : entry[k] # 0 => Key(entry[k])' = Key(entry[k])
    BY <2>1, <2>2 DEF OrdersOK, Key
  <2> QED
    BY <2>1, <2>2, <2>3 DEF OrdersOK
<1>7. ASSUME NEW k \in Keys, Cancel(k) PROVE OrdersOK'
  <2>1. item' = [item EXCEPT ![entry[k]].cancel = TRUE] /\ UNCHANGED <<up, orders, taken, task, entry>>
    BY <1>7 DEF Cancel, queue
  <2>2. item' \in [Ids -> Item]
    BY <2>1, Flagged DEF OrdersOK
  <2> QED
    BY <2>1, <2>2 DEF OrdersOK, Key
<1>8. ASSUME NEW i \in Ids, Pin(i) PROVE OrdersOK'
  <2>0. UNCHANGED <<up, orders, taken>>
    BY <1>8 DEF Pin, PinStart, PinMessage, PinError, PinLost, PinInvalid, PinDone, Expire, queue
  <2>1. CASE PinStart(i)
    <3>0. i <= taken /\ orders[i] \in Order
      BY <2>1 DEF PinStart, OrdersOK
    <3>1. i <= taken /\ Key(i) \in Keys
      BY <3>0 DEF Key, Keys, Order
    <3>2. task' = [task EXCEPT ![i] = "saving"] /\ entry' = [entry EXCEPT ![Key(i)] = i] /\ item' = item
      BY <2>1 DEF PinStart
    <3>3. \A k \in Keys : entry'[k] # 0 => entry'[k] <= taken' /\ Key(entry[k])' = k
      BY <2>0, <3>1, <3>2 DEF OrdersOK, Key
    <3> QED
      BY <2>0, <3>1, <3>2, <3>3 DEF OrdersOK, Live
  <2>2. CASE GiveUp(i)
    <3>1. task' = [task EXCEPT ![i] = "ended"] /\ entry' = Delete(entry, {orders[i].path}) /\ item' = item
      BY <2>2 DEF GiveUp
    <3>2. /\ entry' \in [Keys -> 0..MaxOrders]
          /\ \A k \in Keys : entry'[k] # 0 => entry'[k] = entry[k]
      BY <3>1, DeleteKept DEF OrdersOK
    <3> QED
      BY <2>0, <3>1, <3>2 DEF OrdersOK, Key, Live
  <2>3. CASE PinMessage(i) /\ ~GiveUp(i)
    <3>1. PICK m \in {"empty", "progress", "pins"} :
              /\ ~TooMany(Stalled(i, m))
              /\ item' = [item EXCEPT ![i].status = m, ![i].moved = Moved(i, m),
                                      ![i].stalled = Stalled(i, m)]
              /\ UNCHANGED <<task, entry>>
      BY <2>3 DEF PinMessage
    <3>2. Moved(i, m) \in BOOLEAN /\ Stalled(i, m) \in 0..(MaxStalled - 1)
      BY <3>1 DEF OrdersOK, Item, Moved, Stalled, TooMany
    <3>3. item' = [item EXCEPT ![i] =
                      [item[i] EXCEPT !.status = m, !.moved = Moved(i, m), !.stalled = Stalled(i, m)]]
      BY <3>1 DEF OrdersOK
    <3>4. item' \in [Ids -> Item]
      BY <3>2, <3>3, RecordKept DEF OrdersOK
    <3> QED
      BY <2>0, <3>1, <3>4 DEF OrdersOK, Key
  <2>4. CASE PinLost(i) \/ PinInvalid(i)
    BY <2>0, <2>4 DEF PinLost, PinInvalid, OrdersOK, Live, Key, state
  <2>5. CASE PinDone(i)
    <3>1. /\ task' = [task EXCEPT ![i] = "pinned"] /\ entry' = entry
      BY <2>5 DEF PinDone
    <3>2. PICK b \in BOOLEAN : item' = [item EXCEPT ![i] = [item[i] EXCEPT !.pinned = b]]
      BY <2>5, Zenon DEF PinDone
    <3>3. item' \in [Ids -> Item]
      <4>1. item[i] \in Item
        BY DEF OrdersOK
      <4>2. [item[i] EXCEPT !.pinned = b] \in Item
        BY <4>1 DEF Item
      <4> QED
        BY <3>2, <4>2 DEF OrdersOK
    <3> QED
      BY <2>0, <3>1, <3>3 DEF OrdersOK, Live, Key
  <2>6. CASE Expire(i)
    <3>1. item' = [item EXCEPT ![i].old = TRUE] /\ UNCHANGED <<task, entry>>
      BY <2>6 DEF Expire
    <3>2. item' \in [Ids -> Item]
      BY <3>1, Flagged DEF OrdersOK
    <3> QED
      BY <2>0, <3>1, <3>2 DEF OrdersOK, Key
  <2> QED
    BY <1>8, <2>1, <2>2, <2>3, <2>4, <2>5, <2>6 DEF Pin, PinError
<1>9. CASE UNCHANGED vars
  BY <1>9 DEF vars, queue, state, OrdersOK, Key
<1> QED
  BY <1>1, <1>2, <1>3, <1>4, <1>5, <1>6, <1>7, <1>8, <1>9 DEF Next

LEMMA SaversStep ==
    ASSUME OrdersOK, savers \in Seq(Ids \union {User, Stopper}), NEW who \in Ids \union {User, Stopper},
           Saving(who)
    PROVE  /\ savers' \in Seq(Ids \union {User, Stopper}) /\ savers' # <<>>
           /\ Len(savers') = Len(savers) + 1
           /\ UNCHANGED <<open, snap, file>>
BY DEF Saving

LEMMA FileStep == OrdersOK /\ FileOK /\ [Next]_vars => FileOK'
<1> SUFFICES ASSUME OrdersOK, FileOK, [Next]_vars PROVE FileOK'
  OBVIOUS
<1>1. CASE UNCHANGED saves
  BY <1>1 DEF FileOK, saves, Fits
<1>2. ASSUME NEW who \in Ids \union {User, Stopper}, Saving(who) PROVE FileOK'
  BY <1>2, SaversStep DEF FileOK, Fits
<1>3. CASE Start
  <2>1. savers' = <<>> /\ open' = FALSE /\ snap' = {} /\ file' = file
    BY <1>3 DEF Start, Boot
  <2>2. savers' \in Seq(Ids \union {User, Stopper})
    BY <2>1
  <2> QED
    BY <2>1, <2>2, NothingFits DEF FileOK, Fits
<1>4. CASE SaveOpen
  <2>1. snap' = Unfinished /\ file' = Cut /\ open' = TRUE /\ savers' = savers /\ savers # <<>>
    BY <1>4 DEF SaveOpen
  <2> QED
    BY <2>1, UnfinishedFits DEF FileOK, Fits
<1>5. CASE SaveClose
  <2>1. open /\ open' = FALSE /\ file' = snap /\ snap' = {} /\ savers' = Tail(savers)
    BY <1>5 DEF SaveClose
  <2>2. savers' \in Seq(Ids \union {User, Stopper})
    BY <2>1 DEF FileOK
  <2> QED
    BY <2>1, <2>2, NothingFits DEF FileOK, Fits
<1>6. CASE Stop
  BY <1>6, <1>2 DEF Stop
<1>7. ASSUME NEW k \in Keys, Cancel(k) PROVE FileOK'
  BY <1>7, <1>2 DEF Cancel
<1>8. ASSUME NEW i \in Ids, Pin(i) PROVE FileOK'
  BY <1>8, <1>1, <1>2
     DEF Pin, PinStart, PinMessage, PinError, PinLost, PinInvalid, PinDone, Expire
<1> QED
  BY <1>1, <1>3, <1>4, <1>5, <1>6, <1>7, <1>8 DEF Next, Crash, Process, Queue, vars

THEOREM SoundHolds == Spec => []Sound
<1>1. Sound /\ [Next]_vars => Sound'
  BY OrdersStep, FileStep DEF Sound
<1> QED
  BY <1>1, SoundInit, PTL DEF Spec

(* Every reachable state of the orchestrator has its type. *)
THEOREM TypeCorrect == Spec => []TypeOK
<1>1. Sound => TypeOK
  <2> SUFFICES ASSUME Sound PROVE TypeOK
    OBVIOUS
  <2>1. /\ up \in {"up", "stopping", "down"}
        /\ orders \in Seq(Order) /\ Len(orders) <= MaxOrders
        /\ taken \in 0..Len(orders)
        /\ task \in [Ids -> Live \union {"none", "dropped", "ended"}]
        /\ item \in [Ids -> Item] /\ entry \in [Keys -> 0..MaxOrders]
    BY DEF Sound, OrdersOK
  <2>2. /\ savers \in Seq(Ids \union {User, Stopper}) /\ (open => savers # <<>>)
        /\ open \in BOOLEAN /\ snap \subseteq Keys
    BY DEF Sound, FileOK, Fits
  <2>3. file \in (SUBSET Keys) \union {Cut}
    <3>1. file = Cut \/ file \subseteq Keys
      BY DEF Sound, FileOK, Fits
    <3>2. CASE file = Cut
      BY <3>2
    <3>3. CASE file \subseteq Keys
      <4>1. file \in SUBSET Keys
        BY <3>3, Zenon
      <4> QED
        BY <4>1, Zenon
    <3> QED
      BY <3>1, <3>2, <3>3
  <2> QED
    BY <2>1, <2>2, <2>3 DEF TypeOK
<1> QED
  BY <1>1, SoundHolds, PTL
-----------------------------------------------------------------------------
(* The status file. *)

(* Only the start of a pin can make one more pin unfinished. *)
LEMMA UnfinishedShrinks ==
    ASSUME OrdersOK, OrdersOK',
           \A k \in Keys : entry'[k] # 0 =>
              entry'[k] = entry[k] /\ (item[entry[k]].pinned => item'[entry[k]].pinned)
    PROVE  Unfinished' \subseteq Unfinished
BY DEF Unfinished

LEMMA CoveredInit == Init => Covered
BY DEF Init, Covered, Unfinished, Nothing

LEMMA CoveredStep == Sound /\ Sound' /\ Covered /\ [Next]_vars => Covered'
<1> SUFFICES ASSUME Sound, Sound', Covered, [Next]_vars PROVE Covered'
  OBVIOUS
<1> USE DEF Sound
<1>0. \A ps : \A k \in Keys : Delete(entry, ps)[k] # 0 => Delete(entry, ps)[k] = entry[k]
  <2>1. entry \in [Keys -> 0..MaxOrders]
    BY DEF OrdersOK
  <2> QED
    BY <2>1, DeleteKept
<1>1. ASSUME Unfinished' \subseteq Unfinished, UNCHANGED <<up, saves>> PROVE Covered'
  BY <1>1 DEF Covered, saves
<1>2. ASSUME NEW who \in Ids \union {User, Stopper}, Saving(who) PROVE Covered'
  <2>1. savers' # <<>> /\ Len(savers') = Len(savers) + 1 /\ open' = open
    BY <1>2, SaversStep DEF FileOK
  <2>2. savers # <<>> => Len(savers) > 0
    BY DEF FileOK
  <2> QED
    BY <2>1, <2>2 DEF Covered, FileOK
<1>3. CASE Start
  <2>1. savers' = <<>> /\ entry' = Nothing
    BY <1>3 DEF Start, Boot
  <2>2. Unfinished' = {}
    BY <2>1 DEF Unfinished, Nothing
  <2> QED
    BY <2>1, <2>2 DEF Covered
<1>4. CASE Crash
  BY <1>4 DEF Crash, Covered
<1>5. CASE Stop
  BY <1>5, <1>2 DEF Stop
<1>6. CASE Process
  <2>1. /\ up' = up /\ UNCHANGED saves /\ item' = item
        /\ entry' = entry \/ entry' = Delete(entry, Expired(entry))
    BY <1>6 DEF Process
  <2>2. \A k \in Keys : entry'[k] # 0 => entry'[k] = entry[k]
    BY <1>0, <2>1
  <2> QED
    BY <1>1, <2>1, <2>2, UnfinishedShrinks
<1>7. CASE SaveOpen
  <2>1. snap' = Unfinished /\ open' = TRUE /\ UNCHANGED <<item, entry>>
    BY <1>7 DEF SaveOpen, state
  <2> QED
    BY <2>1 DEF Covered, Unfinished
<1>8. CASE SaveClose
  <2>1. /\ open /\ open' = FALSE /\ file' = snap /\ savers' = Tail(savers) /\ savers # <<>>
        /\ up' \in {up, "down"} /\ UNCHANGED <<item, entry>>
    BY <1>8 DEF SaveClose, state, FileOK
  <2>2. CASE Len(savers) > 1
    <3>1. savers' # <<>>
      BY <2>1, <2>2 DEF FileOK
    <3> QED
      BY <2>1, <3>1 DEF Covered
  <2>3. CASE ~(Len(savers) > 1)
    <3>1. savers' = <<>>
      BY <2>1, <2>3 DEF FileOK
    <3>2. Unfinished' = Unfinished
      BY <2>1 DEF Unfinished
    <3> QED
      BY <2>1, <2>3, <3>1, <3>2 DEF Covered
  <2> QED
    BY <2>2, <2>3
<1>9. ASSUME NEW q \in QNames, NEW p \in Paths, Queue(q, p) PROVE Covered'
  <2>1. UNCHANGED <<up, item, entry, saves>>
    BY <1>9 DEF Queue, state
  <2> QED
    BY <1>1, <2>1 DEF Unfinished
<1>10. ASSUME NEW k \in Keys, Cancel(k) PROVE Covered'
  BY <1>10, <1>2 DEF Cancel
<1>11. ASSUME NEW i \in Ids, Pin(i) PROVE Covered'
  <2>1. CASE PinStart(i) \/ PinDone(i)
    BY <2>1, <1>2 DEF PinStart, PinDone
  <2>2. CASE GiveUp(i) /\ UNCHANGED <<up, saves>>
    <3>1. entry' = Delete(entry, {orders[i].path}) /\ item' = item
      BY <2>2 DEF GiveUp
    <3>2. \A k \in Keys : entry'[k] # 0 => entry'[k] = entry[k]
      BY <1>0, <3>1
    <3> QED
      BY <1>1, <2>2, <3>1, <3>2, UnfinishedShrinks
  <2>3. CASE (PinMessage(i) /\ ~GiveUp(i)) \/ Expire(i)
    <3>1. UNCHANGED <<up, entry, saves>>
      BY <2>3 DEF PinMessage, Expire
    <3>2. \A j \in Ids : item'[j].pinned = item[j].pinned
      BY <2>3 DEF PinMessage, Expire, OrdersOK, Item
    <3>3. Unfinished' \subseteq Unfinished
      BY <3>1, <3>2, UnfinishedShrinks DEF OrdersOK, Ids
    <3> QED
      BY <1>1, <3>1, <3>3
  <2>4. CASE PinLost(i) \/ PinInvalid(i)
    BY <2>4, <1>1 DEF PinLost, PinInvalid, state, Unfinished
  <2> QED
    BY <1>11, <2>1, <2>2, <2>3, <2>4 DEF Pin, PinMessage, PinError
<1>12. CASE UNCHANGED vars
  BY <1>12, <1>1 DEF vars, state, Unfinished
<1> QED
  BY <1>3, <1>4, <1>5, <1>6, <1>7, <1>8, <1>9, <1>10, <1>11, <1>12 DEF Next

(* Whenever nobody is writing the status file, it holds every pin that is    *)
(* registered and not done: for any number of paths, queues and orders, and  *)
(* after any failures, stops, crashes and restarts.                          *)
THEOREM NoPinIsForgotten == Spec => []UnfinishedAreSaved
<1>1. Init => Covered
  BY CoveredInit
<1>2. Sound /\ Sound' /\ Covered /\ [Next]_vars => Covered'
  BY CoveredStep
<1>3. Sound /\ Covered => UnfinishedAreSaved
  <2> SUFFICES ASSUME Sound, Covered, savers = <<>>, up # "down" PROVE Unfinished \subseteq file
    BY DEF UnfinishedAreSaved
  <2>1. ~open /\ ~(Len(savers) > 1)
    BY DEF Sound, FileOK
  <2> QED
    BY <2>1 DEF Covered
<1> QED
  BY <1>1, <1>2, <1>3, SoundHolds, PTL DEF Spec
-----------------------------------------------------------------------------
(* Orders that are dropped, when no exception and no short answer ends a pin. *)

(* A registered path is being pinned, or is pinned. *)
Attended ==
    \A k \in Keys : entry[k] # 0 =>
        task[entry[k]] \in {"saving", "pinning", "pinned"} \/ item[entry[k]].pinned

(* A task saves the status once at a time, before its pin and after it. *)
Writers ==
    /\ \A n \in DOMAIN savers : savers[n] \in Ids => task[savers[n]] \in {"saving", "pinned"}
    /\ \A m, n \in DOMAIN savers : savers[m] \in Ids /\ savers[m] = savers[n] => m = n
    /\ \A i \in Ids : task[i] = "pinned" => item[i].pinned
    /\ \A i \in Ids : task[i] \in {"saving", "pinning", "pinned"} => i <= taken

Tended == Attended /\ Writers

LEMMA TendedInit == Init => Tended
<1> SUFFICES ASSUME Init PROVE Tended
  OBVIOUS
<1>1. Attended
  BY DEF Init, Attended, Nothing
<1>2. Writers
  BY DEF Init, Writers
<1> QED
  BY <1>1, <1>2 DEF Tended

(* A coroutine that is not writing queues for the file. *)
LEMMA WritersQueue ==
    ASSUME Sound, Writers, NEW who \in Ids \union {User, Stopper}, Saving(who),
           who \in Ids => /\ task[who] \notin {"saving", "pinned"} /\ who <= taken
                          /\ task'[who] \in {"saving", "pinned"},
           taken' = taken,
           \A i \in Ids \ {who} : task'[i] = task[i],
           \A i \in Ids : (item[i].pinned => item'[i].pinned) /\ (task'[i] = "pinned" /\ i = who => item'[i].pinned)
    PROVE  Writers'
<1>1. savers' = Append(savers, who) /\ savers \in Seq(Ids \union {User, Stopper})
  BY DEF Saving, Sound, FileOK
<1>2. /\ DOMAIN savers' = 1..(Len(savers) + 1) /\ DOMAIN savers = 1..Len(savers)
      /\ \A n \in DOMAIN savers : savers'[n] = savers[n] /\ savers[n] \in Ids \union {User, Stopper}
      /\ savers'[Len(savers) + 1] = who
  BY <1>1
<1>3. \A n \in DOMAIN savers : savers[n] \in Ids => savers[n] # who
  BY DEF Writers
<1>4. \A n \in DOMAIN savers' : savers'[n] \in Ids => task'[savers'[n]] \in {"saving", "pinned"}
  BY <1>2, <1>3 DEF Writers
<1>5. \A m, n \in DOMAIN savers' : savers'[m] \in Ids /\ savers'[m] = savers'[n] => m = n
  BY <1>2, <1>3 DEF Writers
<1>6. \A i \in Ids : task'[i] = "pinned" => item'[i].pinned
  BY DEF Writers
<1>7. \A i \in Ids : task'[i] \in {"saving", "pinning", "pinned"} => i <= taken'
  BY DEF Writers
<1> QED
  BY <1>4, <1>5, <1>6, <1>7 DEF Writers

LEMMA TendedStep ==
    ASSUME "error" \notin Faults, "cut" \notin Faults
    PROVE  Sound /\ Tended /\ [Next]_vars => Tended'
<1> SUFFICES ASSUME Sound, Tended, [Next]_vars PROVE Tended'
  OBVIOUS
<1>0. /\ orders \in Seq(Order) /\ taken \in 0..Len(orders) /\ Len(orders) <= MaxOrders
      /\ task \in [Ids -> Live \union {"none", "dropped", "ended"}] /\ item \in [Ids -> Item]
      /\ \A i \in Ids : task[i] = "ready" => i <= taken
      /\ entry \in [Keys -> 0..MaxOrders]
      /\ \A k \in Keys : entry[k] # 0 => entry[k] <= taken /\ Key(entry[k]) = k
      /\ savers \in Seq(Ids \union {User, Stopper})
      /\ User \notin Ids /\ Stopper \notin Ids
      /\ \A k \in Keys : entry[k] # 0 => entry[k] \in Ids
  BY PinningAssumption DEF Sound, OrdersOK, FileOK, Ids, User, Stopper
<1> USE DEF Tended
<1>1. ASSUME UNCHANGED <<task, taken, savers>>, \A i \in Ids : item[i].pinned => item'[i].pinned,
             \A k \in Keys : entry'[k] # 0 => entry'[k] = entry[k]
      PROVE  Tended'
  <2>1. Attended'
    BY <1>0, <1>1 DEF Attended
  <2>2. Writers'
    BY <1>1 DEF Writers
  <2> QED
    BY <2>1, <2>2
<1>2. ASSUME NEW who \in {User, Stopper}, Saving(who), UNCHANGED <<task, taken, entry>>,
             \A i \in Ids : item[i].pinned => item'[i].pinned
      PROVE  Tended'
  <2>1. Writers'
    BY <1>0, <1>2, WritersQueue
  <2>2. Attended'
    BY <1>0, <1>2 DEF Attended
  <2> QED
    BY <2>1, <2>2
<1>3. CASE Stop \/ Crash
  BY <1>3, <1>1, <1>2 DEF Stop, Crash, queue, state, saves
<1>4. CASE Start
  <2>1. savers' = <<>> /\ entry' = Nothing /\ task' = [i \in Ids |-> "none"]
    BY <1>4 DEF Start, Boot
  <2>2. Attended'
    BY <2>1 DEF Attended, Nothing
  <2>3. Writers'
    BY <2>1 DEF Writers
  <2> QED
    BY <2>2, <2>3
<1>5. CASE Process
  <2>0. /\ UNCHANGED <<item, savers>>
        /\ entry' = entry \/ entry' = Delete(entry, Expired(entry))
    BY <1>5 DEF Process, saves
  <2>1. /\ \A i \in Ids \ Waiting : task'[i] = task[i]
        /\ \A i \in Ids \intersect Waiting : task'[i] \in {"dropped", "ready"}
    BY <1>5 DEF Process
  <2>2. \A k \in Keys : entry'[k] # 0 => entry'[k] = entry[k]
    BY <1>0, <2>0, DeleteKept
  <2>3. \A k \in Keys : entry[k] # 0 => entry[k] \in Ids \ Waiting
    BY <1>0 DEF Waiting
  <2>4. Attended'
    BY <2>0, <2>1, <2>2, <2>3 DEF Attended
  <2>5. taken' = Len(orders) /\ taken <= taken'
    BY <1>0, <1>5 DEF Process
  <2>6. \A n \in DOMAIN savers : savers[n] \in Ids => savers[n] \in Ids \ Waiting
    BY <1>0 DEF Writers, Waiting
  <2>7. \A i \in Ids : task'[i] \in {"saving", "pinning", "pinned"} => i \in Ids \ Waiting
    BY <2>1
  <2>8. \A n \in DOMAIN savers' : savers'[n] \in Ids => task'[savers'[n]] \in {"saving", "pinned"}
    BY <2>0, <2>1, <2>6 DEF Writers
  <2>9. \A i \in Ids : task'[i] = "pinned" => item'[i].pinned
    BY <2>0, <2>1, <2>7 DEF Writers
  <2>10. \A i \in Ids : task'[i] \in {"saving", "pinning", "pinned"} => i <= taken'
    <3> SUFFICES ASSUME NEW i \in Ids, task'[i] \in {"saving", "pinning", "pinned"} PROVE i <= taken'
      OBVIOUS
    <3>1. i <= taken
      BY <2>1, <2>7 DEF Writers
    <3> QED
      BY <1>0, <2>5, <3>1 DEF Ids
  <2> QED
    BY <2>0, <2>4, <2>8, <2>9, <2>10 DEF Writers
<1>6. CASE SaveOpen
  BY <1>6, <1>1 DEF SaveOpen, queue, state
<1>7. CASE SaveClose
  <2> DEFINE who == Head(savers)
  <2>1. /\ savers # <<>> /\ savers' = Tail(savers) /\ UNCHANGED <<orders, taken, item, entry>>
        /\ task' = [i \in Ids |-> IF i # who THEN task[i]
                                  ELSE IF task[i] = "saving" THEN "pinning" ELSE "ended"]
    BY <1>7 DEF SaveClose, queue, state, Sound, FileOK
  <2>2. /\ who = savers[1] /\ 1 \in DOMAIN savers
        /\ DOMAIN savers' = 1..(Len(savers) - 1) /\ DOMAIN savers = 1..Len(savers)
        /\ \A n \in DOMAIN savers' : n + 1 \in DOMAIN savers /\ savers'[n] = savers[n + 1]
    BY <1>0, <2>1
  <2>3. who \in Ids => task[who] \in {"saving", "pinned"}
    BY <2>2 DEF Writers
  <2>4. \A n \in DOMAIN savers' : savers'[n] \in Ids => savers'[n] # who
    BY <2>2 DEF Writers
  <2>5. \A i \in Ids : i # who => task'[i] = task[i]
    BY <2>1
  <2>6. who \in Ids => \/ task[who] = "saving" /\ task'[who] = "pinning"
                       \/ item[who].pinned /\ task'[who] = "ended"
    BY <2>1, <2>3 DEF Writers
  <2>7. Attended'
    BY <1>0, <2>1, <2>5, <2>6 DEF Attended
  <2>8. \A n \in DOMAIN savers' : savers'[n] \in Ids => task'[savers'[n]] \in {"saving", "pinned"}
    BY <2>2, <2>4, <2>5 DEF Writers
  <2>9. \A m, n \in DOMAIN savers' : savers'[m] \in Ids /\ savers'[m] = savers'[n] => m = n
    BY <2>2 DEF Writers
  <2>10. \A i \in Ids : task'[i] = "pinned" => item'[i].pinned
    BY <2>1, <2>5, <2>6 DEF Writers
  <2>11. \A i \in Ids : task'[i] \in {"saving", "pinning", "pinned"} => i <= taken'
    BY <2>1, <2>5, <2>6 DEF Writers
  <2> QED
    BY <2>7, <2>8, <2>9, <2>10, <2>11 DEF Writers
<1>8. ASSUME NEW q \in QNames, NEW p \in Paths, Queue(q, p) PROVE Tended'
  BY <1>8, <1>1 DEF Queue, state, saves
<1>9. ASSUME NEW k \in Keys, Cancel(k) PROVE Tended'
  <2>1. /\ item' = [item EXCEPT ![entry[k]] = [item[entry[k]] EXCEPT !.cancel = TRUE]]
        /\ UNCHANGED <<task, taken, entry>> /\ Saving(User)
    BY <1>9 DEF Cancel, queue
  <2>2. \A i \in Ids : item[i].pinned => item'[i].pinned
    BY <1>0, <2>1 DEF Item
  <2> QED
    BY <1>2, <2>1, <2>2
<1>10. ASSUME NEW i \in Ids, Pin(i) PROVE Tended'
  <2>0. taken' = taken /\ orders' = orders
    BY <1>10 DEF Pin, PinStart, PinMessage, PinError, PinLost, PinInvalid, PinDone, Expire, queue
  <2>1. CASE PinStart(i)
    <3>1. /\ task[i] = "ready" /\ task' = [task EXCEPT ![i] = "saving"] /\ item' = item
          /\ entry' = [entry EXCEPT ![Key(i)] = i] /\ Saving(i)
      BY <2>1 DEF PinStart
    <3>2. Attended'
      BY <1>0, <3>1 DEF Attended
    <3>3. Writers'
      BY <1>0, <2>0, <3>1, WritersQueue
    <3> QED
      BY <3>2, <3>3
  <2>2. CASE GiveUp(i) /\ task[i] = "pinning" /\ UNCHANGED saves
    <3>1. /\ task' = [task EXCEPT ![i] = "ended"] /\ item' = item /\ savers' = savers
          /\ entry' = Delete(entry, {orders[i].path})
      BY <2>2 DEF GiveUp, saves
    <3>2. \A k \in Keys : entry'[k] # 0 => entry'[k] = entry[k] /\ k[2] # orders[i].path
      BY <1>0, <3>1, DeleteKept
    <3>3. \A k \in Keys : entry'[k] # i \/ entry'[k] = 0
      BY <1>0, <3>2 DEF Key
    <3>4. Attended'
      BY <1>0, <3>1, <3>2, <3>3 DEF Attended
    <3>5. Writers'
      BY <1>0, <2>0, <2>2, <3>1 DEF Writers
    <3> QED
      BY <3>4, <3>5
  <2>3. CASE (PinMessage(i) /\ ~GiveUp(i)) \/ Expire(i)
    <3>1. UNCHANGED <<task, savers, entry>>
      BY <2>3 DEF PinMessage, Expire, saves
    <3>2. \A j \in Ids : item'[j].pinned = item[j].pinned
      <4>1. item \in [Ids -> Item]
        BY <1>0
      <4>2. CASE PinMessage(i) /\ ~GiveUp(i)
        BY <4>1, <4>2 DEF PinMessage, Item
      <4>3. CASE Expire(i)
        BY <4>1, <4>3 DEF Expire, Item
      <4> QED
        BY <2>3, <4>2, <4>3
    <3> QED
      BY <1>1, <2>0, <3>1, <3>2
  <2>4. CASE PinDone(i)
    <3>1. /\ task[i] = "pinning" /\ task' = [task EXCEPT ![i] = "pinned"] /\ entry' = entry
          /\ item[i].status = "pins" /\ Saving(i)
          /\ item' = [item EXCEPT ![i] = [item[i] EXCEPT !.pinned = (item[i].status = "pins")]]
      BY <2>4 DEF PinDone
    <3>2. item' = [item EXCEPT ![i] = [item[i] EXCEPT !.pinned = TRUE]]
      BY <3>1
    <3>3. \A j \in Ids : (item[j].pinned \/ j = i) => item'[j].pinned
      BY <1>0, <3>2 DEF Item
    <3>4. Attended'
      BY <1>0, <3>1, <3>3 DEF Attended
    <3>5. i <= taken
      BY <3>1 DEF Writers
    <3>6. Writers'
      BY <1>0, <2>0, <3>1, <3>3, <3>5, WritersQueue
    <3> QED
      BY <3>4, <3>6
  <2> QED
    BY <1>10, <2>1, <2>2, <2>3, <2>4 DEF Pin, PinMessage, PinError, PinLost, PinInvalid
<1>11. CASE UNCHANGED vars
  BY <1>11, <1>1 DEF vars, queue, state, saves
<1> QED
  BY <1>3, <1>4, <1>5, <1>6, <1>7, <1>8, <1>9, <1>10, <1>11 DEF Next

(* An order that is dropped as 'already queued' is served by another one,    *)
(* when no exception and no short answer leaves a record behind that nobody  *)
(* works for: for any orders, cancels, refusals, stops and crashes.          *)
THEOREM DroppedOrdersAreServed ==
    ASSUME "error" \notin Faults, "cut" \notin Faults PROVE Spec => DroppedAreServed
<1> DEFINE Dropped(i) == task[i] # "dropped" /\ task'[i] = "dropped"
<1>1. Sound /\ Tended /\ [Next]_vars =>
          [\A i \in Ids : Dropped(i) => Served(orders'[i].path)]_vars
  <2> SUFFICES ASSUME Sound, Tended, Next, NEW i \in Ids, Dropped(i)
               PROVE  Served(orders'[i].path)
    OBVIOUS
  <2>0. task \in [Ids -> Live \union {"none", "dropped", "ended"}]
    BY DEF Sound, OrdersOK
  <2>1. Process
    <3>1. ~Start
      BY DEF Start, Boot
    <3>2. ~SaveClose
      BY DEF SaveClose
    <3>3. ASSUME UNCHANGED task PROVE FALSE
      BY <3>3
    <3>4. ~(Stop \/ Crash \/ SaveOpen)
      BY <3>3 DEF Stop, Crash, SaveOpen
    <3>5. \A q \in QNames, p \in Paths : ~Queue(q, p)
      BY <3>3 DEF Queue
    <3>6. \A k \in Keys : ~Cancel(k)
      BY <3>3 DEF Cancel
    <3>7. \A j \in Ids : ~Pin(j)
      BY <2>0, <3>3 DEF Pin, PinStart, PinMessage, PinError, PinLost, PinInvalid, PinDone, Expire, GiveUp
    <3> QED
      BY <3>1, <3>2, <3>4, <3>5, <3>6, <3>7 DEF Next
  <2>2. /\ i \in Waiting /\ orders' = orders
        /\ Registered(entry, orders[i].path) \/ Registered(entry', orders[i].path)
    BY <2>1 DEF Process
  <2>3. orders[i].path \in Paths /\ entry \in [Keys -> 0..MaxOrders]
        /\ \A k \in Keys : entry[k] # 0 => entry[k] \in DOMAIN orders /\ Key(entry[k]) = k
    <3>1. i \in 1..Len(orders) /\ taken \in 0..Len(orders) /\ orders \in Seq(Order)
      BY <2>2 DEF Sound, OrdersOK, Waiting
    <3>2. orders[i] \in Order
      BY <3>1
    <3>3. orders[i].path \in Paths
      BY <3>2 DEF Order
    <3> QED
      BY <2>2, <3>1, <3>3, PinningAssumption DEF Sound, OrdersOK
  <2>4. \A k \in Keys : entry'[k] # 0 => entry'[k] = entry[k]
    BY <2>1, <2>3, DeleteKept DEF Process
  <2>5. PICK q \in QNames : entry[<<q, orders[i].path>>] # 0
    BY <2>2, <2>3, <2>4 DEF Registered, Keys
  <2> DEFINE k == <<q, orders[i].path>>
  <2>6. k \in Keys /\ k[2] = orders[i].path /\ entry[k] # 0
    BY <2>3, <2>5 DEF Keys
  <2>7. entry[k] \in DOMAIN orders /\ orders[entry[k]].path = orders[i].path
    BY <2>3, <2>6 DEF Key
  <2>8. task[entry[k]] \in Live \/ item[entry[k]].pinned
    BY <2>6 DEF Tended, Attended, Live
  <2> QED
    BY <2>2, <2>6, <2>7, <2>8 DEF Served
<1>2. Sound /\ Tended /\ [Next]_vars => Tended'
  BY TendedStep
<1> QED
  BY <1>1, <1>2, TendedInit, SoundHolds, PTL DEF Spec, DroppedAreServed
=============================================================================
