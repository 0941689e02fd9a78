------------------------- MODULE IPIdentifierProofs -------------------------
(* Proofs about a local IP identifier, for any number of updates, loaders    *)
(* and publications, and any faults.                                         *)
EXTENDS IPIdentifierProperties, TLAPS

Stages    == {"idle", "set", "save", "publish", "resolve", "get", "scan"}
UpdateRec == [at : {"new", "put", "done"}, doc : SUBSET Updates]

(* What the store gains leaves the records of CIDs what they are.            *)
LEMMA StoreGrows ==
    ASSUME store \in Seq(SUBSET Updates), NEW d \in SUBSET Updates, store' = Append(store, d)
    PROVE  /\ store' \in Seq(SUBSET Updates)
           /\ Cids \subseteq Cids'
           /\ Len(store') \in Cids'
<1>1. /\ store' \in Seq(SUBSET Updates) /\ Len(store) \in Nat
      /\ Len(store') = Len(store) + 1
      /\ DOMAIN store = 1..Len(store) /\ DOMAIN store' = 1..Len(store')
    OBVIOUS
<1>2. DOMAIN store \subseteq DOMAIN store' /\ Len(store') \in DOMAIN store'
    BY <1>1
<1> QED
    BY <1>1, <1>2 DEF Cids

(* So does a step that leaves the tasks alone.                               *)
LEMMA TaskStays ==
    ASSUME TypeOK, Cids \subseteq Cids', task' = task
    PROVE  task' \in [Tasks -> [at : Stages, cid : Cids']]
BY DEF TypeOK, Stages

(* The type in two parts: what is about CIDs, and the rest.                  *)
CidsOK ==
    /\ docCid \in Cids /\ cache \in Cids /\ dump \in Cids /\ file \in Cids /\ net \in Cids
    /\ task \in [Tasks -> [at : Stages, cid : Cids]]
RestOK ==
    /\ object \in ObjectStates
    /\ document \subseteq Updates /\ store \in Seq(SUBSET Updates)
    /\ update \in [Updates -> UpdateRec]
    /\ due \in Nat /\ timers \in 0..MaxTimers

(* A task that loads, saves or publishes works with a document.              *)
HasDocument == \A t \in Tasks : task[t].at \notin {"idle", "resolve"} => task[t].cid # NoCid

LEMMA TypeSplit == TypeOK <=> CidsOK /\ RestOK
BY DEF TypeOK, CidsOK, RestOK, UpdateRec, Stages

LEMMA InitType == Init => TypeOK
<1> SUFFICES ASSUME Init PROVE TypeOK
    OBVIOUS
<1>1. CidsOK
    BY DEF Init, CidsOK, Cids, Idle, NoCid, Stages
<1>2. RestOK
    BY IpidAssumption DEF Init, RestOK, New, UpdateRec, ObjectStates
<1> QED
    BY <1>1, <1>2, TypeSplit

(* A step that leaves the store alone keeps the type when the records it     *)
(* changes stay CIDs.                                                        *)
LEMMA SameStore == ASSUME store' = store PROVE Cids' = Cids
BY DEF Cids

LEMMA StepType == TypeOK /\ HasDocument /\ [Next]_vars => TypeOK'
<1> SUFFICES ASSUME TypeOK, HasDocument, [Next]_vars PROVE TypeOK'
    OBVIOUS
<1> USE DEF memory, calls, records, vars
<1>0. CidsOK /\ RestOK
    BY TypeSplit
<1>id. \A c \in Cids : \A a \in Stages : [at |-> a, cid |-> c] \in [at : Stages, cid : Cids]
    OBVIOUS
<1>no. NoCid \in Cids
    BY DEF Cids
<1>1. CASE Create
    <2>1. CASE store' = Append(store, {}) /\ docCid' = Len(store') /\ object' = "ready"
        <3>1. store' \in Seq(SUBSET Updates) /\ Cids \subseteq Cids' /\ Len(store') \in Cids'
            <4>1. {} \in SUBSET Updates /\ store \in Seq(SUBSET Updates)
                BY <1>0 DEF RestOK
            <4> QED
                BY <2>1, <4>1, StoreGrows
        <3>2. task' \in [Tasks -> [at : Stages, cid : Cids']]
            BY <1>1, <3>1, TaskStays DEF Create
        <3>3. CidsOK'
            BY <1>0, <1>1, <2>1, <3>1, <3>2 DEF Create, CidsOK
        <3>4. RestOK'
            BY <1>0, <1>1, <2>1, <3>1 DEF Create, RestOK, ObjectStates
        <3> QED
            BY <3>3, <3>4, TypeSplit, PTL
    <2>2. CASE object' = "blank" /\ UNCHANGED <<store, docCid>>
        <3>1. Cids' = Cids
            BY <2>2, SameStore
        <3>2. CidsOK'
            BY <1>0, <1>1, <2>2, <3>1 DEF Create, CidsOK
        <3>3. RestOK'
            BY <1>0, <1>1, <2>2 DEF Create, RestOK, ObjectStates
        <3> QED
            BY <3>2, <3>3, TypeSplit, PTL
    <2>3. store = <<>> /\ store' = <<{}>> => store' = Append(store, {}) /\ Len(store') = 1
        OBVIOUS
    <2> QED
        BY <1>1, <2>1, <2>2, <2>3 DEF Create
<1>2. CASE Crash
    <2>1. Cids' = Cids
        BY <1>2, SameStore DEF Crash
    <2>2. Idle \in [at : Stages, cid : Cids]
        BY <1>no DEF Idle, Stages
    <2>3. CidsOK'
        BY <1>0, <1>2, <1>no, <2>1, <2>2 DEF Crash, CidsOK
    <2>4. New \in UpdateRec
        BY DEF New, UpdateRec
    <2>5. RestOK'
        BY <1>0, <1>2, <2>4, IpidAssumption DEF Crash, RestOK, ObjectStates
    <2> QED
        BY <2>3, <2>5, TypeSplit, PTL
<1>3. ASSUME NEW u \in Updates, Update(u) PROVE TypeOK'
    <2>1. Cids' = Cids
        BY <1>3, SameStore DEF Update
    <2>2. CidsOK'
        BY <1>0, <1>3, <2>1 DEF Update, CidsOK
    <2>3. document' \in SUBSET Updates
        BY <1>0, <1>3 DEF Update, RestOK
    <2>4. [at |-> "put", doc |-> document'] \in UpdateRec
        BY <2>3 DEF UpdateRec
    <2>5. RestOK'
        BY <1>0, <1>3, <2>3, <2>4 DEF Update, RestOK
    <2> QED
        BY <2>2, <2>5, TypeSplit, PTL
<1>4. ASSUME NEW u \in Updates, PutDone(u) PROVE TypeOK'
    <2>1. update[u].doc \in SUBSET Updates /\ store' = Append(store, update[u].doc)
        BY <1>0, <1>4 DEF PutDone, RestOK, UpdateRec
    <2>2. store' \in Seq(SUBSET Updates) /\ Cids \subseteq Cids' /\ Len(store') \in Cids'
        BY <2>1, <1>0, StoreGrows DEF RestOK
    <2>3. task' \in [Tasks -> [at : Stages, cid : Cids']]
        BY <1>4, <2>2, TaskStays DEF PutDone
    <2>4. CidsOK'
        BY <1>0, <1>4, <2>2, <2>3 DEF PutDone, CidsOK
    <2>5. update' \in [Updates -> UpdateRec]
        BY <1>0, <1>4 DEF PutDone, RestOK, UpdateRec
    <2>6. RestOK'
        BY <1>0, <1>4, <2>2, <2>5 DEF PutDone, RestOK
    <2> QED
        BY <2>4, <2>6, TypeSplit, PTL
<1>5. ASSUME NEW u \in Updates, PutFailed(u) PROVE TypeOK'
    <2>1. Cids' = Cids
        BY <1>5, SameStore DEF PutFailed
    <2>2. CidsOK'
        BY <1>0, <1>5, <2>1 DEF PutFailed, CidsOK
    <2>3. update' \in [Updates -> UpdateRec]
        BY <1>0, <1>5 DEF PutFailed, RestOK, UpdateRec
    <2>4. RestOK'
        BY <1>0, <1>5, <2>3 DEF PutFailed, RestOK
    <2> QED
        BY <2>2, <2>4, TypeSplit, PTL
<1>6. ASSUME NEW t \in Tasks, SaveOpen(t) \/ SaveClose(t) PROVE TypeOK'
    <2>1. Cids' = Cids
        BY <1>6, SameStore DEF SaveOpen, SaveClose
    <2>2. task' \in [Tasks -> [at : Stages, cid : Cids]]
        BY <1>0, <1>6 DEF SaveOpen, SaveClose, Then, Idle, CidsOK, Stages, Cids, NoCid
    <2>3. CidsOK'
        BY <1>0, <1>6, <1>no, <2>1, <2>2 DEF SaveOpen, SaveClose, CidsOK
    <2>4. RestOK'
        BY <1>0, <1>6 DEF SaveOpen, SaveClose, RestOK
    <2> QED
        BY <2>3, <2>4, TypeSplit, PTL
<1>7. ASSUME NEW p \in Publishers, PublishStep(p) PROVE TypeOK'
    <2>1. Cids' = Cids
        BY <1>7, SameStore DEF PublishStep, Publish, PublishDone, PublishFailed
    <2>2. p \in Tasks
        BY DEF Tasks
    <2>3. task[p].cid \in Cids
        BY <1>0, <2>2 DEF CidsOK
    <2>4. Idle \in [at : Stages, cid : Cids] /\ [at |-> "set", cid |-> docCid] \in [at : Stages, cid : Cids]
        BY <1>0, <1>no DEF Idle, Stages, CidsOK
    <2>5. CidsOK'
        BY <1>0, <1>7, <2>1, <2>2, <2>3, <2>4 DEF PublishStep, Publish, PublishDone, PublishFailed, CidsOK
    <2>6. RestOK'
        BY <1>0, <1>7, IpidAssumption DEF PublishStep, Publish, PublishDone, PublishFailed, AddTimer, RestOK
    <2> QED
        BY <2>5, <2>6, TypeSplit, PTL
<1>8. ASSUME NEW l \in Loaders, Load(l) \/ LoadStep(l) PROVE TypeOK'
    <2>1. Cids' = Cids
        BY <1>8, SameStore DEF Load, LoadStep, Resolved, NotResolved, LoadDone, LoadFailed, FirstLoaded, ScanRaises
    <2>2. l \in Tasks
        BY DEF Tasks
    <2>3. task[l].cid \in Cids
        BY <1>0, <2>2 DEF CidsOK
    <2>4. /\ Idle \in [at : Stages, cid : Cids] /\ [at |-> "resolve", cid |-> NoCid] \in [at : Stages, cid : Cids]
          /\ [at |-> "get", cid |-> cache] \in [at : Stages, cid : Cids]
          /\ [at |-> "set", cid |-> net] \in [at : Stages, cid : Cids]
        BY <1>0, <1>no DEF Idle, Stages, CidsOK
    <2>5. CidsOK'
        <3>1. CASE LoadDone(l) /\ object = "loading"
            <4>1. task' = [task EXCEPT ![l] = [task[l] EXCEPT !.at = "scan"]] /\ docCid' = task[l].cid
                  /\ UNCHANGED <<cache, dump, file, net>>
                BY <3>1 DEF LoadDone
            <4>2. [task[l] EXCEPT !.at = "scan"] \in [at : Stages, cid : Cids]
                BY <1>0, <2>2 DEF CidsOK, Stages
            <4> QED
                BY <1>0, <2>1, <2>2, <2>3, <4>1, <4>2 DEF CidsOK
        <3>2. CASE LoadDone(l) /\ object # "loading"
            BY <1>0, <2>1, <2>2, <2>3, <2>4, <3>2 DEF LoadDone, CidsOK
        <3>3. CASE ~LoadDone(l)
            BY <1>0, <1>8, <1>no, <2>1, <2>2, <2>3, <2>4, <3>3 DEF Load, LoadStep, Resolved, NotResolved, LoadFailed,
               FirstLoaded, ScanRaises, CidsOK
        <3> QED
            BY <3>1, <3>2, <3>3
    <2>6. CASE LoadDone(l)
        <3>1. document' \in SUBSET Updates
            BY <2>6, <2>2, <2>3, <1>0 DEF LoadDone, RestOK, Cids, HasDocument
        <3>2. RestOK'
            BY <1>0, <2>6, <3>1 DEF LoadDone, RestOK
        <3> QED
            BY <3>2, <2>5, TypeSplit, PTL
    <2>7. CASE ~LoadDone(l)
        <3>1. object' \in ObjectStates
            BY <1>0, <1>8, <2>7 DEF Load, LoadStep, Resolved, NotResolved, LoadFailed, FirstLoaded, ScanRaises,
               Dropped, RestOK, ObjectStates
        <3>2. RestOK'
            BY <1>0, <1>8, <2>7, <3>1 DEF Load, LoadStep, Resolved, NotResolved, LoadFailed, FirstLoaded, ScanRaises,
               RestOK
        <3> QED
            BY <3>2, <2>5, TypeSplit, PTL
    <2> QED
        BY <2>6, <2>7
<1>10. CASE PublishNothing
    <2>1. Cids' = Cids
        BY <1>10, SameStore DEF PublishNothing
    <2>2. CidsOK' /\ RestOK'
        BY <1>0, <1>10, <2>1 DEF PublishNothing, CidsOK, RestOK
    <2> QED
        BY <2>2, TypeSplit, PTL
<1>9. CASE UNCHANGED vars
    <2>1. Cids' = Cids
        BY <1>9, SameStore
    <2>2. CidsOK' /\ RestOK'
        BY <1>0, <1>9, <2>1 DEF CidsOK, RestOK
    <2> QED
        BY <2>2, TypeSplit, PTL
<1> QED
    BY <1>1, <1>2, <1>3, <1>4, <1>5, <1>6, <1>7, <1>8, <1>9, <1>10 DEF Next

LEMMA StepHasDocument == TypeOK /\ HasDocument /\ [Next]_vars => HasDocument'
<1> SUFFICES ASSUME TypeOK, HasDocument, [Next]_vars PROVE HasDocument'
    OBVIOUS
<1> USE DEF memory, calls, records, vars
<1>0. /\ task \in [Tasks -> [at : Stages, cid : Cids]]
      /\ Publishers \subseteq Tasks /\ Loaders \subseteq Tasks
    BY DEF TypeOK, Stages, Tasks
<1>1. ASSUME NEW t \in Tasks, NEW r, r.at \in {"idle", "resolve"} \/ r.cid # NoCid,
             task' = [task EXCEPT ![t] = r]
      PROVE  HasDocument'
    BY <1>0, <1>1 DEF HasDocument
<1>2. CASE Crash
    BY <1>2 DEF Crash, Idle, HasDocument
<1>3. ASSUME NEW t \in Tasks, SaveOpen(t) PROVE HasDocument'
    BY <1>0, <1>3 DEF SaveOpen, HasDocument
<1>4. ASSUME NEW t \in Tasks, SaveClose(t) PROVE HasDocument'
    <2>1. task[t].cid # NoCid
        BY <1>4 DEF SaveClose, HasDocument
    <2>2. Then(t).at \in {"idle", "resolve"} \/ Then(t).cid # NoCid
        BY <1>0, <1>4, <2>1 DEF Then, Idle
    <2> QED
        BY <1>0, <1>1, <1>4, <2>2 DEF SaveClose
<1>5. ASSUME NEW p \in Publishers, PublishStep(p) PROVE HasDocument'
    BY <1>0, <1>1, <1>5 DEF PublishStep, Publish, PublishDone, PublishFailed, Idle
<1>6. ASSUME NEW l \in Loaders, Load(l) PROVE HasDocument'
    <2> DEFINE r == IF cache = NoCid THEN [at |-> "resolve", cid |-> NoCid]
                    ELSE [at |-> "get", cid |-> cache]
    <2>1. r.at \in {"idle", "resolve"} \/ r.cid # NoCid
        OBVIOUS
    <2>2. task' = [task EXCEPT ![l] = r]
        BY <1>6 DEF Load
    <2> HIDE DEF r
    <2> QED
        BY <1>0, <1>1, <2>1, <2>2
<1>7. ASSUME NEW l \in Loaders, LoadStep(l) PROVE HasDocument'
    <2>1. CASE LoadDone(l) /\ object = "loading"
        <3> DEFINE r == [task[l] EXCEPT !.at = "scan"]
        <3>1. task' = [task EXCEPT ![l] = r] /\ task[l].at = "get"
            BY <2>1 DEF LoadDone
        <3>2. r.cid # NoCid
            BY <1>0, <3>1 DEF HasDocument
        <3> HIDE DEF r
        <3> QED
            BY <1>0, <1>1, <3>1, <3>2
    <2>2. CASE ~(LoadDone(l) /\ object = "loading")
        BY <1>0, <1>1, <1>7, <2>2 DEF LoadStep, Resolved, NotResolved, LoadDone, LoadFailed, FirstLoaded, ScanRaises, Idle
    <2> QED
        BY <2>1, <2>2
<1>8. CASE task' = task
    BY <1>8 DEF HasDocument
<1>9. ASSUME \/ Create \/ PublishNothing \/ UNCHANGED vars
             \/ \E u \in Updates : Update(u) \/ PutDone(u) \/ PutFailed(u)
      PROVE  task' = task
    BY <1>9 DEF Create, PublishNothing, Update, PutDone, PutFailed
<1> QED
    BY <1>2, <1>3, <1>4, <1>5, <1>6, <1>7, <1>8, <1>9 DEF Next

LEMMA Typed == Spec => [](TypeOK /\ HasDocument)
<1>1. Init => HasDocument
    BY DEF Init, HasDocument, Idle
<1> QED
    BY <1>1, InitType, StepType, StepHasDocument, PTL DEF Spec

(* Every reachable state of an identifier and its cache has its type.        *)
THEOREM TypeCorrect == Spec => []TypeOK
BY Typed, PTL

-----------------------------------------------------------------------------
(* Republications *)

(* An object is first loaded by one loader, which has its CID when it scans  *)
(* the services.                                                             *)
Lone ==
    /\ object = "none" => \A l \in Loaders : task[l].at = "idle"
    /\ object = "loading" =>
           \A k, l \in Loaders : task[k].at # "idle" /\ task[l].at # "idle" => k = l
    /\ \A l \in Loaders : task[l].at = "scan" => object = "loading" /\ docCid # NoCid

LEMMA StepLone == TypeOK /\ HasDocument /\ Lone /\ [Next]_vars => Lone'
<1> SUFFICES ASSUME TypeOK, HasDocument, Lone, [Next]_vars PROVE Lone'
    OBVIOUS
<1> USE DEF memory, calls, records, vars
<1>0. /\ task \in [Tasks -> [at : Stages, cid : Cids]]
      /\ Publishers \subseteq Tasks /\ Loaders \subseteq Tasks /\ Loaders \intersect Publishers = {}
    BY IpidAssumption DEF TypeOK, Stages, Tasks
<1>1. ASSUME NEW t \in Tasks, NEW r, task' = [task EXCEPT ![t] = r],
             r.at = "idle" \/ task[t].at # "idle", r.at # "scan", UNCHANGED <<object, docCid>>
      PROVE  Lone'
    BY <1>0, <1>1 DEF Lone
<1>2. ASSUME NEW p \in Publishers, NEW r, task' = [task EXCEPT ![p] = r], UNCHANGED <<object, docCid>>
      PROVE  Lone'
    BY <1>0, <1>2 DEF Lone
<1>3. ASSUME NEW t \in Tasks, SaveOpen(t) \/ SaveClose(t) PROVE Lone'
    <2> DEFINE r == task'[t]
    <2>1. task' = [task EXCEPT ![t] = r] /\ UNCHANGED <<object, docCid>> /\ r.at # "scan" /\ task[t].at # "idle"
        BY <1>0, <1>3 DEF SaveOpen, SaveClose, Then, Idle
    <2> HIDE DEF r
    <2> QED
        BY <1>1, <2>1
<1>4. ASSUME NEW p \in Publishers, PublishStep(p) PROVE Lone'
    BY <1>2, <1>4 DEF PublishStep, Publish, PublishDone, PublishFailed
<1>5. ASSUME NEW l \in Loaders, Load(l) PROVE Lone'
    <2> DEFINE r == IF cache = NoCid THEN [at |-> "resolve", cid |-> NoCid]
                    ELSE [at |-> "get", cid |-> cache]
    <2>1. r.at \notin {"idle", "scan"} /\ task' = [task EXCEPT ![l] = r] /\ docCid' = docCid
          /\ ((object = "none" /\ object' = "loading") \/ (object \in {"ready", "blank"} /\ object' = object))
        BY <1>5 DEF Load
    <2> HIDE DEF r
    <2>2. task'[l] = r /\ \A k \in Loaders : k # l => task'[k] = task[k]
        BY <1>0, <2>1
    <2>3. \A k \in Loaders : task[k].at # "scan"
        BY <2>1 DEF Lone
    <2> QED
        BY <2>1, <2>2, <2>3 DEF Lone
<1>6. ASSUME NEW l \in Loaders, Resolved(l) PROVE Lone'
    <2> DEFINE r == [at |-> "set", cid |-> net]
    <2>1. task' = [task EXCEPT ![l] = r] /\ task[l].at # "idle" /\ r.at # "scan" /\ UNCHANGED <<object, docCid>>
        BY <1>6 DEF Resolved
    <2> HIDE DEF r
    <2> QED
        BY <1>0, <1>1, <2>1
<1>7. ASSUME NEW l \in Loaders, NotResolved(l) \/ LoadFailed(l) \/ FirstLoaded(l) \/ ScanRaises(l) PROVE Lone'
    <2>1. task' = [task EXCEPT ![l] = Idle] /\ task[l].at # "idle" /\ Idle.at = "idle"
        BY <1>7 DEF NotResolved, LoadFailed, FirstLoaded, ScanRaises, Idle
    <2>2. task'[l].at = "idle" /\ \A k \in Loaders : k # l => task'[k] = task[k]
        BY <1>0, <2>1
    <2>3. object = "loading" => \A k \in Loaders : task'[k].at = "idle"
        BY <2>1, <2>2 DEF Lone
    <2>4. task[l].at = "scan" => object = "loading"
        BY DEF Lone
    <2>5. FirstLoaded(l) \/ ScanRaises(l) => object = "loading"
        BY <2>4 DEF FirstLoaded, ScanRaises
    <2>6. CASE object = "loading"
        BY <2>3, <2>6 DEF Lone
    <2>7. CASE object # "loading"
        <3>1. UNCHANGED <<object, docCid>>
            BY <1>7, <2>5, <2>7 DEF NotResolved, LoadFailed, Dropped
        <3> QED
            BY <2>2, <3>1 DEF Lone
    <2> QED
        BY <2>6, <2>7
<1>8. ASSUME NEW l \in Loaders, LoadDone(l) PROVE Lone'
    <2>1. task[l].at = "get" /\ task[l].cid # NoCid /\ docCid' = task[l].cid /\ object' = object
        BY <1>0, <1>8 DEF LoadDone, HasDocument
    <2>2. CASE object = "loading"
        <3>1. \A k \in Loaders : k # l => task'[k] = task[k] /\ task[k].at = "idle"
            BY <1>0, <1>8, <2>1, <2>2 DEF LoadDone, Lone
        <3> QED
            BY <2>1, <2>2, <3>1 DEF Lone
    <2>3. CASE object # "loading"
        <3>1. task' = [task EXCEPT ![l] = Idle]
            BY <1>8, <2>3 DEF LoadDone
        <3>2. \A k \in Loaders : task'[k] = task[k] \/ task'[k].at = "idle"
            BY <1>0, <3>1 DEF Idle
        <3> QED
            BY <2>1, <2>3, <3>2 DEF Lone
    <2> QED
        BY <2>2, <2>3
<1>9. CASE Crash
    BY <1>0, <1>9 DEF Crash, Lone, Idle
<1>10. ASSUME NEW u \in Updates, Update(u) \/ PutDone(u) \/ PutFailed(u) PROVE Lone'
    <2>1. task' = task /\ object' = object
        BY <1>10 DEF Update, PutDone, PutFailed
    <2>2. docCid # NoCid => docCid' # NoCid
        <3>1. CASE PutDone(u)
            <4>1. store \in Seq(SUBSET Updates) /\ update[u].doc \in SUBSET Updates
                BY DEF TypeOK
            <4>2. docCid' = Len(Append(store, update[u].doc))
                BY <3>1 DEF PutDone
            <4> QED
                BY <4>1, <4>2 DEF NoCid
        <3> QED
            BY <1>10, <3>1 DEF Update, PutFailed
    <2> QED
        BY <2>1, <2>2 DEF Lone
<1>11. CASE Create
    BY <1>11 DEF Create, Lone
<1>12. CASE UNCHANGED <<object, task, docCid>>
    BY <1>12 DEF Lone
<1>13. PublishNothing \/ UNCHANGED vars => UNCHANGED <<object, task, docCid>>
    BY DEF PublishNothing
<1> QED
    BY <1>3, <1>4, <1>5, <1>6, <1>7, <1>8, <1>9, <1>10, <1>11, <1>12, <1>13 DEF Next, LoadStep

LEMMA StepRepublication ==
    TypeOK /\ HasDocument /\ Lone /\ RepublicationToCome /\ [Next]_vars => RepublicationToCome'
<1> SUFFICES ASSUME TypeOK, HasDocument, Lone, RepublicationToCome, [Next]_vars PROVE RepublicationToCome'
    OBVIOUS
<1> USE DEF memory, calls, records, vars
<1>0. due \in Nat /\ timers \in 0..MaxTimers
    BY DEF TypeOK
<1>1. CASE Create
    BY <1>0, <1>1 DEF Create, RepublicationToCome, NoCid
<1>2. ASSUME NEW u \in Updates, PutDone(u) PROVE RepublicationToCome'
    <2>1. store \in Seq(SUBSET Updates) /\ update[u].doc \in SUBSET Updates
        BY DEF TypeOK
    <2>2. docCid' = Len(Append(store, update[u].doc))
        BY <1>2 DEF PutDone
    <2>3. docCid' # NoCid
        BY <2>1, <2>2 DEF NoCid
    <2>4. due' >= due /\ timers' = timers /\ object' = object
        BY <1>0, <1>2 DEF PutDone
    <2> QED
        BY <1>0, <2>3, <2>4, <1>2 DEF RepublicationToCome, PutDone
<1>3. ASSUME NEW p \in Publishers, Publish(p) PROVE RepublicationToCome'
    <2>1. timers' > 0 /\ docCid' = docCid /\ docCid # NoCid
        <3>1. CASE due > 0 /\ due' = due - 1 /\ timers' = AddTimer
            BY <3>1, <1>0, <1>3, IpidAssumption DEF AddTimer, Publish
        <3>2. CASE timers > 0 /\ UNCHANGED calls
            BY <3>2, <1>3 DEF Publish
        <3> QED
            BY <1>3, <3>1, <3>2 DEF Publish
    <2> QED
        BY <2>1 DEF RepublicationToCome
<1>4. ASSUME NEW l \in Loaders, LoadDone(l) PROVE RepublicationToCome'
    <2>1. docCid' # NoCid /\ UNCHANGED <<object, due, timers>>
        BY <1>4 DEF LoadDone, HasDocument, Tasks
    <2> QED
        BY <2>1 DEF RepublicationToCome
<1>5. ASSUME NEW l \in Loaders, FirstLoaded(l) PROVE RepublicationToCome'
    <2>1. docCid # NoCid /\ docCid' = docCid /\ due' = due + 1
        BY <1>5 DEF FirstLoaded, Lone
    <2> QED
        BY <1>0, <2>1 DEF RepublicationToCome
<1>6. ASSUME NEW l \in Loaders, NotResolved(l) \/ LoadFailed(l) \/ Load(l) PROVE RepublicationToCome'
    BY <1>6 DEF NotResolved, LoadFailed, Load, Dropped, RepublicationToCome
<1>7. CASE Crash \/ (\E l \in Loaders : ScanRaises(l)) \/ PublishNothing
    BY <1>7 DEF Crash, ScanRaises, PublishNothing, RepublicationToCome
<1>8. CASE UNCHANGED <<object, docCid, due, timers>>
    BY <1>8 DEF RepublicationToCome
<1>9. ASSUME \/ \E u \in Updates : Update(u) \/ PutFailed(u)
             \/ \E t \in Tasks : SaveOpen(t) \/ SaveClose(t)
             \/ \E p \in Publishers : PublishDone(p) \/ PublishFailed(p)
             \/ \E l \in Loaders : Resolved(l)
             \/ UNCHANGED vars
      PROVE  UNCHANGED <<object, docCid, due, timers>>
    BY <1>9 DEF Update, PutFailed, SaveOpen, SaveClose, PublishDone, PublishFailed, Resolved
<1> QED
    BY <1>1, <1>2, <1>3, <1>4, <1>5, <1>6, <1>7, <1>8, <1>9 DEF Next, PublishStep, LoadStep

(* Whatever publications failed, were repeated or still run, and whatever    *)
(* loads failed before, one more publication is always to come of an object  *)
(* that others have, for any number of publications and loaders at once.     *)
THEOREM AlwaysRepublished == Spec => []RepublicationToCome
<1>1. Init => RepublicationToCome /\ Lone
    BY DEF Init, RepublicationToCome, Lone, Idle, Tasks
<1> QED
    BY <1>1, Typed, StepLone, StepRepublication, PTL DEF Spec

-----------------------------------------------------------------------------
(* The file of the cache.  One task writes it at a time; once no record is   *)
(* to be set, what it writes, or wrote, is the record of the cache.          *)

SavesLast ==
    /\ \A t, k \in Tasks : task[t].at = "save" /\ task[k].at = "save" => t = k
    /\ (\A t \in Tasks : task[t].at # "set") => IF Saving THEN dump = cache ELSE file = cache

Busy == {"set", "save"}

LEMMA StepSavesLast == TypeOK /\ SavesLast /\ [Next]_vars => SavesLast'
<1> SUFFICES ASSUME TypeOK, SavesLast, [Next]_vars PROVE SavesLast'
    OBVIOUS
<1> USE DEF memory, calls, records, vars
<1>0. /\ task \in [Tasks -> [at : Stages, cid : Cids]]
      /\ Publishers \subseteq Tasks /\ Loaders \subseteq Tasks
    BY DEF TypeOK, Stages, Tasks
<1>1. ASSUME NEW t \in Tasks, NEW r, r.at \notin Busy, task[t].at \notin Busy,
             task' = [task EXCEPT ![t] = r], UNCHANGED <<cache, dump, file>>
      PROVE  SavesLast'
    BY <1>0, <1>1 DEF SavesLast, Saving, Busy
<1>2. ASSUME NEW t \in Tasks, NEW r, r.at = "set", task[t].at \notin Busy,
             task' = [task EXCEPT ![t] = r]
      PROVE  SavesLast'
    BY <1>0, <1>2 DEF SavesLast, Saving, Busy
<1>3. CASE Crash
    BY <1>3 DEF Crash, Idle, SavesLast, Saving
<1>4. ASSUME NEW t \in Tasks, SaveOpen(t) PROVE SavesLast'
    BY <1>0, <1>4 DEF SaveOpen, SavesLast, Saving
<1>5. ASSUME NEW t \in Tasks, SaveClose(t) PROVE SavesLast'
    <2>1. Then(t).at \notin Busy
        BY <1>0, <1>5 DEF Then, Idle, Busy
    <2> DEFINE r == Then(t)
    <2>2. task' = [task EXCEPT ![t] = r] /\ r.at \notin Busy
        BY <1>5, <2>1 DEF SaveClose
    <2> HIDE DEF r
    <2>3. \A k \in Tasks : task'[k].at # "save"
        BY <1>0, <1>5, <2>2 DEF SaveClose, SavesLast, Busy
    <2>4. ASSUME \A k \in Tasks : task'[k].at # "set" PROVE file' = cache'
        <3>1. \A k \in Tasks : task[k].at # "set"
            BY <1>0, <1>5, <2>2, <2>4 DEF SaveClose
        <3>2. dump = cache
            BY <3>1, <1>5 DEF SavesLast, Saving, SaveClose
        <3> QED
            BY <3>2, <1>5 DEF SaveClose
    <2> QED
        BY <2>3, <2>4 DEF SavesLast, Saving
<1>6. ASSUME NEW p \in Publishers, Publish(p) PROVE SavesLast'
    <2> DEFINE r == [at |-> "set", cid |-> docCid]
    <2>1. task' = [task EXCEPT ![p] = r] /\ task[p].at \notin Busy /\ r.at = "set"
        BY <1>6 DEF Publish, Idle, Busy
    <2> HIDE DEF r
    <2> QED
        BY <1>0, <1>2, <2>1
<1>7. ASSUME NEW p \in Publishers, PublishDone(p) \/ PublishFailed(p) PROVE SavesLast'
    BY <1>0, <1>1, <1>7 DEF PublishDone, PublishFailed, Idle, Busy
<1>8. ASSUME NEW l \in Loaders, Load(l) PROVE SavesLast'
    <2> DEFINE r == IF cache = NoCid THEN [at |-> "resolve", cid |-> NoCid]
                    ELSE [at |-> "get", cid |-> cache]
    <2>1. r.at \notin Busy
        BY DEF Busy
    <2>2. task' = [task EXCEPT ![l] = r] /\ task[l].at \notin Busy /\ UNCHANGED <<cache, dump, file>>
        BY <1>8 DEF Load, Idle, Busy
    <2> HIDE DEF r
    <2> QED
        BY <1>0, <1>1, <2>1, <2>2
<1>9. ASSUME NEW l \in Loaders, Resolved(l) PROVE SavesLast'
    BY <1>0, <1>2, <1>9 DEF Resolved, Busy
<1>10. ASSUME NEW l \in Loaders,
              NotResolved(l) \/ LoadDone(l) \/ LoadFailed(l) \/ FirstLoaded(l) \/ ScanRaises(l)
       PROVE  SavesLast'
    <2>1. CASE LoadDone(l) /\ object = "loading"
        <3> DEFINE r == [task[l] EXCEPT !.at = "scan"]
        <3>1. task' = [task EXCEPT ![l] = r] /\ task[l].at = "get" /\ UNCHANGED <<cache, dump, file>>
            BY <2>1 DEF LoadDone
        <3>2. r.at \notin Busy /\ task[l].at \notin Busy
            BY <1>0, <3>1 DEF Busy
        <3> HIDE DEF r
        <3> QED
            BY <1>0, <1>1, <3>1, <3>2
    <2>2. CASE ~(LoadDone(l) /\ object = "loading")
        BY <1>0, <1>1, <1>10, <2>2 DEF NotResolved, LoadDone, LoadFailed, FirstLoaded, ScanRaises, Idle, Busy
    <2> QED
        BY <2>1, <2>2
<1>11. CASE UNCHANGED <<task, cache, dump, file>>
    BY <1>11 DEF SavesLast, Saving
<1>12. ASSUME \/ Create \/ PublishNothing \/ UNCHANGED vars
              \/ \E u \in Updates : Update(u) \/ PutDone(u) \/ PutFailed(u)
       PROVE  UNCHANGED <<task, cache, dump, file>>
    BY <1>12 DEF Create, PublishNothing, Update, PutDone, PutFailed
<1> QED
    BY <1>3, <1>4, <1>5, <1>6, <1>7, <1>8, <1>9, <1>10, <1>11, <1>12 DEF Next, PublishStep, LoadStep

(* However many publications and loads save the cache, and whenever the      *)
(* application stops, the file has the record of the cache when no save is   *)
(* to come.                                                                  *)
THEOREM FileFollowsCache == Spec => []FileIsCache
<1>1. Init => SavesLast
    BY DEF Init, SavesLast, Saving, Idle
<1>2. SavesLast => FileIsCache
    BY DEF SavesLast, FileIsCache, Saving
<1> QED
    BY <1>1, <1>2, Typed, StepSavesLast, PTL DEF Spec
=============================================================================
