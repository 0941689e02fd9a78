---------------------------- MODULE GalleryProofs ----------------------------
(* The hashmarks of a gallery follow its EvolvingDAG, for any number of      *)
(* coroutines, any bounds and any faults but an unreadable metadata file.    *)
(* The argument: the marks are a piece of the lineage that the links         *)
(* 'previous' of the versions make, which ends at the latest version; they   *)
(* are never fewer than the CIDs of the history, so that a rewind, which     *)
(* takes its version from the history, finds that version among the marks.   *)
EXTENDS GalleryPyramid, EDagProofs, SequenceTheorems

Rewinding == \E w \in Rewinders : pc[w] = "rwmeta"
Over      == IF Rewinding THEN 1 ELSE 0   \* marks that the rewind will pop

(* What the DAG is, or will be when it is loaded.                            *)
Known == IF pc[Loader] = "start" THEN mfsMeta ELSE dagMeta

Lineage(ms, st) ==
    /\ ms \in Seq(Cids)
    /\ \A i \in DOMAIN ms : ms[i] \in DOMAIN st
    /\ \A i, j \in DOMAIN ms : i < j => ms[i] < ms[j]
    /\ \A i \in DOMAIN ms : i # 1 => ms[i - 1] = st[ms[i]].prev

(* Without its last k marks, a pyramid shows the version that m records.     *)
Shows(ms, k, m) ==
    /\ Len(ms) > k => ms[Len(ms) - k] = m.cidlatest
    /\ Len(ms) >= Len(m.history) + k

Marked == Lineage(marks, store) /\ Shows(marks, Over, Known)

(* Nobody uses a gallery whose signal is not connected.                      *)
Attached ==
    /\ connected => pc[Loader] # "start"
    /\ ~connected => \A u \in Users : pc[u] = "idle"

GInv == DataHolds /\ Attached /\ (~apart => Marked)

-----------------------------------------------------------------------------
(* Operations on marks                                                       *)

(* A stored version keeps its place: the lineage outlives what put() adds.   *)
LEMMA LineageKept ==
    ASSUME NEW ms, NEW st \in Seq(Content), NEW st2 \in Seq(Content), Lineage(ms, st),
           Len(st) <= Len(st2), \A c \in DOMAIN st : st2[c] = st[c]
    PROVE  Lineage(ms, st2)
<1>1. \A c \in DOMAIN st : c \in DOMAIN st2
    OBVIOUS
<1> QED
    BY <1>1 DEF Lineage

(* A mark added to a piece of lineage is its next version; room is made only *)
(* for a pyramid that is full.                                               *)
LEMMA MarkAdded ==
    ASSUME NEW st, Lineage(marks, st), NEW cid \in Cids, cid \in DOMAIN st,
           marks # <<>> => marks[Len(marks)] = st[cid].prev /\ marks[Len(marks)] < cid
    PROVE  /\ Lineage(MarkAdd(cid), st)
           /\ MarkAdd(cid)[Len(MarkAdd(cid))] = cid
           /\ Len(MarkAdd(cid)) >= IF Len(marks) >= MaxMarks THEN MaxMarks ELSE Len(marks) + 1
<1> DEFINE room == IF Len(marks) >= MaxMarks THEN Tail(marks) ELSE marks
<1> DEFINE k == IF Len(marks) >= MaxMarks THEN 1 ELSE 0
<1>1. marks \in Seq(Cids) /\ MaxMarks \in Nat /\ MaxMarks >= 3
    BY MarksAssumption, BoundsAssumption DEF Lineage
<1>2. /\ room \in Seq(Cids) /\ k \in {0, 1} /\ Len(room) = Len(marks) - k /\ Len(marks) >= k
      /\ \A i \in DOMAIN room : i + k \in DOMAIN marks /\ room[i] = marks[i + k]
    BY <1>1
<1>3. Len(room) >= IF Len(marks) >= MaxMarks THEN MaxMarks - 1 ELSE Len(marks)
    BY <1>1, <1>2
<1>4. ASSUME NEW i \in DOMAIN marks PROVE marks[i] < cid
    <2>1. marks # <<>> /\ Len(marks) \in DOMAIN marks /\ i \in 1..Len(marks)
        BY <1>1
    <2>2. marks[i] \in Int /\ marks[Len(marks)] \in Int /\ cid \in Int
        BY <1>1, <2>1, BoundsAssumption DEF Cids
    <2>3. i < Len(marks) => marks[i] < marks[Len(marks)]
        BY <2>1 DEF Lineage
    <2> QED
        BY <2>1, <2>2, <2>3
<1>5. \A i \in DOMAIN room : room[i] < cid /\ room[i] # cid
    <2>1. \A c \in Cids : ~(c < c)
        BY BoundsAssumption DEF Cids
    <2> QED
        BY <1>2, <1>4, <2>1
<1>6. MarkAdd(cid) = Append(room, cid)
    <2>1. DOMAIN room = 1..Len(room)
        BY <1>2
    <2> QED
        BY <1>5, <2>1 DEF MarkAdd, Contains
<1> HIDE DEF room, k
<1> DEFINE ms == Append(room, cid)
<1>7. /\ ms \in Seq(Cids) /\ Len(ms) = Len(room) + 1 /\ ms[Len(ms)] = cid
      /\ \A i \in DOMAIN room : ms[i] = room[i]
      /\ DOMAIN ms = DOMAIN room \union {Len(ms)}
    BY <1>2
<1>8. \A i \in DOMAIN ms : i # 1 => ms[i - 1] = st[ms[i]].prev
    <2>1. ASSUME NEW i \in DOMAIN room, i # 1 PROVE ms[i - 1] = st[ms[i]].prev
        <3>1. i - 1 \in DOMAIN room /\ (i - 1) + k = (i + k) - 1 /\ i + k # 1 /\ i + k \in DOMAIN marks
            BY <1>2, <2>1
        <3>2. marks[(i + k) - 1] = st[marks[i + k]].prev
            BY <3>1 DEF Lineage
        <3>3. ms[i - 1] = marks[(i - 1) + k] /\ ms[i] = marks[i + k]
            BY <1>2, <1>7, <3>1
        <3> QED
            BY <3>1, <3>2, <3>3
    <2>2. ASSUME Len(ms) # 1 PROVE ms[Len(ms) - 1] = st[ms[Len(ms)]].prev
        <3>1. Len(room) \in DOMAIN room /\ Len(ms) - 1 = Len(room) /\ Len(room) + k = Len(marks)
            BY <1>2, <1>7, <2>2
        <3>2. ms[Len(ms) - 1] = marks[Len(marks)] /\ marks # <<>>
            BY <1>1, <1>2, <1>7, <3>1
        <3> QED
            BY <1>7, <3>2
    <2> QED
        BY <1>7, <2>1, <2>2
<1>9. \A i, j \in DOMAIN ms : i < j => ms[i] < ms[j]
    <2>1. ASSUME NEW i \in DOMAIN room, NEW j \in DOMAIN room, i < j PROVE ms[i] < ms[j]
        <3>1. i + k \in DOMAIN marks /\ j + k \in DOMAIN marks /\ i + k < j + k
            BY <1>2, <2>1
        <3> QED
            BY <1>2, <1>7, <3>1 DEF Lineage
    <2>2. \A i \in DOMAIN room : ms[i] < cid
        BY <1>5, <1>7
    <2>3. \A i \in DOMAIN room : ~(Len(ms) < i)
        BY <1>2, <1>7
    <2> QED
        BY <1>2, <1>7, <2>1, <2>2, <2>3
<1>10. \A i \in DOMAIN ms : ms[i] \in DOMAIN st
    BY <1>2, <1>7 DEF Lineage
<1>11. Len(ms) >= IF Len(marks) >= MaxMarks THEN MaxMarks ELSE Len(marks) + 1
    BY <1>1, <1>2, <1>3, <1>7
<1> QED
    BY <1>6, <1>7, <1>8, <1>9, <1>10, <1>11 DEF Lineage

(* The mark before the last is still there when room was made.               *)
LEMMA MarkFound ==
    ASSUME NEW st, Lineage(marks, st), Len(marks) >= 2
    PROVE  LET ms == MarkAdd(marks[Len(marks) - 1])
           IN  /\ Lineage(ms, st)
               /\ ms[Len(ms) - 1] = marks[Len(marks) - 1]
               /\ Len(ms) >= IF Len(marks) >= MaxMarks THEN MaxMarks - 1 ELSE Len(marks)
<1> DEFINE room == IF Len(marks) >= MaxMarks THEN Tail(marks) ELSE marks
<1> DEFINE k == IF Len(marks) >= MaxMarks THEN 1 ELSE 0
<1> DEFINE cid == marks[Len(marks) - 1]
<1>1. marks \in Seq(Cids) /\ MaxMarks \in Nat /\ MaxMarks >= 3
    BY MarksAssumption, BoundsAssumption DEF Lineage
<1>2. /\ room \in Seq(Cids) /\ k \in {0, 1} /\ Len(room) = Len(marks) - k
      /\ \A i \in DOMAIN room : i + k \in DOMAIN marks /\ room[i] = marks[i + k]
      /\ Len(room) >= IF Len(marks) >= MaxMarks THEN MaxMarks - 1 ELSE Len(marks)
    BY <1>1
<1>3. Len(room) >= 2
    BY <1>1, <1>2
<1>4. Len(room) - 1 \in DOMAIN room /\ room[Len(room) - 1] = cid
    BY <1>1, <1>2, <1>3
<1>5. MarkAdd(cid) = room
    BY <1>2, <1>4 DEF MarkAdd, Contains
<1> HIDE DEF room, k, cid
<1>6. Lineage(room, st)
    <2>1. ASSUME NEW i \in DOMAIN room, i # 1 PROVE room[i - 1] = st[room[i]].prev
        <3>1. i - 1 \in DOMAIN room /\ (i - 1) + k = (i + k) - 1 /\ i + k # 1 /\ i + k \in DOMAIN marks
            BY <1>2, <2>1
        <3>2. marks[(i + k) - 1] = st[marks[i + k]].prev
            BY <3>1 DEF Lineage
        <3> QED
            BY <1>2, <3>1, <3>2
    <2>2. ASSUME NEW i \in DOMAIN room, NEW j \in DOMAIN room, i < j PROVE room[i] < room[j]
        <3>1. i + k \in DOMAIN marks /\ j + k \in DOMAIN marks /\ i + k < j + k
            BY <1>2, <2>2
        <3> QED
            BY <1>2, <3>1 DEF Lineage
    <2>3. \A i \in DOMAIN room : room[i] \in DOMAIN st
        BY <1>2 DEF Lineage
    <2> QED
        BY <1>2, <2>1, <2>2, <2>3 DEF Lineage
<1> QED
    BY <1>2, <1>4, <1>5, <1>6 DEF cid

(* Popping a mark leaves a piece of lineage, shorter by one.                 *)
LEMMA MarkPopped ==
    ASSUME NEW st, Lineage(marks, st), NEW m, Shows(marks, 1, m), Len(m.history) \in Nat
    PROVE  Lineage(MarkPop, st) /\ Shows(MarkPop, 0, m)
<1>1. marks \in Seq(Cids) /\ Len(marks) >= 1
    BY DEF Lineage, Shows
<1>2. MarkPop = SubSeq(marks, 1, Len(marks) - 1)
    BY <1>1 DEF MarkPop, Front
<1>3. /\ MarkPop \in Seq(Cids) /\ Len(MarkPop) = Len(marks) - 1
      /\ \A i \in DOMAIN MarkPop : i \in DOMAIN marks /\ MarkPop[i] = marks[i]
    <2> DEFINE n == Len(marks) - 1
    <2>1. n \in Nat /\ n <= Len(marks)
        BY <1>1
    <2>2. \A i \in 1..n : i \in DOMAIN marks
        BY <1>1
    <2> HIDE DEF n
    <2>3. \A i \in 1..n : marks[i] \in Cids
        BY <1>1, <2>2
    <2>4. /\ SubSeq(marks, 1, n) \in Seq(Cids)
          /\ Len(SubSeq(marks, 1, n)) = IF 1 <= n THEN n - 1 + 1 ELSE 0
          /\ \A i \in 1..(n - 1 + 1) : SubSeq(marks, 1, n)[i] = marks[1 + i - 1]
        BY <2>1, <2>3, SubSeqProperties
    <2>5. SubSeq(marks, 1, n) \in Seq(Cids) /\ Len(SubSeq(marks, 1, n)) = n
        BY <2>1, <2>4
    <2>6. ASSUME NEW i \in 1..n PROVE SubSeq(marks, 1, n)[i] = marks[i]
        <3>1. i \in 1..(n - 1 + 1) /\ 1 + i - 1 = i
            BY <2>1
        <3>2. SubSeq(marks, 1, n)[i] = marks[1 + i - 1]
            BY <2>4, <3>1
        <3> QED
            BY <3>1, <3>2
    <2>7. DOMAIN SubSeq(marks, 1, n) = 1..n
        BY <2>5
    <2> QED
        BY <1>2, <2>2, <2>5, <2>6, <2>7 DEF n
<1>4. ASSUME NEW i \in DOMAIN MarkPop, i # 1 PROVE MarkPop[i - 1] = st[MarkPop[i]].prev
    <2>1. i - 1 \in DOMAIN MarkPop
        BY <1>3, <1>4
    <2> QED
        BY <1>3, <1>4, <2>1 DEF Lineage
<1>5. Lineage(MarkPop, st)
    BY <1>3, <1>4 DEF Lineage
<1>6. Shows(MarkPop, 0, m)
    BY <1>1, <1>3 DEF Shows
<1> QED
    BY <1>5, <1>6

-----------------------------------------------------------------------------
(* Steps                                                                     *)

(* A step that sets no CID and ends no rewind leaves the marks right.        *)
LEMMA QuietMarked ==
    ASSUME Marked, Follow, store' = store, Known' = Known,
           \A s \in Savers : ~(pc[s] = "put" /\ pc'[s] = "meta"),
           \A w \in Rewinders :
               \/ pc'[w] = pc[w]
               \/ pc[w] = "idle" /\ pc'[w] = "wait"
               \/ pc[w] = "wait" /\ pc'[w] = "rwget"
    PROVE  Marked'
<1>1. ~CidSet
    BY DEF CidSet
<1>2. ~Rewound /\ ~Refused
    BY DEF Rewound, Refused
<1>3. marks' = marks
    BY <1>1, <1>2 DEF Follow
<1>4. Rewinding' <=> Rewinding
    BY DEF Rewinding
<1>5. Over' = Over
    BY <1>4 DEF Over
<1> QED
    BY <1>3, <1>5 DEF Marked, Lineage, Shows

(* Load() records no version: it finds the one the marks show.               *)
LEMMA LoadMarked ==
    ASSUME "metaread" \notin Faults, DataHolds, Marked, Follow, Load
    PROVE  Marked'
<1>0. ASSUME store' = store, Known' = Known,
             \A x \in Savers : ~(pc[x] = "put" /\ pc'[x] = "meta"),
             \A w \in Rewinders : pc'[w] = pc[w]
      PROVE  Marked'
    BY <1>0, QuietMarked
<1> USE TasksAssumption DEF Tasks, Savers, Step, DataHolds, Control, PcOK
<1>1. store' = store /\ mfsMeta' = mfsMeta
    BY DEF Load, LoadFresh, LoadUnparsed, LoadMeta, LoadGet, LoadGetFailed, disk
<1>2. /\ pc[Loader] \in {"start", "get"} /\ pc'[Loader] \in {"get", "wait", "done", "failed"}
      /\ \A t \in Tasks \ {Loader} : pc'[t] = pc[t]
    BY DEF Load, LoadFresh, LoadUnparsed, LoadMeta, LoadGet, LoadGetFailed
<1>3. /\ \A x \in Savers : ~(pc[x] = "put" /\ pc'[x] = "meta")
      /\ \A w \in Rewinders : pc'[w] = pc[w]
    BY <1>2
<1>4. CASE Known' = Known
    BY <1>1, <1>3, <1>4, <1>0
<1>5. CASE LoadFresh
    <2>1. Known = NoMeta /\ Known' = NewMeta
        BY <1>2, <1>5 DEF LoadFresh, Known
    <2>2. ~Rewinding /\ ~Rewinding'
        BY <1>2, <1>5 DEF LoadFresh, Rewinding, Phases
    <2>3. marks' = marks
        BY <1>2, <1>5 DEF LoadFresh, Follow, CidSet, Rewound, Refused
    <2>4. marks = <<>>
        <3>1. marks \in Seq(Cids) /\ (Len(marks) > 0 => marks[Len(marks)] = -1)
            BY <2>1, <2>2 DEF Marked, Lineage, Shows, Over, NoMeta
        <3> QED
            BY <3>1, BoundsAssumption DEF Cids
    <2> QED
        BY <1>1, <2>1, <2>2, <2>3, <2>4 DEF Marked, Lineage, Shows, Over, NewMeta
<1>6. CASE LoadUnparsed \/ LoadMeta \/ LoadGet \/ LoadGetFailed
    <2>1. Known' = Known
        BY <1>1, <1>2, <1>6 DEF LoadUnparsed, LoadMeta, LoadGet, LoadGetFailed, Known, memory
    <2> QED
        BY <1>4, <2>1
<1> QED
    BY <1>5, <1>6 DEF Load

(* A save lengthens the history by one CID at most.                          *)
LEMMA PushShort ==
    ASSUME NEW h \in Seq(Cids), NEW p \in Cids PROVE Len(Push(h, p)) <= Len(h) + 1
<1> DEFINE kept == IF Len(h) > MaxItems THEN SubSeq(h, 1, MaxItems) ELSE h
<1>1. kept \in Seq(Cids) /\ Len(kept) <= Len(h)
    BY BoundsAssumption
<1>2. Push(h, p) = h \/ Push(h, p) = <<p>> \o kept
    BY DEF Push
<1> HIDE DEF kept
<1> QED
    BY <1>1, <1>2

(* The CID that a save sets follows the latest version: it is marked.        *)
LEMMA SaveMarked ==
    ASSUME DataHolds, DataHolds', Marked, Follow, ~SetApart, NEW s \in Savers, Save(s)
    PROVE  Marked'
<1>0. ASSUME store' = store, Known' = Known,
             \A x \in Savers : ~(pc[x] = "put" /\ pc'[x] = "meta"),
             \A w \in Rewinders : pc'[w] = pc[w]
      PROVE  Marked'
    BY <1>0, QuietMarked
<1> USE TasksAssumption DEF Tasks, Savers, Step, DataHolds, Control, PcOK
<1>1. pc[Loader] \notin {"start", "failed"} /\ pc'[Loader] # "start" /\ \A t \in Tasks \ {s} : pc'[t] = pc[t]
    BY DEF Save, SaveLocked, PutDone, PutFailed, SaveDone, AfterSave, Phases
<1>2. CASE SaveLocked(s) \/ PutFailed(s) \/ SaveDone(s)
    <2>1. store' = store /\ dagMeta' = dagMeta
        BY <1>2 DEF SaveLocked, PutFailed, SaveDone, disk, memory
    <2>2. ~(pc[s] = "put" /\ pc'[s] = "meta")
        BY <1>2 DEF SaveLocked, PutFailed, SaveDone, AfterSave
    <2>3. Known' = Known
        BY <1>1, <2>1 DEF Known
    <2>4. /\ \A x \in Savers : ~(pc[x] = "put" /\ pc'[x] = "meta")
          /\ \A w \in Rewinders : pc'[w] = pc[w]
        BY <1>1, <2>2
    <2> QED
        BY <2>1, <2>3, <2>4, <1>0
<1>3. CASE PutDone(s)
    <2> DEFINE latest == dagMeta.cidlatest
    <2>1. pc[s] = "put" /\ pc'[s] = "meta" /\ writer = s /\ PutOK
        BY <1>3 DEF PutDone, LockState, WriteSection, Suspended
    <2>2. PICK cid \in Cids :
              /\ Put(put, cid)
              /\ dagMeta' = [cidlatest |-> cid, history |-> Push(dagMeta.history, latest)]
        BY <1>3 DEF PutDone
    <2>3. store \in Seq(Content) /\ put \in Content /\ put.prev = latest
        BY <2>1 DEF Core, StoreOK, PutOK
    <2>4. /\ cid \in DOMAIN store' /\ store'[cid] = put /\ Len(store) <= Len(store')
          /\ \A c \in DOMAIN store : store'[c] = store[c]
        BY <2>2, <2>3 DEF Put
    <2>5. store' \in Seq(Content)
        BY <2>2, <2>3 DEF Put
    <2>6. /\ cid \in DOMAIN store' /\ store'[cid].prev = latest /\ Len(store) <= Len(store')
          /\ \A c \in DOMAIN store : store'[c] = store[c]
          /\ store \in Seq(Content) /\ store' \in Seq(Content)
        BY <2>3, <2>4, <2>5
    <2>7. CidSet
        BY <2>1 DEF CidSet
    <2>8. ~Rewinding /\ ~Rewinding'
        BY <1>1, <2>1 DEF Rewinding, LockState, WriteSection
    <2>9. Known = dagMeta /\ Known' = dagMeta'
        BY <1>1 DEF Known
    <2>10. /\ Lineage(marks, store') /\ marks \in Seq(Cids)
          /\ (marks # <<>> => marks[Len(marks)] = latest)
          /\ Len(marks) >= Len(dagMeta.history)
        BY <2>6, <2>8, <2>9, LineageKept DEF Marked, Shows, Over, Lineage
    <2>11. dagMeta \in Meta /\ latest \in 0..MaxCids /\ dagMeta.history \in Seq(Cids)
          /\ (latest = NoCid => dagMeta.history = <<>>)
        <3>1. dagMeta # NoMeta
            BY <1>1 DEF Suspended
        <3> QED
            BY <3>1 DEF Core, MetaIn, Meta
    <2>12. dagMeta'.cidlatest = cid /\ dagMeta'.history = Push(dagMeta.history, latest)
        BY <2>2
    <2>13. CASE connected
        <3>1. marks' = MarkAdd(cid)
            BY <2>7, <2>12, <2>13 DEF Follow
        <3>2. latest < cid
            BY <2>6 DEF Core, StoreOK
        <3>3. /\ Lineage(marks', store') /\ marks'[Len(marks')] = cid
              /\ Len(marks') >= IF Len(marks) >= MaxMarks THEN MaxMarks ELSE Len(marks) + 1
            BY <2>6, <2>10, <3>1, <3>2, MarkAdded
        <3>4. Len(dagMeta'.history) <= MaxItems + 1
            <4>1. dagMeta' # NoMeta
                BY <2>12, BoundsAssumption DEF NoMeta, Cids
            <4> QED
                BY <4>1 DEF Core, MetaIn
        <3>5. /\ Len(dagMeta'.history) \in Nat /\ Len(dagMeta.history) \in Nat
              /\ Len(dagMeta'.history) <= Len(dagMeta.history) + 1
            <4>1. CASE latest = NoCid
                BY <2>11, <2>12, <4>1 DEF Push
            <4>2. CASE latest # NoCid
                <5>1. latest \in Cids
                    BY <2>11, <4>2 DEF Cids, NoCid
                <5> QED
                    BY <2>11, <2>12, <5>1, PushShort
            <4> QED
                BY <4>1, <4>2
        <3>6. Len(marks') >= Len(dagMeta'.history)
            BY <2>10, <3>3, <3>4, <3>5, MarksAssumption, BoundsAssumption
        <3> QED
            BY <2>8, <2>9, <2>12, <3>3, <3>6 DEF Marked, Shows, Over
    <2>14. CASE ~connected
        <3>1. latest = NoCid
            BY <2>7, <2>14 DEF SetApart
        <3>2. marks = <<>>
            BY <2>10, <3>1, BoundsAssumption DEF Cids, NoCid
        <3>3. marks' = marks
            BY <1>1, <2>14 DEF Follow, Rewound, Refused
        <3>4. dagMeta'.history = <<>>
            BY <2>11, <2>12, <3>1 DEF Push
        <3> QED
            BY <2>8, <2>9, <2>10, <3>2, <3>3, <3>4 DEF Marked, Shows, Over
    <2> QED
        BY <2>13, <2>14
<1> QED
    BY <1>2, <1>3 DEF Save

(* What a rewind takes from the history is the link of the latest version.   *)
LEMMA RewindLink ==
    ASSUME MetaIn(dagMeta, store), store \in Seq(Content), dagMeta # NoMeta, Len(dagMeta.history) >= 2
    PROVE  Head(dagMeta.history) = store[dagMeta.cidlatest].prev
<1>1. dagMeta.history # <<>>
    BY DEF MetaIn, Meta
<1> QED
    BY <1>1, MetaRewound

(* A rewind pops the mark that its CID added and the one it undoes.          *)
LEMMA RewindMarked ==
    ASSUME DataHolds, DataHolds', Marked, Follow, ~SetApart, connected,
           NEW w \in Rewinders, Rewind(w)
    PROVE  Marked'
<1>0. ASSUME store' = store, Known' = Known,
             \A s \in Savers : ~(pc[s] = "put" /\ pc'[s] = "meta"),
             \A v \in Rewinders :
                 \/ pc'[v] = pc[v]
                 \/ pc[v] = "idle" /\ pc'[v] = "wait"
                 \/ pc[v] = "wait" /\ pc'[v] = "rwget"
      PROVE  Marked'
    BY <1>0, QuietMarked
<1> USE TasksAssumption DEF Tasks, Savers, Step, DataHolds, Control, PcOK
<1>1. pc[Loader] \notin {"start", "failed"} /\ pc'[Loader] = pc[Loader] /\ \A t \in Tasks \ {w} : pc'[t] = pc[t]
    BY DEF Rewind, RewindCall, RewindLocked, RewindRaised, RewindGot, RewindDone, Phases
<1>2. store' = store
    BY DEF Rewind, RewindCall, RewindLocked, RewindRaised, RewindGot, RewindDone, disk
<1>3. Known = dagMeta /\ Known' = dagMeta'
    BY <1>1 DEF Known
<1>4. CASE RewindCall(w) \/ RewindLocked(w)
    <2>1. dagMeta' = dagMeta
        BY <1>4 DEF RewindCall, RewindLocked, memory
    <2>2. \/ pc[w] = "idle" /\ pc'[w] = "wait"
          \/ pc[w] = "wait" /\ pc'[w] = "rwget"
        BY <1>4 DEF RewindCall, RewindLocked
    <2>3. /\ \A s \in Savers : ~(pc[s] = "put" /\ pc'[s] = "meta")
          /\ \A v \in Rewinders :
                 \/ pc'[v] = pc[v]
                 \/ pc[v] = "idle" /\ pc'[v] = "wait"
                 \/ pc[v] = "wait" /\ pc'[v] = "rwget"
        BY <1>1, <2>2
    <2> QED
        BY <1>2, <1>3, <2>1, <2>3, <1>0
<1>5. CASE RewindRaised(w)
    <2>1. Refused
        BY <1>1, <1>5 DEF RewindRaised, Refused
    <2> QED
        BY <2>1 DEF SetApart
<1>6. CASE RewindGot(w)
    <2> DEFINE n == Len(marks)
               h == dagMeta.history
    <2>1. /\ pc[w] = "rwget" /\ pc'[w] = "rwmeta" /\ writer = w /\ Len(h) >= 2
          /\ dagMeta' = [cidlatest |-> Head(h), history |-> Tail(h)]
        BY <1>6 DEF RewindGot, LockState, WriteSection, Suspended
    <2>2. ~Rewinding /\ Rewinding'
        BY <2>1 DEF Rewinding, LockState, WriteSection
    <2>3. CidSet
        BY <2>1 DEF CidSet
    <2>4. marks' = MarkAdd(Head(h)) /\ dagMeta'.cidlatest = Head(h) /\ dagMeta'.history = Tail(h)
        BY <2>1, <2>3 DEF Follow
    <2>5. /\ dagMeta # NoMeta /\ MetaIn(dagMeta, store) /\ store \in Seq(Content)
          /\ h \in Seq(Cids) /\ Len(h) <= MaxItems + 1
        BY <1>1 DEF Suspended, Core, StoreOK, MetaIn, Meta
    <2>6. Head(h) = store[dagMeta.cidlatest].prev
        BY <2>1, <2>5, RewindLink
    <2>7. /\ Lineage(marks, store) /\ marks \in Seq(Cids) /\ n \in Nat
          /\ n >= Len(h) /\ n >= 2 /\ marks[n] = dagMeta.cidlatest
        <3>1. /\ Lineage(marks, store) /\ (Len(marks) > 0 => marks[Len(marks) - 0] = dagMeta.cidlatest)
              /\ Len(marks) >= Len(h) + 0
            BY <1>3, <2>2 DEF Marked, Shows, Over
        <3>2. marks \in Seq(Cids) /\ Len(marks) \in Nat
            BY <3>1 DEF Lineage
        <3> HIDE DEF h
        <3>3. Len(marks) >= 2 /\ Len(marks) - 0 = Len(marks) /\ Len(marks) >= Len(h)
            BY <2>1, <2>5, <3>1, <3>2
        <3> QED
            BY <3>1, <3>2, <3>3
    <2>8. Head(h) = marks[n - 1]
        <3>1. n \in DOMAIN marks /\ n # 1
            BY <2>7
        <3> QED
            BY <2>6, <2>7, <3>1 DEF Lineage
    <2>9. /\ Lineage(marks', store) /\ marks'[Len(marks') - 1] = Head(h)
          /\ Len(marks') >= IF n >= MaxMarks THEN MaxMarks - 1 ELSE n
        BY <2>4, <2>7, <2>8, MarkFound
    <2>10. Len(Tail(h)) = Len(h) - 1 /\ Len(h) \in Nat
        BY <2>1, <2>5
    <2> HIDE DEF h
    <2>11. Len(marks') >= Len(Tail(h)) + 1
        BY <2>5, <2>7, <2>9, <2>10, MarksAssumption, BoundsAssumption
    <2> QED
        BY <1>2, <1>3, <2>2, <2>4, <2>9, <2>11 DEF Marked, Shows, Over
<1>7. CASE RewindDone(w)
    <2>1. pc[w] = "rwmeta" /\ pc'[w] = "idle" /\ writer = w /\ dagMeta' = dagMeta
        BY <1>7 DEF RewindDone, LockState, WriteSection, memory
    <2>2. Rewinding /\ ~Rewinding'
        BY <1>1, <2>1 DEF Rewinding, LockState, WriteSection
    <2>3. ~CidSet
        BY <1>1, <2>1 DEF CidSet
    <2>4. Rewound
        BY <1>1, <2>1 DEF Rewound
    <2>5. marks' = MarkPop
        BY <2>3, <2>4 DEF Follow
    <2>6. Len(dagMeta.history) \in Nat
        <3>1. dagMeta.history \in Seq(Cids)
            BY <1>1 DEF Suspended, Core, MetaIn, Meta
        <3> QED
            BY <3>1
    <2>7. Lineage(MarkPop, store) /\ Shows(MarkPop, 0, dagMeta)
        BY <1>3, <2>2, <2>6, MarkPopped DEF Marked, Over
    <2> QED
        BY <1>2, <1>3, <2>1, <2>2, <2>5, <2>7 DEF Marked, Over
<1> QED
    BY <1>4, <1>5, <1>6, <1>7 DEF Rewind

(* Readers, edits and the portals leave the marks alone.                     *)
LEMMA OtherMarked ==
    ASSUME DataHolds, Marked, Follow,
           \/ SaveStart \/ SaveNoRoot \/ PortalExpires
           \/ \E e \in Editors : Edit(e)
           \/ \E a \in Appenders : AppendImage(a)
           \/ \E r \in Readers : Read(r)
    PROVE  Marked'
<1>0. ASSUME store' = store, Known' = Known,
             \A s \in Savers : ~(pc[s] = "put" /\ pc'[s] = "meta"),
             \A v \in Rewinders : pc'[v] = pc[v]
      PROVE  Marked'
    BY <1>0, QuietMarked
<1> USE TasksAssumption DEF Tasks, Savers, Step, DataHolds, Control, PcOK
<1>1. /\ pc'[Loader] = pc[Loader] /\ \A v \in Rewinders : pc'[v] = pc[v]
      /\ ~(pc[Saver] = "put" /\ pc'[Saver] = "meta")
      /\ store' = store /\ dagMeta' = dagMeta /\ mfsMeta' = mfsMeta
    <2>1. CASE SaveStart \/ SaveNoRoot \/ PortalExpires
        BY <2>1 DEF SaveStart, SaveNoRoot, PortalExpires, memory, disk
    <2>2. ASSUME NEW e \in Editors, Edit(e)
          PROVE  /\ \A t \in Tasks \ {e} : pc'[t] = pc[t]
                 /\ store' = store /\ dagMeta' = dagMeta /\ mfsMeta' = mfsMeta
        BY <2>2 DEF Edit, Enter, EditLocked, EditNoRoot, EditDone, memory, disk
    <2>3. ASSUME NEW a \in Appenders, AppendImage(a)
          PROVE  /\ \A t \in Tasks \ {a} : pc'[t] = pc[t]
                 /\ store' = store /\ dagMeta' = dagMeta /\ mfsMeta' = mfsMeta
        BY <2>3 DEF AppendImage, AppendStart, AppendDone, memory, disk
    <2>4. ASSUME NEW r \in Readers, Read(r)
          PROVE  /\ \A t \in Tasks \ {r} : pc'[t] = pc[t]
                 /\ store' = store /\ dagMeta' = dagMeta /\ mfsMeta' = mfsMeta
        BY <2>4 DEF Read, ReadCall, ReadLocked, ReadLoaded, ReadLoadFailed, ReadDone, memory, disk
    <2> QED
        BY <2>1, <2>2, <2>3, <2>4
<1>2. Known' = Known
    BY <1>1 DEF Known
<1>3. \A s \in Savers : ~(pc[s] = "put" /\ pc'[s] = "meta")
    BY <1>1
<1> QED
    BY <1>1, <1>2, <1>3, <1>0

(* What a restart finds is what the marks were, unless it set them apart.    *)
LEMMA CrashMarked ==
    ASSUME DataHolds, Marked, Follow, ~SetApart, Crash PROVE Marked'
<1> USE TasksAssumption DEF Tasks, Savers, StartPc
<1>1. /\ pc[Loader] # "start" /\ pc'[Loader] = "start"
      /\ \A t \in Tasks \ {Loader} : pc'[t] = "idle"
      /\ store' = store /\ mfsMeta' = mfsMeta
    BY DEF Crash, disk
<1>2. mfsMeta = dagMeta /\ ~Rewinding
    BY DEF SetApart, Rewinding
<1>3. ~CidSet /\ ~Rewound /\ ~Refused
    BY <1>1 DEF CidSet, Rewound, Refused
<1>4. marks' = marks
    BY <1>3 DEF Follow
<1>5. ~Rewinding'
    BY <1>1 DEF Rewinding
<1>6. Known' = Known
    BY <1>1, <1>2 DEF Known
<1> QED
    BY <1>1, <1>2, <1>4, <1>5, <1>6 DEF Marked, Lineage, Shows, Over

-----------------------------------------------------------------------------
(* A new gallery has no version and no mark.                                 *)
LEMMA GalleryInit == GInit => GInv
<1> SUFFICES ASSUME GInit PROVE Attached /\ Marked
    BY DataInit DEF GInv, GInit
<1>1. Attached
    BY TasksAssumption DEF GInit, Init, StartPc, Attached, Users, Tasks, Savers
<1>2. ~Rewinding /\ Known = NoMeta /\ marks = <<>>
    BY TasksAssumption DEF GInit, Init, StartPc, Rewinding, Known, Tasks, Savers
<1> QED
    BY <1>1, <1>2 DEF Marked, Lineage, Shows, Over, NoMeta

(* A gallery that connects the signal leaves the DAG as it is; one that gets *)
(* an index asks for a save.                                                 *)
LEMMA InitializeData ==
    ASSUME DataHolds, PortalsOK, Initialize PROVE DataHolds' /\ PortalsOK'
<1>1. /\ loaded = TRUE /\ pc' = pc /\ editOf' = editOf /\ nEdits' = nEdits
      /\ dagRoot' = dagRoot /\ dagMeta' = dagMeta /\ loaded' = loaded /\ put' = put
      /\ writer' = writer /\ readers' = readers /\ store' = store /\ mfsMeta' = mfsMeta
      /\ portal' = portal /\ view' = view
    BY DEF Initialize, edits, memory, lock, disk, portals, DataHolds, Control, Phases
<1>2. pending \in Nat => pending' \in Nat
    BY DEF Initialize
<1>3. Control'
    BY <1>1, <1>2 DEF Control, PcOK, Phases, LockState, DataHolds
<1>4. EditsOK'
    BY <1>1 DEF EditsOK, DataHolds
<1>5. Core' /\ (PutOK => PutOK')
    BY <1>1, CoreUnchanged DEF DataHolds, memory, disk
<1>6. Suspended'
    BY <1>1, <1>5 DEF Suspended, DataHolds
<1>7. PortalsOK'
    BY <1>1 DEF PortalsOK, HasRoot, Unloaded, Emptied
<1> QED
    BY <1>3, <1>4, <1>5, <1>6, <1>7 DEF DataHolds

(* Connecting the signal finds the marks where they were.                    *)
LEMMA InitializeHolds ==
    ASSUME GInv, PortalsOK, Initialize PROVE GInv'
<1>1. /\ loaded = TRUE /\ pc' = pc /\ connected' = TRUE /\ marks' = marks /\ apart' = apart
      /\ store' = store /\ dagMeta' = dagMeta /\ mfsMeta' = mfsMeta
    BY DEF Initialize, memory, disk, GInv, DataHolds, Control, Phases
<1>2. DataHolds'
    BY InitializeData DEF GInv
<1>3. Attached'
    BY <1>1 DEF Attached, GInv, DataHolds, Control, Phases
<1>4. Marked => Marked'
    BY <1>1 DEF Marked, Lineage, Shows, Over, Known, Rewinding
<1> QED
    BY <1>1, <1>2, <1>3, <1>4 DEF GInv

(* Only a connected gallery is used, and it is loaded.                       *)
LEMMA AttachedStep ==
    ASSUME DataHolds, Attached, GalleryStep PROVE Attached'
<1>1. connected' => pc'[Loader] # "start"
    BY DEF GalleryStep
<1>2. ASSUME ~connected', NEW u \in Users PROVE pc'[u] = "idle"
    <2>1. CASE ~connected
        BY <1>2, <2>1 DEF GalleryStep, Attached
    <2>2. CASE connected
        <3>1. pc[Loader] # "start" /\ pc'[Loader] = "start"
            BY <1>2, <2>2 DEF GalleryStep, Attached
        <3>2. Crash
            BY <3>1, TasksAssumption
               DEF GalleryStep, Next, Load, LoadFresh, LoadUnparsed, LoadMeta, LoadGet, LoadGetFailed, SaveStart,
                   SaveNoRoot, PortalExpires, Save, SaveLocked, PutDone, PutFailed, SaveDone,
                   AfterSave, Edit, Enter, EditLocked, EditNoRoot, EditDone, AppendImage,
                   AppendStart, AppendDone, Rewind, RewindCall, RewindLocked, RewindRaised,
                   RewindGot, RewindDone, Read, ReadCall, ReadLocked, ReadLoaded, ReadLoadFailed,
                   ReadDone, Step, DataHolds, Control, PcOK, Tasks, Savers
        <3> QED
            BY <3>2, TasksAssumption DEF Crash, StartPc, Users, Tasks, Savers
    <2> QED
        BY <2>1, <2>2
<1> QED
    BY <1>1, <1>2 DEF Attached

(* Every step of the gallery keeps the invariant.                            *)
LEMMA GalleryHolds ==
    ASSUME "metaread" \notin Faults, GInv, GalleryStep PROVE GInv'
<1>1. DataHolds /\ DataHolds'
    BY DataStep DEF GInv, GalleryStep
<1>2. Attached'
    BY AttachedStep DEF GInv
<1>3. ASSUME ~apart' PROVE Marked'
    <2>1. Marked /\ Follow /\ ~SetApart
        BY <1>3 DEF GInv, GalleryStep
    <2>2. CASE Load
        BY <1>1, <2>1, <2>2, LoadMarked
    <2>3. CASE Crash
        BY <1>1, <2>1, <2>3, CrashMarked
    <2>4. ASSUME NEW s \in Savers, Save(s) PROVE Marked'
        BY <1>1, <2>1, <2>4, SaveMarked
    <2>5. ASSUME NEW w \in Rewinders, Rewind(w) PROVE Marked'
        <3>1. connected
            <4>1. w \in Users /\ w \in Tasks
                BY DEF Users, Tasks
            <4>2. pc'[w] # pc[w]
                BY <1>1, <2>5, <4>1 DEF Rewind, RewindCall, RewindLocked, RewindRaised, RewindGot,
                       RewindDone, Step, DataHolds, Control, PcOK
            <4> QED
                BY <4>1, <4>2 DEF GalleryStep
        <3> QED
            BY <1>1, <2>1, <2>5, <3>1, RewindMarked
    <2>6. CASE \/ SaveStart \/ SaveNoRoot \/ PortalExpires
               \/ \E e \in Editors : Edit(e)
               \/ \E a \in Appenders : AppendImage(a)
               \/ \E r \in Readers : Read(r)
        BY <1>1, <2>1, <2>6, OtherMarked
    <2> QED
        BY <2>2, <2>3, <2>4, <2>5, <2>6 DEF GalleryStep, Next
<1> QED
    BY <1>1, <1>2, <1>3 DEF GInv

(* A stuttering step keeps the invariant.                                    *)
LEMMA Unmoved == GInv /\ UNCHANGED gvars => GInv'
<1> SUFFICES ASSUME GInv, UNCHANGED gvars PROVE GInv'
    OBVIOUS
<1>1. DataHolds'
    BY DataStep DEF GInv, gvars
<1>2. Attached'
    BY DEF GInv, Attached, gvars, vars
<1>3. Marked => Marked'
    BY DEF gvars, vars, memory, disk, Marked, Lineage, Shows, Over, Known, Rewinding
<1> QED
    BY <1>1, <1>2, <1>3 DEF GInv, gvars

(* What is known of the DAG alone holds of the DAG of a gallery.             *)
LEMMA DagStep ==
    ASSUME DataHolds, PortalsOK, [GNext]_gvars PROVE DataHolds' /\ PortalsOK'
<1>1. CASE [Next]_vars
    BY <1>1, DataStep, PortalsStep
<1>2. CASE Initialize
    BY <1>2, InitializeData
<1> QED
    BY <1>1, <1>2 DEF GNext, GalleryStep, gvars

LEMMA DagHolds == GSpec => [](DataHolds /\ PortalsOK)
<1>1. GInit => DataHolds /\ PortalsOK
    BY DataInit, PortalsInit DEF GInit
<1> QED
    BY <1>1, DagStep, PTL DEF GSpec

(* A gallery's DAG keeps its types, its lineage and everything that its      *)
(* versions held: the saves that initializeDag() asks for, and the rewinds   *)
(* and images of the gallery's menus, break nothing that EvolvingDAG keeps.  *)
THEOREM GalleryKeepsDag ==
    GSpec => [](TypeOK /\ HistoryIsLineage /\ HistoryBounded /\ MetadataNamesVersion /\ VersionsGrow)
    BY DataMeans, DataTyped, DagHolds, PTL

(* The versions that a gallery publishes are those of an evolving document,  *)
(* committed, rewound and restarted as VersionChain says.                    *)
THEOREM GalleryRefines == ASSUME "metaread" \notin Faults PROVE GSpec => RefinesVersionChain
<1>1. GInit => Chain!Init
    BY ChainInit DEF GInit
<1>2. ASSUME DataHolds, DataHolds', [GNext]_gvars PROVE [Chain!Next]_(Chain!vars)
    <2>1. CASE [Next]_vars
        BY <1>2, <2>1, ChainStep
    <2>2. CASE Initialize
        <3>1. UNCHANGED <<dagMeta, store, mfsMeta>>
            BY <2>2 DEF Initialize, memory, disk
        <3> QED
            BY <3>1 DEF ParentOf, Recorded, Current, Chain!vars
    <2> QED
        BY <1>2, <2>1, <2>2 DEF GNext, GalleryStep, gvars
<1> QED
    BY <1>1, <1>2, DagHolds, PTL DEF GSpec, RefinesVersionChain, Chain!Spec

(* The mark that a pyramid publishes is the latest version of its DAG, for   *)
(* any users, bounds and faults (but an unreadable metadata file), after any *)
(* number of saves, rewinds and restarts, unless something set them apart.   *)
THEOREM MarksFollow == ASSUME "metaread" \notin Faults PROVE GSpec => []PyramidFollowsDag
<1>1. ASSUME GInv, PortalsOK, [GNext]_gvars PROVE GInv'
    BY <1>1, InitializeHolds, GalleryHolds, Unmoved DEF GNext
<1>2. GInv => PyramidFollowsDag
    <2> SUFFICES ASSUME Marked, Attached, marks # <<>>, connected, \A w \in Rewinders : pc[w] # "rwmeta"
                 PROVE  Last(marks) = dagMeta.cidlatest
        BY DEF GInv, PyramidFollowsDag, MarkIsLatest
    <2>1. Known = dagMeta /\ Over = 0
        BY DEF Known, Attached, Over, Rewinding
    <2>2. marks \in Seq(Cids) /\ Len(marks) > 0 /\ Len(marks) - 0 = Len(marks)
        BY DEF Marked, Lineage
    <2> QED
        BY <2>1, <2>2 DEF Marked, Shows, Last
<1> QED
    BY <1>1, <1>2, GalleryInit, DagHolds, PTL DEF GSpec
=============================================================================
