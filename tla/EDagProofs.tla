----------------------------- MODULE EDagProofs -----------------------------
(* Proofs about EDag for every number of coroutines, every bound and every   *)
(* set of faults.  The first part is about control only (where the           *)
(* coroutines are, who holds the lock); the second, about the data, rests on *)
(* it.                                                                       *)
EXTENDS EDagProperties, TLAPS

(* Only the loader runs before `loaded` is resolved. *)
Phases ==
    /\ loaded \in BOOLEAN
    /\ loaded <=> pc[Loader] = "done"
    /\ ~loaded => pending = 0 /\ \A t \in Tasks \ {Loader} : pc[t] = "idle"
    /\ pending \in Nat

(* The lock's own state agrees with where the coroutines are. *)
LockState ==
    /\ writer \in Tasks \union {Nobody}
    /\ readers \subseteq Readers
    /\ readers # {} => writer = Nobody
    /\ \A t \in Tasks : pc[t] \in WriteSection => writer = t
    /\ \A r \in Readers : pc[r] \in ReadSection => r \in readers

Control == PcOK /\ Phases /\ LockState

LEMMA PcInit == Init => Control
<1> SUFFICES ASSUME Init PROVE Control
  OBVIOUS
<1> USE TasksAssumption DEF Init, StartPc, Tasks, Savers
<1>1. PcOK
  BY DEF PcOK, Labels, WriteSection, ReadSection
<1>2. Phases
  BY DEF Phases
<1>3. LockState
  BY DEF LockState, WriteSection, ReadSection
<1> QED
  BY <1>1, <1>2, <1>3 DEF Control

LEMMA PcStep == PcOK /\ [Next]_vars => PcOK'
<1> SUFFICES ASSUME PcOK, [Next]_vars PROVE PcOK'
  OBVIOUS
<1> USE TasksAssumption DEF PcOK, Labels, WriteSection, ReadSection, Tasks, Savers, Step
<1>1. CASE Load
  BY <1>1 DEF Load, LoadFresh, LoadUnparsed, LoadMeta, LoadGet, LoadGetFailed
<1>2. CASE SaveStart \/ SaveNoRoot
  BY <1>2 DEF SaveStart, SaveNoRoot
<1>3. CASE PortalExpires \/ Crash
  BY <1>3 DEF PortalExpires, Crash, StartPc
<1>4. ASSUME NEW s \in Savers, Save(s) PROVE PcOK'
  BY <1>4 DEF Save, SaveLocked, PutDone, PutFailed, SaveDone, AfterSave
<1>5. ASSUME NEW e \in Editors, Edit(e) PROVE PcOK'
  BY <1>5 DEF Edit, Enter, EditLocked, EditNoRoot, EditDone
<1>6. ASSUME NEW a \in Appenders, AppendImage(a) PROVE PcOK'
  BY <1>6 DEF AppendImage, AppendStart, AppendDone
<1>7. ASSUME NEW w \in Rewinders, Rewind(w) PROVE PcOK'
  BY <1>7 DEF Rewind, RewindCall, RewindLocked, RewindRaised, RewindGot, RewindDone
<1>8. ASSUME NEW r \in Readers, Read(r) PROVE PcOK'
  BY <1>8 DEF Read, ReadCall, ReadLocked, ReadLoaded, ReadLoadFailed, ReadDone
<1>9. CASE UNCHANGED vars
  BY <1>9 DEF vars
<1> QED
  BY <1>1, <1>2, <1>3, <1>4, <1>5, <1>6, <1>7, <1>8, <1>9 DEF Next

LEMMA PhasesStep == PcOK /\ Phases /\ [Next]_vars => Phases'
<1> SUFFICES ASSUME PcOK, Phases, [Next]_vars PROVE Phases'
  OBVIOUS
<1> USE TasksAssumption DEF PcOK, Phases, Tasks, Savers, Step
<1>1. CASE Load
  <2>1. CASE LoadFresh
    BY <2>1 DEF LoadFresh, saving
  <2>2. CASE LoadMeta
    BY <2>2 DEF LoadMeta, saving
  <2>3. CASE LoadGet
    <3> PICK schemaChanged \in BOOLEAN :
            /\ Step(Loader, "get", IF schemaChanged THEN "wait" ELSE "done")
            /\ loaded' = ~schemaChanged
      BY <2>3 DEF LoadGet
    <3>1. CASE schemaChanged = TRUE
      BY <2>3, <3>1 DEF LoadGet, saving
    <3>2. CASE schemaChanged = FALSE
      BY <2>3, <3>2 DEF LoadGet, saving
    <3> QED
      BY <3>1, <3>2
  <2>4. CASE LoadGetFailed
    <3>1. CASE Step(Loader, "get", "done") /\ loaded' = TRUE
      BY <2>4, <3>1 DEF LoadGetFailed, saving
    <3>2. CASE Step(Loader, "get", "failed") /\ UNCHANGED loaded
      BY <2>4, <3>2 DEF LoadGetFailed, saving
    <3> QED
      BY <2>4, <3>1, <3>2 DEF LoadGetFailed
  <2>5. CASE LoadUnparsed
    BY <2>5 DEF LoadUnparsed, saving
  <2> QED
    BY <1>1, <2>1, <2>2, <2>3, <2>4, <2>5 DEF Load
<1>2. CASE SaveStart \/ SaveNoRoot
  BY <1>2 DEF SaveStart, SaveNoRoot, saving
<1>3. CASE PortalExpires \/ Crash
  <2>1. CASE PortalExpires
    BY <2>1 DEF PortalExpires, saving
  <2>2. CASE Crash
    <3>1. loaded' = FALSE /\ pending' = 0 /\ pc' = StartPc
      BY <2>2 DEF Crash
    <3> QED
      BY <3>1 DEF StartPc
  <2> QED
    BY <1>3, <2>1, <2>2
<1>4. ASSUME NEW s \in Savers, Save(s) PROVE Phases'
  <2>1. CASE SaveLocked(s)
    BY <2>1 DEF SaveLocked
  <2>2. CASE PutDone(s)
    BY <2>2 DEF PutDone
  <2>3. CASE PutFailed(s)
    <3>1. CASE s = Saver
      BY <2>3, <3>1 DEF PutFailed, AfterSave, LoadedBy
    <3>2. CASE s = Loader /\ Step(s, "put", AfterSave(s)) /\ LoadedBy(s)
      BY <2>3, <3>2 DEF PutFailed, AfterSave, LoadedBy
    <3>3. CASE s = Loader /\ Step(s, "put", "failed") /\ UNCHANGED loaded
      BY <2>3, <3>3 DEF PutFailed
    <3> QED
      BY <2>3, <3>1, <3>2, <3>3 DEF PutFailed
  <2>4. CASE SaveDone(s)
    <3>1. CASE s = Saver
      BY <2>4, <3>1 DEF SaveDone, AfterSave, LoadedBy, saving
    <3>2. CASE s = Loader
      BY <2>4, <3>2 DEF SaveDone, AfterSave, LoadedBy, saving
    <3> QED
      BY <3>1, <3>2
  <2> QED
    BY <1>4, <2>1, <2>2, <2>3, <2>4 DEF Save
<1>5. ASSUME NEW e \in Editors, Edit(e) PROVE Phases'
  BY <1>5 DEF Edit, Enter, EditLocked, EditNoRoot, EditDone, BeginEdit, EndEdit, saving
<1>6. ASSUME NEW a \in Appenders, AppendImage(a) PROVE Phases'
  BY <1>6 DEF AppendImage, AppendStart, AppendDone, BeginEdit, EndEdit, saving
<1>7. ASSUME NEW w \in Rewinders, Rewind(w) PROVE Phases'
  BY <1>7 DEF Rewind, RewindCall, RewindLocked, RewindRaised, RewindGot, RewindDone, saving
<1>8. ASSUME NEW r \in Readers, Read(r) PROVE Phases'
  BY <1>8 DEF Read, ReadCall, ReadLocked, ReadLoaded, ReadLoadFailed, ReadDone, saving
<1>9. CASE UNCHANGED vars
  BY <1>9 DEF vars, saving
<1> QED
  BY <1>1, <1>2, <1>3, <1>4, <1>5, <1>6, <1>7, <1>8, <1>9 DEF Next

LEMMA LockStep == PcOK /\ LockState /\ [Next]_vars => LockState'
<1> SUFFICES ASSUME PcOK, LockState, [Next]_vars PROVE LockState'
  OBVIOUS
<1> USE TasksAssumption
    DEF PcOK, LockState, Labels, WriteSection, ReadSection, Tasks, Savers, Step, Release, CanWrite
<1>1. CASE Load
  BY <1>1 DEF Load, LoadFresh, LoadUnparsed, LoadMeta, LoadGet, LoadGetFailed, lock
<1>2. CASE SaveStart \/ SaveNoRoot
  BY <1>2 DEF SaveStart, SaveNoRoot, lock
<1>3. CASE PortalExpires \/ Crash
  BY <1>3 DEF PortalExpires, Crash, StartPc, lock
<1>4. ASSUME NEW s \in Savers, Save(s) PROVE LockState'
  BY <1>4 DEF Save, SaveLocked, PutDone, PutFailed, SaveDone, AfterSave, lock
<1>5. ASSUME NEW e \in Editors, Edit(e) PROVE LockState'
  BY <1>5 DEF Edit, Enter, EditLocked, EditNoRoot, EditDone, lock
<1>6. ASSUME NEW a \in Appenders, AppendImage(a) PROVE LockState'
  BY <1>6 DEF AppendImage, AppendStart, AppendDone, lock
<1>7. ASSUME NEW w \in Rewinders, Rewind(w) PROVE LockState'
  BY <1>7 DEF Rewind, RewindCall, RewindLocked, RewindRaised, RewindGot, RewindDone, lock
<1>8. ASSUME NEW r \in Readers, Read(r) PROVE LockState'
  BY <1>8 DEF Read, ReadCall, ReadLocked, ReadLoaded, ReadLoadFailed, ReadDone, CanRead, lock
<1>9. CASE UNCHANGED vars
  BY <1>9 DEF vars, lock
<1> QED
  BY <1>1, <1>2, <1>3, <1>4, <1>5, <1>6, <1>7, <1>8, <1>9 DEF Next

THEOREM ControlHolds == Spec => []Control
<1>1. Init => Control
  BY PcInit
<1>2. Control /\ [Next]_vars => Control'
  BY PcStep, PhasesStep, LockStep DEF Control
<1> QED
  BY <1>1, <1>2, PTL DEF Spec

(* The lock keeps the coroutines that change the document apart from each    *)
(* other and from those that read it.                                        *)
THEOREM LockExcludes == Spec => []LockExclusion
<1>1. Control => LockExclusion
  BY TasksAssumption DEF Control, PcOK, LockState, LockExclusion, Tasks, WriteSection
<1> QED
  BY <1>1, ControlHolds, PTL
-----------------------------------------------------------------------------
(* The data. *)

(* Every version links to an older one. *)
StoreOK ==
    /\ store \in Seq(Content)
    /\ Len(store) <= MaxCids
    /\ \A c \in DOMAIN store : store[c].prev < c

(* Metadata m records the lineage of its latest version among the versions   *)
(* st.  The CIDs of the history decrease: this is why Push never meets a CID *)
(* that it already has.                                                      *)
MetaIn(m, st) ==
    m # NoMeta =>
        /\ m \in Meta
        /\ IF m.cidlatest = NoCid THEN m.history = <<>> ELSE m.cidlatest \in DOMAIN st
        /\ Len(m.history) <= MaxItems + 1
        /\ \A i \in DOMAIN m.history :
              /\ m.history[i] \in DOMAIN st
              /\ m.history[i] < m.cidlatest
              /\ m.history[i] = st[Newer(m, i)].prev
              /\ \A j \in DOMAIN m.history : i < j => m.history[j] < m.history[i]

RootOK ==
    /\ dagRoot \in Content \union {NoRoot}
    /\ dagRoot # NoRoot => dagMeta # NoMeta
    /\ dagRoot # NoRoot /\ dagMeta.cidlatest = NoCid => dagRoot.prev = NoCid
    /\ dagRoot = NoRoot => dagMeta.cidlatest # NoCid

(* The object being put links to the version it replaces and holds what that *)
(* version and, so far, the document hold.                                   *)
PutOK ==
    /\ put \in Content /\ dagRoot # NoRoot
    /\ put.prev = dagMeta.cidlatest
    /\ put.edits \subseteq dagRoot.edits
    /\ dagMeta.cidlatest # NoCid => store[dagMeta.cidlatest].edits \subseteq put.edits

(* What a coroutine relies on while it is suspended. *)
Suspended ==
    /\ pc[Loader] = "start" => dagMeta = NoMeta
    /\ dagMeta = NoMeta => pc[Loader] \in {"start", "failed"}
    /\ pc[Loader] \in {"wait", "put", "meta"} => dagRoot # NoRoot
    /\ pc[Loader] = "get" => dagMeta.cidlatest # NoCid
    /\ \A t \in Editors \union Appenders : pc[t] \in {"edit", "append"} => dagRoot # NoRoot
    /\ \A s \in Savers : pc[s] = "put" => PutOK
    /\ \A t \in Tasks : pc[t] \in {"meta", "rwmeta"} => dagMeta.cidlatest # NoCid
    /\ \A w \in Rewinders : pc[w] = "rwget" => Len(dagMeta.history) >= 2

EditsOK ==
    /\ editOf \in [Editors \union Appenders -> 0..MaxEdits]
    /\ nEdits \in 0..MaxEdits
    /\ \A t \in Editors \union Appenders : pc[t] # "idle" => editOf[t] \in EditIds

LEMMA PushType ==
    ASSUME NEW h \in Seq(Cids), NEW p \in Cids,
           Len(h) <= MaxItems + 1, \A i \in DOMAIN h : h[i] # p
    PROVE  /\ Push(h, p) \in Seq(Cids)
           /\ Len(Push(h, p)) \in 1..(MaxItems + 1)
           /\ Push(h, p)[1] = p
           /\ \A i \in DOMAIN Push(h, p) \ {1} : i - 1 \in DOMAIN h /\ Push(h, p)[i] = h[i - 1]
<1> DEFINE kept == IF Len(h) > MaxItems THEN SubSeq(h, 1, MaxItems) ELSE h
<1>1. Push(h, p) = <<p>> \o kept
  BY BoundsAssumption DEF Push, Cids, NoCid
<1>2. kept \in Seq(Cids) /\ Len(kept) <= MaxItems /\ Len(kept) <= Len(h)
      /\ \A i \in 1..Len(kept) : kept[i] = h[i]
  BY BoundsAssumption
<1> HIDE DEF kept
<1>3. Push(h, p) \in Seq(Cids) /\ Len(Push(h, p)) = 1 + Len(kept)
  BY <1>1, <1>2
<1>4. \A i \in DOMAIN Push(h, p) : Push(h, p)[i] = IF i = 1 THEN p ELSE kept[i - 1]
  BY <1>1, <1>2, <1>3
<1>5. DOMAIN Push(h, p) = 1..(1 + Len(kept))
  BY <1>3
<1> QED
  BY <1>2, <1>3, <1>4, <1>5, BoundsAssumption

LEMMA EditsStep == PcOK /\ EditsOK /\ [Next]_vars => EditsOK'
<1> SUFFICES ASSUME PcOK, EditsOK, [Next]_vars PROVE EditsOK'
  OBVIOUS
<1> USE TasksAssumption, BoundsAssumption
    DEF PcOK, EditsOK, Labels, WriteSection, ReadSection, Tasks, Savers, Step, EditIds, edits
<1>1. CASE Load
  BY <1>1 DEF Load, LoadFresh, LoadUnparsed, LoadMeta, LoadGet, LoadGetFailed
<1>2. CASE SaveStart \/ SaveNoRoot
  BY <1>2 DEF SaveStart, SaveNoRoot
<1>3. CASE PortalExpires \/ Crash
  BY <1>3 DEF PortalExpires, Crash, StartPc, NoEdits
<1>4. ASSUME NEW s \in Savers, Save(s) PROVE EditsOK'
  BY <1>4 DEF Save, SaveLocked, PutDone, PutFailed, SaveDone, AfterSave
<1>5. ASSUME NEW e \in Editors, Edit(e) PROVE EditsOK'
  BY <1>5 DEF Edit, Enter, EditLocked, EditNoRoot, EditDone, BeginEdit, EndEdit
<1>6. ASSUME NEW a \in Appenders, AppendImage(a) PROVE EditsOK'
  BY <1>6 DEF AppendImage, AppendStart, AppendDone, BeginEdit, EndEdit
<1>7. ASSUME NEW w \in Rewinders, Rewind(w) PROVE EditsOK'
  BY <1>7 DEF Rewind, RewindCall, RewindLocked, RewindRaised, RewindGot, RewindDone
<1>8. ASSUME NEW r \in Readers, Read(r) PROVE EditsOK'
  BY <1>8 DEF Read, ReadCall, ReadLocked, ReadLoaded, ReadLoadFailed, ReadDone
<1>9. CASE UNCHANGED vars
  BY <1>9 DEF vars
<1> QED
  BY <1>1, <1>2, <1>3, <1>4, <1>5, <1>6, <1>7, <1>8, <1>9 DEF Next
LEMMA Nulls ==
    /\ NoRoot \notin Content /\ NewRoot \in Content
    /\ NoMeta \notin Meta /\ NewMeta \in Meta
    /\ NoPortal \notin Portal
  BY BoundsAssumption
     DEF NewRoot, NoRoot, NewMeta, NoMeta, NoPortal, Content, Meta, Portal, NoCid

(* Metadata stays right when versions are added, *)
LEMMA MetaKept ==
    ASSUME NEW st \in Seq(Content), NEW st2 \in Seq(Content), NEW m, MetaIn(m, st),
           Len(st) <= Len(st2), \A c \in DOMAIN st : st2[c] = st[c]
    PROVE  MetaIn(m, st2)
<1> SUFFICES ASSUME m # NoMeta PROVE MetaIn(m, st2)
  BY DEF MetaIn
<1>1. m \in Meta /\ (m.cidlatest # NoCid => m.cidlatest \in DOMAIN st)
      /\ (m.cidlatest = NoCid => m.history = <<>>) /\ Len(m.history) <= MaxItems + 1
  BY DEF MetaIn
<1>2. ASSUME NEW i \in DOMAIN m.history
      PROVE  m.history[i] \in DOMAIN st /\ Newer(m, i) \in DOMAIN st
  BY <1>1 DEF MetaIn, Newer, Meta, NoCid
<1>3. \A c \in DOMAIN st : c \in DOMAIN st2
  OBVIOUS
<1> QED
  BY <1>1, <1>2, <1>3 DEF MetaIn

(* when a version that links to the latest one becomes the latest, *)
LEMMA MetaPushed ==
    ASSUME NEW st \in Seq(Content), NEW m, MetaIn(m, st), m # NoMeta,
           NEW cid \in Cids, cid \in DOMAIN st, st[cid].prev = m.cidlatest, m.cidlatest < cid
    PROVE  MetaIn([cidlatest |-> cid, history |-> Push(m.history, m.cidlatest)], st)
<1> DEFINE latest == m.cidlatest
           history == Push(m.history, latest)
           new == [cidlatest |-> cid, history |-> history]
<1>1. m \in Meta /\ latest \in 0..MaxCids /\ m.history \in Seq(Cids) /\ Len(m.history) <= MaxItems + 1
      /\ cid # NoCid
  BY DEF MetaIn, Meta, Cids, NoCid
<1>2. CASE latest = NoCid
  <2>1. history = <<>>
    BY <1>2 DEF Push, MetaIn
  <2> QED
    BY <2>1, <1>1, BoundsAssumption DEF MetaIn, Meta, Cids
<1>3. CASE latest # NoCid
  <2>1. latest \in Cids /\ \A i \in DOMAIN m.history : m.history[i] # latest
    BY <1>1, <1>3 DEF MetaIn, Cids, NoCid
  <2>2. /\ history \in Seq(Cids) /\ Len(history) \in 1..(MaxItems + 1) /\ history[1] = latest
        /\ \A i \in DOMAIN history \ {1} :
              i - 1 \in DOMAIN m.history /\ history[i] = m.history[i - 1]
    BY <2>1, <1>1, PushType
  <2> HIDE DEF history
  <2>3. latest \in DOMAIN st /\ \A i \in DOMAIN m.history :
           m.history[i] \in DOMAIN st /\ m.history[i] < latest /\ m.history[i] = st[Newer(m, i)].prev
    BY <1>3 DEF MetaIn
  <2>4. ASSUME NEW i \in DOMAIN history
        PROVE  history[i] \in DOMAIN st /\ history[i] < cid /\ history[i] = st[Newer(new, i)].prev
    <3>1. CASE i = 1
      BY <3>1, <2>2, <2>3 DEF Newer
    <3>2. CASE i # 1
      <4>1. i - 1 \in DOMAIN m.history /\ history[i] = m.history[i - 1]
        BY <3>2, <2>2
      <4>2. Newer(m, i - 1) = history[i - 1]
        BY <4>1, <3>2, <2>2 DEF Newer
      <4>3. Newer(new, i) = history[i - 1]
        BY <3>2 DEF Newer
      <4>4. history[i] \in DOMAIN st /\ history[i] < latest
        BY <4>1, <2>3
      <4> QED
        BY <4>1, <4>2, <4>3, <4>4, <2>3, <1>1
    <3> QED
      BY <3>1, <3>2
  <2>5. ASSUME NEW i \in DOMAIN history, NEW j \in DOMAIN history, i < j
        PROVE  history[j] < history[i]
    <3>1. j # 1 /\ j - 1 \in DOMAIN m.history /\ history[j] = m.history[j - 1]
      BY <2>5, <2>2
    <3>2. CASE i = 1
      BY <3>1, <3>2, <2>2, <2>3
    <3>3. CASE i # 1
      <4>1. i - 1 \in DOMAIN m.history /\ history[i] = m.history[i - 1] /\ i - 1 < j - 1
        BY <3>3, <2>2, <2>5
      <4> QED
        BY <4>1, <3>1 DEF MetaIn
    <3> QED
      BY <3>2, <3>3
  <2>6. new \in Meta
    BY <2>2 DEF Meta, Cids
  <2>7. MetaIn(new, st)
    BY <1>1, <2>2, <2>4, <2>5, <2>6 DEF MetaIn
  <2> QED
    BY <2>7 DEF history
<1> QED
  BY <1>2, <1>3

(* and when the version that the latest one replaced becomes the latest. *)
LEMMA MetaRewound ==
    ASSUME NEW st \in Seq(Content), NEW m, MetaIn(m, st), m # NoMeta, m.history # <<>>
    PROVE  /\ MetaIn([cidlatest |-> Head(m.history), history |-> Tail(m.history)], st)
           /\ Head(m.history) \in DOMAIN st
           /\ Head(m.history) = st[m.cidlatest].prev
<1> DEFINE h == m.history
           new == [cidlatest |-> Head(h), history |-> Tail(h)]
<1>1. m \in Meta /\ h \in Seq(Cids) /\ Len(h) <= MaxItems + 1
  BY DEF MetaIn, Meta
<1>2. Head(h) = h[1] /\ h[1] \in Cids /\ 1 \in DOMAIN h /\ Tail(h) \in Seq(Cids) /\ Len(Tail(h)) = Len(h) - 1
      /\ \A i \in DOMAIN Tail(h) : i + 1 \in DOMAIN h /\ Tail(h)[i] = h[i + 1]
  BY <1>1
<1>3. /\ \A i \in DOMAIN h : h[i] \in DOMAIN st /\ h[i] = st[Newer(m, i)].prev
      /\ \A i, j \in DOMAIN h : i < j => h[j] < h[i]
  BY DEF MetaIn
<1>4. Head(h) \in DOMAIN st /\ Head(h) = st[m.cidlatest].prev /\ Head(h) # NoCid
  <2>1. Newer(m, 1) = m.cidlatest /\ NoCid \notin Cids
    BY DEF Newer, NoCid, Cids
  <2> QED
    BY <2>1, <1>2, <1>3
<1>5. ASSUME NEW i \in DOMAIN Tail(h)
      PROVE  /\ Tail(h)[i] \in DOMAIN st /\ Tail(h)[i] < Head(h)
             /\ Tail(h)[i] = st[Newer(new, i)].prev
             /\ \A j \in DOMAIN Tail(h) : i < j => Tail(h)[j] < Tail(h)[i]
  <2>1. Newer(new, i) = Newer(m, i + 1)
    BY <1>2 DEF Newer
  <2> QED
    BY <2>1, <1>1, <1>2, <1>3
<1>6. new \in Meta
  <2>1. Head(h) \in 0..MaxCids
    BY <1>2 DEF Cids
  <2> HIDE DEF h
  <2> QED
    BY <2>1, <1>2 DEF Meta
<1>7. Len(Tail(h)) <= MaxItems + 1
  BY <1>1, <1>2, BoundsAssumption
<1>8. MetaIn(new, st)
  <2>1. new.cidlatest = Head(h) /\ new.history = Tail(h)
    OBVIOUS
  <2> HIDE DEF new, h
  <2> QED
    BY <2>1, <1>4, <1>5, <1>6, <1>7 DEF MetaIn
<1> QED
  BY <1>4, <1>8

(* Steps that leave the data alone disturb only what is said of the          *)
(* coroutines that move.                                                     *)
Core == StoreOK /\ RootOK /\ MetaIn(dagMeta, store) /\ MetaIn(mfsMeta, store)
        /\ (mfsMeta # NoMeta => mfsMeta.cidlatest # NoCid)
        /\ put \in Content \union {NoRoot} /\ VersionsGrow

LEMMA CoreUnchanged ==
    ASSUME Core, UNCHANGED <<memory, put, disk>> PROVE Core' /\ (PutOK => PutOK')
<1>1. dagRoot' = dagRoot /\ dagMeta' = dagMeta /\ put' = put /\ store' = store /\ mfsMeta' = mfsMeta
  BY DEF memory, disk
<1>2. StoreOK' /\ RootOK' /\ MetaIn(dagMeta, store)' /\ MetaIn(mfsMeta, store)' /\ VersionsGrow'
  BY <1>1 DEF Core, StoreOK, RootOK, VersionsGrow
<1>3. PutOK => PutOK'
  BY <1>1 DEF PutOK
<1> QED
  BY <1>1, <1>2, <1>3 DEF Core

LEMMA LoadStep ==
    ASSUME Control, EditsOK, Core, Suspended, Load PROVE Core' /\ Suspended'
<1> USE TasksAssumption DEF Control, PcOK, Tasks, Savers, Step, Labels, WriteSection, ReadSection, memory, disk, saving
<1>0. pc[Loader] # "done" /\ \A t \in Tasks \ {Loader} : pc[t] = "idle"
  BY DEF Load, LoadFresh, LoadUnparsed, LoadMeta, LoadGet, LoadGetFailed, Phases
<1>1. CASE LoadFresh
  <2>1. dagRoot' = NewRoot /\ dagMeta' = NewMeta /\ UNCHANGED <<put, store, mfsMeta>>
        /\ pc' = [pc EXCEPT ![Loader] = "wait"]
    BY <1>1 DEF LoadFresh
  <2>2. NewRoot \in Content /\ NewRoot # NoRoot /\ NewMeta \in Meta /\ NewMeta # NoMeta
    BY Nulls
  <2>a. MetaIn(NewMeta, store)
    BY <2>2, BoundsAssumption DEF MetaIn, NewMeta
  <2>b. RootOK' /\ VersionsGrow' /\ StoreOK'
    BY <2>1, <2>2 DEF Core, StoreOK, RootOK, VersionsGrow, NewMeta, NewRoot
  <2>3. Core'
    BY <2>1, <2>a, <2>b DEF Core
  <2>4. Suspended'
    BY <2>1, <2>2, <1>0 DEF Suspended
  <2> QED
    BY <2>3, <2>4
<1>2. CASE LoadMeta
  <2>1. dagMeta' = mfsMeta /\ UNCHANGED <<dagRoot, put, store, mfsMeta>>
        /\ pc' = [pc EXCEPT ![Loader] = "get"] /\ mfsMeta # NoMeta /\ dagMeta = NoMeta
    BY <1>2 DEF LoadMeta, Suspended
  <2>2. dagRoot = NoRoot
    BY <2>1 DEF Core, RootOK
  <2>3. Core'
    BY <2>1, <2>2 DEF Core, StoreOK, RootOK, VersionsGrow
  <2>4. Suspended'
    BY <2>1, <2>2, <1>0 DEF Suspended, Core
  <2> QED
    BY <2>3, <2>4
<1>3. CASE LoadGet
  <2>1. dagRoot' = store[dagMeta.cidlatest] /\ UNCHANGED <<dagMeta, put, store, mfsMeta>>
        /\ dagMeta.cidlatest # NoCid /\ dagMeta # NoMeta
    BY <1>3 DEF LoadGet, Suspended
  <2>2. pc' = [pc EXCEPT ![Loader] = "wait"] \/ pc' = [pc EXCEPT ![Loader] = "done"]
    BY <1>3 DEF LoadGet
  <2>3. dagMeta.cidlatest \in DOMAIN store
    BY <2>1 DEF Core, MetaIn
  <2>4. dagRoot' \in Content /\ dagRoot' # NoRoot
    BY <2>1, <2>3, Nulls DEF Core, StoreOK
  <2>5. Core'
    BY <2>1, <2>4 DEF Core, StoreOK, RootOK, VersionsGrow
  <2>6. Suspended'
    BY <2>1, <2>2, <2>4, <1>0 DEF Suspended
  <2> QED
    BY <2>5, <2>6
<1>4. CASE LoadGetFailed \/ LoadUnparsed
  <2>1. UNCHANGED <<memory, put, disk>>
    BY <1>4 DEF LoadGetFailed, LoadUnparsed, saving
  <2>2. Core'
    BY <2>1, CoreUnchanged
  <2>3. Suspended'
    <3>1. CASE LoadGetFailed
      BY <2>1, <1>0, <3>1 DEF LoadGetFailed, Suspended
    <3>2. CASE LoadUnparsed
      BY <2>1, <1>0, <3>2 DEF LoadUnparsed, Suspended, Step
    <3> QED
      BY <1>4, <3>1, <3>2
  <2> QED
    BY <2>2, <2>3
<1> QED
  BY <1>1, <1>2, <1>3, <1>4 DEF Load
LEMMA SaveStep ==
    ASSUME Control, EditsOK, Core, Suspended, NEW s \in Savers, Save(s) PROVE Core' /\ Suspended'
<1> USE TasksAssumption
    DEF Control, PcOK, Tasks, Savers, Step, Labels, WriteSection, ReadSection, Release, AfterSave
<1>a. dagMeta # NoMeta
  BY DEF Save, SaveLocked, PutDone, PutFailed, SaveDone, Phases, Suspended
<1>b. dagMeta \in Meta /\ dagMeta.cidlatest \in 0..Len(store)
  BY <1>a DEF Core, MetaIn, StoreOK, Meta, NoCid
<1>c. dagMeta.cidlatest # NoCid =>
         dagMeta.cidlatest \in DOMAIN store /\ store[dagMeta.cidlatest] \in Content
  BY <1>b DEF Core, StoreOK, Meta, NoCid
<1>1. CASE SaveLocked(s)
  <2>1. dagRoot # NoRoot /\ dagRoot' = Linked(dagRoot, dagMeta.cidlatest) /\ put' = dagRoot'
        /\ UNCHANGED <<dagMeta, store, mfsMeta>> /\ pc' = [pc EXCEPT ![s] = "put"]
        /\ writer = Nobody
    BY <1>1 DEF SaveLocked, disk, CanWrite
  <2>2. dagRoot \in Content
    BY <2>1 DEF Core, RootOK
  <2>3. dagRoot' \in Content /\ dagRoot'.edits = dagRoot.edits /\ dagRoot'.prev = dagMeta.cidlatest
    BY <2>1, <2>2, <1>b DEF Core, RootOK, Linked, Content, Meta, NoCid
  <2>4. dagRoot' # NoRoot
    BY <2>3, Nulls
  <2>5. Core'
    BY <2>1, <2>3, <2>4, <1>a DEF Core, StoreOK, RootOK, VersionsGrow
  <2>6. PutOK'
    BY <2>1, <2>3, <2>4, <1>a DEF PutOK, Core, VersionsGrow
  <2>7. pc'[s] = "put" /\ \A t \in Tasks \ {s} : pc'[t] = pc[t]
    BY <2>1
  <2>8. Suspended'
    BY <2>1, <2>4, <2>6, <2>7, <1>a DEF Suspended
  <2> QED
    BY <2>5, <2>8
<1>2. CASE PutDone(s)
  <2> DEFINE latest == dagMeta.cidlatest
             history == Push(dagMeta.history, latest)
  <2>1. PICK cid \in Cids : Put(put, cid) /\ dagMeta' = [cidlatest |-> cid, history |-> history]
    BY <1>2 DEF PutDone
  <2>2. put' = NoRoot /\ UNCHANGED <<dagRoot, mfsMeta>> /\ pc' = [pc EXCEPT ![s] = "meta"]
        /\ pc[s] = "put" /\ writer = s
    BY <1>2 DEF PutDone, LockState
  <2>3. PutOK /\ dagRoot # NoRoot
    BY <2>2 DEF Suspended, PutOK
  <2>4. /\ cid \in DOMAIN store' /\ store'[cid] = put /\ Len(store) <= Len(store')
        /\ \A c \in DOMAIN store : c \in DOMAIN store' /\ store'[c] = store[c]
        /\ \A c \in DOMAIN store' : c \in DOMAIN store \/ (c = cid /\ c = Len(store) + 1)
    BY <2>1, <2>3 DEF Put, Core, StoreOK, PutOK
  <2>5. StoreOK'
    <3>1. store' \in Seq(Content) /\ Len(store') <= MaxCids
      BY <2>1, <2>3 DEF Put, Core, StoreOK, PutOK, Cids
    <3>2. ASSUME NEW c \in DOMAIN store' PROVE store'[c].prev < c
      BY <2>3, <2>4, <1>b DEF Core, StoreOK, PutOK
    <3> QED
      BY <3>1, <3>2 DEF StoreOK
  <2>6. latest < cid
    BY <2>3, <2>4, <2>5 DEF StoreOK, PutOK
  <2>7. dagMeta' # NoMeta /\ dagMeta'.cidlatest = cid
    BY <2>1, BoundsAssumption DEF NoMeta, Cids
  <2>8. MetaIn(dagMeta, store)'
    <3>1. MetaIn(dagMeta, store')
      BY <2>4, <2>5, MetaKept DEF Core, StoreOK
    <3>2. store'[cid].prev = latest
      BY <2>3, <2>4 DEF PutOK
    <3>3. MetaIn([cidlatest |-> cid, history |-> history], store')
      BY <3>1, <3>2, <2>4, <2>5, <2>6, <1>a, MetaPushed DEF StoreOK
    <3> QED
      BY <3>3, <2>1
  <2>9. MetaIn(mfsMeta, store)'
    <3>1. MetaIn(mfsMeta, store')
      BY <2>4, <2>5, MetaKept DEF Core, StoreOK
    <3> QED
      BY <3>1, <2>2
  <2>10. RootOK'
    BY <2>1, <2>2, <2>3, <2>7 DEF Core, RootOK, Cids, NoCid
  <2>11. VersionsGrow'
    <3>1. ASSUME NEW c \in DOMAIN store', store'[c].prev # NoCid
          PROVE  store'[store'[c].prev].edits \subseteq store'[c].edits
      <4>1. CASE c \in DOMAIN store
        <5>1. store'[c] = store[c] /\ store[c].prev \in DOMAIN store
          <6>1. store'[c] = store[c] /\ store[c] \in Content /\ store[c].prev < c
            BY <4>1, <2>4 DEF Core, StoreOK
          <6>2. store[c].prev \in Nat \ {0}
            BY <6>1, <3>1 DEF Content, NoCid
          <6> QED
            BY <6>1, <6>2, <4>1 DEF Core, StoreOK
        <5> QED
          BY <5>1, <4>1, <3>1, <2>4 DEF Core, VersionsGrow
      <4>2. CASE c = cid
        BY <4>2, <3>1, <2>3, <2>4, <1>c DEF PutOK
      <4> QED
        BY <4>1, <4>2, <2>4
    <3>2. store'[dagMeta'.cidlatest].edits \subseteq dagRoot'.edits
      BY <2>2, <2>3, <2>4, <2>7 DEF PutOK
    <3> QED
      BY <3>1, <3>2 DEF VersionsGrow
  <2>12. \A t \in Savers : pc'[t] # "put"
    BY <2>2 DEF LockState
  <2>13. \A w \in Rewinders : pc'[w] # "rwget"
    BY <2>2 DEF LockState
  <2>14. dagMeta'.cidlatest # NoCid
    BY <2>7 DEF Cids, NoCid
  <2>15. pc'[s] = "meta" /\ \A t \in Tasks \ {s} : pc'[t] = pc[t]
    BY <2>2
  <2>16. Suspended'
    BY <2>2, <2>3, <2>7, <2>12, <2>13, <2>14, <2>15, <1>a DEF Suspended
  <2> QED
    BY <2>2, <2>5, <2>8, <2>9, <2>10, <2>11, <2>14, <2>16 DEF Core
<1>3. CASE PutFailed(s)
  <2>1. UNCHANGED <<memory, disk>> /\ put' = NoRoot /\ pc[s] = "put" /\ writer = s
        /\ \/ pc' = [pc EXCEPT ![s] = "idle"] /\ s = Saver
           \/ pc' = [pc EXCEPT ![s] = "done"] /\ s = Loader
           \/ pc' = [pc EXCEPT ![s] = "failed"] /\ s = Loader
    BY <1>3 DEF PutFailed, LockState
  <2>2. Core'
    BY <2>1 DEF memory, disk, Core, StoreOK, RootOK, VersionsGrow
  <2>3. \A t \in Savers : pc'[t] # "put"
    BY <2>1 DEF LockState
  <2>4. Suspended'
    BY <2>1, <2>3 DEF memory, Suspended
  <2> QED
    BY <2>2, <2>4
<1>4. CASE SaveDone(s)
  <2>1. dagRoot' = dagRoot /\ dagMeta' = dagMeta /\ put' = put /\ store' = store
        /\ (mfsMeta' = dagMeta \/ mfsMeta' = mfsMeta)
        /\ pc[s] = "meta" /\ pc' = [pc EXCEPT ![s] = AfterSave(s)]
        /\ AfterSave(s) \in {"done", "idle"}
    BY <1>4 DEF SaveDone, MetaWritten, saving, memory
  <2>2. dagMeta.cidlatest # NoCid
    BY <2>1 DEF Suspended
  <2>a. MetaIn(dagMeta, store)' /\ MetaIn(mfsMeta, store)'
    BY <2>1 DEF Core
  <2>b. VersionsGrow' /\ StoreOK' /\ RootOK'
    BY <2>1 DEF Core, StoreOK, RootOK, VersionsGrow
  <2>3. Core'
    BY <2>1, <2>2, <2>a, <2>b DEF Core
  <2>4. PutOK => PutOK'
    BY <2>1 DEF PutOK
  <2>5. Suspended'
    BY <2>1, <2>4 DEF Suspended
  <2> QED
    BY <2>3, <2>5
<1> QED
  BY <1>1, <1>2, <1>3, <1>4 DEF Save
LEMMA EditStep ==
    ASSUME Control, EditsOK, Core, Suspended, NEW e \in Editors, Edit(e) PROVE Core' /\ Suspended'
<1> USE TasksAssumption
    DEF Control, PcOK, Tasks, Savers, Step, Labels, WriteSection, ReadSection, Release
<1>1. UNCHANGED <<dagMeta, put, store, mfsMeta>> /\ \A t \in Tasks \ {e} : pc'[t] = pc[t]
  BY DEF Edit, Enter, EditLocked, EditNoRoot, EditDone, memory, saving, disk
<1>2. CASE UNCHANGED dagRoot
  <2>1. Core' /\ (PutOK => PutOK')
    BY <1>1, <1>2, CoreUnchanged DEF memory, disk
  <2>2. pc'[e] \in {"idle", "wait", "edit"} /\ (pc'[e] = "edit" => dagRoot # NoRoot)
    BY DEF Edit, Enter, EditLocked, EditNoRoot, EditDone
  <2>3. Suspended'
    BY <1>1, <1>2, <2>1, <2>2 DEF Suspended
  <2> QED
    BY <2>1, <2>3
<1>3. CASE ~UNCHANGED dagRoot
  <2>1. editOf[e] \in EditIds /\ dagRoot # NoRoot /\ pc'[e] \in {"edit", "idle"}
        /\ \/ dagRoot' = [dagRoot EXCEPT !.edits = @ \union {editOf[e]}]
           \/ dagRoot' = [dagRoot EXCEPT !.whole = @ \union {editOf[e]}]
    BY <1>3 DEF Edit, Enter, EditLocked, EditNoRoot, EditDone, Suspended, EditsOK, memory
  <2>2. dagRoot \in Content
    BY <2>1 DEF Core, RootOK
  <2>3. dagRoot' \in Content /\ dagRoot'.prev = dagRoot.prev /\ dagRoot.edits \subseteq dagRoot'.edits
    BY <2>1, <2>2 DEF Content
  <2>4. dagRoot' # NoRoot
    BY <2>3, Nulls
  <2>5. Core'
    BY <1>1, <2>1, <2>3, <2>4 DEF Core, StoreOK, RootOK, VersionsGrow
  <2>6. PutOK => PutOK'
    BY <1>1, <2>3, <2>4 DEF PutOK
  <2>7. Suspended'
    BY <1>1, <2>1, <2>4, <2>6 DEF Suspended
  <2> QED
    BY <2>5, <2>7
<1> QED
  BY <1>2, <1>3

LEMMA AppendStep ==
    ASSUME Control, EditsOK, Core, Suspended, NEW a \in Appenders, AppendImage(a)
    PROVE  Core' /\ Suspended'
<1> USE TasksAssumption
    DEF Control, PcOK, Tasks, Savers, Step, Labels, WriteSection, ReadSection
<1>1. UNCHANGED <<dagMeta, put, store, mfsMeta>> /\ \A t \in Tasks \ {a} : pc'[t] = pc[t]
  BY DEF AppendImage, AppendStart, AppendDone, saving, disk
<1>2. dagRoot # NoRoot /\ pc'[a] \in {"append", "idle"}
  BY DEF AppendImage, AppendStart, AppendDone, Suspended
<1>3. dagRoot \in Content
  BY <1>2 DEF Core, RootOK
<1>4. dagRoot' \in Content /\ dagRoot'.prev = dagRoot.prev /\ dagRoot.edits \subseteq dagRoot'.edits
  <2>1. CASE AppendStart(a)
    <3>1. nEdits + 1 \in EditIds
      BY <2>1, BoundsAssumption DEF AppendStart, BeginEdit, EditsOK, EditIds
    <3> QED
      BY <2>1, <3>1, <1>3 DEF AppendStart, Content
  <2>2. CASE AppendDone(a)
    <3> DEFINE done == {editOf[a]} \intersect dagRoot.edits
    <3>1. done \subseteq EditIds /\ dagRoot' = [dagRoot EXCEPT !.whole = @ \union done]
      BY <2>2, <1>3 DEF AppendDone, Content
    <3> HIDE DEF done
    <3> QED
      BY <3>1, <1>3 DEF Content
  <2> QED
    BY <2>1, <2>2 DEF AppendImage
<1>5. dagRoot' # NoRoot
  BY <1>4, Nulls
<1>6. Core'
  BY <1>1, <1>2, <1>4, <1>5 DEF Core, StoreOK, RootOK, VersionsGrow
<1>7. PutOK => PutOK'
  BY <1>1, <1>4, <1>5 DEF PutOK
<1>8. Suspended'
  BY <1>1, <1>2, <1>5, <1>7 DEF Suspended
<1> QED
  BY <1>6, <1>8

LEMMA RewindStep ==
    ASSUME Control, EditsOK, Core, Suspended, NEW w \in Rewinders, Rewind(w)
    PROVE  Core' /\ Suspended'
<1> USE TasksAssumption
    DEF Control, PcOK, Tasks, Savers, Step, Labels, WriteSection, ReadSection, Release
<1>0. dagMeta # NoMeta
  BY DEF Rewind, RewindCall, RewindLocked, RewindRaised, RewindGot, RewindDone, Phases, Suspended
<1>1. CASE RewindGot(w)
  <2>1. /\ dagMeta' = [cidlatest |-> Head(dagMeta.history), history |-> Tail(dagMeta.history)]
        /\ dagRoot' = store[Head(dagMeta.history)]
        /\ UNCHANGED <<put, store, mfsMeta>>
        /\ pc[w] = "rwget" /\ pc'[w] = "rwmeta" /\ \A t \in Tasks \ {w} : pc'[t] = pc[t]
    BY <1>1 DEF RewindGot, saving, disk
  <2>2. dagMeta.history # <<>> /\ writer = w
    BY <2>1 DEF Suspended, LockState
  <2>3. MetaIn(dagMeta', store) /\ Head(dagMeta.history) \in DOMAIN store
    BY <2>1, <2>2, <1>0, MetaRewound DEF Core, StoreOK
  <2>4. dagRoot' \in Content /\ dagMeta' # NoMeta /\ dagMeta'.cidlatest = Head(dagMeta.history)
        /\ dagMeta'.cidlatest # NoCid
    BY <2>1, <2>3 DEF Core, StoreOK, NoMeta, NoCid
  <2>5. dagRoot' # NoRoot
    BY <2>4, Nulls
  <2>6. Core'
    BY <2>1, <2>3, <2>4, <2>5 DEF Core, StoreOK, RootOK, VersionsGrow
  <2>7. /\ \A s \in Savers : pc'[s] # "put"
        /\ \A v \in Rewinders : pc'[v] # "rwget"
    BY <2>1, <2>2 DEF LockState
  <2>8. Suspended'
    BY <2>1, <2>4, <2>5, <2>7, <1>0 DEF Suspended
  <2> QED
    BY <2>6, <2>8
<1>2. CASE RewindDone(w)
  <2>1. /\ dagRoot' = dagRoot /\ dagMeta' = dagMeta /\ put' = put /\ store' = store
        /\ mfsMeta' = dagMeta \/ mfsMeta' = mfsMeta
        /\ pc[w] = "rwmeta" /\ pc'[w] = "idle" /\ \A t \in Tasks \ {w} : pc'[t] = pc[t]
    BY <1>2 DEF RewindDone, MetaWritten, saving, memory
  <2>2. dagMeta.cidlatest # NoCid
    BY <2>1 DEF Suspended
  <2>3. MetaIn(dagMeta, store)' /\ MetaIn(mfsMeta, store)'
    BY <2>1 DEF Core
  <2>4. VersionsGrow' /\ StoreOK' /\ RootOK'
    BY <2>1 DEF Core, StoreOK, RootOK, VersionsGrow
  <2>5. Core'
    BY <2>1, <2>2, <2>3, <2>4 DEF Core
  <2>6. PutOK => PutOK'
    BY <2>1 DEF PutOK
  <2>7. Suspended'
    BY <2>1, <2>6 DEF Suspended
  <2> QED
    BY <2>5, <2>7
<1>3. CASE RewindCall(w) \/ RewindLocked(w) \/ RewindRaised(w)
  <2>1. UNCHANGED <<dagRoot, dagMeta, put, store, mfsMeta>>
        /\ \A t \in Tasks \ {w} : pc'[t] = pc[t]
        /\ pc'[w] \in {"wait", "rwget", "idle"}
        /\ (pc'[w] = "rwget" => Len(dagMeta.history) >= 2)
    BY <1>3 DEF RewindCall, RewindLocked, RewindRaised, saving, memory, disk
  <2>2. Core' /\ (PutOK => PutOK')
    BY <2>1, CoreUnchanged DEF memory, disk
  <2>3. Suspended'
    BY <2>1, <2>2 DEF Suspended
  <2> QED
    BY <2>2, <2>3
<1> QED
  BY <1>1, <1>2, <1>3 DEF Rewind

(* The signal, the readers and the cache of portals leave the data alone. *)
LEMMA OtherStep ==
    ASSUME Control, EditsOK, Core, Suspended,
           \/ SaveStart \/ SaveNoRoot \/ PortalExpires \/ (\E r \in Readers : Read(r))
           \/ UNCHANGED vars
    PROVE  Core' /\ Suspended'
<1> USE TasksAssumption
    DEF Control, PcOK, Tasks, Savers, Step, Labels, WriteSection, ReadSection
<1>1. UNCHANGED <<dagRoot, dagMeta, put, store, mfsMeta>>
  BY DEF SaveStart, SaveNoRoot, PortalExpires, Read, ReadCall, ReadLocked, ReadLoaded,
         ReadLoadFailed, ReadDone, saving, memory, disk, vars
<1>2. \A t \in Tasks :
         \/ pc'[t] = pc[t]
         \/ pc'[t] \in {"wait", "idle"} /\ t = Saver
         \/ pc'[t] \in {"idle", "rwait", "rload", "read", "leaked"} /\ t \in Readers
  <2>1. CASE SaveStart \/ SaveNoRoot
    BY <2>1 DEF SaveStart, SaveNoRoot
  <2>2. CASE PortalExpires \/ UNCHANGED vars
    BY <2>2 DEF PortalExpires, vars
  <2>3. ASSUME NEW r \in Readers, Read(r)
        PROVE  /\ pc'[r] \in {"idle", "rwait", "rload", "read", "leaked"}
               /\ \A t \in Tasks \ {r} : pc'[t] = pc[t]
    BY <2>3 DEF Read, ReadCall, ReadLocked, ReadLoaded, ReadLoadFailed, ReadDone
  <2> QED
    BY <2>1, <2>2, <2>3
<1>3. Core' /\ (PutOK => PutOK')
  BY <1>1, CoreUnchanged DEF memory, disk
<1>4. Suspended'
  BY <1>1, <1>2, <1>3 DEF Suspended
<1> QED
  BY <1>3, <1>4

LEMMA CrashStep ==
    ASSUME Control, EditsOK, Core, Suspended, Crash PROVE Core' /\ Suspended'
<1>1. dagRoot' = NoRoot /\ dagMeta' = NoMeta /\ put' = NoRoot /\ UNCHANGED <<store, mfsMeta>>
  BY DEF Crash, disk
<1>2. pc'[Loader] = "start" /\ \A t \in Tasks \ {Loader} : pc'[t] = "idle"
  BY DEF Crash, StartPc, Tasks, Savers
<1>3. Core'
  BY <1>1 DEF Core, StoreOK, RootOK, MetaIn, VersionsGrow, NoMeta, NoCid
<1>4. Suspended'
  BY <1>1, <1>2, TasksAssumption DEF Suspended, Tasks, Savers
<1> QED
  BY <1>3, <1>4
DataHolds == Control /\ EditsOK /\ Core /\ Suspended

LEMMA DataInit == Init => DataHolds
<1> SUFFICES ASSUME Init PROVE EditsOK /\ Core /\ Suspended
  BY PcInit DEF DataHolds
<1> USE BoundsAssumption, TasksAssumption
<1>1. EditsOK
  BY DEF Init, EditsOK, NoEdits, StartPc, Tasks, Savers
<1>2. Core
  BY DEF Init, Core, StoreOK, RootOK, MetaIn, VersionsGrow, NoMeta, NoCid
<1>3. Suspended
  BY DEF Init, Suspended, StartPc, Tasks, Savers
<1> QED
  BY <1>1, <1>2, <1>3

LEMMA DataStep == DataHolds /\ [Next]_vars => DataHolds'
<1> SUFFICES ASSUME DataHolds, [Next]_vars PROVE Core' /\ Suspended'
  BY PcStep, PhasesStep, LockStep, EditsStep DEF DataHolds, Control
<1> QED
  BY LoadStep, SaveStep, EditStep, AppendStep, RewindStep, OtherStep, CrashStep
     DEF DataHolds, Next

THEOREM DataInvariant == Spec => []DataHolds
BY DataInit, DataStep, PTL DEF Spec

(* What the invariant says of the versions and of the metadata.              *)
LEMMA DataMeans ==
    DataHolds => HistoryIsLineage /\ HistoryBounded /\ MetadataNamesVersion /\ VersionsGrow
<1>1. DataHolds => HistoryIsLineage
  <2> SUFFICES ASSUME DataHolds, NEW m, MetaIn(m, store), m # NoMeta, m # NewMeta
               PROVE  m.cidlatest \in DOMAIN store /\ \A i \in DOMAIN m.history :
                         m.history[i] \in DOMAIN store /\ m.history[i] = store[Newer(m, i)].prev
    BY DEF DataHolds, Core, HistoryIsLineage, LineageOf
  <2>1. m.cidlatest # NoCid
    BY DEF MetaIn, Meta, NewMeta
  <2> QED
    BY <2>1 DEF MetaIn
<1>2. DataHolds => HistoryBounded
  BY BoundsAssumption DEF DataHolds, Core, MetaIn, HistoryBounded, NoMeta
<1>3. DataHolds => MetadataNamesVersion
  BY DEF DataHolds, Core, MetaIn, MetadataNamesVersion
<1>4. DataHolds => VersionsGrow
  BY DEF DataHolds, Core
<1> QED
  BY <1>1, <1>2, <1>3, <1>4

(* The history is the lineage of the latest version, in memory and on disk,  *)
(* after any number of saves, rewinds, failures and restarts.                *)
THEOREM HistoryKept == Spec => []HistoryIsLineage
  BY DataMeans, DataInvariant, PTL

(* The metadata never keeps more than dagMetaHistoryMax + 1 old CIDs. *)
THEOREM HistoryIsBounded == Spec => []HistoryBounded
  BY DataMeans, DataInvariant, PTL

(* The metadata file always names a version that is stored. *)
THEOREM MetadataIsUsable == Spec => []MetadataNamesVersion
  BY DataMeans, DataInvariant, PTL

(* No version lacks what the version it replaced held. *)
THEOREM NothingIsDropped == Spec => []VersionsGrow
  BY DataMeans, DataInvariant, PTL

-----------------------------------------------------------------------------
(* The refinement of VersionChain.  It needs the metadata file to be         *)
(* readable: loadDag() takes a file it could not read for one that does not  *)
(* exist, and starts a new chain.                                            *)

LEMMA ChainInit == Init => Chain!Init
<1> SUFFICES ASSUME Init PROVE Chain!Init
  OBVIOUS
<1>1. ParentOf = <<>> /\ Recorded = 0 /\ Current = 0
  BY DEF Init, ParentOf, Recorded, Current
<1> QED
  BY <1>1 DEF Chain!Init

LEMMA ChainStep ==
    ASSUME "metaread" \notin Faults, DataHolds, DataHolds', [Next]_vars PROVE [Chain!Next]_(Chain!vars)
<1> USE DEF Step
<1>1. CASE UNCHANGED <<dagMeta, disk>>
  BY <1>1 DEF ParentOf, Recorded, Current, Chain!vars, disk
<1>2. CASE LoadFresh
  <2>1. dagMeta = NoMeta /\ mfsMeta = NoMeta /\ dagMeta' = NewMeta /\ UNCHANGED <<store, mfsMeta>>
    BY <1>2 DEF LoadFresh, DataHolds, Suspended, disk
  <2> QED
    BY <2>1, Nulls DEF ParentOf, Recorded, Current, Chain!vars, NewMeta, NoCid
<1>3. CASE LoadMeta
  <2>1. dagMeta = NoMeta /\ mfsMeta # NoMeta /\ dagMeta' = mfsMeta /\ UNCHANGED <<store, mfsMeta>>
    BY <1>3 DEF LoadMeta, DataHolds, Suspended, disk
  <2> QED
    BY <2>1 DEF ParentOf, Recorded, Current, Chain!vars
<1>4. ASSUME NEW s \in Savers, PutDone(s) PROVE Chain!Commit
  <2>1. PICK cid \in Cids : /\ Put(put, cid) /\ dagMeta'.cidlatest = cid
                            /\ pc[s] = "put" /\ mfsMeta' = mfsMeta
    BY <1>4 DEF PutDone
  <2>2. dagMeta # NoMeta /\ store \in Seq(Content) /\ put \in Content /\ put.prev = dagMeta.cidlatest
        /\ dagMeta' # NoMeta
    <3>1. PutOK
      BY <2>1 DEF DataHolds, Suspended
    <3>2. dagMeta # NoMeta
      BY <3>1 DEF DataHolds, Core, RootOK, PutOK
    <3>3. dagMeta' # NoMeta
      BY <2>1, BoundsAssumption DEF NoMeta, Cids
    <3> QED
      BY <3>1, <3>2, <3>3 DEF PutOK, DataHolds, Core, StoreOK
  <2>3. Current = put.prev /\ Current' = cid /\ cid \in 1..MaxCids /\ Recorded' = Recorded
    BY <2>1, <2>2 DEF Current, Recorded, Cids
  <2>4. CASE cid \in DOMAIN store /\ store[cid] = put /\ UNCHANGED store
    BY <2>3, <2>4 DEF Chain!Commit, ParentOf
  <2>5. CASE cid = Len(store) + 1 /\ store' = Append(store, put)
    <3>1. ParentOf \in Seq(0..MaxCids) /\ Len(ParentOf) = Len(store)
      <4>1. \A c \in 1..Len(store) : store[c].prev \in 0..MaxCids
        <5>1. \A c \in 1..Len(store) : store[c] \in Content
          BY <2>2
        <5>2. \A x \in Content : x.prev \in 0..MaxCids
          BY DEF Content
        <5> QED
          BY <5>1, <5>2
      <4>2. ParentOf = [c \in 1..Len(store) |-> store[c].prev] /\ Len(store) \in Nat
        BY <2>2 DEF ParentOf
      <4> QED
        BY <4>1, <4>2
    <3>2. ParentOf' = Append(ParentOf, put.prev)
      <4>1. Append(ParentOf, put.prev) = [c \in 1..(Len(store) + 1) |->
                                          IF c \in DOMAIN store THEN store[c].prev ELSE put.prev]
        BY <3>1, <2>2 DEF ParentOf
      <4>2. /\ DOMAIN store' = 1..(Len(store) + 1)
            /\ \A c \in DOMAIN store' : store'[c] = IF c \in DOMAIN store THEN store[c] ELSE put
        BY <2>2, <2>5
      <4>3. ParentOf' = [c \in 1..(Len(store) + 1) |->
                           IF c \in DOMAIN store THEN store[c].prev ELSE put.prev]
        BY <4>2 DEF ParentOf
      <4> QED
        BY <4>1, <4>3
    <3> QED
      BY <2>3, <2>5, <3>1, <3>2 DEF Chain!Commit
  <2> QED
    BY <2>1, <2>4, <2>5 DEF Put
<1>5. ASSUME NEW w \in Rewinders, RewindGot(w) PROVE Chain!Rewind
  <2>1. /\ dagMeta' = [cidlatest |-> Head(dagMeta.history), history |-> Tail(dagMeta.history)]
        /\ UNCHANGED <<store, mfsMeta>> /\ pc[w] = "rwget"
    BY <1>5 DEF RewindGot, disk
  <2>2. dagMeta # NoMeta /\ dagMeta' # NoMeta /\ dagMeta.history # <<>>
    BY <2>1, TasksAssumption
       DEF DataHolds, Suspended, Control, PcOK, Phases, Tasks, Savers, Core, RootOK, NoMeta
  <2>3. Head(dagMeta.history) \in DOMAIN store /\ Head(dagMeta.history) = store[dagMeta.cidlatest].prev
    BY <2>2, MetaRewound DEF DataHolds, Core, StoreOK
  <2>4. dagMeta.cidlatest # 0 /\ dagMeta.cidlatest \in DOMAIN store
    BY <2>2 DEF DataHolds, Core, MetaIn, NoCid
  <2>5. Head(dagMeta.history) # 0
    BY <2>3 DEF DataHolds, Core, StoreOK
  <2>6. Current = dagMeta.cidlatest /\ Current' = Head(dagMeta.history)
        /\ ParentOf' = ParentOf /\ Recorded' = Recorded
    BY <2>1, <2>2 DEF Current, ParentOf, Recorded
  <2> QED
    BY <2>3, <2>4, <2>5, <2>6 DEF Chain!Rewind, ParentOf
<1>6. CASE (\E s \in Savers : SaveDone(s)) \/ (\E w \in Rewinders : RewindDone(w))
  <2>1. dagMeta' = dagMeta /\ store' = store /\ (mfsMeta' = dagMeta \/ mfsMeta' = mfsMeta)
    BY <1>6 DEF SaveDone, RewindDone, MetaWritten, memory
  <2>2. dagMeta # NoMeta
    BY <1>6, TasksAssumption
       DEF SaveDone, RewindDone, DataHolds, Suspended, Control, PcOK, Phases, Tasks, Savers
  <2> QED
    BY <2>1, <2>2 DEF Chain!Next, Chain!Record, Chain!vars, Current, Recorded, ParentOf
<1>7. CASE Crash
  <2>1. dagMeta' = NoMeta /\ UNCHANGED <<store, mfsMeta>>
    BY <1>7 DEF Crash, disk
  <2> QED
    BY <2>1 DEF Chain!Next, Chain!Restart, Current, Recorded, ParentOf
<1>8. \/ UNCHANGED <<dagMeta, disk>> \/ LoadFresh \/ LoadMeta \/ Crash
      \/ (\E s \in Savers : PutDone(s) \/ SaveDone(s))
      \/ (\E w \in Rewinders : RewindGot(w) \/ RewindDone(w))
  <2>1. CASE Load
    BY <2>1 DEF Load, LoadUnparsed, LoadGet, LoadGetFailed, memory
  <2>2. ASSUME NEW s \in Savers, Save(s)
        PROVE  UNCHANGED <<dagMeta, disk>> \/ PutDone(s) \/ SaveDone(s)
    BY <2>2 DEF Save, SaveLocked, PutFailed, memory
  <2>3. ASSUME NEW e \in Editors, Edit(e) PROVE UNCHANGED <<dagMeta, disk>>
    BY <2>3 DEF Edit, Enter, EditLocked, EditNoRoot, EditDone, memory
  <2>4. ASSUME NEW a \in Appenders, AppendImage(a) PROVE UNCHANGED <<dagMeta, disk>>
    BY <2>4 DEF AppendImage, AppendStart, AppendDone, memory
  <2>5. ASSUME NEW w \in Rewinders, Rewind(w)
        PROVE  UNCHANGED <<dagMeta, disk>> \/ RewindGot(w) \/ RewindDone(w)
    BY <2>5 DEF Rewind, RewindCall, RewindLocked, RewindRaised, memory
  <2>6. ASSUME NEW r \in Readers, Read(r) PROVE UNCHANGED <<dagMeta, disk>>
    BY <2>6 DEF Read, ReadCall, ReadLocked, ReadLoaded, ReadLoadFailed, ReadDone, memory
  <2>7. CASE SaveStart \/ SaveNoRoot \/ PortalExpires \/ UNCHANGED vars
    BY <2>7 DEF SaveStart, SaveNoRoot, PortalExpires, vars, memory
  <2> QED
    BY <2>1, <2>2, <2>3, <2>4, <2>5, <2>6, <2>7 DEF Next
<1> QED
  BY <1>1, <1>2, <1>3, <1>4, <1>5, <1>6, <1>7, <1>8 DEF Chain!Next

(* EvolvingDAG implements VersionChain when its metadata file can be read:   *)
(* every save commits a child of the current version, a rewind goes back to  *)
(* the parent, and a restart resumes from the version recorded last.         *)
THEOREM Refinement == ASSUME "metaread" \notin Faults PROVE Spec => RefinesVersionChain
<1>1. Init => Chain!Init
  BY ChainInit
<1>2. DataHolds /\ DataHolds' /\ [Next]_vars => [Chain!Next]_(Chain!vars)
  BY ChainStep
<1> QED
  BY <1>1, <1>2, DataInvariant, PTL DEF Spec, RefinesVersionChain, Chain!Spec
-----------------------------------------------------------------------------
(* The portals, and with them the type of the whole state. *)

(* A portal that follows the document follows one; a portal without one      *)
(* names the stored version that it will load.                               *)
PortalIn(p, root, st) ==
    p # NoPortal =>
        /\ p \in Portal
        /\ p.live => root # NoRoot
        /\ ~p.live /\ p.root = NoRoot => p.cid \in DOMAIN st

(* A portal that some reader is loading, and another may have loaded. *)
Unloaded(p, st) ==
    ~p.live /\ p.cid \in DOMAIN st /\ p.root \in {NoRoot, st[p.cid]}

PortalsOK ==
    /\ PortalIn(portal, dagRoot, store)
    /\ view \in [Readers -> Portal \union {NoPortal}]
    /\ \A r \in Readers :
          /\ PortalIn(view[r], dagRoot, store)
          /\ pc[r] # "idle" => view[r] # NoPortal
          /\ pc[r] = "rload" => Unloaded(view[r], store)
          /\ pc[r] = "read" => HasRoot(view[r]) \/ Emptied(r)

(* Until the application stops, the document is not lost nor a version       *)
(* forgotten.                                                                *)
LEMMA RootKept ==
    ASSUME DataHolds, [Next]_vars, ~Crash PROVE dagRoot # NoRoot => dagRoot' # NoRoot
<1> SUFFICES ASSUME dagRoot # NoRoot PROVE dagRoot' # NoRoot
  OBVIOUS
<1>0. /\ dagRoot \in Content /\ NoRoot \notin Content /\ NewRoot # NoRoot
      /\ \A c \in DOMAIN store : store[c] \in Content
      /\ \A x \in Content : x.prev # -1
      /\ NoRoot.prev = -1
  <2>1. dagRoot \in Content /\ NoRoot \notin Content /\ NewRoot # NoRoot
    BY Nulls DEF DataHolds, Core, RootOK
  <2>2. \A c \in DOMAIN store : store[c] \in Content
    BY DEF DataHolds, Core, StoreOK
  <2>3. (\A x \in Content : x.prev # -1) /\ NoRoot.prev = -1
    BY BoundsAssumption DEF Content, NoRoot
  <2> QED
    BY <2>1, <2>2, <2>3
<1>1. CASE UNCHANGED dagRoot
  BY <1>1
<1>2. CASE LoadFresh
  BY <1>0, <1>2 DEF LoadFresh
<1>3. CASE LoadGet
  <2>1. dagMeta.cidlatest \in DOMAIN store
    BY <1>3 DEF LoadGet, Step, DataHolds, Suspended, Core, MetaIn
  <2> QED
    BY <2>1, <1>0, <1>3 DEF LoadGet
<1>4. ASSUME NEW s \in Savers, SaveLocked(s) PROVE dagRoot' # NoRoot
  <2>1. dagMeta.cidlatest # -1
    BY <1>4 DEF SaveLocked, Step, DataHolds, Core, RootOK, MetaIn, Meta
  <2>2. CASE dagMeta.cidlatest = NoCid
    BY <2>2, <1>4 DEF SaveLocked, Linked
  <2>3. CASE dagMeta.cidlatest # NoCid
    <3>1. dagRoot' = [dagRoot EXCEPT !.prev = dagMeta.cidlatest]
      BY <2>3, <1>4 DEF SaveLocked, Linked
    <3>2. dagRoot'.prev = dagMeta.cidlatest
      BY <3>1, <1>0 DEF Content
    <3> QED
      BY <3>2, <2>1, <1>0
  <2> QED
    BY <2>2, <2>3
<1>5. ASSUME NEW x, dagRoot' = [dagRoot EXCEPT !.edits = x] PROVE dagRoot' # NoRoot
  <2>1. dagRoot'.prev = dagRoot.prev
    BY <1>5, <1>0 DEF Content
  <2> QED
    BY <2>1, <1>0
<1>6. ASSUME NEW x, dagRoot' = [dagRoot EXCEPT !.whole = x] PROVE dagRoot' # NoRoot
  <2>1. dagRoot'.prev = dagRoot.prev
    BY <1>6, <1>0 DEF Content
  <2> QED
    BY <2>1, <1>0
<1>7. ASSUME NEW w \in Rewinders, RewindGot(w) PROVE dagRoot' # NoRoot
  <2>1. dagMeta # NoMeta /\ dagMeta.history # <<>>
    BY <1>7, TasksAssumption
       DEF RewindGot, Step, DataHolds, Suspended, Control, PcOK, Phases, Tasks, Savers, Core, RootOK, NoMeta
  <2>2. Head(dagMeta.history) \in DOMAIN store
    BY <2>1, MetaRewound DEF DataHolds, Core, StoreOK
  <2> QED
    BY <2>2, <1>0, <1>7 DEF RewindGot
<1>8. \/ UNCHANGED dagRoot \/ LoadFresh \/ LoadGet
      \/ (\E s \in Savers : SaveLocked(s))
      \/ (\E x : dagRoot' = [dagRoot EXCEPT !.edits = x])
      \/ (\E x : dagRoot' = [dagRoot EXCEPT !.whole = x])
      \/ (\E w \in Rewinders : RewindGot(w))
  <2>1. CASE Load
    BY <2>1 DEF Load, LoadUnparsed, LoadMeta, LoadGetFailed, memory
  <2>2. ASSUME NEW s \in Savers, Save(s) PROVE UNCHANGED dagRoot \/ SaveLocked(s)
    BY <2>2 DEF Save, PutDone, PutFailed, SaveDone, memory
  <2>3. ASSUME NEW e \in Editors, Edit(e)
        PROVE  \/ UNCHANGED dagRoot
               \/ (\E x : dagRoot' = [dagRoot EXCEPT !.edits = x])
               \/ (\E x : dagRoot' = [dagRoot EXCEPT !.whole = x])
    BY <2>3 DEF Edit, Enter, EditLocked, EditNoRoot, EditDone, memory
  <2>4. ASSUME NEW a \in Appenders, AppendImage(a)
        PROVE  \/ (\E x : dagRoot' = [dagRoot EXCEPT !.edits = x])
               \/ (\E x : dagRoot' = [dagRoot EXCEPT !.whole = x])
    BY <2>4 DEF AppendImage, AppendStart, AppendDone
  <2>5. ASSUME NEW w \in Rewinders, Rewind(w) PROVE UNCHANGED dagRoot \/ RewindGot(w)
    BY <2>5 DEF Rewind, RewindCall, RewindLocked, RewindRaised, RewindDone, memory
  <2>6. ASSUME NEW r \in Readers, Read(r) PROVE UNCHANGED dagRoot
    BY <2>6 DEF Read, ReadCall, ReadLocked, ReadLoaded, ReadLoadFailed, ReadDone, memory
  <2>7. CASE SaveStart \/ SaveNoRoot \/ PortalExpires \/ UNCHANGED vars
    BY <2>7 DEF SaveStart, SaveNoRoot, PortalExpires, vars, memory
  <2> QED
    BY <2>1, <2>2, <2>3, <2>4, <2>5, <2>6, <2>7 DEF Next
<1> QED
  BY <1>1, <1>2, <1>3, <1>4, <1>5, <1>6, <1>7, <1>8

LEMMA StoreKept ==
    ASSUME DataHolds, [Next]_vars PROVE \A c \in DOMAIN store : c \in DOMAIN store' /\ store'[c] = store[c]
<1>1. CASE UNCHANGED store
  BY <1>1
<1>2. ASSUME NEW s \in Savers, PutDone(s) PROVE \A c \in DOMAIN store : c \in DOMAIN store' /\ store'[c] = store[c]
  <2>1. PICK cid \in Cids : Put(put, cid)
    BY <1>2 DEF PutDone
  <2>2. put \in Content /\ store \in Seq(Content)
    BY <1>2 DEF PutDone, Step, DataHolds, Suspended, PutOK, Core, StoreOK
  <2> QED
    BY <2>1, <2>2 DEF Put
<1>3. UNCHANGED store \/ (\E s \in Savers : PutDone(s))
  <2>1. CASE Load
    BY <2>1 DEF Load, LoadFresh, LoadUnparsed, LoadMeta, LoadGet, LoadGetFailed, disk
  <2>2. ASSUME NEW s \in Savers, Save(s) PROVE UNCHANGED store \/ PutDone(s)
    BY <2>2 DEF Save, SaveLocked, PutFailed, SaveDone, disk
  <2>3. ASSUME NEW e \in Editors, Edit(e) PROVE UNCHANGED store
    BY <2>3 DEF Edit, Enter, EditLocked, EditNoRoot, EditDone, disk
  <2>4. ASSUME NEW a \in Appenders, AppendImage(a) PROVE UNCHANGED store
    BY <2>4 DEF AppendImage, AppendStart, AppendDone, disk
  <2>5. ASSUME NEW w \in Rewinders, Rewind(w) PROVE UNCHANGED store
    BY <2>5 DEF Rewind, RewindCall, RewindLocked, RewindRaised, RewindGot, RewindDone, disk
  <2>6. ASSUME NEW r \in Readers, Read(r) PROVE UNCHANGED store
    BY <2>6 DEF Read, ReadCall, ReadLocked, ReadLoaded, ReadLoadFailed, ReadDone, disk
  <2>7. CASE SaveStart \/ SaveNoRoot \/ PortalExpires \/ Crash \/ UNCHANGED vars
    BY <2>7 DEF SaveStart, SaveNoRoot, PortalExpires, Crash, vars, disk
  <2> QED
    BY <2>1, <2>2, <2>3, <2>4, <2>5, <2>6, <2>7 DEF Next
<1> QED
  BY <1>1, <1>2, <1>3

LEMMA PortalKept ==
    ASSUME DataHolds, [Next]_vars, ~Crash, NEW CONSTANT p, PortalIn(p, dagRoot, store)
    PROVE  PortalIn(p, dagRoot', store')
  BY RootKept, StoreKept DEF PortalIn

(* A new portal follows the document, or names the version to load. *)
LEMMA ReadPortalOK ==
    ASSUME DataHolds, loaded, PortalIn(portal, dagRoot, store), NEW p, ReadPortal(p)
    PROVE  PortalIn(p, dagRoot, store) /\ p # NoPortal
<1>1. CASE portal # NoPortal
  BY <1>1 DEF ReadPortal
<1>2. CASE portal = NoPortal
  <2>1. PICK id \in Readers : p = NewPortal(id)
    BY <1>2 DEF ReadPortal
  <2>2. dagMeta \in Meta
    BY DEF DataHolds, Control, Phases, Suspended, Core, MetaIn
  <2>3. dagMeta.cidlatest \in 0..MaxCids
    BY <2>2 DEF Meta
  <2>4. p \in Portal
    BY <2>1, <2>3 DEF Portal, NewPortal
  <2>5. dagRoot = NoRoot => dagMeta.cidlatest \in DOMAIN store
    BY <2>2, Nulls DEF DataHolds, Core, RootOK, MetaIn
  <2>6. p # NoPortal
    BY <2>4, Nulls
  <2> QED
    BY <2>1, <2>4, <2>5, <2>6 DEF PortalIn, NewPortal
<1> QED
  BY <1>1, <1>2

(* A portal frozen by a rewind keeps the document it showed. *)
LEMMA FrozenOK ==
    ASSUME DataHolds, NEW CONSTANT p, PortalIn(p, dagRoot, store), NEW root
    PROVE  /\ PortalIn(Frozen(p), root, store)
           /\ p # NoPortal => Frozen(p) # NoPortal
           /\ HasRoot(p) => HasRoot(Frozen(p))
           /\ ~p.live => Frozen(p) = p
<1>1. CASE ~p.live
  BY <1>1 DEF Frozen, PortalIn
<1>2. CASE p.live
  <2>1. p # NoPortal
    BY <1>2 DEF NoPortal
  <2>2. p \in Portal /\ dagRoot \in Content /\ dagRoot # NoRoot
    BY <1>2, <2>1 DEF PortalIn, DataHolds, Core, RootOK
  <2>3. Frozen(p) = [id |-> p.id, cid |-> p.cid, live |-> FALSE, root |-> dagRoot] /\ p.cid \in 0..MaxCids /\ p.id \in Readers
    BY <1>2, <2>2 DEF Frozen, Portal
  <2>4. Frozen(p) \in Portal
    BY <2>2, <2>3 DEF Portal
  <2>5. Frozen(p) # NoPortal
    BY <2>4, Nulls
  <2> QED
    BY <1>2, <2>2, <2>3, <2>4, <2>5 DEF PortalIn, HasRoot
<1> QED
  BY <1>1, <1>2

(* A portal that loads its document, or that a failed load takes it from.    *)
LEMMA AssignedOK ==
    ASSUME DataHolds, NEW CONSTANT p, NEW root, PortalIn(p, root, store), p # NoPortal,
           Unloaded(p, store), NEW CONSTANT got \in {NoRoot, store[p.cid]}
    PROVE  LET q == [p EXCEPT !.root = got]
           IN  /\ PortalIn(q, root, store) /\ q # NoPortal /\ Unloaded(q, store)
               /\ q.live = p.live /\ q.cid = p.cid /\ q.root = got
               /\ got = store[p.cid] => HasRoot(q)
<1> DEFINE q == [p EXCEPT !.root = got]
<1>1. store[p.cid] \in Content /\ store[p.cid] # NoRoot
  BY Nulls DEF DataHolds, Core, StoreOK, Unloaded
<1>2. q = [id |-> p.id, cid |-> p.cid, live |-> p.live, root |-> got]
  BY DEF PortalIn, Portal
<1>3. q \in Portal
  BY <1>1, <1>2 DEF PortalIn, Portal
<1> QED
  BY <1>1, <1>2, <1>3, Nulls DEF PortalIn, HasRoot, Unloaded

LEMMA PortalsStep == DataHolds /\ PortalsOK /\ [Next]_vars => PortalsOK'
<1> SUFFICES ASSUME DataHolds, PortalsOK, [Next]_vars PROVE PortalsOK'
  OBVIOUS
<1> USE TasksAssumption
<1>0. pc \in [Tasks -> Labels] /\ Readers \subseteq Tasks
      /\ (\A r \in Readers : r \notin Editors \union Appenders \union Rewinders \union Savers)
  BY DEF DataHolds, Control, PcOK, Tasks
<1>1. CASE Crash
  <2>1. portal' = NoPortal /\ view' = NoViews /\ pc' = StartPc
    BY <1>1 DEF Crash
  <2>2. \A r \in Readers : pc'[r] = "idle" /\ view'[r] = NoPortal
    BY <2>1, <1>0 DEF StartPc, NoViews, Savers
  <2> QED
    BY <2>1, <2>2 DEF PortalsOK, PortalIn, NoViews
<1>2. ASSUME ~Crash, UNCHANGED view, \A r \in Readers : pc'[r] = pc[r],
             portal' = portal \/ portal' = NoPortal
      PROVE  PortalsOK'
  <2>1. PortalIn(portal', dagRoot', store')
    BY <1>2, PortalKept DEF PortalsOK, PortalIn
  <2>2. \A r \in Readers : PortalIn(view[r], dagRoot', store')
    BY <1>2, PortalKept DEF PortalsOK
  <2>3. view' = view
    BY <1>2
  <2> QED
    BY <1>2, <2>1, <2>2, <2>3, StoreKept DEF PortalsOK, Unloaded, Emptied
<1>3. ASSUME NEW w \in Rewinders, RewindGot(w) PROVE PortalsOK'
  <2>1. /\ portal' = Frozen(portal) /\ view' = [r \in Readers |-> Frozen(view[r])]
        /\ store' = store /\ \A r \in Readers : pc'[r] = pc[r]
    BY <1>0, <1>3 DEF RewindGot, Step, disk
  <2>2. PortalIn(Frozen(portal), dagRoot', store)
    BY FrozenOK DEF PortalsOK
  <2>3. ASSUME NEW r \in Readers
        PROVE  /\ PortalIn(Frozen(view[r]), dagRoot', store)
               /\ Frozen(view[r]) \in Portal \union {NoPortal}
               /\ pc[r] # "idle" => Frozen(view[r]) # NoPortal
               /\ pc[r] = "rload" => Unloaded(Frozen(view[r]), store)
               /\ pc[r] = "read" => HasRoot(Frozen(view[r])) \/ Emptied(r)'
    <3>1. /\ PortalIn(Frozen(view[r]), dagRoot', store)
          /\ view[r] # NoPortal => Frozen(view[r]) # NoPortal
          /\ HasRoot(view[r]) => HasRoot(Frozen(view[r]))
          /\ ~view[r].live => Frozen(view[r]) = view[r]
      BY FrozenOK DEF PortalsOK
    <3>2. Emptied(r) => Emptied(r)'
      BY <2>1 DEF Emptied
    <3> QED
      BY <3>1, <3>2 DEF PortalsOK, PortalIn, Unloaded
  <2> QED
    BY <2>1, <2>2, <2>3 DEF PortalsOK
<1>4. ASSUME NEW r \in Readers, Read(r) PROVE PortalsOK'
  <2>0. /\ \A q \in Readers : PortalIn(view[q], dagRoot, store)
        /\ \A q \in Readers \ {r} : pc'[q] = pc[q]
        /\ dagRoot' = dagRoot /\ store' = store
        /\ PortalIn(portal, dagRoot, store)
    BY <1>0, <1>4 DEF PortalsOK, Read, ReadCall, ReadLocked, ReadLoaded, ReadLoadFailed, ReadDone,
                      Step, memory, disk
  <2>1. CASE ReadCall(r)
    <3>1. /\ view' = [view EXCEPT ![r] = portal'] /\ ReadPortal(portal')
          /\ pc[r] = "idle" /\ pc'[r] = "rwait" /\ loaded
      BY <1>0, <2>1 DEF ReadCall, Step
    <3>2. PortalIn(portal', dagRoot, store) /\ portal' # NoPortal
      BY <3>1, ReadPortalOK DEF PortalsOK
    <3>3. portal' \in Portal
      BY <3>2 DEF PortalIn
    <3>4. \A q \in Readers \ {r} : Emptied(q) => Emptied(q)'
      BY <2>0, <3>1 DEF Emptied, PortalsOK
    <3> QED
      BY <2>0, <3>1, <3>2, <3>3, <3>4 DEF PortalsOK
  <2>2. CASE ReadLocked(r)
    <3>1. portal' = portal /\ view' = view
          /\ pc[r] = "rwait" /\ pc'[r] = IF HasRoot(view[r]) THEN "read" ELSE "rload"
      BY <1>0, <2>2 DEF ReadLocked, Step, portals
    <3>2. ~HasRoot(view[r]) => Unloaded(view[r], store)
      BY <3>1 DEF PortalsOK, PortalIn, HasRoot, Unloaded
    <3>3. \A q \in Readers \ {r} : Emptied(q) => Emptied(q)'
      BY <2>0, <3>1 DEF Emptied
    <3> QED
      BY <2>0, <3>1, <3>2, <3>3 DEF PortalsOK
  <2>3. ASSUME NEW got \in {NoRoot, store[view[r].cid]}, Assign(view[r], got), pc[r] = "rload",
               pc'[r] = IF got = NoRoot THEN "leaked" ELSE "read"
        PROVE  PortalsOK'
    <3> DEFINE new == [view[r] EXCEPT !.root = got]
               After(p) == IF p = view[r] THEN new ELSE p
    <3>1. portal' = After(portal) /\ view' = [q \in Readers |-> After(view[q])]
      BY <2>3 DEF Assign
    <3>2. /\ PortalIn(new, dagRoot, store) /\ new # NoPortal /\ Unloaded(new, store)
          /\ got = store[view[r].cid] => HasRoot(new)
      BY <2>3, AssignedOK DEF PortalsOK
    <3>3. new \in Portal
      BY <3>2 DEF PortalIn
    <3>a. store[view[r].cid] # NoRoot
      BY <2>3, Nulls DEF PortalsOK, Unloaded, DataHolds, Core, StoreOK
    <3> HIDE DEF new
    <3>4. PortalIn(After(portal), dagRoot, store)
      BY <2>0, <3>2
    <3>5. ASSUME NEW q \in Readers, pc'[q] = "read" PROVE HasRoot(After(view[q])) \/ Emptied(q)'
      <4>1. CASE view[q] = view[r] /\ got = NoRoot
        <5>1. pc'[r] = "leaked" /\ view'[r] = view'[q]
          BY <2>3, <3>1, <4>1
        <5> QED
          BY <5>1 DEF Emptied
      <4>2. CASE view[q] = view[r] /\ got # NoRoot
        BY <3>2, <4>2
      <4>3. CASE view[q] # view[r]
        <5>1. q # r /\ pc[q] = "read"
          BY <2>0, <3>5, <4>3
        <5>2. Emptied(q) => Emptied(q)'
          BY <2>0, <2>3, <3>1, <4>3 DEF Emptied
        <5> QED
          BY <4>3, <5>1, <5>2 DEF PortalsOK
      <4> QED
        BY <4>1, <4>2, <4>3
    <3>6. ASSUME NEW q \in Readers
          PROVE  /\ PortalIn(After(view[q]), dagRoot, store)
                 /\ After(view[q]) \in Portal \union {NoPortal}
                 /\ pc'[q] # "idle" => After(view[q]) # NoPortal
                 /\ pc'[q] = "rload" => Unloaded(After(view[q]), store)
      BY <2>0, <2>3, <3>2, <3>3, <3>a DEF PortalsOK, Unloaded
    <3> QED
      BY <2>0, <3>1, <3>4, <3>5, <3>6 DEF PortalsOK
  <2>4. ASSUME UNCHANGED portals, pc[r] = "rload",
               \/ pc'[r] = "leaked"
               \/ pc'[r] = "read" /\ HasRoot(view[r])
        PROVE  PortalsOK'
    <3>1. portal' = portal /\ view' = view
      BY <2>4 DEF portals
    <3>2. \A q \in Readers \ {r} : Emptied(q) => Emptied(q)'
      BY <2>0, <2>4, <3>1 DEF Emptied
    <3> QED
      BY <2>0, <2>4, <3>1, <3>2 DEF PortalsOK
  <2>5. CASE ReadDone(r)
    <3>1. portal' = portal /\ view' = [view EXCEPT ![r] = NoPortal] /\ pc'[r] = "idle"
      BY <1>0, <2>5 DEF ReadDone, Step
    <3>2. pc[r] = "read"
      BY <2>5 DEF ReadDone, Step
    <3>3. \A q \in Readers \ {r} : Emptied(q) => Emptied(q)'
      BY <2>0, <3>1, <3>2 DEF Emptied, PortalsOK
    <3> QED
      BY <2>0, <3>1, <3>3 DEF PortalsOK, PortalIn
  <2>6. CASE ReadLoaded(r)
    <3>1. store[view[r].cid] # NoRoot
      BY <2>6, Nulls DEF ReadLoaded, Step, PortalsOK, Unloaded, DataHolds, Core, StoreOK
    <3> QED
      BY <1>0, <2>3, <2>6, <3>1 DEF ReadLoaded, Step
  <2>7. CASE ReadLoadFailed(r)
    BY <1>0, <2>3, <2>4, <2>7 DEF ReadLoadFailed, Step
  <2> QED
    BY <1>4, <2>1, <2>2, <2>5, <2>6, <2>7 DEF Read
<1>5. \/ Crash
      \/ /\ UNCHANGED view /\ (\A r \in Readers : pc'[r] = pc[r])
         /\ (portal' = portal \/ portal' = NoPortal)
      \/ (\E w \in Rewinders : RewindGot(w))
      \/ (\E r \in Readers : Read(r))
  <2> USE <1>0 DEF Step, portals, Savers
  <2>1. CASE Load
    BY <2>1 DEF Load, LoadFresh, LoadUnparsed, LoadMeta, LoadGet, LoadGetFailed
  <2>2. ASSUME NEW s \in Savers, Save(s)
        PROVE  portal' = portal /\ view' = view /\ \A r \in Readers : pc'[r] = pc[r]
    BY <2>2 DEF Save, SaveLocked, PutDone, PutFailed, SaveDone
  <2>3. ASSUME NEW e \in Editors, Edit(e)
        PROVE  portal' = portal /\ view' = view /\ \A r \in Readers : pc'[r] = pc[r]
    BY <2>3 DEF Edit, Enter, EditLocked, EditNoRoot, EditDone
  <2>4. ASSUME NEW a \in Appenders, AppendImage(a)
        PROVE  portal' = portal /\ view' = view /\ \A r \in Readers : pc'[r] = pc[r]
    BY <2>4 DEF AppendImage, AppendStart, AppendDone
  <2>5. ASSUME NEW w \in Rewinders, Rewind(w), ~RewindGot(w)
        PROVE  portal' = portal /\ view' = view /\ \A r \in Readers : pc'[r] = pc[r]
    BY <2>5 DEF Rewind, RewindCall, RewindLocked, RewindRaised, RewindDone
  <2>6. CASE SaveStart \/ SaveNoRoot \/ PortalExpires \/ UNCHANGED vars
    BY <2>6 DEF SaveStart, SaveNoRoot, PortalExpires, vars
  <2> QED
    BY <2>1, <2>2, <2>3, <2>4, <2>5, <2>6 DEF Next
<1> QED
  <2>1. Crash \/ ~Crash
    OBVIOUS
  <2> QED
    BY <1>1, <1>2, <1>3, <1>4, <1>5, <2>1

LEMMA PortalsInit == Init => PortalsOK
  BY TasksAssumption DEF Init, PortalsOK, PortalIn, NoViews, StartPc, Tasks, Savers

THEOREM PortalsHold == Spec => []PortalsOK
  BY PortalsInit, PortalsStep, DataInvariant, PTL DEF Spec

(* The invariant and the portals type the whole state.                       *)
LEMMA DataTyped == DataHolds /\ PortalsOK => TypeOK
<1> SUFFICES ASSUME DataHolds, PortalsOK PROVE TypeOK
  OBVIOUS
<1>1. /\ PcOK /\ loaded \in BOOLEAN /\ pending \in Nat
      /\ writer \in Tasks \union {Nobody} /\ readers \subseteq Readers
  BY DEF DataHolds, Control, Phases, LockState
<1>2. editOf \in [Editors \union Appenders -> 0..MaxEdits] /\ nEdits \in 0..MaxEdits
  BY DEF DataHolds, EditsOK
<1>3. /\ dagRoot \in Content \union {NoRoot} /\ put \in Content \union {NoRoot}
      /\ store \in Seq(Content) /\ Len(store) <= MaxCids
  BY DEF DataHolds, Core, RootOK, StoreOK
<1>4. dagMeta \in Meta \union {NoMeta} /\ mfsMeta \in Meta \union {NoMeta}
  BY DEF DataHolds, Core, MetaIn
<1>5. portal \in Portal \union {NoPortal} /\ view \in [Readers -> Portal \union {NoPortal}]
  BY DEF PortalsOK, PortalIn
<1> QED
  BY <1>1, <1>2, <1>3, <1>4, <1>5 DEF TypeOK

(* Type correctness of the whole state. *)
THEOREM TypeCorrect == Spec => []TypeOK
  BY DataTyped, DataInvariant, PortalsHold, PTL

(* A portal that a failed load emptied stays known as such.                  *)
LEMMA EmptiedKept ==
    ASSUME DataHolds, PortalsOK, NEW r \in Readers, pc[r] = "read", pc'[r] = "read",
           NEW q \in Readers, Read(q), Emptied(r)
    PROVE  Emptied(r)'
<1>0. pc \in [Tasks -> Labels] /\ Readers \subseteq Tasks
  BY DEF DataHolds, Control, PcOK, Tasks
<1>1. PICK x \in Readers : pc[x] = "leaked" /\ view[x] = view[r]
  BY DEF Emptied
<1>2. x # q /\ pc'[x] = "leaked"
  BY <1>0, <1>1 DEF Read, ReadCall, ReadLocked, ReadLoaded, ReadLoadFailed, ReadDone, Step
<1>3. CASE ReadCall(q) \/ ReadDone(q)
  <2>1. q # r
    BY <1>0, <1>3 DEF ReadCall, ReadDone, Step
  <2>2. view'[x] = view'[r]
    BY <1>1, <1>2, <1>3, <2>1 DEF ReadCall, ReadDone, PortalsOK
  <2> QED
    BY <1>2, <2>2 DEF Emptied
<1>4. CASE UNCHANGED portals
  BY <1>1, <1>2, <1>4 DEF Emptied, portals
<1>5. ASSUME NEW got, Assign(view[q], got) PROVE Emptied(r)'
  <2>1. view'[x] = view'[r]
    BY <1>1, <1>5 DEF Assign
  <2> QED
    BY <1>2, <2>1 DEF Emptied
<1> QED
  BY <1>3, <1>4, <1>5 DEF Read, ReadLocked, ReadLoaded, ReadLoadFailed, portals

(* When every edit is made under the lock, no step of anyone changes what a  *)
(* reader sees inside its section: the lock keeps edits and rewinds out, and *)
(* readers that share a portal load the same version; only a load of it that *)
(* fails takes it away.                                                      *)
THEOREM ReadersAreUndisturbed == ASSUME Appenders = {} PROVE Spec => ReadersUndisturbed
<1> DEFINE Same(r) ==
      pc[r] = "read" /\ pc'[r] = "read" => Seen(r)' = Seen(r) \/ Emptied(r)'
<1>1. DataHolds /\ PortalsOK /\ [Next]_vars => [\A r \in Readers : Same(r)]_vars
  <2> SUFFICES ASSUME DataHolds, PortalsOK, Next,
                      NEW r \in Readers, pc[r] = "read", pc'[r] = "read"
               PROVE  Seen(r)' = Seen(r) \/ Emptied(r)'
    OBVIOUS
  <2> USE TasksAssumption
  <2>0. pc \in [Tasks -> Labels] /\ Editors \subseteq Tasks /\ Rewinders \subseteq Tasks
        /\ Readers \subseteq Tasks /\ Savers \subseteq Tasks
    BY DEF DataHolds, Control, PcOK, Tasks
  <2>1. readers # {} /\ writer = Nobody /\ pc[Loader] = "done"
    BY <2>0 DEF DataHolds, Control, LockState, Phases, ReadSection, Savers, Tasks
  <2>2. /\ \A t \in Tasks : pc[t] \notin {"edit", "put", "meta", "rwget", "rwmeta"}
        /\ ~CanWrite
    BY <2>1 DEF DataHolds, Control, LockState, WriteSection, CanWrite
  <2>3. ASSUME dagRoot' = dagRoot, view'[r] = view[r] PROVE Seen(r)' = Seen(r)
    BY <2>3 DEF Seen
  <2>4. ~Crash
    BY <2>0 DEF Crash, StartPc, Savers
  <2>5. ~Load
    BY <2>1 DEF Load, LoadFresh, LoadUnparsed, LoadMeta, LoadGet, LoadGetFailed, Step
  <2>6. CASE SaveStart \/ SaveNoRoot \/ PortalExpires
    BY <2>3, <2>6 DEF SaveStart, SaveNoRoot, PortalExpires, memory, portals
  <2>7. ASSUME NEW s \in Savers, Save(s) PROVE FALSE
    BY <2>0, <2>2, <2>7 DEF Save, SaveLocked, PutDone, PutFailed, SaveDone, Step
  <2>8. ASSUME NEW e \in Editors, Edit(e) PROVE dagRoot' = dagRoot /\ view' = view
    BY <2>0, <2>2, <2>8 DEF Edit, Enter, EditLocked, EditNoRoot, EditDone, Step, memory, portals
  <2>9. ASSUME NEW w \in Rewinders, Rewind(w) PROVE dagRoot' = dagRoot /\ view' = view
    BY <2>0, <2>2, <2>9
       DEF Rewind, RewindCall, RewindLocked, RewindRaised, RewindGot, RewindDone, Step, memory, portals
  <2>10. ASSUME NEW q \in Readers, Read(q) PROVE Seen(r)' = Seen(r) \/ Emptied(r)'
    <3>1. CASE ReadCall(q) \/ ReadDone(q)
      <4>1. pc'[q] # "read" /\ q # r /\ dagRoot' = dagRoot
        BY <2>0, <3>1 DEF ReadCall, ReadDone, Step, memory
      <4>2. view'[r] = view[r]
        BY <4>1, <3>1 DEF ReadCall, ReadDone, PortalsOK
      <4> QED
        BY <4>1, <4>2, <2>3
    <3>2. CASE dagRoot' = dagRoot /\ UNCHANGED portals
      BY <3>2, <2>3 DEF portals
    <3>3. CASE Emptied(r)
      BY <2>10, <3>3, EmptiedKept
    <3>4. ASSUME ~Emptied(r), pc[q] = "rload", Assign(view[q], store[view[q].cid]), dagRoot' = dagRoot
          PROVE  Seen(r)' = Seen(r)
      <4>1. view'[r] = IF view[r] = view[q] THEN [view[r] EXCEPT !.root = store[view[r].cid]] ELSE view[r]
        BY <3>4 DEF Assign
      <4>2. view[r] # NoPortal /\ HasRoot(view[r]) /\ view[r] \in Portal /\ Unloaded(view[q], store)
        BY <3>4 DEF PortalsOK, PortalIn
      <4>3. CASE view[r] = view[q]
        <5>1. view[r].root = store[view[r].cid]
          BY <4>2, <4>3 DEF Unloaded, HasRoot
        <5>2. view'[r] = view[r]
          BY <4>1, <4>2, <5>1 DEF Portal
        <5> QED
          BY <3>4, <5>2, <2>3
      <4> QED
        BY <3>4, <4>1, <4>3, <2>3
    <3>5. CASE pc'[q] = "leaked" /\ Assign(view[q], NoRoot) /\ dagRoot' = dagRoot
      <4>1. CASE view[r] = view[q]
        <5>1. view'[r] = view'[q]
          BY <3>5, <4>1 DEF Assign
        <5> QED
          BY <3>5, <5>1 DEF Emptied
      <4>2. CASE view[r] # view[q]
        <5>1. view'[r] = view[r]
          BY <3>5, <4>2 DEF Assign
        <5> QED
          BY <3>5, <5>1, <2>3
      <4> QED
        BY <4>1, <4>2
    <3>6. CASE ReadLoaded(q)
      BY <3>3, <3>4, <3>6 DEF ReadLoaded, Step, memory
    <3>7. CASE ReadLoadFailed(q)
      BY <2>0, <3>2, <3>5, <3>7 DEF ReadLoadFailed, Step, memory
    <3>8. CASE ReadLocked(q)
      BY <3>2, <3>8 DEF ReadLocked, memory
    <3> QED
      BY <2>10, <3>1, <3>6, <3>7, <3>8 DEF Read
  <2> QED
    BY <2>3, <2>4, <2>5, <2>6, <2>7, <2>8, <2>9, <2>10 DEF Next
<1> QED
  BY <1>1, DataInvariant, PortalsHold, PTL DEF Spec, ReadersUndisturbed
-----------------------------------------------------------------------------
(* No edit is forgotten.                                                     *)

Putting == \E s \in Savers : pc[s] = "put"

(* What is complete in the document is in the put in flight, if there is     *)
(* one, else in the latest version; a save is to come, or failed, otherwise. *)
Settled ==
    \/ dagRoot = NoRoot \/ SaveToCome \/ SaveFailed
    \/ /\ Putting => dagRoot.whole \subseteq put.whole
       /\ ~Putting => /\ dagMeta.cidlatest # NoCid
                      /\ dagRoot.whole \subseteq store[dagMeta.cidlatest].whole

PutLinked == Putting => dagRoot.prev = dagMeta.cidlatest

(* The metadata file lags behind only while it is being written.             *)
MetaSaved ==
    \/ \E t \in Tasks : pc[t] \in {"meta", "rwmeta"}
    \/ dagMeta = NoMeta \/ dagMeta.cidlatest = NoCid \/ mfsMeta = dagMeta

Remembered == Settled /\ PutLinked /\ MetaSaved

(* Steps that leave the versions alone, and put no less in the document,     *)
(* disturb nothing, but for those that end a put or a write.                 *)
LEMMA SettledKept ==
    ASSUME Settled, PutLinked, UNCHANGED <<dagMeta, put, store>>, Putting' <=> Putting,
           SaveToCome => SaveToCome',
           \/ dagRoot' = dagRoot
           \/ dagRoot'.prev = dagRoot.prev /\ (dagRoot'.whole = dagRoot.whole \/ SaveToCome'),
           dagRoot = NoRoot => dagRoot' = NoRoot
    PROVE  Settled' /\ PutLinked'
<1>1. PutLinked'
  BY DEF PutLinked
<1>2. SaveFailed => SaveFailed'
  BY DEF SaveFailed, Putting
<1> QED
  BY <1>1, <1>2 DEF Settled

LEMMA MetaSavedKept ==
    ASSUME MetaSaved, UNCHANGED <<dagMeta, mfsMeta>>,
           \A t \in Tasks : pc[t] \in {"meta", "rwmeta"} => pc'[t] = pc[t]
    PROVE  MetaSaved'
BY DEF MetaSaved

LEMMA RememberedStep ==
    ASSUME "metawrite" \notin Faults
    PROVE  DataHolds /\ Remembered /\ [Next]_vars => Remembered'
<1> SUFFICES ASSUME DataHolds, Remembered, [Next]_vars PROVE Remembered'
  OBVIOUS
<1> USE TasksAssumption
<1>0. /\ pc \in [Tasks -> Labels] /\ PcOK /\ pending \in Nat
      /\ Editors \subseteq Tasks /\ Appenders \subseteq Tasks /\ Rewinders \subseteq Tasks
      /\ Readers \subseteq Tasks /\ Savers \subseteq Tasks /\ Savers = {Saver, Loader}
      /\ Savers \intersect (Editors \union Appenders \union Rewinders \union Readers) = {}
  BY DEF DataHolds, Control, PcOK, Phases, Tasks, Savers
<1>a. dagRoot \in Content \union {NoRoot} /\ store \in Seq(Content)
  BY DEF DataHolds, Core, RootOK, StoreOK
<1>b. \A t, u \in Tasks : pc[t] \in WriteSection /\ pc[u] \in WriteSection => t = u
  BY DEF DataHolds, Control, LockState
(* A step of a task that is not in the middle of a save or of a rewind.      *)
<1>1. ASSUME UNCHANGED <<dagMeta, put, store, mfsMeta>>,
             \A s \in Savers : pc'[s] = pc[s],
             \A t \in Tasks : pc[t] \in {"meta", "rwmeta"} => pc'[t] = pc[t],
             dagRoot = NoRoot => dagRoot' = NoRoot,
             \/ dagRoot' = dagRoot /\ (pending' = pending \/ pending' = pending + 1)
             \/ dagRoot'.prev = dagRoot.prev /\ pending' = pending /\ dagRoot'.whole = dagRoot.whole
             \/ dagRoot'.prev = dagRoot.prev /\ pending' = pending + 1
      PROVE  Remembered'
  <2>1. (Putting' <=> Putting) /\ (SaveToCome => SaveToCome') /\ (pending' = pending + 1 => SaveToCome')
    BY <1>0, <1>1 DEF Putting, SaveToCome
  <2>2. Settled' /\ PutLinked'
    BY <1>1, <2>1, SettledKept DEF Remembered
  <2> QED
    BY <1>1, <2>2, MetaSavedKept DEF Remembered
<1>2. CASE Load
  <2>0. /\ \A t \in Tasks \ {Loader} : pc[t] = "idle" /\ pc'[t] = "idle"
        /\ pc[Loader] \in {"start", "get"} /\ UNCHANGED <<put, store, mfsMeta, pending>>
    BY <1>0, <1>2 DEF Load, LoadFresh, LoadUnparsed, LoadMeta, LoadGet, LoadGetFailed, Step, DataHolds, Control, Phases,
                      saving, disk
  <2>1. ~Putting /\ ~SaveToCome
    BY <1>0, <2>0 DEF Putting, SaveToCome, DataHolds, Control, Phases
  <2>2. CASE LoadFresh
    <3>1. /\ pc'[Loader] = "wait" /\ ~Putting' /\ SaveToCome'
          /\ dagMeta' = NewMeta /\ dagRoot' = NewRoot
      BY <1>0, <2>0, <2>2 DEF LoadFresh, Step, Putting, SaveToCome
    <3> QED
      BY <3>1 DEF Remembered, Settled, PutLinked, MetaSaved, NewMeta
  <2>3. CASE LoadMeta
    <3>1. ~Putting' /\ dagMeta' = mfsMeta /\ dagRoot' = dagRoot
      BY <1>0, <2>0, <2>3 DEF LoadMeta, Step, Putting
    <3>2. dagRoot = NoRoot
      BY <2>3 DEF LoadMeta, Step, DataHolds, Suspended, Core, RootOK
    <3> QED
      BY <2>0, <3>1, <3>2 DEF Remembered, Settled, PutLinked, MetaSaved
  <2>4. CASE LoadGet
    <3>1. ~Putting' /\ dagMeta' = dagMeta /\ dagRoot' = store[dagMeta.cidlatest]
      BY <1>0, <2>0, <2>4 DEF LoadGet, Step, Putting
    <3>2. dagMeta.cidlatest # NoCid
      BY <2>4 DEF LoadGet, Step, DataHolds, Suspended
    <3>3. MetaSaved'
      BY <1>0, <2>0, <3>1, MetaSavedKept DEF Remembered
    <3> QED
      BY <2>0, <3>1, <3>2, <3>3 DEF Remembered, Settled, PutLinked
  <2>5. CASE LoadGetFailed \/ LoadUnparsed
    <3>1. ~Putting' /\ UNCHANGED <<dagMeta, dagRoot>>
      BY <1>0, <2>0, <2>5 DEF LoadGetFailed, LoadUnparsed, Step, Putting, memory
    <3>2. Settled' /\ PutLinked'
      BY <2>0, <2>1, <3>1, SettledKept DEF Remembered
    <3> QED
      BY <1>0, <2>0, <3>1, <3>2, MetaSavedKept DEF Remembered
  <2> QED
    BY <1>2, <2>2, <2>3, <2>4, <2>5 DEF Load
<1>3. CASE SaveStart \/ SaveNoRoot
  <2>1. /\ UNCHANGED <<dagRoot, dagMeta, put, store, mfsMeta>>
        /\ pc[Saver] \in {"idle", "wait"} /\ pc'[Saver] \in {"idle", "wait"}
        /\ \A t \in Tasks \ {Saver} : pc'[t] = pc[t]
    BY <1>0, <1>3 DEF SaveStart, SaveNoRoot, Step, memory, saving, disk
  <2>2. MetaSaved'
    <3>1. \A t \in Tasks : pc[t] \in {"meta", "rwmeta"} => pc'[t] = pc[t]
      BY <2>1
    <3> QED
      BY <2>1, <3>1, MetaSavedKept DEF Remembered
  <2>3. Putting' <=> Putting
    BY <1>0, <2>1 DEF Putting
  <2>4. SaveStart => SaveToCome'
    BY <1>0 DEF SaveStart, Step, SaveToCome
  <2>5. SaveNoRoot => dagRoot = NoRoot
    BY DEF SaveNoRoot
  <2>6. Settled'
    BY <1>3, <2>1, <2>4, <2>5 DEF Settled
  <2> QED
    BY <2>1, <2>2, <2>3, <2>6 DEF Remembered, PutLinked
<1>4. CASE PortalExpires
  BY <1>1, <1>4 DEF PortalExpires, memory, saving, disk
<1>5. CASE Crash
  <2>1. dagRoot' = NoRoot /\ dagMeta' = NoMeta /\ pc' = StartPc
    BY <1>5 DEF Crash
  <2>2. ~Putting'
    BY <1>0, <2>1 DEF Putting, StartPc
  <2> QED
    BY <2>1, <2>2 DEF Remembered, Settled, PutLinked, MetaSaved
<1>6. ASSUME NEW s \in Savers, Save(s) PROVE Remembered'
  <2>0. /\ s \in Tasks /\ \A t \in Tasks \ {s} : pc'[t] = pc[t]
        /\ pending' = pending /\ pc'[s] # pc[s]
    BY <1>0, <1>6 DEF Save, SaveLocked, PutDone, PutFailed, SaveDone, Step, AfterSave, saving
  <2>1. CASE SaveLocked(s)
    <3>1. /\ dagRoot' = Linked(dagRoot, dagMeta.cidlatest) /\ put' = dagRoot'
          /\ UNCHANGED <<dagMeta, store, mfsMeta>> /\ pc[s] = "wait" /\ pc'[s] = "put"
          /\ dagRoot # NoRoot
      BY <1>0, <2>1 DEF SaveLocked, Step, disk
    <3>2. Putting'
      BY <3>1 DEF Putting
    <3>3. dagRoot'.prev = dagMeta.cidlatest
      <4>1. dagMeta.cidlatest = NoCid => dagRoot.prev = NoCid
        BY <3>1 DEF DataHolds, Core, RootOK
      <4> QED
        BY <1>a, <3>1, <4>1 DEF Linked, Content
    <3>4. MetaSaved'
      BY <2>0, <3>1, MetaSavedKept DEF Remembered
    <3> QED
      BY <3>1, <3>2, <3>3, <3>4 DEF Remembered, Settled, PutLinked
  <2>2. CASE PutDone(s)
    <3>1. PICK cid \in Cids : Put(put, cid) /\ dagMeta'.cidlatest = cid
      BY <2>2 DEF PutDone
    <3>2. /\ dagRoot' = dagRoot /\ pc[s] = "put" /\ pc'[s] = "meta"
      BY <1>0, <2>2 DEF PutDone, Step
    <3>3. ~Putting'
      <4>1. \A t \in Tasks : pc[t] = "put" => t = s
        BY <1>b, <2>0, <3>2 DEF WriteSection
      <4> QED
        BY <1>0, <2>0, <3>2, <4>1 DEF Putting
    <3>4. store'[cid] = put /\ cid # NoCid
      <4>1. put \in Content
        BY <3>2 DEF DataHolds, Suspended, PutOK
      <4> QED
        BY <1>a, <3>1, <4>1 DEF Put, Cids, NoCid
    <3>5. SaveToCome => SaveToCome'
      BY <1>0, <2>0, <3>2 DEF SaveToCome
    <3>6. Putting /\ ~SaveFailed
      BY <3>2 DEF Putting, SaveFailed
    <3>7. Settled'
      BY <3>1, <3>2, <3>3, <3>4, <3>5, <3>6 DEF Remembered, Settled
    <3>8. MetaSaved'
      BY <2>0, <3>2 DEF MetaSaved
    <3> QED
      BY <3>3, <3>7, <3>8 DEF Remembered, PutLinked
  <2>3. CASE PutFailed(s)
    <3>1. /\ UNCHANGED <<dagRoot, dagMeta, store, mfsMeta>> /\ pc[s] = "put" /\ pc'[s] \notin {"put", "wait"}
      BY <1>0, <2>3 DEF PutFailed, Step, AfterSave, memory, disk
    <3>2. ~Putting'
      <4>1. \A t \in Tasks : pc[t] = "put" => t = s
        BY <1>b, <2>0, <3>1 DEF WriteSection
      <4> QED
        BY <1>0, <2>0, <3>1, <4>1 DEF Putting
    <3>3. dagRoot.prev = dagMeta.cidlatest
      BY <3>1 DEF Remembered, PutLinked, Putting
    <3>4. SaveFailed'
      BY <3>1, <3>2, <3>3 DEF SaveFailed, Putting
    <3>5. MetaSaved'
      BY <2>0, <3>1, MetaSavedKept DEF Remembered
    <3> QED
      BY <3>2, <3>4, <3>5 DEF Remembered, Settled, PutLinked
  <2>4. CASE SaveDone(s)
    <3>1. /\ UNCHANGED <<dagRoot, dagMeta, put, store>> /\ pc[s] = "meta" /\ pc'[s] \in {"done", "idle"}
          /\ mfsMeta' = dagMeta
      BY <1>0, <2>4 DEF SaveDone, Step, AfterSave, MetaWritten, memory, saving
    <3>2. (Putting' <=> Putting) /\ (SaveToCome => SaveToCome')
      BY <1>0, <2>0, <3>1 DEF Putting, SaveToCome
    <3>3. Settled' /\ PutLinked'
      BY <3>1, <3>2, SettledKept DEF Remembered
    <3> QED
      BY <3>1, <3>3 DEF Remembered, MetaSaved
  <2> QED
    BY <1>6, <2>1, <2>2, <2>3, <2>4 DEF Save
<1>7. ASSUME NEW e \in Editors, Edit(e) PROVE Remembered'
  <2>0. /\ UNCHANGED <<dagMeta, put, store, mfsMeta>>
        /\ \A t \in Tasks \ {e} : pc'[t] = pc[t]
        /\ pc[e] \in {"idle", "wait", "edit"}
    BY <1>0, <1>7 DEF Edit, Enter, EditLocked, EditNoRoot, EditDone, EndEdit, BeginEdit, Step, memory, saving, disk
  <2>1. /\ \A s \in Savers : pc'[s] = pc[s]
        /\ \A t \in Tasks : pc[t] \in {"meta", "rwmeta"} => pc'[t] = pc[t]
    BY <1>0, <2>0
  <2>2. CASE Enter(e)
    BY <1>1, <2>0, <2>1, <2>2 DEF Enter, memory, saving
  <2>3. CASE EditNoRoot(e)
    BY <1>1, <2>0, <2>1, <2>3 DEF EditNoRoot, EndEdit, memory
  <2>4. CASE EditLocked(e)
    <3>1. dagRoot' = [dagRoot EXCEPT !.edits = @ \union {editOf[e]}] /\ pending' = pending
          /\ dagRoot \in Content /\ dagRoot # NoRoot
      BY <1>a, <2>4 DEF EditLocked, saving
    <3>2. dagRoot'.prev = dagRoot.prev /\ dagRoot'.whole = dagRoot.whole
      BY <3>1 DEF Content
    <3> QED
      BY <1>1, <2>0, <2>1, <3>1, <3>2
  <2>5. CASE EditDone(e)
    <3>1. dagRoot' = dagRoot \/ dagRoot' = [dagRoot EXCEPT !.whole = @ \union {editOf[e]}]
      BY <2>5 DEF EditDone
    <3>2. pending' = pending + 1
      BY <2>5 DEF EditDone, EndEdit
    <3>3. dagRoot # NoRoot /\ dagRoot \in Content
      BY <1>a, <2>5 DEF EditDone, Step, DataHolds, Suspended
    <3>4. dagRoot'.prev = dagRoot.prev
      BY <3>1, <3>3 DEF Content
    <3> QED
      BY <1>1, <2>0, <2>1, <3>2, <3>3, <3>4
  <2> QED
    BY <1>7, <2>2, <2>3, <2>4, <2>5 DEF Edit
<1>8. ASSUME NEW a \in Appenders, AppendImage(a) PROVE Remembered'
  <2>0. /\ UNCHANGED <<dagMeta, put, store, mfsMeta>>
        /\ \A t \in Tasks \ {a} : pc'[t] = pc[t]
        /\ pc[a] \in {"idle", "append"}
    BY <1>0, <1>8 DEF AppendImage, AppendStart, AppendDone, EndEdit, Step, saving, disk
  <2>1. /\ \A s \in Savers : pc'[s] = pc[s]
        /\ \A t \in Tasks : pc[t] \in {"meta", "rwmeta"} => pc'[t] = pc[t]
    BY <1>0, <2>0
  <2>2. CASE AppendStart(a)
    <3>1. dagRoot' = [dagRoot EXCEPT !.edits = @ \union {nEdits + 1}] /\ pending' = pending
          /\ dagRoot \in Content /\ dagRoot # NoRoot
      BY <1>a, <2>2 DEF AppendStart, saving
    <3>2. dagRoot'.prev = dagRoot.prev /\ dagRoot'.whole = dagRoot.whole
      BY <3>1 DEF Content
    <3> QED
      BY <1>1, <2>0, <2>1, <3>1, <3>2
  <2>3. CASE AppendDone(a)
    <3>1. /\ dagRoot' = [dagRoot EXCEPT !.whole = @ \union ({editOf[a]} \intersect dagRoot.edits)]
          /\ pending' = pending + 1
      BY <2>3 DEF AppendDone, EndEdit
    <3>2. dagRoot # NoRoot /\ dagRoot \in Content
      BY <1>a, <2>3 DEF AppendDone, Step, DataHolds, Suspended
    <3>3. dagRoot'.prev = dagRoot.prev
      BY <3>1, <3>2 DEF Content
    <3> QED
      BY <1>1, <2>0, <2>1, <3>1, <3>2, <3>3
  <2> QED
    BY <1>8, <2>2, <2>3 DEF AppendImage
<1>9. ASSUME NEW w \in Rewinders, Rewind(w) PROVE Remembered'
  <2>0. /\ w \in Tasks /\ \A t \in Tasks \ {w} : pc'[t] = pc[t]
        /\ \A s \in Savers : pc'[s] = pc[s]
        /\ UNCHANGED <<pending, put, store>>
    BY <1>0, <1>9 DEF Rewind, RewindCall, RewindLocked, RewindRaised, RewindGot, RewindDone, Step, saving, disk
  <2>1. (Putting' <=> Putting) /\ (SaveToCome => SaveToCome')
    BY <2>0 DEF Putting, SaveToCome
  <2>2. CASE RewindCall(w) \/ RewindLocked(w) \/ RewindRaised(w)
    <3>1. UNCHANGED <<dagRoot, dagMeta, mfsMeta>> /\ pc[w] \notin {"meta", "rwmeta"}
      BY <2>2 DEF RewindCall, RewindLocked, RewindRaised, Step, memory, disk
    <3> QED
      BY <1>1, <2>0, <3>1
  <2>3. CASE RewindGot(w)
    <3>1. /\ pc[w] = "rwget" /\ pc'[w] = "rwmeta"
          /\ dagMeta'.cidlatest = Head(dagMeta.history) /\ dagRoot' = store[Head(dagMeta.history)]
      BY <1>0, <2>0, <2>3 DEF RewindGot, Step
    <3>2. ~Putting
      BY <1>0, <1>b, <2>0, <3>1 DEF Putting, WriteSection
    <3>3. Head(dagMeta.history) # NoCid
      <4>1. Len(dagMeta.history) >= 2
        BY <3>1 DEF DataHolds, Suspended
      <4>2. dagMeta # NoMeta
        BY <4>1 DEF NoMeta
      <4>3. dagMeta.history \in Seq(Cids)
        BY <4>2 DEF DataHolds, Core, MetaIn, Meta
      <4>4. Head(dagMeta.history) \in Cids
        BY <4>1, <4>3
      <4> QED
        BY <4>4 DEF Cids, NoCid
    <3>4. MetaSaved'
      BY <2>0, <3>1 DEF MetaSaved
    <3> QED
      BY <2>0, <2>1, <3>1, <3>2, <3>3, <3>4 DEF Remembered, Settled, PutLinked
  <2>4. CASE RewindDone(w)
    <3>1. UNCHANGED <<dagRoot, dagMeta>> /\ mfsMeta' = dagMeta
      BY <2>4 DEF RewindDone, MetaWritten, memory
    <3>2. Settled' /\ PutLinked'
      BY <2>0, <2>1, <3>1, SettledKept DEF Remembered
    <3> QED
      BY <3>1, <3>2 DEF Remembered, MetaSaved
  <2> QED
    BY <1>9, <2>2, <2>3, <2>4 DEF Rewind
<1>10. ASSUME NEW r \in Readers, Read(r) PROVE Remembered'
  <2>1. /\ UNCHANGED <<dagRoot, dagMeta, put, store, mfsMeta, pending>>
        /\ \A t \in Tasks \ {r} : pc'[t] = pc[t]
        /\ pc[r] \notin {"meta", "rwmeta"}
    BY <1>0, <1>10 DEF Read, ReadCall, ReadLocked, ReadLoaded, ReadLoadFailed, ReadDone, Step,
                       memory, saving, disk
  <2>2. \A s \in Savers : pc'[s] = pc[s]
    BY <1>0, <2>1
  <2>3. \A t \in Tasks : pc[t] \in {"meta", "rwmeta"} => pc'[t] = pc[t]
    BY <2>1
  <2> QED
    BY <1>1, <2>1, <2>2, <2>3
<1>11. CASE UNCHANGED vars
  BY <1>1, <1>11 DEF vars, memory, saving, disk
<1> QED
  BY <1>2, <1>3, <1>4, <1>5, <1>6, <1>7, <1>8, <1>9, <1>10, <1>11 DEF Next

LEMMA RememberedInit == Init => Remembered
BY TasksAssumption DEF Init, Remembered, Settled, PutLinked, MetaSaved, Putting, StartPc, Tasks, Savers

(* A completed edit is recorded, is being saved, or has a save to come,      *)
(* however edits, saves, rewinds and restarts overlap; only a failed put     *)
(* leaves it to a later save.  The metadata file must be writable.           *)
THEOREM EditsAreRemembered ==
    ASSUME "metawrite" \notin Faults PROVE Spec => []NoEditForgotten
<1>1. DataHolds /\ Remembered => NoEditForgotten
  <2> SUFFICES ASSUME DataHolds, Remembered, NEW i \in dagRoot.whole, ~SaveToCome, ~SaveFailed
               PROVE  Written(i) \/ BeingSaved(i)
    BY DEF NoEditForgotten
  <2>1. dagRoot # NoRoot
    BY DEF NoRoot
  <2>2. CASE Putting
    BY <2>1, <2>2 DEF Remembered, Settled, Putting, BeingSaved
  <2>3. CASE ~Putting
    <3>1. dagMeta.cidlatest # NoCid /\ i \in store[dagMeta.cidlatest].whole
      BY <2>1, <2>3 DEF Remembered, Settled
    <3>2. dagMeta # NoMeta
      BY <2>1 DEF DataHolds, Core, RootOK
    <3>3. CASE \E t \in Tasks : pc[t] \in {"meta", "rwmeta"}
      BY <3>1, <3>3 DEF BeingSaved
    <3>4. CASE mfsMeta = dagMeta
      BY <3>1, <3>2, <3>4 DEF Written
    <3> QED
      BY <3>1, <3>2, <3>3, <3>4 DEF Remembered, MetaSaved
  <2> QED
    BY <2>2, <2>3
<1>2. DataHolds /\ Remembered /\ [Next]_vars => Remembered'
  BY RememberedStep
<1> QED
  BY <1>1, <1>2, RememberedInit, DataInvariant, PTL DEF Spec

=============================================================================
