-------------------------- MODULE EDagWholeProofs --------------------------
(* What the write lock is for, for any number of coroutines, any bounds and  *)
(* any faults but one: when every edit is made under the lock and no body    *)
(* raises half way, no version and no reader ever has half an edit.          *)
EXTENDS EDagProofs

Whole(x) == x.edits = x.whole
Editing  == \E e \in Editors : pc[e] = "edit"

(* The document is whole but while an editor is in the middle of its edit,   *)
(* and everything that was made from it is whole.                            *)
WholeOK ==
    /\ \A c \in DOMAIN store : Whole(store[c])
    /\ Whole(put)
    /\ \A e \in Editors : pc[e] = "edit" => dagRoot.edits = dagRoot.whole \union {editOf[e]}
    /\ ~Editing => Whole(dagRoot)
    /\ Whole(portal.root)
    /\ \A r \in Readers : Whole(view[r].root)

LEMMA WholeNulls == Whole(NoRoot) /\ Whole(NewRoot) /\ NoPortal.root = NoRoot
BY DEF Whole, NoRoot, NewRoot, NoPortal

LEMMA WholeInit == Init => WholeOK
<1> SUFFICES ASSUME Init PROVE WholeOK
  OBVIOUS
<1>1. \A e \in Editors : pc[e] # "edit"
  BY TasksAssumption DEF Init, StartPc, Tasks, Savers
<1>2. store = <<>> /\ put = NoRoot /\ dagRoot = NoRoot /\ portal = NoPortal
      /\ \A r \in Readers : view[r] = NoPortal
  BY DEF Init, NoViews
<1> QED
  BY <1>1, <1>2, WholeNulls DEF WholeOK

LEMMA WholeStep ==
    ASSUME Appenders = {}, "raise" \notin Faults
    PROVE  DataHolds /\ PortalsOK /\ WholeOK /\ [Next]_vars => WholeOK'
<1> SUFFICES ASSUME DataHolds, PortalsOK, WholeOK, [Next]_vars PROVE WholeOK'
  OBVIOUS
<1> USE TasksAssumption
<1>0. /\ pc \in [Tasks -> Labels]
      /\ Editors \subseteq Tasks /\ Rewinders \subseteq Tasks /\ Readers \subseteq Tasks
      /\ Savers \subseteq Tasks /\ Loader \in Savers
      /\ \A e \in Editors : e \notin Rewinders \union Readers \union Savers
  BY DEF DataHolds, Control, PcOK, Tasks, Savers
<1>a. editOf \in [Editors -> 0..MaxEdits] /\ view \in [Readers -> Portal \union {NoPortal}]
      /\ portal \in Portal \union {NoPortal} /\ dagRoot \in Content \union {NoRoot}
      /\ store \in Seq(Content)
  BY DEF DataHolds, EditsOK, PortalsOK, PortalIn, Core, RootOK, StoreOK
(* An editor in the middle of its edit holds the lock. *)
<1>b. \A e \in Editors : pc[e] = "edit" => writer = e
  BY <1>0 DEF DataHolds, Control, LockState, WriteSection
<1>1. ASSUME UNCHANGED <<dagRoot, put, store, portal, view>>,
             \A e \in Editors : /\ pc'[e] = "edit" <=> pc[e] = "edit"
                                /\ pc[e] = "edit" => editOf'[e] = editOf[e]
      PROVE  WholeOK'
  BY <1>1 DEF WholeOK, Editing
<1>2. ASSUME \A e \in Editors : pc'[e] # "edit", Whole(dagRoot)', Whole(put)', UNCHANGED <<store, portal, view>>
      PROVE  WholeOK'
  BY <1>2 DEF WholeOK, Editing, Whole
<1>3. CASE Load
  <2>1. \A e \in Editors : pc'[e] # "edit" /\ pc[e] # "edit"
    <3>1. pc[Loader] # "done"
      BY <1>3 DEF Load, LoadFresh, LoadUnparsed, LoadMeta, LoadGet, LoadGetFailed, Step
    <3>2. \A e \in Editors : pc[e] = "idle"
      BY <1>0, <3>1 DEF DataHolds, Control, Phases
    <3>3. \A e \in Editors : pc'[e] = pc[e]
      BY <1>0, <1>3 DEF Load, LoadFresh, LoadUnparsed, LoadMeta, LoadGet, LoadGetFailed, Step
    <3> QED
      BY <3>2, <3>3
  <2>2. UNCHANGED <<put, store, portal, view>>
    BY <1>3 DEF Load, LoadFresh, LoadUnparsed, LoadMeta, LoadGet, LoadGetFailed, saving, disk, portals
  <2>3. Whole(dagRoot)'
    <3>1. CASE LoadFresh
      BY <3>1, WholeNulls DEF LoadFresh
    <3>2. CASE LoadMeta \/ LoadUnparsed \/ LoadGetFailed
      BY <2>1, <3>2 DEF LoadMeta, LoadUnparsed, LoadGetFailed, memory, WholeOK, Editing, Whole
    <3>3. CASE LoadGet
      <4>1. dagMeta.cidlatest \in DOMAIN store
        <5>1. pc[Loader] = "get"
          BY <3>3 DEF LoadGet, Step
        <5> QED
          BY <5>1 DEF DataHolds, Suspended, Core, MetaIn
      <4> QED
        BY <3>3, <4>1 DEF LoadGet, WholeOK, Whole
    <3> QED
      BY <1>3, <3>1, <3>2, <3>3 DEF Load
  <2> QED
    BY <1>2, <2>1, <2>2, <2>3 DEF WholeOK, Whole
<1>4. CASE SaveStart \/ SaveNoRoot
  BY <1>0, <1>1, <1>4 DEF SaveStart, SaveNoRoot, Step, edits, memory, saving, portals, disk
<1>5. CASE PortalExpires
  BY <1>5, WholeNulls DEF PortalExpires, WholeOK, Editing, Whole, edits, memory, saving, disk
<1>6. CASE Crash
  <2>1. \A e \in Editors : pc'[e] # "edit"
    BY <1>0, <1>6 DEF Crash, StartPc
  <2>2. dagRoot' = NoRoot /\ put' = NoRoot /\ portal' = NoPortal /\ store' = store
        /\ \A r \in Readers : view'[r] = NoPortal
    BY <1>6 DEF Crash, NoViews, disk
  <2> QED
    BY <2>1, <2>2, WholeNulls DEF WholeOK, Editing, Whole
<1>7. ASSUME NEW s \in Savers, Save(s) PROVE WholeOK'
  <2>0. \A e \in Editors : pc'[e] = pc[e]
    BY <1>0, <1>7 DEF Save, SaveLocked, PutDone, PutFailed, SaveDone, Step
  <2>1. CASE SaveLocked(s)
    <3>1. /\ dagRoot' = Linked(dagRoot, dagMeta.cidlatest) /\ put' = dagRoot' /\ writer = Nobody
          /\ dagRoot # NoRoot /\ UNCHANGED <<store, portal, view>>
      BY <2>1 DEF SaveLocked, CanWrite, portals, disk
    <3>2. \A e \in Editors : pc[e] # "edit"
      BY <1>0, <1>b, <3>1
    <3>3. dagRoot'.edits = dagRoot.edits /\ dagRoot'.whole = dagRoot.whole
      BY <1>a, <3>1 DEF Linked, Content
    <3> QED
      BY <1>2, <2>0, <3>1, <3>2, <3>3 DEF WholeOK, Editing, Whole
  <2>2. CASE PutDone(s)
    <3>1. /\ store' = store \/ store' = Append(store, put)
          /\ UNCHANGED <<dagRoot, portal, view, editOf>> /\ put' = NoRoot
      BY <2>2 DEF PutDone, Put, edits, portals
    <3>2. \A c \in DOMAIN store' : Whole(store'[c])
      BY <1>a, <3>1 DEF WholeOK
    <3> QED
      BY <2>0, <3>1, <3>2, WholeNulls DEF WholeOK, Editing, Whole
  <2>3. CASE PutFailed(s)
    <3>1. put' = NoRoot /\ UNCHANGED <<dagRoot, store, portal, view, editOf>>
      BY <2>3 DEF PutFailed, edits, memory, portals, disk
    <3> QED
      BY <2>0, <3>1, WholeNulls DEF WholeOK, Editing, Whole
  <2>4. CASE SaveDone(s)
    BY <2>0, <2>4, <1>1 DEF SaveDone, edits, memory, saving, portals
  <2> QED
    BY <1>7, <2>1, <2>2, <2>3, <2>4 DEF Save
<1>8. ASSUME NEW e \in Editors, Edit(e) PROVE WholeOK'
  <2>0. UNCHANGED <<put, store, portal, view>>
    BY <1>8 DEF Edit, Enter, EditLocked, EditNoRoot, EditDone, EndEdit, saving, portals, disk
  <2>1. CASE Enter(e) \/ EditNoRoot(e)
    <3>1. dagRoot' = dagRoot
      BY <2>1 DEF Enter, EditNoRoot, memory
    <3>2. pc[e] # "edit" /\ pc'[e] # "edit" /\ \A f \in Editors \ {e} : pc'[f] = pc[f] /\ editOf'[f] = editOf[f]
      BY <1>0, <1>a, <2>1 DEF Enter, EditNoRoot, Step, BeginEdit, EndEdit
    <3> QED
      BY <1>1, <2>0, <3>1, <3>2
  <2>2. CASE EditLocked(e)
    <3>1. /\ dagRoot' = [dagRoot EXCEPT !.edits = @ \union {editOf[e]}] /\ editOf' = editOf
          /\ writer = Nobody /\ dagRoot # NoRoot /\ pc' = [pc EXCEPT ![e] = "edit"]
      BY <2>2 DEF EditLocked, CanWrite, Step, edits
    <3>2. \A f \in Editors : pc[f] # "edit"
      BY <1>0, <1>b, <3>1
    <3>3. dagRoot.edits = dagRoot.whole
      BY <3>2 DEF WholeOK, Editing, Whole
    <3>4. dagRoot'.edits = dagRoot'.whole \union {editOf[e]}
      BY <1>a, <3>1, <3>3 DEF Content
    <3>5. \A f \in Editors : pc'[f] = "edit" => f = e
      BY <1>0, <3>1, <3>2
    <3>6. Editing'
      BY <1>0, <3>1 DEF Editing
    <3> QED
      BY <2>0, <3>1, <3>4, <3>5, <3>6 DEF WholeOK, Whole
  <2>3. CASE EditDone(e)
    <3>1. /\ dagRoot' = [dagRoot EXCEPT !.whole = @ \union {editOf[e]}]
          /\ pc[e] = "edit" /\ pc' = [pc EXCEPT ![e] = "idle"]
      BY <2>3 DEF EditDone, Step
    <3>2. \A f \in Editors : pc'[f] # "edit"
      BY <1>0, <1>b, <3>1
    <3>3. dagRoot \in Content /\ dagRoot.edits = dagRoot.whole \union {editOf[e]}
      BY <1>a, <3>1 DEF WholeOK, DataHolds, Suspended
    <3>4. dagRoot'.edits = dagRoot'.whole
      BY <3>1, <3>3 DEF Content
    <3> QED
      BY <1>2, <2>0, <3>2, <3>4 DEF WholeOK, Whole
  <2> QED
    BY <1>8, <2>1, <2>2, <2>3 DEF Edit
<1>9. ASSUME NEW w \in Rewinders, Rewind(w) PROVE WholeOK'
  <2>0. (\A e \in Editors : pc'[e] = pc[e]) /\ UNCHANGED <<put, store, editOf>>
    BY <1>0, <1>9 DEF Rewind, RewindCall, RewindLocked, RewindRaised, RewindGot, RewindDone, Step,
                      edits, saving, disk
  <2>1. CASE RewindGot(w)
    <3>1. /\ pc[w] = "rwget" /\ dagRoot' = store[Head(dagMeta.history)]
          /\ portal' = Frozen(portal) /\ view' = [r \in Readers |-> Frozen(view[r])]
      BY <2>1 DEF RewindGot, Step
    <3>2. writer = w
      BY <1>0, <3>1 DEF DataHolds, Control, LockState, WriteSection
    <3>3. \A e \in Editors : pc[e] # "edit"
      BY <1>0, <1>b, <3>2
    <3>4. Head(dagMeta.history) \in DOMAIN store
      <4>1. Len(dagMeta.history) >= 2
        BY <3>1 DEF DataHolds, Suspended
      <4>2. dagMeta # NoMeta
        BY <4>1 DEF NoMeta
      <4>3. dagMeta.history \in Seq(Cids) /\ \A i \in DOMAIN dagMeta.history : dagMeta.history[i] \in DOMAIN store
        BY <4>2 DEF DataHolds, Core, MetaIn, Meta
      <4> QED
        BY <4>1, <4>3
    <3>5. Whole(dagRoot)'
      BY <3>1, <3>4 DEF WholeOK, Whole
    <3>6. ASSUME NEW p \in Portal \union {NoPortal}, Whole(p.root) PROVE Whole(Frozen(p).root)
      <4>1. CASE p.live
        <5>1. p \in Portal
          BY <4>1 DEF NoPortal
        <5>2. Frozen(p).root = dagRoot
          BY <4>1, <5>1 DEF Frozen, Portal
        <5> QED
          BY <3>3, <5>2 DEF WholeOK, Editing
      <4>2. CASE ~p.live
        BY <3>6, <4>2 DEF Frozen
      <4> QED
        BY <4>1, <4>2
    <3>7. Whole(portal.root)' /\ \A r \in Readers : Whole(view[r].root)'
      BY <1>a, <3>1, <3>6 DEF WholeOK, Whole
    <3> QED
      BY <2>0, <3>3, <3>5, <3>7 DEF WholeOK, Editing, Whole
  <2>2. CASE ~RewindGot(w)
    BY <1>1, <1>9, <2>0, <2>2
       DEF Rewind, RewindCall, RewindLocked, RewindRaised, RewindDone, memory, portals
  <2> QED
    BY <2>1, <2>2
<1>10. ASSUME NEW r \in Readers, Read(r) PROVE WholeOK'
  <2>0. (\A e \in Editors : pc'[e] = pc[e]) /\ UNCHANGED <<dagRoot, put, store, editOf>>
    BY <1>0, <1>10 DEF Read, ReadCall, ReadLocked, ReadLoaded, ReadLoadFailed, ReadDone, Step,
                       edits, memory, saving, disk
  <2>1. ASSUME Whole(portal'.root), \A q \in Readers : Whole(view'[q].root) PROVE WholeOK'
    BY <2>0, <2>1 DEF WholeOK, Editing, Whole
  <2>2. CASE ReadCall(r)
    <3>1. ReadPortal(portal') /\ view' = [view EXCEPT ![r] = portal']
      BY <2>2 DEF ReadCall
    <3>2. Whole(portal'.root)
      BY <3>1, WholeNulls DEF ReadPortal, NewPortal, WholeOK
    <3> QED
      BY <1>a, <2>1, <3>1, <3>2 DEF WholeOK
  <2>3. CASE UNCHANGED portals
    BY <2>1, <2>3 DEF portals, WholeOK
  <2>4. ASSUME NEW got, Assign(view[r], got), pc[r] = "rload", got \in {NoRoot, store[view[r].cid]}
        PROVE  WholeOK'
    <3> DEFINE After(p) == IF p = view[r] THEN [p EXCEPT !.root = got] ELSE p
    <3>1. portal' = After(portal) /\ view' = [q \in Readers |-> After(view[q])]
      BY <2>4 DEF Assign
    <3>2. view[r] \in Portal /\ view[r].cid \in DOMAIN store
      BY <2>4 DEF PortalsOK, PortalIn, Unloaded
    <3>a. Whole(got)
      BY <2>4, <3>2, WholeNulls DEF WholeOK
    <3>3. ASSUME NEW p, Whole(p.root) PROVE Whole(After(p).root)
      <4>1. CASE p = view[r]
        BY <3>2, <3>a, <4>1 DEF Portal
      <4> QED
        BY <3>3, <4>1
    <3> HIDE DEF After
    <3> QED
      BY <2>1, <3>1, <3>3 DEF WholeOK
  <2>5. CASE ReadDone(r)
    BY <1>a, <2>1, <2>5, WholeNulls DEF ReadDone, WholeOK
  <2> QED
    BY <1>0, <1>10, <2>2, <2>3, <2>4, <2>5
       DEF Read, ReadLocked, ReadLoaded, ReadLoadFailed, Step, portals
<1>11. CASE UNCHANGED vars
  BY <1>1, <1>11 DEF vars, edits, memory, saving, portals, disk
<1> QED
  BY <1>3, <1>4, <1>5, <1>6, <1>7, <1>8, <1>9, <1>10, <1>11 DEF Next

(* No version that is saved holds half an edit, when every edit is made      *)
(* inside `async with dag` and no body raises half way.                      *)
THEOREM VersionsAreWhole ==
    ASSUME Appenders = {}, "raise" \notin Faults PROVE Spec => []VersionsWhole
<1>1. DataHolds /\ PortalsOK /\ WholeOK /\ [Next]_vars => WholeOK'
  BY WholeStep
<1>2. WholeOK => VersionsWhole
  BY DEF WholeOK, VersionsWhole, Whole
<1> QED
  BY <1>1, <1>2, WholeInit, DataInvariant, PortalsHold, PTL DEF Spec

(* Under the same conditions a reader sees a whole document, be it the one   *)
(* in memory, one that a rewind replaced, or a version loaded by its CID; it *)
(* sees none only when a load of its portal has failed.                      *)
THEOREM ReadersSeeWholeDocuments ==
    ASSUME Appenders = {}, "raise" \notin Faults PROVE Spec => []ReadersSeeWhole
<1>1. DataHolds /\ PortalsOK /\ WholeOK /\ [Next]_vars => WholeOK'
  BY WholeStep
<1>2. DataHolds /\ PortalsOK /\ WholeOK => ReadersSeeWhole
  <2> SUFFICES ASSUME DataHolds, PortalsOK, WholeOK, NEW r \in Readers, pc[r] = "read"
               PROVE  Whole(Seen(r)) /\ (Seen(r) = NoRoot => Emptied(r))
    BY DEF ReadersSeeWhole, Whole
  <2>1. (HasRoot(view[r]) \/ Emptied(r)) /\ PortalIn(view[r], dagRoot, store) /\ view[r] # NoPortal
    BY DEF PortalsOK
  <2>2. CASE view[r].live
    <3>1. ~Editing
      BY TasksAssumption DEF DataHolds, Control, LockState, WriteSection, ReadSection, Editing, Tasks
    <3> QED
      BY <2>1, <2>2, <3>1 DEF Seen, PortalIn, WholeOK
  <2>3. CASE ~view[r].live
    BY <2>1, <2>3 DEF Seen, HasRoot, WholeOK
  <2> QED
    BY <2>2, <2>3
<1> QED
  BY <1>1, <1>2, WholeInit, DataInvariant, PortalsHold, PTL DEF Spec
=============================================================================
