-------------------------------- MODULE EDag --------------------------------
(* EvolvingDAG (galacteek/ipfs/dag.py): a mutable document kept as a chain   *)
(* of immutable IPLD objects.  The document is a Python object in memory     *)
(* (dagRoot); a save puts it in the object store and records its CID, with   *)
(* the CIDs it replaces, in a metadata file of the MFS.  A readers-writer    *)
(* lock orders the coroutines that edit, save, rewind and read it.           *)
(*                                                                           *)
(* One action is the code that runs between two suspension points of one     *)
(* coroutine; all coroutines run in one event loop.                          *)
EXTENDS Integers, Sequences, FiniteSets

CONSTANTS
    Editors,    \* coroutines that edit inside `async with dag`
    Appenders,  \* coroutines that mutate dag.root without the lock
    Rewinders,  \* coroutines that call rewind()
    Readers,    \* coroutines that read inside `async with dag.read()`
    Saver,      \* runs the ipfsSave() calls that the signal changed starts
    Loader,     \* runs loadDag()
    Nobody,
    Faults,     \* what may go wrong, a subset of FaultKinds
    MaxItems,   \* dagMetaHistoryMax
    MaxEdits,   \* bound: edits made, counting across restarts
    MaxCids     \* bound: objects put in the store

FaultKinds == {"raise",      \* the body of an `async with dag` raises
               "put",        \* dagPut() gives no CID
               "get",        \* dagGet() times out or raises
               "metaread",   \* reading the metadata file fails
               "metawrite",  \* writing the metadata file fails
               "crash"}      \* the application stops and is started again

Savers == {Saver, Loader}
Tasks  == Editors \union Appenders \union Rewinders \union Readers \union Savers

ASSUME TasksAssumption ==
    /\ Nobody \notin Tasks
    /\ Saver # Loader
    /\ Editors   \intersect (Appenders \union Rewinders \union Readers \union Savers) = {}
    /\ Appenders \intersect (Rewinders \union Readers \union Savers) = {}
    /\ Rewinders \intersect (Readers \union Savers) = {}
    /\ Readers   \intersect Savers = {}
ASSUME BoundsAssumption ==
    /\ Faults \subseteq FaultKinds
    /\ MaxItems \in Nat /\ MaxEdits \in Nat /\ MaxCids \in Nat

VARIABLES
    pc,       \* where each coroutine is suspended
    editOf,   \* the edit a coroutine is making
    nEdits,   \* edits started so far (they name the edits)
    dagRoot,  \* the document in memory
    dagMeta,  \* the metadata in memory
    loaded,   \* the future `loaded` is resolved
    pending,  \* ipfsSave() coroutines scheduled by the signal changed
    put,      \* the object a dagPut() in flight serialised
    writer,   \* holder of the write lock
    readers,  \* holders of the read lock
    portal,   \* the portal that read() has in its cache
    view,     \* the portal a reader uses
    store,    \* IPFS: the object with CID c is store[c]
    mfsMeta   \* the metadata file in the MFS

memory  == <<dagRoot, dagMeta>>
edits   == <<editOf, nEdits>>
portals == <<portal, view>>
saving  == <<pending, put>>
disk    == <<store, mfsMeta>>
lock    == <<writer, readers>>
vars    == <<pc, edits, memory, loaded, saving, lock, portals, disk>>

-----------------------------------------------------------------------------
(* Data.  An edit changes two places of the document with a suspension point *)
(* in between: after the first it is in `edits`, after the second in `whole`.*)
(* `prev` is the IPLD link 'previous'.                                       *)
EditIds == 1..MaxEdits
NoCid   == 0
Cids    == 1..MaxCids
Content == [edits : SUBSET EditIds, whole : SUBSET EditIds, prev : 0..MaxCids]
NoRoot  == [edits |-> {}, whole |-> {}, prev |-> -1]
NewRoot == [edits |-> {}, whole |-> {}, prev |-> NoCid]
Meta    == [cidlatest : 0..MaxCids, history : Seq(Cids)]
NoMeta  == [cidlatest |-> -1, history |-> <<>>]
NewMeta == [cidlatest |-> NoCid, history |-> <<>>]
(* A portal is a Python object: two that are equal are not the same one.  `id` *)
(* tells them apart.                                                         *)
Portal  == [id : Readers, cid : 0..MaxCids, live : BOOLEAN, root : Content \union {NoRoot}]
NoPortal == [id |-> Nobody, cid |-> -1, live |-> FALSE, root |-> NoRoot]

WriteSection == {"edit", "put", "meta", "rwget", "rwmeta"}
ReadSection  == {"rload", "read", "leaked"} \* leaked: __aenter__ raised, and __aexit__ is not run

-----------------------------------------------------------------------------
(* A coroutine goes from one suspension point to the next. *)
Step(t, from, to) == pc[t] = from /\ pc' = [pc EXCEPT ![t] = to]

(* The operators named ..Mutant are faulty variants of the definition that    *)
(* follows: each shows that a property notices that fault.                   *)
CanWriteBesideReadersMutant == writer = Nobody
CanWriteBesideWriterMutant  == readers = {}
CanReadBesideWriterMutant   == TRUE
ReleaseForgottenMutant      == UNCHANGED lock

(* aiorwlock.RWLock: a waiting writer keeps new readers out. *)
CanWrite == writer = Nobody /\ readers = {}
CanRead  == writer = Nobody /\ \A t \in Tasks : pc[t] # "wait"
Release  == writer' = Nobody /\ UNCHANGED readers

(* What a started application has in memory. *)
StartPc   == [t \in Tasks |-> IF t = Loader THEN "start" ELSE "idle"]
NoEdits   == [t \in Editors \union Appenders |-> 0]
NoViews   == [r \in Readers |-> NoPortal]

Init ==
    /\ pc = StartPc /\ editOf = NoEdits /\ nEdits = 0
    /\ dagRoot = NoRoot /\ dagMeta = NoMeta /\ loaded = FALSE
    /\ pending = 0 /\ put = NoRoot
    /\ writer = Nobody /\ readers = {}
    /\ portal = NoPortal /\ view = NoViews
    /\ store = <<>> /\ mfsMeta = NoMeta

-----------------------------------------------------------------------------
(* loadDag() *)

(* There is no metadata, or it cannot be read: filesReadJsonObject() gives   *)
(* None for both.  The document is initialised and saved.                    *)
LoadFresh ==
    /\ Step(Loader, "start", "wait")
    /\ mfsMeta = NoMeta \/ "metaread" \in Faults
    /\ dagMeta' = NewMeta /\ dagRoot' = NewRoot
    /\ UNCHANGED <<edits, loaded, saving, lock, portals, disk>>

(* The metadata file holds no JSON: filesReadJsonObject() raises, `loaded` is *)
(* never resolved.                                                           *)
LoadUnparsed ==
    /\ "metaread" \in Faults
    /\ Step(Loader, "start", "failed")
    /\ mfsMeta # NoMeta
    /\ UNCHANGED <<edits, memory, loaded, saving, lock, portals, disk>>

LoadMeta ==
    /\ Step(Loader, "start", "get")
    /\ mfsMeta # NoMeta
    /\ dagMeta' = mfsMeta
    /\ UNCHANGED <<edits, dagRoot, loaded, saving, lock, portals, disk>>

(* updateDagSchema() tells whether it changed the document. *)
LoadGet ==
    /\ \E schemaChanged \in BOOLEAN :
          /\ Step(Loader, "get", IF schemaChanged THEN "wait" ELSE "done")
          /\ loaded' = ~schemaChanged
    /\ dagRoot' = store[dagMeta.cidlatest]
    /\ UNCHANGED <<edits, dagMeta, saving, lock, portals, disk>>

LoadEmptyOnTimeoutMutant ==
    /\ "get" \in Faults
    /\ Step(Loader, "get", "done") /\ loaded' = TRUE /\ dagRoot' = NewRoot
    /\ UNCHANGED <<edits, dagMeta, saving, lock, portals, disk>>

(* dagGet() timed out: the DAG is declared loaded, without a document; or    *)
(* dagGet() raised: `loaded` is never resolved.                              *)
LoadGetFailed ==
    /\ "get" \in Faults
    /\ \/ Step(Loader, "get", "done") /\ loaded' = TRUE
       \/ Step(Loader, "get", "failed") /\ UNCHANGED loaded
    /\ UNCHANGED <<edits, memory, saving, lock, portals, disk>>

-----------------------------------------------------------------------------
(* ipfsSave(), called by the signal changed (Saver) or by loadDag() (Loader) *)

SkipBusyMutant ==
    /\ pc[Saver] = "idle" /\ pending > 0 /\ pending' = pending - 1
    /\ pc' = IF writer = Nobody THEN [pc EXCEPT ![Saver] = "wait"] ELSE pc
    /\ UNCHANGED <<edits, memory, loaded, put, lock, portals, disk>>

(* The signal starts an ipfsSave() coroutine of its own for each emission. *)
SaveStart ==
    /\ Step(Saver, "idle", "wait")
    /\ pending > 0 /\ pending' = pending - 1
    /\ UNCHANGED <<edits, memory, loaded, put, lock, portals, disk>>

AfterSave(s) == IF s = Loader THEN "done" ELSE "idle"
LoadedBy(s)  == loaded' = (loaded \/ s = Loader)

UnlinkedMutant(root, prevCid) == root

(* The document as ipfsSave() serialises it. *)
Linked(root, prevCid) ==
    IF prevCid # NoCid THEN [root EXCEPT !.prev = prevCid] ELSE root

SaveLocked(s) ==
    /\ Step(s, "wait", "put")
    /\ CanWrite /\ writer' = s
    /\ dagRoot # NoRoot
    /\ dagRoot' = Linked(dagRoot, dagMeta.cidlatest) /\ put' = dagRoot'
    /\ UNCHANGED <<edits, dagMeta, loaded, pending, readers, portals, disk>>

(* dagRoot is None: setting the link raises and the save is abandoned. *)
SaveNoRoot ==
    /\ Step(Saver, "wait", "idle")
    /\ CanWrite /\ dagRoot = NoRoot
    /\ UNCHANGED <<edits, memory, loaded, saving, lock, portals, disk>>

PushNoCidMutant(history, prevCid)     == <<prevCid>> \o history
PushLastMutant(history, prevCid)      == IF prevCid = NoCid THEN history ELSE Append(history, prevCid)
PushUnboundedMutant(history, prevCid) == IF prevCid = NoCid THEN history ELSE <<prevCid>> \o history

(* The history that records prevCid as the version just replaced. *)
Push(history, prevCid) ==
    IF prevCid = NoCid \/ (\E i \in DOMAIN history : history[i] = prevCid)
    THEN history
    ELSE <<prevCid>> \o
         (IF Len(history) > MaxItems THEN SubSeq(history, 1, MaxItems) ELSE history)

PutUnstoredMutant(object, cid) == cid = Len(store) + 1 /\ UNCHANGED store

(* CIDs are content addresses: an object is stored once. *)
Put(object, cid) ==
    \/ cid \in DOMAIN store /\ store[cid] = object /\ UNCHANGED store
    \/ /\ \A c \in DOMAIN store : store[c] # object
       /\ cid = Len(store) + 1 /\ cid <= MaxCids
       /\ store' = Append(store, object)

(* dagPut() returns a CID; saveNewCid() sets it and starts the MFS write. *)
PutDone(s) ==
    /\ Step(s, "put", "meta")
    /\ \E cid \in Cids :
          /\ Put(put, cid)
          /\ dagMeta' = [cidlatest |-> cid,
                         history |-> Push(dagMeta.history, dagMeta.cidlatest)]
    /\ put' = NoRoot
    /\ UNCHANGED <<edits, dagRoot, loaded, pending, lock, portals, mfsMeta>>

(* dagPut() returned None: the edits stay in memory until the next save.  A  *)
(* lost connection raises instead, which also ends loadDag().                *)
PutFailed(s) ==
    /\ "put" \in Faults
    /\ \/ Step(s, "put", AfterSave(s)) /\ LoadedBy(s)
       \/ s = Loader /\ Step(s, "put", "failed") /\ UNCHANGED loaded
    /\ put' = NoRoot
    /\ Release
    /\ UNCHANGED <<edits, memory, pending, portals, disk>>

(* filesWriteJsonObject() replaces the metadata file, or fails unnoticed. *)
MetaWritten ==
    \/ mfsMeta' = dagMeta
    \/ "metawrite" \in Faults /\ UNCHANGED mfsMeta

SaveDone(s) ==
    /\ Step(s, "meta", AfterSave(s))
    /\ MetaWritten
    /\ Release
    /\ LoadedBy(s)
    /\ UNCHANGED <<edits, memory, saving, portals, store>>

-----------------------------------------------------------------------------
(* `async with dag as d: ...` *)

BeginEdit(t) ==
    /\ loaded
    /\ nEdits < MaxEdits /\ nEdits' = nEdits + 1
    /\ editOf' = [editOf EXCEPT ![t] = nEdits + 1]

EndEditUnsavedMutant(t) == editOf' = [editOf EXCEPT ![t] = 0] /\ UNCHANGED <<pending, nEdits>>

EndEdit(t) ==
    /\ pending' = pending + 1
    /\ editOf' = [editOf EXCEPT ![t] = 0]
    /\ UNCHANGED nEdits

Enter(e) ==
    /\ Step(e, "idle", "wait")
    /\ BeginEdit(e)
    /\ UNCHANGED <<memory, loaded, saving, lock, portals, disk>>

EditLocked(e) ==
    /\ Step(e, "wait", "edit")
    /\ CanWrite /\ writer' = e
    /\ dagRoot # NoRoot
    /\ dagRoot' = [dagRoot EXCEPT !.edits = @ \union {editOf[e]}]
    /\ UNCHANGED <<edits, dagMeta, loaded, saving, readers, portals, disk>>

(* dagRoot is None: the body raises; __aexit__ still asks for a save. *)
EditNoRoot(e) ==
    /\ Step(e, "wait", "idle")
    /\ CanWrite /\ dagRoot = NoRoot
    /\ EndEdit(e)
    /\ UNCHANGED <<memory, loaded, put, lock, portals, disk>>

(* The body may raise half way: __aexit__ ignores the exception it is given. *)
EditDone(e) ==
    /\ Step(e, "edit", "idle")
    /\ \/ dagRoot' = [dagRoot EXCEPT !.whole = @ \union {editOf[e]}]
       \/ "raise" \in Faults /\ UNCHANGED dagRoot
    /\ Release
    /\ EndEdit(e)
    /\ UNCHANGED <<dagMeta, loaded, put, portals, disk>>

(* analyzeImageObject(): the image is appended to dag.root, the index is     *)
(* rendered, then the signal changed is emitted; the lock is never taken.    *)
AppendStart(a) ==
    /\ Step(a, "idle", "append")
    /\ BeginEdit(a)
    /\ dagRoot # NoRoot
    /\ dagRoot' = [dagRoot EXCEPT !.edits = @ \union {nEdits + 1}]
    /\ UNCHANGED <<dagMeta, loaded, saving, lock, portals, disk>>

AppendDone(a) ==
    /\ Step(a, "append", "idle")
    /\ dagRoot' = [dagRoot EXCEPT !.whole = @ \union ({editOf[a]} \intersect dagRoot.edits)]
    /\ EndEdit(a)
    /\ UNCHANGED <<dagMeta, loaded, put, lock, portals, disk>>

-----------------------------------------------------------------------------
(* rewind() *)

RewindCall(w) ==
    /\ Step(w, "idle", "wait")
    /\ loaded
    /\ UNCHANGED <<edits, memory, loaded, saving, lock, portals, disk>>

RewindLocked(w) ==
    /\ Step(w, "wait", "rwget")
    /\ CanWrite /\ writer' = w
    /\ Len(dagMeta.history) >= 2
    /\ UNCHANGED <<edits, memory, loaded, saving, readers, portals, disk>>

(* DAGRewindException: 'No DAG history', or 'Previous object unavailable' *)
RewindRaised(w) ==
    /\ \/ Step(w, "wait", "idle") /\ CanWrite /\ Len(dagMeta.history) < 2
       \/ Step(w, "rwget", "idle") /\ "get" \in Faults
    /\ Release
    /\ UNCHANGED <<edits, memory, loaded, saving, portals, disk>>

(* dagRoot is replaced: the portals handed out keep the object they have. *)
Frozen(p) == IF p.live THEN [p EXCEPT !.live = FALSE, !.root = dagRoot] ELSE p

RewindGot(w) ==
    /\ Step(w, "rwget", "rwmeta")
    /\ dagMeta' = [cidlatest |-> Head(dagMeta.history), history |-> Tail(dagMeta.history)]
    /\ dagRoot' = store[Head(dagMeta.history)]
    /\ portal' = Frozen(portal) /\ view' = [r \in Readers |-> Frozen(view[r])]
    /\ UNCHANGED <<edits, loaded, saving, lock, disk>>

(* pinUpdate() is called without unpinning: it changes nothing here. *)
RewindDone(w) ==
    /\ Step(w, "rwmeta", "idle")
    /\ MetaWritten
    /\ Release
    /\ UNCHANGED <<edits, memory, loaded, saving, portals, store>>

-----------------------------------------------------------------------------
(* `async with dag.read() as portal: ...` *)

(* The portal read() returns: the one in its cache, else a new one. *)
NewPortal(id) == [id |-> id, cid |-> dagMeta.cidlatest, live |-> dagRoot # NoRoot, root |-> NoRoot]
ReadPortal(p) ==
    \/ portal # NoPortal /\ p = portal
    \/ portal = NoPortal /\ \E id \in Readers :
          (\A q \in Readers : view[q].id # id) /\ p = NewPortal(id)

ReadCall(r) ==
    /\ Step(r, "idle", "rwait")
    /\ loaded
    /\ ReadPortal(portal') /\ view' = [view EXCEPT ![r] = portal']
    /\ UNCHANGED <<edits, memory, loaded, saving, lock, disk>>

HasRoot(p) == p.live \/ p.root # NoRoot

ReadLocked(r) ==
    /\ Step(r, "rwait", IF HasRoot(view[r]) THEN "read" ELSE "rload")
    /\ CanRead /\ readers' = readers \union {r}
    /\ UNCHANGED <<edits, memory, loaded, saving, writer, portals, disk>>

(* DAGPortal.load() assigns the portal's document: those who were given the  *)
(* same portal see it.                                                       *)
Assign(p, root) ==
    LET After(q) == IF q = p THEN [q EXCEPT !.root = root] ELSE q
    IN  portal' = After(portal) /\ view' = [q \in Readers |-> After(view[q])]

ReadLoaded(r) ==
    /\ Step(r, "rload", "read")
    /\ Assign(view[r], store[view[r].cid])
    /\ UNCHANGED <<edits, memory, loaded, saving, lock, disk>>

(* A timeout is assigned too, as None; an error that ipfsOp hides leaves the *)
(* document that another reader may have loaded meanwhile.                   *)
ReadLoadFailed(r) ==
    /\ "get" \in Faults
    /\ \/ Step(r, "rload", "leaked") /\ Assign(view[r], NoRoot)
       \/ Step(r, "rload", "leaked") /\ UNCHANGED portals
       \/ Step(r, "rload", "read") /\ HasRoot(view[r]) /\ UNCHANGED portals
    /\ UNCHANGED <<edits, memory, loaded, saving, lock, disk>>

ReadDone(r) ==
    /\ Step(r, "read", "idle")
    /\ readers' = readers \ {r}
    /\ view' = [view EXCEPT ![r] = NoPortal]
    /\ UNCHANGED <<edits, memory, loaded, saving, writer, portal, disk>>

(* The time to live of the cached portal has passed. *)
PortalExpires ==
    /\ portal # NoPortal /\ portal' = NoPortal
    /\ UNCHANGED <<pc, edits, memory, loaded, saving, lock, view, disk>>

-----------------------------------------------------------------------------
(* The application stops at any point and is started again. *)
Crash ==
    /\ "crash" \in Faults
    /\ pc[Loader] # "start"
    /\ pc' = StartPc /\ editOf' = NoEdits
    /\ dagRoot' = NoRoot /\ dagMeta' = NoMeta /\ loaded' = FALSE
    /\ pending' = 0 /\ put' = NoRoot
    /\ writer' = Nobody /\ readers' = {}
    /\ portal' = NoPortal /\ view' = NoViews
    /\ UNCHANGED <<nEdits, disk>>

Load == LoadFresh \/ LoadUnparsed \/ LoadMeta \/ LoadGet \/ LoadGetFailed
Save(s) == SaveLocked(s) \/ PutDone(s) \/ PutFailed(s) \/ SaveDone(s)
Edit(e) == Enter(e) \/ EditLocked(e) \/ EditNoRoot(e) \/ EditDone(e)
AppendImage(a) == AppendStart(a) \/ AppendDone(a)
Rewind(w) == \/ RewindCall(w) \/ RewindLocked(w) \/ RewindRaised(w)
             \/ RewindGot(w) \/ RewindDone(w)
Read(r) == ReadCall(r) \/ ReadLocked(r) \/ ReadLoaded(r) \/ ReadLoadFailed(r) \/ ReadDone(r)

Next ==
    \/ Load \/ SaveStart \/ SaveNoRoot \/ PortalExpires \/ Crash
    \/ \E s \in Savers : Save(s)
    \/ \E e \in Editors : Edit(e)
    \/ \E a \in Appenders : AppendImage(a)
    \/ \E w \in Rewinders : Rewind(w)
    \/ \E r \in Readers : Read(r)

Spec == Init /\ [][Next]_vars
=============================================================================
