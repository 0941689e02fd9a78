--------------------------- MODULE EDagProperties ---------------------------
(* What EvolvingDAG must guarantee (galacteek/ipfs/dag.py). *)
EXTENDS EDag

Labels == {"idle", "wait", "append", "rwait", "start", "get", "done", "failed"}
          \union WriteSection \union ReadSection

PcOK ==
    /\ pc \in [Tasks -> Labels]
    /\ \A e \in Editors   : pc[e] \in {"idle", "wait", "edit"}
    /\ \A a \in Appenders : pc[a] \in {"idle", "append"}
    /\ \A w \in Rewinders : pc[w] \in {"idle", "wait", "rwget", "rwmeta"}
    /\ \A r \in Readers   : pc[r] \in {"idle", "rwait"} \union ReadSection
    /\ pc[Saver]  \in {"idle", "wait", "put", "meta"}
    /\ pc[Loader] \in {"start", "get", "wait", "put", "meta", "done", "failed"}

(* The state of an EvolvingDAG, of its users and of the node that stores it. *)
TypeOK ==
    /\ PcOK
    /\ editOf \in [Editors \union Appenders -> 0..MaxEdits]
    /\ nEdits \in 0..MaxEdits
    /\ dagRoot \in Content \union {NoRoot}
    /\ dagMeta \in Meta \union {NoMeta}
    /\ loaded \in BOOLEAN
    /\ pending \in Nat
    /\ put \in Content \union {NoRoot}
    /\ writer \in Tasks \union {Nobody}
    /\ readers \subseteq Readers
    /\ portal \in Portal \union {NoPortal}
    /\ view \in [Readers -> Portal \union {NoPortal}]
    /\ store \in Seq(Content) /\ Len(store) <= MaxCids
    /\ mfsMeta \in Meta \union {NoMeta}

-----------------------------------------------------------------------------
(* The lock: at most one coroutine is inside a section that needs the write  *)
(* lock (an edit, a save, a rewind), and then no reader is inside.           *)
LockExclusion ==
    /\ \A t, u \in Tasks : pc[t] \in WriteSection /\ pc[u] \in WriteSection => t = u
    /\ \A t \in Tasks, r \in Readers :
          ~(pc[t] \in WriteSection /\ pc[r] \in ReadSection)

(* The history is the lineage: in memory and in the MFS, the CIDs recorded   *)
(* as history are the latest version's chain of 'previous' links, without a  *)
(* gap, whatever saves, rewinds, failures and restarts came before, so a     *)
(* rewind always goes to the version that was really replaced.               *)
Newer(m, i) == IF i = 1 THEN m.cidlatest ELSE m.history[i - 1]
LineageOf(m) ==
    m # NoMeta /\ m # NewMeta =>
        /\ m.cidlatest \in DOMAIN store
        /\ \A i \in DOMAIN m.history :
              m.history[i] \in DOMAIN store /\ m.history[i] = store[Newer(m, i)].prev
HistoryIsLineage == LineageOf(dagMeta) /\ LineageOf(mfsMeta)

(* The purge of ipfsSave() bounds the metadata file: it keeps at most one    *)
(* CID more than dagMetaHistoryMax.                                          *)
HistoryBounded ==
    /\ Len(dagMeta.history) <= MaxItems + 1
    /\ Len(mfsMeta.history) <= MaxItems + 1

(* The metadata file always names a stored version: the branch of loadDag()  *)
(* for a file without a CID ("we really shouldn't have to enter here",       *)
(* dag.py:469) is never taken.                                               *)
MetadataNamesVersion == mfsMeta # NoMeta => mfsMeta.cidlatest \in DOMAIN store

(* Nothing a version held is missing from the versions saved on top of it,   *)
(* nor from the document in memory: a save never starts from a document      *)
(* older than the version it links to, even after a rewind.                  *)
VersionsGrow ==
    /\ \A c \in DOMAIN store :
          store[c].prev # NoCid => store[store[c].prev].edits \subseteq store[c].edits
    /\ dagRoot # NoRoot /\ dagMeta.cidlatest # NoCid =>
          store[dagMeta.cidlatest].edits \subseteq dagRoot.edits

(* No version holds half an edit: what the write lock is for.  It needs the  *)
(* edits to be made under the lock and their bodies not to raise.            *)
VersionsWhole == \A c \in DOMAIN store : store[c].edits = store[c].whole

(* What a reader sees inside `async with dag.read()` is a whole document and *)
(* does not change while it is inside, though portals are cached, shared and *)
(* loaded by several readers at once, unless a load of the very portal that  *)
(* it holds has failed (dag.py:289 then takes the document away).            *)
Seen(r) == IF view[r].live THEN dagRoot ELSE view[r].root
Emptied(r) == \E q \in Readers : pc[q] = "leaked" /\ view[q] = view[r]
ReadersSeeWhole ==
    \A r \in Readers :
        /\ pc[r] = "read" => Seen(r).edits = Seen(r).whole
        /\ pc[r] = "read" /\ Seen(r) = NoRoot => Emptied(r)
ReadersUndisturbed ==
    [][\A r \in Readers : pc[r] = "read" /\ pc'[r] = "read" =>
          Seen(r)' = Seen(r) \/ Emptied(r)']_vars

(* The read lock is held only by a coroutine inside the body or entering it. *)
ReadLockReleased == \A r \in Readers : pc[r] = "leaked" => r \notin readers

(* The lineage on disk survives: the version a restart finds is the one the  *)
(* chain of commits and rewinds led to, or the last one that was recorded.   *)
ParentOf == [c \in DOMAIN store |-> store[c].prev]
Recorded == IF mfsMeta = NoMeta THEN 0 ELSE mfsMeta.cidlatest
Current  == IF dagMeta = NoMeta THEN Recorded ELSE dagMeta.cidlatest
Chain == INSTANCE VersionChain WITH
    MaxVersions <- MaxCids, parent <- ParentOf, recorded <- Recorded, current <- Current
RefinesVersionChain == Chain!Spec

-----------------------------------------------------------------------------
(* Fairness: the event loop runs every coroutine that can go on, and         *)
(* aiorwlock serves the waiting coroutines in order, so that one that is     *)
(* often first in a free lock's queue gets it.  Nothing obliges a user to    *)
(* start an edit, a rewind or a read.                                        *)
Acquire(t) ==
    \/ t \in Editors /\ (EditLocked(t) \/ EditNoRoot(t))
    \/ t \in Rewinders /\ (RewindLocked(t) \/ (pc[t] = "wait" /\ RewindRaised(t)))
    \/ t \in Savers /\ SaveLocked(t)
    \/ t = Saver /\ SaveNoRoot
    \/ t \in Readers /\ ReadLocked(t)
Continue(t) ==
    \/ t \in Editors /\ EditDone(t)
    \/ t \in Appenders /\ AppendDone(t)
    \/ t \in Rewinders /\ (RewindGot(t) \/ RewindDone(t))
    \/ t \in Savers /\ (PutDone(t) \/ PutFailed(t) \/ SaveDone(t))
    \/ t \in Readers /\ (ReadLoaded(t) \/ ReadLoadFailed(t) \/ ReadDone(t))
    \/ t = Saver /\ SaveStart
    \/ t = Loader /\ Load
FairSpec == Spec /\ \A t \in Tasks : SF_vars(Acquire(t)) /\ WF_vars(Continue(t))

(* A reader that could not load its portal holds the read lock for ever (see *)
(* ReadLockReleased); what follows is promised while there is none.          *)
SomeoneLeaked == \E r \in Readers : pc[r] = "leaked"

(* The last save failed: the document is linked to the latest version, and   *)
(* did not replace it.                                                       *)
SaveFailed == dagRoot.prev = dagMeta.cidlatest /\ \A s \in Savers : pc[s] # "put"

(* No completed edit is left in memory only: it is in the version that a     *)
(* restart would find, or a save that will take it was asked for, or one has *)
(* it in the put or in the write of the metadata file (ipfsSave() is called  *)
(* once for each edit, in a coroutine that first waits for the lock), unless *)
(* the put failed.                                                           *)
Written(i)    == mfsMeta # NoMeta /\ i \in store[mfsMeta.cidlatest].whole
SaveToCome    == pending > 0 \/ \E s \in Savers : pc[s] = "wait"
BeingSaved(i) ==
    \/ \E s \in Savers : pc[s] = "put" /\ i \in put.whole
    \/ \E t \in Tasks : pc[t] \in {"meta", "rwmeta"} /\ i \in store[dagMeta.cidlatest].whole
NoEditForgotten ==
    \A i \in dagRoot.whole : Written(i) \/ SaveToCome \/ BeingSaved(i) \/ SaveFailed

(* An edit is in the version that a restart would find, once the saves it    *)
(* asked for have run, unless the put failed (the edit is then left to the   *)
(* next save) or a rewind or a crash takes it out of the document first.     *)
EditsReachDisk ==
    \A i \in EditIds :
        i \in dagRoot.whole ~>
            \/ Written(i)
            \/ i \notin dagRoot.whole
            \/ SaveFailed
            \/ SomeoneLeaked

(* Every coroutine that waits for the lock gets it in the end: no reader, no *)
(* failed save and no rewind keeps it for ever.                              *)
LockIsGranted ==
    \A t \in Tasks : pc[t] \in {"wait", "rwait"} ~>
                        (pc[t] \notin {"wait", "rwait"} \/ SomeoneLeaked)
=============================================================================
