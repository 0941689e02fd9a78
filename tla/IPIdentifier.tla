---------------------------- MODULE IPIdentifier ----------------------------
(* A local IP identifier (galacteek/did/ipid/__init__.py): its DID document  *)
(* is updated, stored as a DAG node, published to an IPNS key again and      *)
(* again, and loaded from what the key resolves to, through the cache of     *)
(* IPNS records (ipfs/ipfsops/nscache.py), which is saved to a file.         *)
(* A CID is the index of its document in `store`; documents are sets of      *)
(* updates.  IPIDManager holds one object for the identifier.                *)
EXTENDS Integers, Sequences

CONSTANTS
    Updates,    \* updates of the document, each made once, by a task of its own
    Loaders,    \* tasks that load the document
    Publishers, \* bound: publish() calls that run at once
    MaxTimers,  \* bound: republications that are told apart
    Faults      \* what may go wrong, a subset of FaultKinds

FaultKinds == {"put",      \* dagPut() gives no CID
               "get",      \* dagGet() fails or times out
               "scan",     \* the scan of the services of a loaded document raises
               "resolve",  \* the IPNS key cannot be resolved
               "publish",  \* publishing fails or times out
               "crash"}    \* the application stops and is started again

ASSUME IpidAssumption ==
    /\ Loaders \intersect Publishers = {}
    /\ MaxTimers \in Nat \ {0} /\ Faults \subseteq FaultKinds

NoCid == 0
Tasks == Loaders \union Publishers

VARIABLES
    object,   \* the IPIdentifier object that IPIDManager has, see ObjectStates
    document, \* _document
    docCid,
    update,   \* for each update where it is, and the document that it puts
    task,     \* where each load() and publish() is, and the CID it works with
    due,      \* calls of publish() that ensure() has scheduled
    timers,   \* and those that ensureLater() has
    cache,    \* the IPNS record of the key in IPNSCache.cache
    dump,     \* what is being written to the file of the cache
    store,    \* the node: documents by CID
    net,      \* the network: the IPNS record of the key
    file      \* the file of the cache: its record, or NoCid if unreadable

ObjectStates ==
    {"none",     \* there is none yet
     "loading",  \* IPIDManager.load() made one, and keeps it for itself
     "blank",    \* create() made it, and could not put its document
     "ready"}

memory == <<object, document, docCid, update>>
calls  == <<due, timers>>
records == <<cache, dump, file>>
vars   == <<memory, task, calls, records, store, net>>

Idle == [at |-> "idle", cid |-> NoCid]
New  == [at |-> "new", doc |-> {}]
AddTimer == IF timers < MaxTimers THEN timers + 1 ELSE timers

Init ==
    /\ object = "none" /\ document = {} /\ docCid = NoCid
    /\ update = [u \in Updates |-> New]
    /\ task = [t \in Tasks |-> Idle] /\ due = 0 /\ timers = 0
    /\ cache = NoCid /\ dump = NoCid /\ file = NoCid
    /\ store = <<>> /\ net = NoCid

-----------------------------------------------------------------------------
(* IPIDManager.create(): the document is put before anybody has the object,  *)
(* and a publication is scheduled though it may be that no put succeeded.    *)
Create ==
    /\ object = "none" /\ store = <<>>
    /\ \/ object' = "ready" /\ store' = <<{}>> /\ docCid' = 1
       \/ "put" \in Faults /\ object' = "blank" /\ UNCHANGED <<store, docCid>>
    /\ due' = due + 1
    /\ UNCHANGED <<document, update, task, timers, records, net>>

(* A service is added, or the like, and updateDocument() is called.          *)
Update(u) ==
    /\ object \in {"ready", "blank"} /\ update[u].at = "new"
    /\ document' = document \union {u}
    /\ update' = [update EXCEPT ![u] = [at |-> "put", doc |-> document']]
    /\ UNCHANGED <<object, docCid, task, calls, records, store, net>>

(* The operators named ..Mutant are faulty variants of the definition that   *)
(* follows: each shows that a property notices that fault.                   *)
StoreEarlyMutant(u) ==
    /\ update[u].at = "put"
    /\ update' = [update EXCEPT ![u].at = "done"]
    /\ docCid' = Len(store) + 1 /\ due' = due + 1
    /\ UNCHANGED <<object, document, task, timers, store, records, net>>

(* dagPut() gives the CID of the document as it was when it was called; who  *)
(* updates it tells whether it is to be published (publish).                 *)
PutDone(u) ==
    /\ update[u].at = "put"
    /\ update' = [update EXCEPT ![u].at = "done"]
    /\ store' = Append(store, update[u].doc) /\ docCid' = Len(store')
    /\ due' \in {due, due + 1}
    /\ UNCHANGED <<object, document, task, timers, records, net>>

PutFailed(u) ==
    /\ "put" \in Faults /\ update[u].at = "put"
    /\ update' = [update EXCEPT ![u].at = "done"]
    /\ UNCHANGED <<object, document, docCid, task, calls, records, store, net>>

-----------------------------------------------------------------------------
(* IPNSCache.nsCacheSet(): the record is set, then the whole cache is saved  *)
(* under a lock.  The file is emptied when it is opened, what is written is  *)
(* the cache of that moment.                                                 *)
Saving == \E t \in Tasks : task[t].at = "save"

OwnRecordMutant(t) ==
    /\ task[t].at = "set" /\ ~Saving
    /\ task' = [task EXCEPT ![t].at = "save"]
    /\ file' = NoCid /\ dump' = task[t].cid
    /\ UNCHANGED <<memory, calls, cache, store, net>>

SaveOpen(t) ==
    /\ task[t].at = "set" /\ ~Saving
    /\ task' = [task EXCEPT ![t].at = "save"]
    /\ file' = NoCid /\ dump' = cache
    /\ UNCHANGED <<memory, calls, cache, store, net>>

(* load() goes on with the document unless it has it, publish() with the net *)
Then(t) ==
    IF t \in Publishers THEN [task[t] EXCEPT !.at = "publish"]
    ELSE IF task[t].cid = docCid THEN Idle ELSE [task[t] EXCEPT !.at = "get"]

SaveClose(t) ==
    /\ task[t].at = "save"
    /\ task' = [task EXCEPT ![t] = Then(t)]
    /\ file' = dump /\ dump' = NoCid
    /\ UNCHANGED <<memory, calls, cache, store, net>>

-----------------------------------------------------------------------------
(* publish() *)

AfterSuccessMutant(p) ==
    /\ docCid # NoCid /\ task[p] = Idle
    /\ \/ due > 0 /\ due' = due - 1 /\ UNCHANGED timers
       \/ timers > 0 /\ timers' = timers - 1 /\ UNCHANGED due
    /\ cache' = docCid
    /\ task' = [task EXCEPT ![p] = [at |-> "set", cid |-> docCid]]
    /\ UNCHANGED <<memory, dump, file, store, net>>

(* The next publication is scheduled, and the record is cached, before this  *)
(* one is known to succeed.                                                  *)
Publish(p) ==
    /\ docCid # NoCid /\ task[p] = Idle
    /\ \/ due > 0 /\ due' = due - 1 /\ timers' = AddTimer
       \/ timers > 0 /\ UNCHANGED calls
    /\ cache' = docCid
    /\ task' = [task EXCEPT ![p] = [at |-> "set", cid |-> docCid]]
    /\ UNCHANGED <<memory, dump, file, store, net>>

(* There is no CID: publish() schedules none either.                         *)
PublishNothing ==
    /\ docCid = NoCid /\ due > 0 /\ due' = due - 1
    /\ UNCHANGED <<memory, task, timers, records, store, net>>

PublishDone(p) ==
    /\ task[p].at = "publish" /\ task' = [task EXCEPT ![p] = Idle]
    /\ net' = task[p].cid
    /\ UNCHANGED <<memory, calls, records, store>>

(* After a timeout the record may still have been published: PublishDone.    *)
PublishFailed(p) ==
    /\ "publish" \in Faults
    /\ task[p].at = "publish" /\ task' = [task EXCEPT ![p] = Idle]
    /\ UNCHANGED <<memory, calls, records, store, net>>

-----------------------------------------------------------------------------
(* load(): IPIDManager.load() calls it for an object that it makes, and      *)
(* refresh() for the one there is.  A cached record of a local identifier is *)
(* always taken.                                                             *)
Load(l) ==
    /\ task[l] = Idle /\ store # <<>>
    /\ \/ object = "none" /\ object' = "loading"
       \/ object \in {"ready", "blank"} /\ UNCHANGED object
    /\ cache # docCid \/ cache = NoCid
    /\ task' = [task EXCEPT ![l] = IF cache = NoCid THEN [at |-> "resolve", cid |-> NoCid]
                                   ELSE [at |-> "get", cid |-> cache]]
    /\ UNCHANGED <<document, docCid, update, calls, records, store, net>>

(* An object that was being loaded, and was not, is dropped.                 *)
Dropped == object' = IF object = "loading" THEN "none" ELSE object

Resolved(l) ==
    /\ task[l].at = "resolve" /\ net # NoCid
    /\ cache' = net
    /\ task' = [task EXCEPT ![l] = [at |-> "set", cid |-> net]]
    /\ UNCHANGED <<memory, calls, dump, file, store, net>>

NotResolved(l) ==
    /\ task[l].at = "resolve" /\ (net = NoCid \/ "resolve" \in Faults)
    /\ task' = [task EXCEPT ![l] = Idle] /\ Dropped
    /\ UNCHANGED <<document, docCid, update, calls, records, store, net>>

LoadFailed(l) ==
    /\ "get" \in Faults /\ task[l].at = "get"
    /\ task' = [task EXCEPT ![l] = Idle] /\ Dropped
    /\ UNCHANGED <<document, docCid, update, calls, records, store, net>>

(* The document is replaced, and its services are scanned.                   *)
LoadDone(l) ==
    /\ task[l].at = "get"
    /\ task' = [task EXCEPT ![l] = IF object = "loading" THEN [@ EXCEPT !.at = "scan"] ELSE Idle]
    /\ document' = store[task[l].cid] /\ docCid' = task[l].cid
    /\ UNCHANGED <<object, update, calls, records, store, net>>

(* IPIDManager.load() gives the object to others, and publishes it.          *)
FirstLoaded(l) ==
    /\ task[l].at = "scan" /\ task' = [task EXCEPT ![l] = Idle]
    /\ object' = "ready" /\ due' = due + 1
    /\ UNCHANGED <<document, docCid, update, timers, records, store, net>>

ScanRaises(l) ==
    /\ "scan" \in Faults
    /\ task[l].at = "scan" /\ task' = [task EXCEPT ![l] = Idle]
    /\ object' = "none" /\ document' = {} /\ docCid' = NoCid
    /\ UNCHANGED <<update, calls, records, store, net>>

-----------------------------------------------------------------------------
(* nsCacheLoad() finds what the file holds; an empty file is not JSON.  What *)
(* dagPut() did not store is lost.                                           *)
Crash ==
    /\ "crash" \in Faults /\ store # <<>>
    /\ object' = "none" /\ document' = {} /\ docCid' = NoCid
    /\ update' = [u \in Updates |-> IF update[u].at = "put" THEN New ELSE update[u]]
    /\ task' = [t \in Tasks |-> Idle] /\ due' = 0 /\ timers' = 0
    /\ cache' = file /\ dump' = NoCid
    /\ UNCHANGED <<store, net, file>>

PublishStep(p) == Publish(p) \/ PublishDone(p) \/ PublishFailed(p)
LoadStep(l)    ==
    \/ Resolved(l) \/ NotResolved(l) \/ LoadFailed(l)
    \/ LoadDone(l) \/ FirstLoaded(l) \/ ScanRaises(l)

Next ==
    \/ Create \/ PublishNothing \/ Crash
    \/ \E u \in Updates : Update(u) \/ PutDone(u) \/ PutFailed(u)
    \/ \E t \in Tasks : SaveOpen(t) \/ SaveClose(t)
    \/ \E p \in Publishers : PublishStep(p)
    \/ \E l \in Loaders : Load(l) \/ LoadStep(l)

Spec == Init /\ [][Next]_vars
=============================================================================
