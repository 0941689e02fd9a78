------------------------------- MODULE Peers -------------------------------
(* Peers (galacteek/core/ctx/__init__.py): a peer that identifies itself is  *)
(* authenticated and written to the network graph; from the graph, its DID   *)
(* is loaded into the registries.  Every ident message has a task of its     *)
(* own.  A context (PeerIdentityCtx) is named by its handle, its DID and     *)
(* who made it.  No lock is waited for while it is held by one that waits,   *)
(* so the sections under a lock are single steps.  A peer's messages give the *)
(* peer id that is in its handle, as ipHandleGen() writes it there.          *)
EXTENDS Naturals, Sequences, SequencesExt

CONSTANTS
    Tasks,    \* tasks that run registerFromIdent()
    Dids, Handles,
    Idents,   \* what an ident message may say
    PeerOf,   \* the peer that a handle belongs to
    Valid,    \* the handles that are valid space handles
    Own,      \* the peer id of this node
    Active,   \* the DID of the profile, None if it has none
    None,
    MaxSaves, \* bound on the saves of the graph that wait
    Failures  \* what may fail, a subset of FailureKinds

FailureKinds == {"check",  \* the signature or the QR code is not valid
                 "load",   \* the DID document of an ident cannot be loaded
                 "graph",  \* nor can that of a DID of the graph
                 "raise",  \* loadDidFromGraph() raises
                 "save",   \* a save of the graph fails
                 "auth"}   \* the peer does not pass the DID authentication

ASSUME PeersAssumption ==
    /\ Idents \subseteq [handle : Handles, did : Dids]
    /\ Valid \subseteq Handles /\ MaxSaves \in Nat \ {0}
    /\ None \notin Dids /\ None \notin [handle : Handles, did : Dids]
    /\ None \notin [handle : Handles, did : Dids, from : {"ident", "graph"}]
    /\ Failures \subseteq FailureKinds

VARIABLES
    mark,     \* _didAuthInp
    task,     \* where each task is, its message, the context it authenticates
    failed,   \* the contexts whose authentication failed in the last 10 seconds
    byHandle, byPeerId, byDid,
    graph,    \* the network graph, in memory: the DID registered for each handle
    saves,    \* saves of the graph that have been started and not begun
    watching, \* the first scan has begun, dagUpdated is connected
    todo,     \* handles that the running scan of the graph has still to look at
    loading,  \* _didGraphLStatus
    loads,    \* the tasks that run loadDidFromGraph()
    proved    \* history: the DIDs that passed the authentication

registries == <<byHandle, byPeerId, byDid>>
idents == <<mark, task, failed>>
edits  == <<graph, saves, proved>>
scans  == <<watching, todo, loading, loads>>
vars   == <<idents, registries, edits, scans>>

PeerIds == {PeerOf[h] : h \in Handles}
Ctx     == [handle : Handles, did : Dids, from : {"ident", "graph"}]
Idle    == [at |-> "idle", ident |-> None, ctx |-> None]

(* The graph holds the peers that were authenticated in earlier sessions. *)
Init ==
    /\ mark = [d \in Dids |-> FALSE] /\ failed = {}
    /\ task = [t \in Tasks |-> Idle]
    /\ byHandle = [h \in Handles |-> None]
    /\ byPeerId = [p \in PeerIds |-> None]
    /\ byDid = [d \in Dids |-> None]
    /\ graph \in {g \in [Handles -> Dids \union {None}] : \A h \in Handles :
                    g[h] = None \/ [handle |-> h, did |-> g[h]] \in Idents}
    /\ proved = {graph[h] : h \in Handles} \ {None}
    /\ saves = 0 /\ watching = FALSE
    /\ todo = {} /\ loading = {} /\ loads = <<>>

-----------------------------------------------------------------------------
(* registerFromIdent() *)

InGraph(d) == \E h \in Handles : graph[h] = d

(* The operators named ..Mutant are faulty variants of the definition that    *)
(* follows: each shows that a property notices that fault.                   *)
SamePeerMutant(t, i) ==
    /\ task[t].at = "idle"
    /\ LET known == \E h \in Handles : PeerOf[h] = PeerOf[i.handle] /\ graph[h] # None
       IN  task' = [task EXCEPT ![t] = [at |-> IF known THEN "known" ELSE "new",
                                       ident |-> i, ctx |-> None]]
    /\ UNCHANGED <<mark, failed, registries, edits, scans>>

(* A message comes: handleIdentMessageV3() and V4() start a task. *)
Ident(t, i) ==
    /\ task[t].at = "idle"
    /\ task' = [task EXCEPT ![t] = [at |-> IF InGraph(i.did) THEN "known" ELSE "new",
                                   ident |-> i, ctx |-> None]]
    /\ UNCHANGED <<mark, failed, registries, edits, scans>>

(* The peer was in the graph: its context is listed, and refreshed. *)
Known(t) ==
    LET c == byHandle[task[t].ident.handle]
    IN  /\ task[t].at = "known" /\ task' = [task EXCEPT ![t] = Idle]
        /\ IF c = None THEN UNCHANGED <<byPeerId, byDid>>
           ELSE /\ byPeerId' = [byPeerId EXCEPT ![PeerOf[c.handle]] = c]
                /\ byDid' = [byDid EXCEPT ![c.did] = c]
        /\ UNCHANGED <<mark, failed, byHandle, edits, scans>>

NoMarkMutant(t) ==
    LET d == task[t].ident.did
    IN  /\ task[t].at = "new"
        /\ task' = [task EXCEPT ![t].at = "check"]
        /\ mark' = [mark EXCEPT ![d] = TRUE]
        /\ UNCHANGED <<failed, registries, edits, scans>>

(* The signature is verified; a DID that is marked is left alone, another is *)
(* marked.                                                                   *)
Begin(t) ==
    LET d == task[t].ident.did
    IN  /\ task[t].at = "new"
        /\ \/ /\ "check" \in Failures \/ mark[d]
              /\ task' = [task EXCEPT ![t] = Idle] /\ UNCHANGED mark
           \/ /\ ~mark[d]
              /\ task' = [task EXCEPT ![t].at = "check"]
              /\ mark' = [mark EXCEPT ![d] = TRUE]
        /\ UNCHANGED <<failed, registries, edits, scans>>

Unmark(d) == mark' = [mark EXCEPT ![d] = FALSE]

GiveUp(t) == task' = [task EXCEPT ![t] = Idle] /\ Unmark(task[t].ident.did)

(* The QR code is looked at and pinned. *)
Check(t) ==
    /\ task[t].at = "check"
    /\ \/ "check" \in Failures /\ GiveUp(t)
       \/ task' = [task EXCEPT ![t].at = "load"] /\ UNCHANGED mark
    /\ UNCHANGED <<failed, registries, edits, scans>>

(* The DID document is loaded.  The context is the one registered for the    *)
(* handle, whatever its DID; the authentication starts unless this context   *)
(* failed recently.                                                          *)
Register(t) ==
    LET i == task[t].ident
        c == IF byHandle[i.handle] # None THEN byHandle[i.handle]
             ELSE [handle |-> i.handle, did |-> i.did, from |-> "ident"]
    IN  /\ task[t].at = "load"
        /\ byHandle' = [byHandle EXCEPT ![i.handle] = c]
        /\ task' = [task EXCEPT ![t] = IF c \in failed THEN Idle
                                       ELSE [at |-> "auth", ident |-> i, ctx |-> c]]
        /\ UNCHANGED <<mark, failed, byPeerId, byDid, edits, scans>>

LoadFails(t) ==
    /\ "load" \in Failures /\ task[t].at = "load"
    /\ GiveUp(t)
    /\ UNCHANGED <<failed, registries, edits, scans>>

-----------------------------------------------------------------------------
(* didPerformAuth() *)

Local(c) == PeerOf[c.handle] = Own

(* onPeerAuthenticated() writes the graph, which is free when no scan runs,  *)
(* and starts a save of it.                                                  *)
AuthSucceeds(t) ==
    LET c == task[t].ctx
    IN  /\ task[t].at = "auth" /\ todo = {}
        /\ task' = [task EXCEPT ![t].at = "graphed"]
        /\ graph' = [graph EXCEPT ![c.handle] = c.did]
        /\ saves < MaxSaves /\ saves' = saves + 1
        /\ proved' = proved \union {c.did}
        /\ UNCHANGED <<mark, failed, registries, scans>>

AuthFails(t) ==
    /\ "auth" \in Failures /\ task[t].at = "auth" /\ ~Local(task[t].ctx)
    /\ failed' = failed \union {task[t].ctx}
    /\ task' = [task EXCEPT ![t] = Idle] /\ Unmark(task[t].ctx.did)
    /\ UNCHANGED <<registries, edits, scans>>

(* The peering was added; a local DID counts as a failed attempt all the same. *)
AuthEnds(t) ==
    LET c == task[t].ctx
    IN  /\ task[t].at = "graphed"
        /\ failed' = IF Local(c) THEN failed \union {c} ELSE failed
        /\ task' = [task EXCEPT ![t] = Idle] /\ Unmark(c.did)
        /\ UNCHANGED <<registries, edits, scans>>

(* Ten seconds have passed. *)
Forget(c) ==
    /\ c \in failed /\ failed' = failed \ {c}
    /\ UNCHANGED <<mark, task, registries, edits, scans>>

-----------------------------------------------------------------------------
(* scanNetworkGraph() *)

InUse == {h \in Handles : graph[h] # None}

AllHandlesMutant ==
    /\ ~watching /\ watching' = TRUE /\ todo' = Handles
    /\ UNCHANGED <<idents, registries, edits, loading, loads>>

(* watchNetworkGraph() *)
FirstScan ==
    /\ ~watching /\ watching' = TRUE /\ todo' = InUse
    /\ UNCHANGED <<idents, registries, edits, loading, loads>>

UnseenMutant ==
    /\ saves > 0 /\ todo = {} /\ saves' = saves - 1
    /\ UNCHANGED <<idents, registries, graph, proved, scans>>

(* ipfsSave() emits dagUpdated with the lock held, and a scan runs; a save   *)
(* that fails starts none.                                                   *)
SaveGraph ==
    /\ saves > 0 /\ todo = {} /\ saves' = saves - 1
    /\ \/ todo' = IF watching THEN InUse ELSE {}
       \/ "save" \in Failures /\ UNCHANGED todo
    /\ UNCHANGED <<idents, registries, graph, proved, watching, loading, loads>>

Inactive(h) == PeerOf[h] = Own /\ graph[h] # Active

LoadTwiceMutant(h) ==
    LET d == graph[h]
    IN  /\ h \in todo /\ todo' = todo \ {h}
        /\ IF Inactive(h) \/ h \notin Valid \/ byDid[d] # None
           THEN UNCHANGED <<loading, loads>>
           ELSE /\ loading' = loading \union {d}
                /\ loads' = Append(loads, [did |-> d, handle |-> h, at |-> "load"])
        /\ UNCHANGED <<idents, registries, edits, watching>>

(* A DID is left alone that is listed or marked, an IPID of this node that   *)
(* is not the active one, or one with an invalid handle; others are loaded.  *)
Scan(h) ==
    LET d == graph[h]
    IN  /\ h \in todo /\ todo' = todo \ {h}
        /\ IF Inactive(h) \/ h \notin Valid \/ byDid[d] # None \/ d \in loading
           THEN UNCHANGED <<loading, loads>>
           ELSE /\ loading' = loading \union {d}
                /\ loads' = Append(loads, [did |-> d, handle |-> h, at |-> "load"])
        /\ UNCHANGED <<idents, registries, edits, watching>>

OnlyHandleMutant(x, c) == UNCHANGED <<byPeerId, byDid>>

(* The other registries keep the context that they have. *)
Listed(x, c) ==
    LET p == PeerOf[x.handle]
    IN  /\ byPeerId' = IF byPeerId[p] = None THEN [byPeerId EXCEPT ![p] = c] ELSE byPeerId
        /\ byDid' = IF byDid[x.did] = None THEN [byDid EXCEPT ![x.did] = c] ELSE byDid

(* loadDidFromGraph(): a new context is registered, the peer is asked for    *)
(* its ident.                                                                *)
GraphLoad(n) ==
    LET x == loads[n]
        c == [handle |-> x.handle, did |-> x.did, from |-> "graph"]
    IN  /\ x.at = "load" /\ loads' = [loads EXCEPT ![n].at = "added"]
        /\ byHandle' = [byHandle EXCEPT ![x.handle] = c]
        /\ Listed(x, c)
        /\ UNCHANGED <<idents, edits, watching, todo, loading>>

(* A load that raises leaves its DID marked. *)
GraphLoadEnds(n) ==
    /\ loads' = RemoveAt(loads, n)
    /\ \/ /\ loads[n].at = "added" \/ "graph" \in Failures
          /\ loading' = loading \ {loads[n].did}
       \/ "raise" \in Failures /\ UNCHANGED loading
    /\ UNCHANGED <<idents, registries, edits, watching, todo>>

Step(t) ==
    \/ Known(t) \/ Begin(t) \/ Check(t) \/ Register(t) \/ LoadFails(t)
    \/ AuthSucceeds(t) \/ AuthFails(t) \/ AuthEnds(t)

Next ==
    \/ \E t \in Tasks : Step(t) \/ \E i \in Idents : Ident(t, i)
    \/ \E c \in failed : Forget(c)
    \/ FirstScan \/ SaveGraph
    \/ \E h \in Handles : Scan(h)
    \/ \E n \in DOMAIN loads : GraphLoad(n) \/ GraphLoadEnds(n)

Spec == Init /\ [][Next]_vars
=============================================================================
