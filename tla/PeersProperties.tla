-------------------------- MODULE PeersProperties --------------------------
(* What the registration of peers must guarantee                            *)
(* (galacteek/core/ctx/__init__.py).                                         *)
EXTENDS Peers

(* The state of the registration. *)
TypeOK ==
    /\ mark \in [Dids -> BOOLEAN] /\ failed \subseteq Ctx
    /\ task \in [Tasks -> [at : {"idle", "new", "known", "check", "load", "auth", "graphed"},
                           ident : Idents \union {None}, ctx : Ctx \union {None}]]
    /\ byHandle \in [Handles -> Ctx \union {None}]
    /\ byPeerId \in [PeerIds -> Ctx \union {None}]
    /\ byDid \in [Dids -> Ctx \union {None}]
    /\ graph \in [Handles -> Dids \union {None}]
    /\ saves \in 0..MaxSaves /\ proved \subseteq Dids
    /\ watching \in BOOLEAN /\ todo \subseteq InUse /\ loading \subseteq Dids
    /\ loads \in Seq([did : Dids, handle : Handles, at : {"load", "added"}])

(* However many idents a peer sends, and however their tasks interleave, its *)
(* DID is authenticated by one at a time (the mark of lines 580-587).        *)
OneAuthPerDid == \A t, u \in Tasks :
    /\ task[t].at \in {"auth", "graphed"} /\ task[u].at \in {"auth", "graphed"}
    /\ task[t].ctx.did = task[u].ctx.did
    => t = u

(* Scans of the graph overlap, for each update of it starts one (line 425):  *)
(* a DID is loaded by one task at a time all the same.                       *)
OneLoadPerDid == \A m, n \in DOMAIN loads : loads[m].did = loads[n].did => m = n

(* What other services are given as a peer, under its peer id or its DID,    *)
(* has passed the authentication, or its handle is one that an authenticated *)
(* DID gives too: the graph is asked for the DID of the message, the context *)
(* that is then listed is the one of its handle (lines 542, 673), and a peer *)
(* that lost its profile gives a handle with two DIDs (lines 776-781).       *)
Proved(c) == \E i \in Idents \union {c} : i.handle = c.handle /\ i.did \in proved

OnlyAuthenticatedListed ==
    /\ \A d \in Dids : byDid[d] # None => Proved(byDid[d])
    /\ \A p \in PeerIds : byPeerId[p] # None => Proved(byPeerId[p])

-----------------------------------------------------------------------------
(* Fairness: tasks, saves and scans go on, loads end.  No peer has to send   *)
(* an ident.                                                                 *)
FairSpec ==
    /\ Spec
    /\ \A t \in Tasks : WF_vars(Step(t))
    /\ WF_vars(FirstScan) /\ WF_vars(SaveGraph)
    /\ \A h \in Handles : WF_vars(Scan(h))
    /\ \A d \in Dids, h \in Handles :
          WF_vars(\E n \in DOMAIN loads : /\ loads[n].did = d /\ loads[n].handle = h
                                          /\ GraphLoad(n) \/ GraphLoadEnds(n))

(* A load of the DID raised (lines 477, 525): the mark stays and no scan     *)
(* tries again.                                                              *)
Stuck(d) == d \in loading /\ \A n \in DOMAIN loads : loads[n].did # d

(* A DID that gets into the graph, in whatever order its update, the first   *)
(* scan and the scans and loads that run come, gets into the registries with *)
(* its peer, from where others take them: unless its handle gets another DID *)
(* meanwhile, or a load of it raised.                                        *)
GraphedIsListed == \A h \in Valid, d \in Dids :
    graph[h] = d /\ ~Inactive(h)
    ~> \/ byDid[d] # None /\ byPeerId[PeerOf[byDid[d].handle]] # None
       \/ graph[h] # d \/ Stuck(d)
=============================================================================
