---------------------- MODULE IPIdentifierProperties ----------------------
(* What a local IP identifier must guarantee (galacteek/did/ipid).          *)
EXTENDS IPIdentifier

Cids == DOMAIN store \union {NoCid}

(* The state of the identifier and of what is recorded of it; a record names *)
(* a document that was stored.                                               *)
TypeOK ==
    /\ object \in ObjectStates
    /\ document \subseteq Updates /\ store \in Seq(SUBSET Updates)
    /\ docCid \in Cids /\ cache \in Cids /\ dump \in Cids /\ file \in Cids /\ net \in Cids
    /\ update \in [Updates -> [at : {"new", "put", "done"}, doc : SUBSET Updates]]
    /\ task \in [Tasks -> [at : {"idle", "set", "save", "publish", "resolve", "get", "scan"}, cid : Cids]]
    /\ due \in Nat /\ timers \in 0..MaxTimers

(* Many publications and loads save the cache at once (nscache.py:70-76); as *)
(* soon as no save is to come, the file holds the record of the cache, the   *)
(* one that a restart will resolve the identifier with.                      *)
FileIsCache == (\A t \in Tasks : task[t].at \notin {"set", "save"}) => file = cache

(* "Auto republish for local IPIDs" (line 693): whatever publications failed *)
(* or still run, and whether updates ask for one or not, one more is always  *)
(* to come for an object that others have and that has a CID, created or     *)
(* loaded; but one whose creation could not put the document, for publish()  *)
(* ends at line 690.                                                         *)
RepublicationToCome == object = "ready" => docCid # NoCid /\ (due > 0 \/ timers > 0)

-----------------------------------------------------------------------------
(* Fairness: tasks go on, delays end, and the connection is there often      *)
(* enough for a publication to succeed again and again (SF).  Nobody has to  *)
(* update or load the document.                                              *)
FairSpec ==
    /\ Spec
    /\ \A u \in Updates : WF_vars(PutDone(u) \/ PutFailed(u))
    /\ \A t \in Tasks : SF_vars(SaveOpen(t)) /\ WF_vars(SaveClose(t))
    /\ \A p \in Publishers : WF_vars(PublishStep(p)) /\ SF_vars(PublishDone(p))
    /\ \A l \in Loaders : WF_vars(LoadStep(l))

(* An update that the current document holds gets published, whatever fails, *)
(* unless a load or a crash takes it out of the document first, or creation  *)
(* could not put the document; publications may end in another order than    *)
(* they began in.                                                            *)
Has(cid, u) == cid # NoCid /\ u \in store[cid]
UpdatesGetPublished == \A u \in Updates :
    Has(docCid, u) ~> (Has(net, u) \/ ~Has(docCid, u) \/ object = "blank")
=============================================================================
