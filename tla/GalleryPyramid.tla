--------------------------- MODULE GalleryPyramid ---------------------------
(* A gallery pyramid (galacteek/ui/pyramids/__init__.py): its hashmarks, the *)
(* last of which is what the pyramid publishes, follow the CIDs of an        *)
(* EvolvingDAG through the signal dagCidChanged, and are popped by a rewind. *)
(* EDag is taken as it is; a step of it may move the marks.                  *)
EXTENDS EDagProperties, SequencesExt

CONSTANT MaxMarks \* maxhashmarks of the pyramid

(* 16 and 12 in the code: the pyramid outlasts the history of its DAG. *)
ASSUME MarksAssumption == MaxMarks \in Nat /\ MaxMarks >= MaxItems + 3

VARIABLES
    marks,     \* the pyramid's hashmarks, oldest first; saved at each change
    connected, \* initializeDag() has connected dagCidChanged
    apart      \* history variable: something set the marks and the DAG apart

gvars == <<vars, marks, connected, apart>>

Users == Editors \union Appenders \union Rewinders

GInit == Init /\ marks = <<>> /\ connected = FALSE /\ apart = FALSE

-----------------------------------------------------------------------------
(* pyramidAdd(unique=True): room is made before the mark is looked for. *)
MarkAdd(cid) ==
    LET room == IF Len(marks) >= MaxMarks THEN Tail(marks) ELSE marks
    IN  IF Contains(room, cid) THEN room ELSE Append(room, cid)

PopNothingMutant == marks

(* pyramidPop() *)
MarkPop == IF marks = <<>> THEN marks ELSE Front(marks)

(* What this step of EDag does that a pyramid notices: the setter of dagCid  *)
(* runs; rewind() returns, or raises, which its decorator ipfsOp hides.      *)
CidSet ==
    \/ \E s \in Savers : pc[s] = "put" /\ pc'[s] = "meta"
    \/ \E w \in Rewinders : pc[w] = "rwget" /\ pc'[w] = "rwmeta"
Rewound == \E w \in Rewinders : pc[w] = "rwmeta" /\ pc'[w] = "idle" /\ pc'[Loader] # "start"
Refused == \E w \in Rewinders :
    pc[w] \in {"wait", "rwget"} /\ pc'[w] = "idle" /\ pc'[Loader] # "start"

(* initializeDag(): a gallery without an index gets one, outside the lock,   *)
(* and asks for a save.  Without a document the menu stays disabled.         *)
Initialize ==
    /\ loaded /\ ~connected /\ connected' = TRUE
    /\ dagRoot # NoRoot
    /\ \E indexed \in BOOLEAN : pending' = IF indexed THEN pending ELSE pending + 1
    /\ UNCHANGED <<pc, edits, memory, loaded, put, lock, portals, disk, marks, apart>>

(* onPyramidDagCidChanged() and rewindEDAG() *)
Follow ==
    marks' = IF CidSet /\ connected THEN MarkAdd(dagMeta'.cidlatest)
             ELSE IF Rewound \/ Refused THEN MarkPop
             ELSE marks

(* A rewind was refused, a version other than the first was saved before the *)
(* signal was connected, or the application stopped while the metadata file  *)
(* was behind, or in the middle of a rewind.                                 *)
SetApart ==
    \/ Refused
    \/ CidSet /\ ~connected /\ dagMeta.cidlatest # NoCid
    \/ Crash /\ (mfsMeta # dagMeta \/ \E w \in Rewinders : pc[w] = "rwmeta")

GalleryStep ==
    /\ Next
    /\ connected \/ \A u \in Users : pc'[u] = pc[u]
    /\ Follow
    /\ connected' = (connected /\ pc'[Loader] # "start")
    /\ apart' = (apart \/ SetApart)

GNext == Initialize \/ GalleryStep

GSpec == GInit /\ [][GNext]_gvars

-----------------------------------------------------------------------------
(* The hashmark that the pyramid publishes is the latest version of its DAG, *)
(* after saves, rewinds and restarts, unless something set them apart.       *)
MarkIsLatest ==
    marks # <<>> /\ connected /\ (\A w \in Rewinders : pc[w] # "rwmeta")
        => Last(marks) = dagMeta.cidlatest
PyramidFollowsDag == ~apart => MarkIsLatest

(* rewindEDAG() says "Pop a hashmark off the pyramid, and rewind the EDAG"   *)
(* (ui/pyramids/__init__.py:2445): a mark is popped only with a rewind.      *)
PopOnlyWithRewind == [][Len(marks') < Len(marks) => Rewound]_gvars
=============================================================================
