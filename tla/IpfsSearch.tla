----------------------------- MODULE IpfsSearch -----------------------------
(* The search page: its script (templates/assets/js/ipfs-search-ui.js) and   *)
(* its handler (IPFSSearchHandler, ui/ipfssearch.py) call and signal each    *)
(* other over a web channel, which keeps the order of the calls and of the   *)
(* signals.  Meanwhile the handler's search task receives hits, the user     *)
(* clicks, and searches time out.  A hit is its place in the answer.         *)
EXTENDS Integers, Sequences, SequencesExt, FiniteSets

CONSTANTS
    Hits,        \* hits on each page of the answer
    Invalid,     \* those whose path is not an IPFS path
    Pages,       \* pages of the answer, pageCount
    MaxSearches, \* bound: searches spawned and calls on their way
    MaxSurvivors, \* bound: searches that outlive their cancellation
    Faults       \* what may go wrong, a subset of FaultKinds

FaultKinds == {"api",     \* the search engine gives no results
               "timeout", \* runSearch() takes 30 seconds
               "raise",   \* any other exception
               "swallow"} \* before Python 3.8 a CancelledError is an Exception:
                          \* an `except Exception` keeps a search from ending

ASSUME SearchAssumption ==
    /\ Hits \in Nat \ {0} /\ Invalid \subseteq 1..Hits /\ Pages \in Nat \ {0}
    /\ MaxSearches \in Nat /\ MaxSurvivors \in Nat
    /\ Faults \subseteq FaultKinds

VARIABLES
    vPageCurrent, \* the handler's page, from 0
    searches,     \* searches spawned so far
    task,         \* _taskSearch: where it is, the hits it treated and sent
    late,         \* searches cancelled after their timeout struck
    survivors,    \* searches replaced by another whose cancellation was swallowed
    calls,        \* calls of the script on their way to the handler
    signals,      \* signals of the handler on their way to the script
    shown,        \* the elements of #results
    lastInserted, \* its index in shown, or 0 for null
    status,       \* the class of #searchquery
    retry,        \* #statusmessage offers to retry
    page,         \* the page that #pageinfo gives, from 1
    controls      \* the buttons for the next and the previous page are there

handler == <<vPageCurrent, searches, task, late, survivors>>
script  == <<shown, lastInserted, status, retry, page, controls>>
vars    == <<handler, calls, signals, script>>

NoTask == [at |-> "none", hits |-> 0, sent |-> <<>>]

Init ==
    /\ vPageCurrent = 0 /\ searches = 0 /\ task = NoTask /\ late = 0 /\ survivors = {}
    /\ calls = <<>> /\ signals = <<>>
    /\ shown = <<>> /\ lastInserted = 0
    /\ status = "waitinput" /\ retry = FALSE /\ page = 0 /\ controls = FALSE

Signal(s)   == [signal |-> s, search |-> 0, arg |-> 0]
With(s, a)  == [Signal(s) EXCEPT !.arg = a]
Ready(n, a) == [signal |-> "resultReady", search |-> n, arg |-> a] \* of search n

-----------------------------------------------------------------------------
(* What the user does on the page.                                           *)
Ask(fs) ==
    /\ Len(calls) + Len(fs) + searches <= MaxSearches + 1
    /\ calls' = calls \o fs /\ UNCHANGED <<handler, signals>>

RunSearch ==
    /\ Ask(<<"cancelSearchTasks", "search">>)
    /\ lastInserted' = 0 /\ controls' = FALSE
    /\ UNCHANGED <<shown, status, retry, page>>

Turn ==
    /\ controls
    /\ \/ page > 1 /\ Ask(<<"previousPage">>)
       \/ page < Pages /\ Ask(<<"nextPage">>)
    /\ lastInserted' = 0 /\ controls' = FALSE
    /\ UNCHANGED <<shown, status, retry, page>>

Retry == retry /\ Ask(<<"searchRetry">>) /\ UNCHANGED script

-----------------------------------------------------------------------------
(* The handler's slots.  A task that is cancelled emits nothing more, unless *)
(* its timeout has struck: then the cancellation counts as the timeout; or   *)
(* unless the cancellation is swallowed where it waits: for the answer       *)
(* (getPageResults()) or while it treats a hit (processIpfsSearchHit()).     *)
(* When the timer's own cancellation is swallowed the task goes on as if the *)
(* timer had not struck, so this needs no step.                              *)
Emit(ss) == signals' = signals \o ss
Called(f) == calls # <<>> /\ Head(calls) = f /\ calls' = Tail(calls) /\ UNCHANGED script

Swallowed == "swallow" \in Faults /\ task.at = "search"

Dies == late' = (IF task.at = "expired" THEN late + 1 ELSE late) /\ UNCHANGED survivors

Survives ==
    /\ Swallowed /\ Cardinality(survivors) < MaxSurvivors /\ UNCHANGED late
    /\ survivors' = survivors \union {[search |-> searches, at |-> "search", hits |-> task.hits]}

CancelTasks == Dies \/ Survives
Spawn == searches' = searches + 1 /\ task' = [NoTask EXCEPT !.at = "search"]

OnCancel ==
    /\ Called("cancelSearchTasks")
    /\ \/ Dies /\ task' = NoTask
       \/ Swallowed /\ UNCHANGED <<task, late, survivors>>
    /\ UNCHANGED <<vPageCurrent, searches, signals>>

OnSearch ==
    /\ Called("search")
    /\ CancelTasks /\ Spawn /\ vPageCurrent' = 0
    /\ Emit(<<Signal("clear"), Signal("searchStarted")>>)

OnPreviousPage ==
    /\ Called("previousPage")
    /\ IF vPageCurrent > 0
       THEN /\ CancelTasks /\ Spawn /\ vPageCurrent' = vPageCurrent - 1
            /\ Emit(<<Signal("clear")>>)
       ELSE UNCHANGED <<handler, signals>>

(* The operators named ..Mutant are faulty variants of the definition that   *)
(* follows: each shows that a property notices that fault.                   *)
NoClearMutant ==
    /\ Called("nextPage")
    /\ CancelTasks /\ Spawn /\ vPageCurrent' = vPageCurrent + 1
    /\ UNCHANGED signals

OnNextPage ==
    /\ Called("nextPage")
    /\ CancelTasks /\ Spawn /\ vPageCurrent' = vPageCurrent + 1
    /\ Emit(<<Signal("clear")>>)

OnRetry ==
    /\ Called("searchRetry")
    /\ CancelTasks /\ Spawn
    /\ Emit(<<Signal("clear")>>) /\ UNCHANGED vPageCurrent

-----------------------------------------------------------------------------
(* runSearch() *)
Step(t, ss) ==
    /\ task' = t /\ Emit(ss)
    /\ UNCHANGED <<vPageCurrent, searches, late, survivors, calls, script>>

Ends(at) == [task EXCEPT !.at = at]

TwiceMutant ==
    /\ task.at = "search" /\ task.hits < Hits /\ vPageCurrent < Pages
    /\ LET n == task.hits + 1
       IN Step([task EXCEPT !.hits = n, !.sent = Append(@, n)],
               <<With("vPageStatus", vPageCurrent + 1), Ready(searches, n), Ready(searches, n)>>)

(* The first hit comes with the status of the page; vPageStatus is emitted   *)
(* before the hit's own signals, all without an await.                       *)
Hit ==
    /\ task.at = "search" /\ task.hits < Hits /\ vPageCurrent < Pages
    /\ LET n == task.hits + 1
           first == IF n = 1 THEN <<With("vPageStatus", vPageCurrent + 1)>> ELSE <<>>
       IN \/ /\ n \notin Invalid
             /\ Step([task EXCEPT !.hits = n, !.sent = Append(@, n)], first \o <<Ready(searches, n)>>)
          \/ n \in Invalid /\ Step([task EXCEPT !.hits = n], first \o <<Signal("searchRunning")>>)

Complete ==
    /\ task.at = "search" /\ task.hits = Hits
    /\ Step(Ends("complete"), <<Signal("searchComplete")>>)

NoHits ==
    /\ task.at = "search" /\ task.hits = 0
    /\ vPageCurrent >= Pages \/ {"api", "swallow"} \intersect Faults # {}
    /\ Step(Ends("failed"), <<Signal("searchError")>>)

Raise ==
    /\ "raise" \in Faults /\ task.at = "search"
    /\ Step(Ends("raised"), <<>>)

(* The timer cancels the task, which sees it when it runs again.             *)
Expire ==
    /\ "timeout" \in Faults /\ task.at = "search"
    /\ Step(Ends("expired"), <<>>)

TimedOut ==
    /\ task.at = "expired"
    /\ Step(Ends("failed"), <<Signal("searchTimeout")>>)

LateTimeout ==
    /\ late > 0 /\ late' = late - 1
    /\ Emit(<<Signal("searchTimeout")>>)
    /\ UNCHANGED <<vPageCurrent, searches, task, survivors, calls, script>>

(* A search that outlives its cancellation goes on with the hits after the   *)
(* one it was treating; if it was waiting for the answer, it finds no hits.  *)
Goes(s, at, n, ss) ==
    /\ survivors' = (survivors \ {s}) \union {[s EXCEPT !.at = at, !.hits = n]}
    /\ Emit(ss)
    /\ UNCHANGED <<vPageCurrent, searches, task, late, calls, script>>

SurvivorHit(s) ==
    /\ 0 < s.hits /\ s.hits < Hits
    /\ LET n == s.hits + 1
       IN \/ n \notin Invalid /\ Goes(s, "search", n, <<Ready(s.search, n)>>)
          \/ n \in Invalid /\ Goes(s, "search", n, <<Signal("searchRunning")>>)

SurvivorEnds(s) ==
    \/ s.hits = Hits /\ Goes(s, "over", 0, <<Signal("searchComplete")>>)
    \/ s.hits = 0 /\ Goes(s, "over", 0, <<Signal("searchError")>>)
    \/ s.hits > 0 /\ "timeout" \in Faults /\ Goes(s, "over", 0, <<Signal("searchTimeout")>>)
    \/ s.hits > 0 /\ "raise" \in Faults /\ Goes(s, "raised", 0, <<>>)

Survivor == \E s \in survivors : s.at = "search" /\ (SurvivorHit(s) \/ SurvivorEnds(s))

-----------------------------------------------------------------------------
(* The script's reactions to the signals.                                    *)
Received(s) ==
    signals # <<>> /\ Head(signals).signal = s /\ signals' = Tail(signals) /\ UNCHANGED <<handler, calls>>

KeepLastMutant ==
    /\ Received("clear")
    /\ shown' = <<>> /\ retry' = FALSE
    /\ UNCHANGED <<lastInserted, status, page, controls>>

Clear ==
    /\ Received("clear")
    /\ shown' = <<>> /\ lastInserted' = 0 /\ retry' = FALSE
    /\ UNCHANGED <<status, page, controls>>

Element == [search |-> Head(signals).search, hit |-> Head(signals).arg]

AtTopMutant ==
    /\ Received("resultReady")
    /\ shown' = <<Element>> \o shown /\ lastInserted' = 1
    /\ status' = "searching" /\ controls' = TRUE /\ UNCHANGED <<retry, page>>

(* searchRunning, resultReady and filesStatAvailable of one hit.  The hits   *)
(* of an answer come by descending score: an element goes after the last one *)
(* inserted, or at the top.                                                  *)
ResultReady ==
    /\ Received("resultReady")
    /\ shown' = InsertAt(shown, lastInserted + 1, Element) /\ lastInserted' = lastInserted + 1
    /\ status' = "searching" /\ controls' = TRUE /\ UNCHANGED <<retry, page>>

Searching ==
    /\ Received("searchStarted") \/ Received("searchRunning")
    /\ status' = "searching" /\ UNCHANGED <<shown, lastInserted, retry, page, controls>>

PageStatus ==
    /\ Received("vPageStatus")
    /\ page' = Head(signals).arg /\ controls' = TRUE
    /\ UNCHANGED <<shown, lastInserted, status, retry>>

NotWaitingMutant ==
    /\ Received("searchTimeout") \/ Received("searchError")
    /\ retry' = TRUE /\ UNCHANGED <<status, shown, lastInserted, page, controls>>

Failed ==
    /\ Received("searchTimeout") \/ Received("searchError")
    /\ status' = "waitinput" /\ retry' = TRUE
    /\ UNCHANGED <<shown, lastInserted, page, controls>>

SearchComplete ==
    /\ Received("searchComplete")
    /\ status' = "waitinput" /\ UNCHANGED <<shown, lastInserted, retry, page, controls>>

User    == RunSearch \/ Turn \/ Retry
Slot    == OnCancel \/ OnSearch \/ OnPreviousPage \/ OnNextPage \/ OnRetry
Task    == Hit \/ Complete \/ NoHits \/ Raise \/ TimedOut \/ Expire
React   == Clear \/ ResultReady \/ Searching \/ PageStatus \/ Failed \/ SearchComplete
Next    == User \/ Slot \/ Task \/ LateTimeout \/ Survivor \/ React

Spec == Init /\ [][Next]_vars
=============================================================================
