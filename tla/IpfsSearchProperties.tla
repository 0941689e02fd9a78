------------------------ MODULE IpfsSearchProperties ------------------------
(* What the search page must show (ipfs-search-ui.js, ui/ipfssearch.py).     *)
EXTENDS IpfsSearch

(* The state of the page, of its handler, and of what is on its way.         *)
TypeOK ==
    /\ vPageCurrent \in 0..MaxSearches /\ searches \in 0..(MaxSearches + 1) /\ late \in Nat
    /\ survivors \subseteq [search : 1..(searches - 1), at : {"search", "over", "raised"}, hits : 0..Hits]
    /\ task.at \in {"none", "search", "expired", "complete", "failed", "raised"}
    /\ task.hits \in 0..Hits /\ task.sent \in Seq(1..Hits)
    /\ calls \in Seq({"cancelSearchTasks", "search", "previousPage", "nextPage", "searchRetry"})
    /\ signals \in Seq([signal : {"clear", "searchStarted", "searchRunning", "vPageStatus",
                                  "resultReady", "searchComplete", "searchError", "searchTimeout"},
                        search : 0..searches, arg : Nat])
    /\ shown \in Seq([search : 1..searches, hit : 1..Hits])
    /\ lastInserted \in 0..Len(shown) /\ status \in {"waitinput", "searching"}
    /\ retry \in BOOLEAN /\ controls \in BOOLEAN /\ page \in 0..Pages

Survived == {s.search : s \in survivors}

(* Whatever was clicked while results were on their way, the page never      *)
(* mixes the results of two searches (lines 304-342 of the script clear and  *)
(* fill one list; ui/ipfssearch.py:376-440 cancels, clears and searches),    *)
(* but for the hits of searches that outlive their cancellation: those come  *)
(* among the others (`except Exception` at ui/ipfssearch.py:737 and at       *)
(* ipfs/ipfssearch.py:77, on the Pythons before 3.8 that are supported).     *)
OneSearchShown ==
    \A i, j \in DOMAIN shown :
        shown[i].search = shown[j].search \/ {shown[i].search, shown[j].search} \intersect Survived # {}

(* The elements up to the i-th that are hits of the last search.             *)
Own(i) == {j \in 1..i : shown[j].search = searches}

(* When nothing is on its way and a search has completed, the page shows the *)
(* results of that search, each once and in their order, whatever hits of    *)
(* survivors stand among them, and the number of the page that the handler   *)
(* is at; and it says that no search runs, unless a survivor still does or   *)
(* has raised an exception.                                                  *)
CompleteIsShown ==
    calls = <<>> /\ signals = <<>> /\ late = 0 /\ task.at = "complete" =>
        /\ Cardinality(Own(Len(shown))) = Len(task.sent)
        /\ \A i \in Own(Len(shown)) : shown[i].hit = task.sent[Cardinality(Own(i))]
        /\ page = vPageCurrent + 1
        /\ (\A s \in survivors : s.at = "over") => status = "waitinput"

(* The script's #results, without the hits of survivors, is a list of        *)
(* results as ResultList says, whatever is clicked, cancelled or late: no    *)
(* hit comes twice, none of a search that was replaced comes after those of  *)
(* the new one (lines 304-342 of the script, ui/ipfssearch.py:376-440 and    *)
(* the loop of runSearch()).  What a search showed is taken off this list    *)
(* when it outlives its cancellation.                                        *)
Listed == {i \in DOMAIN shown : shown[i].search \notin Survived}

List == INSTANCE ResultList WITH
    Searches <- 1..(MaxSearches + 1), MaxHits <- Hits,
    results <- {shown[i] : i \in Listed}, length <- Cardinality(Listed)

ImplementsResultList == List!Spec

-----------------------------------------------------------------------------
(* Fairness: the event loop and the page do not stop while a call, a signal  *)
(* or a search waits; a search comes to an end, by its timeout if not        *)
(* before.  Which of them goes first is open, and the user does not have to  *)
(* click.                                                                    *)
FairSpec == Spec /\ WF_vars(Slot \/ Task \/ LateTimeout \/ Survivor \/ React)

(* A page that says that it is searching says in the end that it is not,     *)
(* unless a search raised an exception, which runSearch() only prints (lines *)
(* 797-799): the page then says for ever that it is searching, and does not  *)
(* offer to retry.                                                           *)
SearchingEnds ==
    status = "searching" ~>
        \/ status = "waitinput"
        \/ task.at = "raised" \/ \E s \in survivors : s.at = "raised"
=============================================================================
