----------------------------- MODULE ResultList -----------------------------
(* What a list of results promises: it shows one search, it is filled by     *)
(* hits that come in the order of the answer, each once, and it is only      *)
(* emptied as a whole.                                                       *)
EXTENDS Naturals

CONSTANTS Searches, MaxHits

VARIABLES
    results, \* the hits in the list, each with the search that found it
    length   \* the number of elements of the list

vars == <<results, length>>

Init == results = {} /\ length = 0

Show ==
    /\ \E s \in Searches, h \in 1..MaxHits :
          /\ \A r \in results : r.search = s /\ r.hit < h
          /\ results' = results \union {[search |-> s, hit |-> h]}
    /\ length' = length + 1

Clear == results' = {} /\ length' = 0

Next == Show \/ Clear

Spec == Init /\ [][Next]_vars
=============================================================================
