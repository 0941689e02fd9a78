-------------------------- MODULE IpfsSearchProofs --------------------------
(* The search page, for answers of any size, any number of searches and any  *)
(* faults.  The argument reads the web channel as one line: what the page    *)
(* shows, then the signals on their way, then the search that runs.          *)
EXTENDS IpfsSearchProperties, SequenceTheorems, FunctionTheorems, FiniteSetTheorems, TLAPS

-----------------------------------------------------------------------------
(* Types                                                                     *)

CallNames == {"cancelSearchTasks", "search", "previousPage", "nextPage", "searchRetry"}
Busy      == {"searchStarted", "searchRunning", "resultReady"}
Over      == {"searchComplete", "searchError", "searchTimeout"}
Names     == Busy \union Over \union {"clear", "vPageStatus"}
Places    == {"none", "search", "expired", "complete", "failed", "raised"}

Sig(n)   == [signal : Names, search : 0..n, arg : Nat]
Shown(n) == [search : 1..n, hit : 1..Hits]
Replaced(n) == [search : 1..(n - 1), at : {"search", "over", "raised"}, hits : 0..Hits]

(* What a signal that carries something carries.                             *)
Meant(s) ==
    /\ s.signal = "resultReady" => s.search >= 1 /\ s.arg \in 1..Hits
    /\ s.signal = "vPageStatus" => s.arg \in 1..Pages

(* Before the first search the script can only ask for one.                  *)
Unused ==
    /\ task = NoTask /\ late = 0 /\ survivors = {} /\ signals = <<>> /\ vPageCurrent = 0
    /\ ~controls /\ ~retry
    /\ \A i \in DOMAIN calls : calls[i] \in {"cancelSearchTasks", "search"}

HandlerOK ==
    /\ searches \in Nat /\ vPageCurrent \in Nat /\ late \in Nat
    /\ task \in [at : Places, hits : 0..Hits, sent : Seq(1..Hits)]
    /\ task.hits = 0 => task.sent = <<>>
    /\ survivors \subseteq Replaced(searches)
    /\ searches > 0 => vPageCurrent < searches

ScriptOK ==
    /\ shown \in Seq(Shown(searches)) /\ lastInserted \in 0..Len(shown)
    /\ status \in {"waitinput", "searching"} /\ page \in 0..Pages
    /\ retry \in BOOLEAN /\ controls \in BOOLEAN

ChannelOK ==
    /\ calls \in Seq(CallNames) /\ searches + Len(calls) <= MaxSearches + 1
    /\ signals \in Seq(Sig(searches))
    /\ \A i \in DOMAIN signals : Meant(signals[i])

Typed == HandlerOK /\ ScriptOK /\ ChannelOK /\ (searches = 0 => Unused)

-----------------------------------------------------------------------------
(* One search is shown                                                       *)

(* A hit that is no survivor's.                                              *)
IsHit(s) == s.signal = "resultReady" /\ s.search \notin Survived

(* The searches whose hits stand at place i of the line: shown, on their way *)
(* or still to be sent.                                                      *)
Origins(i) ==
    IF i = 0 THEN {shown[x].search : x \in Listed}
    ELSE IF i = Len(signals) + 1 THEN {searches}
    ELSE IF IsHit(signals[i]) THEN {signals[i].search} ELSE {}

(* Between the hits of two searches the page is cleared.                     *)
Apart ==
    \A i, k \in 0..(Len(signals) + 1) : i <= k =>
        \A s \in Origins(i), t \in Origins(k) :
            s = t \/ \E j \in (i + 1)..(k - 1) : signals[j].signal = "clear"

-----------------------------------------------------------------------------
(* Each hit comes once                                                       *)

HitOf(s) == IF IsHit(s) THEN {[search |-> s.search, hit |-> s.arg]} ELSE {}

(* The hits that are still to be sent, and those that stand at place i.      *)
Coming ==
    IF task.at = "search" THEN [search : {searches}, hit : (task.hits + 1)..Hits] ELSE {}
Hitting(i) ==
    IF i = 0 THEN {shown[x] : x \in Listed}
    ELSE IF i = Len(signals) + 1 THEN Coming ELSE HitOf(signals[i])

Before(e, f) == e.search = f.search => e.hit < f.hit

(* The hits of a search stand in their order, each at one place.             *)
Ascending ==
    \A i, k \in 0..(Len(signals) + 1) : i < k =>
        \A e \in Hitting(i), f \in Hitting(k) : Before(e, f)

-----------------------------------------------------------------------------
(* What a complete search has on the page                                    *)

(* A call that will clear the page is on its way.                            *)
Clearing ==
    \E i \in DOMAIN calls :
        \/ calls[i] \in {"search", "nextPage", "searchRetry"}
        \/ calls[i] = "previousPage" /\ vPageCurrent > 0

CancelThenSearch ==
    \A i \in DOMAIN calls :
        calls[i] = "cancelSearchTasks" => i + 1 \in DOMAIN calls /\ calls[i + 1] = "search"

(* A hit of the search that was spawned last.                                *)
OwnHit(s) == s.signal = "resultReady" /\ s.search = searches

(* The elements of q up to the i-th that are hits of search n.               *)
Of(q, n, i) == {j \in 1..i : q[j].search = n}

(* After its k-th signal, the last that clears it, the page shows the first  *)
(* r[i] hits of the search when it has received the i-th signal.             *)
Counts(k, r) ==
    /\ \A i \in DOMAIN signals : i > k =>
          /\ signals[i].signal # "clear"
          /\ r[i] = IF OwnHit(signals[i]) THEN r[i - 1] + 1 ELSE r[i - 1]
          /\ OwnHit(signals[i]) => signals[i].arg = task.sent[r[i]]
          /\ signals[i].signal = "vPageStatus" => signals[i].arg = vPageCurrent + 1
    /\ \A i, j \in k..Len(signals) : i <= j => r[i] <= r[j]
    /\ r[Len(signals)] = Len(task.sent)

(* The hits of the search that are shown stand before the place of the next, *)
(* each in its order.                                                        *)
Stand(q, n, l, sent) ==
    /\ \A i \in DOMAIN q : q[i].search = n => i <= l
    /\ \A i \in 1..l : q[i].search = n => q[i].hit = sent[Cardinality(Of(q, n, i))]

StartsAt(k, r) ==
    IF k > 0 THEN signals[k].signal = "clear" /\ r[k] = 0
    ELSE r[0] = Cardinality(Of(shown, searches, lastInserted)) /\ Stand(shown, searches, lastInserted, task.sent)

(* The number of the page comes before the first hit.                        *)
Numbered(k, r) ==
    \/ task.hits = 0
    \/ \E j \in DOMAIN signals : j > k /\ signals[j].signal = "vPageStatus" /\ r[j] = 0
    \/ k = 0 /\ page = vPageCurrent + 1

Follows(k, r) ==
    /\ k \in 0..Len(signals) /\ r \in [Nat -> Nat]
    /\ Counts(k, r) /\ StartsAt(k, r) /\ Numbered(k, r)

Followed == ~Clearing => \E k, r : Follows(k, r)

(* The last word on a complete search is that no search runs.                *)
Quiet ==
    \E j \in 0..Len(signals) :
        /\ IF j = 0 THEN status = "waitinput" ELSE signals[j].signal \in Over
        /\ \A i \in DOMAIN signals : i > j => signals[i].signal \notin Busy

AllOver   == \A s \in survivors : s.at = "over"
Completed == task.at = "complete" => task.hits = Hits /\ (AllOver => Quiet)

-----------------------------------------------------------------------------
(* Signals                                                                   *)

(* A signal says its name and what it carries.                               *)
LEMMA SignalIs ==
    ASSUME searches \in Nat, NEW s \in Names, NEW a \in Nat
    PROVE  /\ Signal(s) \in Sig(searches) /\ Signal(s).signal = s
           /\ With(s, a) \in Sig(searches) /\ With(s, a).signal = s /\ With(s, a).arg = a
BY DEF Signal, With, Sig

LEMMA ReadyIs ==
    ASSUME searches \in Nat, NEW n \in 1..searches, NEW a \in 1..Hits
    PROVE  /\ Ready(n, a) \in Sig(searches) /\ Meant(Ready(n, a))
           /\ Ready(n, a).signal = "resultReady" /\ Ready(n, a).search = n /\ Ready(n, a).arg = a
BY SearchAssumption DEF Ready, Sig, Meant, Names, Busy

(* What a queue is when ss joins it, and when its first element leaves it.   *)
Joins(q2, q, ss) ==
    /\ Len(q) \in Nat /\ Len(ss) \in Nat /\ Len(q2) = Len(q) + Len(ss)
    /\ DOMAIN q = 1..Len(q) /\ DOMAIN ss = 1..Len(ss) /\ DOMAIN q2 = 1..Len(q2)
    /\ \A i \in DOMAIN q : i \in DOMAIN q2 /\ q2[i] = q[i]
    /\ \A i \in DOMAIN ss : Len(q) + i \in DOMAIN q2 /\ q2[Len(q) + i] = ss[i]
    /\ \A i \in DOMAIN q2 : i \in DOMAIN q \/ i - Len(q) \in DOMAIN ss

Leaves(q2, q) ==
    /\ Len(q) \in Nat /\ Len(q2) \in Nat /\ Len(q2) = Len(q) - 1
    /\ DOMAIN q = 1..Len(q) /\ DOMAIN q2 = 1..Len(q2)
    /\ 1 \in DOMAIN q /\ Head(q) = q[1]
    /\ \A i \in DOMAIN q2 : i + 1 \in DOMAIN q /\ q2[i] = q[i + 1]
    /\ \A i \in DOMAIN q : i = 1 \/ i - 1 \in DOMAIN q2

LEMMA Joined ==
    ASSUME NEW S, NEW q \in Seq(S), NEW ss \in Seq(S), NEW q2, q2 = q \o ss
    PROVE  q2 \in Seq(S) /\ Joins(q2, q, ss)
<1>1. Len(q) \in Nat /\ Len(ss) \in Nat /\ DOMAIN q = 1..Len(q) /\ DOMAIN ss = 1..Len(ss)
    OBVIOUS
<1>2. /\ q2 \in Seq(S) /\ Len(q2) = Len(q) + Len(ss)
      /\ \A i \in 1..(Len(q) + Len(ss)) : q2[i] = IF i <= Len(q) THEN q[i] ELSE ss[i - Len(q)]
    BY ConcatProperties
<1>3. DOMAIN q2 = 1..Len(q2)
    BY <1>2
<1> DEFINE n == Len(q)
           m == Len(ss)
<1> HIDE DEF n, m
<1>4. /\ n \in Nat /\ m \in Nat
      /\ \A i \in 1..n : i \in 1..(n + m) /\ i <= n
      /\ \A i \in 1..m : n + i \in 1..(n + m) /\ ~(n + i <= n) /\ (n + i) - n = i
      /\ \A i \in 1..(n + m) : i \in 1..n \/ i - n \in 1..m
    BY <1>1 DEF n, m
<1> QED
    BY <1>1, <1>2, <1>3, <1>4 DEF n, m, Joins

LEMMA Left ==
    ASSUME NEW S, NEW q \in Seq(S), q # <<>>, NEW q2, q2 = Tail(q)
    PROVE  q2 \in Seq(S) /\ Leaves(q2, q) /\ Head(q) \in S
BY DEF Leaves

(* The signals that a hit emits, put together.                               *)
LEMMA OneByOne ==
    ASSUME NEW a, NEW b PROVE <<>> \o <<b>> = <<b>> /\ <<a>> \o <<b>> = <<a, b>>
<1> DEFINE S == {a, b}
<1>1. <<a>> \in Seq(S) /\ <<b>> \in Seq(S) /\ <<a, b>> \in Seq(S)
    OBVIOUS
<1>2. <<a>> \o <<b>> \in Seq(S) /\ Len(<<a>> \o <<b>>) = 2 /\ Len(<<a, b>>) = 2
      /\ \A i \in 1..2 : (<<a>> \o <<b>>)[i] = <<a, b>>[i]
    BY <1>1
<1>3. <<a>> \o <<b>> = <<a, b>>
    BY <1>1, <1>2, SeqEqual
<1> QED
    BY <1>1, <1>3, ConcatEmptySeq

(* An element that is inserted after the i-th.                               *)
Inserts(q2, q, i, e) ==
    /\ Len(q2) = Len(q) + 1 /\ DOMAIN q2 = 1..Len(q2)
    /\ \A x \in DOMAIN q2 : q2[x] = e \/ \E y \in DOMAIN q : q2[x] = q[y]
    /\ \E x \in DOMAIN q2 : q2[x] = e
    /\ \A y \in DOMAIN q : \E x \in DOMAIN q2 : q2[x] = q[y]
    /\ i + 1 \in DOMAIN q2 /\ q2[i + 1] = e
    /\ \A x \in 1..i : x \in DOMAIN q /\ q2[x] = q[x]
    /\ \A x \in (i + 1)..Len(q) : x \in DOMAIN q /\ q2[x + 1] = q[x]

LEMMA Inserted ==
    ASSUME NEW S, NEW q \in Seq(S), NEW i \in 0..Len(q), NEW e \in S, NEW q2,
           q2 = InsertAt(q, i + 1, e)
    PROVE  q2 \in Seq(S) /\ Inserts(q2, q, i, e)
<1> DEFINE n == Len(q)
           head == SubSeq(q, 1, i)
           tail == SubSeq(q, i + 1, n)
           front == head \o <<e>>
<1>1. n \in Nat /\ i \in Nat /\ i <= n /\ i + 1 \in Int /\ DOMAIN q = 1..n
    OBVIOUS
<1>2. q2 = (head \o <<e>>) \o tail
    <2>1. (i + 1) - 1 = i
        BY <1>1
    <2> QED
        BY <2>1 DEF InsertAt
<1>3. \A x \in 1..n : q[x] \in S
    OBVIOUS
<1>4. /\ head \in Seq(S) /\ Len(head) = i
      /\ \A x \in 1..i : head[x] = q[x]
    <2>1. \A x \in 1..i : x \in 1..n /\ 1 + x - 1 = x
        BY <1>1
    <2> QED
        BY <1>1, <1>3, <2>1
<1>5. /\ tail \in Seq(S) /\ Len(tail) = n - i
      /\ \A x \in 1..(n - i) : tail[x] = q[i + x] /\ i + x \in 1..n
    <2>1. /\ \A x \in (i + 1)..n : x \in 1..n
          /\ \A x \in 1..(n - i) : i + x \in 1..n /\ (i + 1) + x - 1 = i + x
        BY <1>1
    <2>2. /\ tail \in Seq(S) /\ Len(tail) = (IF i + 1 <= n THEN n - (i + 1) + 1 ELSE 0)
          /\ \A x \in 1..(n - (i + 1) + 1) : tail[x] = q[(i + 1) + x - 1]
        BY <1>1, <1>3, <2>1, SubSeqProperties
    <2>3. n - (i + 1) + 1 = n - i /\ (IF i + 1 <= n THEN n - (i + 1) + 1 ELSE 0) = n - i
        <3> HIDE DEF n
        <3> QED
            BY <1>1
    <2>4. \A x \in 1..(n - i) : tail[x] = q[i + x]
        BY <2>1, <2>2, <2>3
    <2> QED
        BY <2>1, <2>2, <2>3, <2>4
<1> HIDE DEF head, tail
<1>6. /\ front \in Seq(S) /\ Len(front) = i + 1 /\ front[i + 1] = e
      /\ \A x \in 1..i : front[x] = q[x]
    BY <1>1, <1>4
<1> HIDE DEF front, n
<1>7. q2 = front \o tail
    BY <1>2 DEF front
<1>8. q2 \in Seq(S) /\ Joins(q2, front, tail)
    BY <1>5, <1>6, <1>7, Joined
<1>9. Len(q2) = n + 1
    BY <1>1, <1>5, <1>6, <1>8 DEF Joins
<1>10. ASSUME NEW x \in DOMAIN q2 PROVE q2[x] = e \/ \E y \in DOMAIN q : q2[x] = q[y]
    <2>1. CASE x \in DOMAIN front
        <3>1. x \in 1..i \/ x = i + 1
            BY <1>1, <1>6, <1>8, <2>1 DEF Joins
        <3>2. x \in 1..i => x \in 1..n
            BY <1>1
        <3> QED
            BY <1>1, <1>6, <1>8, <2>1, <3>1, <3>2 DEF Joins
    <2>2. CASE x - (i + 1) \in DOMAIN tail
        <3>1. x = (i + 1) + (x - (i + 1))
            BY <1>1, <1>8 DEF Joins
        <3> QED
            <4>1. x - (i + 1) \in 1..(n - i) /\ Len(front) = i + 1
                BY <1>5, <1>6, <1>8, <2>2 DEF Joins
            <4>2. q2[x] = tail[x - (i + 1)]
                BY <1>8, <2>2, <3>1, <4>1 DEF Joins
            <4> QED
                BY <1>1, <1>5, <4>1, <4>2
    <2> QED
        BY <1>6, <1>8, <1>10, <2>1, <2>2 DEF Joins
<1>11. ASSUME NEW x \in 1..i PROVE x \in DOMAIN q /\ q2[x] = q[x]
    <2>1. x \in DOMAIN front /\ x \in 1..n
        BY <1>1, <1>6, <1>8 DEF Joins
    <2> QED
        BY <1>1, <1>6, <1>8, <2>1 DEF Joins
<1>14. ASSUME NEW x \in (i + 1)..n PROVE x \in DOMAIN q /\ q2[x + 1] = q[x]
    <2>1. x - i \in 1..(n - i) /\ (i + 1) + (x - i) = x + 1 /\ i + (x - i) = x /\ x \in 1..n
        BY <1>1
    <2>2. x - i \in DOMAIN tail /\ Len(front) = i + 1
        BY <1>5, <1>6, <1>8, <2>1 DEF Joins
    <2>3. q2[(i + 1) + (x - i)] = tail[x - i]
        BY <1>8, <2>2 DEF Joins
    <2>4. tail[x - i] = q[i + (x - i)]
        BY <1>5, <2>1
    <2> QED
        BY <1>1, <2>1, <2>3, <2>4
<1>12. i + 1 \in DOMAIN q2 /\ q2[i + 1] = e
    <2>1. i + 1 \in DOMAIN front
        BY <1>1, <1>6, <1>8 DEF Joins
    <2> QED
        BY <1>6, <1>8, <2>1 DEF Joins
<1>13. ASSUME NEW y \in DOMAIN q PROVE \E x \in DOMAIN q2 : q2[x] = q[y]
    <2>1. y \in 1..i \/ y - i \in 1..(n - i)
        BY <1>1
    <2>2. CASE y \in 1..i
        <3>1. y \in DOMAIN front
            BY <1>1, <1>6, <1>8, <2>2 DEF Joins
        <3> QED
            BY <1>6, <1>8, <2>2, <3>1 DEF Joins
    <2>3. CASE y - i \in 1..(n - i)
        <3>1. y - i \in DOMAIN tail
            BY <1>5, <1>8, <2>3 DEF Joins
        <3>2. i + (y - i) = y
            BY <1>1, <1>13
        <3>3. tail[y - i] = q[y]
            BY <1>5, <2>3, <3>2
        <3> QED
            BY <1>8, <3>1, <3>3 DEF Joins
    <2> QED
        BY <2>1, <2>2, <2>3
<1> QED
    BY <1>8, <1>9, <1>10, <1>11, <1>12, <1>13, <1>14 DEF n, Joins, Inserts

(* When an element is inserted after the i-th, the places in A of the others *)
(* become those in B.                                                        *)
LEMMA PlacesShift ==
    ASSUME NEW n \in Nat, NEW i \in 0..n, NEW A \in SUBSET (1..n), NEW B \in SUBSET (1..(n + 1)),
           \A x \in 1..i : x \in A <=> x \in B,
           \A x \in (i + 1)..n : x \in A <=> x + 1 \in B
    PROVE  /\ Cardinality(A) \in Nat
           /\ Cardinality(B) = IF i + 1 \in B THEN Cardinality(A) + 1 ELSE Cardinality(A)
<1> DEFINE C == B \ {i + 1}
           f == [x \in A |-> IF x <= i THEN x ELSE x + 1]
<1>1. i \in Nat /\ i <= n
    OBVIOUS
<1>2. \A x \in A : IF x <= i THEN x \in C ELSE x + 1 \in C
    <2> TAKE x \in A
    <2>1. x \in 1..i \/ x \in (i + 1)..n
        BY <1>1
    <2>2. x \in 1..i => x <= i /\ x # i + 1
        BY <1>1
    <2>3. x \in (i + 1)..n => ~(x <= i) /\ x + 1 # i + 1
        BY <1>1
    <2> QED
        BY <2>1, <2>2, <2>3
<1>3. f \in [A -> C] /\ \A x \in A : f[x] = IF x <= i THEN x ELSE x + 1
    BY <1>2
<1>4. \A a, b \in A : f[a] = f[b] => a = b
    <2> TAKE a, b \in A
    <2>1. a \in Nat /\ b \in Nat
        OBVIOUS
    <2> QED
        BY <1>1, <1>3, <2>1
<1>5. ASSUME NEW t \in C PROVE \E x \in A : f[x] = t
    <2>1. t \in 1..i \/ (t - 1 \in (i + 1)..n /\ t = (t - 1) + 1)
        BY <1>1
    <2>2. CASE t \in 1..i
        BY <1>1, <1>3, <2>2
    <2>3. CASE t - 1 \in (i + 1)..n /\ t = (t - 1) + 1
        <3>1. t - 1 \in A /\ ~(t - 1 <= i)
            BY <1>1, <2>3
        <3> QED
            BY <1>3, <2>3, <3>1
    <2> QED
        BY <2>1, <2>2, <2>3
<1> HIDE DEF f
<1>6. f \in Bijection(A, C)
    BY <1>3, <1>4, <1>5, Fun_IsBij
<1>7. IsFiniteSet(A) /\ IsFiniteSet(B)
    <2>1. IsFiniteSet(1..n) /\ IsFiniteSet(1..(n + 1))
        BY FS_Interval
    <2> QED
        BY <2>1, FS_Subset
<1>8. Cardinality(C) = Cardinality(A) /\ Cardinality(A) \in Nat /\ Cardinality(B) \in Nat
    BY <1>6, <1>7, FS_Bijection, FS_CardinalityType DEF ExistsBijection
<1>9. Cardinality(C) = IF i + 1 \in B THEN Cardinality(B) - 1 ELSE Cardinality(B)
    BY <1>7, FS_RemoveElement
<1> QED
    BY <1>8, <1>9

-----------------------------------------------------------------------------
(* The types are inductive                                                   *)

(* The page, its handler and the channel as they start.                      *)
LEMMA TypedInit == Init => Typed
<1> SUFFICES ASSUME Init PROVE Typed
    OBVIOUS
<1> USE SearchAssumption DEF Init
<1>1. task \in [at : Places, hits : 0..Hits, sent : Seq(1..Hits)] /\ (task.hits = 0 => task.sent = <<>>)
    BY DEF NoTask, Places
<1>2. /\ calls \in Seq(CallNames) /\ signals \in Seq(Sig(searches)) /\ shown \in Seq(Shown(searches))
      /\ DOMAIN signals = {} /\ DOMAIN calls = {} /\ Len(calls) = 0 /\ Len(shown) = 0
    OBVIOUS
<1>3. Unused
    BY <1>2 DEF Unused
<1>4. HandlerOK
    BY <1>1 DEF HandlerOK
<1>5. ScriptOK
    <2>1. 0 \in 0..Len(shown) /\ 0 \in 0..Pages
        BY <1>2
    <2> QED
        BY <1>2, <2>1 DEF ScriptOK
<1>6. ChannelOK
    BY <1>2 DEF ChannelOK
<1> QED
    BY <1>3, <1>4, <1>5, <1>6 DEF Typed

(* Signals that mean something join signals that do.                         *)
LEMMA TypedSignals ==
    ASSUME Typed, NEW ss \in Seq(Sig(searches)), \A i \in DOMAIN ss : Meant(ss[i]), Emit(ss),
           searches' \in Nat, searches' >= searches
    PROVE  signals' \in Seq(Sig(searches')) /\ \A i \in DOMAIN signals' : Meant(signals'[i])
<1>1. signals \in Seq(Sig(searches)) /\ signals' \in Seq(Sig(searches)) /\ Joins(signals', signals, ss)
    BY Joined DEF Typed, ChannelOK, Emit
<1>2. Sig(searches) \subseteq Sig(searches')
    BY DEF Sig, Typed, HandlerOK
<1>3. signals' \in Seq(Sig(searches'))
    BY <1>1, <1>2, SeqMonotonic
<1>4. ASSUME NEW i \in DOMAIN signals' PROVE Meant(signals'[i])
    <2>1. CASE i \in DOMAIN signals
        BY <1>1, <2>1 DEF Typed, ChannelOK, Joins
    <2>2. CASE i - Len(signals) \in DOMAIN ss
        <3>1. i = Len(signals) + (i - Len(signals))
            BY <1>1 DEF Joins
        <3> QED
            BY <1>1, <2>2, <3>1 DEF Joins
    <2> QED
        BY <1>1, <2>1, <2>2 DEF Joins
<1> QED
    BY <1>3, <1>4

(* What the searches say when task goes to task': nothing that clears the    *)
(* page, the hit that the last search sends last, and for its first hit the  *)
(* number of the page before it; survivors send only hits of their own.      *)
Said(ss) ==
    /\ \A i \in DOMAIN ss :
          /\ Meant(ss[i]) /\ ss[i].signal # "clear"
          /\ ss[i].signal = "vPageStatus" => ss[i].arg = vPageCurrent + 1
          /\ ss[i].signal = "resultReady" => OwnHit(ss[i]) \/ ss[i].search \in Survived
          /\ OwnHit(ss[i]) =>
                /\ i = Len(ss) /\ task'.sent = Append(task.sent, ss[i].arg)
                /\ task.at = "search" /\ ss[i].arg = task.hits + 1 /\ task'.hits = task.hits + 1
    /\ task'.sent = task.sent \/ (Len(ss) > 0 /\ OwnHit(ss[Len(ss)]))
    /\ task'.hits = 0 \/ task.hits > 0 \/ (Len(ss) = 2 /\ ss[1].signal = "vPageStatus")

LEMMA TaskEmits ==
    ASSUME Typed, Task \/ LateTimeout
    PROVE  \E ss \in Seq(Sig(searches)) : Emit(ss) /\ Said(ss)
<1>0. searches \in Nat
    BY DEF Typed, HandlerOK
<1>1. CASE Hit
    <2> DEFINE n == task.hits + 1
               numbered == With("vPageStatus", vPageCurrent + 1)
               ready == Ready(searches, n)
               running == Signal("searchRunning")
    <2>1. n \in 1..Hits /\ n \in Nat /\ vPageCurrent + 1 \in 1..Pages /\ vPageCurrent + 1 \in Nat
          /\ (n = 1 <=> ~(task.hits > 0))
        BY <1>1, SearchAssumption DEF Hit, Typed, HandlerOK
    <2>2. /\ numbered \in Sig(searches) /\ running \in Sig(searches)
          /\ numbered.signal = "vPageStatus" /\ running.signal = "searchRunning"
          /\ numbered.arg = vPageCurrent + 1 /\ Meant(numbered) /\ Meant(running)
        BY <1>0, <2>1, SignalIs DEF Names, Busy, Meant
    <2>3. /\ ready \in Sig(searches) /\ ready.signal = "resultReady" /\ ready.arg = n
          /\ ready.search = searches /\ Meant(ready)
        <3>1. searches \in 1..searches
            BY <1>0, <1>1 DEF Hit, Typed, Unused, NoTask
        <3> QED
            BY <1>0, <2>1, <3>1, ReadyIs
    <2>4. \/ /\ task' = [task EXCEPT !.hits = n, !.sent = Append(@, n)]
             /\ \/ n # 1 /\ Emit(<<>> \o <<ready>>)
                \/ n = 1 /\ Emit(<<numbered>> \o <<ready>>)
          \/ /\ task' = [task EXCEPT !.hits = n]
             /\ \/ n # 1 /\ Emit(<<>> \o <<running>>)
                \/ n = 1 /\ Emit(<<numbered>> \o <<running>>)
        BY <1>1 DEF Hit, Step
    <2> HIDE DEF n, numbered, ready, running
    <2>0. task.at = "search" /\ task'.hits = n /\ n = task.hits + 1
        BY <1>1, <2>4 DEF Hit, Typed, HandlerOK, n
    <2>5. \/ /\ task'.sent = Append(task.sent, n)
             /\ \/ task.hits > 0 /\ Emit(<<ready>>)
                \/ Emit(<<numbered, ready>>)
          \/ /\ task'.sent = task.sent
             /\ \/ task.hits > 0 /\ Emit(<<running>>)
                \/ Emit(<<numbered, running>>)
        BY <2>1, <2>4, OneByOne DEF Typed, HandlerOK
    <2>6. CASE /\ task'.sent = Append(task.sent, n)
               /\ (task.hits > 0 /\ Emit(<<ready>>)) \/ Emit(<<numbered, ready>>)
        <3>1. task.hits > 0 => Said(<<ready>>)
            BY <2>0, <2>2, <2>3, <2>6 DEF Said, OwnHit
        <3>2. Said(<<numbered, ready>>)
            BY <2>0, <2>2, <2>3, <2>6 DEF Said, OwnHit
        <3>3. <<ready>> \in Seq(Sig(searches)) /\ <<numbered, ready>> \in Seq(Sig(searches))
            BY <2>2, <2>3
        <3> QED
            BY <3>1, <3>2, <3>3, <2>6
    <2>7. CASE /\ task'.sent = task.sent
               /\ (task.hits > 0 /\ Emit(<<running>>)) \/ Emit(<<numbered, running>>)
        <3>1. task.hits > 0 => Said(<<running>>)
            BY <2>2, <2>7 DEF Said, OwnHit
        <3>2. Said(<<numbered, running>>)
            BY <2>2, <2>7 DEF Said, OwnHit
        <3>3. <<running>> \in Seq(Sig(searches)) /\ <<numbered, running>> \in Seq(Sig(searches))
            BY <2>2
        <3> QED
            BY <3>1, <3>2, <3>3, <2>7
    <2> QED
        BY <2>5, <2>6, <2>7
<1>2. CASE Complete \/ NoHits \/ Raise \/ Expire \/ TimedOut \/ LateTimeout
    <2>1. PICK s \in Over : Emit(<<Signal(s)>>) \/ Emit(<<>>)
        BY <1>2 DEF Complete, NoHits, Raise, Expire, TimedOut, LateTimeout, Step, Over
    <2>2. task'.sent = task.sent /\ task'.hits = task.hits /\ (task'.hits = 0 \/ task.hits > 0)
        BY <1>2 DEF Complete, NoHits, Raise, Expire, TimedOut, LateTimeout, Step, Ends, Typed, HandlerOK
    <2>3. Signal(s) \in Sig(searches) /\ Signal(s).signal \in Over /\ Meant(Signal(s))
        BY <1>0, SignalIs DEF Meant, Names, Over
    <2>4. <<Signal(s)>> \in Seq(Sig(searches)) /\ Said(<<Signal(s)>>)
        BY <2>2, <2>3 DEF Said, Over, OwnHit
    <2>5. <<>> \in Seq(Sig(searches)) /\ Said(<<>>)
        BY <2>2 DEF Said
    <2> QED
        BY <2>1, <2>4, <2>5
<1> QED
    BY <1>1, <1>2 DEF Task

(* A survivor sends a hit of its own, or says that it is over.               *)
LEMMA SurvivorEmits ==
    ASSUME Typed, Survivor
    PROVE  /\ UNCHANGED <<vPageCurrent, searches, task, late, calls, script>>
           /\ survivors' \subseteq Replaced(searches) /\ Survived' = Survived /\ searches > 0
           /\ \E ss \in Seq(Sig(searches)) : Emit(ss) /\ Said(ss)
           /\ AllOver' => \E e \in Sig(searches) : e.signal \in Over /\ Emit(<<e>>)
<1>1. PICK s \in survivors : s.at = "search" /\ (SurvivorHit(s) \/ SurvivorEnds(s))
    BY DEF Survivor
<1>2. /\ searches \in Nat /\ s \in Replaced(searches) /\ survivors \subseteq Replaced(searches)
      /\ s.search \in Survived
    BY <1>1 DEF Typed, HandlerOK, Survived
<1>3. s.search \in 1..(searches - 1) /\ s.hits \in 0..Hits /\ s.search \in 1..searches
      /\ s.search # searches /\ searches > 0
    BY <1>2 DEF Replaced
<1>4. PICK at, n, ss :
          /\ Goes(s, at, n, ss) /\ at \in {"search", "over", "raised"} /\ n \in 0..Hits
          /\ \/ at = "search" /\ n \in 1..Hits /\ ss \in {<<Ready(s.search, n)>>, <<Signal("searchRunning")>>}
             \/ at = "over" /\ \E o \in Over : ss = <<Signal(o)>>
             \/ at = "raised" /\ ss = <<>>
    <2>1. CASE SurvivorHit(s)
        <3>1. s.hits + 1 \in 1..Hits /\ s.hits + 1 \in 0..Hits
            BY <1>3, <2>1, SearchAssumption DEF SurvivorHit
        <3> QED
            BY <2>1, <3>1 DEF SurvivorHit
    <2>2. CASE SurvivorEnds(s)
        BY <1>3, <2>2, SearchAssumption DEF SurvivorEnds, Over
    <2> QED
        BY <1>1, <2>1, <2>2
<1>5. UNCHANGED <<vPageCurrent, searches, task, late, calls, script>> /\ Emit(ss)
    BY <1>4 DEF Goes
<1> DEFINE t == [s EXCEPT !.at = at, !.hits = n]
<1>6. t \in Replaced(searches) /\ t.search = s.search /\ t.at = at
    BY <1>2, <1>4 DEF Replaced
<1>7. survivors' = (survivors \ {s}) \union {t}
    BY <1>4 DEF Goes
<1> HIDE DEF t
<1>8. survivors' \subseteq Replaced(searches)
    BY <1>2, <1>6, <1>7
<1>9. Survived' = Survived
    BY <1>1, <1>6, <1>7 DEF Survived
<1>10. ASSUME NEW e \in Sig(searches), Meant(e), e.signal \in {"resultReady", "searchRunning"} \union Over,
              e.signal = "resultReady" => e.search = s.search
       PROVE  <<e>> \in Seq(Sig(searches)) /\ Said(<<e>>)
    <2>1. task'.sent = task.sent /\ (task'.hits = 0 \/ task.hits > 0)
        BY <1>5 DEF Typed, HandlerOK
    <2>2. ~OwnHit(e) /\ e.signal # "clear" /\ e.signal # "vPageStatus"
        BY <1>3, <1>10 DEF OwnHit, Over
    <2>3. DOMAIN <<e>> = {1} /\ <<e>>[1] = e
        OBVIOUS
    <2> QED
        BY <1>2, <1>10, <2>1, <2>2, <2>3 DEF Said
<1>11. \A o \in Over : Signal(o) \in Sig(searches) /\ Signal(o).signal = o /\ Meant(Signal(o))
    BY <1>2, SignalIs DEF Meant, Names, Over
<1>12. ss \in Seq(Sig(searches)) /\ Said(ss)
    <2>1. CASE ss = <<>>
        <3>1. task'.sent = task.sent /\ (task'.hits = 0 \/ task.hits > 0)
            BY <1>5 DEF Typed, HandlerOK
        <3> QED
            BY <2>1, <3>1 DEF Said
    <2>2. CASE n \in 1..Hits /\ ss = <<Ready(s.search, n)>>
        BY <1>2, <1>3, <1>10, <2>2, ReadyIs
    <2>3. CASE ss = <<Signal("searchRunning")>>
        <3>1. /\ Signal("searchRunning") \in Sig(searches) /\ Signal("searchRunning").signal = "searchRunning"
              /\ Meant(Signal("searchRunning"))
            BY <1>2, SignalIs DEF Meant, Names, Busy
        <3> QED
            BY <1>10, <2>3, <3>1
    <2>4. CASE \E o \in Over : ss = <<Signal(o)>>
        <3>1. PICK o \in Over : ss = <<Signal(o)>>
            BY <2>4
        <3>2. o # "resultReady"
            BY DEF Over
        <3> QED
            BY <1>10, <1>11, <3>1, <3>2
    <2> QED
        BY <1>4, <2>1, <2>2, <2>3, <2>4
<1>13. ASSUME AllOver' PROVE \E e \in Sig(searches) : e.signal \in Over /\ Emit(<<e>>)
    <2>1. at = "over"
        BY <1>6, <1>7, <1>13 DEF AllOver
    <2> QED
        BY <1>4, <1>5, <1>11, <2>1
<1> QED
    BY <1>3, <1>5, <1>8, <1>9, <1>12, <1>13

(* A slot that spawns a search clears the page first; the others say         *)
(* nothing.                                                                  *)
Cleared(ss) ==
    /\ 1 \in DOMAIN ss /\ ss[1].signal = "clear"
    /\ \A i \in DOMAIN ss : Meant(ss[i]) /\ (i = 1 \/ ss[i].signal = "searchStarted")

Outlives ==
    task.at = "search" /\ survivors' = survivors \union {[search |-> searches, at |-> "search", hits |-> task.hits]}

LEMMA SlotEmits ==
    ASSUME Typed, Slot
    PROVE  /\ UNCHANGED script
           /\ \/ UNCHANGED <<signals, searches, vPageCurrent, survivors>> /\ task' \in {task, NoTask}
              \/ /\ searches' = searches + 1 /\ task' = [at |-> "search", hits |-> 0, sent |-> <<>>]
                 /\ survivors' = survivors \/ Outlives
                 /\ \E ss \in Seq(Sig(searches)) : Emit(ss) /\ Cleared(ss)
<1>1. UNCHANGED script
    BY DEF Slot, OnCancel, OnSearch, OnPreviousPage, OnNextPage, OnRetry, Called
<1>2. \/ UNCHANGED <<signals, searches, vPageCurrent, survivors>> /\ task' \in {task, NoTask}
      \/ /\ Spawn /\ (survivors' = survivors \/ Outlives)
         /\ Emit(<<Signal("clear")>>) \/ Emit(<<Signal("clear"), Signal("searchStarted")>>)
    <2>1. CancelTasks => survivors' = survivors \/ Outlives
        BY DEF CancelTasks, Dies, Survives, Swallowed, Outlives
    <2>2. OnCancel => UNCHANGED <<signals, searches, vPageCurrent, survivors>> /\ task' \in {task, NoTask}
        BY DEF OnCancel, Dies
    <2> QED
        BY <2>1, <2>2 DEF Slot, OnSearch, OnPreviousPage, OnNextPage, OnRetry, handler
<1>3. Spawn => searches' = searches + 1 /\ task' = [at |-> "search", hits |-> 0, sent |-> <<>>]
    BY DEF Spawn, NoTask
<1> DEFINE a == Signal("clear")
           b == Signal("searchStarted")
<1>4. /\ a \in Sig(searches) /\ a.signal = "clear" /\ Meant(a)
      /\ b \in Sig(searches) /\ b.signal = "searchStarted" /\ Meant(b)
    BY SignalIs DEF Typed, HandlerOK, Names, Busy, Meant
<1> HIDE DEF a, b
<1>5. <<a>> \in Seq(Sig(searches)) /\ Cleared(<<a>>)
    BY <1>4 DEF Cleared
<1>6. <<a, b>> \in Seq(Sig(searches)) /\ Cleared(<<a, b>>)
    BY <1>4 DEF Cleared
<1> QED
    BY <1>1, <1>2, <1>3, <1>5, <1>6 DEF a, b

(* What the user asks for is a call that the handler has a slot for.         *)
LEMMA TypedUser ==
    ASSUME Typed, User PROVE Typed'
<1>1. PICK fs \in {<<"cancelSearchTasks", "search">>, <<"previousPage">>, <<"nextPage">>,
                   <<"searchRetry">>} :
          /\ Ask(fs) /\ (fs # <<"cancelSearchTasks", "search">> => controls \/ retry)
          /\ UNCHANGED <<shown, status, retry, page>>
          /\ lastInserted' \in {0, lastInserted} /\ controls' \in {FALSE, controls}
    <2>1. CASE RunSearch
        BY <2>1 DEF RunSearch
    <2>2. CASE Turn
        BY <2>2 DEF Turn
    <2>3. CASE Retry
        BY <2>3 DEF Retry, script
    <2> QED
        BY <2>1, <2>2, <2>3 DEF User
<1>2. fs \in Seq(CallNames)
    <2>1. /\ <<"cancelSearchTasks", "search">> \in Seq(CallNames) /\ <<"previousPage">> \in Seq(CallNames)
          /\ <<"nextPage">> \in Seq(CallNames) /\ <<"searchRetry">> \in Seq(CallNames)
        BY DEF CallNames
    <2> QED
        BY <2>1
<1>3. calls' \in Seq(CallNames) /\ Joins(calls', calls, fs)
    BY <1>1, <1>2, Joined DEF Ask, Typed, ChannelOK
<1>4. searches + Len(calls') <= MaxSearches + 1
    BY <1>1, <1>3, SearchAssumption DEF Ask, Typed, HandlerOK, Joins
<1>5. searches = 0 => \A i \in DOMAIN calls' : calls'[i] \in {"cancelSearchTasks", "search"}
    <2> SUFFICES ASSUME searches = 0, NEW i \in DOMAIN calls'
                 PROVE  calls'[i] \in {"cancelSearchTasks", "search"}
        OBVIOUS
    <2>1. fs = <<"cancelSearchTasks", "search">>
        BY <1>1 DEF Typed, Unused
    <2>2. CASE i \in DOMAIN calls
        BY <1>3, <2>2 DEF Typed, Unused, Joins
    <2>3. CASE i - Len(calls) \in DOMAIN fs
        <3>1. i = Len(calls) + (i - Len(calls))
            BY <1>3 DEF Joins
        <3> QED
            BY <1>3, <2>1, <2>3, <3>1 DEF Joins
    <2> QED
        BY <1>3, <2>2, <2>3 DEF Joins
<1>6. UNCHANGED <<vPageCurrent, searches, task, late, survivors, signals>>
    BY <1>1 DEF Ask, handler
<1>7. lastInserted' \in 0..Len(shown)
    BY <1>1 DEF Typed, ScriptOK
<1>8. HandlerOK'
    BY <1>6 DEF Typed, HandlerOK
<1>9. ScriptOK'
    BY <1>1, <1>6, <1>7 DEF Typed, ScriptOK
<1>10. ChannelOK'
    BY <1>3, <1>4, <1>6 DEF Typed, ChannelOK
<1>11. searches = 0 => Unused'
    BY <1>1, <1>5, <1>6 DEF Typed, Unused
<1> QED
    BY <1>6, <1>8, <1>9, <1>10, <1>11 DEF Typed

(* A slot cancels, clears and spawns, at a page that was searched.           *)
LEMMA TypedSlot ==
    ASSUME Typed, Slot PROVE Typed'
<1>1. PICK f \in CallNames : Called(f) /\ (f \notin {"cancelSearchTasks", "search"} => searches > 0)
    <2>1. PICK f \in CallNames : Called(f)
        BY DEF Slot, OnCancel, OnSearch, OnPreviousPage, OnNextPage, OnRetry, CallNames
    <2>2. calls # <<>> /\ f = calls[1] /\ 1 \in DOMAIN calls
        BY <2>1, Left DEF Called, Typed, Leaves
    <2> QED
        BY <2>1, <2>2 DEF Typed, HandlerOK, Unused
<1>2. calls' \in Seq(CallNames) /\ Leaves(calls', calls)
    BY <1>1, Left DEF Called, Typed, ChannelOK
<1>3. UNCHANGED script
    BY <1>1 DEF Called
<1>4. late' \in Nat /\ searches' \in {searches, searches + 1} /\ searches' \in Nat
    <2>1. searches + 1 \in Nat /\ late + 1 \in Nat
        BY DEF Typed, HandlerOK
    <2> QED
        BY <2>1 DEF Slot, OnCancel, OnSearch, OnPreviousPage, OnNextPage, OnRetry, CancelTasks, Dies,
           Survives, Spawn, handler, Typed, HandlerOK
<1>5. task' \in [at : Places, hits : 0..Hits, sent : Seq(1..Hits)] /\ (task'.hits = 0 => task'.sent = <<>>)
    <2>1. task' \in {task, NoTask, [NoTask EXCEPT !.at = "search"]}
        BY DEF Slot, OnCancel, OnSearch, OnPreviousPage, OnNextPage, OnRetry, Spawn, handler
    <2>2. <<>> \in Seq(1..Hits) /\ 0 \in 0..Hits
        BY SearchAssumption
    <2>3. CASE task' = task
        BY <2>3 DEF Typed, HandlerOK
    <2>4. CASE task' \in {NoTask, [NoTask EXCEPT !.at = "search"]}
        <3>1. \A at \in Places :
                 [at |-> at, hits |-> 0, sent |-> <<>>] \in [at : Places, hits : 0..Hits, sent : Seq(1..Hits)]
            BY <2>2
        <3>2. [NoTask EXCEPT !.at = "search"] = [at |-> "search", hits |-> 0, sent |-> <<>>]
            BY DEF NoTask
        <3>3. \E at \in Places : task' = [at |-> at, hits |-> 0, sent |-> <<>>]
            BY <2>4, <3>2 DEF NoTask, Places
        <3> QED
            BY <3>1, <3>3
    <2> QED
        BY <2>1, <2>3, <2>4
<1>6. signals' = signals \/ \E ss \in Seq(Sig(searches)) : Emit(ss) /\ Cleared(ss)
    BY SlotEmits
<1>7. signals' \in Seq(Sig(searches')) /\ \A i \in DOMAIN signals' : Meant(signals'[i])
    <2>1. CASE signals' = signals
        <3>1. Sig(searches) \subseteq Sig(searches')
            BY <1>4 DEF Sig, Typed, HandlerOK
        <3> QED
            BY <2>1, <3>1, SeqMonotonic DEF Typed, ChannelOK
    <2>2. CASE \E ss \in Seq(Sig(searches)) : Emit(ss) /\ Cleared(ss)
        BY <1>4, <2>2, TypedSignals DEF Typed, HandlerOK, Cleared
    <2> QED
        BY <1>6, <2>1, <2>2
<1>8. shown' \in Seq(Shown(searches'))
    <2>1. Shown(searches) \subseteq Shown(searches')
        BY <1>4 DEF Shown, Typed
    <2> QED
        BY <1>3, <2>1, SeqMonotonic DEF Typed, ScriptOK, script
<1>9. /\ searches' + Len(calls') <= MaxSearches + 1
      /\ vPageCurrent' \in Nat /\ (searches' > 0 => vPageCurrent' < searches')
    <2>1. searches' + Len(calls') <= MaxSearches + 1
        <3>1. Len(calls) \in Nat /\ Len(calls') = Len(calls) - 1
            BY <1>2 DEF Leaves
        <3>2. searches \in Nat /\ searches + Len(calls) <= MaxSearches + 1 /\ MaxSearches \in Nat
            BY SearchAssumption DEF Typed, HandlerOK, ChannelOK
        <3> QED
            BY <1>4, <3>1, <3>2
    <2>2. CASE searches = 0
        <3>1. vPageCurrent' = 0 /\ vPageCurrent = 0
            BY <1>1, <2>2 DEF Slot, OnCancel, OnSearch, OnPreviousPage, OnNextPage, OnRetry, Called,
                              Typed, Unused
        <3> QED
            BY <1>4, <2>1, <3>1
    <2>3. CASE searches > 0
        <3>1. \/ vPageCurrent' \in {vPageCurrent, 0}
              \/ vPageCurrent > 0 /\ vPageCurrent' = vPageCurrent - 1
              \/ vPageCurrent' = vPageCurrent + 1 /\ searches' = searches + 1
            BY DEF Slot, OnCancel, OnSearch, OnPreviousPage, OnNextPage, OnRetry, Spawn, handler
        <3> QED
            BY <1>4, <2>1, <2>3, <3>1 DEF Typed, HandlerOK, ScriptOK
    <2> QED
        BY <2>2, <2>3 DEF Typed, HandlerOK
<1>10. searches' = 0 => Unused'
    <2> SUFFICES ASSUME searches' = 0 PROVE Unused'
        OBVIOUS
    <2>1. searches = 0 /\ OnCancel
        BY <1>1, <1>4 DEF Slot, OnSearch, OnPreviousPage, OnNextPage, OnRetry, Called, Spawn, Typed, HandlerOK
    <2>2. UNCHANGED <<vPageCurrent, signals, controls, retry, late, survivors>> /\ task' = NoTask
        BY <1>3, <2>1 DEF OnCancel, Dies, script, Typed, Unused, NoTask
    <2> QED
        BY <1>2, <2>1, <2>2 DEF Typed, Unused, Leaves
<1>11. survivors' \subseteq Replaced(searches')
    <2>1. Replaced(searches) \subseteq Replaced(searches')
        BY <1>4 DEF Replaced, Typed, HandlerOK
    <2>2. CASE survivors' = survivors
        BY <2>1, <2>2 DEF Typed, HandlerOK
    <2>3. CASE Outlives /\ searches' = searches + 1
        <3>1. searches \in 1..(searches' - 1) /\ task.hits \in 0..Hits
            BY <2>3 DEF Outlives, Typed, Unused, HandlerOK, NoTask
        <3>2. [search |-> searches, at |-> "search", hits |-> task.hits] \in Replaced(searches')
            BY <3>1 DEF Replaced
        <3> QED
            BY <2>1, <2>3, <3>2 DEF Outlives, Typed, HandlerOK
    <2> QED
        BY <2>2, <2>3, SlotEmits
<1> QED
    BY <1>2, <1>3, <1>4, <1>5, <1>7, <1>8, <1>9, <1>10, <1>11 DEF Typed, HandlerOK, ScriptOK, ChannelOK, script

(* What the search task does: at most two signals, and its own record.       *)
LEMMA TypedTask ==
    ASSUME Typed, Task \/ LateTimeout PROVE Typed'
<1>1. /\ UNCHANGED <<vPageCurrent, searches, survivors, calls, script>>
      /\ late' = late \/ (late > 0 /\ late' = late - 1)
      /\ task.at # "none" \/ late > 0
    <2>1. CASE Hit
        BY <2>1 DEF Hit, Step
    <2>2. CASE Complete \/ NoHits \/ Raise \/ Expire \/ TimedOut
        BY <2>2 DEF Complete, NoHits, Raise, Expire, TimedOut, Step
    <2>3. CASE LateTimeout
        BY <2>3 DEF LateTimeout
    <2> QED
        BY <2>1, <2>2, <2>3 DEF Task
<1>2. searches > 0 /\ late' \in Nat
    BY <1>1 DEF Typed, HandlerOK, Unused, NoTask
<1>3. task' \in [at : Places, hits : 0..Hits, sent : Seq(1..Hits)] /\ (task'.hits = 0 => task'.sent = <<>>)
    <2>1. CASE Hit
        <3> DEFINE n == task.hits + 1
        <3>1. n \in 1..Hits /\ n # 0 /\ n \in 0..Hits
            BY <2>1, SearchAssumption DEF Hit, Typed, HandlerOK
        <3>2. \/ task' = [task EXCEPT !.hits = n, !.sent = Append(@, n)]
              \/ task' = [task EXCEPT !.hits = n]
            BY <2>1 DEF Hit, Step
        <3> HIDE DEF n
        <3>3. Append(task.sent, n) \in Seq(1..Hits)
            BY <3>1 DEF Typed, HandlerOK
        <3> QED
            BY <3>1, <3>2, <3>3 DEF Typed, HandlerOK
    <2>2. CASE Complete \/ NoHits \/ Raise \/ Expire \/ TimedOut
        <3>1. PICK at \in Places : task' = [task EXCEPT !.at = at]
            BY <2>2 DEF Complete, NoHits, Raise, Expire, TimedOut, Step, Ends, Places
        <3> QED
            BY <3>1 DEF Typed, HandlerOK
    <2>3. CASE LateTimeout
        BY <2>3 DEF LateTimeout, Typed, HandlerOK
    <2> QED
        BY <2>1, <2>2, <2>3 DEF Task
<1>4. \E ss \in Seq(Sig(searches)) : Emit(ss) /\ \A i \in DOMAIN ss : Meant(ss[i])
    BY TaskEmits DEF Said
<1>5. ChannelOK'
    <2>1. signals' \in Seq(Sig(searches')) /\ \A i \in DOMAIN signals' : Meant(signals'[i])
        BY <1>1, <1>4, TypedSignals DEF Typed, HandlerOK
    <2> QED
        BY <1>1, <2>1 DEF Typed, ChannelOK
<1>6. HandlerOK'
    BY <1>1, <1>2, <1>3 DEF Typed, HandlerOK
<1>7. ScriptOK'
    BY <1>1 DEF Typed, ScriptOK, script
<1> QED
    BY <1>1, <1>2, <1>5, <1>6, <1>7 DEF Typed

(* What a survivor does: at most one signal, and its own record.             *)
LEMMA TypedSurvivor ==
    ASSUME Typed, Survivor PROVE Typed'
<1>1. /\ UNCHANGED <<vPageCurrent, searches, task, late, calls, script>>
      /\ survivors' \subseteq Replaced(searches) /\ searches > 0
    BY SurvivorEmits
<1>2. \E ss \in Seq(Sig(searches)) : Emit(ss) /\ \A i \in DOMAIN ss : Meant(ss[i])
    BY SurvivorEmits DEF Said
<1>3. signals' \in Seq(Sig(searches')) /\ \A i \in DOMAIN signals' : Meant(signals'[i])
    BY <1>1, <1>2, TypedSignals DEF Typed, HandlerOK
<1>4. ChannelOK'
    BY <1>1, <1>3 DEF Typed, ChannelOK
<1>5. HandlerOK'
    BY <1>1 DEF Typed, HandlerOK
<1>6. ScriptOK'
    BY <1>1 DEF Typed, ScriptOK, script
<1> QED
    BY <1>1, <1>4, <1>5, <1>6 DEF Typed

(* What the script makes of a signal.                                        *)
LEMMA TypedReact ==
    ASSUME Typed, React PROVE Typed'
<1>1. PICK s \in Names : Received(s)
    BY DEF React, Clear, ResultReady, Searching, PageStatus, Failed, SearchComplete, Names, Busy, Over
<1>2. /\ signals' \in Seq(Sig(searches)) /\ Leaves(signals', signals)
      /\ Head(signals) \in Sig(searches) /\ Head(signals).signal = s /\ Meant(Head(signals))
    <2>1. signals \in Seq(Sig(searches)) /\ signals # <<>> /\ signals' = Tail(signals)
          /\ Head(signals).signal = s
        BY <1>1 DEF Typed, ChannelOK, Received
    <2>2. signals' \in Seq(Sig(searches)) /\ Leaves(signals', signals) /\ Head(signals) \in Sig(searches)
        BY <2>1, Left
    <2> QED
        BY <2>1, <2>2 DEF Typed, ChannelOK, Leaves
<1>3. UNCHANGED <<handler, calls>>
    BY <1>1 DEF Received
<1>4. searches > 0
    <2>1. signals # <<>>
        BY <1>1 DEF Received
    <2> QED
        BY <2>1 DEF Typed, HandlerOK, Unused
<1>5. ChannelOK'
    BY <1>2, <1>3 DEF Typed, ChannelOK, handler, Leaves
<1>6. HandlerOK'
    BY <1>3 DEF Typed, HandlerOK, handler
<1>7. shown' \in Seq(Shown(searches)) /\ lastInserted' \in 0..Len(shown')
    <2>1. CASE ResultReady
        <3>1. Element \in Shown(searches)
            BY <1>2, <2>1 DEF ResultReady, Received, Meant, Element, Sig, Shown, Typed, HandlerOK
        <3>2. shown \in Seq(Shown(searches)) /\ lastInserted \in 0..Len(shown)
            BY DEF Typed, ScriptOK
        <3>3. shown' \in Seq(Shown(searches)) /\ Len(shown') = Len(shown) + 1
            <4>1. shown' = InsertAt(shown, lastInserted + 1, Element) /\ lastInserted' = lastInserted + 1
                BY <2>1 DEF ResultReady
            <4>2. shown' \in Seq(Shown(searches)) /\ Inserts(shown', shown, lastInserted, Element)
                BY <3>1, <3>2, <4>1, Inserted
            <4>3. Len(shown') = Len(shown) + 1
                BY <4>2 DEF Inserts
            <4> QED
                BY <3>2, <4>1, <4>2, <4>3
        <3> QED
            BY <2>1, <3>2, <3>3 DEF ResultReady
    <2>2. CASE Clear
        BY <2>2 DEF Clear
    <2>3. CASE UNCHANGED <<shown, lastInserted>>
        BY <2>3 DEF Typed, ScriptOK
    <2> QED
        BY <2>1, <2>2, <2>3 DEF React, Searching, PageStatus, Failed, SearchComplete
<1>8. /\ status' \in {"waitinput", "searching"} /\ page' \in 0..Pages
      /\ retry' \in BOOLEAN /\ controls' \in BOOLEAN
    <2>1. page' \in 0..Pages
        <3>1. CASE PageStatus
            BY <1>2, <3>1, SearchAssumption DEF PageStatus, Received, Meant
        <3>2. CASE page' = page
            BY <3>2 DEF Typed, ScriptOK
        <3> QED
            BY <3>1, <3>2 DEF React, Clear, ResultReady, Searching, Failed, SearchComplete
    <2>2. status' \in {"waitinput", "searching"}
        BY DEF React, Clear, ResultReady, Searching, PageStatus, Failed, SearchComplete, Typed, ScriptOK
    <2>3. retry' \in BOOLEAN /\ controls' \in BOOLEAN
        BY DEF React, Clear, ResultReady, Searching, PageStatus, Failed, SearchComplete, Typed, ScriptOK
    <2> QED
        BY <2>1, <2>2, <2>3
<1>9. ScriptOK'
    BY <1>3, <1>7, <1>8 DEF ScriptOK, handler
<1> QED
    BY <1>3, <1>4, <1>5, <1>6, <1>9 DEF Typed, handler

(* Every step of the page, its handler or its search keeps the types.        *)
LEMMA TypedStep == Typed /\ [Next]_vars => Typed'
<1>1. ASSUME Typed, UNCHANGED vars PROVE Typed'
    BY <1>1 DEF vars, handler, script, Typed, HandlerOK, ScriptOK, ChannelOK, Unused
<1> QED
    BY <1>1, TypedUser, TypedSlot, TypedTask, TypedSurvivor, TypedReact DEF Next

(* Every reachable state of the page, its handler and their channel has its  *)
(* type.                                                                     *)
THEOREM TypeCorrect == Spec => []TypeOK
<1>1. Typed => TypeOK
    <2> SUFFICES ASSUME Typed PROVE TypeOK
        OBVIOUS
    <2>1. vPageCurrent \in 0..MaxSearches /\ searches \in 0..(MaxSearches + 1)
        <3>1. Len(calls) \in Nat
            BY DEF Typed, ChannelOK
        <3> QED
            BY <3>1, SearchAssumption DEF Typed, HandlerOK, ChannelOK, Unused
    <2>2. signals \in Seq([signal : {"clear", "searchStarted", "searchRunning", "vPageStatus",
                                    "resultReady", "searchComplete", "searchError", "searchTimeout"},
                          search : 0..searches, arg : Nat])
        <3>1. Names = {"clear", "searchStarted", "searchRunning", "vPageStatus",
                       "resultReady", "searchComplete", "searchError", "searchTimeout"}
            BY DEF Names, Busy, Over
        <3> QED
            BY <3>1 DEF Typed, ChannelOK, Sig
    <2>3. /\ task.at \in {"none", "search", "expired", "complete", "failed", "raised"}
          /\ task.hits \in 0..Hits /\ task.sent \in Seq(1..Hits) /\ late \in Nat
        BY DEF Typed, HandlerOK, Places
    <2>7. survivors \subseteq [search : 1..(searches - 1), at : {"search", "over", "raised"}, hits : 0..Hits]
        BY DEF Typed, HandlerOK, Replaced
    <2>4. shown \in Seq([search : 1..searches, hit : 1..Hits])
        BY DEF Typed, ScriptOK, Shown
    <2>5. calls \in Seq({"cancelSearchTasks", "search", "previousPage", "nextPage", "searchRetry"})
        BY DEF Typed, ChannelOK, CallNames
    <2>6. /\ lastInserted \in 0..Len(shown) /\ status \in {"waitinput", "searching"}
          /\ retry \in BOOLEAN /\ controls \in BOOLEAN /\ page \in 0..Pages
        BY DEF Typed, ScriptOK
    <2> QED
        BY <2>1, <2>2, <2>3, <2>4, <2>5, <2>6, <2>7 DEF TypeOK
<1> QED
    BY <1>1, TypedInit, TypedStep, PTL DEF Spec

-----------------------------------------------------------------------------
(* One search is shown                                                       *)

(* What neither shows, signals nor searches keeps the searches apart.        *)
LEMMA ApartUnchanged ==
    ASSUME Apart, UNCHANGED <<signals, shown, searches, survivors>> PROVE Apart'
<1>1. \A i : (Origins(i))' = Origins(i)
    BY DEF Origins, Listed, IsHit, Survived
<1> QED
    BY <1>1 DEF Apart

(* Searches that were replaced stay so.                                      *)
LEMMA SurvivedGrows ==
    ASSUME Typed, [Next]_vars
    PROVE  /\ Survived \subseteq Survived' /\ Survived' \subseteq Survived \union {searches}
           /\ ~Slot => Survived' = Survived
<1>1. CASE User \/ Task \/ LateTimeout \/ React \/ UNCHANGED vars
    <2>1. survivors' = survivors
        BY <1>1 DEF User, RunSearch, Turn, Retry, Ask, Task, Hit, Complete, NoHits, Raise, Expire, TimedOut,
           LateTimeout, Step, React, Clear, ResultReady, Searching, PageStatus, Failed, SearchComplete,
           Received, vars, handler
    <2> QED
        BY <2>1 DEF Survived
<1>2. CASE Survivor
    BY <1>2, SurvivorEmits
<1>3. CASE Slot
    <2>1. survivors' = survivors \/ Outlives
        BY <1>3, SlotEmits
    <2> QED
        BY <1>3, <2>1 DEF Outlives, Survived
<1> QED
    BY <1>1, <1>2, <1>3 DEF Next

(* Hits of the search that runs join the line behind those sent before; a    *)
(* new search begins with a signal that clears the page.                     *)
LEMMA ApartEmits ==
    ASSUME Typed, Apart, shown' = shown, Survived \subseteq Survived',
           NEW ss \in Seq(Sig(searches)), Emit(ss),
           \/ /\ searches' = searches
              /\ \A i \in DOMAIN ss :
                    ss[i].signal = "resultReady" => OwnHit(ss[i]) \/ ss[i].search \in Survived
           \/ Cleared(ss)
    PROVE  Apart'
<1> DEFINE n == Len(signals)
           n2 == Len(signals')
<1>1. Joins(signals', signals, ss)
    BY Joined DEF Typed, ChannelOK, Emit
<1>2. n \in Nat /\ n2 \in Nat /\ n <= n2 /\ DOMAIN signals = 1..n /\ DOMAIN signals' = 1..n2
    BY <1>1 DEF Joins
<1>3. ASSUME NEW i \in 0..n PROVE (Origins(i))' \subseteq Origins(i)
    <2>1. i # 0 => i \in DOMAIN signals /\ signals'[i] = signals[i]
        BY <1>1, <1>2 DEF Joins
    <2>2. i # n + 1 /\ i # n2 + 1
        BY <1>2
    <2> QED
        BY <2>1, <2>2 DEF Origins, Listed, IsHit
<1>4. \A i : i = n2 + 1 => (Origins(i))' = {searches'}
    BY <1>2 DEF Origins
<1>5. ASSUME NEW i \in (n + 1)..n2
      PROVE  i - n \in DOMAIN ss /\ signals'[i] = ss[i - n] /\ i # 0 /\ i # n2 + 1
    <2>1. i \in DOMAIN signals' /\ i \notin DOMAIN signals /\ i = n + (i - n) /\ i # 0 /\ i # n2 + 1
        BY <1>2
    <2> QED
        BY <1>1, <2>1 DEF Joins
<1>6. \A j \in 1..n : signals'[j] = signals[j]
    BY <1>1, <1>2 DEF Joins
<1>7. CASE /\ searches' = searches
           /\ \A i \in DOMAIN ss :
                 ss[i].signal = "resultReady" => OwnHit(ss[i]) \/ ss[i].search \in Survived
    <2>1. \A i \in (n + 1)..n2 : (Origins(i))' \subseteq {searches}
        BY <1>5, <1>7 DEF Origins, IsHit, OwnHit
    <2>2. Origins(n + 1) = {searches}
        BY <1>2 DEF Origins
    <2> DEFINE at(i) == IF i <= n THEN i ELSE n + 1
    <2>3. \A i \in 0..(n2 + 1) : at(i) \in 0..(n + 1) /\ (Origins(i))' \subseteq Origins(at(i))
        <3>1. \A i \in 0..(n2 + 1) : i \in 0..n \/ i \in (n + 1)..n2 \/ i = n2 + 1
            BY <1>2
        <3>2. \A i \in 0..n : at(i) = i /\ i \in 0..(n + 1)
            BY <1>2
        <3>3. \A i \in ((n + 1)..n2) \union {n2 + 1} : at(i) = n + 1 /\ n + 1 \in 0..(n + 1)
            BY <1>2
        <3> QED
            BY <1>3, <1>4, <1>7, <2>1, <2>2, <3>1, <3>2, <3>3
    <2>4. ASSUME NEW i \in 0..(n2 + 1), NEW k \in 0..(n2 + 1), i <= k,
                 NEW s \in (Origins(i))', NEW t \in (Origins(k))'
          PROVE  s = t \/ \E j \in (i + 1)..(k - 1) : signals'[j].signal = "clear"
        <3>1. at(i) <= at(k)
            BY <1>2, <2>4
        <3>2. s \in Origins(at(i)) /\ t \in Origins(at(k)) /\ at(i) \in 0..(n + 1) /\ at(k) \in 0..(n + 1)
            BY <2>3
        <3>3. s = t \/ \E j \in (at(i) + 1)..(at(k) - 1) : signals[j].signal = "clear"
            BY <3>1, <3>2 DEF Apart
        <3>4. \A j \in (at(i) + 1)..(at(k) - 1) : j \in 1..n /\ j \in (i + 1)..(k - 1)
            BY <1>2
        <3> QED
            BY <1>6, <3>3, <3>4
    <2> QED
        BY <2>4 DEF Apart
<1>8. CASE Cleared(ss)
    <2>1. \A i \in (n + 1)..n2 : (Origins(i))' = {}
        BY <1>5, <1>8 DEF Origins, IsHit, Cleared
    <2>2. n + 1 \in (n + 1)..n2 /\ signals'[n + 1].signal = "clear"
        BY <1>1, <1>8 DEF Cleared, Joins
    <2>3. ASSUME NEW i \in 0..(n2 + 1), NEW k \in 0..(n2 + 1), i <= k,
                 NEW s \in (Origins(i))', NEW t \in (Origins(k))'
          PROVE  s = t \/ \E j \in (i + 1)..(k - 1) : signals'[j].signal = "clear"
        <3>1. i \notin (n + 1)..n2 /\ k \notin (n + 1)..n2
            BY <2>1
        <3>2. CASE i <= n /\ k <= n
            <4>1. i \in 0..n /\ k \in 0..n /\ i \in 0..(n + 1) /\ k \in 0..(n + 1)
                BY <1>2, <3>2
            <4>2. s = t \/ \E j \in (i + 1)..(k - 1) : signals[j].signal = "clear"
                BY <1>3, <2>3, <4>1 DEF Apart
            <4>3. \A j \in (i + 1)..(k - 1) : j \in 1..n
                BY <4>1
            <4> QED
                BY <1>6, <4>2, <4>3
        <3>3. CASE i <= n /\ k = n2 + 1
            BY <1>2, <2>2, <3>3
        <3>4. CASE i = n2 + 1 /\ k = n2 + 1
            BY <1>4, <3>4
        <3>5. \/ i <= n /\ k <= n
              \/ i <= n /\ k = n2 + 1
              \/ i = n2 + 1 /\ k = n2 + 1
            <4> HIDE DEF n, n2
            <4> QED
                BY <1>2, <2>3, <3>1
        <3> QED
            BY <3>2, <3>3, <3>4, <3>5
    <2> QED
        BY <2>3 DEF Apart
<1> QED
    BY <1>7, <1>8

(* A hit that the script receives is inserted in what it shows.              *)
LEMMA ShowsElement ==
    ASSUME Typed, ResultReady PROVE Inserts(shown', shown, lastInserted, Element)
<1> DEFINE S == Shown(searches) \union {Element}
<1>1. Element \in S /\ shown \in Seq(S)
    <2>1. Shown(searches) \subseteq S
        OBVIOUS
    <2> QED
        BY <2>1, SeqMonotonic DEF Typed, ScriptOK
<1>2. lastInserted \in 0..Len(shown)
    BY DEF Typed, ScriptOK
<1>3. shown' = InsertAt(shown, lastInserted + 1, Element)
    BY DEF ResultReady
<1> HIDE DEF S
<1> QED
    BY <1>1, <1>2, <1>3, Inserted

(* What the script shows was at the head of the line.                        *)
LEMMA ApartReact ==
    ASSUME Typed, Apart, React PROVE Apart'
<1> DEFINE n == Len(signals)
           n2 == Len(signals')
<1>1. PICK s \in Names : Received(s)
    BY DEF React, Clear, ResultReady, Searching, PageStatus, Failed, SearchComplete, Names, Busy, Over
<1>2. Leaves(signals', signals) /\ Head(signals).signal = s /\ UNCHANGED <<searches, Survived>>
    BY <1>1, Left DEF Typed, ChannelOK, Received, handler, Survived
<1>3. /\ n \in Nat /\ n2 \in Nat /\ n2 = n - 1 /\ n >= 1 /\ signals[1].signal = s
      /\ \A i \in 1..n2 : signals'[i] = signals[i + 1]
    BY <1>2 DEF Leaves
<1>4. ASSUME NEW i \in 1..(n2 + 1) PROVE (Origins(i))' = Origins(i + 1)
    <2>1. i # 0 /\ i + 1 # 0 /\ (i = n2 + 1 <=> i + 1 = n + 1) /\ (i # n2 + 1 => i \in 1..n2)
        BY <1>3
    <2> QED
        BY <1>2, <1>3, <2>1 DEF Origins, IsHit
<1>5. (Origins(0))' \subseteq Origins(0) \union Origins(1)
    <2>1. CASE ResultReady
        <3>1. signals[1].search \notin Survived => Origins(1) = {signals[1].search}
            BY <1>3, <2>1 DEF Origins, IsHit, ResultReady, Received, Leaves
        <3>2. \A x \in DOMAIN shown' :
                 shown'[x] = Element \/ \E y \in DOMAIN shown : shown'[x] = shown[y]
            BY <2>1, ShowsElement DEF Inserts
        <3>3. Element.search = signals[1].search
            BY <1>2 DEF Element, Leaves
        <3> QED
            BY <1>2, <3>1, <3>2, <3>3 DEF Origins, Listed
    <2>2. CASE shown' = <<>>
        BY <2>2 DEF Origins, Listed
    <2>3. CASE shown' = shown
        BY <1>2, <2>3 DEF Origins, Listed
    <2> QED
        BY <2>1, <2>2, <2>3 DEF React, Clear, Searching, PageStatus, Failed, SearchComplete
<1>6. s = "clear" => (Origins(0))' = {}
    <2> SUFFICES ASSUME s = "clear" PROVE shown' = <<>>
        BY DEF Origins, Listed
    <2> QED
        BY <1>2 DEF React, Clear, ResultReady, Searching, PageStatus, Failed, SearchComplete, Received
<1>7. ASSUME NEW i \in 0..(n2 + 1), NEW k \in 0..(n2 + 1), i <= k,
             NEW u \in (Origins(i))', NEW t \in (Origins(k))'
      PROVE  u = t \/ \E j \in (i + 1)..(k - 1) : signals'[j].signal = "clear"
    <2>1. PICK a \in 0..(i + 1) : u \in Origins(a) /\ (a = i + 1 \/ i = 0)
        <3>1. CASE i = 0
            BY <1>5, <1>7, <3>1
        <3>2. CASE i # 0
            BY <1>3, <1>4, <1>7, <3>2
        <3> QED
            BY <3>1, <3>2
    <2>2. PICK b \in 0..(k + 1) : t \in Origins(b) /\ (b = k + 1 \/ k = 0)
        <3>1. CASE k = 0
            BY <1>5, <1>7, <3>1
        <3>2. CASE k # 0
            BY <1>3, <1>4, <1>7, <3>2
        <3> QED
            BY <3>1, <3>2
    <2>3. a \in 0..(n + 1) /\ b \in 0..(n + 1)
        BY <1>3
    <2>4. CASE a <= b
        <3>1. u = t \/ \E j \in (a + 1)..(b - 1) : signals[j].signal = "clear"
            BY <2>1, <2>2, <2>3, <2>4 DEF Apart
        <3>2. ASSUME NEW j \in (a + 1)..(b - 1), signals[j].signal = "clear"
              PROVE  \E x \in (i + 1)..(k - 1) : signals'[x].signal = "clear"
            <4>1. j # 1
                <5> SUFFICES ASSUME j = 1 PROVE FALSE
                    OBVIOUS
                <5>1. a = 0 /\ i = 0
                    BY <2>1, <3>2
                <5> QED
                    BY <1>3, <1>6, <1>7, <3>2, <5>1
            <4>2. j - 1 \in (i + 1)..(k - 1) /\ j - 1 \in 1..n2 /\ (j - 1) + 1 = j
                BY <1>3, <1>7, <2>1, <2>2, <4>1
            <4> QED
                BY <1>3, <3>2, <4>2
        <3> QED
            BY <3>1, <3>2
    <2>5. CASE b < a
        <3>1. a = 1 /\ b = 0 /\ i = 0 /\ k = 0
            BY <1>7, <2>1, <2>2, <2>5
        <3>2. t = u \/ \E j \in (0 + 1)..(1 - 1) : signals[j].signal = "clear"
            BY <1>3, <2>1, <2>2, <3>1 DEF Apart
        <3> QED
            BY <3>2
    <2> QED
        BY <2>3, <2>4, <2>5
<1> QED
    BY <1>7 DEF Apart

(* Every step keeps the hits of two searches apart.                          *)
LEMMA ApartStep == Typed /\ Apart /\ [Next]_vars => Apart'
<1> SUFFICES ASSUME Typed, Apart, [Next]_vars PROVE Apart'
    OBVIOUS
<1>1. CASE User
    BY <1>1, ApartUnchanged DEF User, RunSearch, Turn, Retry, Ask, script, handler
<1>2. CASE Slot
    <2>1. shown' = shown
        BY <1>2, SlotEmits DEF script
    <2> QED
        BY <1>2, <2>1, SlotEmits, SurvivedGrows, ApartEmits, ApartUnchanged
<1>3. CASE Task \/ LateTimeout \/ Survivor
    <2>1. searches' = searches /\ shown' = shown
        BY <1>3, SurvivorEmits
           DEF Task, Hit, Complete, NoHits, Raise, Expire, TimedOut, LateTimeout, Step, script
    <2>2. PICK ss \in Seq(Sig(searches)) : Emit(ss) /\ Said(ss)
        BY <1>3, TaskEmits, SurvivorEmits
    <2> QED
        BY <2>1, <2>2, SurvivedGrows, ApartEmits DEF Said
<1>4. CASE React
    BY <1>4, ApartReact
<1>5. CASE UNCHANGED vars
    BY <1>5, ApartUnchanged DEF vars, script, handler
<1> QED
    BY <1>1, <1>2, <1>3, <1>4, <1>5 DEF Next

(* Whatever is clicked while results are on their way, and however searches  *)
(* fail, the page never mixes the results of two searches, but for those of  *)
(* searches that outlive their cancellation.                                 *)
THEOREM OneSearch == Spec => []OneSearchShown
<1>1. Init => Apart
    BY DEF Init, Apart, Origins, Listed, IsHit
<1>2. Typed /\ Apart => OneSearchShown
    <2> SUFFICES ASSUME Typed, Apart, NEW i \in DOMAIN shown, NEW j \in DOMAIN shown,
                        shown[i].search \notin Survived, shown[j].search \notin Survived
                 PROVE  shown[i].search = shown[j].search
        BY DEF OneSearchShown
    <2>1. shown[i].search \in Origins(0) /\ shown[j].search \in Origins(0)
        BY DEF Origins, Listed
    <2>2. 0 \in 0..(Len(signals) + 1)
        BY DEF Typed, ChannelOK
    <2> QED
        BY <2>1, <2>2 DEF Apart
<1> QED
    BY <1>1, <1>2, TypedInit, TypedStep, ApartStep, PTL DEF Spec

-----------------------------------------------------------------------------
(* Each hit comes once                                                       *)

(* What neither shows, signals nor sends keeps the hits in order.            *)
LEMMA AscendingUnchanged ==
    ASSUME Ascending, UNCHANGED <<signals, shown, searches, task, survivors>> PROVE Ascending'
<1>1. \A i : (Hitting(i))' = Hitting(i)
    BY DEF Hitting, Coming, HitOf, IsHit, Listed, Survived
<1> QED
    BY <1>1 DEF Ascending

(* What joins the line was to come, at most one hit at a time, and what is   *)
(* to come after it is greater or belongs to a new search.                   *)
Yields(ss) ==
    /\ \A i \in DOMAIN ss : \A e \in HitOf(ss[i]) :
          i = Len(ss) /\ e \in Coming /\ \A f \in Coming' : Before(e, f)
    /\ \A f \in Coming' : f \in Coming \/ f.search = searches + 1

(* Every hit in the line is of a search that was spawned.                    *)
LEMMA HitsTyped ==
    ASSUME Typed, NEW i \in 0..Len(signals), NEW e \in Hitting(i)
    PROVE  e.search \in 0..searches
<1>1. CASE i = 0
    <2>1. PICK x \in DOMAIN shown : e = shown[x]
        BY <1>1 DEF Hitting, Listed
    <2>2. shown[x] \in Shown(searches) /\ searches \in Nat
        BY DEF Typed, ScriptOK, HandlerOK
    <2> QED
        BY <2>1, <2>2 DEF Shown
<1>2. CASE i # 0
    <2>1. i \in DOMAIN signals /\ i # Len(signals) + 1
        BY <1>2 DEF Typed, ChannelOK
    <2>2. signals[i].search \in 0..searches
        <3>1. signals[i] \in Sig(searches)
            BY <2>1 DEF Typed, ChannelOK
        <3> QED
            BY <3>1 DEF Sig
    <2>3. e \in HitOf(signals[i])
        BY <1>2, <2>1 DEF Hitting
    <2> QED
        BY <2>2, <2>3 DEF HitOf
<1> QED
    BY <1>1, <1>2

LEMMA AscendingEmits ==
    ASSUME Typed, Ascending, shown' = shown, Survived \subseteq Survived',
           NEW ss \in Seq(Sig(searches)), Emit(ss), Yields(ss)
    PROVE  Ascending'
<1> DEFINE n == Len(signals)
           n2 == Len(signals')
<1>1. Joins(signals', signals, ss)
    BY Joined DEF Typed, ChannelOK, Emit
<1>2. n \in Nat /\ n2 \in Nat /\ n <= n2 /\ DOMAIN signals = 1..n /\ DOMAIN signals' = 1..n2
    BY <1>1 DEF Joins
<1>3. ASSUME NEW i \in 0..n PROVE (Hitting(i))' \subseteq Hitting(i)
    <2>1. i # 0 => i \in DOMAIN signals /\ signals'[i] = signals[i]
        BY <1>1, <1>2 DEF Joins
    <2>2. i # n + 1 /\ i # n2 + 1
        BY <1>2
    <2> QED
        BY <2>1, <2>2 DEF Hitting, HitOf, IsHit, Listed
<1>4. ASSUME NEW i \in (n + 1)..n2, NEW e \in (Hitting(i))'
      PROVE  i = n2 /\ e \in Coming /\ \A f \in Coming' : Before(e, f)
    <2>1. i \in DOMAIN signals' /\ i \notin DOMAIN signals /\ i = n + (i - n) /\ i # 0 /\ i # n2 + 1
        BY <1>2
    <2>2. i - n \in DOMAIN ss /\ signals'[i] = ss[i - n] /\ Len(ss) = n2 - n
        BY <1>1, <1>2, <2>1 DEF Joins
    <2>3. e \in HitOf(ss[i - n])
        BY <1>4, <2>1, <2>2 DEF Hitting, HitOf, IsHit
    <2>4. i - n = Len(ss) /\ e \in Coming /\ \A f \in Coming' : Before(e, f)
        BY <2>2, <2>3 DEF Yields
    <2>5. i - n = n2 - n
        BY <2>2, <2>4
    <2>6. i = n2
        <3> HIDE DEF n, n2
        <3> QED
            BY <1>2, <2>5
    <2> QED
        BY <2>4, <2>6
<1>5. Hitting(n + 1) = Coming /\ \A i : i = n2 + 1 => (Hitting(i))' = Coming'
    BY <1>2 DEF Hitting, Coming
<1>6. ASSUME NEW i \in 0..n, NEW e \in (Hitting(i))', NEW f, f \in Coming \/ f.search = searches + 1
      PROVE  Before(e, f)
    <2>1. e \in Hitting(i)
        BY <1>3, <1>6
    <2>2. CASE f \in Coming
        <3>1. i \in 0..(n + 1) /\ n + 1 \in 0..(n + 1) /\ i < n + 1
            BY <1>2
        <3> QED
            BY <1>5, <2>1, <2>2, <3>1 DEF Ascending
    <2>3. CASE f.search = searches + 1
        <3>1. e.search \in 0..searches /\ searches \in Nat
            BY <2>1, HitsTyped DEF Typed, HandlerOK
        <3> QED
            BY <2>3, <3>1 DEF Before
    <2> QED
        BY <1>6, <2>2, <2>3
<1>7. ASSUME NEW i \in 0..(n2 + 1), NEW k \in 0..(n2 + 1), i < k,
             NEW e \in (Hitting(i))', NEW f \in (Hitting(k))'
      PROVE  Before(e, f)
    <2>1. CASE k \in 0..n
        <3>1. i \in 0..n /\ i \in 0..(n + 1) /\ k \in 0..(n + 1)
            BY <1>2, <1>7, <2>1
        <3>2. e \in Hitting(i) /\ f \in Hitting(k)
            BY <1>3, <1>7, <2>1, <3>1
        <3> QED
            BY <1>7, <3>1, <3>2 DEF Ascending
    <2>2. CASE k \in (n + 1)..n2
        <3>1. f \in Coming /\ k = n2
            BY <1>4, <1>7, <2>2
        <3>2. i \in 0..n
            <4>1. i \in (n + 1)..n2 => i = n2
                BY <1>4, <1>7
            <4>2. i \in 0..n \/ i \in (n + 1)..n2
                BY <1>2, <1>7
            <4> QED
                BY <1>7, <3>1, <4>1, <4>2
        <3> QED
            BY <1>6, <1>7, <3>1, <3>2
    <2>3. CASE k = n2 + 1
        <3>1. f \in Coming'
            BY <1>5, <1>7, <2>3
        <3>2. CASE i \in 0..n
            <4>1. f \in Coming \/ f.search = searches + 1
                BY <3>1 DEF Yields
            <4> QED
                BY <1>6, <1>7, <3>2, <4>1
        <3>3. CASE i \in (n + 1)..n2
            BY <1>4, <1>7, <3>1, <3>3
        <3> QED
            BY <1>2, <1>7, <2>3, <3>2, <3>3
    <2> QED
        BY <1>2, <2>1, <2>2, <2>3
<1> QED
    BY <1>7 DEF Ascending

(* The script takes what is at the head of the line.                         *)
LEMMA AscendingReact ==
    ASSUME Typed, Ascending, React PROVE Ascending'
<1> DEFINE n == Len(signals)
           n2 == Len(signals')
<1>1. PICK s \in Names : Received(s)
    BY DEF React, Clear, ResultReady, Searching, PageStatus, Failed, SearchComplete, Names, Busy, Over
<1>2. Leaves(signals', signals) /\ Head(signals).signal = s /\ UNCHANGED <<searches, task, Survived>>
    BY <1>1, Left DEF Typed, ChannelOK, Received, handler, Survived
<1>3. /\ n \in Nat /\ n2 \in Nat /\ n2 = n - 1 /\ n >= 1 /\ signals[1].signal = s
      /\ \A i \in 1..n2 : signals'[i] = signals[i + 1]
    BY <1>2 DEF Leaves
<1>4. ASSUME NEW i \in 1..(n2 + 1) PROVE (Hitting(i))' = Hitting(i + 1)
    <2>1. i # 0 /\ i + 1 # 0 /\ (i = n2 + 1 <=> i + 1 = n + 1) /\ (i # n2 + 1 => i \in 1..n2)
        BY <1>3
    <2>2. Coming' = Coming
        BY <1>2 DEF Coming
    <2> QED
        BY <1>2, <1>3, <2>1, <2>2 DEF Hitting, HitOf, IsHit
<1>5. (Hitting(0))' \subseteq Hitting(0) \union Hitting(1)
    <2>1. CASE ResultReady
        <3>1. Element.search \notin Survived => Hitting(1) = {Element}
            BY <1>2, <1>3, <2>1 DEF Hitting, HitOf, IsHit, ResultReady, Received, Leaves, Element
        <3>2. \A x \in DOMAIN shown' : shown'[x] = Element \/ \E y \in DOMAIN shown : shown'[x] = shown[y]
            BY <2>1, ShowsElement DEF Inserts
        <3> QED
            BY <1>2, <3>1, <3>2 DEF Hitting, Listed
    <2>2. CASE shown' = <<>>
        BY <2>2 DEF Hitting, Listed
    <2>3. CASE shown' = shown
        BY <1>2, <2>3 DEF Hitting, Listed
    <2> QED
        BY <2>1, <2>2, <2>3 DEF React, Clear, Searching, PageStatus, Failed, SearchComplete
<1>6. ASSUME NEW i \in 0..(n2 + 1), NEW k \in 0..(n2 + 1), i < k,
             NEW e \in (Hitting(i))', NEW f \in (Hitting(k))'
      PROVE  Before(e, f)
    <2>1. f \in Hitting(k + 1) /\ k + 1 \in 0..(n + 1)
        BY <1>3, <1>4, <1>6
    <2>2. PICK a \in 0..(n + 1) : e \in Hitting(a) /\ a < k + 1
        <3>1. CASE i = 0
            BY <1>3, <1>5, <1>6, <3>1
        <3>2. CASE i # 0
            <4>1. e \in Hitting(i + 1) /\ i + 1 \in 0..(n + 1) /\ i + 1 < k + 1
                BY <1>3, <1>4, <1>6, <3>2
            <4> QED
                BY <4>1
        <3> QED
            BY <3>1, <3>2
    <2> QED
        BY <2>1, <2>2 DEF Ascending
<1> QED
    BY <1>6 DEF Ascending

(* Every step keeps the hits of each search in order.                        *)
LEMMA AscendingStep == Typed /\ Ascending /\ [Next]_vars => Ascending'
<1> SUFFICES ASSUME Typed, Ascending, [Next]_vars PROVE Ascending'
    OBVIOUS
<1>0. searches \in Nat /\ task.hits \in 0..Hits /\ Hits \in Nat
    BY SearchAssumption DEF Typed, HandlerOK
<1>1. CASE User
    BY <1>1, AscendingUnchanged DEF User, RunSearch, Turn, Retry, Ask, script, handler
<1>2. CASE Slot
    <2>1. shown' = shown /\ Survived \subseteq Survived'
        BY <1>2, SlotEmits, SurvivedGrows DEF script
    <2>2. CASE UNCHANGED <<signals, searches, vPageCurrent>> /\ task' \in {task, NoTask}
        <3>1. \A f \in Coming' : f \in Coming
            BY <2>2 DEF Coming, NoTask
        <3>2. <<>> \in Seq(Sig(searches)) /\ Emit(<<>>) /\ Yields(<<>>)
            <4>1. signals \o <<>> = signals
                BY ConcatEmptySeq DEF Typed, ChannelOK
            <4> QED
                BY <2>2, <3>1, <4>1 DEF Emit, Yields
        <3> QED
            BY <2>1, <3>2, AscendingEmits
    <2>3. CASE /\ searches' = searches + 1 /\ task' = [at |-> "search", hits |-> 0, sent |-> <<>>]
               /\ \E ss \in Seq(Sig(searches)) : Emit(ss) /\ Cleared(ss)
        <3>1. PICK ss \in Seq(Sig(searches)) : Emit(ss) /\ Cleared(ss)
            BY <2>3
        <3>2. \A f \in Coming' : f.search = searches + 1
            BY <2>3 DEF Coming
        <3>3. \A i \in DOMAIN ss : HitOf(ss[i]) = {}
            BY <3>1 DEF Cleared, HitOf, IsHit
        <3> QED
            BY <2>1, <3>1, <3>2, <3>3, AscendingEmits DEF Yields
    <2> QED
        BY <1>2, <2>2, <2>3, SlotEmits
<1>3. CASE Task \/ LateTimeout \/ Survivor
    <2>1. searches' = searches /\ shown' = shown /\ Survived \subseteq Survived'
        BY <1>3, SurvivorEmits, SurvivedGrows
           DEF Task, Hit, Complete, NoHits, Raise, Expire, TimedOut, LateTimeout, Step, script
    <2>2. PICK ss \in Seq(Sig(searches)) : Emit(ss) /\ Said(ss)
        BY <1>3, TaskEmits, SurvivorEmits
    <2>3. task'.at = "search" => task.at = "search" /\ task'.hits \in Nat /\ task'.hits >= task.hits
        <3>1. CASE Hit
            <4>1. task' \in {[task EXCEPT !.hits = task.hits + 1, !.sent = Append(@, task.hits + 1)],
                             [task EXCEPT !.hits = task.hits + 1]}
                BY <3>1 DEF Hit, Step
            <4>2. task.at = "search" /\ task'.hits = task.hits + 1
                BY <3>1, <4>1 DEF Hit, Typed, HandlerOK
            <4> QED
                BY <1>0, <4>2
        <3>2. CASE Complete \/ NoHits \/ Raise \/ Expire \/ TimedOut
            BY <3>2 DEF Complete, NoHits, Raise, Expire, TimedOut, Step, Ends, Typed, HandlerOK
        <3>3. CASE LateTimeout \/ Survivor
            BY <1>0, <3>3, SurvivorEmits DEF LateTimeout
        <3> QED
            BY <1>3, <3>1, <3>2, <3>3 DEF Task
    <2>4. \A f \in Coming' : f \in Coming
        BY <1>0, <2>1, <2>3 DEF Coming
    <2>5. ASSUME NEW i \in DOMAIN ss, NEW e \in HitOf(ss[i])
          PROVE  i = Len(ss) /\ e \in Coming /\ \A f \in Coming' : Before(e, f)
        <3>1. /\ ss[i].signal = "resultReady" /\ ss[i].search \notin Survived
              /\ e = [search |-> ss[i].search, hit |-> ss[i].arg]
            BY <2>5 DEF HitOf, IsHit
        <3>2. /\ i = Len(ss) /\ ss[i].search = searches /\ Meant(ss[i])
              /\ task.at = "search" /\ ss[i].arg = task.hits + 1 /\ task'.hits = task.hits + 1
            BY <2>2, <3>1 DEF Said, OwnHit
        <3>3. e.search = searches /\ e.hit = task.hits + 1 /\ e.hit \in 1..Hits
            BY <3>1, <3>2 DEF Meant
        <3>4. e \in Coming
            BY <1>0, <3>1, <3>2, <3>3 DEF Coming
        <3>5. \A f \in Coming' : Before(e, f)
            BY <1>0, <3>2, <3>3 DEF Coming, Before
        <3> QED
            BY <3>2, <3>4, <3>5
    <2> QED
        BY <2>1, <2>2, <2>4, <2>5, AscendingEmits DEF Yields
<1>4. CASE React
    BY <1>4, AscendingReact
<1>5. CASE UNCHANGED vars
    BY <1>5, AscendingUnchanged DEF vars, script, handler
<1> QED
    BY <1>1, <1>2, <1>3, <1>4, <1>5 DEF Next

(* What is listed is of one search.                                          *)
LEMMA ListedApart ==
    ASSUME Typed, Apart, NEW i \in Listed, NEW j \in Listed PROVE shown[i].search = shown[j].search
<1>1. shown[i].search \in Origins(0) /\ shown[j].search \in Origins(0)
    BY DEF Origins
<1>2. 0 \in 0..(Len(signals) + 1)
    BY DEF Typed, ChannelOK
<1> QED
    BY <1>1, <1>2 DEF Apart

(* An element that is shown is listed, unless it is a survivor's.            *)
LEMMA ListedShows ==
    ASSUME Typed, ResultReady
    PROVE  /\ Cardinality(Listed') =
                 IF Element.search \in Survived THEN Cardinality(Listed) ELSE Cardinality(Listed) + 1
           /\ {shown'[i] : i \in Listed'} =
                 {shown[i] : i \in Listed} \union (IF Element.search \in Survived THEN {} ELSE {Element})
<1> DEFINE n == Len(shown)
<1>1. n \in Nat /\ DOMAIN shown = 1..n /\ lastInserted \in 0..n
    BY DEF Typed, ScriptOK
<1>2. Survived' = Survived
    BY DEF ResultReady, Received, handler, Survived
<1>3. Inserts(shown', shown, lastInserted, Element)
    BY ShowsElement
<1>4. DOMAIN shown' = 1..(n + 1)
    BY <1>3 DEF Inserts
<1> HIDE DEF n
<1>5. Listed \in SUBSET (1..n) /\ Listed' \in SUBSET (1..(n + 1))
    BY <1>1, <1>4 DEF Listed
<1>6. \A x \in 1..lastInserted : x \in Listed <=> x \in Listed'
    <2> TAKE x \in 1..lastInserted
    <2>1. x \in 1..n /\ x \in 1..(n + 1)
        BY <1>1
    <2> QED
        BY <1>1, <1>2, <1>3, <1>4, <2>1 DEF Listed, Inserts
<1>7. \A x \in (lastInserted + 1)..n : x \in Listed <=> x + 1 \in Listed'
    <2> TAKE x \in (lastInserted + 1)..n
    <2>1. x \in 1..n /\ x + 1 \in 1..(n + 1)
        BY <1>1
    <2>2. shown'[x + 1] = shown[x]
        BY <1>3 DEF Inserts, n
    <2> QED
        BY <1>1, <1>2, <1>4, <2>1, <2>2 DEF Listed
<1>8. lastInserted + 1 \in Listed' <=> Element.search \notin Survived
    BY <1>2, <1>3 DEF Listed, Inserts
<1>9. Cardinality(Listed') =
         IF lastInserted + 1 \in Listed' THEN Cardinality(Listed) + 1 ELSE Cardinality(Listed)
    BY <1>1, <1>5, <1>6, <1>7, PlacesShift
<1>10. ASSUME NEW x \in Listed'
       PROVE  (shown'[x] = Element /\ Element.search \notin Survived) \/ \E y \in Listed : shown'[x] = shown[y]
    BY <1>2, <1>3 DEF Listed, Inserts
<1>11. ASSUME NEW y \in Listed PROVE \E x \in Listed' : shown'[x] = shown[y]
    BY <1>2, <1>3 DEF Listed, Inserts
<1>12. Element.search \notin Survived => \E x \in Listed' : shown'[x] = Element
    BY <1>3, <1>8 DEF Inserts
<1>13. {shown'[i] : i \in Listed'} =
          {shown[i] : i \in Listed} \union (IF Element.search \in Survived THEN {} ELSE {Element})
    BY <1>10, <1>11, <1>12
<1> QED
    BY <1>8, <1>9, <1>13

(* A step of the page shows the next hit, clears the list or leaves it.      *)
LEMMA ListStep ==
    ASSUME Typed, Apart, Ascending, [Next]_vars PROVE [List!Next]_(List!vars)
<1> DEFINE results == {shown[i] : i \in Listed}
<1>1. CASE ResultReady /\ Element.search \notin Survived
    <2>1. results' = results \union {Element} /\ Cardinality(Listed') = Cardinality(Listed) + 1
        BY <1>1, ListedShows
    <2>2. Leaves(signals', signals) /\ Head(signals).signal = "resultReady" /\ Meant(Head(signals))
        <3>1. Leaves(signals', signals)
            BY <1>1, Left DEF Typed, ChannelOK, ResultReady, Received
        <3> QED
            BY <1>1, <3>1 DEF Leaves, Typed, ChannelOK, ResultReady, Received
    <2>3. Element \in Hitting(1) /\ Element.search \in Origins(1)
        BY <1>1, <2>2 DEF Leaves, Hitting, HitOf, IsHit, Origins, Element
    <2>4. /\ Element.search \in 1..(MaxSearches + 1) /\ Element.hit \in 1..Hits
          /\ Element = [search |-> Element.search, hit |-> Element.hit]
        <3>1. Head(signals) \in Sig(searches) /\ searches \in Nat /\ searches <= MaxSearches + 1
            BY <2>2, SearchAssumption DEF Leaves, Typed, ChannelOK, HandlerOK
        <3> QED
            BY <2>2, <3>1, SearchAssumption DEF Element, Meant, Sig
    <2>5. ASSUME NEW r \in results PROVE r.search = Element.search /\ r.hit < Element.hit
        <3>1. r \in Hitting(0) /\ r.search \in Origins(0)
            BY DEF Hitting, Origins
        <3>2. 0 \in 0..(Len(signals) + 1) /\ 1 \in 0..(Len(signals) + 1)
            BY <2>2 DEF Leaves
        <3>3. r.search = Element.search
            <4>1. (0 + 1)..(1 - 1) = {}
                OBVIOUS
            <4> QED
                BY <2>3, <3>1, <3>2, <4>1 DEF Apart
        <3>4. Before(r, Element)
            BY <2>3, <3>1, <3>2 DEF Ascending
        <3> QED
            BY <3>3, <3>4 DEF Before
    <2> QED
        BY <2>1, <2>4, <2>5 DEF List!Next, List!Show
<1>2. CASE ResultReady /\ Element.search \in Survived
    BY <1>2, ListedShows DEF List!vars
<1>3. CASE shown' = <<>>
    <2>1. Listed' = {}
        BY <1>3 DEF Listed
    <2> QED
        BY <2>1, FS_EmptySet DEF List!Next, List!Clear
<1>4. CASE shown' = shown
    <2>1. Listed' = {x \in Listed : shown[x].search \notin Survived'}
        BY <1>4, SurvivedGrows DEF Listed
    <2>2. CASE \E x \in Listed : shown[x].search \in Survived'
        <3>1. Listed' = {}
            BY <2>1, <2>2, ListedApart
        <3> QED
            BY <3>1, FS_EmptySet DEF List!Next, List!Clear
    <2>3. CASE ~ \E x \in Listed : shown[x].search \in Survived'
        <3>1. Listed' = Listed
            BY <2>1, <2>3
        <3> QED
            BY <1>4, <3>1 DEF List!vars
    <2> QED
        BY <2>2, <2>3
<1>5. ResultReady \/ shown' = <<>> \/ shown' = shown
    <2>1. CASE User
        BY <2>1 DEF User, RunSearch, Turn, Retry, script
    <2>2. CASE Slot
        BY <2>2, SlotEmits DEF script
    <2>3. CASE Task \/ LateTimeout \/ Survivor
        BY <2>3, SurvivorEmits
           DEF Task, Hit, Complete, NoHits, Raise, Expire, TimedOut, LateTimeout, Step, script
    <2>4. CASE React
        BY <2>4 DEF React, Clear, Searching, PageStatus, Failed, SearchComplete
    <2> QED
        BY <2>1, <2>2, <2>3, <2>4 DEF Next, vars, script
<1> QED
    BY <1>1, <1>2, <1>3, <1>4, <1>5

(* The page, without the hits of survivors, implements ResultList: no hit    *)
(* comes twice, and none of a search that was replaced comes among or after  *)
(* those of the new one.                                                     *)
THEOREM Implementation == Spec => ImplementsResultList
<1>1. Init => Apart /\ Ascending /\ List!Init
    <2> SUFFICES ASSUME Init PROVE Apart /\ Ascending /\ List!Init
        OBVIOUS
    <2>1. DOMAIN shown = {} /\ Listed = {} /\ Len(signals) = 0 /\ task.at = "none"
        BY DEF Init, NoTask, Listed
    <2> QED
        BY <2>1, FS_EmptySet DEF Init, Apart, Origins, Ascending, Hitting, Coming, List!Init
<1> QED
    BY <1>1, TypedInit, TypedStep, ApartStep, AscendingStep, ListStep, PTL
       DEF Spec, ImplementsResultList, List!Spec

-----------------------------------------------------------------------------
(* What a complete search has on the page                                    *)

(* A hit of search n has its place among those of the search.                *)
LEMMA Placed ==
    ASSUME NEW q, NEW n, NEW l \in Nat
    PROVE  /\ IsFiniteSet(Of(q, n, l)) /\ Cardinality(Of(q, n, l)) \in Nat
           /\ \A i \in 1..l : q[i].search = n => Cardinality(Of(q, n, i)) \in 1..Cardinality(Of(q, n, l))
<1>1. ASSUME NEW i \in 0..l PROVE IsFiniteSet(Of(q, n, i)) /\ Cardinality(Of(q, n, i)) \in Nat
    <2>1. Of(q, n, i) \subseteq 1..i /\ IsFiniteSet(1..i)
        BY FS_Interval DEF Of
    <2> QED
        BY <2>1, FS_Subset, FS_CardinalityType
<1>2. ASSUME NEW i \in 1..l, q[i].search = n
      PROVE  Cardinality(Of(q, n, i)) \in 1..Cardinality(Of(q, n, l))
    <2>1. i \in 0..l /\ l \in 0..l /\ i \in 1..i /\ 1..i \subseteq 1..l
        OBVIOUS
    <2>2. Of(q, n, i) \subseteq Of(q, n, l) /\ i \in Of(q, n, i)
        BY <1>2, <2>1 DEF Of
    <2>3. Cardinality(Of(q, n, i)) <= Cardinality(Of(q, n, l)) /\ Cardinality(Of(q, n, i)) # 0
        BY <1>1, <2>1, <2>2, FS_Subset, FS_EmptySet
    <2>4. Cardinality(Of(q, n, i)) \in Nat /\ Cardinality(Of(q, n, l)) \in Nat
        BY <1>1, <2>1
    <2> QED
        BY <2>3, <2>4
<1> QED
    BY <1>1, <1>2

(* What stands goes on to when more is sent ...                              *)
LEMMA StandLonger ==
    ASSUME NEW q, NEW n, NEW l \in Nat, NEW sent, NEW sent2, Stand(q, n, l, sent),
           \A i \in 1..Cardinality(Of(q, n, l)) : sent2[i] = sent[i]
    PROVE  Stand(q, n, l, sent2)
BY Placed DEF Stand

(* ... when an element is inserted ...                                       *)
IsNext(e, q, n, l, sent) == e.search = n => e.hit = sent[Cardinality(Of(q, n, l)) + 1]
HasPlace(q, l) == Len(q) \in Nat /\ DOMAIN q = 1..Len(q) /\ l \in Nat /\ l <= Len(q)
OneMore(q2, q, n, l, e) ==
    Cardinality(Of(q2, n, l + 1)) =
        IF e.search = n THEN Cardinality(Of(q, n, l)) + 1 ELSE Cardinality(Of(q, n, l))

LEMMA StandMore ==
    ASSUME NEW q, NEW q2, NEW n, NEW l, NEW e, NEW sent, Inserts(q2, q, l, e), Stand(q, n, l, sent),
           HasPlace(q, l), IsNext(e, q, n, l, sent)
    PROVE  Stand(q2, n, l + 1, sent) /\ OneMore(q2, q, n, l, e)
<1>0. Len(q) \in Nat /\ DOMAIN q = 1..Len(q) /\ l \in Nat /\ l <= Len(q)
    BY DEF HasPlace
<1>1. /\ \A x \in 1..l : x \in DOMAIN q /\ q2[x] = q[x]
      /\ q2[l + 1] = e
      /\ \A x \in (l + 1)..Len(q) : q2[x + 1] = q[x]
      /\ DOMAIN q2 = 1..(Len(q) + 1)
    BY DEF Inserts
<1>2. ASSUME NEW i \in 0..l PROVE Of(q2, n, i) = Of(q, n, i)
    <2>1. \A x \in 1..i : x \in 1..l
        BY <1>0
    <2> QED
        BY <1>1, <2>1 DEF Of
<1>3. Of(q2, n, l + 1) = IF e.search = n THEN Of(q, n, l) \union {l + 1} ELSE Of(q, n, l)
    <2>1. 1..(l + 1) = (1..l) \union {l + 1}
        BY <1>0
    <2> QED
        BY <1>1, <2>1 DEF Of
<1>4. l + 1 \notin Of(q, n, l)
    BY <1>0 DEF Of
<1>5. Cardinality(Of(q2, n, l + 1)) =
         IF e.search = n THEN Cardinality(Of(q, n, l)) + 1 ELSE Cardinality(Of(q, n, l))
    BY <1>0, <1>3, <1>4, Placed, FS_AddElement
<1>6. ASSUME NEW i \in DOMAIN q2, q2[i].search = n PROVE i <= l + 1
    <2>1. i \in 1..(l + 1) \/ (i - 1 \in (l + 1)..Len(q) /\ (i - 1) + 1 = i /\ i - 1 \in 1..Len(q) /\ ~(i - 1 <= l))
        BY <1>0, <1>1
    <2> QED
        BY <1>0, <1>1, <1>6, <2>1 DEF Stand
<1>7. ASSUME NEW i \in 1..(l + 1), q2[i].search = n PROVE q2[i].hit = sent[Cardinality(Of(q2, n, i))]
    <2>1. CASE i = l + 1
        BY <1>1, <1>5, <1>7, <2>1 DEF IsNext
    <2>2. CASE i \in 1..l
        <3>1. i \in 0..l
            BY <1>0, <2>2
        <3> QED
            BY <1>1, <1>2, <1>7, <2>2, <3>1 DEF Stand
    <2> QED
        BY <1>0, <2>1, <2>2
<1> QED
    BY <1>5, <1>6, <1>7 DEF Stand, OneMore

(* ... and when the script forgets its last insertion, if it shows none.     *)
LEMMA StandReset ==
    ASSUME NEW q, NEW n, NEW l \in Nat, NEW sent, Stand(q, n, l, sent), Cardinality(Of(q, n, l)) = 0,
           DOMAIN q \subseteq Nat \ {0}
    PROVE  Stand(q, n, 0, sent) /\ Cardinality(Of(q, n, 0)) = 0
<1>1. Of(q, n, l) = {} /\ Of(q, n, 0) = {} /\ Cardinality({}) = 0
    <2>1. Of(q, n, l) = {} /\ Cardinality({}) = 0
        BY Placed, FS_EmptySet
    <2> QED
        BY <2>1 DEF Of
<1>2. \A i \in DOMAIN q : q[i].search # n
    <2> SUFFICES ASSUME NEW i \in DOMAIN q, q[i].search = n PROVE FALSE
        OBVIOUS
    <2>1. i \in 1..l
        BY DEF Stand
    <2> QED
        BY <1>1, <2>1 DEF Of
<1> QED
    BY <1>1, <1>2 DEF Stand

(* A count over the first n signals goes on over those that join them: it    *)
(* stays, and the last of them may change it.                                *)
GoesOn(r2, r, n, n2, m, m2) ==
    /\ r2 \in [Nat -> Nat] /\ \A i \in 0..n : r2[i] = r[i]
    /\ \A i \in n..(n2 - 1) : r2[i] = m
    /\ r2[n2] = m2

LEMMA Extended ==
    ASSUME NEW n \in Nat, NEW n2 \in Nat, NEW m \in Nat, NEW m2 \in Nat, NEW r \in [Nat -> Nat],
           n <= n2 /\ r[n] = m /\ (n = n2 => m = m2)
    PROVE  \E r2 : GoesOn(r2, r, n, n2, m, m2)
<1> DEFINE r2 == [i \in Nat |-> IF i <= n THEN r[i] ELSE IF i < n2 THEN m ELSE m2]
<1>1. r2 \in [Nat -> Nat]
    OBVIOUS
<1>2. \A i \in 0..n : r2[i] = r[i]
    OBVIOUS
<1>3. \A i \in n..(n2 - 1) : r2[i] = m
    OBVIOUS
<1>4. r2[n2] = m2
    OBVIOUS
<1> HIDE DEF r2
<1> QED
    BY <1>1, <1>2, <1>3, <1>4 DEF GoesOn

Sent(ss) == ss \in Seq(Sig(searches)) /\ Said(ss)

(* The searches leave alone what the slots and the script change.            *)
Kept == UNCHANGED <<script, searches, vPageCurrent>>

(* What the search that runs sends joins what it has sent.                   *)
LEMMA FollowsEmits ==
    ASSUME Typed, Typed', NEW k, NEW r, Follows(k, r), NEW ss, Emit(ss), Sent(ss),
           Kept
    PROVE  \E r2 : (Follows(k, r2))'
<1> DEFINE n == Len(signals)
           n2 == Len(signals')
           l == Len(ss)
           m == Len(task.sent)
           m2 == Len(task'.sent)
<1>1. Joins(signals', signals, ss)
    BY Joined DEF Typed, ChannelOK, Emit, Sent
<1>2. n \in Nat /\ n2 \in Nat /\ l \in Nat /\ n2 = n + l
    BY <1>1 DEF Joins
<1>3. DOMAIN signals = 1..n /\ DOMAIN signals' = 1..n2 /\ DOMAIN ss = 1..l
    BY <1>1 DEF Joins
<1>4. r \in [Nat -> Nat] /\ Counts(k, r) /\ k \in Nat /\ k <= n
    <2>1. k \in 0..n
        BY DEF Follows
    <2>2. k \in Nat /\ k <= n
        BY <1>2, <2>1
    <2> QED
        BY <2>2 DEF Follows
<1>5. \A i \in 1..n : signals'[i] = signals[i]
    BY <1>1, <1>3 DEF Joins
<1>6. /\ task.sent \in Seq(1..Hits) /\ task'.sent \in Seq(1..Hits)
      /\ task.hits = 0 => m = 0
    BY DEF Typed, HandlerOK
<1>7. m \in Nat /\ m2 \in Nat /\ r[n] = m
    <2>1. r[n] = m
        BY <1>4 DEF Counts
    <2> QED
        BY <1>6, <2>1
<1>8. \A i \in 1..l : signals'[n + i] = ss[i]
    BY <1>1, <1>3 DEF Joins
<1>9. searches' = searches /\ vPageCurrent' = vPageCurrent /\ script' = script
    BY DEF Kept
<1>10. \/ task'.sent = task.sent /\ m2 = m
       \/ /\ l > 0 /\ OwnHit(ss[l])
          /\ task'.sent = Append(task.sent, ss[l].arg) /\ m2 = m + 1
    <2>1. CASE task'.sent = task.sent
        BY <2>1
    <2>2. CASE l > 0 /\ OwnHit(ss[l])
        <3>1. l \in DOMAIN ss
            BY <1>2, <1>3, <2>2
        <3>2. task'.sent = Append(task.sent, ss[l].arg)
            BY <2>2, <3>1 DEF Sent, Said
        <3> QED
            BY <1>6, <2>2, <3>2
    <2> QED
        BY <2>1, <2>2 DEF Sent, Said
<1>11. \A i \in 1..m : task'.sent[i] = task.sent[i]
    <2>1. CASE task'.sent = task.sent
        BY <2>1
    <2>2. CASE task'.sent = Append(task.sent, ss[l].arg)
        <3>1. \A q \in Seq(1..Hits) : \A e : \A i \in 1..Len(q) : Append(q, e)[i] = q[i]
            OBVIOUS
        <3> QED
            BY <1>6, <2>2, <3>1
    <2> QED
        BY <1>10, <2>1, <2>2
<1>12. n <= n2 /\ (n = n2 => m = m2) /\ m <= m2
    BY <1>2, <1>7, <1>10
<1> HIDE DEF n, n2, l, m, m2
<1>13. PICK r2 : GoesOn(r2, r, n, n2, m, m2)
    BY <1>2, <1>4, <1>7, <1>12, Extended
<1>14. /\ r2 \in [Nat -> Nat] /\ \A i \in 0..n : r2[i] = r[i]
       /\ \A i \in n..(n2 - 1) : r2[i] = m
       /\ r2[n2] = m2
    BY <1>13 DEF GoesOn
<1>15. \A i, j \in k..n : i <= j => r[i] <= r[j]
    BY <1>4 DEF Counts, n
<1>16. ASSUME NEW i \in k..n PROVE i \in 0..n /\ r2[i] = r[i] /\ r[i] \in Nat /\ r[i] <= m /\ r[k] <= r[i]
    <2>1. i \in 0..n /\ i \in Nat /\ k \in k..n /\ n \in k..n /\ i <= n /\ k <= i
        BY <1>2, <1>4
    <2>2. r[i] <= r[n] /\ r[k] <= r[i]
        BY <1>15, <2>1
    <2> QED
        BY <1>4, <1>7, <1>14, <2>1, <2>2
<1>17. ASSUME NEW i \in (n + 1)..n2
       PROVE  /\ i - n \in 1..l /\ signals'[i] = ss[i - n] /\ i - 1 \in n..(n2 - 1)
              /\ i # n2 => i - n # l /\ i \in n..(n2 - 1)
              /\ i = n2 => i - n = l
    <2>1. /\ i - n \in 1..l /\ i - 1 \in n..(n2 - 1) /\ n + (i - n) = i
          /\ i # n2 => i - n # l /\ i \in n..(n2 - 1)
          /\ i = n2 => i - n = l
        BY <1>2
    <2> QED
        BY <1>8, <2>1
<1>18. ASSUME NEW i \in 1..n2, i > k
       PROVE  /\ signals'[i].signal # "clear"
              /\ r2[i] = IF OwnHit(signals'[i]) THEN r2[i - 1] + 1 ELSE r2[i - 1]
              /\ OwnHit(signals'[i]) => signals'[i].arg = task'.sent[r2[i]]
              /\ signals'[i].signal = "vPageStatus" => signals'[i].arg = vPageCurrent' + 1
    <2>1. CASE i <= n
        <3>1. i \in 1..n /\ i \in k..n /\ i - 1 \in k..n
            BY <1>2, <1>4, <1>18, <2>1
        <3>2. signals'[i] = signals[i] /\ r2[i] = r[i] /\ r2[i - 1] = r[i - 1]
            BY <1>5, <1>16, <3>1
        <3>3. /\ signals[i].signal # "clear"
              /\ r[i] = IF OwnHit(signals[i]) THEN r[i - 1] + 1 ELSE r[i - 1]
              /\ OwnHit(signals[i]) => signals[i].arg = task.sent[r[i]]
              /\ signals[i].signal = "vPageStatus" => signals[i].arg = vPageCurrent + 1
            BY <1>3, <1>4, <1>18, <3>1 DEF Counts
        <3>4. r[i] \in Nat /\ r[i - 1] \in Nat /\ r[i] <= m
            BY <1>16, <3>1
        <3>5. OwnHit(signals[i]) => r[i] \in 1..m
            BY <1>7, <3>3, <3>4
        <3> QED
            BY <1>9, <1>11, <3>2, <3>3, <3>5
    <2>2. CASE i > n
        <3>1. i \in (n + 1)..n2
            BY <1>2, <1>18, <2>2
        <3>2. i - n \in 1..l /\ signals'[i] = ss[i - n] /\ r2[i - 1] = m
            BY <1>14, <1>17, <3>1
        <3>3. /\ ss[i - n].signal # "clear"
              /\ ss[i - n].signal = "vPageStatus" => ss[i - n].arg = vPageCurrent + 1
              /\ OwnHit(ss[i - n]) =>
                    i - n = l /\ task'.sent = Append(task.sent, ss[i - n].arg)
            BY <1>3, <3>2 DEF Sent, Said, l
        <3>4. CASE i # n2
            BY <1>9, <1>14, <1>17, <3>1, <3>2, <3>3, <3>4
        <3>5. CASE i = n2
            <4>1. r2[i] = m2 /\ i - n = l
                BY <1>14, <1>17, <3>1, <3>5
            <4>2. CASE OwnHit(ss[l])
                <5>1. task'.sent = Append(task.sent, ss[l].arg)
                    BY <3>3, <4>1, <4>2
                <5>2. m2 = m + 1 /\ task'.sent[m2] = ss[l].arg
                    BY <1>6, <5>1 DEF m, m2
                <5> QED
                    BY <1>9, <3>2, <3>3, <4>1, <4>2, <5>2
            <4>3. CASE ~OwnHit(ss[l])
                BY <1>9, <1>10, <3>2, <3>3, <4>1, <4>3
            <4> QED
                BY <4>2, <4>3
        <3> QED
            BY <3>4, <3>5
    <2> QED
        BY <1>2, <2>1, <2>2
<1>19. ASSUME NEW i \in k..n2, NEW j \in k..n2, i <= j PROVE r2[i] <= r2[j]
    <2>1. CASE j <= n
        <3>1. i \in k..n /\ j \in k..n
            BY <1>2, <1>4, <1>19, <2>1
        <3> QED
            BY <1>15, <1>16, <1>19, <3>1
    <2>2. CASE j > n
        <3>1. j \in (n..(n2 - 1)) \union {n2}
            BY <1>2, <1>4, <2>2
        <3>2. CASE i <= n
            <4>1. i \in k..n
                BY <1>2, <1>4, <3>2
            <4>2. r2[i] <= m /\ r2[i] \in Nat
                BY <1>16, <4>1
            <4>3. r2[j] = m \/ r2[j] = m2
                BY <1>14, <3>1
            <4> QED
                BY <1>7, <1>12, <4>2, <4>3
        <3>3. CASE i > n
            <4>1. i \in (n..(n2 - 1)) \union {n2} /\ (i = n2 => j = n2)
                BY <1>2, <1>4, <1>19, <3>3
            <4> QED
                BY <1>7, <1>12, <1>14, <3>1, <4>1
        <3> QED
            BY <1>2, <1>4, <3>2, <3>3
    <2> QED
        BY <1>2, <1>4, <2>1, <2>2
<1>20. (Counts(k, r2))'
    <2>1. \A i, j \in k..n2 : i <= j => r2[i] <= r2[j]
        BY <1>19
    <2>2. r2[n2] = m2
        BY <1>14
    <2>3. \A e : (OwnHit(e))' <=> OwnHit(e)
        BY <1>9 DEF OwnHit
    <2>4. ASSUME NEW i \in DOMAIN signals', i > k
          PROVE  /\ signals'[i].signal # "clear"
                 /\ r2[i] = IF (OwnHit(signals[i]))' THEN r2[i - 1] + 1 ELSE r2[i - 1]
                 /\ (OwnHit(signals[i]))' => signals'[i].arg = task'.sent[r2[i]]
                 /\ signals'[i].signal = "vPageStatus" => signals'[i].arg = vPageCurrent' + 1
        <3>1. (OwnHit(signals[i]))' <=> OwnHit(signals'[i])
            BY <1>9 DEF OwnHit
        <3> QED
            BY <1>3, <1>18, <2>4, <3>1
    <2> QED
        BY <2>1, <2>2, <2>4 DEF Counts, n2, m2
<1>21. (StartsAt(k, r2))'
    <2>1. CASE k > 0
        <3>1. signals[k].signal = "clear" /\ r[k] = 0
            BY <2>1 DEF Follows, StartsAt
        <3>2. k \in 1..n /\ k \in k..n
            BY <1>2, <1>4, <2>1
        <3>3. signals'[k] = signals[k] /\ r2[k] = r[k]
            BY <1>5, <1>16, <3>2
        <3> QED
            BY <2>1, <3>1, <3>3 DEF StartsAt
    <2>2. CASE k = 0
        <3>1. /\ r[0] = Cardinality(Of(shown, searches, lastInserted))
              /\ Stand(shown, searches, lastInserted, task.sent)
            BY <2>2 DEF Follows, StartsAt
        <3>2. 0 \in k..n
            BY <1>2, <2>2
        <3>3. r2[0] = r[0] /\ r[0] <= m /\ r[0] \in Nat
            BY <1>16, <3>2
        <3>4. \A i \in 1..Cardinality(Of(shown, searches, lastInserted)) : task'.sent[i] = task.sent[i]
            BY <1>7, <1>11, <3>1, <3>3
        <3>5. lastInserted \in Nat
            BY DEF Typed, ScriptOK
        <3>6. Stand(shown, searches, lastInserted, task'.sent)
            BY <3>1, <3>4, <3>5, StandLonger
        <3>7. shown' = shown /\ lastInserted' = lastInserted
            BY <1>9 DEF script
        <3>8. r2[0] = Cardinality(Of(shown', searches', lastInserted'))
            BY <1>9, <3>1, <3>3, <3>7
        <3>9. Stand(shown', searches', lastInserted', task'.sent)
            BY <1>9, <3>6, <3>7
        <3> QED
            BY <2>2, <3>8, <3>9 DEF StartsAt
    <2> QED
        BY <1>4, <2>1, <2>2
<1>22. (Numbered(k, r2))'
    <2>1. CASE \E j \in DOMAIN signals : j > k /\ signals[j].signal = "vPageStatus" /\ r[j] = 0
        <3>1. PICK j \in 1..n : j > k /\ signals[j].signal = "vPageStatus" /\ r[j] = 0
            BY <1>3, <2>1
        <3>2. j \in 1..n2 /\ j \in k..n
            BY <1>2, <1>4, <3>1
        <3>3. r2[j] = 0 /\ signals'[j].signal = "vPageStatus"
            BY <1>5, <1>16, <3>1, <3>2
        <3> QED
            BY <1>3, <3>1, <3>2, <3>3 DEF Numbered
    <2>2. CASE k = 0 /\ page = vPageCurrent + 1
        BY <1>9, <2>2 DEF Numbered, script
    <2>3. CASE task.hits = 0 /\ l = 2 /\ ss[1].signal = "vPageStatus"
        <3>1. n + 1 \in 1..n2 /\ n + 1 > k /\ n + 1 \in n..(n2 - 1) /\ 1 \in 1..l
            BY <1>2, <1>4, <2>3
        <3>2. signals'[n + 1].signal = "vPageStatus"
            BY <1>8, <2>3, <3>1
        <3>3. r2[n + 1] = 0
            BY <1>6, <1>14, <2>3, <3>1
        <3> QED
            BY <1>3, <3>1, <3>2, <3>3 DEF Numbered
    <2>4. CASE task'.hits = 0
        BY <2>4 DEF Numbered
    <2>5. task.hits # 0 \/ task'.hits = 0 \/ (task.hits = 0 /\ l = 2 /\ ss[1].signal = "vPageStatus")
        BY DEF Sent, Said, l
    <2>6. Numbered(k, r)
        BY DEF Follows
    <2> QED
        BY <2>1, <2>2, <2>3, <2>4, <2>5, <2>6 DEF Numbered
<1>23. k \in 0..n2
    BY <1>2, <1>4, <1>12
<1> QED
    BY <1>14, <1>20, <1>21, <1>22, <1>23 DEF Follows, n2

(* What the script has received it shows.                                    *)
LEMMA FollowsReact ==
    ASSUME Typed, NEW k, NEW r, Follows(k, r), React
    PROVE  \E k2, r2 : (Follows(k2, r2))'
<1> DEFINE n == Len(signals)
           n2 == Len(signals')
<1>1. PICK s \in Names : Received(s)
    BY DEF React, Clear, ResultReady, Searching, PageStatus, Failed, SearchComplete, Names, Busy, Over
<1>2. Leaves(signals', signals) /\ Head(signals).signal = s
    BY <1>1, Left DEF Typed, ChannelOK, Received
<1>3. searches' = searches /\ vPageCurrent' = vPageCurrent /\ task' = task
    BY <1>1 DEF Received, handler
<1>4. n \in Nat /\ n2 \in Nat /\ n2 + 1 = n
    BY <1>2 DEF Leaves
<1>5. DOMAIN signals = 1..n /\ DOMAIN signals' = 1..n2 /\ Head(signals) = signals[1]
    BY <1>2 DEF Leaves
<1>6. ASSUME NEW i \in 1..n2 PROVE signals'[i] = signals[i + 1]
    BY <1>2, <1>5, <1>6 DEF Leaves
<1>7. k \in Nat /\ k <= n /\ r \in [Nat -> Nat] /\ Counts(k, r)
    <2>1. k \in 0..n
        BY DEF Follows
    <2>2. k \in Nat /\ k <= n
        BY <1>4, <2>1
    <2> QED
        BY <2>2 DEF Follows
<1>8. PICK k2 \in Nat : IF k > 0 THEN k2 = k - 1 ELSE k2 = 0
    BY <1>7
<1>9. PICK r2 \in [Nat -> Nat] : \A i \in Nat : r2[i] = r[i + 1]
    <2> DEFINE r2 == [i \in Nat |-> r[i + 1]]
    <2>1. r2 \in [Nat -> Nat]
        BY <1>7
    <2> QED
        BY <2>1
<1>10. s # "clear" \/ k > 0
    <2> SUFFICES ASSUME k = 0 PROVE s # "clear"
        BY <1>7
    <2>1. 1 \in 1..n /\ 1 > k
        BY <1>4
    <2> QED
        BY <1>2, <1>5, <1>7, <2>1 DEF Counts
<1> HIDE DEF n, n2
<1>11. ASSUME NEW i \in 1..n2, i > k2
       PROVE  /\ signals'[i].signal # "clear"
              /\ r2[i] = IF OwnHit(signals'[i]) THEN r2[i - 1] + 1 ELSE r2[i - 1]
              /\ OwnHit(signals'[i]) => signals'[i].arg = task'.sent[r2[i]]
              /\ signals'[i].signal = "vPageStatus" => signals'[i].arg = vPageCurrent' + 1
    <2>1. i + 1 \in 1..n /\ i + 1 > k /\ i \in Nat /\ i - 1 \in Nat /\ (i - 1) + 1 = i /\ (i + 1) - 1 = i
        BY <1>4, <1>7, <1>8, <1>11
    <2>2. r2[i] = r[i + 1] /\ r2[i - 1] = r[i] /\ signals'[i] = signals[i + 1]
        <3>1. r2[i - 1] = r[(i - 1) + 1]
            BY <1>9, <2>1
        <3> QED
            BY <1>6, <1>9, <2>1, <3>1
    <2>3. /\ signals[i + 1].signal # "clear"
          /\ r[i + 1] = IF OwnHit(signals[i + 1]) THEN r[(i + 1) - 1] + 1 ELSE r[(i + 1) - 1]
          /\ OwnHit(signals[i + 1]) => signals[i + 1].arg = task.sent[r[i + 1]]
          /\ signals[i + 1].signal = "vPageStatus" => signals[i + 1].arg = vPageCurrent + 1
        BY <1>5, <1>7, <2>1 DEF Counts
    <2> QED
        BY <1>3, <2>1, <2>2, <2>3
<1>12. ASSUME NEW i \in k2..n2, NEW j \in k2..n2, i <= j PROVE r2[i] <= r2[j]
    <2>1. i + 1 \in k..n /\ j + 1 \in k..n /\ i + 1 <= j + 1 /\ i \in Nat /\ j \in Nat
        BY <1>4, <1>7, <1>8, <1>12
    <2>2. r[i + 1] <= r[j + 1]
        BY <1>7, <2>1 DEF Counts, n
    <2> QED
        BY <1>9, <2>1, <2>2
<1>13. r2[n2] = Len(task'.sent)
    <2>1. r2[n2] = r[n2 + 1]
        BY <1>4, <1>9
    <2> QED
        BY <1>3, <1>4, <1>7, <2>1 DEF Counts, n
<1>14. (Counts(k2, r2))'
    <2>1. \A i, j \in k2..n2 : i <= j => r2[i] <= r2[j]
        BY <1>12
    <2>2. ASSUME NEW i \in DOMAIN signals', i > k2
          PROVE  /\ signals'[i].signal # "clear"
                 /\ r2[i] = IF (OwnHit(signals[i]))' THEN r2[i - 1] + 1 ELSE r2[i - 1]
                 /\ (OwnHit(signals[i]))' => signals'[i].arg = task'.sent[r2[i]]
                 /\ signals'[i].signal = "vPageStatus" => signals'[i].arg = vPageCurrent' + 1
        <3>1. (OwnHit(signals[i]))' <=> OwnHit(signals'[i])
            BY <1>3 DEF OwnHit
        <3> QED
            BY <1>5, <1>11, <2>2, <3>1
    <2> QED
        BY <1>13, <2>1, <2>2 DEF Counts, n2
<1>15. r2[0] = r[1]
    <2>1. r2[0] = r[0 + 1]
        BY <1>9
    <2> QED
        BY <2>1
<1>16. (StartsAt(k2, r2))'
    <2>1. CASE k > 1
        <3>1. signals[k].signal = "clear" /\ r[k] = 0
            BY <2>1 DEF Follows, StartsAt
        <3>2. k2 \in 1..n2 /\ k2 + 1 = k /\ k2 > 0
            BY <1>4, <1>7, <1>8, <2>1
        <3>3. signals'[k2] = signals[k2 + 1] /\ r2[k2] = r[k2 + 1]
            BY <1>6, <1>9, <3>2
        <3> QED
            BY <3>1, <3>2, <3>3 DEF StartsAt
    <2>2. CASE k = 1
        <3>1. signals[1].signal = "clear" /\ r[1] = 0 /\ k2 = 0
            BY <1>8, <2>2 DEF Follows, StartsAt
        <3>2. shown' = <<>> /\ lastInserted' = 0
            BY <1>5, <3>1 DEF React, Clear, ResultReady, Searching, PageStatus, Failed,
                              SearchComplete, Received
        <3>3. Of(shown', searches', lastInserted') = {} /\ Stand(shown', searches', lastInserted', task'.sent)
            BY <3>2 DEF Of, Stand
        <3>4. r2[0] = Cardinality(Of(shown', searches', lastInserted'))
            BY <1>15, <3>1, <3>3, FS_EmptySet
        <3> QED
            BY <3>1, <3>3, <3>4 DEF StartsAt
    <2>3. CASE k = 0
        <3>1. k2 = 0
            BY <1>8, <2>3
        <3>2. /\ r[0] = Cardinality(Of(shown, searches, lastInserted))
              /\ Stand(shown, searches, lastInserted, task.sent)
            BY <2>3 DEF Follows, StartsAt
        <3>3. /\ r[1] = IF OwnHit(signals[1]) THEN r[0] + 1 ELSE r[0]
              /\ OwnHit(signals[1]) => signals[1].arg = task.sent[r[1]]
            <4>1. 1 \in 1..n /\ 1 > k /\ 1 - 1 = 0
                BY <1>4, <2>3
            <4>2. /\ r[1] = IF OwnHit(signals[1]) THEN r[1 - 1] + 1 ELSE r[1 - 1]
                  /\ OwnHit(signals[1]) => signals[1].arg = task.sent[r[1]]
                BY <1>5, <1>7, <4>1 DEF Counts
            <4> QED
                BY <4>1, <4>2
        <3>4. CASE ResultReady
            <4>1. s = "resultReady"
                BY <1>2, <3>4 DEF ResultReady, Received
            <4>2. /\ OwnHit(signals[1]) <=> Element.search = searches
                  /\ Element.search = searches => Element.hit = task.sent[r[1]]
                BY <1>2, <1>5, <3>3, <4>1 DEF Element, OwnHit
            <4>3. Inserts(shown', shown, lastInserted, Element) /\ lastInserted' = lastInserted + 1
                BY <3>4, ShowsElement DEF ResultReady
            <4>4. HasPlace(shown, lastInserted)
                BY DEF Typed, ScriptOK, HasPlace
            <4>5. IsNext(Element, shown, searches, lastInserted, task.sent)
                BY <3>2, <3>3, <4>2 DEF IsNext
            <4>6. /\ Stand(shown', searches, lastInserted + 1, task.sent)
                  /\ OneMore(shown', shown, searches, lastInserted, Element)
                BY <3>2, <4>3, <4>4, <4>5, StandMore
            <4>7. r2[0] = Cardinality(Of(shown', searches', lastInserted'))
                BY <1>3, <1>15, <3>2, <3>3, <4>2, <4>3, <4>6 DEF OneMore
            <4>8. Stand(shown', searches', lastInserted', task'.sent)
                BY <1>3, <4>3, <4>6
            <4> QED
                BY <3>1, <4>7, <4>8 DEF StartsAt
        <3>5. CASE shown' = shown /\ lastInserted' = lastInserted /\ s # "resultReady"
            <4>1. ~OwnHit(signals[1])
                BY <1>2, <1>5, <3>5 DEF OwnHit
            <4>2. /\ r2[0] = Cardinality(Of(shown', searches', lastInserted'))
                  /\ Stand(shown', searches', lastInserted', task'.sent)
                BY <1>3, <1>15, <3>2, <3>3, <3>5, <4>1
            <4> QED
                BY <3>1, <4>2 DEF StartsAt
        <3>6. ResultReady \/ (shown' = shown /\ lastInserted' = lastInserted /\ s # "resultReady")
            BY <1>2, <1>10, <2>3 DEF React, Clear, Searching, PageStatus, Failed, SearchComplete, Received
        <3> QED
            BY <3>4, <3>5, <3>6
    <2> QED
        BY <1>7, <2>1, <2>2, <2>3
<1>17. (Numbered(k2, r2))'
    <2>1. CASE task.hits = 0
        BY <1>3, <2>1 DEF Numbered
    <2>2. CASE \E j \in DOMAIN signals : j > k /\ signals[j].signal = "vPageStatus" /\ r[j] = 0
        <3>1. PICK j \in 1..n : j > k /\ signals[j].signal = "vPageStatus" /\ r[j] = 0
            BY <1>5, <2>2
        <3>2. CASE j = 1
            <4>1. k = 0 /\ k2 = 0
                BY <1>7, <1>8, <3>1, <3>2
            <4>2. signals[1].arg = vPageCurrent + 1
                BY <1>5, <1>7, <3>1, <3>2 DEF Counts
            <4>3. page' = signals[1].arg
                BY <1>5, <3>1, <3>2 DEF React, Clear, ResultReady, Searching, PageStatus, Failed,
                                        SearchComplete, Received
            <4> QED
                BY <1>3, <4>1, <4>2, <4>3 DEF Numbered
        <3>3. CASE j # 1
            <4>1. j - 1 \in 1..n2 /\ j - 1 > k2 /\ (j - 1) + 1 = j /\ j - 1 \in Nat
                BY <1>4, <1>7, <1>8, <3>1, <3>3
            <4>2. signals'[j - 1] = signals[(j - 1) + 1] /\ r2[j - 1] = r[(j - 1) + 1]
                BY <1>6, <1>9, <4>1
            <4> QED
                BY <1>5, <3>1, <4>1, <4>2 DEF Numbered
        <3> QED
            BY <3>2, <3>3
    <2>3. CASE k = 0 /\ page = vPageCurrent + 1
        <3>1. page' = page \/ page' = vPageCurrent + 1
            <4>1. CASE PageStatus
                <5>1. 1 \in 1..n /\ 1 > k
                    BY <1>4, <2>3
                <5>2. signals[1].signal = "vPageStatus" /\ page' = signals[1].arg
                    BY <1>5, <4>1 DEF PageStatus, Received
                <5> QED
                    BY <1>5, <1>7, <5>1, <5>2 DEF Counts
            <4> QED
                BY <4>1 DEF React, Clear, ResultReady, Searching, Failed, SearchComplete
        <3> QED
            BY <1>3, <1>8, <2>3, <3>1 DEF Numbered
    <2> QED
        BY <2>1, <2>2, <2>3 DEF Follows, Numbered
<1>18. k2 \in 0..n2
    BY <1>4, <1>7, <1>8
<1> QED
    BY <1>14, <1>16, <1>17, <1>18 DEF Follows, n2

(* The script cancels only to search.                                        *)
LEMMA CancelStep ==
    ASSUME Typed, CancelThenSearch, [Next]_vars PROVE CancelThenSearch'
<1>1. CASE UNCHANGED calls
    BY <1>1 DEF CancelThenSearch
<1>2. CASE \E f \in CallNames \ {"cancelSearchTasks"} : calls' = calls \o <<f>>
    <2>1. PICK f \in CallNames \ {"cancelSearchTasks"} : calls' = calls \o <<f>>
        BY <1>2
    <2>2. <<f>> \in Seq(CallNames) /\ DOMAIN <<f>> = {1} /\ <<f>>[1] = f
        OBVIOUS
    <2>3. Joins(calls', calls, <<f>>)
        BY <2>1, <2>2, Joined DEF Typed, ChannelOK
    <2>4. \A i \in DOMAIN calls' : i \in DOMAIN calls \/ i = Len(calls) + 1
        BY <2>2, <2>3 DEF Joins
    <2>5. calls'[Len(calls) + 1] = f
        BY <2>2, <2>3 DEF Joins
    <2>6. \A i \in DOMAIN calls : i \in DOMAIN calls' /\ calls'[i] = calls[i]
        BY <2>3 DEF Joins
    <2> QED
        BY <2>4, <2>5, <2>6 DEF CancelThenSearch
<1>3. CASE calls' = calls \o <<"cancelSearchTasks", "search">>
    <2> DEFINE fs == <<"cancelSearchTasks", "search">>
    <2>1. fs \in Seq(CallNames) /\ DOMAIN fs = 1..2 /\ fs[1] = "cancelSearchTasks" /\ fs[2] = "search"
        BY DEF CallNames
    <2>2. Joins(calls', calls, fs)
        BY <1>3, <2>1, Joined DEF Typed, ChannelOK
    <2>3. \A i \in DOMAIN calls' : i \in DOMAIN calls \/ i = Len(calls) + 1 \/ i = Len(calls) + 2
        BY <2>1, <2>2 DEF Joins
    <2>4. /\ Len(calls) + 1 \in DOMAIN calls' /\ Len(calls) + 2 \in DOMAIN calls' /\ Len(calls) \in Nat
          /\ calls'[Len(calls) + 1] = "cancelSearchTasks" /\ calls'[Len(calls) + 2] = "search"
        BY <2>1, <2>2 DEF Joins
    <2>5. \A i \in DOMAIN calls : i \in DOMAIN calls' /\ calls'[i] = calls[i]
        BY <2>2 DEF Joins
    <2>6. (Len(calls) + 1) + 1 = Len(calls) + 2
        BY <2>4
    <2> QED
        BY <2>3, <2>4, <2>5, <2>6 DEF CancelThenSearch
<1>4. CASE calls # <<>> /\ calls' = Tail(calls)
    <2>1. Leaves(calls', calls)
        BY <1>4, Left DEF Typed, ChannelOK
    <2>2. ASSUME NEW i \in DOMAIN calls', calls'[i] = "cancelSearchTasks"
          PROVE  i + 1 \in DOMAIN calls' /\ calls'[i + 1] = "search"
        <3>1. i + 1 \in DOMAIN calls /\ calls[i + 1] = "cancelSearchTasks" /\ i \in Nat /\ i >= 1
            BY <2>1, <2>2 DEF Leaves
        <3>2. (i + 1) + 1 \in DOMAIN calls /\ calls[(i + 1) + 1] = "search"
            BY <3>1 DEF CancelThenSearch
        <3>3. i + 1 \in DOMAIN calls'
            BY <2>1, <3>1, <3>2 DEF Leaves
        <3> QED
            BY <2>1, <3>2, <3>3 DEF Leaves
    <2> QED
        BY <2>2 DEF CancelThenSearch
<1>5. User => \/ \E f \in CallNames \ {"cancelSearchTasks"} : calls' = calls \o <<f>>
              \/ calls' = calls \o <<"cancelSearchTasks", "search">>
    BY DEF User, RunSearch, Turn, Retry, Ask, CallNames
<1>6. Slot => calls # <<>> /\ calls' = Tail(calls)
    BY DEF Slot, OnCancel, OnSearch, OnPreviousPage, OnNextPage, OnRetry, Called
<1>7. Task \/ LateTimeout \/ Survivor \/ React \/ UNCHANGED vars => UNCHANGED calls
    BY SurvivorEmits DEF Task, Hit, Complete, NoHits, Raise, Expire, TimedOut, LateTimeout, Step, React, Clear,
           ResultReady, Searching, PageStatus, Failed, SearchComplete, Received, vars
<1> QED
    BY <1>1, <1>2, <1>3, <1>4, <1>5, <1>6, <1>7 DEF Next

(* What follows the last clear does not depend on the calls.                 *)
LEMMA FollowsUnchanged ==
    ASSUME NEW k, NEW r, Follows(k, r), UNCHANGED <<signals, searches, vPageCurrent, task, shown, page>>,
           Typed, UNCHANGED lastInserted \/ k > 0 \/ (lastInserted' = 0 /\ r[0] = 0)
    PROVE  (Follows(k, r))'
<1>1. (Counts(k, r))'
    <2>1. \A e : (OwnHit(signals[e]))' <=> OwnHit(signals[e])
        BY DEF OwnHit
    <2> QED
        BY <2>1 DEF Follows, Counts
<1>2. (StartsAt(k, r))'
    <2>1. CASE UNCHANGED lastInserted \/ k > 0
        BY <2>1 DEF Follows, StartsAt
    <2>2. CASE ~(k > 0) /\ lastInserted' = 0 /\ r[0] = 0
        <3>1. /\ r[0] = Cardinality(Of(shown, searches, lastInserted))
              /\ Stand(shown, searches, lastInserted, task.sent)
            BY <2>2 DEF Follows, StartsAt
        <3>2. lastInserted \in Nat /\ DOMAIN shown \subseteq Nat \ {0}
            BY DEF Typed, ScriptOK
        <3>3. Stand(shown, searches, 0, task.sent) /\ Cardinality(Of(shown, searches, 0)) = 0
            BY <2>2, <3>1, <3>2, StandReset
        <3>4. /\ Stand(shown', searches', lastInserted', task'.sent)
              /\ r[0] = Cardinality(Of(shown', searches', lastInserted'))
            BY <2>2, <3>3
        <3> QED
            BY <2>2, <3>4 DEF StartsAt
    <2> QED
        BY <2>1, <2>2
<1>3. (Numbered(k, r))'
    BY DEF Follows, Numbered
<1> QED
    BY <1>1, <1>2, <1>3 DEF Follows

(* A click that will not clear the page is a call of previousPage() that the *)
(* handler ignores, at its first page: the script forgets its last insertion *)
(* while it shows no hit of the last search.                                 *)
LEMMA FollowedUser ==
    ASSUME Typed, Followed, User PROVE Followed'
<1> SUFFICES ASSUME ~Clearing' PROVE \E k, r : (Follows(k, r))'
    BY DEF Followed
<1>1. PICK fs \in {<<"cancelSearchTasks", "search">>, <<"previousPage">>, <<"nextPage">>, <<"searchRetry">>} :
          /\ calls' = calls \o fs /\ UNCHANGED <<handler, signals, shown, page>>
          /\ fs = <<"previousPage">> => page > 1 /\ lastInserted' = 0
    BY DEF User, RunSearch, Turn, Retry, Ask, script
<1>2. fs \in Seq(CallNames)
    <2>1. /\ <<"cancelSearchTasks", "search">> \in Seq(CallNames) /\ <<"previousPage">> \in Seq(CallNames)
          /\ <<"nextPage">> \in Seq(CallNames) /\ <<"searchRetry">> \in Seq(CallNames)
        BY DEF CallNames
    <2> QED
        BY <2>1
<1>3. Joins(calls', calls, fs)
    BY <1>1, <1>2, Joined DEF Typed, ChannelOK
<1>4. UNCHANGED <<vPageCurrent, searches, task, late>>
    BY <1>1 DEF handler
<1>5. fs = <<"previousPage">> /\ vPageCurrent = 0
    <2>1. \A i \in DOMAIN fs : \E j \in DOMAIN calls' : calls'[j] = fs[i]
        BY <1>3 DEF Joins
    <2>2. \A i \in DOMAIN fs : /\ fs[i] \notin {"search", "nextPage", "searchRetry"}
                               /\ fs[i] = "previousPage" => ~(vPageCurrent > 0)
        BY <1>4, <2>1 DEF Clearing
    <2>3. fs = <<"previousPage">>
        BY <2>2
    <2>4. ~(vPageCurrent > 0)
        BY <2>2, <2>3
    <2> QED
        BY <2>3, <2>4 DEF Typed, HandlerOK
<1>6. ~Clearing
    BY <1>3, <1>4 DEF Clearing, Joins
<1>7. PICK k, r : Follows(k, r)
    BY <1>6 DEF Followed
<1>8. CASE k > 0
    BY <1>1, <1>4, <1>7, <1>8, FollowsUnchanged
<1>9. CASE k = 0
    <2> DEFINE n == Len(signals)
    <2>1. n \in Nat /\ DOMAIN signals = 1..n /\ r \in [Nat -> Nat]
        <3>1. r \in [Nat -> Nat]
            BY <1>7 DEF Follows
        <3>2. n \in Nat /\ DOMAIN signals = 1..n
            BY DEF Typed, ChannelOK
        <3> QED
            BY <3>1, <3>2
    <2>2. \A i \in 0..n : r[0] <= r[i]
        <3>1. \A i \in 0..n : i \in k..n /\ 0 \in k..n /\ 0 <= i
            BY <1>9, <2>1
        <3> QED
            BY <1>7, <3>1 DEF Follows, Counts
    <2>3. r[0] \in Nat
        BY <2>1
    <2>4. ~(page = vPageCurrent + 1)
        BY <1>1, <1>5
    <2>5. CASE task.hits = 0
        <3>1. r[n] = 0 /\ n \in 0..n
            BY <1>7, <2>1, <2>5 DEF Follows, Counts, Typed, HandlerOK
        <3>2. r[0] = 0
            BY <2>1, <2>2, <2>3, <3>1
        <3> QED
            BY <1>1, <1>4, <1>5, <1>7, <3>2, FollowsUnchanged
    <2>6. CASE \E j \in DOMAIN signals : r[j] = 0
        <3>1. PICK j \in 0..n : r[j] = 0
            BY <2>1, <2>6
        <3>2. r[0] = 0
            BY <2>1, <2>2, <2>3, <3>1
        <3> QED
            BY <1>1, <1>4, <1>5, <1>7, <3>2, FollowsUnchanged
    <2> QED
        BY <1>7, <2>4, <2>5, <2>6 DEF Follows, Numbered
<1>10. k \in 0..Len(signals) /\ Len(signals) \in Nat
    <2>1. k \in 0..Len(signals)
        BY <1>7 DEF Follows
    <2> QED
        BY <2>1 DEF Typed, ChannelOK
<1> QED
    BY <1>8, <1>9, <1>10

(* A slot that spawns a search starts its line with a clear.                 *)
LEMMA FollowedSlot ==
    ASSUME Typed, CancelThenSearch, Followed, Slot PROVE Followed'
<1>1. UNCHANGED script
    BY SlotEmits
<1>2. calls # <<>> /\ Leaves(calls', calls)
    BY Left DEF Slot, OnCancel, OnSearch, OnPreviousPage, OnNextPage, OnRetry, Called, Typed, ChannelOK
<1>3. CASE OnCancel
    <2>1. calls[1] = "cancelSearchTasks" /\ 1 \in DOMAIN calls
        BY <1>2, <1>3 DEF OnCancel, Called, Leaves
    <2>2. 2 \in DOMAIN calls /\ calls[2] = "search"
        <3>1. 1 + 1 \in DOMAIN calls /\ calls[1 + 1] = "search"
            BY <2>1 DEF CancelThenSearch
        <3> QED
            BY <3>1
    <2>3. 1 \in DOMAIN calls' /\ calls'[1] = "search"
        BY <1>2, <2>2 DEF Leaves
    <2> QED
        BY <2>3 DEF Followed, Clearing
<1>4. CASE OnPreviousPage /\ ~(vPageCurrent > 0)
    <2>1. UNCHANGED <<handler, signals>>
        BY <1>4 DEF OnPreviousPage
    <2>2. UNCHANGED <<vPageCurrent, searches, task, signals, shown, page, lastInserted>>
        BY <1>1, <2>1 DEF handler, script
    <2>3. Clearing => Clearing'
        <3> SUFFICES ASSUME NEW i \in DOMAIN calls, calls[i] \in {"search", "nextPage", "searchRetry"}
                     PROVE  Clearing'
            BY <1>4 DEF Clearing
        <3>1. i # 1
            BY <1>2, <1>4 DEF OnPreviousPage, Called, Leaves
        <3>2. i - 1 \in DOMAIN calls' /\ calls'[i - 1] = calls[i]
            BY <1>2, <3>1 DEF Leaves
        <3> QED
            BY <3>2 DEF Clearing
    <2> QED
        BY <2>2, <2>3, FollowsUnchanged DEF Followed
<1>5. CASE Spawn
    <2>1. PICK ss \in Seq(Sig(searches)) : Emit(ss) /\ Cleared(ss)
        BY <1>5, SlotEmits DEF Spawn, Typed, HandlerOK
    <2>2. Joins(signals', signals, ss)
        BY <2>1, Joined DEF Typed, ChannelOK, Emit
    <2> DEFINE n == Len(signals)
               n2 == Len(signals')
               l == Len(ss)
    <2>3. n \in Nat /\ n2 \in Nat /\ l \in Nat /\ n2 = n + l /\ DOMAIN signals' = 1..n2 /\ DOMAIN ss = 1..l
        BY <2>2 DEF Joins
    <2>4. task'.hits = 0 /\ task'.sent = <<>>
        BY <1>5 DEF Spawn, NoTask
    <2>5. \A i \in 1..l : signals'[n + i] = ss[i]
        BY <2>2, <2>3 DEF Joins
    <2>6. PICK r \in [Nat -> Nat] : \A i \in Nat : r[i] = 0
        <3> DEFINE z == [i \in Nat |-> 0]
        <3>1. z \in [Nat -> Nat] /\ \A i \in Nat : z[i] = 0
            OBVIOUS
        <3> QED
            BY <3>1
    <2>7. PICK k \in Nat : k = n + 1
        BY <2>3
    <2>8. 1 \in 1..l /\ ss[1].signal = "clear"
        BY <2>1, <2>3 DEF Cleared
    <2>9. k \in 1..n2 /\ signals'[k].signal = "clear"
        <3>1. k \in 1..n2 /\ signals'[k] = ss[1]
            BY <2>3, <2>5, <2>7, <2>8
        <3> QED
            BY <2>8, <3>1
    <2> HIDE DEF n, n2, l
    <2>10. ASSUME NEW i \in 1..n2, i > k
           PROVE  signals'[i].signal = "searchStarted" /\ r[i] = 0 /\ r[i - 1] = 0
        <3>1. i - n \in 1..l /\ n + (i - n) = i /\ i - n # 1 /\ i \in Nat /\ i - 1 \in Nat
            BY <2>3, <2>7, <2>10
        <3>2. signals'[i] = ss[i - n]
            BY <2>5, <3>1
        <3> QED
            BY <2>1, <2>3, <2>6, <3>1, <3>2 DEF Cleared
    <2>11. \A i \in k..n2 : r[i] = 0
        BY <2>6, <2>9
    <2>12. r[n2] = 0
        BY <2>3, <2>6
    <2>13. (Counts(k, r))'
        <3>1. Len(task'.sent) = 0
            BY <2>4
        <3>2. \A i, j \in k..n2 : i <= j => r[i] <= r[j]
            BY <2>11
        <3>3. ASSUME NEW i \in 1..n2, i > k
              PROVE  /\ signals'[i].signal # "clear"
                     /\ r[i] = IF (OwnHit(signals[i]))' THEN r[i - 1] + 1 ELSE r[i - 1]
                     /\ ~(OwnHit(signals[i]))' /\ signals'[i].signal # "vPageStatus"
            BY <2>10, <3>3 DEF OwnHit
        <3> QED
            BY <2>3, <2>12, <3>1, <3>2, <3>3 DEF Counts, n2
    <2>14. (StartsAt(k, r))'
        BY <2>6, <2>9 DEF StartsAt
    <2>15. (Numbered(k, r))'
        BY <2>4 DEF Numbered
    <2>16. k \in 0..n2
        BY <2>9
    <2> QED
        BY <2>13, <2>14, <2>15, <2>16 DEF Followed, Follows, n2
<1> QED
    BY <1>3, <1>4, <1>5 DEF Slot, OnCancel, OnSearch, OnPreviousPage, OnNextPage, OnRetry

(* Every step keeps what follows the last clear.                             *)
LEMMA FollowedStep ==
    ASSUME Typed, Typed', CancelThenSearch, Followed, [Next]_vars PROVE Followed'
<1>1. CASE User
    BY <1>1, FollowedUser
<1>2. CASE Slot
    BY <1>2, FollowedSlot
<1>3. CASE Task \/ LateTimeout \/ Survivor
    <2>1. Kept /\ UNCHANGED calls
        BY <1>3, SurvivorEmits
           DEF Task, Hit, Complete, NoHits, Raise, Expire, TimedOut, LateTimeout, Step, Kept
    <2>2. PICK ss \in Seq(Sig(searches)) : Emit(ss) /\ Said(ss)
        BY <1>3, TaskEmits, SurvivorEmits
    <2>3. Sent(ss)
        BY <2>2 DEF Sent
    <2>4. Clearing' <=> Clearing
        BY <2>1 DEF Clearing, Kept
    <2> QED
        BY <2>1, <2>2, <2>3, <2>4, FollowsEmits DEF Followed
<1>4. CASE React
    <2>1. UNCHANGED <<handler, calls>>
        BY <1>4 DEF React, Clear, ResultReady, Searching, PageStatus, Failed, SearchComplete, Received
    <2>2. Clearing' <=> Clearing
        BY <2>1 DEF Clearing, handler
    <2> QED
        BY <1>4, <2>2, FollowsReact DEF Followed
<1>5. CASE UNCHANGED vars
    <2>1. /\ UNCHANGED <<signals, searches, vPageCurrent, task, shown, page, lastInserted>>
          /\ Clearing' <=> Clearing
        BY <1>5 DEF vars, handler, script, Clearing
    <2> QED
        BY <2>1, FollowsUnchanged DEF Followed
<1> QED
    BY <1>1, <1>2, <1>3, <1>4, <1>5 DEF Next

(* A signal that the search is over is the last word.                        *)
LEMMA QuietEmits ==
    ASSUME Typed, NEW e \in Sig(searches), e.signal \in Over, Emit(<<e>>) PROVE Quiet'
<1>1. <<e>> \in Seq(Sig(searches)) /\ Len(<<e>>) = 1 /\ <<e>>[1] = e /\ DOMAIN <<e>> = 1..1
    OBVIOUS
<1>2. Joins(signals', signals, <<e>>)
    BY <1>1, Joined DEF Typed, ChannelOK, Emit
<1>3. /\ Len(signals) \in Nat /\ Len(signals') = Len(signals) + 1
      /\ DOMAIN signals' = 1..Len(signals')
      /\ signals'[Len(signals) + 1] = e
    BY <1>1, <1>2 DEF Joins
<1>4. PICK j \in Nat : j = Len(signals) + 1
    BY <1>3
<1>5. j \in 0..Len(signals') /\ j # 0 /\ \A i \in DOMAIN signals' : ~(i > j)
    BY <1>3, <1>4
<1> QED
    BY <1>3, <1>4, <1>5 DEF Quiet

(* The script takes the last word, or goes on to it.                         *)
LEMMA QuietReact ==
    ASSUME Typed, Quiet, React PROVE Quiet'
<1> DEFINE n == Len(signals)
           n2 == Len(signals')
<1>1. PICK s \in Names : Received(s)
    BY DEF React, Clear, ResultReady, Searching, PageStatus, Failed, SearchComplete, Names, Busy, Over
<1>2. Leaves(signals', signals) /\ Head(signals).signal = s
    BY <1>1, Left DEF Typed, ChannelOK, Received
<1>3. n \in Nat /\ n2 \in Nat /\ n2 + 1 = n
    BY <1>2 DEF Leaves
<1>4. DOMAIN signals = 1..n /\ DOMAIN signals' = 1..n2 /\ signals[1].signal = s
    BY <1>2 DEF Leaves
<1>5. \A i \in 1..n2 : signals'[i] = signals[i + 1]
    BY <1>2, <1>4 DEF Leaves
<1>6. PICK j \in 0..n : /\ IF j = 0 THEN status = "waitinput" ELSE signals[j].signal \in Over
                        /\ \A i \in DOMAIN signals : i > j => signals[i].signal \notin Busy
    BY DEF Quiet
<1>7. status' = IF s \in Busy THEN "searching" ELSE IF s \in Over THEN "waitinput" ELSE status
    BY <1>2 DEF React, Clear, ResultReady, Searching, PageStatus, Failed, SearchComplete, Received, Busy, Over
<1> HIDE DEF n, n2
<1>8. PICK j2 \in Nat : IF j = 0 THEN j2 = 0 ELSE j2 = j - 1
    BY <1>3, <1>6
<1>9. ASSUME NEW i \in 1..n2, i > j2 PROVE signals'[i].signal \notin Busy
    <2>1. i + 1 \in 1..n /\ i + 1 > j
        BY <1>3, <1>6, <1>8, <1>9
    <2> QED
        BY <1>4, <1>5, <1>6, <2>1
<1>10. j2 \in 0..n2
    BY <1>3, <1>6, <1>8
<1>11. CASE j2 > 0
    <2>1. j2 \in 1..n2 /\ j2 + 1 = j /\ j # 0
        BY <1>8, <1>10, <1>11
    <2>2. signals'[j2].signal \in Over
        BY <1>5, <1>6, <2>1
    <2> QED
        BY <1>4, <1>9, <1>10, <2>1, <2>2 DEF Quiet, n2
<1>12. CASE j2 = 0
    <2>1. CASE j = 0
        <3>1. 1 \in 1..n /\ 1 > j
            BY <1>3, <2>1
        <3>2. s \notin Busy /\ status = "waitinput"
            BY <1>4, <1>6, <2>1, <3>1
        <3> QED
            BY <1>4, <1>7, <1>9, <1>10, <1>12, <3>2 DEF Quiet, n2
    <2>2. CASE j = 1
        <3>1. s \in Over /\ s \notin Busy
            BY <1>4, <1>6, <2>2 DEF Over, Busy
        <3> QED
            BY <1>4, <1>7, <1>9, <1>10, <1>12, <3>1 DEF Quiet, n2
    <2> QED
        BY <1>3, <1>6, <1>8, <1>12, <2>1, <2>2
<1> QED
    BY <1>10, <1>11, <1>12

(* A complete search has treated every hit and says that it is over.         *)
LEMMA CompletedStep ==
    ASSUME Typed, Completed, [Next]_vars PROVE Completed'
<1>1. CASE UNCHANGED <<signals, status, survivors>> /\ task' \in {task, NoTask}
    BY <1>1 DEF Completed, Quiet, NoTask, AllOver
<1>2. CASE task'.at # "complete"
    BY <1>2 DEF Completed
<1>3. CASE User \/ UNCHANGED vars
    <2>1. UNCHANGED <<signals, status, task, survivors>>
        BY <1>3 DEF User, RunSearch, Turn, Retry, Ask, handler, script, vars
    <2> QED
        BY <1>1, <2>1
<1>4. CASE Slot
    <2>1. UNCHANGED status
        BY <1>4, SlotEmits DEF script
    <2> QED
        BY <1>1, <1>2, <1>4, <2>1, SlotEmits
<1>5. CASE Task
    <2>1. CASE Complete
        <3>1. Signal("searchComplete") \in Sig(searches) /\ Signal("searchComplete").signal = "searchComplete"
            BY SignalIs DEF Typed, HandlerOK, Names, Over
        <3>2. Emit(<<Signal("searchComplete")>>) /\ task'.hits = Hits
            BY <2>1 DEF Complete, Step, Ends, Typed, HandlerOK
        <3> QED
            BY <3>1, <3>2, QuietEmits DEF Completed, Over
    <2>2. CASE Hit
        BY <1>2, <2>2 DEF Hit, Step, Typed, HandlerOK
    <2>3. CASE NoHits \/ Raise \/ Expire \/ TimedOut
        BY <1>2, <2>3 DEF NoHits, Raise, Expire, TimedOut, Step, Ends, Typed, HandlerOK
    <2> QED
        BY <1>5, <2>1, <2>2, <2>3 DEF Task
<1>6. CASE LateTimeout
    <2>1. Signal("searchTimeout") \in Sig(searches) /\ Signal("searchTimeout").signal = "searchTimeout"
        BY SignalIs DEF Typed, HandlerOK, Names, Over
    <2>2. Emit(<<Signal("searchTimeout")>>) /\ task' = task
        BY <1>6 DEF LateTimeout
    <2> QED
        BY <2>1, <2>2, QuietEmits DEF Completed, Over
<1>7. CASE React
    <2>1. task' = task /\ survivors' = survivors
        BY <1>7 DEF React, Clear, ResultReady, Searching, PageStatus, Failed, SearchComplete,
                    Received, handler
    <2> QED
        BY <1>7, <2>1, QuietReact DEF Completed, AllOver
<1>8. CASE Survivor
    <2>1. task' = task
        BY <1>8, SurvivorEmits
    <2>2. ASSUME AllOver' PROVE Quiet'
        <3>1. PICK e \in Sig(searches) : e.signal \in Over /\ Emit(<<e>>)
            BY <1>8, <2>2, SurvivorEmits
        <3> QED
            BY <3>1, QuietEmits
    <2> QED
        BY <2>1, <2>2 DEF Completed
<1> QED
    BY <1>3, <1>4, <1>5, <1>6, <1>7, <1>8 DEF Next

(* When nothing is on its way any more and a search has completed, the page  *)
(* shows what that search sent, once and in order, whatever hits of          *)
(* survivors stand among it, and the number of its page; and it says that no *)
(* search runs, unless a survivor is not over.                               *)
THEOREM CompletedIsShown == Spec => []CompleteIsShown
<1>1. Init => CancelThenSearch /\ Followed /\ Completed
    <2> SUFFICES ASSUME Init PROVE CancelThenSearch /\ Followed /\ Completed
        OBVIOUS
    <2>1. CancelThenSearch /\ Completed
        BY DEF Init, CancelThenSearch, Completed, NoTask
    <2>2. PICK r \in [Nat -> Nat] : \A i \in Nat : r[i] = 0
        <3> DEFINE z == [i \in Nat |-> 0]
        <3>1. z \in [Nat -> Nat] /\ \A i \in Nat : z[i] = 0
            OBVIOUS
        <3> QED
            BY <3>1
    <2>3. Len(signals) = 0 /\ DOMAIN signals = {} /\ Len(shown) = 0 /\ DOMAIN shown = {}
          /\ Len(task.sent) = 0 /\ task.hits = 0 /\ lastInserted = 0
        BY DEF Init, NoTask
    <2>5. /\ Cardinality(Of(shown, searches, lastInserted)) = 0
          /\ Stand(shown, searches, lastInserted, task.sent)
        <3>1. Of(shown, searches, lastInserted) = {} /\ Stand(shown, searches, lastInserted, task.sent)
            BY <2>3 DEF Of, Stand
        <3> QED
            BY <3>1, FS_EmptySet
    <2>4. Follows(0, r)
        BY <2>2, <2>3, <2>5 DEF Follows, Counts, StartsAt, Numbered
    <2> QED
        BY <2>1, <2>4 DEF Followed
<1>2. Typed /\ Followed /\ Completed => CompleteIsShown
    <2> SUFFICES ASSUME Typed, Followed, Completed,
                        calls = <<>>, signals = <<>>, task.at = "complete"
                 PROVE  /\ Cardinality(Own(Len(shown))) = Len(task.sent)
                        /\ \A i \in Own(Len(shown)) : shown[i].hit = task.sent[Cardinality(Own(i))]
                        /\ page = vPageCurrent + 1
                        /\ AllOver => status = "waitinput"
        BY DEF CompleteIsShown, AllOver
    <2>1. ~Clearing
        BY DEF Clearing
    <2>2. PICK k, r : Follows(k, r)
        BY <2>1 DEF Followed
    <2>3. Len(signals) = 0 /\ DOMAIN signals = {}
        OBVIOUS
    <2>4. k = 0
        BY <2>2, <2>3 DEF Follows
    <2>5. /\ r[0] = Cardinality(Of(shown, searches, lastInserted)) /\ r[0] = Len(task.sent)
          /\ Stand(shown, searches, lastInserted, task.sent)
        BY <2>2, <2>3, <2>4 DEF Follows, Counts, StartsAt
    <2>6. task.hits # 0
        BY SearchAssumption DEF Completed
    <2>7. page = vPageCurrent + 1
        BY <2>2, <2>3, <2>6 DEF Follows, Numbered
    <2>8. AllOver => status = "waitinput"
        BY <2>3 DEF Completed, Quiet
    <2>9. DOMAIN shown = 1..Len(shown) /\ Len(shown) \in Nat /\ lastInserted \in Nat /\ lastInserted <= Len(shown)
        BY DEF Typed, ScriptOK
    <2>10. \A i \in Own(Len(shown)) : i \in 1..lastInserted /\ shown[i].search = searches
        BY <2>5, <2>9 DEF Stand, Own
    <2>11. \A i : Own(i) = Of(shown, searches, i)
        BY DEF Own, Of
    <2>12. Own(Len(shown)) = Of(shown, searches, lastInserted)
        <3>1. \A i \in 1..lastInserted : i \in 1..Len(shown)
            BY <2>9
        <3> QED
            BY <2>10, <3>1 DEF Own, Of
    <2>13. \A i \in Own(Len(shown)) : shown[i].hit = task.sent[Cardinality(Own(i))]
        BY <2>5, <2>10, <2>11 DEF Stand
    <2> QED
        BY <2>5, <2>7, <2>8, <2>12, <2>13
<1> QED
    BY <1>1, <1>2, TypedInit, TypedStep, CancelStep, FollowedStep, CompletedStep, PTL DEF Spec

=============================================================================
