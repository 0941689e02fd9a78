---------------------------- MODULE PeersProofs ----------------------------
(* Proofs about the registration of peers, for any tasks, DIDs, handles,     *)
(* messages and failures.                                                    *)
EXTENDS PeersProperties, Integers, SequenceTheorems, TLAPS

(* What removing an element of a sequence leaves.                            *)
LEMMA Removed ==
    ASSUME NEW S, NEW s \in Seq(S), NEW n \in DOMAIN s
    PROVE  /\ RemoveAt(s, n) \in Seq(S)
           /\ \A i \in DOMAIN RemoveAt(s, n) : \E j \in DOMAIN s : j # n /\ RemoveAt(s, n)[i] = s[j]
           /\ \A i, k \in DOMAIN RemoveAt(s, n) : \E j, m \in DOMAIN s :
                 /\ j # n /\ m # n /\ (i # k => j # m)
                 /\ RemoveAt(s, n)[i] = s[j] /\ RemoveAt(s, n)[k] = s[m]
<1> DEFINE a == SubSeq(s, 1, n - 1)
<1> DEFINE b == SubSeq(s, n + 1, Len(s))
<1> DEFINE r == RemoveAt(s, n)
<1> DEFINE at(i) == IF i < n THEN i ELSE i + 1
<1>1. Len(s) \in Nat /\ n \in 1..Len(s) /\ DOMAIN s = 1..Len(s)
    OBVIOUS
<1>2. a \in Seq(S) /\ Len(a) = n - 1 /\ \A i \in 1..(n - 1) : a[i] = s[i]
    BY <1>1
<1>3. b \in Seq(S) /\ Len(b) = Len(s) - n /\ \A i \in 1..(Len(s) - n) : b[i] = s[n + i]
    BY <1>1
<1>4. r = a \o b
    BY DEF RemoveAt
<1> HIDE DEF a, b, r
<1>5. r \in Seq(S) /\ Len(r) = Len(s) - 1 /\ DOMAIN r = 1..(Len(s) - 1)
    <2>1. r \in Seq(S)
        BY <1>2, <1>3, <1>4
    <2>2. Len(r) = Len(a) + Len(b)
        BY <1>2, <1>3, <1>4, ConcatProperties
    <2>3. Len(r) = Len(s) - 1
        BY <1>1, <1>2, <1>3, <2>2
    <2> QED
        BY <2>1, <2>3
<1>6. ASSUME NEW i \in DOMAIN r PROVE r[i] = s[at(i)]
    <2>1. i \in 1..(Len(s) - 1)
        BY <1>5
    <2>2. CASE i < n
        <3>1. i \in 1..Len(a)
            BY <1>1, <1>2, <2>1, <2>2
        <3> QED
            BY <1>2, <1>3, <1>4, <2>2, <3>1
    <2>3. CASE ~(i < n)
        <3>0. \A k \in 1..(Len(a) + Len(b)) :
                  (a \o b)[k] = IF k <= Len(a) THEN a[k] ELSE b[k - Len(a)]
            BY <1>2, <1>3, ConcatProperties
        <3>1. i - Len(a) \in 1..Len(b) /\ i - Len(a) \in 1..(Len(s) - n) /\ i > Len(a) /\ n + (i - Len(a)) = i + 1
            BY <1>1, <1>2, <1>3, <2>1, <2>3
        <3>2. r[i] = b[i - Len(a)]
            BY <1>4, <3>0, <3>1
        <3> QED
            BY <1>3, <2>3, <3>1, <3>2
    <2> QED
        BY <2>2, <2>3
<1>7. ASSUME NEW i \in DOMAIN r PROVE at(i) \in DOMAIN s /\ at(i) # n
    BY <1>1, <1>5
<1>8. ASSUME NEW i \in DOMAIN r, NEW k \in DOMAIN r, i # k PROVE at(i) # at(k)
    BY <1>1, <1>5, <1>8
<1> HIDE DEF at
<1>9. \A i, k \in DOMAIN r : \E j, m \in DOMAIN s :
                 /\ j # n /\ m # n /\ (i # k => j # m)
                 /\ r[i] = s[j] /\ r[k] = s[m]
    BY <1>6, <1>7, <1>8
<1>10. \A i \in DOMAIN r : \E j \in DOMAIN s : j # n /\ r[i] = s[j]
    BY <1>6, <1>7
<1> QED
    BY <1>5, <1>9, <1>10 DEF r

-----------------------------------------------------------------------------
(* Types *)

TaskRec == [at : {"idle", "new", "known", "check", "load", "auth", "graphed"},
            ident : Idents \union {None}, ctx : Ctx \union {None}]
LoadRec == [did : Dids, handle : Handles, at : {"load", "added"}]

(* A task at work has its message, one that authenticates has its context.   *)
HasNames(r) ==
    /\ r.at # "idle" => r.ident \in Idents
    /\ r.at \in {"auth", "graphed"} => r.ctx \in Ctx
Named == \A t \in Tasks : HasNames(task[t])

TInv == TypeOK /\ Named

LEMMA TypeInit == Init => TInv
<1> SUFFICES ASSUME Init PROVE TInv
    OBVIOUS
<1>1. Idle \in TaskRec /\ HasNames(Idle)
    BY DEF Idle, TaskRec, HasNames
<1>2. task \in [Tasks -> TaskRec] /\ Named
    BY <1>1 DEF Init, Named
<1>3. graph \in [Handles -> Dids \union {None}] /\ proved \subseteq Dids
    BY DEF Init
<1>4. saves \in 0..MaxSaves
    BY PeersAssumption DEF Init
<1>5. /\ mark \in [Dids -> BOOLEAN] /\ failed \subseteq Ctx /\ watching \in BOOLEAN
    BY DEF Init
<1>7. todo \subseteq InUse /\ loading \subseteq Dids /\ loads = <<>>
    BY DEF Init
<1>8. loads \in Seq([did : Dids, handle : Handles, at : {"load", "added"}])
    BY <1>7
<1>6. /\ byHandle \in [Handles -> Ctx \union {None}] /\ byPeerId \in [PeerIds -> Ctx \union {None}]
      /\ byDid \in [Dids -> Ctx \union {None}]
    BY DEF Init
<1> QED
    BY <1>2, <1>3, <1>4, <1>5, <1>6, <1>7, <1>8 DEF TInv, TypeOK, TaskRec

(* A step of one task: what it makes of the task has its names.              *)
LEMMA OneTask ==
    ASSUME TInv, NEW t \in Tasks, Step(t) \/ \E i \in Idents : Ident(t, i)
    PROVE  \E r \in TaskRec : HasNames(r) /\ task' = [task EXCEPT ![t] = r]
<1> DEFINE x == task[t]
<1>1. x \in TaskRec /\ HasNames(x)
    BY DEF TInv, TypeOK, Named, TaskRec
<1>2. Idle \in TaskRec /\ HasNames(Idle)
    BY DEF Idle, TaskRec, HasNames
<1>3. CASE task' = [task EXCEPT ![t] = Idle]
    BY <1>2, <1>3
<1>4. ASSUME NEW i \in Idents, Ident(t, i) PROVE \E r \in TaskRec : HasNames(r) /\ task' = [task EXCEPT ![t] = r]
    <2> DEFINE r == [at |-> IF InGraph(i.did) THEN "known" ELSE "new", ident |-> i, ctx |-> None]
    <2>1. r \in TaskRec /\ HasNames(r)
        BY DEF TaskRec, HasNames
    <2>2. task' = [task EXCEPT ![t] = r]
        BY <1>4 DEF Ident
    <2> QED
        BY <2>1, <2>2
<1>5. ASSUME NEW a \in {"check", "load", "graphed"}, task' = [task EXCEPT ![t].at = a],
             x.at # "idle", a = "graphed" => x.at = "auth"
      PROVE  \E r \in TaskRec : HasNames(r) /\ task' = [task EXCEPT ![t] = r]
    <2> DEFINE r == [x EXCEPT !.at = a]
    <2>1. r.at = a /\ r.ident = x.ident /\ r.ctx = x.ctx /\ r \in TaskRec
        BY <1>1 DEF TaskRec
    <2>2. HasNames(r)
        BY <1>1, <1>5, <2>1 DEF HasNames
    <2>3. task' = [task EXCEPT ![t] = r]
        BY <1>5
    <2> QED
        BY <2>1, <2>2, <2>3
<1>6. CASE Known(t) \/ LoadFails(t) \/ AuthFails(t) \/ AuthEnds(t)
    BY <1>3, <1>6 DEF Known, LoadFails, AuthFails, AuthEnds, GiveUp
<1>7. CASE Begin(t)
    <2>1. task' = [task EXCEPT ![t] = Idle] \/ (task' = [task EXCEPT ![t].at = "check"] /\ x.at # "idle")
        BY <1>7 DEF Begin
    <2> QED
        BY <2>1, <1>3, <1>5
<1>8. CASE Check(t)
    <2>1. task' = [task EXCEPT ![t] = Idle] \/ (task' = [task EXCEPT ![t].at = "load"] /\ x.at # "idle")
        BY <1>8 DEF Check, GiveUp
    <2> QED
        BY <2>1, <1>3, <1>5
<1>9. CASE AuthSucceeds(t)
    <2>1. task' = [task EXCEPT ![t].at = "graphed"] /\ x.at = "auth"
        BY <1>9 DEF AuthSucceeds
    <2> QED
        BY <2>1, <1>5
<1>10. CASE Register(t)
    <2> DEFINE i == x.ident
    <2> DEFINE c == IF byHandle[i.handle] # None THEN byHandle[i.handle]
                    ELSE [handle |-> i.handle, did |-> i.did, from |-> "ident"]
    <2> DEFINE r == [at |-> "auth", ident |-> i, ctx |-> c]
    <2>1. i \in Idents /\ i.handle \in Handles /\ i.did \in Dids
        BY <1>1, <1>10, PeersAssumption DEF Register, HasNames
    <2>2. byHandle[i.handle] \in Ctx \union {None}
        BY <2>1 DEF TInv, TypeOK
    <2>3. c \in Ctx
        BY <2>1, <2>2 DEF Ctx
    <2>4. task' = [task EXCEPT ![t] = Idle] \/ task' = [task EXCEPT ![t] = r]
        BY <1>10 DEF Register
    <2> HIDE DEF c
    <2>5. r \in TaskRec /\ HasNames(r)
        BY <2>1, <2>3 DEF TaskRec, HasNames
    <2> QED
        BY <2>4, <2>5, <1>3
<1> QED
    BY <1>4, <1>6, <1>7, <1>8, <1>9, <1>10 DEF Step

LEMMA TaskTypes ==
    ASSUME TInv, NEW t \in Tasks, Step(t) \/ \E i \in Idents : Ident(t, i)
    PROVE  task' \in [Tasks -> TaskRec] /\ Named'
<1>1. PICK r \in TaskRec : HasNames(r) /\ task' = [task EXCEPT ![t] = r]
    BY OneTask
<1>2. task \in [Tasks -> TaskRec]
    BY DEF TInv, TypeOK, TaskRec
<1> QED
    BY <1>1, <1>2 DEF Named, TInv

LEMMA TypeTask ==
    ASSUME TInv, NEW t \in Tasks, Step(t) \/ \E i \in Idents : Ident(t, i)
    PROVE  TInv'
<1> USE DEF registries, idents, edits, scans
<1>1. task' \in [Tasks -> TaskRec] /\ Named'
    BY TaskTypes
<1>2. HasNames(task[t]) /\ task[t] \in TaskRec
    BY DEF TInv, TypeOK, TaskRec, Named
<1>3. task[t].at # "idle" => task[t].ident.did \in Dids /\ task[t].ident.handle \in Handles
    BY <1>2, PeersAssumption DEF HasNames
<1>4. task[t].at \in {"auth", "graphed"} => task[t].ctx \in Ctx /\ task[t].ctx.did \in Dids /\ task[t].ctx.handle \in Handles
    BY <1>2 DEF HasNames, Ctx
<1>5. mark' \in [Dids -> BOOLEAN]
    BY DEF TInv, TypeOK, Step, Ident, Known, Begin, Check, Register, LoadFails, AuthSucceeds, AuthFails,
           AuthEnds, GiveUp, Unmark
<1>6. failed' \subseteq Ctx
    BY <1>4 DEF TInv, TypeOK, Step, Ident, Known, Begin, Check, Register, LoadFails, AuthSucceeds, AuthFails,
           AuthEnds
<1>7. /\ byHandle' \in [Handles -> Ctx \union {None}]
      /\ byPeerId' \in [PeerIds -> Ctx \union {None}]
      /\ byDid' \in [Dids -> Ctx \union {None}]
    <2>1. CASE Known(t)
        <3> DEFINE c == byHandle[task[t].ident.handle]
        <3>1. c \in Ctx \union {None}
            BY <1>3, <2>1 DEF Known, TInv, TypeOK
        <3> HIDE DEF c
        <3>2. /\ byPeerId' = byPeerId \/ (c \in Ctx /\ byPeerId' = [byPeerId EXCEPT ![PeerOf[c.handle]] = c])
              /\ byDid' = byDid \/ (c \in Ctx /\ byDid' = [byDid EXCEPT ![c.did] = c])
              /\ byHandle' = byHandle
            BY <2>1, <3>1 DEF Known, c
        <3>3. byPeerId' \in [PeerIds -> Ctx \union {None}]
            BY <3>2 DEF TInv, TypeOK
        <3>4. byDid' \in [Dids -> Ctx \union {None}]
            BY <3>2 DEF TInv, TypeOK
        <3>5. byHandle' \in [Handles -> Ctx \union {None}]
            BY <3>2 DEF TInv, TypeOK
        <3> QED
            BY <3>3, <3>4, <3>5
    <2>2. CASE Register(t)
        <3> DEFINE i == task[t].ident
        <3> DEFINE c == IF byHandle[i.handle] # None THEN byHandle[i.handle]
                        ELSE [handle |-> i.handle, did |-> i.did, from |-> "ident"]
        <3>1. i.handle \in Handles /\ i.did \in Dids
            BY <1>3, <2>2 DEF Register
        <3>2. c \in Ctx
            BY <3>1 DEF TInv, TypeOK, Ctx
        <3>3. byHandle' = [byHandle EXCEPT ![i.handle] = c] /\ UNCHANGED <<byPeerId, byDid>>
            BY <2>2 DEF Register
        <3> HIDE DEF c
        <3> QED
            BY <3>2, <3>3 DEF TInv, TypeOK
    <2>3. CASE ~Known(t) /\ ~Register(t)
        BY <2>3 DEF TInv, TypeOK, Step, Ident, Begin, Check, LoadFails, AuthSucceeds, AuthFails, AuthEnds
    <2> QED
        BY <2>1, <2>2, <2>3
<1>8. CASE AuthSucceeds(t)
    <2> DEFINE c == task[t].ctx
    <2>1. c.handle \in Handles /\ c.did \in Dids
        BY <1>4, <1>8 DEF AuthSucceeds
    <2>2. /\ graph' = [graph EXCEPT ![c.handle] = c.did] /\ saves < MaxSaves /\ saves' = saves + 1
          /\ proved' = proved \union {c.did} /\ todo = {} /\ todo' = {}
        BY <1>8 DEF AuthSucceeds
    <2> HIDE DEF c
    <2>3. graph' \in [Handles -> Dids \union {None}] /\ proved' \subseteq Dids
        BY <2>1, <2>2 DEF TInv, TypeOK
    <2>4. saves' \in 0..MaxSaves
        BY <2>2, PeersAssumption DEF TInv, TypeOK
    <2> QED
        BY <1>1, <1>5, <1>6, <1>7, <1>8, <2>2, <2>3, <2>4 DEF AuthSucceeds, TInv, TypeOK, TaskRec
<1>9. CASE ~AuthSucceeds(t)
    <2>1. UNCHANGED <<edits, scans>>
        BY <1>9 DEF Step, Ident, Known, Begin, Check, Register, LoadFails, AuthFails, AuthEnds
    <2> QED
        BY <1>1, <1>5, <1>6, <1>7, <2>1 DEF TInv, TypeOK, TaskRec, InUse
<1> QED
    BY <1>8, <1>9

LEMMA TypeLoad ==
    ASSUME TInv, \/ \E h \in Handles : Scan(h)
                 \/ FirstScan \/ SaveGraph
                 \/ \E n \in DOMAIN loads : GraphLoad(n) \/ GraphLoadEnds(n)
    PROVE  TInv'
<1> USE DEF registries, idents, edits, scans
<1>1. UNCHANGED <<mark, task, failed, graph, proved>> /\ saves' \in 0..MaxSaves /\ watching' \in BOOLEAN
    <2>1. UNCHANGED <<mark, task, failed, graph, proved>>
        BY DEF Scan, GraphLoad, GraphLoadEnds, FirstScan, SaveGraph
    <2>2. watching' = watching \/ watching' = TRUE
        BY DEF Scan, GraphLoad, GraphLoadEnds, FirstScan, SaveGraph
    <2>3. saves' = saves \/ (saves > 0 /\ saves' = saves - 1)
        BY DEF Scan, GraphLoad, GraphLoadEnds, FirstScan, SaveGraph
    <2>4. saves \in 0..MaxSaves /\ MaxSaves \in Nat
        BY PeersAssumption DEF TInv, TypeOK
    <2>5. saves' \in 0..MaxSaves
        BY <2>3, <2>4
    <2> QED
        BY <2>1, <2>2, <2>5 DEF TInv, TypeOK
<1>2. Named'
    BY <1>1 DEF TInv, Named
<1>3. loads \in Seq(LoadRec)
    BY DEF TInv, TypeOK, LoadRec
<1>4. ASSUME NEW h \in Handles, Scan(h) PROVE TInv'
    <2>1. graph[h] \in Dids
        BY <1>4 DEF Scan, TInv, TypeOK, InUse
    <2> DEFINE x == [did |-> graph[h], handle |-> h, at |-> "load"]
    <2>2. x \in LoadRec
        BY <2>1 DEF LoadRec
    <2>3. \/ loads' = loads /\ loading' = loading
          \/ loads' = Append(loads, x) /\ loading' = loading \union {graph[h]}
        <3>1. CASE Inactive(h) \/ h \notin Valid \/ byDid[graph[h]] # None \/ graph[h] \in loading
            BY <1>4, <3>1 DEF Scan
        <3>2. CASE ~(Inactive(h) \/ h \notin Valid \/ byDid[graph[h]] # None \/ graph[h] \in loading)
            BY <1>4, <3>2 DEF Scan
        <3> QED
            BY <3>1, <3>2
    <2> HIDE DEF x
    <2>4. loads' \in Seq(LoadRec)
        BY <1>3, <2>2, <2>3
    <2>5. loading' \subseteq Dids
        BY <2>1, <2>3 DEF TInv, TypeOK
    <2> QED
        BY <1>1, <1>2, <1>4, <2>4, <2>5 DEF Scan, TInv, TypeOK, LoadRec, InUse
<1>5. ASSUME NEW n \in DOMAIN loads, GraphLoad(n) PROVE TInv'
    <2> DEFINE x == loads[n]
    <2> DEFINE c == [handle |-> x.handle, did |-> x.did, from |-> "graph"]
    <2>1. x \in LoadRec /\ x.handle \in Handles /\ x.did \in Dids
        <3>1. x \in LoadRec
            BY <1>3
        <3> QED
            BY <3>1 DEF LoadRec
    <2>2. c \in Ctx
        BY <2>1 DEF Ctx
    <2>3. PeerOf[x.handle] \in PeerIds
        BY <2>1 DEF PeerIds
    <2>4. /\ byHandle' = [byHandle EXCEPT ![x.handle] = c]
          /\ byPeerId' = byPeerId \/ byPeerId' = [byPeerId EXCEPT ![PeerOf[x.handle]] = c]
          /\ byDid' = byDid \/ byDid' = [byDid EXCEPT ![x.did] = c]
          /\ UNCHANGED <<todo, loading>>
        BY <1>5 DEF GraphLoad, Listed
    <2>5. loads' = [loads EXCEPT ![n] = [x EXCEPT !.at = "added"]]
        BY <1>5 DEF GraphLoad
    <2>6. [x EXCEPT !.at = "added"] \in LoadRec
        BY <2>1 DEF LoadRec
    <2>7. loads' \in Seq(LoadRec)
        BY <1>3, <2>5, <2>6
    <2> HIDE DEF c
    <2>8. /\ byHandle' \in [Handles -> Ctx \union {None}]
          /\ byPeerId' \in [PeerIds -> Ctx \union {None}]
          /\ byDid' \in [Dids -> Ctx \union {None}]
        <3>1. byHandle' \in [Handles -> Ctx \union {None}]
            BY <2>2, <2>4 DEF TInv, TypeOK
        <3>2. byPeerId' \in [PeerIds -> Ctx \union {None}]
            BY <2>2, <2>3, <2>4 DEF TInv, TypeOK
        <3>3. byDid' \in [Dids -> Ctx \union {None}]
            BY <2>1, <2>2, <2>4 DEF TInv, TypeOK
        <3> QED
            BY <3>1, <3>2, <3>3
    <2> QED
        BY <1>1, <1>2, <2>4, <2>7, <2>8 DEF TInv, TypeOK, LoadRec, InUse
<1>6. ASSUME NEW n \in DOMAIN loads, GraphLoadEnds(n) PROVE TInv'
    <2>1. loads' = RemoveAt(loads, n) /\ loading' \subseteq loading /\ UNCHANGED <<todo, byHandle, byPeerId, byDid>>
        BY <1>6 DEF GraphLoadEnds
    <2>2. loads' \in Seq(LoadRec)
        BY <1>3, <2>1, Removed
    <2> QED
        BY <1>1, <1>2, <2>1, <2>2 DEF TInv, TypeOK, LoadRec, InUse
<1>7. CASE FirstScan \/ SaveGraph
    <2>1. todo' \subseteq InUse' /\ UNCHANGED <<loading, loads, byHandle, byPeerId, byDid>>
        BY <1>1, <1>7 DEF FirstScan, SaveGraph, InUse, TInv, TypeOK
    <2> QED
        BY <1>1, <1>2, <2>1 DEF TInv, TypeOK
<1> QED
    BY <1>4, <1>5, <1>6, <1>7

LEMMA TypeStep == TInv /\ [Next]_vars => TInv'
<1> SUFFICES ASSUME TInv, [Next]_vars PROVE TInv'
    OBVIOUS
<1> USE DEF registries, idents, edits, scans
<1>1. ASSUME NEW c \in failed, Forget(c) PROVE TInv'
    BY <1>1 DEF Forget, TInv, TypeOK, Named, InUse
<1>2. CASE UNCHANGED vars
    BY <1>2 DEF vars, TInv, TypeOK, Named, InUse
<1> QED
    BY <1>1, <1>2, TypeTask, TypeLoad DEF Next

LEMMA Typed == Spec => []TInv
BY TypeInit, TypeStep, PTL DEF Spec

(* Every reachable state of the registration has its type, whatever fails    *)
(* and however the tasks, the scans and the loads interleave.                *)
THEOREM TypeCorrect == Spec => []TypeOK
<1>1. TInv => TypeOK
    BY DEF TInv
<1> QED
    BY <1>1, Typed, PTL

-----------------------------------------------------------------------------
(* One load per DID *)

LoadsApart ==
    /\ \A m \in DOMAIN loads : loads[m].did \in loading
    /\ OneLoadPerDid

LEMMA LoadsInit == Init => LoadsApart
BY DEF Init, LoadsApart, OneLoadPerDid

LEMMA LoadsStep == TInv /\ LoadsApart /\ [Next]_vars => LoadsApart'
<1> SUFFICES ASSUME TInv, LoadsApart, [Next]_vars PROVE LoadsApart'
    OBVIOUS
<1> USE DEF registries, idents, edits, scans
<1>1. loads \in Seq(LoadRec)
    BY DEF TInv, TypeOK, LoadRec
<1>2. ASSUME NEW h \in Handles, Scan(h) PROVE LoadsApart'
    <2>1. CASE Inactive(h) \/ h \notin Valid \/ byDid[graph[h]] # None \/ graph[h] \in loading
        BY <1>2, <2>1 DEF Scan, LoadsApart, OneLoadPerDid
    <2>2. CASE ~(Inactive(h) \/ h \notin Valid \/ byDid[graph[h]] # None \/ graph[h] \in loading)
        <3> DEFINE x == [did |-> graph[h], handle |-> h, at |-> "load"]
        <3>1. loads' = Append(loads, x) /\ loading' = loading \union {x.did} /\ x.did \notin loading
            BY <1>2, <2>2 DEF Scan
        <3> HIDE DEF x
        <3>2. /\ Len(loads) \in Nat /\ DOMAIN loads = 1..Len(loads)
              /\ DOMAIN loads' = 1..(Len(loads) + 1)
              /\ \A m \in 1..Len(loads) : loads'[m] = loads[m]
              /\ loads'[Len(loads) + 1] = x
            BY <1>1, <3>1
        <3>3. \A m \in DOMAIN loads' : m \in DOMAIN loads \/ m = Len(loads) + 1
            BY <3>2
        <3> QED
            BY <3>1, <3>2, <3>3 DEF LoadsApart, OneLoadPerDid
    <2> QED
        BY <2>1, <2>2
<1>3. ASSUME NEW n \in DOMAIN loads, GraphLoad(n) PROVE LoadsApart'
    <2>1. loads' = [loads EXCEPT ![n].at = "added"] /\ loading' = loading
        BY <1>3 DEF GraphLoad
    <2>2. \A m \in DOMAIN loads : loads[m] \in LoadRec
        BY <1>1
    <2>3. DOMAIN loads' = DOMAIN loads /\ \A m \in DOMAIN loads : loads'[m].did = loads[m].did
        BY <1>1, <2>1, <2>2 DEF LoadRec
    <2> QED
        BY <2>1, <2>3 DEF LoadsApart, OneLoadPerDid
<1>4. ASSUME NEW n \in DOMAIN loads, GraphLoadEnds(n) PROVE LoadsApart'
    <2>1. loads' = RemoveAt(loads, n) /\ (loading' = loading \/ loading' = loading \ {loads[n].did})
        BY <1>4 DEF GraphLoadEnds
    <2>2. \A i, k \in DOMAIN loads' : \E j, m \in DOMAIN loads :
                 /\ j # n /\ m # n /\ (i # k => j # m)
                 /\ loads'[i] = loads[j] /\ loads'[k] = loads[m]
        BY <1>1, <2>1, Removed
    <2> QED
        BY <2>1, <2>2 DEF LoadsApart, OneLoadPerDid
<1>5. CASE UNCHANGED <<loading, loads>>
    BY <1>5 DEF LoadsApart, OneLoadPerDid
<1>6. ASSUME \/ \E t \in Tasks : Step(t) \/ \E i \in Idents : Ident(t, i)
             \/ \E c \in failed : Forget(c)
             \/ FirstScan \/ SaveGraph \/ UNCHANGED vars
      PROVE  UNCHANGED <<loading, loads>>
    BY <1>6 DEF vars, Forget, FirstScan, SaveGraph, Step, Ident, Known, Begin, Check, Register, LoadFails, AuthSucceeds, AuthFails,
                AuthEnds
<1> QED
    BY <1>2, <1>3, <1>4, <1>5, <1>6 DEF Next

(* However many scans of the graph overlap, a DID is loaded by one task at a *)
(* time, for any number of handles, DIDs and failures.                       *)
THEOREM OneLoads == Spec => []OneLoadPerDid
<1>1. LoadsApart => OneLoadPerDid
    BY DEF LoadsApart
<1> QED
    BY <1>1, Typed, LoadsInit, LoadsStep, PTL DEF Spec

-----------------------------------------------------------------------------
(* Contexts *)

(* A handle is of one DID.                                                   *)
HandlesApart == \A i, j \in Idents : i.handle = j.handle => i.did = j.did

Said(h, d) == \E i \in Idents : i.handle = h /\ i.did = d

(* Every context, and every entry of the graph, has the DID of its handle.   *)
Contexts ==
    /\ \A t \in Tasks : task[t].at \in {"auth", "graphed"} =>
           task[t].ctx.handle = task[t].ident.handle /\ task[t].ctx.did = task[t].ident.did
    /\ \A h \in Handles : byHandle[h] # None => byHandle[h].handle = h /\ Said(h, byHandle[h].did)
    /\ \A h \in Handles : graph[h] # None => Said(h, graph[h])
    /\ \A n \in DOMAIN loads : graph[loads[n].handle] = loads[n].did

LEMMA SaidOne ==
    ASSUME HandlesApart, NEW h, NEW d, NEW e, Said(h, d), Said(h, e)
    PROVE  d = e
BY DEF HandlesApart, Said

LEMMA ContextsInit == Init => Contexts
<1>1. Init => \A h \in Handles : graph[h] # None => Said(h, graph[h])
    BY DEF Init, Said
<1> QED
    BY <1>1 DEF Init, Contexts, Idle

LEMMA ContextsTask ==
    ASSUME HandlesApart, TInv, Contexts,
           NEW t \in Tasks, Step(t) \/ \E i \in Idents : Ident(t, i)
    PROVE  Contexts' /\ \A h \in Handles : graph[h] # None => graph'[h] = graph[h]
<1> USE DEF registries, idents, edits, scans
<1>1. HasNames(task[t]) /\ task \in [Tasks -> TaskRec]
    BY DEF TInv, TypeOK, TaskRec, Named
<1>2. loads' = loads /\ \A n \in DOMAIN loads : loads[n].did \in Dids /\ loads[n].handle \in Handles
    <2>0. loads \in Seq(LoadRec)
        BY DEF TInv, TypeOK, LoadRec
    <2>1. \A n \in DOMAIN loads : loads[n] \in LoadRec
        BY <2>0
    <2> QED
        BY <2>1 DEF LoadRec, Step, Ident, Known, Begin, Check, Register, LoadFails, AuthSucceeds, AuthFails, AuthEnds
<1>3. CASE Register(t)
    <2> DEFINE i == task[t].ident
    <2> DEFINE c == IF byHandle[i.handle] # None THEN byHandle[i.handle]
                    ELSE [handle |-> i.handle, did |-> i.did, from |-> "ident"]
    <2>1. i \in Idents /\ i.handle \in Handles /\ Said(i.handle, i.did)
        BY <1>1, <1>3, PeersAssumption DEF Register, HasNames, Said
    <2>2. c.handle = i.handle /\ c.did = i.did
        <3>1. CASE byHandle[i.handle] # None
            BY <2>1, <3>1, SaidOne DEF Contexts
        <3>2. CASE byHandle[i.handle] = None
            BY <3>2
        <3> QED
            BY <3>1, <3>2
    <2>3. /\ byHandle' = [byHandle EXCEPT ![i.handle] = c]
          /\ \/ task' = [task EXCEPT ![t] = Idle]
             \/ task' = [task EXCEPT ![t] = [at |-> "auth", ident |-> i, ctx |-> c]]
          /\ graph' = graph
        BY <1>3 DEF Register
    <2> HIDE DEF c
    <2>4. byHandle \in [Handles -> Ctx \union {None}]
        BY DEF TInv, TypeOK
    <2>5. \A h \in Handles : byHandle'[h] # None => byHandle'[h].handle = h /\ Said(h, byHandle'[h].did)
        BY <2>1, <2>2, <2>3, <2>4 DEF Contexts
    <2>6. \A u \in Tasks : task'[u].at \in {"auth", "graphed"} =>
             task'[u].ctx.handle = task'[u].ident.handle /\ task'[u].ctx.did = task'[u].ident.did
        BY <1>1, <2>2, <2>3 DEF Contexts, Idle
    <2> QED
        BY <1>2, <2>3, <2>5, <2>6 DEF Contexts
<1>4. CASE AuthSucceeds(t)
    <2> DEFINE c == task[t].ctx
    <2>1. c.handle = task[t].ident.handle /\ c.did = task[t].ident.did /\ task[t].ident \in Idents
        BY <1>1, <1>4 DEF AuthSucceeds, Contexts, HasNames
    <2>2. Said(c.handle, c.did) /\ c.handle \in Handles /\ c.did \in Dids /\ c.did # None
        BY <2>1, PeersAssumption DEF Said
    <2>3. graph' = [graph EXCEPT ![c.handle] = c.did] /\ byHandle' = byHandle
          /\ task' = [task EXCEPT ![t].at = "graphed"] /\ task[t].at = "auth"
        BY <1>4 DEF AuthSucceeds
    <2> HIDE DEF c
    <2>4. graph \in [Handles -> Dids \union {None}]
        BY DEF TInv, TypeOK
    <2>5. \A h \in Handles : graph[h] # None => graph'[h] = graph[h]
        BY <2>2, <2>3, <2>4, SaidOne DEF Contexts
    <2>6. \A h \in Handles : graph'[h] # None => Said(h, graph'[h])
        BY <2>2, <2>3, <2>4 DEF Contexts
    <2>7. \A n \in DOMAIN loads' : graph'[loads'[n].handle] = loads'[n].did
        BY <1>2, <2>5, PeersAssumption DEF Contexts
    <2>8. \A u \in Tasks : task'[u].at \in {"auth", "graphed"} =>
             task'[u].ctx.handle = task'[u].ident.handle /\ task'[u].ctx.did = task'[u].ident.did
        BY <1>1, <2>3 DEF Contexts, TaskRec
    <2> QED
        BY <2>3, <2>5, <2>6, <2>7, <2>8 DEF Contexts
<1>5. CASE ~Register(t) /\ ~AuthSucceeds(t)
    <2>1. UNCHANGED <<byHandle, graph>>
        BY <1>5 DEF Step, Ident, Known, Begin, Check, LoadFails, AuthFails, AuthEnds
    <2>2. \/ task' = [task EXCEPT ![t] = Idle]
          \/ \E a \in {"check", "load"} : task' = [task EXCEPT ![t].at = a]
          \/ \E i \in Idents : task' = [task EXCEPT ![t] = [at |-> IF InGraph(i.did) THEN "known" ELSE "new",
                                                             ident |-> i, ctx |-> None]]
        BY <1>5 DEF Step, Ident, Known, Begin, Check, LoadFails, AuthFails, AuthEnds, GiveUp
    <2>3. \A u \in Tasks : task'[u].at \in {"auth", "graphed"} => task'[u] = task[u]
        BY <1>1, <2>2 DEF Idle, TaskRec
    <2> QED
        BY <1>2, <2>1, <2>3 DEF Contexts
<1> QED
    BY <1>3, <1>4, <1>5

LEMMA ContextsLoad ==
    ASSUME TInv, Contexts,
           \/ \E h \in Handles : Scan(h)
           \/ \E n \in DOMAIN loads : GraphLoad(n) \/ GraphLoadEnds(n)
    PROVE  Contexts'
<1> USE DEF registries, idents, edits, scans
<1>1. UNCHANGED <<task, graph>>
    BY DEF Scan, GraphLoad, GraphLoadEnds
<1>2. loads \in Seq(LoadRec)
    BY DEF TInv, TypeOK, LoadRec
<1>3. \A n \in DOMAIN loads : loads[n] \in LoadRec
    BY <1>2
<1>4. ASSUME NEW h \in Handles, Scan(h) PROVE Contexts'
    <2>1. CASE Inactive(h) \/ h \notin Valid \/ byDid[graph[h]] # None \/ graph[h] \in loading
        BY <1>1, <1>4, <2>1 DEF Scan, Contexts
    <2>2. CASE ~(Inactive(h) \/ h \notin Valid \/ byDid[graph[h]] # None \/ graph[h] \in loading)
        <3> DEFINE x == [did |-> graph[h], handle |-> h, at |-> "load"]
        <3>1. loads' = Append(loads, x) /\ graph[x.handle] = x.did /\ byHandle' = byHandle
            BY <1>4, <2>2 DEF Scan
        <3> HIDE DEF x
        <3>2. /\ Len(loads) \in Nat /\ DOMAIN loads = 1..Len(loads)
              /\ DOMAIN loads' = 1..(Len(loads) + 1)
              /\ \A m \in 1..Len(loads) : loads'[m] = loads[m]
              /\ loads'[Len(loads) + 1] = x
            BY <1>2, <3>1
        <3>3. \A m \in DOMAIN loads' : m \in DOMAIN loads \/ m = Len(loads) + 1
            BY <3>2
        <3>4. \A m \in DOMAIN loads' : graph[loads'[m].handle] = loads'[m].did
            BY <3>1, <3>2, <3>3 DEF Contexts
        <3> QED
            BY <1>1, <3>1, <3>4 DEF Contexts
    <2> QED
        BY <2>1, <2>2
<1>5. ASSUME NEW n \in DOMAIN loads, GraphLoad(n) PROVE Contexts'
    <2> DEFINE x == loads[n]
    <2> DEFINE c == [handle |-> x.handle, did |-> x.did, from |-> "graph"]
    <2>1. x.handle \in Handles /\ x.did \in Dids /\ graph[x.handle] = x.did
        BY <1>3 DEF LoadRec, Contexts
    <2>2. c.handle = x.handle /\ Said(x.handle, c.did)
        BY <2>1, PeersAssumption DEF Contexts
    <2>3. byHandle' = [byHandle EXCEPT ![x.handle] = c] /\ loads' = [loads EXCEPT ![n].at = "added"]
        BY <1>5 DEF GraphLoad
    <2> HIDE DEF c
    <2>4. byHandle \in [Handles -> Ctx \union {None}]
        BY DEF TInv, TypeOK
    <2>5. \A h \in Handles : byHandle'[h] # None => byHandle'[h].handle = h /\ Said(h, byHandle'[h].did)
        BY <2>1, <2>2, <2>3, <2>4 DEF Contexts
    <2>6. DOMAIN loads' = DOMAIN loads
          /\ \A m \in DOMAIN loads : loads'[m].did = loads[m].did /\ loads'[m].handle = loads[m].handle
        BY <1>2, <1>3, <2>3 DEF LoadRec
    <2> QED
        BY <1>1, <2>5, <2>6 DEF Contexts
<1>6. ASSUME NEW n \in DOMAIN loads, GraphLoadEnds(n) PROVE Contexts'
    <2>1. loads' = RemoveAt(loads, n) /\ byHandle' = byHandle
        BY <1>6 DEF GraphLoadEnds
    <2>2. \A i \in DOMAIN loads' : \E j \in DOMAIN loads : loads'[i] = loads[j]
        BY <1>2, <2>1, Removed
    <2> QED
        BY <1>1, <2>1, <2>2 DEF Contexts
<1> QED
    BY <1>4, <1>5, <1>6

LEMMA ContextsStep ==
    ASSUME HandlesApart
    PROVE  TInv /\ Contexts /\ [Next]_vars =>
               Contexts' /\ \A h \in Handles : graph[h] # None => graph'[h] = graph[h]
<1> SUFFICES ASSUME TInv, Contexts, [Next]_vars
             PROVE  Contexts' /\ \A h \in Handles : graph[h] # None => graph'[h] = graph[h]
    OBVIOUS
<1> USE DEF registries, idents, edits, scans
<1>1. CASE \E t \in Tasks : Step(t) \/ \E i \in Idents : Ident(t, i)
    BY <1>1, ContextsTask
<1>2. CASE (\E h \in Handles : Scan(h)) \/ \E n \in DOMAIN loads : GraphLoad(n) \/ GraphLoadEnds(n)
    <2>1. graph' = graph
        BY <1>2 DEF Scan, GraphLoad, GraphLoadEnds
    <2> QED
        BY <1>2, <2>1, ContextsLoad
<1>3. CASE (\E c \in failed : Forget(c)) \/ FirstScan \/ SaveGraph \/ UNCHANGED vars
    BY <1>3 DEF Forget, FirstScan, SaveGraph, vars, Contexts
<1> QED
    BY <1>1, <1>2, <1>3 DEF Next

-----------------------------------------------------------------------------
(* One authentication per DID: whoever works on a DID has marked it.         *)

AtWork(x) == x.at \in {"check", "load", "auth", "graphed"}

Marked ==
    /\ \A t \in Tasks : AtWork(task[t]) => mark[task[t].ident.did] = TRUE
    /\ \A t, u \in Tasks : AtWork(task[t]) /\ AtWork(task[u]) /\ task[t].ident.did = task[u].ident.did => t = u

LEMMA MarkedTask ==
    ASSUME TInv, Contexts, Marked, NEW t \in Tasks, Step(t) \/ \E i \in Idents : Ident(t, i)
    PROVE  Marked'
<1> USE DEF registries, idents, edits, scans
<1> DEFINE d == task[t].ident.did
<1>1. HasNames(task[t]) /\ task \in [Tasks -> TaskRec] /\ mark \in [Dids -> BOOLEAN]
    BY DEF TInv, TypeOK, TaskRec, Named
<1>2. task[t].at # "idle" => d \in Dids
    BY <1>1, PeersAssumption DEF HasNames
<1>3. \A u \in Tasks : AtWork(task[u]) => task[u].ident.did \in Dids
    BY PeersAssumption DEF TInv, Named, HasNames, AtWork
<1>4. ASSUME NEW r \in TaskRec, ~AtWork(r), task' = [task EXCEPT ![t] = r], mark' = mark PROVE Marked'
    BY <1>1, <1>4 DEF Marked
<1>5. ASSUME NEW r \in TaskRec, AtWork(r), r.ident = task[t].ident, AtWork(task[t]),
             task' = [task EXCEPT ![t] = r], mark' = mark
      PROVE  Marked'
    BY <1>1, <1>5 DEF Marked
<1>6. ASSUME AtWork(task[t]), task' = [task EXCEPT ![t] = Idle], mark' = [mark EXCEPT ![d] = FALSE] PROVE Marked'
    BY <1>1, <1>2, <1>3, <1>6 DEF Marked, AtWork, Idle
<1>7. Idle \in TaskRec /\ ~AtWork(Idle)
    BY DEF Idle, TaskRec, AtWork
<1>8. CASE \E i \in Idents : Ident(t, i)
    <2>1. PICK i \in Idents : Ident(t, i)
        BY <1>8
    <2> DEFINE r == [at |-> IF InGraph(i.did) THEN "known" ELSE "new", ident |-> i, ctx |-> None]
    <2>2. r \in TaskRec /\ ~AtWork(r) /\ task' = [task EXCEPT ![t] = r] /\ mark' = mark
        BY <2>1 DEF Ident, TaskRec, AtWork
    <2> QED
        BY <1>4, <2>2
<1>9. CASE Known(t)
    BY <1>4, <1>7, <1>9 DEF Known
<1>10. CASE Begin(t)
    <2>1. CASE task' = [task EXCEPT ![t] = Idle] /\ mark' = mark
        BY <1>4, <1>7, <2>1
    <2>2. CASE mark[d] # TRUE /\ task' = [task EXCEPT ![t].at = "check"] /\ mark' = [mark EXCEPT ![d] = TRUE]
        <3>1. d \in Dids
            BY <1>2, <1>10 DEF Begin
        <3>2. task'[t].ident.did = d /\ \A u \in Tasks : u # t => task'[u] = task[u]
            BY <1>1, <2>2 DEF TaskRec
        <3>3. \A u \in Tasks : AtWork(task[u]) => task[u].ident.did # d
            BY <2>2 DEF Marked
        <3>4. \A u \in Tasks : AtWork(task[u]) => mark'[task[u].ident.did] = TRUE
            BY <1>1, <1>3, <2>2 DEF Marked
        <3> QED
            BY <1>1, <2>2, <3>1, <3>2, <3>3, <3>4 DEF Marked
    <2> QED
        BY <1>1, <1>10, <2>1, <2>2 DEF Begin
<1>11. CASE Check(t)
    <2>1. AtWork(task[t])
        BY <1>11 DEF Check, AtWork
    <2>2. CASE GiveUp(t)
        BY <1>6, <2>1, <2>2 DEF GiveUp, Unmark
    <2>3. CASE task' = [task EXCEPT ![t].at = "load"] /\ mark' = mark
        <3> DEFINE r == [task[t] EXCEPT !.at = "load"]
        <3>1. r \in TaskRec /\ AtWork(r) /\ r.ident = task[t].ident /\ task' = [task EXCEPT ![t] = r]
            BY <1>1, <2>3 DEF TaskRec, AtWork
        <3> QED
            BY <1>5, <2>1, <2>3, <3>1
    <2> QED
        BY <1>11, <2>2, <2>3 DEF Check
<1>12. CASE Register(t)
    <2>1. PICK r \in TaskRec : HasNames(r) /\ task' = [task EXCEPT ![t] = r]
        BY <1>12, OneTask DEF Step
    <2>2. task'[t] = r
        BY <1>1, <2>1
    <2>3. AtWork(task[t]) /\ mark' = mark
        BY <1>12 DEF Register, AtWork
    <2>4. r = Idle \/ (r.at = "auth" /\ r.ident = task[t].ident)
        BY <1>1, <1>12, <2>2 DEF Register
    <2>5. CASE r = Idle
        BY <1>4, <1>7, <2>1, <2>3, <2>5
    <2>6. CASE r.at = "auth" /\ r.ident = task[t].ident
        BY <1>5, <2>1, <2>3, <2>6 DEF AtWork
    <2> QED
        BY <2>4, <2>5, <2>6
<1>13. CASE LoadFails(t)
    BY <1>6, <1>13 DEF LoadFails, GiveUp, Unmark, AtWork
<1>14. CASE AuthSucceeds(t)
    <2> DEFINE r == [task[t] EXCEPT !.at = "graphed"]
    <2>1. r \in TaskRec /\ AtWork(r) /\ r.ident = task[t].ident /\ task' = [task EXCEPT ![t] = r]
          /\ AtWork(task[t]) /\ mark' = mark
        BY <1>1, <1>14 DEF AuthSucceeds, TaskRec, AtWork
    <2> QED
        BY <1>5, <2>1
<1>15. CASE AuthFails(t) \/ AuthEnds(t)
    <2>1. task[t].ctx.did = d
        BY <1>15 DEF AuthFails, AuthEnds, Contexts
    <2> QED
        BY <1>6, <1>15, <2>1 DEF AuthFails, AuthEnds, Unmark, AtWork
<1> QED
    BY <1>8, <1>9, <1>10, <1>11, <1>12, <1>13, <1>14, <1>15 DEF Step

LEMMA MarkedStep == TInv /\ Contexts /\ Marked /\ [Next]_vars => Marked'
<1> SUFFICES ASSUME TInv, Contexts, Marked, [Next]_vars PROVE Marked'
    OBVIOUS
<1> USE DEF registries, idents, edits, scans
<1>1. CASE \E t \in Tasks : Step(t) \/ \E i \in Idents : Ident(t, i)
    BY <1>1, MarkedTask
<1>2. CASE UNCHANGED <<mark, task>>
    BY <1>2 DEF Marked
<1>3. ASSUME \/ \E h \in Handles : Scan(h)
             \/ \E n \in DOMAIN loads : GraphLoad(n) \/ GraphLoadEnds(n)
             \/ \E c \in failed : Forget(c)
             \/ FirstScan \/ SaveGraph \/ UNCHANGED vars
      PROVE  UNCHANGED <<mark, task>>
    BY <1>3 DEF Scan, GraphLoad, GraphLoadEnds, Forget, FirstScan, SaveGraph, vars
<1> QED
    BY <1>1, <1>2, <1>3 DEF Next

(* However many idents a peer sends, and whatever fails, one task at a time  *)
(* authenticates its DID, when no two DIDs have one handle.                  *)
THEOREM OneAuthenticates == ASSUME HandlesApart PROVE Spec => []OneAuthPerDid
<1>1. Init => Marked
    BY DEF Init, Marked, Idle, AtWork
<1>2. TInv /\ Contexts /\ [Next]_vars => Contexts'
    BY ContextsStep
<1>3. Marked /\ Contexts => OneAuthPerDid
    BY DEF Marked, Contexts, AtWork, OneAuthPerDid
<1> QED
    BY <1>1, <1>2, <1>3, Typed, ContextsInit, MarkedStep, PTL DEF Spec

-----------------------------------------------------------------------------
(* Only authenticated peers are listed                                       *)

(* The graph, the loads and the tasks that found their DID in the graph only *)
(* have DIDs that passed the authentication; a context is under its handle.  *)
Authenticated ==
    /\ \A h \in Handles : graph[h] # None => graph[h] \in proved
    /\ \A n \in DOMAIN loads : loads[n].did \in proved
    /\ \A t \in Tasks : task[t].at = "known" => task[t].ident.did \in proved
    /\ \A h \in Handles : byHandle[h] # None => byHandle[h].handle = h
    /\ OnlyAuthenticatedListed

(* Who is listed stays, but for one context that is listed anew.             *)
LEMMA ListedKeeps ==
    ASSUME TInv, OnlyAuthenticatedListed, proved \subseteq proved',
           NEW c \in Ctx, NEW p, Proved(c),
           byDid' = byDid \/ byDid' = [byDid EXCEPT ![c.did] = c],
           byPeerId' = byPeerId \/ byPeerId' = [byPeerId EXCEPT ![p] = c]
    PROVE  OnlyAuthenticatedListed'
<1>1. /\ byPeerId \in [PeerIds -> Ctx \union {None}] /\ byDid \in [Dids -> Ctx \union {None}]
    BY DEF TInv, TypeOK
<1>2. \A x : (\E i \in Idents \union {x} : i.handle = x.handle /\ i.did \in proved)
             => \E i \in Idents \union {x} : i.handle = x.handle /\ i.did \in proved'
    OBVIOUS
<1>3. \A d \in Dids : byDid'[d] # None =>
          \E i \in Idents \union {byDid'[d]} : i.handle = byDid'[d].handle /\ i.did \in proved'
    <2>1. SUFFICES ASSUME NEW d \in Dids, byDid'[d] # None
                   PROVE  \E i \in Idents \union {byDid'[d]} : i.handle = byDid'[d].handle /\ i.did \in proved
        BY <1>2
    <2>2. byDid'[d] = byDid[d] \/ byDid'[d] = c
        BY <1>1
    <2> QED
        BY <2>1, <2>2 DEF OnlyAuthenticatedListed, Proved
<1>4. \A q \in PeerIds : byPeerId'[q] # None =>
          \E i \in Idents \union {byPeerId'[q]} : i.handle = byPeerId'[q].handle /\ i.did \in proved'
    <2>1. SUFFICES ASSUME NEW q \in PeerIds, byPeerId'[q] # None
                   PROVE  \E i \in Idents \union {byPeerId'[q]} : i.handle = byPeerId'[q].handle /\ i.did \in proved
        BY <1>2
    <2>2. byPeerId'[q] = byPeerId[q] \/ byPeerId'[q] = c
        BY <1>1
    <2> QED
        BY <2>1, <2>2 DEF OnlyAuthenticatedListed, Proved
<1> QED
    BY <1>3, <1>4 DEF OnlyAuthenticatedListed, Proved

LEMMA SameListed ==
    ASSUME OnlyAuthenticatedListed, proved \subseteq proved', UNCHANGED <<byDid, byPeerId>>
    PROVE  OnlyAuthenticatedListed'
BY DEF OnlyAuthenticatedListed, Proved

LEMMA AuthenticatedTask ==
    ASSUME TInv, Authenticated,
           NEW t \in Tasks, Step(t) \/ \E i \in Idents : Ident(t, i)
    PROVE  Authenticated'
<1> USE DEF registries, idents, edits, scans
<1>1. HasNames(task[t]) /\ task \in [Tasks -> TaskRec]
    BY DEF TInv, TypeOK, TaskRec, Named
<1>2. proved \subseteq proved' /\ loads' = loads
    BY DEF Step, Ident, Known, Begin, Check, Register, LoadFails, AuthSucceeds, AuthFails, AuthEnds
<1>3. \A h \in Handles : graph'[h] # None => graph'[h] \in proved'
    <2>1. CASE AuthSucceeds(t)
        <3>1. graph' = [graph EXCEPT ![task[t].ctx.handle] = task[t].ctx.did] /\ task[t].ctx.did \in proved'
            BY <2>1 DEF AuthSucceeds
        <3>2. graph \in [Handles -> Dids \union {None}]
            BY DEF TInv, TypeOK
        <3> QED
            BY <1>2, <3>1, <3>2 DEF Authenticated
    <2>2. CASE ~AuthSucceeds(t)
        <3>1. graph' = graph
            BY <2>2 DEF Step, Ident, Known, Begin, Check, Register, LoadFails, AuthFails, AuthEnds
        <3> QED
            BY <1>2, <3>1 DEF Authenticated
    <2> QED
        BY <2>1, <2>2
<1>4. \A n \in DOMAIN loads' : loads'[n].did \in proved'
    BY <1>2 DEF Authenticated
<1>5. \A u \in Tasks : task'[u].at = "known" => task'[u].ident.did \in proved'
    <2>0. \A u \in Tasks : task[u].at = "known" => task[u].ident.did \in proved'
        BY <1>2 DEF Authenticated
    <2>1. CASE \E i \in Idents : Ident(t, i)
        <3>1. PICK i \in Idents : Ident(t, i)
            BY <2>1
        <3> DEFINE r == [at |-> IF InGraph(i.did) THEN "known" ELSE "new", ident |-> i, ctx |-> None]
        <3>2. task' = [task EXCEPT ![t] = r] /\ r.ident = i /\ i.did \in Dids
            BY <3>1, PeersAssumption DEF Ident
        <3>3. r.at = "known" => i.did \in proved
            BY <3>2, PeersAssumption DEF InGraph, Authenticated
        <3> HIDE DEF r
        <3>4. task'[t] = r /\ \A u \in Tasks : u # t => task'[u] = task[u]
            BY <1>1, <3>2
        <3> QED
            BY <1>2, <2>0, <3>2, <3>3, <3>4
    <2>2. CASE Step(t)
        <3>1. PICK r \in TaskRec : HasNames(r) /\ task' = [task EXCEPT ![t] = r]
            BY <2>2, OneTask
        <3>2. task'[t] = r /\ \A u \in Tasks : u # t => task'[u] = task[u]
            BY <1>1, <3>1
        <3>3. task'[t].at # "known"
            <4>1. CASE Known(t) \/ LoadFails(t) \/ AuthFails(t) \/ AuthEnds(t)
                <5>1. task' = [task EXCEPT ![t] = Idle]
                    BY <4>1 DEF Known, LoadFails, AuthFails, AuthEnds, GiveUp
                <5> QED
                    BY <1>1, <5>1 DEF Idle
            <4>2. CASE Begin(t) \/ Check(t)
                <5>1. \/ task' = [task EXCEPT ![t] = Idle]
                      \/ task' = [task EXCEPT ![t].at = "check"]
                      \/ task' = [task EXCEPT ![t].at = "load"]
                    BY <4>2 DEF Begin, Check, GiveUp
                <5> QED
                    BY <1>1, <5>1 DEF Idle, TaskRec
            <4>3. CASE Register(t)
                <5>1. \/ task' = [task EXCEPT ![t] = Idle]
                      \/ \E c : task' = [task EXCEPT ![t] = [at |-> "auth", ident |-> task[t].ident, ctx |-> c]]
                    BY <4>3 DEF Register
                <5> QED
                    BY <1>1, <5>1 DEF Idle
            <4>4. CASE AuthSucceeds(t)
                <5>1. task' = [task EXCEPT ![t].at = "graphed"]
                    BY <4>4 DEF AuthSucceeds
                <5> QED
                    BY <1>1, <5>1 DEF TaskRec
            <4> QED
                BY <2>2, <4>1, <4>2, <4>3, <4>4 DEF Step
        <3> QED
            BY <2>0, <3>2, <3>3
    <2> QED
        BY <2>1, <2>2
<1>6. \A h \in Handles : byHandle'[h] # None => byHandle'[h].handle = h
    <2>1. CASE Register(t)
        <3> DEFINE i == task[t].ident
        <3> DEFINE c == IF byHandle[i.handle] # None THEN byHandle[i.handle]
                        ELSE [handle |-> i.handle, did |-> i.did, from |-> "ident"]
        <3>1. i.handle \in Handles
            BY <1>1, <2>1, PeersAssumption DEF Register, HasNames
        <3>2. c.handle = i.handle /\ byHandle' = [byHandle EXCEPT ![i.handle] = c]
            BY <2>1, <3>1 DEF Register, Authenticated
        <3> HIDE DEF c
        <3>3. byHandle \in [Handles -> Ctx \union {None}]
            BY DEF TInv, TypeOK
        <3> QED
            BY <3>1, <3>2, <3>3 DEF Authenticated
    <2>2. CASE ~Register(t)
        <3>1. byHandle' = byHandle
            BY <2>2 DEF Step, Ident, Known, Begin, Check, LoadFails, AuthSucceeds, AuthFails, AuthEnds
        <3> QED
            BY <3>1 DEF Authenticated
    <2> QED
        BY <2>1, <2>2
<1>7. OnlyAuthenticatedListed'
    <2> DEFINE i == task[t].ident
    <2> DEFINE c == byHandle[i.handle]
    <2>1. CASE UNCHANGED <<byPeerId, byDid>>
        BY <1>2, <2>1, SameListed DEF Authenticated
    <2>2. CASE Known(t) /\ c # None
        <3>1. i \in Idents /\ i.handle \in Handles /\ i.did \in proved
            BY <1>1, <2>2, PeersAssumption DEF Known, HasNames, Authenticated
        <3>2. c \in Ctx /\ c.handle = i.handle
            BY <2>2, <3>1 DEF TInv, TypeOK, Authenticated
        <3>3. byPeerId' = [byPeerId EXCEPT ![PeerOf[c.handle]] = c] /\ byDid' = [byDid EXCEPT ![c.did] = c]
            BY <2>2 DEF Known
        <3> HIDE DEF c
        <3>4. Proved(c)
            BY <3>1, <3>2 DEF Proved
        <3> QED
            BY <1>2, <3>2, <3>3, <3>4, ListedKeeps DEF Authenticated
    <2>3. Known(t) => c # None \/ UNCHANGED <<byPeerId, byDid>>
        BY DEF Known
    <2>4. ~Known(t) => UNCHANGED <<byPeerId, byDid>>
        BY DEF Step, Ident, Begin, Check, Register, LoadFails, AuthSucceeds, AuthFails, AuthEnds
    <2> QED
        BY <2>1, <2>2, <2>3, <2>4
<1> QED
    BY <1>3, <1>4, <1>5, <1>6, <1>7 DEF Authenticated

LEMMA AuthenticatedLoad ==
    ASSUME TInv, Authenticated,
           \/ \E h \in Handles : Scan(h)
           \/ \E n \in DOMAIN loads : GraphLoad(n) \/ GraphLoadEnds(n)
    PROVE  Authenticated'
<1> USE DEF registries, idents, edits, scans
<1>1. UNCHANGED <<task, graph, proved>>
    BY DEF Scan, GraphLoad, GraphLoadEnds
<1>2. loads \in Seq(LoadRec) /\ \A n \in DOMAIN loads : loads[n] \in LoadRec
    <2>1. loads \in Seq(LoadRec)
        BY DEF TInv, TypeOK, LoadRec
    <2> QED
        BY <2>1
<1>3. ASSUME \A n \in DOMAIN loads' : loads'[n].did \in proved,
             \A h \in Handles : byHandle'[h] # None => byHandle'[h].handle = h,
             OnlyAuthenticatedListed'
      PROVE  Authenticated'
    BY <1>1, <1>3 DEF Authenticated
<1>4. ASSUME NEW h \in Handles, Scan(h) PROVE Authenticated'
    <2>0. OnlyAuthenticatedListed' /\ byHandle' = byHandle
        BY <1>1, <1>4, SameListed DEF Scan, Authenticated
    <2>1. CASE Inactive(h) \/ h \notin Valid \/ byDid[graph[h]] # None \/ graph[h] \in loading
        <3>1. loads' = loads
            BY <1>4, <2>1 DEF Scan
        <3> QED
            BY <1>3, <2>0, <3>1 DEF Authenticated
    <2>2. CASE ~(Inactive(h) \/ h \notin Valid \/ byDid[graph[h]] # None \/ graph[h] \in loading)
        <3> DEFINE x == [did |-> graph[h], handle |-> h, at |-> "load"]
        <3>1. loads' = Append(loads, x) /\ x.did \in proved
            BY <1>4, <2>2 DEF Scan, TInv, TypeOK, InUse, Authenticated
        <3> HIDE DEF x
        <3>2. \A m \in DOMAIN loads' : loads'[m] = x \/ (m \in DOMAIN loads /\ loads'[m] = loads[m])
            BY <1>2, <3>1
        <3>3. \A m \in DOMAIN loads' : loads'[m].did \in proved
            BY <3>1, <3>2 DEF Authenticated
        <3> QED
            BY <1>3, <2>0, <3>3 DEF Authenticated
    <2> QED
        BY <2>1, <2>2
<1>5. ASSUME NEW n \in DOMAIN loads, GraphLoad(n) PROVE Authenticated'
    <2> DEFINE x == loads[n]
    <2> DEFINE c == [handle |-> x.handle, did |-> x.did, from |-> "graph"]
    <2>1. x.handle \in Handles /\ x.did \in Dids /\ x.did \in proved
        BY <1>2 DEF LoadRec, Authenticated
    <2>2. c \in Ctx /\ c.handle = x.handle /\ c.did = x.did
        BY <2>1 DEF Ctx
    <2>3. /\ byHandle' = [byHandle EXCEPT ![x.handle] = c] /\ loads' = [loads EXCEPT ![n].at = "added"]
          /\ byPeerId' = byPeerId \/ byPeerId' = [byPeerId EXCEPT ![PeerOf[x.handle]] = c]
          /\ byDid' = byDid \/ byDid' = [byDid EXCEPT ![c.did] = c]
        BY <1>5 DEF GraphLoad, Listed
    <2> HIDE DEF c
    <2>4. Proved(c)
        BY <2>1, <2>2 DEF Proved
    <2>5. OnlyAuthenticatedListed'
        BY <1>1, <2>2, <2>3, <2>4, ListedKeeps DEF Authenticated
    <2>6. byHandle \in [Handles -> Ctx \union {None}]
        BY DEF TInv, TypeOK
    <2>7. \A h \in Handles : byHandle'[h] # None => byHandle'[h].handle = h
        BY <2>1, <2>2, <2>3, <2>6 DEF Authenticated
    <2>8. DOMAIN loads' = DOMAIN loads /\ \A m \in DOMAIN loads : loads'[m].did = loads[m].did
        BY <1>2, <2>3 DEF LoadRec
    <2>9. \A m \in DOMAIN loads' : loads'[m].did \in proved
        BY <2>8 DEF Authenticated
    <2> QED
        BY <1>3, <2>5, <2>7, <2>9
<1>6. ASSUME NEW n \in DOMAIN loads, GraphLoadEnds(n) PROVE Authenticated'
    <2>1. loads' = RemoveAt(loads, n) /\ UNCHANGED <<byHandle, byPeerId, byDid>>
        BY <1>6 DEF GraphLoadEnds
    <2>2. \A i \in DOMAIN loads' : \E j \in DOMAIN loads : loads'[i] = loads[j]
        BY <1>2, <2>1, Removed
    <2>3. OnlyAuthenticatedListed'
        BY <1>1, <2>1, SameListed DEF Authenticated
    <2> QED
        BY <1>3, <2>1, <2>2, <2>3 DEF Authenticated
<1> QED
    BY <1>4, <1>5, <1>6

LEMMA AuthenticatedStep == TInv /\ Authenticated /\ [Next]_vars => Authenticated'
<1> SUFFICES ASSUME TInv, Authenticated, [Next]_vars PROVE Authenticated'
    OBVIOUS
<1> USE DEF registries, idents, edits, scans
<1>1. CASE \E t \in Tasks : Step(t) \/ \E i \in Idents : Ident(t, i)
    BY <1>1, AuthenticatedTask
<1>2. CASE (\E h \in Handles : Scan(h)) \/ \E n \in DOMAIN loads : GraphLoad(n) \/ GraphLoadEnds(n)
    BY <1>2, AuthenticatedLoad
<1>3. ASSUME (\E c \in failed : Forget(c)) \/ FirstScan \/ SaveGraph \/ UNCHANGED vars
      PROVE  UNCHANGED <<task, graph, proved, loads, byHandle, byPeerId, byDid>>
    BY <1>3 DEF Forget, FirstScan, SaveGraph, vars
<1>4. CASE UNCHANGED <<task, graph, proved, loads, byHandle, byPeerId, byDid>>
    <2>1. OnlyAuthenticatedListed'
        BY <1>4, SameListed DEF Authenticated
    <2> QED
        BY <1>4, <2>1 DEF Authenticated
<1> QED
    BY <1>1, <1>2, <1>3, <1>4 DEF Next

(* Whoever is listed under its DID or its peer id passed the authentication, *)
(* or shares its handle with a DID that did: however many DIDs have one      *)
(* handle, however old the answer of the graph is, and whatever fails.       *)
THEOREM ListedAreAuthenticated == Spec => []OnlyAuthenticatedListed
<1>1. Init => Authenticated
    BY DEF Init, Authenticated, OnlyAuthenticatedListed, Idle
<1>2. Authenticated => OnlyAuthenticatedListed
    BY DEF Authenticated
<1> QED
    BY <1>1, <1>2, Typed, AuthenticatedStep, PTL DEF Spec
=============================================================================
