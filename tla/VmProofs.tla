------------------------------- MODULE VmProofs -------------------------------
(***************************************************************************)
(* Vm keeps its inductive invariant, for any processes, pages, frames and  *)
(* swap slots: no frame of the user pool is lost and none has two owners,  *)
(* also when processes end in the middle of evictions.                     *)
(***************************************************************************)
EXTENDS Vm, FiniteSetTheorems, TLAPS

(* Range holds what the positions of a sequence hold. *)
LEMMA RangeLemma ==
  ASSUME NEW S, NEW s \in Seq(S)
  PROVE  /\ DOMAIN s = 1..Len(s) /\ Len(s) \in Nat
         /\ \A i \in 1..Len(s) : s[i] \in Range(s) /\ s[i] \in S
         /\ \A x \in Range(s) : \E i \in 1..Len(s) : s[i] = x
BY DEF Range

(* A concatenation position by position. *)
LEMMA ConcatLemma ==
  ASSUME NEW S, NEW a \in Seq(S), NEW b \in Seq(S)
  PROVE  /\ a \o b \in Seq(S) /\ Len(a \o b) = Len(a) + Len(b)
         /\ \A j \in 1..Len(a) + Len(b) :
              (a \o b)[j] = IF j <= Len(a) THEN a[j] ELSE b[j - Len(a)]
OBVIOUS

(* list_remove closes the gap. *)
LEMMA ListRemoveLemma ==
  ASSUME NEW S, NEW s \in Seq(S), NEW i \in 1..Len(s)
  PROVE  /\ list_remove(s, i) \in Seq(S)
         /\ Len(list_remove(s, i)) = Len(s) - 1
         /\ \A j \in 1..Len(s) - 1 : list_remove(s, i)[j] = IF j < i THEN s[j] ELSE s[j + 1]
<1>1. SubSeq(s, 1, i - 1) \in Seq(S) /\ Len(SubSeq(s, 1, i - 1)) = i - 1
  OBVIOUS
<1>2. SubSeq(s, i + 1, Len(s)) \in Seq(S) /\ Len(SubSeq(s, i + 1, Len(s))) = Len(s) - i
  OBVIOUS
<1>3. \A j \in 1..i - 1 : SubSeq(s, 1, i - 1)[j] = s[j]
  OBVIOUS
<1>4. \A j \in 1..Len(s) - i : SubSeq(s, i + 1, Len(s))[j] = s[i + j]
  OBVIOUS
<1>. DEFINE a == SubSeq(s, 1, i - 1)
            b == SubSeq(s, i + 1, Len(s))
<1>5. list_remove(s, i) = a \o b
  BY DEF list_remove
<1>6. a \in Seq(S) /\ b \in Seq(S) /\ Len(a) = i - 1 /\ Len(b) = Len(s) - i
  BY <1>1, <1>2
<1>. HIDE DEF a, b
<1>7. /\ a \o b \in Seq(S) /\ Len(a \o b) = Len(a) + Len(b)
      /\ \A j \in 1..Len(a) + Len(b) :
           (a \o b)[j] = IF j <= Len(a) THEN a[j] ELSE b[j - Len(a)]
  BY <1>6, ConcatLemma
<1>8. Len(s) \in Nat /\ i \in Nat /\ (i - 1) + (Len(s) - i) = Len(s) - 1
  OBVIOUS
<1>9. ASSUME NEW j \in 1..Len(s) - 1
      PROVE  (a \o b)[j] = IF j < i THEN s[j] ELSE s[j + 1]
  <2>0. j \in 1..Len(a) + Len(b)
    BY <1>6, <1>8
  <2>1. (a \o b)[j] = IF j <= i - 1 THEN a[j] ELSE b[j - (i - 1)]
    BY <2>0, <1>6, <1>7, Zenon
  <2>2. CASE j < i
    BY <2>1, <2>2, <1>3, <1>8 DEF a
  <2>3. CASE ~(j < i)
    <3>1. j - (i - 1) \in 1..Len(s) - i /\ i + (j - (i - 1)) = j + 1
      BY <2>3, <1>8
    <3>2. PICK k : k = j - (i - 1) OBVIOUS
    <3>3. b[k] = s[i + k]
      BY <3>1, <3>2, <1>4 DEF b
    <3>4. (a \o b)[j] = b[k]
      BY <2>1, <2>3, <3>2, <1>8
    <3> QED BY <3>1, <3>2, <3>3, <3>4, <2>3, <1>8
  <2> QED BY <2>2, <2>3
<1> QED
  BY <1>5, <1>6, <1>7, <1>8, <1>9

(* Nothing is on a list without repetitions twice after a removal, and     *)
(* only the removed element is gone.                                       *)
LEMMA RemovalLemma ==
  ASSUME NEW S, NEW s \in Seq(S), NEW i \in 1..Len(s),
         \A j, k \in DOMAIN s : s[j] = s[k] => j = k
  PROVE  /\ \A j, k \in DOMAIN list_remove(s, i) :
              list_remove(s, i)[j] = list_remove(s, i)[k] => j = k
         /\ Range(list_remove(s, i)) = Range(s) \ {s[i]}
         /\ i # Len(s) => s[i + 1] \in Range(s) \ {s[i]}
<1>. PICK r : r = list_remove(s, i) BY Zenon
<1>1. /\ r \in Seq(S) /\ Len(r) = Len(s) - 1
      /\ \A j \in 1..Len(s) - 1 : r[j] = IF j < i THEN s[j] ELSE s[j + 1]
  BY ListRemoveLemma, Zenon
<1>0. DOMAIN s = 1..Len(s) /\ Len(s) \in Nat /\ DOMAIN r = 1..Len(s) - 1
  BY <1>1
<1>2. /\ DOMAIN s = 1..Len(s) /\ Len(s) \in Nat /\ DOMAIN r = 1..Len(s) - 1
      /\ \A j, k \in 1..Len(s) : s[j] = s[k] => j = k
  BY <1>0, Zenon
<1>3. ASSUME NEW j \in 1..Len(s) - 1
      PROVE  \E k \in 1..Len(s) : k # i /\ r[j] = s[k] /\ k = IF j < i THEN j ELSE j + 1
  BY <1>1, <1>2
<1>4. ASSUME NEW k \in 1..Len(s), k # i
      PROVE  \E j \in 1..Len(s) - 1 : r[j] = s[k]
  <2>1. CASE k < i
    <3>1. k \in 1..Len(s) - 1 /\ r[k] = s[k] BY <2>1, <1>1, <1>2
    <3> QED BY <3>1
  <2>2. CASE k > i
    <3>1. k - 1 \in 1..Len(s) - 1 /\ ~(k - 1 < i) /\ (k - 1) + 1 = k BY <2>2, <1>2
    <3>2. r[k - 1] = s[k] BY <3>1, <1>1
    <3> QED BY <3>1, <3>2
  <2> QED BY <2>1, <2>2, <1>4, <1>2
<1>5. \A j, k \in DOMAIN r : r[j] = r[k] => j = k
  <2>. SUFFICES ASSUME NEW j \in 1..Len(s) - 1, NEW k \in 1..Len(s) - 1, r[j] = r[k]
                PROVE  j = k
    BY <1>2, Zenon
  <2>1. PICK x \in 1..Len(s) : r[j] = s[x] /\ x = IF j < i THEN j ELSE j + 1
    BY <1>3, Zenon
  <2>2. PICK y \in 1..Len(s) : r[k] = s[y] /\ y = IF k < i THEN k ELSE k + 1
    BY <1>3, Zenon
  <2>3. x = y BY <2>1, <2>2, <1>2, Zenon
  <2> QED BY <2>1, <2>2, <2>3, <1>2
<1>6. Range(r) = Range(s) \ {s[i]}
  <2>1. ASSUME NEW x \in Range(r) PROVE x \in Range(s) \ {s[i]}
    <3>1. PICK j \in 1..Len(s) - 1 : x = r[j] BY <1>2, Zenon DEF Range
    <3>2. PICK k \in 1..Len(s) : k # i /\ r[j] = s[k] BY <1>3, Zenon
    <3> QED BY <3>1, <3>2, <1>2, Zenon DEF Range
  <2>2. ASSUME NEW x \in Range(s) \ {s[i]} PROVE x \in Range(r)
    <3>1. PICK k \in 1..Len(s) : x = s[k] BY <1>2, Zenon DEF Range
    <3>2. k # i BY <3>1
    <3>3. PICK j \in 1..Len(s) - 1 : r[j] = s[k] BY <3>2, <1>4, Zenon
    <3> QED BY <3>1, <3>3, <1>2, Zenon DEF Range
  <2> QED BY <2>1, <2>2, Zenon
<1>7. ASSUME i # Len(s) PROVE s[i + 1] \in Range(s) \ {s[i]}
  <2>1. \A n, m \in Nat : m \in 1..n /\ m # n => m + 1 \in 1..n /\ m + 1 # m
    OBVIOUS
  <2>2. i \in Nat BY <1>2
  <2>3. i + 1 \in 1..Len(s) /\ i + 1 # i BY <2>1, <2>2, <1>2, <1>7, Zenon
  <2> QED BY <2>3, <1>2, Zenon DEF Range
<1> QED BY <1>5, <1>6, <1>7, Zenon

-----------------------------------------------------------------------------
(* A step of t leaves where the others are and their variables alone. *)
Alone(t) ==
  /\ DOMAIN pc' = Proc /\ DOMAIN reg' = Proc /\ DOMAIN holder' = Locks
  /\ \A u \in Proc \ {t} : pc'[u] = pc[u] /\ reg'[u] = reg[u]
  /\ DOMAIN reg'[t] = Fields /\ reg'[t].back \in ReturnPlace

(* A step of t that moves no frame: it may take or release lru_list_lock,  *)
(* turn the hand and choose a victim.                                      *)
Calm(t) ==
  /\ UNCHANGED <<pool, lru_list>>
  /\ lru_clock' \in Range(lru_list) \cup {NULL, TAIL}
  /\ pc[t] # "add" /\ pc'[t] # "add"
  /\ \/ /\ holder'["lru_list_lock"] = holder["lru_list_lock"]
        /\ pc'[t] \in Evicting => pc[t] \in Evicting
     \/ /\ holder["lru_list_lock"] = NULL /\ holder'["lru_list_lock"] = t
        /\ lru_list # <<>> /\ pc'[t] = "scan"
     \/ pc[t] \in Evicting /\ pc'[t] \notin Evicting
  /\ pc'[t] \in Evicting \ {"scan"} => reg'[t].victim \in Range(lru_list)

(* A calm step keeps the invariant. *)
LEMMA CalmStep ==
  ASSUME VmAssumption, IInv, NEW t \in Proc, Alone(t), Calm(t)
  PROVE  IInv'
<1>1. TypesInv'
  <2>1. \A u \in Proc : DOMAIN reg'[u] = Fields /\ reg'[u].back \in ReturnPlace
    BY Zenon DEF IInv, TypesInv, Alone
  <2> QED BY <2>1, Zenon DEF IInv, TypesInv, Alone, Calm
<1>2. Adding' = Adding
  BY Zenon DEF Adding, Alone, Calm
<1>3. \A u \in Adding : reg'[u] = reg[u]
  BY Zenon DEF Adding, Alone, Calm
<1>4. PlacesInv'
  <2>1. \A u \in Adding' : reg'[u].f \in Frame \ (pool \cup Range(lru_list))
    BY <1>2, <1>3, Zenon DEF IInv, PlacesInv
  <2>2. ASSUME NEW u \in Adding', NEW w \in Adding', reg'[u].f = reg'[w].f PROVE u = w
    <3>1. u \in Adding /\ w \in Adding BY <1>2, Zenon
    <3>2. reg[u].f = reg[w].f BY <3>1, <1>3, <2>2, Zenon
    <3> QED BY <3>1, <3>2, Zenon DEF IInv, PlacesInv
  <2>3. \A f \in Frame \ (pool \cup Range(lru_list)) : \E u \in Adding' : reg'[u].f = f
    BY <1>2, <1>3, Zenon DEF IInv, PlacesInv
  <2>4. pool' = pool /\ lru_list' = lru_list BY Zenon DEF Calm
  <2> QED BY <2>1, <2>2, <2>3, <2>4, Zenon DEF IInv, PlacesInv, Calm
<1>5. EvictInv'
  <2>. SUFFICES ASSUME NEW u \in Proc, pc'[u] \in Evicting
                PROVE  /\ holder'["lru_list_lock"] = u /\ lru_list # <<>>
                       /\ pc'[u] # "scan" => reg'[u].victim \in Range(lru_list)
    BY Zenon DEF EvictInv, Calm
  <2>1. CASE u = t
    <3>1. /\ holder'["lru_list_lock"] = t /\ lru_list # <<>>
      BY <2>1, Zenon DEF IInv, EvictInv, Calm, Evicting
    <3> QED BY <3>1, <2>1, Zenon DEF Calm
  <2>2. CASE u # t
    <3>1. pc'[u] = pc[u] /\ reg'[u] = reg[u] BY <2>2, Zenon DEF Alone
    <3>2. /\ holder["lru_list_lock"] = u /\ lru_list # <<>>
          /\ pc[u] # "scan" => reg[u].victim \in Range(lru_list)
      BY <3>1, Zenon DEF IInv, EvictInv
    <3>3. holder'["lru_list_lock"] = u
      <4>1. u # NULL BY Zenon DEF VmAssumption
      <4>2. pc[t] \notin Evicting BY <3>2, <2>2, Zenon DEF IInv, EvictInv
      <4> QED BY <4>1, <4>2, <3>2, Zenon DEF Calm
    <3> QED BY <3>1, <3>2, <3>3, Zenon
  <2> QED BY <2>1, <2>2, Zenon
<1>6. CountInv'
  BY <1>2, Zenon DEF IInv, CountInv, Calm
<1> QED BY <1>1, <1>4, <1>5, <1>6, Zenon DEF IInv

(* A step outside of the management of frames that leaves the local        *)
(* variables alone.                                                        *)
LEMMA QuietStep ==
  ASSUME VmAssumption, IInv, NEW t \in Proc, NEW place, Goto(t, place),
         UNCHANGED <<reg, pool, lru_list, lru_clock>>,
         pc[t] # "add", place # "add", place \in Evicting => pc[t] \in Evicting \ {"scan"},
         DOMAIN holder' = Locks, holder'["lru_list_lock"] = holder["lru_list_lock"]
  PROVE  IInv'
<1>1. DOMAIN pc' = Proc /\ pc'[t] = place /\ \A u \in Proc \ {t} : pc'[u] = pc[u]
  BY Zenon DEF IInv, TypesInv, Goto
<1>2. Alone(t)
  BY <1>1, Zenon DEF IInv, TypesInv, Alone
<1>3. Calm(t)
  <2>1. lru_clock' \in Range(lru_list) \cup {NULL, TAIL}
    BY Zenon DEF IInv, PlacesInv
  <2>2. pc'[t] \in Evicting \ {"scan"} => reg'[t].victim \in Range(lru_list)
    BY <1>1, Zenon DEF IInv, EvictInv
  <2> QED BY <2>1, <2>2, <1>1, Zenon DEF Calm
<1> QED BY <1>2, <1>3, CalmStep, Zenon

(* The same for a step that changes them. *)
LEMMA QuietSet ==
  ASSUME VmAssumption, IInv, NEW t \in Proc, NEW place, Goto(t, place),
         NEW r, reg' = [reg EXCEPT ![t] = r], DOMAIN r = Fields, r.back \in ReturnPlace,
         UNCHANGED <<pool, lru_list, lru_clock>>,
         pc[t] # "add", place # "add",
         place \in Evicting => pc[t] \in Evicting \ {"scan"} /\ r.victim = reg[t].victim,
         DOMAIN holder' = Locks, holder'["lru_list_lock"] = holder["lru_list_lock"]
  PROVE  IInv'
<1>1. DOMAIN pc' = Proc /\ pc'[t] = place /\ \A u \in Proc \ {t} : pc'[u] = pc[u]
  BY Zenon DEF IInv, TypesInv, Goto
<1>2. DOMAIN reg' = Proc /\ reg'[t] = r /\ \A u \in Proc \ {t} : reg'[u] = reg[u]
  BY Zenon DEF IInv, TypesInv
<1>3. Alone(t)
  BY <1>1, <1>2, Zenon DEF IInv, TypesInv, Alone
<1>4. Calm(t)
  <2>1. lru_clock' \in Range(lru_list) \cup {NULL, TAIL}
    BY Zenon DEF IInv, PlacesInv
  <2>2. pc'[t] \in Evicting \ {"scan"} => reg'[t].victim \in Range(lru_list)
    BY <1>1, <1>2, Zenon DEF IInv, EvictInv
  <2> QED BY <2>1, <2>2, <1>1, <1>2, Zenon DEF Calm
<1> QED BY <1>3, <1>4, CalmStep, Zenon

(* filesys_lock and swap_lock are not lru_list_lock. *)
LEMMA OtherLocks ==
  ASSUME IInv, NEW l \in {"filesys_lock", "swap_lock"}, NEW x, holder' = [holder EXCEPT ![l] = x]
  PROVE  DOMAIN holder' = Locks /\ holder'["lru_list_lock"] = holder["lru_list_lock"]
<1>1. l # "lru_list_lock" OBVIOUS
<1> QED BY <1>1, Zenon DEF IInv, TypesInv, Locks

LEMMA SameLocks ==
  ASSUME IInv, UNCHANGED holder
  PROVE  DOMAIN holder' = Locks /\ holder'["lru_list_lock"] = holder["lru_list_lock"]
BY Zenon DEF IInv, TypesInv

-----------------------------------------------------------------------------
(* read and write. *)
LEMMA RwKeeps ==
  ASSUME VmAssumption, IInv, NEW t \in Proc,
         \/ RwAcquire(t) \/ RwRelease(t)
         \/ \E write \in BOOLEAN : RwCopy(t, write)
         \/ \E v \in VPage : RwCall(t, v)
  PROVE  IInv'
<1>1. CASE RwAcquire(t)
  BY <1>1, QuietStep, OtherLocks, Zenon DEF RwAcquire, At, Acquired, Evicting
<1>2. CASE RwRelease(t)
  <2>1. PICK r : r = [reg[t] EXCEPT !.v = NULL] OBVIOUS
  <2>2. DOMAIN r = Fields /\ r.back \in ReturnPlace
    BY <2>1, Zenon DEF IInv, TypesInv, Fields
  <2>3. reg' = [reg EXCEPT ![t] = r] BY <1>2, <2>1, Zenon DEF RwRelease
  <2>4. /\ Goto(t, "user") /\ UNCHANGED <<pool, lru_list, lru_clock>> /\ pc[t] # "add"
        /\ DOMAIN holder' = Locks /\ holder'["lru_list_lock"] = holder["lru_list_lock"]
    BY <1>2, OtherLocks, Zenon DEF RwRelease, Released
  <2>5. "user" # "add" /\ "user" \notin Evicting BY Zenon DEF Evicting
  <2> QED BY <2>2, <2>3, <2>4, <2>5, QuietSet, Zenon
<1>3. CASE \E write \in BOOLEAN : RwCopy(t, write)
  <2>1. PICK place \in {"rwunpin", "rwdone"} : Goto(t, place)
    BY <1>3, Zenon DEF RwCopy
  <2> QED BY <1>3, <2>1, QuietStep, SameLocks, Zenon DEF RwCopy, Touch, At, kernVars, Evicting
<1>4. CASE \E v \in VPage : RwCall(t, v)
  <2>0. PICK v \in VPage : RwCall(t, v) BY <1>4, Zenon
  <2>1. PICK r : r = [reg[t] EXCEPT !.v = v] OBVIOUS
  <2>2. DOMAIN r = Fields /\ r.back \in ReturnPlace
    BY <2>1, Zenon DEF IInv, TypesInv, Fields
  <2>3. reg' = [reg EXCEPT ![t] = r] BY <2>0, <2>1, Zenon DEF RwCall
  <2>4. /\ Goto(t, "rwlock") /\ UNCHANGED <<pool, lru_list, lru_clock>> /\ pc[t] # "add"
        /\ DOMAIN holder' = Locks /\ holder'["lru_list_lock"] = holder["lru_list_lock"]
    BY <2>0, SameLocks, Zenon DEF RwCall, At, kernVars
  <2>5. "rwlock" # "add" /\ "rwlock" \notin Evicting BY Zenon DEF Evicting
  <2> QED BY <2>2, <2>3, <2>4, <2>5, QuietSet, Zenon
<1> QED BY <1>1, <1>2, <1>3, <1>4, Zenon

(* page_fault begins. *)
LEMMA FaultKeeps ==
  ASSUME VmAssumption, IInv, NEW t \in Proc, NEW v, NEW back \in ReturnPlace,
         pc[t] # "add", Fault(t, v, back)
  PROVE  IInv'
<1>1. PICK r : r = [reg[t] EXCEPT !.v = v, !.back = back] OBVIOUS
<1>2. DOMAIN r = Fields /\ r.back \in ReturnPlace
  BY <1>1, Zenon DEF IInv, TypesInv, Fields
<1>3. reg' = [reg EXCEPT ![t] = r] BY <1>1, Zenon DEF Fault
<1>4. /\ Goto(t, "get") /\ UNCHANGED <<pool, lru_list, lru_clock>>
      /\ DOMAIN holder' = Locks /\ holder'["lru_list_lock"] = holder["lru_list_lock"]
  BY SameLocks, Zenon DEF Fault, kernVars
<1>5. "get" # "add" /\ "get" \notin Evicting BY Zenon DEF Evicting
<1> QED BY <1>2, <1>3, <1>4, <1>5, QuietSet, Zenon

-----------------------------------------------------------------------------
(* Frames that move.                                                       *)

(* Nobody evicts while lru_list_lock is free or held by t itself. *)
LEMMA NobodyEvicts ==
  ASSUME VmAssumption, IInv, NEW t \in Proc, Alone(t), pc'[t] \notin Evicting,
         holder["lru_list_lock"] = NULL \/ pc[t] \in Evicting
  PROVE  EvictInv'
<1>. SUFFICES ASSUME NEW u \in Proc, pc'[u] \in Evicting PROVE FALSE
  BY Zenon DEF EvictInv
<1>1. u # t /\ pc[u] \in Evicting BY Zenon DEF Alone
<1>2. holder["lru_list_lock"] = u BY <1>1, Zenon DEF IInv, EvictInv
<1>3. u # NULL BY Zenon DEF VmAssumption
<1>4. pc[t] \in Evicting => holder["lru_list_lock"] = t BY Zenon DEF IInv, EvictInv
<1> QED BY <1>1, <1>2, <1>3, <1>4, Zenon

LEMMA TypesKept ==
  ASSUME TypesInv, NEW t \in Proc, Alone(t), pool' \subseteq Frame, lru_list' \in Seq(Frame)
  PROVE  TypesInv'
<1>1. \A u \in Proc : DOMAIN reg'[u] = Fields /\ reg'[u].back \in ReturnPlace
  BY Zenon DEF TypesInv, Alone
<1> QED BY <1>1, Zenon DEF TypesInv, Alone

(* The cardinalities that a step changes. *)
LEMMA CountLemma ==
  ASSUME VmAssumption, IInv
  PROVE  /\ IsFiniteSet(pool) /\ IsFiniteSet(Adding)
         /\ Cardinality(pool) \in Nat /\ Cardinality(Adding) \in Nat /\ Len(lru_list) \in Nat
         /\ Cardinality(pool) + Len(lru_list) + Cardinality(Adding) = Cardinality(Frame)
         /\ \A f : f \notin pool => Cardinality(pool \cup {f}) = Cardinality(pool) + 1
         /\ \A f \in pool : Cardinality(pool \ {f}) = Cardinality(pool) - 1
         /\ \A u : u \notin Adding => Cardinality(Adding \cup {u}) = Cardinality(Adding) + 1
         /\ \A u \in Adding : Cardinality(Adding \ {u}) = Cardinality(Adding) - 1
         /\ \A u : IsFiniteSet(Adding \cup {u}) /\ IsFiniteSet(Adding \ {u})
<1>1. IsFiniteSet(pool) /\ IsFiniteSet(Adding)
  BY FS_Subset, Zenon DEF VmAssumption, IInv, TypesInv, CountInv
<1>2. Cardinality(pool) \in Nat /\ Cardinality(Adding) \in Nat
  BY <1>1, FS_CardinalityType, Zenon
<1>3. \A f : f \notin pool => Cardinality(pool \cup {f}) = Cardinality(pool) + 1
  BY <1>1, FS_AddElement, Zenon
<1>4. \A f \in pool : Cardinality(pool \ {f}) = Cardinality(pool) - 1
  BY <1>1, FS_RemoveElement, Zenon
<1>5. \A u : u \notin Adding => Cardinality(Adding \cup {u}) = Cardinality(Adding) + 1
  BY <1>1, FS_AddElement, Zenon
<1>6. \A u \in Adding : Cardinality(Adding \ {u}) = Cardinality(Adding) - 1
  BY <1>1, FS_RemoveElement, Zenon
<1>7. \A u : IsFiniteSet(Adding \cup {u}) /\ IsFiniteSet(Adding \ {u})
  BY <1>1, FS_AddElement, FS_RemoveElement, Zenon
<1>8. Len(lru_list) \in Nat
  <2>1. lru_list \in Seq(Frame) BY Zenon DEF IInv, TypesInv
  <2> QED BY <2>1, RangeLemma, Zenon
<1> QED BY <1>1, <1>2, <1>3, <1>4, <1>5, <1>6, <1>7, <1>8, Zenon DEF IInv, CountInv

(* A page goes from lru_list to the pool. *)
LEMMA FreeKeeps ==
  ASSUME VmAssumption, IInv, NEW t \in Proc, NEW f \in Range(lru_list), __free_page(f), Alone(t),
         pc[t] # "add", pc'[t] # "add", pc'[t] \notin Evicting,
         holder["lru_list_lock"] = NULL \/ pc[t] \in Evicting
  PROVE  IInv'
<1>1. /\ lru_list \in Seq(Frame) /\ pool \subseteq Frame /\ pool \cap Range(lru_list) = {}
      /\ \A j, k \in DOMAIN lru_list : lru_list[j] = lru_list[k] => j = k
  BY Zenon DEF IInv, TypesInv, PlacesInv
<1>2. PICK i : i = Index(f) OBVIOUS
<1>3. i \in DOMAIN lru_list /\ lru_list[i] = f
  BY <1>2, Zenon DEF Index, Range
<1>4. DOMAIN lru_list = 1..Len(lru_list) /\ Len(lru_list) \in Nat /\ f \in Frame
  <2>1. /\ DOMAIN lru_list = 1..Len(lru_list) /\ Len(lru_list) \in Nat
        /\ \A j \in 1..Len(lru_list) : lru_list[j] \in Frame
    BY <1>1, RangeLemma, Zenon
  <2> QED BY <2>1, <1>3, Zenon
<1>5. i \in 1..Len(lru_list) BY <1>3, <1>4, Zenon
<1>6. /\ pool' = pool \cup {f} /\ lru_list' = list_remove(lru_list, i)
      /\ lru_clock' = IF lru_clock # f THEN lru_clock
                      ELSE IF i = Len(lru_list) THEN TAIL ELSE lru_list[i + 1]
  BY <1>2, Zenon DEF __free_page
<1>7. /\ \A j, k \in DOMAIN lru_list' : lru_list'[j] = lru_list'[k] => j = k
      /\ Range(lru_list') = Range(lru_list) \ {f}
      /\ i # Len(lru_list) => lru_list[i + 1] \in Range(lru_list) \ {f}
  BY <1>1, <1>3, <1>5, <1>6, RemovalLemma, Zenon
<1>8. lru_list' \in Seq(Frame) /\ Len(lru_list') = Len(lru_list) - 1
  BY <1>1, <1>5, <1>6, ListRemoveLemma, Zenon
<1>9. TypesInv'
  BY <1>1, <1>4, <1>6, <1>8, TypesKept, Zenon DEF IInv
<1>10. Adding' = Adding /\ \A u \in Adding : reg'[u] = reg[u]
  BY Zenon DEF Adding, Alone
<1>11. PlacesInv'
  <2>1. pool' \cap Range(lru_list') = {}
    BY <1>1, <1>6, <1>7, Zenon
  <2>2. Frame \ (pool' \cup Range(lru_list')) = Frame \ (pool \cup Range(lru_list))
    BY <1>6, <1>7, Zenon
  <2>3. \A u \in Adding' : reg'[u].f \in Frame \ (pool' \cup Range(lru_list'))
    BY <1>10, <2>2, Zenon DEF IInv, PlacesInv
  <2>4. ASSUME NEW u \in Adding', NEW w \in Adding', reg'[u].f = reg'[w].f PROVE u = w
    <3>1. u \in Adding /\ w \in Adding BY <1>10, Zenon
    <3>2. reg[u].f = reg[w].f BY <3>1, <1>10, <2>4, Zenon
    <3> QED BY <3>1, <3>2, Zenon DEF IInv, PlacesInv
  <2>5. \A g \in Frame \ (pool' \cup Range(lru_list')) : \E u \in Adding' : reg'[u].f = g
    BY <1>10, <2>2, Zenon DEF IInv, PlacesInv
  <2>6. lru_clock' \in Range(lru_list') \cup {NULL, TAIL}
    <3>1. lru_clock \in Range(lru_list) \cup {NULL, TAIL} BY Zenon DEF IInv, PlacesInv
    <3> QED BY <3>1, <1>6, <1>7, Zenon
  <2> QED BY <2>1, <2>3, <2>4, <2>5, <2>6, <1>7, Zenon DEF PlacesInv
<1>12. EvictInv'
  BY NobodyEvicts, Zenon
<1>13. CountInv'
  <2>1. f \notin pool BY <1>1, Zenon
  <2>2. Cardinality(pool') = Cardinality(pool) + 1
    BY <2>1, <1>6, CountLemma, Zenon
  <2>3. /\ Cardinality(pool) \in Nat /\ Cardinality(Adding) \in Nat /\ Len(lru_list) \in Nat
        /\ Cardinality(pool) + Len(lru_list) + Cardinality(Adding) = Cardinality(Frame)
    BY CountLemma, Zenon
  <2>4. Cardinality(pool') + Len(lru_list') + Cardinality(Adding) = Cardinality(Frame)
    BY <2>2, <2>3, <1>8
  <2> QED BY <2>4, <1>10, CountLemma, Zenon DEF CountInv
<1> QED BY <1>9, <1>11, <1>12, <1>13, Zenon DEF IInv

(* A frame goes from the pool to a thread. *)
LEMMA TakeKeeps ==
  ASSUME VmAssumption, IInv, NEW t \in Proc, NEW f \in pool, Alone(t),
         pool' = pool \ {f}, UNCHANGED <<lru_list, lru_clock, holder>>,
         pc[t] = "get", pc'[t] = "add", reg'[t].f = f
  PROVE  IInv'
<1>1. /\ lru_list \in Seq(Frame) /\ pool \subseteq Frame /\ pool \cap Range(lru_list) = {}
  BY Zenon DEF IInv, TypesInv, PlacesInv
<1>2. TypesInv'
  BY <1>1, TypesKept, Zenon DEF IInv
<1>3. /\ t \notin Adding /\ Adding' = Adding \cup {t} /\ \A u \in Adding : reg'[u] = reg[u]
  BY Zenon DEF Adding, Alone
<1>4. \A u \in Adding : reg'[u].f \in Frame \ (pool \cup Range(lru_list))
  BY <1>3, Zenon DEF IInv, PlacesInv
<1>5. PlacesInv'
  <2>1. \A u \in Adding' : reg'[u].f \in Frame \ (pool' \cup Range(lru_list))
    <3>1. f \in Frame \ (pool' \cup Range(lru_list)) BY <1>1, Zenon
    <3> QED BY <3>1, <1>3, <1>4, Zenon
  <2>2. ASSUME NEW u \in Adding', NEW w \in Adding', reg'[u].f = reg'[w].f PROVE u = w
    <3>1. CASE u \in Adding /\ w \in Adding
      <4>1. reg[u].f = reg[w].f BY <3>1, <1>3, <2>2, Zenon
      <4> QED BY <3>1, <4>1, Zenon DEF IInv, PlacesInv
    <3>2. \A x \in Adding : reg'[x].f # f BY <1>4, Zenon
    <3> QED BY <3>1, <3>2, <2>2, <1>3, Zenon
  <2>3. ASSUME NEW g \in Frame \ (pool' \cup Range(lru_list)) PROVE \E u \in Adding' : reg'[u].f = g
    <3>1. CASE g = f BY <3>1, <1>3, Zenon
    <3>2. CASE g # f
      <4>1. g \in Frame \ (pool \cup Range(lru_list)) BY <3>2, <2>3, Zenon
      <4>2. PICK u \in Adding : reg[u].f = g BY <4>1, Zenon DEF IInv, PlacesInv
      <4> QED BY <4>2, <1>3, Zenon
    <3> QED BY <3>1, <3>2, Zenon
  <2>4. pool' \cap Range(lru_list) = {} BY <1>1, Zenon
  <2>5. lru_list' = lru_list /\ lru_clock' = lru_clock OBVIOUS
  <2> QED BY <2>1, <2>2, <2>3, <2>4, <2>5, Zenon DEF IInv, PlacesInv
<1>6. EvictInv'
  <2>. SUFFICES ASSUME NEW u \in Proc, pc'[u] \in Evicting
                PROVE  /\ holder["lru_list_lock"] = u /\ lru_list # <<>>
                       /\ pc'[u] # "scan" => reg'[u].victim \in Range(lru_list)
    BY Zenon DEF EvictInv
  <2>1. u # t BY Zenon DEF Evicting
  <2> QED BY <2>1, Zenon DEF IInv, EvictInv, Alone
<1>7. CountInv'
  <2>1. Cardinality(pool') = Cardinality(pool) - 1 /\ Cardinality(Adding') = Cardinality(Adding) + 1
    BY <1>3, CountLemma, Zenon
  <2>2. /\ Cardinality(pool) \in Nat /\ Cardinality(Adding) \in Nat /\ Len(lru_list) \in Nat
        /\ Cardinality(pool) + Len(lru_list) + Cardinality(Adding) = Cardinality(Frame)
    BY CountLemma, Zenon
  <2>3. Cardinality(pool') + Len(lru_list') + Cardinality(Adding') = Cardinality(Frame)
    BY <2>1, <2>2
  <2> QED BY <2>3, <1>3, CountLemma, Zenon DEF CountInv
<1> QED BY <1>2, <1>5, <1>6, <1>7, Zenon DEF IInv

(* A frame leaves a thread: it goes back to the pool or onto lru_list. *)
LEMMA LeaveLemma ==
  ASSUME VmAssumption, IInv, NEW t \in Proc, Alone(t), pc[t] = "add", pc'[t] # "add"
  PROVE  /\ t \in Adding /\ Adding' = Adding \ {t} /\ \A u \in Adding' : reg'[u] = reg[u]
         /\ reg[t].f \in Frame \ (pool \cup Range(lru_list))
         /\ \A u \in Adding' : reg'[u].f \in Frame \ (pool \cup Range(lru_list) \cup {reg[t].f})
         /\ \A u, w \in Adding' : reg'[u].f = reg'[w].f => u = w
         /\ \A g \in Frame \ (pool \cup Range(lru_list) \cup {reg[t].f}) :
              \E u \in Adding' : reg'[u].f = g
<1>1. t \in Adding /\ Adding' = Adding \ {t} /\ \A u \in Adding' : reg'[u] = reg[u]
  BY Zenon DEF Adding, Alone
<1>2. reg[t].f \in Frame \ (pool \cup Range(lru_list))
  BY <1>1, Zenon DEF IInv, PlacesInv
<1>3. ASSUME NEW u \in Adding'
      PROVE  reg'[u].f \in Frame \ (pool \cup Range(lru_list) \cup {reg[t].f})
  <2>1. u \in Adding /\ u # t /\ reg'[u] = reg[u] BY <1>1, Zenon
  <2>2. reg[u].f \in Frame \ (pool \cup Range(lru_list)) BY <2>1, Zenon DEF IInv, PlacesInv
  <2>3. reg[u].f # reg[t].f BY <2>1, <1>1, Zenon DEF IInv, PlacesInv
  <2> QED BY <2>1, <2>2, <2>3, Zenon
<1>4. ASSUME NEW u \in Adding', NEW w \in Adding', reg'[u].f = reg'[w].f PROVE u = w
  <2>1. u \in Adding /\ w \in Adding BY <1>1, Zenon
  <2>2. reg[u].f = reg[w].f BY <1>1, <1>4, Zenon
  <2> QED BY <2>1, <2>2, Zenon DEF IInv, PlacesInv
<1>5. ASSUME NEW g \in Frame \ (pool \cup Range(lru_list) \cup {reg[t].f})
      PROVE  \E u \in Adding' : reg'[u].f = g
  <2>1. PICK u \in Adding : reg[u].f = g BY <1>5, Zenon DEF IInv, PlacesInv
  <2>2. u # t BY <2>1, <1>5, Zenon
  <2> QED BY <2>1, <2>2, <1>1, Zenon
<1> QED BY <1>1, <1>2, <1>3, <1>4, <1>5, Zenon

LEMMA GiveBackKeeps ==
  ASSUME VmAssumption, IInv, NEW t \in Proc, Alone(t), pool' = pool \cup {reg[t].f},
         UNCHANGED <<lru_list, lru_clock, holder>>,
         pc[t] = "add", pc'[t] # "add", pc'[t] \notin Evicting
  PROVE  IInv'
<1>1. /\ lru_list \in Seq(Frame) /\ pool \subseteq Frame /\ pool \cap Range(lru_list) = {}
  BY Zenon DEF IInv, TypesInv, PlacesInv
<1>2. PICK f : f = reg[t].f OBVIOUS
<1>3. f \in Frame \ (pool \cup Range(lru_list)) /\ pool' = pool \cup {f}
  BY <1>2, LeaveLemma, Zenon
<1>4. TypesInv'
  BY <1>1, <1>3, TypesKept, Zenon DEF IInv
<1>5. PlacesInv'
  <2>1. pool' \cup Range(lru_list) = pool \cup Range(lru_list) \cup {f}
    BY <1>3, Zenon
  <2>2. \A u \in Adding' : reg'[u].f \in Frame \ (pool' \cup Range(lru_list))
    BY <2>1, <1>2, LeaveLemma, Zenon
  <2>3. \A g \in Frame \ (pool' \cup Range(lru_list)) : \E u \in Adding' : reg'[u].f = g
    BY <2>1, <1>2, LeaveLemma, Zenon
  <2>4. \A u, w \in Adding' : reg'[u].f = reg'[w].f => u = w
    BY LeaveLemma, Zenon
  <2>5. pool' \cap Range(lru_list) = {} BY <1>1, <1>3, Zenon
  <2>6. lru_list' = lru_list /\ lru_clock' = lru_clock OBVIOUS
  <2> QED BY <2>2, <2>3, <2>4, <2>5, <2>6, Zenon DEF IInv, PlacesInv
<1>6. EvictInv'
  <2>. SUFFICES ASSUME NEW u \in Proc, pc'[u] \in Evicting
                PROVE  /\ holder["lru_list_lock"] = u /\ lru_list # <<>>
                       /\ pc'[u] # "scan" => reg'[u].victim \in Range(lru_list)
    BY Zenon DEF EvictInv
  <2>1. u # t OBVIOUS
  <2> QED BY <2>1, Zenon DEF IInv, EvictInv, Alone
<1>7. CountInv'
  <2>0. t \in Adding /\ Adding' = Adding \ {t} BY LeaveLemma, Zenon
  <2>1. Cardinality(pool') = Cardinality(pool) + 1 /\ Cardinality(Adding') = Cardinality(Adding) - 1
    BY <1>3, <2>0, CountLemma, Zenon
  <2>2. /\ Cardinality(pool) \in Nat /\ Cardinality(Adding) \in Nat /\ Len(lru_list) \in Nat
        /\ Cardinality(pool) + Len(lru_list) + Cardinality(Adding) = Cardinality(Frame)
    BY CountLemma, Zenon
  <2>3. Cardinality(pool') + Len(lru_list') + Cardinality(Adding') = Cardinality(Frame)
    BY <2>1, <2>2
  <2>4. IsFiniteSet(Adding') BY <2>0, CountLemma, Zenon
  <2> QED BY <2>3, <2>4, Zenon DEF CountInv
<1> QED BY <1>4, <1>5, <1>6, <1>7, Zenon DEF IInv

LEMMA AppendLemma ==
  ASSUME NEW S, NEW s \in Seq(S), NEW x \in S \ Range(s),
         \A j, k \in DOMAIN s : s[j] = s[k] => j = k
  PROVE  /\ Append(s, x) \in Seq(S) /\ Len(Append(s, x)) = Len(s) + 1
         /\ Range(Append(s, x)) = Range(s) \cup {x}
         /\ \A j, k \in DOMAIN Append(s, x) : Append(s, x)[j] = Append(s, x)[k] => j = k
<1>. PICK r : r = Append(s, x) OBVIOUS
<1>1. r \in Seq(S) /\ Len(r) = Len(s) + 1 OBVIOUS
<1>2. DOMAIN s = 1..Len(s) /\ DOMAIN r = 1..Len(s) + 1 /\ Len(s) \in Nat BY <1>1
<1>3. r[Len(s) + 1] = x /\ \A j \in 1..Len(s) : r[j] = s[j] OBVIOUS
<1>4. \A j \in 1..Len(s) + 1 : j \in 1..Len(s) \/ j = Len(s) + 1 BY <1>2
<1>5. Len(s) + 1 \in 1..Len(s) + 1 /\ \A j \in 1..Len(s) : j \in 1..Len(s) + 1 BY <1>2
<1>6. Range(r) = Range(s) \cup {x}
  <2>1. ASSUME NEW y \in Range(r) PROVE y \in Range(s) \cup {x}
    <3>1. PICK j \in 1..Len(s) + 1 : y = r[j] BY <1>2, Zenon DEF Range
    <3> QED BY <3>1, <1>2, <1>3, <1>4, Zenon DEF Range
  <2>2. ASSUME NEW y \in Range(s) PROVE y \in Range(r)
    <3>1. PICK j \in 1..Len(s) : y = s[j] BY <1>2, Zenon DEF Range
    <3>2. j \in DOMAIN r /\ r[j] = y BY <3>1, <1>2, <1>3, <1>5, Zenon
    <3> QED BY <3>2, Zenon DEF Range
  <2>3. x \in Range(r) BY <1>2, <1>3, <1>5, Zenon DEF Range
  <2> QED BY <2>1, <2>2, <2>3, Zenon
<1>7. ASSUME NEW j \in DOMAIN r, NEW k \in DOMAIN r, r[j] = r[k] PROVE j = k
  <2>1. \A i \in 1..Len(s) : r[i] # x BY <1>2, <1>3, Zenon DEF Range
  <2> QED BY <2>1, <1>2, <1>3, <1>4, <1>7, Zenon
<1> QED BY <1>1, <1>6, <1>7, Zenon

LEMMA AddKeeps ==
  ASSUME VmAssumption, IInv, NEW t \in Proc, Alone(t), lru_list' = Append(lru_list, reg[t].f),
         UNCHANGED <<pool, lru_clock, holder>>, holder["lru_list_lock"] = NULL,
         pc[t] = "add", pc'[t] # "add", pc'[t] \notin Evicting
  PROVE  IInv'
<1>1. /\ lru_list \in Seq(Frame) /\ pool \subseteq Frame /\ pool \cap Range(lru_list) = {}
      /\ \A j, k \in DOMAIN lru_list : lru_list[j] = lru_list[k] => j = k
  BY Zenon DEF IInv, TypesInv, PlacesInv
<1>2. PICK f : f = reg[t].f OBVIOUS
<1>3. f \in Frame \ (pool \cup Range(lru_list)) /\ lru_list' = Append(lru_list, f)
  BY <1>2, LeaveLemma, Zenon
<1>4. f \in Frame \ Range(lru_list) BY <1>3, Zenon
<1>5. /\ lru_list' \in Seq(Frame) /\ Len(lru_list') = Len(lru_list) + 1
      /\ Range(lru_list') = Range(lru_list) \cup {f}
      /\ \A j, k \in DOMAIN lru_list' : lru_list'[j] = lru_list'[k] => j = k
  <2>. DEFINE l == Append(lru_list, f)
  <2>1. /\ l \in Seq(Frame) /\ Len(l) = Len(lru_list) + 1 /\ Range(l) = Range(lru_list) \cup {f}
        /\ \A j, k \in DOMAIN l : l[j] = l[k] => j = k
    BY <1>1, <1>4, AppendLemma, Zenon
  <2> QED BY <2>1, <1>3, Zenon
<1>6. TypesInv'
  BY <1>1, <1>5, TypesKept, Zenon DEF IInv
<1>7. PlacesInv'
  <2>1. pool \cup Range(lru_list') = pool \cup Range(lru_list) \cup {f}
    BY <1>5, Zenon
  <2>2. \A u \in Adding' : reg'[u].f \in Frame \ (pool \cup Range(lru_list'))
    BY <2>1, <1>2, LeaveLemma, Zenon
  <2>3. \A g \in Frame \ (pool \cup Range(lru_list')) : \E u \in Adding' : reg'[u].f = g
    BY <2>1, <1>2, LeaveLemma, Zenon
  <2>4. \A u, w \in Adding' : reg'[u].f = reg'[w].f => u = w
    BY LeaveLemma, Zenon
  <2>5. pool \cap Range(lru_list') = {} BY <1>1, <1>3, <1>5, Zenon
  <2>6. lru_clock' \in Range(lru_list') \cup {NULL, TAIL}
    BY <1>5, Zenon DEF IInv, PlacesInv
  <2>7. pool' = pool OBVIOUS
  <2> QED BY <2>2, <2>3, <2>4, <2>5, <2>6, <2>7, <1>5, Zenon DEF PlacesInv
<1>8. EvictInv'
  BY NobodyEvicts, Zenon
<1>9. CountInv'
  <2>0. t \in Adding /\ Adding' = Adding \ {t} BY LeaveLemma, Zenon
  <2>1. Cardinality(Adding') = Cardinality(Adding) - 1
    BY <2>0, CountLemma, Zenon
  <2>2. /\ Cardinality(pool) \in Nat /\ Cardinality(Adding) \in Nat /\ Len(lru_list) \in Nat
        /\ Cardinality(pool) + Len(lru_list) + Cardinality(Adding) = Cardinality(Frame)
    BY CountLemma, Zenon
  <2>3. Cardinality(pool') + Len(lru_list') + Cardinality(Adding') = Cardinality(Frame)
    BY <2>1, <2>2, <1>5
  <2>4. IsFiniteSet(Adding') BY <2>0, CountLemma, Zenon
  <2> QED BY <2>3, <2>4, Zenon DEF CountInv
<1> QED BY <1>6, <1>7, <1>8, <1>9, Zenon DEF IInv

-----------------------------------------------------------------------------
(* A step to `place' that leaves the local variables alone. *)
LEMMA GotoAlone ==
  ASSUME IInv, NEW t \in Proc, NEW place, Goto(t, place), UNCHANGED reg, DOMAIN holder' = Locks
  PROVE  Alone(t) /\ pc'[t] = place
<1>1. DOMAIN pc' = Proc /\ pc'[t] = place /\ \A u \in Proc \ {t} : pc'[u] = pc[u]
  BY Zenon DEF IInv, TypesInv, Goto
<1> QED BY <1>1, Zenon DEF IInv, TypesInv, Alone

(* And one that changes them. *)
LEMMA SetAlone ==
  ASSUME IInv, NEW t \in Proc, NEW place, Goto(t, place), DOMAIN holder' = Locks,
         NEW r, reg' = [reg EXCEPT ![t] = r], DOMAIN r = Fields, r.back \in ReturnPlace
  PROVE  Alone(t) /\ pc'[t] = place /\ reg'[t] = r
<1>1. DOMAIN pc' = Proc /\ pc'[t] = place /\ \A u \in Proc \ {t} : pc'[u] = pc[u]
  BY Zenon DEF IInv, TypesInv, Goto
<1>2. DOMAIN reg' = Proc /\ reg'[t] = r /\ \A u \in Proc \ {t} : reg'[u] = reg[u]
  BY Zenon DEF IInv, TypesInv
<1> QED BY <1>1, <1>2, Zenon DEF IInv, TypesInv, Alone

(* The page that the hand moves to is on the list. *)
LEMMA ClockLemma ==
  ASSUME IInv, NEW t \in Proc, pc[t] = "scan", ClockDefined, get_next_lru_clock # NULL
  PROVE  get_next_lru_clock \in Range(lru_list)
<1>1. lru_list \in Seq(Frame) BY Zenon DEF IInv, TypesInv
<1>2. lru_list # <<>> BY Zenon DEF IInv, EvictInv, Evicting
<1>3. lru_clock = NULL \/ lru_clock \in Range(lru_list)
  BY Zenon DEF IInv, PlacesInv, ClockDefined
<1>4. /\ DOMAIN lru_list = 1..Len(lru_list) /\ Len(lru_list) \in Nat
      /\ \A i \in 1..Len(lru_list) : lru_list[i] \in Range(lru_list)
  BY <1>1, RangeLemma, Zenon
<1>5. Head(lru_list) \in Range(lru_list)
  <2>1. Head(lru_list) = lru_list[1] /\ 1 \in 1..Len(lru_list) BY <1>1, <1>2
  <2> QED BY <2>1, <1>4, Zenon
<1>6. CASE lru_clock = NULL
  BY <1>5, <1>6, Zenon DEF get_next_lru_clock
<1>7. CASE lru_clock # NULL
  <2>1. PICK i : i = Index(lru_clock) OBVIOUS
  <2>2. i \in DOMAIN lru_list
    BY <2>1, <1>3, <1>7, Zenon DEF Index, Range
  <2>3. \A n, m \in Nat : m \in 1..n /\ m < n => m + 1 \in 1..n OBVIOUS
  <2>4. i \in Nat BY <2>2, <1>4
  <2>5. i < Len(lru_list) => lru_list[i + 1] \in Range(lru_list)
    BY <2>2, <2>3, <2>4, <1>4, Zenon
  <2> QED BY <2>1, <2>5, <1>5, <1>7, Zenon DEF get_next_lru_clock
<1> QED BY <1>6, <1>7, Zenon

(* alloc_page. *)
LEMMA AllocKeeps ==
  ASSUME VmAssumption, IInv, NEW t \in Proc,
         PallocGet(t) \/ MallocFail(t) \/ AddPage(t) \/ LruAcquire(t)
  PROVE  IInv'
<1>0. UNCHANGED holder => DOMAIN holder' = Locks BY Zenon DEF IInv, TypesInv
<1>1. CASE PallocGet(t)
  <2>1. /\ pc[t] = "get" /\ UNCHANGED <<lru_list, lru_clock, holder>>
    BY <1>1, Zenon DEF PallocGet, At
  <2>2. CASE pool = {}
    BY <1>1, <2>1, <2>2, QuietStep, SameLocks, Zenon DEF PallocGet, Evicting
  <2>3. CASE pool # {}
    <3>1. PICK f \in pool : /\ pool' = pool \ {f} /\ reg' = [reg EXCEPT ![t].f = f] /\ Goto(t, "add")
      BY <1>1, <2>3, Zenon DEF PallocGet
    <3>2. PICK r : r = [reg[t] EXCEPT !.f = f] OBVIOUS
    <3>3. DOMAIN r = Fields /\ r.back \in ReturnPlace /\ r.f = f
      BY <3>2, Zenon DEF IInv, TypesInv, Fields
    <3>4. reg' = [reg EXCEPT ![t] = r] BY <3>1, <3>2, Zenon
    <3>5. Alone(t) /\ pc'[t] = "add" /\ reg'[t] = r
      BY <3>1, <3>3, <3>4, <2>1, <1>0, SetAlone, Zenon
    <3>6. reg'[t].f = f BY <3>3, <3>5, Zenon
    <3> QED BY <3>1, <3>5, <3>6, <2>1, TakeKeeps, Zenon
  <2> QED BY <2>2, <2>3, Zenon
<1>2. CASE MallocFail(t)
  <2>1. /\ pc[t] = "add" /\ UNCHANGED <<lru_list, lru_clock, holder, reg>>
        /\ pool' = pool \cup {reg[t].f} /\ Goto(t, "exit")
    BY <1>2, Zenon DEF MallocFail, At
  <2>2. Alone(t) /\ pc'[t] = "exit" BY <2>1, <1>0, GotoAlone, Zenon
  <2>3. pc'[t] # "add" /\ pc'[t] \notin Evicting BY <2>2, Zenon DEF Evicting
  <2> QED BY <2>1, <2>2, <2>3, GiveBackKeeps, Zenon
<1>3. CASE AddPage(t)
  <2>1. /\ pc[t] = "add" /\ UNCHANGED <<pool, lru_clock, holder, reg>>
        /\ lru_list' = Append(lru_list, reg[t].f) /\ holder["lru_list_lock"] = NULL
    BY <1>3, Zenon DEF AddPage, At
  <2>2. PICK place \in {"stack", "setvme"} : Goto(t, place)
    BY <1>3, Zenon DEF AddPage
  <2>3. Alone(t) /\ pc'[t] = place BY <2>1, <2>2, <1>0, GotoAlone, Zenon
  <2>4. pc'[t] # "add" /\ pc'[t] \notin Evicting BY <2>3, Zenon DEF Evicting
  <2> QED BY <2>1, <2>3, <2>4, AddKeeps, Zenon
<1>4. CASE LruAcquire(t)
  <2>1. pc[t] = "lru" /\ UNCHANGED <<pool, lru_list, lru_clock, reg>>
    BY <1>4, Zenon DEF LruAcquire, At
  <2>2. CASE lru_list = <<>>
    BY <1>4, <2>1, <2>2, QuietStep, SameLocks, Zenon DEF LruAcquire, Evicting
  <2>3. CASE lru_list # <<>>
    <3>1. /\ holder["lru_list_lock"] = NULL /\ Goto(t, "scan")
          /\ holder' = [holder EXCEPT !["lru_list_lock"] = t]
      BY <1>4, <2>3, Zenon DEF LruAcquire, Acquired
    <3>2. DOMAIN holder' = Locks /\ holder'["lru_list_lock"] = t
      BY <3>1, Zenon DEF IInv, TypesInv, Locks
    <3>3. Alone(t) /\ pc'[t] = "scan" BY <2>1, <3>1, <3>2, GotoAlone, Zenon
    <3>4. lru_clock' \in Range(lru_list) \cup {NULL, TAIL}
      BY <2>1, Zenon DEF IInv, PlacesInv
    <3>5. Calm(t) BY <2>1, <2>3, <3>1, <3>2, <3>3, <3>4, Zenon DEF Calm
    <3> QED BY <3>3, <3>5, CalmStep, Zenon
  <2> QED BY <2>2, <2>3, Zenon
<1> QED BY <1>1, <1>2, <1>3, <1>4, Zenon

(* The scan of try_to_free_pages. *)
LEMMA ScanKeeps ==
  ASSUME VmAssumption, IInv, NEW t \in Proc, ScanNone(t) \/ ScanSkip(t) \/ ScanTake(t)
  PROVE  IInv'
<1>0. /\ pc[t] = "scan" /\ "scan" \in Evicting /\ ClockDefined
  BY Zenon DEF ScanNone, ScanSkip, ScanTake, At, Evicting
<1>1. CASE ScanNone(t)
  <2>1. /\ Goto(t, "get") /\ UNCHANGED <<pool, lru_list, lru_clock, reg>>
        /\ holder' = [holder EXCEPT !["lru_list_lock"] = NULL]
    BY <1>1, Zenon DEF ScanNone, Released
  <2>2. DOMAIN holder' = Locks BY <2>1, Zenon DEF IInv, TypesInv
  <2>3. Alone(t) /\ pc'[t] = "get" BY <2>1, <2>2, GotoAlone, Zenon
  <2>4. lru_clock' \in Range(lru_list) \cup {NULL, TAIL}
    BY <2>1, Zenon DEF IInv, PlacesInv
  <2>5. "get" \notin Evicting BY Zenon DEF Evicting
  <2>6. Calm(t) BY <2>1, <2>3, <2>4, <2>5, <1>0, Zenon DEF Calm
  <2> QED BY <2>3, <2>6, CalmStep, Zenon
<1>2. CASE ScanSkip(t)
  <2>1. /\ UNCHANGED <<pool, lru_list, reg, pc, holder>>
        /\ get_next_lru_clock # NULL /\ lru_clock' = get_next_lru_clock
    BY <1>2, Zenon DEF ScanSkip
  <2>2. lru_clock' \in Range(lru_list) BY <2>1, <1>0, ClockLemma, Zenon
  <2>3. Alone(t) BY <2>1, Zenon DEF IInv, TypesInv, Alone
  <2>4. Calm(t) BY <2>1, <2>2, <1>0, Zenon DEF Calm
  <2> QED BY <2>3, <2>4, CalmStep, Zenon
<1>3. CASE ScanTake(t)
  <2>0. PICK f : f = get_next_lru_clock OBVIOUS
  <2>1. /\ UNCHANGED <<pool, lru_list, holder>> /\ f # NULL /\ lru_clock' = f
        /\ reg' = [reg EXCEPT ![t].victim = f]
    BY <1>3, <2>0, Zenon DEF ScanTake
  <2>2. f \in Range(lru_list) BY <2>0, <2>1, <1>0, ClockLemma, Zenon
  <2>3. PICK place \in {"fs", "swapout", "unload"} : Goto(t, place)
    BY <1>3, Zenon DEF ScanTake
  <2>4. PICK r : r = [reg[t] EXCEPT !.victim = f] OBVIOUS
  <2>5. DOMAIN r = Fields /\ r.back \in ReturnPlace /\ r.victim = f
    BY <2>4, Zenon DEF IInv, TypesInv, Fields
  <2>6. reg' = [reg EXCEPT ![t] = r] BY <2>1, <2>4, Zenon
  <2>7. DOMAIN holder' = Locks BY <2>1, Zenon DEF IInv, TypesInv
  <2>8. Alone(t) /\ pc'[t] = place /\ reg'[t] = r
    BY <2>3, <2>5, <2>6, <2>7, SetAlone, Zenon
  <2>9. pc'[t] # "add" /\ reg'[t].victim \in Range(lru_list)
    BY <2>2, <2>3, <2>5, <2>8, Zenon
  <2>10. Calm(t) BY <2>1, <2>2, <2>9, <1>0, Zenon DEF Calm
  <2> QED BY <2>8, <2>10, CalmStep, Zenon
<1> QED BY <1>1, <1>2, <1>3, Zenon

(* The rest of try_to_free_pages. *)
LEMMA EvictKeeps ==
  ASSUME VmAssumption, IInv, NEW t \in Proc,
         \/ EvictLockFile(t) \/ EvictWriteFile(t) \/ SwapOut(t) \/ SwapWrite(t)
         \/ Unload(t) \/ EvictFree(t)
  PROVE  IInv'
<1>0. \A place \in {"fs", "writeback", "swapout", "swapwrite", "unload", "clear"} :
        place \in Evicting \ {"scan"} /\ place # "add"
  BY Zenon DEF Evicting
<1>1. CASE EvictLockFile(t)
  BY <1>0, <1>1, QuietStep, OtherLocks, Zenon DEF EvictLockFile, At, Acquired
<1>2. CASE EvictWriteFile(t)
  BY <1>0, <1>2, QuietStep, OtherLocks, Zenon DEF EvictWriteFile, At, Released
<1>3. CASE SwapOut(t)
  <2>1. /\ pc[t] = "swapout" /\ UNCHANGED <<pool, lru_list, lru_clock>>
        /\ DOMAIN holder' = Locks /\ holder'["lru_list_lock"] = holder["lru_list_lock"]
    BY <1>3, OtherLocks, Zenon DEF SwapOut, At
  <2>2. CASE Slot \subseteq swap_map
    <3>1. Goto(t, "unload") /\ UNCHANGED reg BY <1>3, <2>2, Zenon DEF SwapOut
    <3> QED BY <2>1, <3>1, <1>0, QuietStep, Zenon
  <2>3. CASE ~(Slot \subseteq swap_map)
    <3>1. PICK x : Goto(t, "swapwrite") /\ reg' = [reg EXCEPT ![t].slot = x]
      BY <1>3, <2>3, Zenon DEF SwapOut
    <3>2. PICK r : r = [reg[t] EXCEPT !.slot = x] OBVIOUS
    <3>3. DOMAIN r = Fields /\ r.back \in ReturnPlace /\ r.victim = reg[t].victim
      BY <3>2, Zenon DEF IInv, TypesInv, Fields
    <3>4. reg' = [reg EXCEPT ![t] = r] BY <3>1, <3>2, Zenon
    <3>5. "swapwrite" # "add" /\ pc[t] \in Evicting \ {"scan"} /\ pc[t] # "add" BY <2>1, <1>0, Zenon
    <3> QED BY <2>1, <3>1, <3>3, <3>4, <3>5, QuietSet, Zenon
  <2> QED BY <2>2, <2>3, Zenon
<1>4. CASE SwapWrite(t)
  BY <1>0, <1>4, QuietStep, OtherLocks, Zenon DEF SwapWrite, At, Released
<1>5. CASE Unload(t)
  BY <1>0, <1>5, QuietStep, SameLocks, Zenon DEF Unload, At, kernVars
<1>6. CASE EvictFree(t)
  <2>1. /\ pc[t] = "clear" /\ Goto(t, "get") /\ __free_page(reg[t].victim)
        /\ holder' = [holder EXCEPT !["lru_list_lock"] = NULL]
        /\ reg' = [reg EXCEPT ![t].victim = NULL, ![t].slot = 0]
    BY <1>6, Zenon DEF EvictFree, At, Released
  <2>2. PICK r : r = [reg[t] EXCEPT !.victim = NULL, !.slot = 0] OBVIOUS
  <2>3. DOMAIN r = Fields /\ r.back \in ReturnPlace
    BY <2>2, Zenon DEF IInv, TypesInv, Fields
  <2>4. reg' = [reg EXCEPT ![t] = r] BY <2>1, <2>2, Zenon
  <2>5. DOMAIN holder' = Locks BY <2>1, Zenon DEF IInv, TypesInv
  <2>6. Alone(t) /\ pc'[t] = "get" BY <2>1, <2>3, <2>4, <2>5, SetAlone, Zenon
  <2>7. pc'[t] # "add" /\ pc'[t] \notin Evicting BY <2>6, Zenon DEF Evicting
  <2>8. pc[t] # "add" /\ pc[t] \in Evicting /\ pc[t] # "scan" BY <2>1, Zenon DEF Evicting
  <2>9. PICK f : f = reg[t].victim OBVIOUS
  <2>10. f \in Range(lru_list) BY <2>8, <2>9, Zenon DEF IInv, EvictInv
  <2>11. __free_page(f) BY <2>1, <2>9, Zenon
  <2> QED BY <2>6, <2>7, <2>8, <2>10, <2>11, FreeKeeps, Zenon
<1> QED BY <1>1, <1>2, <1>3, <1>4, <1>5, <1>6, Zenon

(* free_page, with or without a page to free. *)
LEMMA FreePageKeeps ==
  ASSUME VmAssumption, IInv, NEW t \in Proc, NEW f, free_page(f),
         NEW place, Goto(t, place), UNCHANGED <<reg, holder>>,
         pc[t] # "add", place # "add", place \notin Evicting
  PROVE  IInv'
<1>1. DOMAIN holder' = Locks /\ holder'["lru_list_lock"] = holder["lru_list_lock"]
  BY SameLocks, Zenon
<1>2. holder["lru_list_lock"] = NULL BY Zenon DEF free_page
<1>3. Alone(t) /\ pc'[t] = place BY <1>1, GotoAlone, Zenon
<1>4. CASE f \in Range(lru_list)
  <2>1. __free_page(f) BY <1>4, Zenon DEF free_page
  <2> QED BY <2>1, <1>2, <1>3, <1>4, FreeKeeps, Zenon
<1>5. CASE f \notin Range(lru_list)
  <2>1. UNCHANGED <<pool, lru_list, lru_clock>> BY <1>5, Zenon DEF free_page
  <2> QED BY <2>1, <1>1, QuietStep, Zenon
<1> QED BY <1>4, <1>5, Zenon

(* handle_mm_fault. *)
LEMMA LoadKeeps ==
  ASSUME VmAssumption, IInv, NEW t \in Proc,
         \/ SetVme(t) \/ Pin(t) \/ LoadFile(t) \/ SwapIn(t) \/ SwapRead(t)
         \/ Install(t) \/ InstallFail(t)
  PROVE  IInv'
<1>0. \A place \in {"pin", "exit", "load", "swapread", "install", "unpin"} :
        place \notin Evicting /\ place # "add"
  BY Zenon DEF Evicting
<1>1. CASE SetVme(t)
  <2>1. PICK x : reg' = [reg EXCEPT ![t].type = x] BY <1>1, Zenon DEF SetVme
  <2>2. PICK r : r = [reg[t] EXCEPT !.type = x] OBVIOUS
  <2>3. DOMAIN r = Fields /\ r.back \in ReturnPlace
    BY <2>2, Zenon DEF IInv, TypesInv, Fields
  <2>4. reg' = [reg EXCEPT ![t] = r] BY <2>1, <2>2, Zenon
  <2>5. /\ Goto(t, "pin") /\ UNCHANGED <<pool, lru_list, lru_clock>> /\ pc[t] # "add"
        /\ DOMAIN holder' = Locks /\ holder'["lru_list_lock"] = holder["lru_list_lock"]
    BY <1>1, SameLocks, Zenon DEF SetVme, At
  <2>6. "pin" # "add" /\ "pin" \notin Evicting BY <1>0, Zenon
  <2> QED BY <2>3, <2>4, <2>5, <2>6, QuietSet, Zenon
<1>2. CASE Pin(t)
  <2>1. PICK place \in {"exit", "load"} : Goto(t, place) BY <1>2, Zenon DEF Pin
  <2> QED BY <1>0, <1>2, <2>1, QuietStep, SameLocks, Zenon DEF Pin, At, kernVars
<1>3. CASE LoadFile(t)
  <2>1. pc[t] # "add" /\ UNCHANGED <<reg, holder>> BY <1>3, Zenon DEF LoadFile, At
  <2>2. CASE reg[t].v \notin Short
    <3>1. Goto(t, "install") /\ UNCHANGED <<pool, lru_list, lru_clock>>
      BY <1>3, <2>2, Zenon DEF LoadFile
    <3> QED BY <1>0, <2>1, <3>1, QuietStep, SameLocks, Zenon
  <2>3. CASE reg[t].v \in Short /\ reg[t].type = VM_FILE
    <3>1. Goto(t, "exit") /\ free_page(reg[t].f)
      BY <1>3, <2>3, Zenon DEF LoadFile
    <3>2. PICK f : f = reg[t].f OBVIOUS
    <3>3. free_page(f) BY <3>1, <3>2, Zenon
    <3> QED BY <1>0, <2>1, <3>1, <3>3, FreePageKeeps, Zenon
  <2>4. CASE reg[t].v \in Short /\ reg[t].type # VM_FILE
    <3>1. Goto(t, "exit") /\ UNCHANGED <<pool, lru_list, lru_clock>>
      BY <1>3, <2>4, Zenon DEF LoadFile
    <3> QED BY <1>0, <2>1, <3>1, QuietStep, SameLocks, Zenon
  <2> QED BY <2>2, <2>3, <2>4, Zenon
<1>4. CASE SwapIn(t)
  <2>1. PICK place \in {"swapread", "install"} : Goto(t, place) BY <1>4, Zenon DEF SwapIn
  <2> QED BY <1>0, <1>4, <2>1, QuietStep, OtherLocks, Zenon DEF SwapIn, At
<1>5. CASE SwapRead(t)
  BY <1>0, <1>5, QuietStep, OtherLocks, Zenon DEF SwapRead, At, Released
<1>6. CASE Install(t)
  BY <1>0, <1>6, QuietStep, SameLocks, Zenon DEF Install, At, kernVars
<1>7. CASE InstallFail(t)
  <2>1. PICK f : f = reg[t].f OBVIOUS
  <2>2. free_page(f) /\ Goto(t, "exit") /\ UNCHANGED <<reg, holder>> /\ pc[t] # "add"
    BY <1>7, <2>1, Zenon DEF InstallFail
  <2> QED BY <1>0, <2>2, FreePageKeeps, Zenon
<1> QED BY <1>1, <1>2, <1>3, <1>4, <1>5, <1>6, <1>7, Zenon

(* The end of page_fault, and setup_stack. *)
LEMMA ReturnKeeps ==
  ASSUME VmAssumption, IInv, NEW t \in Proc, Unpin(t) \/ StackInstall(t) \/ StackVme(t)
  PROVE  IInv'
<1>0. \A place \in ReturnPlace \cup {"stackvme"} : place \notin Evicting /\ place # "add"
  BY Zenon DEF Evicting, ReturnPlace
<1>1. CASE Unpin(t)
  <2>1. PICK x : reg' = [reg EXCEPT ![t].v = x, ![t].f = NULL, ![t].type = NULL, ![t].back = "user"]
    BY <1>1, Zenon DEF Unpin
  <2>2. PICK r : r = [reg[t] EXCEPT !.v = x, !.f = NULL, !.type = NULL, !.back = "user"] OBVIOUS
  <2>3. DOMAIN r = Fields /\ r.back \in ReturnPlace
    BY <2>2, Zenon DEF IInv, TypesInv, Fields, ReturnPlace
  <2>4. reg' = [reg EXCEPT ![t] = r] BY <2>1, <2>2, Zenon
  <2>5. PICK place : place = reg[t].back OBVIOUS
  <2>6. place \in ReturnPlace BY <2>5, Zenon DEF IInv, TypesInv
  <2>7. /\ Goto(t, place) /\ UNCHANGED <<pool, lru_list, lru_clock>> /\ pc[t] # "add"
        /\ DOMAIN holder' = Locks /\ holder'["lru_list_lock"] = holder["lru_list_lock"]
    BY <1>1, <2>5, SameLocks, Zenon DEF Unpin, At, kernVars
  <2> QED BY <1>0, <2>3, <2>4, <2>6, <2>7, QuietSet, Zenon
<1>2. CASE StackInstall(t)
  BY <1>0, <1>2, QuietStep, SameLocks, Zenon DEF StackInstall, At, kernVars
<1>3. CASE StackVme(t)
  <2>1. PICK r : r = [reg[t] EXCEPT !.v = NULL, !.f = NULL, !.back = "user"] OBVIOUS
  <2>2. DOMAIN r = Fields /\ r.back \in ReturnPlace
    BY <2>1, Zenon DEF IInv, TypesInv, Fields, ReturnPlace
  <2>3. reg' = [reg EXCEPT ![t] = r] BY <1>3, <2>1, Zenon DEF StackVme
  <2>4. /\ Goto(t, "user") /\ UNCHANGED <<pool, lru_list, lru_clock>> /\ pc[t] # "add"
        /\ DOMAIN holder' = Locks /\ holder'["lru_list_lock"] = holder["lru_list_lock"]
    BY <1>3, SameLocks, Zenon DEF StackVme, At
  <2>5. "user" # "add" /\ "user" \notin Evicting BY Zenon DEF Evicting
  <2> QED BY <2>2, <2>3, <2>4, <2>5, QuietSet, Zenon
<1> QED BY <1>1, <1>2, <1>3, Zenon

(* process_exit. *)
LEMMA ExitKeeps ==
  ASSUME VmAssumption, IInv, NEW t \in Proc,
         \/ Exit(t) \/ ExitLook(t) \/ ExitLockFile(t) \/ ExitWrite(t)
         \/ ExitClear(t) \/ ExitFree(t) \/ ExitVme(t) \/ ExitDone(t)
  PROVE  IInv'
<1>0. \A place \in ExitPlaces : place \notin Evicting /\ place # "add"
  BY Zenon DEF Evicting, ExitPlaces
<1>1. CASE Exit(t) \/ ExitVme(t)
  <2>1. PICK x : reg' = [reg EXCEPT ![t].todo = x] BY <1>1, Zenon DEF Exit, ExitVme
  <2>2. PICK r : r = [reg[t] EXCEPT !.todo = x] OBVIOUS
  <2>3. DOMAIN r = Fields /\ r.back \in ReturnPlace
    BY <2>2, Zenon DEF IInv, TypesInv, Fields
  <2>4. reg' = [reg EXCEPT ![t] = r] BY <2>1, <2>2, Zenon
  <2>5. /\ Goto(t, "xnext") /\ UNCHANGED <<pool, lru_list, lru_clock>> /\ pc[t] # "add"
        /\ DOMAIN holder' = Locks /\ holder'["lru_list_lock"] = holder["lru_list_lock"]
    BY <1>1, SameLocks, Zenon DEF Exit, ExitVme, At, kernVars
  <2>6. "xnext" # "add" /\ "xnext" \notin Evicting BY Zenon DEF Evicting
  <2> QED BY <2>3, <2>4, <2>5, <2>6, QuietSet, Zenon
<1>2. CASE ExitLook(t)
  <2>1. PICK v, kaddr, place : /\ reg' = [reg EXCEPT ![t].v = v, ![t].kaddr = kaddr]
                               /\ place \in {"xfs", "xclear", "xfree", "xvme"} /\ Goto(t, place)
    BY <1>2, Zenon DEF ExitLook
  <2>2. PICK r : r = [reg[t] EXCEPT !.v = v, !.kaddr = kaddr] OBVIOUS
  <2>3. DOMAIN r = Fields /\ r.back \in ReturnPlace
    BY <2>2, Zenon DEF IInv, TypesInv, Fields
  <2>4. reg' = [reg EXCEPT ![t] = r] BY <2>1, <2>2, Zenon
  <2>5. /\ UNCHANGED <<pool, lru_list, lru_clock>> /\ pc[t] # "add"
        /\ DOMAIN holder' = Locks /\ holder'["lru_list_lock"] = holder["lru_list_lock"]
    BY <1>2, SameLocks, Zenon DEF ExitLook, At, kernVars
  <2>6. place # "add" /\ place \notin Evicting BY <2>1, Zenon DEF Evicting
  <2> QED BY <2>1, <2>3, <2>4, <2>5, <2>6, QuietSet, Zenon
<1>3. CASE ExitLockFile(t)
  BY <1>0, <1>3, QuietStep, OtherLocks, Zenon DEF ExitLockFile, At, Acquired, ExitPlaces
<1>4. CASE ExitWrite(t)
  BY <1>0, <1>4, QuietStep, OtherLocks, Zenon DEF ExitWrite, At, Released, ExitPlaces
<1>5. CASE ExitClear(t)
  BY <1>0, <1>5, QuietStep, SameLocks, Zenon DEF ExitClear, At, kernVars, ExitPlaces
<1>6. CASE ExitFree(t)
  <2>1. PICK f : f = reg[t].kaddr OBVIOUS
  <2>2. free_page(f) /\ Goto(t, "xvme") /\ UNCHANGED <<reg, holder>> /\ pc[t] # "add"
    BY <1>6, <2>1, Zenon DEF ExitFree, At
  <2> QED BY <1>0, <2>2, FreePageKeeps, Zenon DEF ExitPlaces
<1>7. CASE ExitDone(t)
  BY <1>0, <1>7, QuietStep, SameLocks, Zenon DEF ExitDone, At, kernVars, ExitPlaces
<1> QED BY <1>1, <1>2, <1>3, <1>4, <1>5, <1>6, <1>7, Zenon

(* Steps that leave all of this alone: accesses of user code, and what     *)
(* stops the machine.                                                      *)
LEMMA StutterKeeps ==
  ASSUME IInv, UNCHANGED <<pool, lru_list, lru_clock, holder, pc, reg>>
  PROVE  IInv'
<1>1. TypesInv' BY Zenon DEF IInv, TypesInv
<1>2. Adding' = Adding BY Zenon DEF Adding
<1>3. PlacesInv' BY <1>2, Zenon DEF IInv, PlacesInv
<1>4. EvictInv' BY Zenon DEF IInv, EvictInv
<1>5. CountInv' BY <1>2, Zenon DEF IInv, CountInv
<1> QED BY <1>1, <1>3, <1>4, <1>5, Zenon DEF IInv

(* Every step keeps the invariant. *)
LEMMA NextKeeps ==
  ASSUME VmAssumption, IInv, [Next]_vars
  PROVE  IInv'
<1>1. CASE UNCHANGED vars
  BY <1>1, StutterKeeps, Zenon DEF vars, kernVars
<1>2. ASSUME NEW t \in Proc, Kernel(t) PROVE IInv'
  <2>1. CASE RwFault(t) \/ ExitFault(t)
    <3>1. PICK v, back : back \in ReturnPlace /\ Fault(t, v, back) /\ pc[t] # "add"
      BY <2>1, Zenon DEF RwFault, ExitFault, At, ReturnPlace
    <3> QED BY <3>1, FaultKeeps, Zenon
  <2> QED BY <1>2, <2>1, RwKeeps, AllocKeeps, ScanKeeps, EvictKeeps, LoadKeeps, ReturnKeeps,
             ExitKeeps, Zenon DEF Kernel
<1>3. ASSUME NEW t \in Proc, Panic(t) PROVE IInv'
  <2>1. UNCHANGED <<pool, lru_list, lru_clock, holder, pc, reg>>
    BY <1>3, Zenon DEF Panic, LockPanic, ClockPanic, ScanWild, EvictWild, LoadWild, Halt, kernVars
  <2> QED BY <2>1, StutterKeeps, Zenon
<1>4. ASSUME NEW t \in Proc, User(t) PROVE IInv'
  <2>1. CASE \E v \in VPage, write \in BOOLEAN : Access(t, v, write)
    <3>1. UNCHANGED <<pool, lru_list, lru_clock, holder, pc, reg>>
      BY <2>1, Zenon DEF Access, Touch, kernVars
    <3> QED BY <3>1, StutterKeeps, Zenon
  <2>2. CASE \E v \in VPage : PageFault(t, v)
    <3>1. PICK v, back : back \in ReturnPlace /\ Fault(t, v, back) /\ pc[t] # "add"
      BY <2>2, Zenon DEF PageFault, At, ReturnPlace
    <3> QED BY <3>1, FaultKeeps, Zenon
  <2>3. CASE \E v \in VPage : RwCall(t, v)
    BY <2>3, RwKeeps, Zenon
  <2> QED BY <1>4, <2>1, <2>2, <2>3, ExitKeeps, Zenon DEF User
<1> QED BY <1>1, <1>2, <1>3, <1>4, Zenon DEF Next

(* All frames are in the pool at first. *)
LEMMA InitKeeps ==
  ASSUME VmAssumption, Init
  PROVE  IInv
<1>1. Adding = {} BY Zenon DEF Init, Adding
<1>2. lru_list \in Seq(Frame) /\ Len(lru_list) = 0 /\ DOMAIN lru_list = {}
  <2>1. lru_list = <<>> BY Zenon DEF Init
  <2> QED BY <2>1
<1>3. Range(lru_list) = {} BY <1>2, Zenon DEF Range
<1>4. TypesInv
  <2>1. \A t \in Proc : DOMAIN reg[t] = Fields /\ reg[t].back \in ReturnPlace
    <3>1. DOMAIN NoReg = Fields /\ NoReg.back = "start" BY DEF NoReg, Fields
    <3>2. \A t \in Proc : reg[t] = [NoReg EXCEPT !.v = Stack(t)] BY Zenon DEF Init
    <3>3. \A t \in Proc : DOMAIN reg[t] = Fields /\ reg[t].back = "start"
      BY <3>1, <3>2, Zenon DEF Fields
    <3> QED BY <3>3, Zenon DEF ReturnPlace
  <2> QED BY <2>1, <1>2, Zenon DEF TypesInv, Init
<1>5. PlacesInv
  BY <1>1, <1>2, <1>3, Zenon DEF PlacesInv, Init
<1>6. EvictInv
  BY Zenon DEF EvictInv, Evicting, Init
<1>7. CountInv
  <2>1. Cardinality(Frame) \in Nat BY FS_CardinalityType, Zenon DEF VmAssumption
  <2>2. IsFiniteSet(Adding) /\ Cardinality(Adding) = 0 BY <1>1, FS_EmptySet, Zenon
  <2>3. pool = Frame BY Zenon DEF Init
  <2>4. Cardinality(pool) + Len(lru_list) + Cardinality(Adding) = Cardinality(Frame)
    BY <2>1, <2>2, <2>3, <1>2
  <2> QED BY <2>2, <2>4, Zenon DEF CountInv
<1> QED BY <1>4, <1>5, <1>6, <1>7, Zenon DEF IInv

(* The places of frames, the lock of an eviction and the count of frames   *)
(* hold in every reachable state.  (alloc_page, try_to_free_pages,         *)
(* __free_page, process_exit)                                              *)
THEOREM FramesInvariant ==
  ASSUME VmAssumption
  PROVE  Spec => []IInv
<1>1. Init => IInv BY InitKeeps, Zenon
<1>2. IInv /\ [Next]_vars => IInv' BY NextKeeps, Zenon
<1> QED BY <1>1, <1>2, PTL DEF Spec

(* No frame is lost and none has two owners, for any number of processes,  *)
(* pages, frames and swap slots: every frame is in the user pool, or on    *)
(* lru_list once, or with one thread that is about to add it.              *)
(* (alloc_page, __free_page)                                               *)
THEOREM FramesNeverLost ==
  ASSUME VmAssumption
  PROVE  Spec => []FramesAccounted
<1>1. ASSUME IInv PROVE FramesAccounted
  <2>1. Frame = pool \cup Range(lru_list) \cup {reg[t].f : t \in Adding}
    <3>1. lru_list \in Seq(Frame) /\ pool \subseteq Frame BY <1>1, Zenon DEF IInv, TypesInv
    <3>2. Range(lru_list) \subseteq Frame
      <4>1. \A i \in DOMAIN lru_list : lru_list[i] \in Frame BY <3>1, RangeLemma, ZenonT(40)
      <4> QED BY <4>1, Zenon DEF Range
    <3>3. \A t \in Adding : reg[t].f \in Frame BY <1>1, Zenon DEF IInv, PlacesInv
    <3>4. ASSUME NEW f \in Frame, f \notin pool, f \notin Range(lru_list)
          PROVE  \E t \in Adding : f = reg[t].f
      BY <3>4, <1>1, Zenon DEF IInv, PlacesInv
    <3> QED BY <3>1, <3>2, <3>3, <3>4, Zenon
  <2> QED BY <2>1, <1>1, Zenon DEF IInv, CountInv, FramesAccounted, Adding
<1>2. IInv => FramesAccounted BY <1>1, Zenon
<1> QED BY <1>2, FramesInvariant, PTL
=============================================================================
