------------------------------ MODULE PallocProofs ------------------------------
(***************************************************************************)
(* The page allocator gives no page to two threads, for any number of      *)
(* threads and pages.  The argument: a search sees bits that other threads *)
(* clear but, with the lock, none that others set; so what it has seen     *)
(* free stays free until it marks it.                                      *)
(***************************************************************************)
EXTENDS Palloc, TLAPS

(* What thread t has seen free in its search is still free, and is in the  *)
(* pool whose lock it has.                                                 *)
Search(t) ==
  /\ pc[t] \in {"acquire", "scan", "mark"} =>
       first[t] >= base(pool[t]) /\ k[t] <= cnt[t]
  /\ pc[t] = "acquire" => k[t] = 0
  /\ pc[t] \in {"scan", "mark"} => lock[pool[t]] = t
  /\ pc[t] = "scan" => (k[t] > 0 => Fits(t)) /\ \A n \in Group(first[t], k[t]) : ~used[n]
  /\ pc[t] = "mark" => Fits(t) /\ \A n \in Group(first[t] + k[t], cnt[t] - k[t]) : ~used[n]

(* What thread t is freeing is in the pools, and no longer among what it has. *)
Release(t) ==
  pc[t] = "clear" =>
    /\ k[t] <= cnt[t] /\ Group(first[t], cnt[t]) \subseteq Page
    /\ Group(first[t], cnt[t]) \cap has[t] = {}

IInv ==
  /\ TypeOK
  /\ \A t \in Thread : Search(t) /\ Release(t)
  /\ PagesExclusive /\ PagesExact

-----------------------------------------------------------------------------
(* palloc_init and init_pool cut the memory into two pools that do not     *)
(* overlap.                                                                *)
LEMMA Pools ==
  /\ \A p \in Pool : base(p) \in Nat /\ page_cnt(p) \in Nat /\ base(p) + page_cnt(p) <= FreePages
  /\ \A n \in Nat, p, q \in Pool : page_from_pool(p, n) /\ page_from_pool(q, n) => p = q
<1>1. user_pages \in Nat /\ user_pages <= FreePages
  BY PallocAssumption DEF user_pages
<1>2. kernel_pages \in Nat /\ kernel_pages <= FreePages /\ kernel_pages + user_pages = FreePages
  BY <1>1, PallocAssumption DEF kernel_pages
<1>3. \A p \in Pool : Given(p) \in 0..FreePages /\ MapPages(Given(p)) \in Nat /\ MapPages(Given(p)) <= Given(p)
  <2>1. \A p \in Pool : Given(p) \in 0..FreePages
    BY <1>1, <1>2, PallocAssumption DEF Given
  <2> QED BY <2>1, PallocAssumption, EnoughForBitmaps
<1>4. base("kernel") = MapPages(Given("kernel")) /\ page_cnt("kernel") = kernel_pages - MapPages(Given("kernel"))
  BY <1>3 DEF base, page_cnt, Pool, Given
<1>5. base("user") = kernel_pages + MapPages(Given("user")) /\ page_cnt("user") = user_pages - MapPages(Given("user"))
  BY DEF base, page_cnt, Pool, Given
<1>6. Given("kernel") = kernel_pages /\ Given("user") = user_pages
  BY DEF Given
<1>7. \A p \in Pool : base(p) \in Nat /\ page_cnt(p) \in Nat /\ base(p) + page_cnt(p) <= FreePages
  BY <1>1, <1>2, <1>3, <1>4, <1>5, <1>6, PallocAssumption DEF Pool
<1>8. base("kernel") + page_cnt("kernel") <= base("user")
  BY <1>1, <1>2, <1>3, <1>4, <1>5, <1>6 DEF Pool
<1> QED BY <1>7, <1>8, PallocAssumption DEF page_from_pool, Pool

(* A group that fits in a thread's pool is made of pages of that pool. *)
LEMMA FitPages ==
  ASSUME TypeOK, NEW t \in Thread, Fits(t), first[t] >= base(pool[t]),
         NEW n \in Group(first[t], cnt[t])
  PROVE  n \in Page /\ page_from_pool(pool[t], n)
<1>1. pool[t] \in Pool /\ first[t] \in Nat /\ cnt[t] \in Nat
  BY DEF TypeOK
<1>2. base(pool[t]) \in Nat /\ page_cnt(pool[t]) \in Nat /\ base(pool[t]) + page_cnt(pool[t]) <= FreePages
  BY <1>1, Pools
<1>3. n \in Nat /\ n >= base(pool[t]) /\ n < base(pool[t]) + page_cnt(pool[t])
  BY <1>1, <1>2 DEF Group, Fits
<1>4. n \in 0..FreePages
  BY <1>2, <1>3, PallocAssumption
<1> QED BY <1>1, <1>3, <1>4 DEF Page, page_from_pool

LEMMA InitInv == Init => IInv
<1> SUFFICES ASSUME Init PROVE IInv OBVIOUS
<1>1. TypeOK BY DEF Init, TypeOK, Pool
<1>2. \A t \in Thread : Search(t) /\ Release(t) BY DEF Init, Search, Release
<1>3. \A t \in Thread : Mine(t) = {} BY DEF Init, Mine
<1>4. PagesExclusive /\ PagesExact BY <1>3 DEF Init, PagesExclusive, PagesExact
<1> QED BY <1>1, <1>2, <1>4 DEF IInv

-----------------------------------------------------------------------------
(* Only Mark, Clear and the two calls' ends change what a thread answers   *)
(* for; the others leave Mine of every thread as it is.                    *)
LEMMA SameMine ==
  ASSUME \A t \in Thread : Mine(t)' = Mine(t), UNCHANGED used, PagesExclusive, PagesExact
  PROVE  PagesExclusive' /\ PagesExact'
<1>1. PagesExclusive'
  BY DEF PagesExclusive
<1>2. PagesExact'
  BY DEF PagesExact
<1> QED BY <1>1, <1>2

(* A thread that does not move keeps its part of the invariant if no bit   *)
(* is set behind its back and its lock stays with it.                      *)
LEMMA Still ==
  ASSUME NEW t \in Thread, Search(t), Release(t),
         pc'[t] = pc[t], pool'[t] = pool[t], cnt'[t] = cnt[t], first'[t] = first[t],
         k'[t] = k[t], has'[t] = has[t],
         pc[t] \in {"scan", "mark"} => lock'[pool[t]] = t,
         pc[t] = "scan" => \A n \in Group(first[t], k[t]) : ~used'[n],
         pc[t] = "mark" => \A n \in Group(first[t] + k[t], cnt[t] - k[t]) : ~used'[n]
  PROVE  Search(t)' /\ Release(t)'
<1>1. Fits(t)' = Fits(t) BY Zenon DEF Fits
<1>2. Search(t)' BY <1>1 DEF Search
<1>3. Release(t)' BY DEF Release
<1> QED BY <1>2, <1>3

(* What a search looks at is made of pages. *)
LEMMA SearchPages ==
  ASSUME TypeOK, NEW t \in Thread, Search(t)
  PROVE  /\ pc[t] = "scan" => \A n \in Group(first[t], k[t]) :
                                n \in Page /\ page_from_pool(pool[t], n)
         /\ pc[t] = "mark" => \A n \in Group(first[t], cnt[t]) :
                                n \in Page /\ page_from_pool(pool[t], n)
<1>1. first[t] \in Nat /\ cnt[t] \in Nat /\ k[t] \in Nat
  BY DEF TypeOK
<1>2. ASSUME pc[t] = "scan", NEW n \in Group(first[t], k[t])
      PROVE  n \in Page /\ page_from_pool(pool[t], n)
  <2>1. k[t] > 0 /\ k[t] <= cnt[t] /\ first[t] >= base(pool[t])
    BY <1>1, <1>2 DEF Group, Search
  <2>2. n \in Group(first[t], cnt[t])
    BY <1>1, <1>2, <2>1 DEF Group
  <2>3. Fits(t) BY <1>2, <2>1 DEF Search
  <2> QED BY <2>1, <2>2, <2>3, FitPages
<1>3. ASSUME pc[t] = "mark", NEW n \in Group(first[t], cnt[t])
      PROVE  n \in Page /\ page_from_pool(pool[t], n)
  BY <1>3, FitPages DEF Search
<1> QED BY <1>2, <1>3

(* The bits still to be marked are among those of the group. *)
LEMMA Rest ==
  ASSUME TypeOK, NEW t \in Thread, NEW n \in Group(first[t] + k[t], cnt[t] - k[t])
  PROVE  n \in Group(first[t], cnt[t])
BY DEF TypeOK, Group

(* A thread that does not move, when no bit is set at all. *)
LEMMA StillFree ==
  ASSUME TypeOK, NEW t \in Thread, Search(t), Release(t),
         pc'[t] = pc[t], pool'[t] = pool[t], cnt'[t] = cnt[t], first'[t] = first[t],
         k'[t] = k[t], has'[t] = has[t],
         pc[t] \in {"scan", "mark"} => lock'[pool[t]] = t,
         \A n \in Page : ~used[n] => ~used'[n]
  PROVE  Search(t)' /\ Release(t)'
<1>1. pc[t] = "scan" => \A n \in Group(first[t], k[t]) : ~used'[n]
  BY SearchPages, Zenon DEF Search
<1>2. pc[t] = "mark" => \A n \in Group(first[t] + k[t], cnt[t] - k[t]) : ~used'[n]
  BY SearchPages, Rest, Zenon DEF Search
<1> QED BY <1>1, <1>2, Still, Zenon

-----------------------------------------------------------------------------
(* Setting or clearing a bit keeps the map a map of bits. *)
LEMMA BitType ==
  ASSUME NEW f \in [Page -> BOOLEAN], NEW x, NEW v \in BOOLEAN
  PROVE  [f EXCEPT ![x] = v] \in [Page -> BOOLEAN]
BY Zenon

LEMMA TypeStep ==
  ASSUME TypeOK, \A t \in Thread : Search(t), [Next]_vars
  PROVE  TypeOK'
<1>1. CASE UNCHANGED vars BY <1>1 DEF TypeOK, vars
<1>2. ASSUME NEW t \in Thread, Step(t) PROVE TypeOK'
  <2>1. ASSUME NEW p \in Pool, NEW n \in 1..MaxCnt, palloc_get_multiple(t, p, n) PROVE TypeOK'
    <3>1. base(p) \in Nat /\ n \in Nat BY Pools, PallocAssumption
    <3> QED BY <2>1, <3>1 DEF TypeOK, palloc_get_multiple
  <2>2. CASE Acquire(t) BY <2>2 DEF TypeOK, Acquire
  <2>3. CASE ScanBit(t) BY <2>3 DEF TypeOK, ScanBit
  <2>4. CASE Found(t) BY <2>4 DEF TypeOK, Found
  <2>5. CASE NotFound(t) BY <2>5 DEF TypeOK, NotFound, Over, Pool
  <2>6. CASE Mark(t)
    <3>1. used' \in [Page -> BOOLEAN] BY <2>6, BitType DEF TypeOK, Mark
    <3> QED BY <2>6, <3>1 DEF TypeOK, Mark
  <2>7. CASE Return(t)
    <3>1. Group(first[t], cnt[t]) \subseteq Page BY <2>7, SearchPages DEF Return
    <3> QED BY <2>7, <3>1 DEF TypeOK, Return, Over, Pool
  <2>8. ASSUME NEW page \in Page, NEW n \in 1..MaxCnt, palloc_free_multiple(t, page, n) PROVE TypeOK'
    <3>1. page \in Nat /\ n \in Nat BY PallocAssumption DEF Page
    <3> QED BY <2>8, <3>1 DEF TypeOK, palloc_free_multiple
  <2>9. CASE Clear(t)
    <3>1. used' \in [Page -> BOOLEAN] BY <2>9, BitType DEF TypeOK, Clear
    <3> QED BY <2>9, <3>1 DEF TypeOK, Clear
  <2>10. CASE Freed(t) BY <2>10 DEF TypeOK, Freed, Over, Pool
  <2> QED BY <1>2, <2>1, <2>2, <2>3, <2>4, <2>5, <2>6, <2>7, <2>8, <2>9, <2>10 DEF Step
<1> QED BY <1>1, <1>2 DEF Next

-----------------------------------------------------------------------------
(* A step of t leaves the locals and the pages of the others alone. *)
LEMMA Locals ==
  ASSUME TypeOK, NEW t \in Thread, NEW u \in Thread, t # u, Step(t)
  PROVE  /\ pc'[u] = pc[u] /\ pool'[u] = pool[u] /\ cnt'[u] = cnt[u]
         /\ first'[u] = first[u] /\ k'[u] = k[u] /\ has'[u] = has[u]
BY Zenon DEF Step, palloc_get_multiple, Acquire, ScanBit, Found, NotFound, Mark, Return, Over,
         palloc_free_multiple, Clear, Freed, TypeOK

(* A step of t takes no lock from a thread that searches. *)
LEMMA Locks ==
  ASSUME IInv, NEW t \in Thread, NEW u \in Thread, t # u, Step(t), pc[u] \in {"scan", "mark"}
  PROVE  lock'[pool[u]] = u
<1>1. lock[pool[u]] = u /\ pool[u] \in Pool /\ u # NONE /\ TypeOK
  BY PallocAssumption DEF IInv, Search, TypeOK
<1>2. CASE Acquire(t) BY <1>1, <1>2 DEF Acquire, TypeOK
<1>3. CASE NotFound(t)
  <2>1. lock[pool[t]] = t BY <1>3 DEF NotFound, IInv, Search
  <2> QED BY <1>1, <1>3, <2>1 DEF NotFound, TypeOK
<1>4. CASE Return(t)
  <2>1. lock[pool[t]] = t BY <1>4 DEF Return, IInv, Search
  <2> QED BY <1>1, <1>4, <2>1 DEF Return, TypeOK
<1>5. CASE lock' = lock BY <1>1, <1>5
<1> QED BY <1>2, <1>3, <1>4, <1>5, Zenon
         DEF Step, palloc_get_multiple, ScanBit, Found, Mark, palloc_free_multiple, Clear, Freed

(* A step of t leaves the searches of the others as they are: the bits it  *)
(* sets are in the pool whose lock it has.                                 *)
LEMMA OthersKeep ==
  ASSUME IInv, NEW t \in Thread, NEW u \in Thread, t # u, Step(t)
  PROVE  Search(u)' /\ Release(u)'
<1>1. TypeOK /\ Search(u) /\ Release(u) /\ Search(t) BY DEF IInv
<1>2. /\ pc'[u] = pc[u] /\ pool'[u] = pool[u] /\ cnt'[u] = cnt[u]
      /\ first'[u] = first[u] /\ k'[u] = k[u] /\ has'[u] = has[u]
  BY <1>1, Locals
<1>3. pc[u] \in {"scan", "mark"} => lock'[pool[u]] = u
  BY Locks
<1>4. CASE Mark(t)
  <2> DEFINE x == first[t] + k[t]
  <2>1. x \in Group(first[t], cnt[t])
    BY <1>1, <1>4 DEF Mark, TypeOK, Group
  <2>2. page_from_pool(pool[t], x) /\ x \in Nat
    BY <1>1, <1>4, <2>1, SearchPages DEF Mark, TypeOK
  <2>3. pool[t] \in Pool /\ pool[u] \in Pool BY <1>1 DEF TypeOK
  <2>4. lock[pool[t]] = t BY <1>1, <1>4 DEF Mark, Search
  <2>5. pc[u] \in {"scan", "mark"} => pool[u] # pool[t]
    BY <1>1, <2>4 DEF Search
  <2>6. pc[u] \in {"scan", "mark"} => ~page_from_pool(pool[u], x)
    BY <2>2, <2>3, <2>5, Pools
  <2>7. \A n \in Page : n # x => used'[n] = used[n]
    BY <1>1, <1>4 DEF Mark, TypeOK
  <2>8. pc[u] = "scan" => \A n \in Group(first[u], k[u]) : ~used'[n]
    BY <1>1, <2>6, <2>7, SearchPages, Zenon DEF Search
  <2>9. pc[u] = "mark" => \A n \in Group(first[u] + k[u], cnt[u] - k[u]) : ~used'[n]
    BY <1>1, <2>6, <2>7, SearchPages, Rest, Zenon DEF Search
  <2> QED BY <1>1, <1>2, <1>3, <2>8, <2>9, Still, Zenon
<1>5. CASE \A n \in Page : ~used[n] => ~used'[n]
  BY <1>1, <1>2, <1>3, <1>5, StillFree, Zenon
<1>6. CASE Clear(t)
  BY <1>1, <1>5, <1>6 DEF Clear, TypeOK
<1>7. CASE used' = used BY <1>5, <1>7
<1> QED BY <1>4, <1>6, <1>7, Zenon
         DEF Step, palloc_get_multiple, Acquire, ScanBit, Found, NotFound, Return,
             palloc_free_multiple, Freed

(* The thread that moves keeps its own part of the invariant. *)
LEMMA MoverKeeps ==
  ASSUME IInv, NEW t \in Thread, Step(t)
  PROVE  Search(t)' /\ Release(t)'
<1>1. TypeOK /\ Search(t) /\ Release(t) BY DEF IInv
<1>2. /\ first[t] \in Nat /\ cnt[t] \in Nat /\ k[t] \in Nat /\ pool[t] \in Pool
      /\ base(pool[t]) \in Nat /\ page_cnt(pool[t]) \in Nat
  BY <1>1, Pools DEF TypeOK
<1>3. ASSUME NEW p \in Pool, NEW n \in 1..MaxCnt, palloc_get_multiple(t, p, n)
      PROVE  Search(t)' /\ Release(t)'
  <2>1. pc'[t] = "acquire" /\ pool'[t] = p /\ cnt'[t] = n /\ first'[t] = base(p) /\ k'[t] = 0
    BY <1>1, <1>3 DEF palloc_get_multiple, TypeOK
  <2>2. base(p) \in Nat /\ n \in Nat BY Pools, PallocAssumption
  <2> QED BY <2>1, <2>2 DEF Search, Release
<1>4. CASE Acquire(t)
  <2>1. /\ pc'[t] = "scan" /\ pool'[t] = pool[t] /\ cnt'[t] = cnt[t] /\ first'[t] = first[t]
        /\ k'[t] = 0 /\ k[t] = 0 /\ lock'[pool[t]] = t
    BY <1>1, <1>2, <1>4 DEF Acquire, TypeOK, Search
  <2>2. Group(first[t], 0) = {} BY <1>2 DEF Group
  <2> QED BY <1>1, <1>2, <1>4, <2>1, <2>2 DEF Search, Release, Acquire
<1>5. CASE ScanBit(t)
  <2>1. /\ pc'[t] = "scan" /\ pool'[t] = pool[t] /\ cnt'[t] = cnt[t] /\ used' = used
        /\ lock'[pool[t]] = t
    BY <1>1, <1>2, <1>5 DEF ScanBit, TypeOK, Search
  <2>2. CASE used[first[t] + k[t]]
    <3>1. first'[t] = first[t] + 1 /\ k'[t] = 0
      BY <1>1, <1>5, <2>2 DEF ScanBit, TypeOK
    <3>2. Group(first[t] + 1, 0) = {} BY <1>2 DEF Group
    <3>3. first[t] >= base(pool[t]) BY <1>1, <1>5 DEF ScanBit, Search
    <3> QED BY <1>2, <2>1, <3>1, <3>2, <3>3 DEF Search, Release
  <2>3. CASE ~used[first[t] + k[t]]
    <3>1. first'[t] = first[t] /\ k'[t] = k[t] + 1
      BY <1>1, <1>5, <2>3 DEF ScanBit, TypeOK
    <3>2. Group(first[t], k[t] + 1) = Group(first[t], k[t]) \cup {first[t] + k[t]}
      BY <1>2 DEF Group
    <3>3. \A n \in Group(first[t], k[t] + 1) : ~used[n]
      BY <1>1, <1>5, <2>3, <3>2 DEF ScanBit, Search
    <3>4. Fits(t)' BY <1>5, <2>1, <3>1 DEF ScanBit, Fits
    <3>5. first[t] >= base(pool[t]) /\ k[t] < cnt[t] BY <1>1, <1>5 DEF ScanBit, Search
    <3> QED BY <1>2, <2>1, <3>1, <3>3, <3>4, <3>5 DEF Search, Release
  <2> QED BY <2>2, <2>3
<1>6. CASE Found(t)
  <2>1. /\ pc'[t] = "mark" /\ pool'[t] = pool[t] /\ cnt'[t] = cnt[t] /\ first'[t] = first[t]
        /\ k'[t] = 0 /\ lock'[pool[t]] = t /\ used' = used /\ k[t] = cnt[t]
    BY <1>1, <1>2, <1>6 DEF Found, TypeOK, Search
  <2>2. Group(first[t] + 0, cnt[t] - 0) = Group(first[t], k[t]) BY <1>2, <2>1 DEF Group
  <2>3. Fits(t)' BY <1>6, <2>1 DEF Found, Fits
  <2> QED BY <1>1, <1>2, <1>6, <2>1, <2>2, <2>3 DEF Search, Release, Found
<1>7. CASE Mark(t)
  <2> DEFINE x == first[t] + k[t]
  <2>1. /\ pc'[t] = "mark" /\ pool'[t] = pool[t] /\ cnt'[t] = cnt[t] /\ first'[t] = first[t]
        /\ k'[t] = k[t] + 1 /\ lock'[pool[t]] = t /\ k[t] < cnt[t]
    BY <1>1, <1>2, <1>7 DEF Mark, TypeOK, Search
  <2>2. \A n \in Group(first[t] + (k[t] + 1), cnt[t] - (k[t] + 1)) :
          n # x /\ n \in Group(first[t] + k[t], cnt[t] - k[t])
    BY <1>2 DEF Group
  <2>3. \A n \in Page : n # x => used'[n] = used[n]
    BY <1>1, <1>7 DEF Mark, TypeOK
  <2>4. \A n \in Group(first[t] + (k[t] + 1), cnt[t] - (k[t] + 1)) : ~used'[n]
    BY <1>1, <1>7, <2>2, <2>3, SearchPages, Rest, Zenon DEF Search, Mark
  <2>5. Fits(t)' BY <1>1, <1>7, <2>1 DEF Mark, Fits, Search
  <2>6. first[t] >= base(pool[t]) BY <1>1, <1>7 DEF Mark, Search
  <2> QED BY <1>2, <2>1, <2>4, <2>5, <2>6 DEF Search, Release
<1>8. ASSUME NEW page \in Page, NEW n \in 1..MaxCnt, palloc_free_multiple(t, page, n)
      PROVE  Search(t)' /\ Release(t)'
  <2>1. /\ pc'[t] = "clear" /\ cnt'[t] = n /\ first'[t] = page /\ k'[t] = 0
        /\ has'[t] = has[t] \ Group(page, n) /\ Group(page, n) \subseteq has[t]
    BY <1>1, <1>8 DEF palloc_free_multiple, TypeOK
  <2>2. has[t] \subseteq Page /\ n \in Nat BY <1>1, PallocAssumption DEF TypeOK
  <2> QED BY <2>1, <2>2 DEF Search, Release
<1>9. CASE Clear(t)
  <2>1. /\ pc'[t] = "clear" /\ cnt'[t] = cnt[t] /\ first'[t] = first[t] /\ has'[t] = has[t]
        /\ k'[t] = k[t] + 1 /\ k[t] < cnt[t]
    BY <1>1, <1>9 DEF Clear, TypeOK
  <2> QED BY <1>1, <1>2, <1>9, <2>1 DEF Search, Release, Clear
<1>10. CASE Over(t)
  <2>1. pc'[t] = "idle" BY <1>1, <1>10 DEF Over, TypeOK
  <2> QED BY <2>1 DEF Search, Release
<1> QED BY <1>3, <1>4, <1>5, <1>6, <1>7, <1>8, <1>9, <1>10 DEF Step, NotFound, Return, Freed

-----------------------------------------------------------------------------
(* A step of t leaves what the others answer for as it is. *)
LEMMA OthersMine ==
  ASSUME TypeOK, NEW t \in Thread, NEW u \in Thread, t # u, Step(t)
  PROVE  Mine(u)' = Mine(u)
BY Locals, Zenon DEF Mine

(* If t alone takes a free page more, or gives up a page of its own, the   *)
(* pages stay exclusive and the bits exact.                                *)
LEMMA TakesPage ==
  ASSUME TypeOK, PagesExclusive, PagesExact, NEW t \in Thread, NEW x \in Page, ~used[x],
         \A u \in Thread \ {t} : Mine(u)' = Mine(u),
         Mine(t)' = Mine(t) \cup {x}, used' = [used EXCEPT ![x] = TRUE]
  PROVE  PagesExclusive' /\ PagesExact'
<1>1. \A u \in Thread : x \notin Mine(u) BY DEF PagesExact
<1>2. ASSUME NEW u \in Thread, NEW w \in Thread, u # w PROVE Mine(u)' \cap Mine(w)' = {}
  <2>1. Mine(u) \cap Mine(w) = {} BY <1>2 DEF PagesExclusive
  <2>2. CASE u = t BY <1>1, <1>2, <2>1, <2>2
  <2>3. CASE w = t BY <1>1, <1>2, <2>1, <2>3
  <2>4. CASE u # t /\ w # t BY <2>1, <2>4
  <2> QED BY <2>2, <2>3, <2>4
<1>3. used'[x] /\ \A n \in Page : n # x => used'[n] = used[n]
  BY DEF TypeOK
<1>4. ASSUME NEW n \in Page PROVE used'[n] <=> \E u \in Thread : n \in Mine(u)'
  <2>1. CASE n = x BY <1>3, <2>1
  <2>2. CASE n # x
    <3>1. \A u \in Thread : n \in Mine(u)' <=> n \in Mine(u) BY <2>2
    <3>2. used[n] <=> \E u \in Thread : n \in Mine(u) BY DEF PagesExact
    <3> QED BY <1>3, <2>2, <3>1, <3>2
  <2> QED BY <2>1, <2>2
<1>5. PagesExclusive' BY <1>2 DEF PagesExclusive
<1> QED BY <1>4, <1>5 DEF PagesExact

LEMMA GivesPage ==
  ASSUME TypeOK, PagesExclusive, PagesExact, NEW t \in Thread, NEW x \in Page, x \in Mine(t),
         \A u \in Thread \ {t} : Mine(u)' = Mine(u),
         Mine(t)' = Mine(t) \ {x}, used' = [used EXCEPT ![x] = FALSE]
  PROVE  PagesExclusive' /\ PagesExact'
<1>1. \A u \in Thread : u # t => x \notin Mine(u) BY DEF PagesExclusive
<1>2. ASSUME NEW u \in Thread, NEW w \in Thread, u # w PROVE Mine(u)' \cap Mine(w)' = {}
  <2>1. Mine(u) \cap Mine(w) = {} BY <1>2 DEF PagesExclusive
  <2>2. Mine(u)' \subseteq Mine(u) /\ Mine(w)' \subseteq Mine(w) OBVIOUS
  <2> QED BY <2>1, <2>2
<1>3. ~used'[x] /\ \A n \in Page : n # x => used'[n] = used[n]
  BY DEF TypeOK
<1>4. ASSUME NEW n \in Page PROVE used'[n] <=> \E u \in Thread : n \in Mine(u)'
  <2>1. CASE n = x
    <3>1. \A u \in Thread : x \notin Mine(u)' BY <1>1
    <3> QED BY <1>3, <2>1, <3>1
  <2>2. CASE n # x
    <3>1. \A u \in Thread : n \in Mine(u)' <=> n \in Mine(u) BY <2>2
    <3>2. used[n] <=> \E u \in Thread : n \in Mine(u) BY DEF PagesExact
    <3> QED BY <1>3, <2>2, <3>1, <3>2
  <2> QED BY <2>1, <2>2
<1>5. PagesExclusive' BY <1>2 DEF PagesExclusive
<1> QED BY <1>4, <1>5 DEF PagesExact

(* Every step keeps the pages exclusive and the bits exact. *)
LEMMA PagesStep ==
  ASSUME IInv, NEW t \in Thread, Step(t)
  PROVE  PagesExclusive' /\ PagesExact'
<1>1. TypeOK /\ Search(t) /\ Release(t) /\ PagesExclusive /\ PagesExact BY DEF IInv
<1>2. first[t] \in Nat /\ cnt[t] \in Nat /\ k[t] \in Nat BY <1>1 DEF TypeOK
<1>3. \A u \in Thread \ {t} : Mine(u)' = Mine(u) BY <1>1, OthersMine
<1>4. ASSUME Mine(t)' = Mine(t), used' = used PROVE PagesExclusive' /\ PagesExact'
  <2>1. \A u \in Thread : Mine(u)' = Mine(u) BY <1>3, <1>4
  <2> QED BY <1>1, <1>4, <2>1, SameMine
<1>5. CASE Mark(t)
  <2> DEFINE x == first[t] + k[t]
  <2>1. x \in Group(first[t], cnt[t]) /\ x \in Group(first[t] + k[t], cnt[t] - k[t])
    BY <1>2, <1>5 DEF Mark, Group
  <2>2. x \in Page /\ ~used[x]
    BY <1>1, <1>5, <2>1, SearchPages, Zenon DEF Mark, Search
  <2>3. /\ pc[t] = "mark" /\ pc'[t] = "mark" /\ has'[t] = has[t] /\ first'[t] = first[t]
        /\ k'[t] = k[t] + 1
    BY <1>1, <1>5 DEF Mark, TypeOK
  <2>4. Group(first[t], k[t] + 1) = Group(first[t], k[t]) \cup {x}
    <3>1. \A a, b \in Nat : a..a + (b + 1) - 1 = (a..a + b - 1) \cup {a + b} OBVIOUS
    <3> QED BY <1>2, <3>1 DEF Group
  <2>5. Mine(t)' = Mine(t) \cup {x} BY <2>3, <2>4 DEF Mine
  <2>6. used' = [used EXCEPT ![x] = TRUE] BY <1>5 DEF Mark
  <2> HIDE DEF x
  <2> QED BY <1>1, <1>3, <2>2, <2>5, <2>6, TakesPage
<1>6. CASE Clear(t)
  <2> DEFINE x == first[t] + k[t]
  <2>1. /\ pc[t] = "clear" /\ pc'[t] = "clear" /\ has'[t] = has[t] /\ first'[t] = first[t]
        /\ cnt'[t] = cnt[t] /\ k'[t] = k[t] + 1 /\ k[t] < cnt[t]
    BY <1>1, <1>6 DEF Clear, TypeOK
  <2>2. x \in Group(first[t], cnt[t]) /\ x \in Group(first[t] + k[t], cnt[t] - k[t])
    BY <1>2, <2>1 DEF Group
  <2>3. x \in Page /\ x \notin has[t] BY <1>1, <2>1, <2>2 DEF Release
  <2>4. Group(first[t] + (k[t] + 1), cnt[t] - (k[t] + 1)) = Group(first[t] + k[t], cnt[t] - k[t]) \ {x}
    <3>1. \A a, b, c \in Nat :
            (a + (b + 1))..(a + (b + 1)) + (c - (b + 1)) - 1 = ((a + b)..(a + b) + (c - b) - 1) \ {a + b}
      OBVIOUS
    <3> QED BY <1>2, <3>1 DEF Group
  <2>5. Mine(t)' = Mine(t) \ {x} /\ x \in Mine(t) BY <2>1, <2>2, <2>3, <2>4 DEF Mine
  <2>6. used' = [used EXCEPT ![x] = FALSE] BY <1>6 DEF Clear
  <2> HIDE DEF x
  <2> QED BY <1>1, <1>3, <2>3, <2>5, <2>6, GivesPage
<1>7. CASE Found(t)
  <2>1. pc[t] = "scan" /\ pc'[t] = "mark" /\ has'[t] = has[t] /\ first'[t] = first[t] /\ k'[t] = 0
    BY <1>1, <1>7 DEF Found, TypeOK
  <2>2. Group(first[t], 0) = {} BY <1>2 DEF Group
  <2>3. Mine(t)' = Mine(t) BY <2>1, <2>2 DEF Mine
  <2> QED BY <1>4, <1>7, <2>3 DEF Found
<1>8. CASE Return(t)
  <2>1. /\ pc[t] = "mark" /\ pc'[t] = "idle" /\ k[t] = cnt[t]
        /\ has'[t] = has[t] \cup Group(first[t], cnt[t])
    BY <1>1, <1>8 DEF Return, Over, TypeOK
  <2>2. Mine(t)' = Mine(t) BY <2>1 DEF Mine
  <2> QED BY <1>4, <1>8, <2>2 DEF Return
<1>9. ASSUME NEW page \in Page, NEW n \in 1..MaxCnt, palloc_free_multiple(t, page, n)
      PROVE  PagesExclusive' /\ PagesExact'
  <2>1. /\ pc[t] = "idle" /\ pc'[t] = "clear" /\ cnt'[t] = n /\ first'[t] = page /\ k'[t] = 0
        /\ has'[t] = has[t] \ Group(page, n) /\ Group(page, n) \subseteq has[t]
    BY <1>1, <1>9 DEF palloc_free_multiple, TypeOK
  <2>2. Group(page + 0, n - 0) = Group(page, n) BY PallocAssumption DEF Group, Page
  <2>3. Mine(t)' = Mine(t) BY <2>1, <2>2 DEF Mine
  <2> QED BY <1>4, <1>9, <2>3 DEF palloc_free_multiple
<1>10. CASE Freed(t)
  <2>1. pc[t] = "clear" /\ pc'[t] = "idle" /\ k[t] = cnt[t] /\ has'[t] = has[t]
    BY <1>1, <1>10 DEF Freed, Over, TypeOK
  <2>2. Group(first[t] + k[t], cnt[t] - k[t]) = {} BY <1>2, <2>1 DEF Group
  <2>3. Mine(t)' = Mine(t) BY <2>1, <2>2 DEF Mine
  <2> QED BY <1>4, <1>10, <2>3 DEF Freed
<1>11. ASSUME pc[t] \notin {"mark", "clear"}, pc'[t] \notin {"mark", "clear"}, has' = has, used' = used
       PROVE  PagesExclusive' /\ PagesExact'
  BY <1>4, <1>11 DEF Mine
<1>12. ASSUME NEW p \in Pool, NEW n \in 1..MaxCnt, palloc_get_multiple(t, p, n)
       PROVE  PagesExclusive' /\ PagesExact'
  BY <1>1, <1>11, <1>12 DEF palloc_get_multiple, TypeOK
<1>13. CASE Acquire(t) BY <1>1, <1>11, <1>13 DEF Acquire, TypeOK
<1>14. CASE ScanBit(t) BY <1>1, <1>11, <1>14 DEF ScanBit, TypeOK
<1>15. CASE NotFound(t) BY <1>1, <1>11, <1>15 DEF NotFound, Over, TypeOK
<1> QED BY <1>5, <1>6, <1>7, <1>8, <1>9, <1>10, <1>12, <1>13, <1>14, <1>15 DEF Step

LEMMA NextInv == IInv /\ [Next]_vars => IInv'
<1> SUFFICES ASSUME IInv, [Next]_vars PROVE IInv' OBVIOUS
<1>1. TypeOK' BY TypeStep DEF IInv
<1>2. ASSUME NEW t \in Thread, Step(t) PROVE IInv'
  <2>1. \A u \in Thread : Search(u)' /\ Release(u)' BY <1>2, MoverKeeps, OthersKeep
  <2>2. PagesExclusive' /\ PagesExact' BY <1>2, PagesStep
  <2> QED BY <1>1, <2>1, <2>2 DEF IInv
<1>3. CASE UNCHANGED vars
  <2>1. \A t \in Thread : Search(t)' /\ Release(t)'
    BY <1>3 DEF IInv, vars, Search, Release, Fits
  <2>2. PagesExclusive' /\ PagesExact'
    <3>1. \A t \in Thread : Mine(t)' = Mine(t) BY <1>3, Zenon DEF vars, Mine
    <3> QED BY <1>3, <3>1, SameMine DEF IInv, vars
  <2> QED BY <1>1, <2>1, <2>2 DEF IInv
<1> QED BY <1>2, <1>3 DEF Next

(* No page of threads/palloc.c is ever given to two threads, and its bit   *)
(* is set exactly while some thread answers for it, for any pools, any     *)
(* threads and any sizes of requests.                                      *)
THEOREM PagesSafe == Spec => [](TypeOK /\ PagesOwned)
<1>1. IInv => TypeOK /\ PagesOwned BY DEF IInv, PagesOwned
<1> QED BY <1>1, InitInv, NextInv, PTL DEF Spec
=============================================================================
