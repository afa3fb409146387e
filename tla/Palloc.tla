--------------------------------- MODULE Palloc ---------------------------------
(***************************************************************************)
(* The page allocator, threads/palloc.c: two pools, each with a bitmap and *)
(* a lock.  palloc_get_multiple searches and marks the bitmap bit by bit   *)
(* with the pool's lock; palloc_free_multiple clears bits without it, at   *)
(* any moment of a search.  Pages are numbered from 1 MB on.               *)
(***************************************************************************)
EXTENDS Integers

CONSTANTS
  Thread,
  FreePages,         \* pages from 1 MB to the end of RAM
  user_page_limit,
  MapPages(_),       \* pages that a bitmap of so many bits takes
  MaxCnt,            \* bound: pages of one request
  NONE

ASSUME PallocAssumption ==
  /\ FreePages \in Nat /\ user_page_limit \in Nat /\ MaxCnt \in Nat
  /\ \A n \in 0..FreePages : MapPages(n) \in Nat
  /\ NONE \notin Thread

(* palloc_init: half of the pages, or fewer, for the user. *)
user_pages == IF FreePages \div 2 > user_page_limit THEN user_page_limit ELSE FreePages \div 2
kernel_pages == FreePages - user_pages

(* init_pool: the bitmap takes the first pages of the pool. *)
Pool == {"kernel", "user"}
Given(p) == IF p = "kernel" THEN kernel_pages ELSE user_pages
base(p) == (IF p = "kernel" THEN 0 ELSE kernel_pages) + MapPages(Given(p))
page_cnt(p) == Given(p) - MapPages(Given(p))

ASSUME EnoughForBitmaps == \A p \in Pool : MapPages(Given(p)) <= Given(p)

page_from_pool(p, page) == page >= base(p) /\ page < base(p) + page_cnt(p)
Page == {n \in 0..FreePages : \E p \in Pool : page_from_pool(p, n)}
Group(first, cnt) == first..first + cnt - 1

VARIABLES
  used,    \* the bits of both used_maps, by page
  lock,    \* owner of each pool's lock, or NONE
  pc, pool, cnt, first, k,   \* locals of the call a thread makes; k counts bits
  has      \* pages that a thread has got and not freed

vars == <<used, lock, pc, pool, cnt, first, k, has>>

Init ==
  /\ used = [n \in Page |-> FALSE]
  /\ lock = [p \in Pool |-> NONE]
  /\ pc = [t \in Thread |-> "idle"]
  /\ pool = [t \in Thread |-> "kernel"]
  /\ cnt = [t \in Thread |-> 0] /\ first = [t \in Thread |-> 0] /\ k = [t \in Thread |-> 0]
  /\ has = [t \in Thread |-> {}]

(* The call returns; its locals are gone. *)
Over(t) ==
  /\ pc' = [pc EXCEPT ![t] = "idle"] /\ pool' = [pool EXCEPT ![t] = "kernel"]
  /\ cnt' = [cnt EXCEPT ![t] = 0] /\ first' = [first EXCEPT ![t] = 0] /\ k' = [k EXCEPT ![t] = 0]

palloc_get_multiple(t, p, n) ==
  /\ pc[t] = "idle" /\ n > 0
  /\ pc' = [pc EXCEPT ![t] = "acquire"]
  /\ pool' = [pool EXCEPT ![t] = p] /\ cnt' = [cnt EXCEPT ![t] = n]
  /\ first' = [first EXCEPT ![t] = base(p)] /\ k' = [k EXCEPT ![t] = 0]
  /\ UNCHANGED <<used, lock, has>>

(* Faulty variant of Acquire: the lock is not waited for. *)
Acquire_free(t) ==
  /\ pc[t] = "acquire"
  /\ lock' = [lock EXCEPT ![pool[t]] = t]
  /\ pc' = [pc EXCEPT ![t] = "scan"]
  /\ UNCHANGED <<used, pool, cnt, first, k, has>>

Acquire(t) ==
  /\ pc[t] = "acquire" /\ lock[pool[t]] = NONE
  /\ lock' = [lock EXCEPT ![pool[t]] = t]
  /\ pc' = [pc EXCEPT ![t] = "scan"]
  /\ UNCHANGED <<used, pool, cnt, first, k, has>>

(* bitmap_scan: is there room for the group at `first'? *)
Fits(t) == first[t] + cnt[t] <= base(pool[t]) + page_cnt(pool[t])

(* bitmap_contains looks at bit k of the group: go on with the next bit,   *)
(* or with the next group.                                                 *)
ScanBit(t) ==
  /\ pc[t] = "scan" /\ Fits(t) /\ k[t] < cnt[t]
  /\ IF used[first[t] + k[t]]
     THEN first' = [first EXCEPT ![t] = @ + 1] /\ k' = [k EXCEPT ![t] = 0]
     ELSE k' = [k EXCEPT ![t] = @ + 1] /\ UNCHANGED first
  /\ UNCHANGED <<used, lock, pc, pool, cnt, has>>

(* A free group: bitmap_set_multiple follows. *)
Found(t) ==
  /\ pc[t] = "scan" /\ Fits(t) /\ k[t] = cnt[t]
  /\ pc' = [pc EXCEPT ![t] = "mark"] /\ k' = [k EXCEPT ![t] = 0]
  /\ UNCHANGED <<used, lock, pool, cnt, first, has>>

(* Out of pages: the caller gets a null pointer, or the kernel panics. *)
NotFound(t) ==
  /\ pc[t] = "scan" /\ ~Fits(t)
  /\ lock' = [lock EXCEPT ![pool[t]] = NONE]
  /\ Over(t) /\ UNCHANGED <<used, has>>

Mark(t) ==
  /\ pc[t] = "mark" /\ k[t] < cnt[t]
  /\ used' = [used EXCEPT ![first[t] + k[t]] = TRUE]
  /\ k' = [k EXCEPT ![t] = @ + 1]
  /\ UNCHANGED <<lock, pc, pool, cnt, first, has>>

Return(t) ==
  /\ pc[t] = "mark" /\ k[t] = cnt[t]
  /\ lock' = [lock EXCEPT ![pool[t]] = NONE]
  /\ has' = [has EXCEPT ![t] = @ \cup Group(first[t], cnt[t])]
  /\ Over(t) /\ UNCHANGED used

(* A thread frees pages of one pool that it has; they are given up from    *)
(* here on.  The assertion on the bits is PagesExact.                      *)
palloc_free_multiple(t, page, n) ==
  /\ pc[t] = "idle" /\ n > 0 /\ Group(page, n) \subseteq has[t]
  /\ \E p \in Pool : page_from_pool(p, page) /\ page_from_pool(p, page + n - 1)
  /\ pc' = [pc EXCEPT ![t] = "clear"]
  /\ cnt' = [cnt EXCEPT ![t] = n] /\ first' = [first EXCEPT ![t] = page] /\ k' = [k EXCEPT ![t] = 0]
  /\ has' = [has EXCEPT ![t] = @ \ Group(page, n)]
  /\ UNCHANGED <<used, lock, pool>>

Clear(t) ==
  /\ pc[t] = "clear" /\ k[t] < cnt[t]
  /\ used' = [used EXCEPT ![first[t] + k[t]] = FALSE]
  /\ k' = [k EXCEPT ![t] = @ + 1]
  /\ UNCHANGED <<lock, pc, pool, cnt, first, has>>

Freed(t) ==
  /\ pc[t] = "clear" /\ k[t] = cnt[t]
  /\ Over(t) /\ UNCHANGED <<used, lock, has>>

Step(t) ==
  \/ \E p \in Pool, n \in 1..MaxCnt : palloc_get_multiple(t, p, n)
  \/ Acquire(t) \/ ScanBit(t) \/ Found(t) \/ NotFound(t) \/ Mark(t) \/ Return(t)
  \/ \E page \in Page, n \in 1..MaxCnt : palloc_free_multiple(t, page, n)
  \/ Clear(t) \/ Freed(t)

Next == \E t \in Thread : Step(t)
Spec == Init /\ [][Next]_vars

-----------------------------------------------------------------------------
TypeOK ==
  /\ used \in [Page -> BOOLEAN]
  /\ lock \in [Pool -> Thread \cup {NONE}]
  /\ pc \in [Thread -> {"idle", "acquire", "scan", "mark", "clear"}]
  /\ pool \in [Thread -> Pool]
  /\ cnt \in [Thread -> Nat] /\ first \in [Thread -> Nat] /\ k \in [Thread -> Nat]
  /\ has \in [Thread -> SUBSET Page]

(* The pages that thread t answers for: those it has, those it has marked  *)
(* so far, and those it has still to clear.                                *)
Mine(t) ==
  has[t] \cup (IF pc[t] = "mark" THEN Group(first[t], k[t]) ELSE {})
         \cup (IF pc[t] = "clear" THEN Group(first[t] + k[t], cnt[t] - k[t]) ELSE {})

(* No page is given to two threads, although pages are freed in the middle *)
(* of other threads' searches without the lock (palloc_free_multiple).     *)
PagesExclusive == \A t, u \in Thread : t # u => Mine(t) \cap Mine(u) = {}

(* A bit of the maps is set exactly if some thread answers for its page:   *)
(* no page is lost, none is free while it is in use, and the assertion in  *)
(* palloc_free_multiple holds.                                             *)
PagesExact == \A n \in Page : used[n] <=> \E t \in Thread : n \in Mine(t)

(* Every page is free or has one owner, although palloc_free_multiple      *)
(* clears bits without the lock.                                           *)
PagesOwned == PagesExclusive /\ PagesExact
=============================================================================
