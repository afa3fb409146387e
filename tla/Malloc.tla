--------------------------------- MODULE Malloc ---------------------------------
(***************************************************************************)
(* The block allocator, threads/malloc.c: descriptors with a lock and a    *)
(* list of free blocks each, arenas of one page, and big blocks of whole   *)
(* pages.  Addresses are numbers, sizes are words of size_t.               *)
(***************************************************************************)
EXTENDS Integers, FiniteSets, SequencesExt

CONSTANTS
  Thread,
  Pages,       \* pages of the kernel pool are 1..Pages
  PGSIZE, Header, MinBlock,   \* Header is sizeof (struct arena), MinBlock is 16
  Word,        \* number of values of size_t
  Sizes,       \* sizes that malloc and realloc are asked for
  Factors,     \* factors that calloc is asked for
  MaxHeld,     \* bound: blocks of one thread
  NONE

NULL == 0

(* malloc_init: sizes from MinBlock on, doubled, below half a page. *)
descs == {b \in MinBlock..(PGSIZE \div 2) - 1 : \E e \in 0..9 : b = MinBlock * 2^e}
blocks_per_arena(d) == (PGSIZE - Header) \div d

(* The smallest descriptor that satisfies a request, or NONE. *)
DescFor(size) ==
  IF \E d \in descs : d >= size
  THEN CHOOSE d \in descs : d >= size /\ \A e \in descs : e >= size => d <= e
  ELSE NONE

(* DIV_ROUND_UP (size + sizeof *a, PGSIZE), in size_t. *)
page_cnt(size) == ((((size + Header) % Word) + PGSIZE - 1) % Word) \div PGSIZE

VARIABLES
  arena,       \* page -> [desc, free_cnt] of the arena that begins there, or NONE
  taken,       \* pages that palloc has given to malloc
  free_list,   \* descriptor -> sequence of free blocks
  lock,        \* descriptor -> thread or NONE
  pc, size, old, new, \* locals of the call of a thread; size as its caller
                      \* means it, old the block to free
  has          \* thread -> set of [block, size]

vars == <<arena, taken, free_list, lock, pc, size, old, new, has>>

Init ==
  /\ arena = [p \in 1..Pages |-> NONE] /\ taken = {}
  /\ free_list = [d \in descs |-> <<>>] /\ lock = [d \in descs |-> NONE]
  /\ pc = [t \in Thread |-> "idle"] /\ size = [t \in Thread |-> 0]
  /\ old = [t \in Thread |-> NULL] /\ new = [t \in Thread |-> NULL]
  /\ has = [t \in Thread |-> {}]

pg_round_down(b) == b \div PGSIZE
block_to_arena(b) == pg_round_down(b)
arena_to_block(p, idx) == p * PGSIZE + Header + idx * arena[p].desc
Run(p, n) == p..p + n - 1

(* Number of bytes from block b on that are the caller's. *)
block_size(b) ==
  LET a == arena[block_to_arena(b)]
  IN  IF a.desc # NONE THEN a.desc ELSE PGSIZE * a.free_cnt - (b % PGSIZE)

(* palloc_get_multiple: some free run of n pages; none if n is zero. *)
PagesAt(n) == {p \in 1..Pages : n > 0 /\ Run(p, n) \subseteq (1..Pages) \ taken}

(* The size that malloc is called with is a size_t. *)
Asked(t) == size[t] % Word

-----------------------------------------------------------------------------
(* malloc (o is NULL) or realloc (of block o) of n bytes. *)
malloc(t, n, o) ==
  /\ pc[t] = "idle" /\ n % Word # 0 /\ Cardinality(has[t]) < MaxHeld
  /\ size' = [size EXCEPT ![t] = n] /\ old' = [old EXCEPT ![t] = o]
  /\ pc' = [pc EXCEPT ![t] = IF DescFor(n % Word) = NONE THEN "big" ELSE "acquire"]
  /\ UNCHANGED <<arena, taken, free_list, lock, new, has>>

(* malloc returns b: realloc goes on to copy the old block. *)
Got(t, b) ==
  LET more == old[t] # NULL /\ b # NULL
  IN  /\ pc' = [pc EXCEPT ![t] = IF more THEN "copy" ELSE "idle"]
      /\ new' = [new EXCEPT ![t] = IF more THEN b ELSE NULL]
      /\ size' = [size EXCEPT ![t] = IF more THEN @ ELSE 0]
      /\ old' = [old EXCEPT ![t] = IF more THEN @ ELSE NULL]
      /\ has' = [has EXCEPT ![t] = @ \cup IF b = NULL THEN {} ELSE {[block |-> b, size |-> size[t]]}]

(* Too big for a descriptor: pages of its own, with an arena in front. *)
BigBlock(t) ==
  /\ pc[t] = "big"
  /\ \E p \in PagesAt(page_cnt(Asked(t))) :
       /\ taken' = taken \cup Run(p, page_cnt(Asked(t)))
       /\ arena' = [arena EXCEPT ![p] = [desc |-> NONE, free_cnt |-> page_cnt(Asked(t))]]
       /\ Got(t, p * PGSIZE + Header)
  /\ UNCHANGED <<free_list, lock>>

NoPages(t) ==
  /\ pc[t] = "big" /\ PagesAt(page_cnt(Asked(t))) = {}
  /\ Got(t, NULL) /\ UNCHANGED <<arena, taken, free_list, lock>>

Acquire(t) ==
  /\ pc[t] = "acquire" /\ lock[DescFor(Asked(t))] = NONE
  /\ lock' = [lock EXCEPT ![DescFor(Asked(t))] = t]
  /\ pc' = [pc EXCEPT ![t] = "take"]
  /\ UNCHANGED <<arena, taken, free_list, size, old, new, has>>

(* The free list is empty: a page becomes an arena of free blocks. *)
NewArena(t) ==
  LET d == DescFor(Asked(t))
  IN  /\ pc[t] = "take" /\ free_list[d] = <<>>
      /\ \E p \in PagesAt(1) :
           /\ taken' = taken \cup {p}
           /\ arena' = [arena EXCEPT ![p] = [desc |-> d, free_cnt |-> blocks_per_arena(d)]]
           /\ free_list' = [free_list EXCEPT ![d] =
                              [i \in 1..blocks_per_arena(d) |-> p * PGSIZE + Header + (i - 1) * d]]
      /\ UNCHANGED <<lock, pc, size, old, new, has>>

NoPage(t) ==
  /\ pc[t] = "take" /\ free_list[DescFor(Asked(t))] = <<>> /\ PagesAt(1) = {}
  /\ lock' = [lock EXCEPT ![DescFor(Asked(t))] = NONE]
  /\ Got(t, NULL) /\ UNCHANGED <<arena, taken, free_list>>

TakeBlock(t) ==
  LET d == DescFor(Asked(t)) b == Head(free_list[d])
  IN  /\ pc[t] = "take" /\ free_list[d] # <<>>
      /\ free_list' = [free_list EXCEPT ![d] = Tail(@)]
      /\ arena' = [arena EXCEPT ![block_to_arena(b)].free_cnt = @ - 1]
      /\ lock' = [lock EXCEPT ![d] = NONE]
      /\ Got(t, b) /\ UNCHANGED taken

(* realloc: memcpy of min_size bytes, then free (old_block). *)
min_size(t) == IF Asked(t) < block_size(old[t]) THEN Asked(t) ELSE block_size(old[t])

Copy(t) ==
  /\ pc[t] = "copy"
  /\ pc' = [pc EXCEPT ![t] = "free"] /\ new' = [new EXCEPT ![t] = NULL]
  /\ UNCHANGED <<arena, taken, free_list, lock, size, old, has>>

(* free, or realloc with a size of zero. *)
free(t, b) ==
  /\ pc[t] = "idle"
  /\ pc' = [pc EXCEPT ![t] = "free"] /\ old' = [old EXCEPT ![t] = b]
  /\ UNCHANGED <<arena, taken, free_list, lock, size, new, has>>

(* The arena's desc is read without a lock; a big block's pages go at once. *)
FreeBig(t) ==
  LET p == block_to_arena(old[t])
  IN  /\ pc[t] = "free" /\ arena[p].desc = NONE
      /\ taken' = taken \ Run(p, arena[p].free_cnt) /\ arena' = [arena EXCEPT ![p] = NONE]
      /\ has' = [has EXCEPT ![t] = {h \in @ : h.block # old[t]}]
      /\ pc' = [pc EXCEPT ![t] = "idle"] /\ old' = [old EXCEPT ![t] = NULL]
      /\ size' = [size EXCEPT ![t] = 0]
      /\ UNCHANGED <<free_list, lock, new>>

FreeAcquire(t) ==
  LET d == arena[block_to_arena(old[t])].desc
  IN  /\ pc[t] = "free" /\ d # NONE /\ lock[d] = NONE
      /\ lock' = [lock EXCEPT ![d] = t] /\ pc' = [pc EXCEPT ![t] = "give"]
      /\ has' = [has EXCEPT ![t] = {h \in @ : h.block # old[t]}]
      /\ UNCHANGED <<arena, taken, free_list, size, old, new>>

(* Faulty variant of Whole: true with one block of the arena still in use. *)
Whole_early(p) == arena[p].free_cnt + 2 >= blocks_per_arena(arena[p].desc)

(* With one more block free, all blocks of arena p are. *)
Whole(p) == arena[p].free_cnt + 1 >= blocks_per_arena(arena[p].desc)

(* The free list once block b is back, without an arena that is whole. *)
Listed(b) ==
  LET p == block_to_arena(b) d == arena[p].desc
      blocks == {arena_to_block(p, i) : i \in 0..blocks_per_arena(d) - 1}
  IN  SelectSeq(<<b>> \o free_list[d], LAMBDA c : ~(Whole(p) /\ c \in blocks))

(* Back to the free list; an arena all of whose blocks are free goes back  *)
(* to the page allocator, its blocks off the list.                         *)
GiveBlock(t) ==
  LET p == block_to_arena(old[t]) d == arena[p].desc
  IN  /\ pc[t] = "give"
      /\ free_list' = [free_list EXCEPT ![d] = Listed(old[t])]
      /\ arena' = [arena EXCEPT ![p] = IF Whole(p) THEN NONE ELSE [@ EXCEPT !.free_cnt = @ + 1]]
      /\ taken' = IF Whole(p) THEN taken \ {p} ELSE taken
      /\ lock' = [lock EXCEPT ![d] = NONE]
      /\ pc' = [pc EXCEPT ![t] = "idle"] /\ old' = [old EXCEPT ![t] = NULL]
      /\ size' = [size EXCEPT ![t] = 0]
      /\ UNCHANGED <<new, has>>

(* calloc: the product in size_t is passed on unless it is below a factor. *)
calloc(t, a, b) ==
  LET n == (a * b) % Word
  IN  ~(n < a \/ n < b) /\ malloc(t, a * b, NULL)

Step(t) ==
  \/ \E n \in Sizes, o \in {NULL} \cup {h.block : h \in has[t]} : malloc(t, n, o)
  \/ \E a, b \in Factors : calloc(t, a, b)
  \/ BigBlock(t) \/ NoPages(t) \/ Acquire(t) \/ NewArena(t) \/ NoPage(t) \/ TakeBlock(t) \/ Copy(t)
  \/ \E h \in has[t] : free(t, h.block)
  \/ FreeBig(t) \/ FreeAcquire(t) \/ GiveBlock(t)

Next == \E t \in Thread : Step(t)
Spec == Init /\ [][Next]_vars

-----------------------------------------------------------------------------
Bytes(b) == b..b + block_size(b) - 1
Held == UNION {has[t] : t \in Thread}
Arenas == {p \in 1..Pages : arena[p] # NONE}

(* Blocks in use lie in arenas that malloc still has, do not overlap each  *)
(* other, and no block in use is on a free list.                           *)
BlocksDisjoint ==
  /\ \A h \in Held : block_to_arena(h.block) \in Arenas
  /\ \A g, h \in Held : g.block # h.block => Bytes(g.block) \cap Bytes(h.block) = {}
  /\ \A h \in Held, d \in descs : h.block \notin Range(free_list[d])

(* Outside the lock, the count of an arena is the number of its blocks on  *)
(* the free list, every block there is of a live arena of that descriptor, *)
(* and an arena without blocks in use has been given back: the assertions  *)
(* in free and block_to_arena hold and no page is kept for nothing.        *)
ArenasExact ==
  \A d \in descs : lock[d] = NONE =>
    /\ \A b \in Range(free_list[d]) :
         block_to_arena(b) \in Arenas /\ arena[block_to_arena(b)].desc = d
    /\ \A p \in Arenas : arena[p].desc = d =>
         /\ arena[p].free_cnt = Cardinality({i \in DOMAIN free_list[d] : block_to_arena(free_list[d][i]) = p})
         /\ arena[p].free_cnt < blocks_per_arena(d)

(* A page is malloc's exactly while it is in an arena or a big block. *)
PagesAccounted ==
  taken = UNION {IF arena[p].desc = NONE THEN Run(p, arena[p].free_cnt) ELSE {p} : p \in Arenas}

(* A block is at least as large as its caller asked for, in bytes or in    *)
(* elements: "Obtains and returns a new block of at least SIZE bytes"      *)
(* (malloc), "make sure it fits in size_t" (calloc).                       *)
AtLeastSize == \A h \in Held : h.size <= block_size(h.block)

(* realloc copies only bytes that are in both blocks. *)
CopyInside ==
  \A t \in Thread : pc[t] = "copy" =>
    min_size(t) <= block_size(new[t]) /\ min_size(t) <= block_size(old[t])
=============================================================================
