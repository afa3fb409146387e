-------------------------------- MODULE MCKernel --------------------------------
(***************************************************************************)
(* What the rest of the kernel is built on.  Memory: demand paging (Vm, in *)
(* three settings), the page allocator (Palloc) and blocks (Malloc).       *)
(* Data: lists (Lists, in three settings), bitmaps (Bitmaps), hash tables  *)
(* (Hashes), 64-bit division (Arithmetic, in two settings), strings        *)
(* (Strings), sorting and searching (Sorting), random numbers (Random).    *)
(* The components share no variable.  A behaviour is one of them; the      *)
(* variables of the others stay at 0.                                      *)
(***************************************************************************)
EXTENDS Palloc, TLC

CONSTANTS proc_p, proc_q, ps, pb, pm, qs, qb, x1, x2, x3

VARIABLES
  part,
  vme, pte, free_frames, lru_list, lru_clock, page, swap_map, ram, disk, holder, vm_pc, reg, halted,
  arena, taken, free_list, desc_lock, call, size, old, new, blocks,
  links, keys, list_op, list_ret,
  bit_cnt, bits, bits_file, bit_op, bit_ret,
  buckets, elem_cnt, hash_op, hash_ret,
  dividend, divisor, signed, quotient,
  bytes, before, str_call, str_ret, save_ptr, tokens,
  array, input, sort_pc, sort_i, down, sort_cnt, wanted, sort_first, sort_last, found,
  perm, s_i, s_j, inited, options, clock, out

vmVars == <<vme, pte, free_frames, lru_list, lru_clock, page, swap_map, ram, disk, holder, vm_pc, reg, halted>>
mallocVars == <<arena, taken, free_list, desc_lock, call, size, old, new, blocks>>
memVars == <<vars, vmVars, mallocVars>>
listVars == <<links, keys, list_op, list_ret>>
bitVars == <<bit_cnt, bits, bits_file, bit_op, bit_ret>>
hashVars == <<buckets, elem_cnt, hash_op, hash_ret>>
divVars == <<dividend, divisor, signed, quotient>>
strVars == <<bytes, before, str_call, str_ret, save_ptr, tokens>>
sortVars == <<array, input, sort_pc, sort_i, down, sort_cnt, wanted, sort_first, sort_last, found>>
randVars == <<perm, s_i, s_j, inited, options, clock, out>>
dataVars == <<listVars, bitVars, hashVars, divVars, strVars, sortVars, randVars>>
allVars == <<part, memVars, dataVars>>

-----------------------------------------------------------------------------

(* Process proc_p has a stack, a segment and a mapped file, proc_q a stack *)
(* and a segment.                                                          *)
OwnerIn(P) == [v \in P |-> IF v \in {qs, qb} THEN proc_q ELSE proc_p]
KindIn(P) == [v \in P |-> CASE v \in {ps, qs} -> "anon" [] v = pm -> "file" [] OTHER -> "bin"]
Pages1 == {ps, pb, pm}
Owner1 == OwnerIn(Pages1)
Kind1 == KindIn(Pages1)
Pages2 == {ps, pb, qs, qb}
Owner2 == OwnerIn(Pages2)
Kind2 == KindIn(Pages2)
Pages3 == {ps, pm, qs, qb}
Owner3 == OwnerIn(Pages3)
Kind3 == KindIn(Pages3)

(* One process on two frames, with calls of read and write, and exit. *)
Single == INSTANCE Vm WITH
  Proc <- {proc_p}, VPage <- Pages1, Owner <- Owner1, Kind <- Kind1, Frame <- {x1, x2}, Slots <- 2,
  Short <- {}, Callers <- {proc_p}, Version <- {1}, Exiting <- {proc_p}, NULL <- NONE,
  pool <- free_frames, pc <- vm_pc

(* Two processes on two frames. *)
Pair == INSTANCE Vm WITH
  Proc <- {proc_p, proc_q}, VPage <- Pages2, Owner <- Owner2, Kind <- Kind2, Frame <- {x1, x2}, Slots <- 2,
  Short <- {}, Callers <- {}, Version <- {0}, Exiting <- {}, NULL <- NONE,
  pool <- free_frames, pc <- vm_pc

(* Two processes on two frames; proc_p ends at any time. *)
Tight == INSTANCE Vm WITH
  Proc <- {proc_p, proc_q}, VPage <- Pages3, Owner <- Owner3, Kind <- Kind3, Frame <- {x1, x2}, Slots <- 2,
  Short <- {qb}, Callers <- {}, Version <- {0}, Exiting <- {proc_p}, NULL <- NONE,
  pool <- free_frames, pc <- vm_pc

(* A page of 32 bytes and a size_t of eight bits. *)
Heap == INSTANCE Malloc WITH
  Thread <- {x1, x2}, Pages <- 3, PGSIZE <- 32, Header <- 16, MinBlock <- 4, Word <- 256,
  Sizes <- {4, 20, 230}, Factors <- {2}, MaxHeld <- 2,
  lock <- desc_lock, pc <- call, has <- blocks

(* One page of each pool for its bitmap. *)
MCMapPages(n) == IF n = 0 THEN 0 ELSE 1

Links == INSTANCE Lists WITH
  List <- {1, 2}, Elem <- 1..3, Key <- {1}, NULL <- 0,
  Calls <- {"push_front", "pop_front", "pop_back", "remove", "remove_again", "splice"},
  h <- links, key <- keys, op <- list_op, ret <- list_ret
Orders == INSTANCE Lists WITH
  List <- {1, 2}, Elem <- 1..3, Key <- {1, 2}, NULL <- 0,
  Calls <- {"push_back", "insert_ordered", "reverse", "unique", "size", "max", "min"},
  h <- links, key <- keys, op <- list_op, ret <- list_ret
Merges == INSTANCE Lists WITH
  List <- {1}, Elem <- 1..4, Key <- {1, 2, 3}, NULL <- 0, Calls <- {"push_back", "sort"},
  h <- links, key <- keys, op <- list_op, ret <- list_ret

(* No bit, one word, and a word and a half. *)
Words == INSTANCE Bitmaps WITH ELEM_BITS <- 2, BitCnt <- {0, 2, 3}, file <- bits_file, op <- bit_op,
  ret <- bit_ret

(* Five keys, one of them with two elements; some hashes collide. *)
Elements == ((1..5) \X {1}) \cup {<<1, 2>>}
HashOf == [j \in 1..5 |-> <<3, 7, 5, 2, 6>>[j]]
Table == INSTANCE Hashes WITH
  Elem <- Elements, Hash <- HashOf, MIN_BUCKETS <- 1, BEST_ELEMS_PER_BUCKET <- 1, NULL <- NONE,
  op <- hash_op, ret <- hash_ret

(* Words of three bits, all values. *)
Small == INSTANCE Arithmetic WITH W <- 3, Inputs <- 0..63, n <- dividend, d <- divisor, result <- quotient

(* Words of eight bits, values around the powers of two. *)
NearPowers ==
  {x \in UNION {{2^j - 2, 2^j - 1, 2^j, 2^j + 1, 2^j + 2^(j \div 2), 3 * 2^(j - 1) + 1} : j \in 1..16} : x \in 0..65535}
Edges == INSTANCE Arithmetic WITH W <- 8, Inputs <- NearPowers, n <- dividend, d <- divisor, result <- quotient

Memory == INSTANCE Strings WITH Size <- 5, Char <- {0, 1, 2}, mem <- bytes, call <- str_call, ret <- str_ret

Arrays == INSTANCE Sorting WITH MaxLen <- 5, Key <- 1..3, h <- down, key <- wanted,
  pc <- sort_pc, i <- sort_i, cnt <- sort_cnt, first <- sort_first, last <- sort_last

(* Bytes of four values, seeds of two. *)
Numbers == INSTANCE Random WITH N <- 4, SeedLen <- 2, MaxBytes <- 3, MaxOptions <- 1, s <- perm

ASSUME
  /\ Single!VmAssumption /\ Pair!VmAssumption /\ Tight!VmAssumption
  /\ Links!ListsAssumption /\ Orders!ListsAssumption /\ Merges!ListsAssumption
  /\ Words!BitmapsAssumption /\ Table!HashesAssumption

-----------------------------------------------------------------------------
VmOff ==
  /\ vme = 0 /\ pte = 0 /\ free_frames = 0 /\ lru_list = 0 /\ lru_clock = 0 /\ page = 0
  /\ swap_map = 0 /\ ram = 0 /\ disk = 0 /\ holder = 0 /\ vm_pc = 0 /\ reg = 0 /\ halted = 0
MallocOff ==
  /\ arena = 0 /\ taken = 0 /\ free_list = 0 /\ desc_lock = 0 /\ call = 0
  /\ size = 0 /\ old = 0 /\ new = 0 /\ blocks = 0

ListOff == links = 0 /\ keys = 0 /\ list_op = 0 /\ list_ret = 0
BitOff == bit_cnt = 0 /\ bits = 0 /\ bits_file = 0 /\ bit_op = 0 /\ bit_ret = 0
HashOff == buckets = 0 /\ elem_cnt = 0 /\ hash_op = 0 /\ hash_ret = 0
DivOff == dividend = 0 /\ divisor = 0 /\ signed = 0 /\ quotient = 0
StrOff == bytes = 0 /\ before = 0 /\ str_call = 0 /\ str_ret = 0 /\ save_ptr = 0 /\ tokens = 0
SortOff ==
  /\ array = 0 /\ input = 0 /\ sort_pc = 0 /\ sort_i = 0 /\ down = 0 /\ sort_cnt = 0
  /\ wanted = 0 /\ sort_first = 0 /\ sort_last = 0 /\ found = 0

RandOff == perm = 0 /\ s_i = 0 /\ s_j = 0 /\ inited = 0 /\ options = 0 /\ clock = 0 /\ out = 0

(* Palloc's variables have their first values while others move. *)
InitMemory ==
  \/ part = "single" /\ Single!Init /\ MallocOff
  \/ part = "pair" /\ Pair!Init /\ MallocOff
  \/ part = "tight" /\ Tight!Init /\ MallocOff
  \/ part = "palloc" /\ VmOff /\ MallocOff
  \/ part = "malloc" /\ VmOff /\ Heap!Init

InitData ==
  \/ part = "links" /\ Links!Init /\ BitOff /\ HashOff /\ DivOff /\ StrOff /\ SortOff /\ RandOff
  \/ part = "orders" /\ Orders!Init /\ BitOff /\ HashOff /\ DivOff /\ StrOff /\ SortOff /\ RandOff
  \/ part = "merges" /\ Merges!Init /\ BitOff /\ HashOff /\ DivOff /\ StrOff /\ SortOff /\ RandOff
  \/ part = "bitmaps" /\ Words!Init /\ ListOff /\ HashOff /\ DivOff /\ StrOff /\ SortOff /\ RandOff
  \/ part = "hashes" /\ Table!Init /\ ListOff /\ BitOff /\ DivOff /\ StrOff /\ SortOff /\ RandOff
  \/ part = "small" /\ Small!Init /\ ListOff /\ BitOff /\ HashOff /\ StrOff /\ SortOff /\ RandOff
  \/ part = "edges" /\ Edges!Init /\ ListOff /\ BitOff /\ HashOff /\ StrOff /\ SortOff /\ RandOff
  \/ part = "strings" /\ Memory!Init /\ ListOff /\ BitOff /\ HashOff /\ DivOff /\ SortOff /\ RandOff
  \/ part = "sorting" /\ Arrays!Init /\ ListOff /\ BitOff /\ HashOff /\ DivOff /\ StrOff /\ RandOff
  \/ part = "random" /\ Numbers!Init /\ ListOff /\ BitOff /\ HashOff /\ DivOff /\ StrOff /\ SortOff

MCInit ==
  /\ Init
  /\ \/ InitMemory /\ ListOff /\ BitOff /\ HashOff /\ DivOff /\ StrOff /\ SortOff /\ RandOff
     \/ InitData /\ VmOff /\ MallocOff

(* Processes end, and so do the calculations. *)
MCNext ==
  \/ part = "single" /\ Single!Next /\ UNCHANGED <<part, vars, mallocVars, dataVars>>
  \/ part = "pair" /\ Pair!Next /\ UNCHANGED <<part, vars, mallocVars, dataVars>>
  \/ part = "tight" /\ Tight!Next /\ UNCHANGED <<part, vars, mallocVars, dataVars>>
  \/ part = "palloc" /\ Next /\ UNCHANGED <<part, vmVars, mallocVars, dataVars>>
  \/ part = "malloc" /\ Heap!Next /\ UNCHANGED <<part, vars, vmVars, dataVars>>
  \/ part = "links" /\ Links!Next
     /\ UNCHANGED <<part, memVars, bitVars, hashVars, divVars, strVars, sortVars, randVars>>
  \/ part = "orders" /\ Orders!Next
     /\ UNCHANGED <<part, memVars, bitVars, hashVars, divVars, strVars, sortVars, randVars>>
  \/ part = "merges" /\ Merges!Next
     /\ UNCHANGED <<part, memVars, bitVars, hashVars, divVars, strVars, sortVars, randVars>>
  \/ part = "bitmaps" /\ Words!Next
     /\ UNCHANGED <<part, memVars, listVars, hashVars, divVars, strVars, sortVars, randVars>>
  \/ part = "hashes" /\ Table!Next
     /\ UNCHANGED <<part, memVars, listVars, bitVars, divVars, strVars, sortVars, randVars>>
  \/ part = "small" /\ Small!Next
     /\ UNCHANGED <<part, memVars, listVars, bitVars, hashVars, strVars, sortVars, randVars>>
  \/ part = "edges" /\ Edges!Next
     /\ UNCHANGED <<part, memVars, listVars, bitVars, hashVars, strVars, sortVars, randVars>>
  \/ part = "strings" /\ Memory!Next
     /\ UNCHANGED <<part, memVars, listVars, bitVars, hashVars, divVars, sortVars, randVars>>
  \/ part = "sorting" /\ Arrays!Next
     /\ UNCHANGED <<part, memVars, listVars, bitVars, hashVars, divVars, strVars, randVars>>
  \/ part = "random" /\ Numbers!Next
     /\ UNCHANGED <<part, memVars, listVars, bitVars, hashVars, divVars, strVars, sortVars>>
  \/ /\ part \in {"single", "pair", "tight", "small", "edges", "strings", "sorting", "random"}
     /\ UNCHANGED allVars

MCSpec == MCInit /\ [][MCNext]_allVars

(* Frames and threads are interchangeable. *)
Symmetric == Permutations({x1, x2, x3})

(* What later steps depend on: the last call of lists, bitmaps and hash    *)
(* tables and what it returned is left out, except a removal, after which  *)
(* munmap removes again.  Every step is checked with its call all the same.*)
Removed ==
  IF part \in {"links", "orders", "merges"} THEN IF list_op[1] = "remove" THEN list_op ELSE <<>> ELSE <<>>
State ==
  <<part, memVars, links, keys, Removed, bit_cnt, bits, bits_file, buckets, elem_cnt,
    divVars, strVars, sortVars, randVars>>

-----------------------------------------------------------------------------
(* Only a write of its owner changes what a page holds, through any number *)
(* of evictions, swaps and faults (Vm).                                    *)
PagingInvisible == [][part = "single" => Single!OwnerWrites]_allVars

(* The frame of a usable page is in one page table, not in the user pool,  *)
(* and on lru_list once; when processes end in the middle of evictions, no *)
(* frame is lost and none has two owners (Vm).                             *)
FramesExclusive ==
  /\ part = "pair" => Pair!FramesExclusive
  /\ part = "tight" => Tight!FramesAccounted

(* Blocks in use are disjoint and lie in arenas, free counts and free      *)
(* lists of arenas agree and no empty arena is kept, a page is malloc's    *)
(* exactly while it is in an arena or a big block, and realloc copies only *)
(* bytes that are in both blocks (Malloc).                                 *)
HeapConsistent ==
  part = "malloc" => Heap!BlocksDisjoint /\ Heap!ArenasExact /\ Heap!PagesAccounted /\ Heap!CopyInside

(* The pointers implement sequences: every function of list.c does to the  *)
(* lists what list.h says it does, and returns what it says; walked from   *)
(* the tail, a list is the reverse of what it is from the head (Lists).    *)
ImplementsSequences ==
  /\ part = "links" => Links!Abstract!Init
  /\ part = "orders" => Orders!Abstract!Init
  /\ part = "merges" => Merges!Abstract!Init
  /\ [][/\ part = "links" => Links!BothDirections' /\ (Links!Abstract!Next \/ UNCHANGED Links!Abstract!vars)
        /\ part = "orders" => Orders!BothDirections' /\ (Orders!Abstract!Next \/ UNCHANGED Orders!Abstract!vars)
        /\ part = "merges" => Merges!BothDirections' /\ (Merges!Abstract!Next \/ UNCHANGED Merges!Abstract!vars)
       ]_allVars

(* Every function of a bitmap returns and changes what its comment says of *)
(* the set of bits, however they are spread over words (Bitmaps).          *)
BitmapExact == [][part = "bitmaps" => Words!CallExact]_allVars

(* A hash table is a map from keys to elements, with whatever number of    *)
(* buckets growing, shrinking and failed allocations have left, and an     *)
(* iteration returns each element once (Hashes).                           *)
TableExact == [][part = "hashes" => Table!CallExact /\ Table!IterationComplete']_allVars

(* The library computes what its comments say.  Quotients are exact, and   *)
(* so are remainders that fit in a word (Arithmetic).  memmove moves what  *)
(* the source was, strlcpy and strlcat write a string and no more than     *)
(* SIZE bytes, the tokens of strtok_r are the runs of other characters     *)
(* (Strings).  Sorting orders the elements and searching finds those that  *)
(* are there (Sorting).  The generator's table is a permutation, and the   *)
(* first option decides what is drawn (Random).                            *)
LibraryExact ==
  /\ part = "small" => Small!QuotientExact /\ Small!RemainderInWord
  /\ part = "edges" => Edges!QuotientExact /\ Edges!RemainderInWord
  /\ part = "strings" => Memory!MoveExact /\ Memory!CopiesLimited /\ Memory!TokensExact
  /\ part = "sorting" => Arrays!SortExact /\ Arrays!SearchExact
  /\ part = "random" => Numbers!TablePermuted /\ Numbers!OptionDecides
=============================================================================
