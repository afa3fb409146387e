--------------------------------- MODULE Pagedir ---------------------------------
(***************************************************************************)
(* Page directories, userprog/pagedir.c and threads/pte.h, with the        *)
(* translation lookaside buffer and the accessed and dirty bits that the   *)
(* processor keeps (external), under context switches and exits.           *)
(***************************************************************************)
EXTENDS Naturals, FiniteSets

CONSTANTS
  Proc,       \* threads with a user program
  KThread,     \* a thread without one
  UPage,      \* user pages, numbered from 0
  PtSpan,     \* pages of one page table
  Frame,      \* pages of memory, numbered
  Writable,   \* kinds of mapping
  NONE

PagedirAssumption == KThread \notin Proc /\ NONE \notin Frame /\ Writable \subseteq BOOLEAN

VARIABLES
  pagedir,    \* per thread: the frame of its page directory, or NONE
  pd,         \* process_exit's copy
  pde,        \* directory entries: frame of the directory -> number -> frame of the table, or NONE
  pte,        \* table entries: frame of the directory -> page -> entry
  free,       \* frames in the allocator
  hand,       \* per thread: a frame it has unmapped and not yet given back
  inv,        \* per thread: a directory it has yet to invalidate
  pc,         \* per thread: new, loading, run, exiting, gone
  current, cr3, tlb,
  modified, touched   \* pages used since their bits were cleared, as <<directory, page>>

cpu == <<current, cr3, tlb>>
ghost == <<modified, touched>>
vars == <<pagedir, pd, pde, pte, free, hand, inv, pc, cpu, ghost>>

AnyThread == Proc \cup {KThread}
pd_no(v) == v \div PtSpan
Table == {pd_no(v) : v \in UPage}
Zero == [P |-> FALSE, W |-> FALSE, A |-> FALSE, D |-> FALSE, frame |-> NONE]
Flushed == [v \in UPage |-> NONE]

Init ==
  /\ pagedir = [t \in AnyThread |-> NONE] /\ pd = [t \in AnyThread |-> NONE]
  /\ pde = [f \in Frame |-> [k \in Table |-> NONE]]
  /\ pte = [f \in Frame |-> [v \in UPage |-> Zero]]
  /\ free = Frame /\ hand = [t \in AnyThread |-> NONE] /\ inv = [t \in AnyThread |-> NONE]
  /\ pc = [t \in AnyThread |-> IF t = KThread THEN "run" ELSE "new"]
  /\ current = KThread /\ cr3 = NONE /\ tlb = Flushed
  /\ modified = {} /\ touched = {}

(* Activating a directory, or NONE for init_page_dir, empties the TLB. *)
pagedir_activate(d) == cr3' = d /\ tlb' = Flushed

(* A thread between two calls of this module's functions *)
Between(t) == current = t /\ pc[t] = "run" /\ inv[t] = NONE /\ hand[t] = NONE

Live == {pagedir[t] : t \in AnyThread} \ {NONE}

(* thread_schedule_tail calls process_activate of the next thread. *)
process_activate(t) ==
  /\ pc[t] # "gone" /\ current' = t
  /\ pagedir_activate(pagedir[t])
  /\ UNCHANGED <<pagedir, pd, pde, pte, free, hand, inv, pc, ghost>>

(* palloc_get_page takes the first free page. *)
Lowest(set) == {f \in set : \A g \in set : f <= g}

(* load: the kernel's entries are copied, those of the user are empty. *)
pagedir_create(t) ==
  /\ current = t /\ pc[t] = "new"
  /\ \E f \in Lowest(free) :
       /\ free' = free \ {f} /\ pagedir' = [pagedir EXCEPT ![t] = f]
       /\ pde' = [pde EXCEPT ![f] = [k \in Table |-> NONE]]
       /\ pte' = [pte EXCEPT ![f] = [v \in UPage |-> Zero]]
  /\ pc' = [pc EXCEPT ![t] = "loading"]
  /\ UNCHANGED <<pd, hand, inv, cpu, ghost>>

LoadActivate(t) ==
  /\ current = t /\ pc[t] = "loading"
  /\ pagedir_activate(pagedir[t]) /\ pc' = [pc EXCEPT ![t] = "run"]
  /\ UNCHANGED <<pagedir, pd, pde, pte, free, hand, inv, current, ghost>>

-----------------------------------------------------------------------------
lookup_page(d, v) == IF pde[d][pd_no(v)] = NONE THEN Zero ELSE pte[d][v]

(* install_page with pagedir_set_page: a table g is made if there is none; *)
(* without memory for it the frame f goes back.                            *)
pagedir_set_page(t, v, w) ==
  /\ Between(t) /\ t # KThread
  /\ LET d == pagedir[t]
         old == pde[d][pd_no(v)]
     IN /\ ~lookup_page(d, v).P
        /\ \E f \in Lowest(free) : \E g \in IF old # NONE THEN {old} ELSE Lowest(free \ {f}) :
             /\ free' = free \ {f, g} /\ pde' = [pde EXCEPT ![d][pd_no(v)] = g]
             /\ pte' = [pte EXCEPT ![d][v] = [Zero EXCEPT !.P = TRUE, !.W = w, !.frame = f]]
             /\ modified' = modified \ {<<d, v>>} /\ touched' = touched \ {<<d, v>>}
  /\ UNCHANGED <<pagedir, pd, hand, inv, pc, cpu>>

(* Faulty variant of Invalidate: only what is unmapped is flushed. *)
Invalidate_not(t, d) ==
  inv' = IF \E v \in UPage : pte[d][v].P /\ ~pte'[d][v].P THEN [inv EXCEPT ![t] = d] ELSE inv

(* Entries that the processor may have cached are out of date until        *)
(* invalidate_pagedir.                                                     *)
Invalidate(t, d) == inv' = [inv EXCEPT ![t] = d]

(* invalidate_pagedir flushes if the directory is the active one. *)
invalidate_pagedir(t) ==
  /\ current = t /\ inv[t] # NONE /\ inv' = [inv EXCEPT ![t] = NONE]
  /\ IF cr3 = inv[t] THEN pagedir_activate(cr3) ELSE UNCHANGED <<cr3, tlb>>
  /\ UNCHANGED <<pagedir, pd, pde, pte, free, hand, pc, current, ghost>>

(* Eviction, munmap and exit unmap a page of any directory and give the    *)
(* frame back afterwards.                                                  *)
pagedir_clear_page(t, d, v) ==
  /\ Between(t) /\ lookup_page(d, v).P
  /\ pte' = [pte EXCEPT ![d][v].P = FALSE]
  /\ Invalidate(t, d) /\ hand' = [hand EXCEPT ![t] = pte[d][v].frame]
  /\ UNCHANGED <<pagedir, pd, pde, free, pc, cpu, ghost>>

GiveBack(t) ==
  /\ current = t /\ inv[t] = NONE /\ hand[t] # NONE
  /\ free' = free \cup {hand[t]} /\ hand' = [hand EXCEPT ![t] = NONE]
  /\ UNCHANGED <<pagedir, pd, pde, pte, inv, pc, cpu, ghost>>

(* The clock of the eviction clears the bit; pagedir_set_dirty is never    *)
(* called.                                                                 *)
pagedir_set_accessed(t, d, v) ==
  /\ Between(t) /\ lookup_page(d, v).A
  /\ pte' = [pte EXCEPT ![d][v].A = FALSE]
  /\ Invalidate(t, d) /\ touched' = touched \ {<<d, v>>}
  /\ UNCHANGED <<pagedir, pd, pde, free, hand, pc, cpu, modified>>

-----------------------------------------------------------------------------
(* process_exit: pagedir is cleared, then the base directory activated,    *)
(* then the old one destroyed.                                             *)
ExitNull(t) ==
  /\ Between(t) /\ t # KThread
  /\ pd' = [pd EXCEPT ![t] = pagedir[t]] /\ pagedir' = [pagedir EXCEPT ![t] = NONE]
  /\ pc' = [pc EXCEPT ![t] = "exiting"]
  /\ UNCHANGED <<pde, pte, free, hand, inv, cpu, ghost>>

(* Faulty variant of ExitActivate: the directory stays active. *)
ExitActivate_not(t) ==
  /\ current = t /\ pc[t] = "exiting"
  /\ pc' = [pc EXCEPT ![t] = "destroying"]
  /\ UNCHANGED <<pagedir, pd, pde, pte, free, hand, inv, cpu, ghost>>

ExitActivate(t) ==
  /\ current = t /\ pc[t] = "exiting"
  /\ pagedir_activate(NONE) /\ pc' = [pc EXCEPT ![t] = "destroying"]
  /\ UNCHANGED <<pagedir, pd, pde, pte, free, hand, inv, current, ghost>>

Tables(d) == {pde[d][k] : k \in Table} \ {NONE}
Mapped(d) == {lookup_page(d, v).frame : v \in {u \in UPage : lookup_page(d, u).P}}

(* What pagedir_destroy frees *)
Destroyed(d) == Mapped(d) \cup Tables(d) \cup {d}

pagedir_destroy(t) ==
  /\ current = t /\ pc[t] = "destroying"
  /\ free' = free \cup Destroyed(pd[t])
  /\ pd' = [pd EXCEPT ![t] = NONE] /\ pc' = [pc EXCEPT ![t] = "gone"]
  /\ modified' = {x \in modified : x[1] # pd[t]} /\ touched' = {x \in touched : x[1] # pd[t]}
  /\ pde' = [pde EXCEPT ![pd[t]] = [k \in Table |-> NONE]]
  /\ pte' = [pte EXCEPT ![pd[t]] = [v \in UPage |-> Zero]]
  /\ UNCHANGED <<pagedir, hand, inv, cpu>>

-----------------------------------------------------------------------------
(* The processor (external) uses a page for the current thread.  It looks  *)
(* in the TLB first, and sets the bits of the entry when it loads it and   *)
(* at the first write.                                                     *)
UserAccess(t, v, write) ==
  /\ current = t /\ Between(t) /\ cr3 # NONE
  /\ LET hit == tlb[v] # NONE /\ (write => tlb[v].D)
         e == lookup_page(cr3, v)
     IN /\ \/ hit /\ UNCHANGED <<pte, tlb>>
           \/ /\ ~hit /\ e.P /\ (write => e.W)
              /\ pte' = [pte EXCEPT ![cr3][v] = [e EXCEPT !.A = TRUE, !.D = e.D \/ write]]
              /\ tlb' = [tlb EXCEPT ![v] = pte'[cr3][v]]
        /\ modified' = IF write THEN modified \cup {<<cr3, v>>} ELSE modified
        /\ touched' = touched \cup {<<cr3, v>>}
  /\ UNCHANGED <<pagedir, pd, pde, free, hand, inv, pc, current, cr3>>

Next ==
  \/ \E t \in AnyThread : process_activate(t)
  \/ \E t \in Proc : pagedir_create(t)
  \/ \E t \in Proc : LoadActivate(t)
  \/ \E t \in Proc, v \in UPage, w \in Writable : pagedir_set_page(t, v, w)
  \/ \E t \in AnyThread : invalidate_pagedir(t)
  \/ \E t \in AnyThread, d \in Live, v \in UPage : pagedir_clear_page(t, d, v)
  \/ \E t \in AnyThread : GiveBack(t)
  \/ \E t \in AnyThread, d \in Live, v \in UPage : pagedir_set_accessed(t, d, v)
  \/ \E t \in Proc : ExitNull(t)
  \/ \E t \in Proc : ExitActivate(t)
  \/ \E t \in Proc : pagedir_destroy(t)
  \/ \E t \in Proc, v \in UPage, write \in BOOLEAN : UserAccess(t, v, write)

Spec == Init /\ [][Next]_vars

-----------------------------------------------------------------------------
(* "or our active page directory will be one that's been freed (and        *)
(* cleared)" (process_exit): the active directory is never free memory,    *)
(* however the timer switches threads during an exit.                      *)
ActiveNotFreed == cr3 # NONE => cr3 \notin free

(* A user program never reaches memory through the TLB that its directory  *)
(* does not map, or that was given back (invalidate_pagedir).              *)
TlbCoherent ==
  pc[current] = "run" /\ inv[current] = NONE =>
    \A v \in UPage : tlb[v] # NONE =>
      LET e == lookup_page(cr3, v) IN
      e.P /\ e.frame = tlb[v].frame /\ e.frame \notin free /\ (tlb[v].W => e.W)

(* A page that was modified, or used, since its bit was last cleared has   *)
(* the bit: eviction writes out what was modified (pagedir_is_dirty,       *)
(* pagedir_is_accessed).                                                   *)
BitsExact ==
  /\ \A x \in modified : pte[x[1]][x[2]].D
  /\ \A x \in touched : pte[x[1]][x[2]].A

Directories == {d \in {pagedir[t] : t \in AnyThread} \cup {pd[t] : t \in AnyThread} : d # NONE}

Uses(f) ==
  Cardinality({x \in {free} : f \in x}) + Cardinality({t \in AnyThread : hand[t] = f})
  + Cardinality({d \in Directories : d = f})
  + Cardinality({x \in Directories \X Table : pde[x[1]][x[2]] = f})
  + Cardinality({x \in Directories \X UPage :
                  lookup_page(x[1], x[2]).P /\ lookup_page(x[1], x[2]).frame = f})

(* Every frame is in exactly one place: free, in a thread's hand, a        *)
(* directory, a table or a mapped page; pagedir_destroy loses none and     *)
(* frees none twice.                                                       *)
FramesExact == \A f \in Frame : Uses(f) = 1

(* ActiveNotFreed, TlbCoherent and FramesExact together: frames and the    *)
(* translations that the processor may use.                                *)
DirectoriesCoherent == ActiveNotFreed /\ TlbCoherent /\ FramesExact

-----------------------------------------------------------------------------
(* Parts of the inductive invariant behind these properties.               *)

Entry == [P : BOOLEAN, W : BOOLEAN, A : BOOLEAN, D : BOOLEAN, frame : Frame \cup {NONE}]
ThreadsInv ==
  /\ pagedir \in [AnyThread -> Frame \cup {NONE}] /\ pd \in [AnyThread -> Frame \cup {NONE}]
  /\ hand \in [AnyThread -> Frame \cup {NONE}] /\ inv \in [AnyThread -> Frame \cup {NONE}]
  /\ DOMAIN pc = AnyThread /\ current \in AnyThread
TablesInv ==
  /\ pde \in [Frame -> [Table -> Frame \cup {NONE}]] /\ pte \in [Frame -> [UPage -> Entry]]
  /\ free \subseteq Frame /\ cr3 \in Frame \cup {NONE} /\ DOMAIN tlb = UPage
  /\ modified \subseteq Frame \X UPage /\ touched \subseteq Frame \X UPage

(* A process has a directory from load to exit, and pd from there on.      *)
(* Outside its program a thread has nothing to invalidate.                 *)
PhaseInv ==
  /\ \A t \in AnyThread : pagedir[t] # NONE <=> t # KThread /\ pc[t] \in {"loading", "run"}
  /\ \A t \in AnyThread : pd[t] # NONE <=> pc[t] \in {"exiting", "destroying"}
  /\ \A t \in AnyThread : pc[t] # "run" => inv[t] = NONE
  /\ pc[KThread] = "run"

DirsOf(t) == {pagedir[t], pd[t]}
IsDir(f) == \E t \in AnyThread : f \in DirsOf(t)
IsHand(f) == \E t \in AnyThread : hand[t] = f
IsTable(f) == \E d \in Frame, k \in Table : pde[d][k] = f
Maps(d, v, f) == pte[d][v].P /\ pte[d][v].frame = f
IsPage(f) == \E d \in Frame, v \in UPage : Maps(d, v, f)

(* No two threads, entries or pages share a frame. *)
UniqueDirs == \A f \in Frame : \A t, u \in AnyThread : f \in DirsOf(t) /\ f \in DirsOf(u) => t = u
UniqueHands == \A f \in Frame : \A t, u \in AnyThread : hand[t] = f /\ hand[u] = f => t = u
UniqueTables ==
  \A f, c, d \in Frame : \A j, k \in Table : pde[c][j] = f /\ pde[d][k] = f => c = d /\ j = k
UniquePages ==
  \A f, c, d \in Frame : \A v, w \in UPage : Maps(c, v, f) /\ Maps(d, w, f) => c = d /\ v = w
UniqueInv == UniqueDirs /\ UniqueHands /\ UniqueTables /\ UniquePages

(* A frame has one use. *)
PlaceInv ==
  \A f \in Frame :
    /\ f \in free \/ IsDir(f) \/ IsHand(f) \/ IsTable(f) \/ IsPage(f)
    /\ f \in free => ~IsDir(f) /\ ~IsHand(f) /\ ~IsTable(f) /\ ~IsPage(f)
    /\ IsDir(f) => ~IsHand(f) /\ ~IsTable(f) /\ ~IsPage(f)
    /\ IsHand(f) => ~IsTable(f) /\ ~IsPage(f)
    /\ IsTable(f) => ~IsPage(f)

(* Only directories have entries, and pages only where they have a table. *)
EntryInv ==
  /\ \A d \in Frame, k \in Table : pde[d][k] # NONE => IsDir(d)
  /\ \A d \in Frame, v \in UPage : pte[d][v].P => pde[d][pd_no(v)] # NONE /\ pte[d][v].frame # NONE
  /\ \A d \in Frame, v \in UPage : <<d, v>> \in modified \cup touched => IsDir(d)

(* The entry e covers what the processor has cached in c. *)
Covers(e, c) == e.P /\ e.A /\ e.frame = c.frame /\ (c.W => e.W) /\ (c.D => e.D)

(* The active directory is that of the running thread, and its entries     *)
(* cover those cached unless invalidate_pagedir is due.                    *)
CpuInv ==
  /\ cr3 = NONE \/ cr3 = pagedir[current] \/ (pc[current] = "exiting" /\ cr3 = pd[current])
  /\ cr3 = NONE => \A v \in UPage : tlb[v] = NONE
  /\ cr3 # NONE /\ inv[current] # cr3 =>
       \A v \in UPage : tlb[v] # NONE => Covers(pte[cr3][v], tlb[v])

BitsInv ==
  \A d \in Frame, v \in UPage :
    (<<d, v>> \in modified => pte[d][v].D) /\ (<<d, v>> \in touched => pte[d][v].A)

IInv ==
  /\ ThreadsInv /\ TablesInv /\ PhaseInv
  /\ UniqueInv /\ PlaceInv /\ EntryInv
  /\ CpuInv /\ BitsInv

=============================================================================
