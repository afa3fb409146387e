---------------------------- MODULE PagedirProofs ----------------------------
(***************************************************************************)
(* Page directories, for any number of threads, pages and frames: every    *)
(* frame has one use, no directory that the processor may use is free, and *)
(* the processor's copies of entries agree with the tables whenever a user *)
(* program runs.                                                           *)
(*                                                                         *)
(* The invariant is IInv of Pagedir.  The lemmas follow the functions of   *)
(* pagedir.c: one for the steps that leave the use of every frame alone,   *)
(* one for each step that changes it.                                      *)
(***************************************************************************)
EXTENDS Pagedir, FiniteSetTheorems, TLAPS

LEMMA TableLemma == \A v \in UPage : pd_no(v) \in Table
  BY Zenon DEF Table

(* The directories of the threads, as sets, stay the same. *)
SameDirs == \A t \in AnyThread : \A f \in Frame : f \in DirsOf(t)' <=> f \in DirsOf(t)

(* Every page stays mapped to its frame, or unmapped. *)
SameMaps ==
  \A d \in Frame, v \in UPage : (pte'[d][v].P <=> pte[d][v].P) /\ pte'[d][v].frame = pte[d][v].frame

(* A step that only changes bits of entries, or in which exit moves a      *)
(* directory from pagedir to pd, leaves the use of every frame alone.      *)
LEMMA SameUses ==
  ASSUME UniqueInv, PlaceInv, SameDirs, SameMaps, UNCHANGED <<pde, free, hand>>
  PROVE  UniqueInv' /\ PlaceInv'
<1>1. \A f \in Frame : IsDir(f)' <=> IsDir(f)
  BY Zenon DEF SameDirs, IsDir
<1>2. \A f \in Frame : IsHand(f)' <=> IsHand(f)
  BY Zenon DEF IsHand
<1>3. \A f \in Frame : IsTable(f)' <=> IsTable(f)
  BY Zenon DEF IsTable
<1>4. \A d, f \in Frame : \A v \in UPage : Maps(d, v, f)' <=> Maps(d, v, f)
  BY Zenon DEF SameMaps, Maps
<1>5. \A f \in Frame : IsPage(f)' <=> IsPage(f)
  BY <1>4, Zenon DEF IsPage
<1>6. PlaceInv'
  BY <1>1, <1>2, <1>3, <1>5, Zenon DEF PlaceInv
<1>7. UniqueDirs' /\ UniqueHands' /\ UniqueTables'
  BY DEF UniqueInv, UniqueDirs, UniqueHands, UniqueTables, SameDirs
<1>8. UniquePages'
  BY <1>4 DEF UniqueInv, UniquePages
<1> QED BY <1>6, <1>7, <1>8 DEF UniqueInv

(* Such a step leaves the shape of the tables alone. *)
LEMMA SameEntries ==
  ASSUME EntryInv, SameDirs, SameMaps, UNCHANGED pde,
         \A d \in Frame, v \in UPage : <<d, v>> \in modified' \cup touched' =>
           <<d, v>> \in modified \cup touched \/ IsDir(d)
  PROVE  EntryInv'
<1>1. \A f \in Frame : IsDir(f)' <=> IsDir(f)
  BY Zenon DEF SameDirs, IsDir
<1>2. \A d \in Frame, k \in Table : pde'[d][k] # NONE => IsDir(d)'
  BY <1>1, Zenon DEF EntryInv
<1>3. \A d \in Frame, v \in UPage : pte'[d][v].P => pde'[d][pd_no(v)] # NONE /\ pte'[d][v].frame # NONE
  BY DEF EntryInv, SameMaps
<1>4. \A d \in Frame, v \in UPage : <<d, v>> \in modified' \cup touched' => IsDir(d)'
  BY <1>1, Zenon DEF EntryInv
<1> QED BY <1>2, <1>3, <1>4, Zenon DEF EntryInv

(* thread_schedule_tail: the next thread's directory becomes active, with  *)
(* an empty TLB.                                                           *)
LEMMA ActivateKeeps ==
  ASSUME PagedirAssumption, IInv, NEW t \in AnyThread, process_activate(t)
  PROVE  IInv'
<1>. USE DEF process_activate, pagedir_activate, ghost
<1>1. SameDirs /\ SameMaps
  BY Zenon DEF SameDirs, SameMaps, DirsOf
<1>2. UniqueInv' /\ PlaceInv'
  BY <1>1, SameUses, Zenon DEF IInv
<1>3. EntryInv'
  BY <1>1, SameEntries, Zenon DEF IInv
<1>4. ThreadsInv' /\ TablesInv'
  BY Zenon DEF IInv, ThreadsInv, TablesInv, Flushed
<1>5. PhaseInv'
  BY Zenon DEF IInv, PhaseInv
<1>6. CpuInv'
  BY Zenon DEF IInv, CpuInv, Flushed
<1>7. BitsInv'
  BY Zenon DEF IInv, BitsInv
<1> QED BY <1>2, <1>3, <1>4, <1>5, <1>6, <1>7 DEF IInv

(* load activates the directory that it made. *)
LEMMA LoadKeeps ==
  ASSUME PagedirAssumption, IInv, NEW t \in Proc, LoadActivate(t)
  PROVE  IInv'
<1>. USE DEF LoadActivate, pagedir_activate, ghost
<1>0. t \in AnyThread /\ t # KThread
  BY Zenon DEF AnyThread, PagedirAssumption
<1>1. SameDirs /\ SameMaps
  BY Zenon DEF SameDirs, SameMaps, DirsOf
<1>2. UniqueInv' /\ PlaceInv'
  BY <1>1, SameUses, Zenon DEF IInv
<1>3. EntryInv'
  BY <1>1, SameEntries, Zenon DEF IInv
<1>4. ThreadsInv' /\ TablesInv'
  BY <1>0, Zenon DEF IInv, ThreadsInv, TablesInv, Flushed
<1>5. PhaseInv'
  <2>1. \A u \in AnyThread : pc'[u] = IF u = t THEN "run" ELSE pc[u]
    BY Zenon DEF IInv, ThreadsInv
  <2>2. inv' = inv /\ pagedir' = pagedir /\ pd' = pd /\ pc[t] = "loading"
    BY Zenon
  <2> QED BY <1>0, <2>1, <2>2 DEF IInv, PhaseInv, AnyThread
<1>6. CpuInv'
  BY Zenon DEF IInv, CpuInv, Flushed
<1>7. BitsInv'
  BY Zenon DEF IInv, BitsInv
<1> QED BY <1>2, <1>3, <1>4, <1>5, <1>6, <1>7 DEF IInv

(* invalidate_pagedir empties the TLB if its directory is the active one;  *)
(* otherwise the TLB holds nothing of it.                                  *)
LEMMA InvalidateKeeps ==
  ASSUME PagedirAssumption, IInv, NEW t \in AnyThread, invalidate_pagedir(t)
  PROVE  IInv'
<1>. USE DEF invalidate_pagedir, pagedir_activate, ghost
<1>1. SameDirs /\ SameMaps
  BY Zenon DEF SameDirs, SameMaps, DirsOf
<1>2. UniqueInv' /\ PlaceInv'
  BY <1>1, SameUses, Zenon DEF IInv
<1>3. EntryInv'
  BY <1>1, SameEntries, Zenon DEF IInv
<1>4. ThreadsInv' /\ TablesInv'
  BY Zenon DEF IInv, ThreadsInv, TablesInv, Flushed
<1>5. PhaseInv'
  BY Zenon DEF IInv, PhaseInv, ThreadsInv
<1>6. CpuInv'
  BY Zenon DEF IInv, CpuInv, Flushed
<1>7. BitsInv'
  BY Zenon DEF IInv, BitsInv
<1> QED BY <1>2, <1>3, <1>4, <1>5, <1>6, <1>7 DEF IInv

-----------------------------------------------------------------------------
Writes(d, v, e) == pte' = [pte EXCEPT ![d][v] = e]

(* Writing one entry of a table changes that entry only. *)
LEMMA WriteEntry ==
  ASSUME TablesInv, NEW d \in Frame, NEW v \in UPage, NEW e \in Entry, Writes(d, v, e)
  PROVE  /\ pte' \in [Frame -> [UPage -> Entry]] /\ pte'[d][v] = e
         /\ \A c \in Frame, w \in UPage : c # d \/ w # v => pte'[c][w] = pte[c][w]
  BY DEF TablesInv, Writes

(* Entries with the present bit, the accessed bit or both bits of the      *)
(* processor changed.                                                      *)
LEMMA BitsLemma ==
  ASSUME NEW r \in Entry, NEW b \in BOOLEAN
  PROVE  /\ \E e \in Entry : /\ e = [r EXCEPT !.P = FALSE] /\ ~e.P /\ e.frame = r.frame
                            /\ (r.A => e.A) /\ (r.D => e.D)
         /\ \E e \in Entry : /\ e = [r EXCEPT !.A = FALSE] /\ (e.P <=> r.P) /\ e.frame = r.frame
                            /\ (r.D => e.D)
         /\ \E e \in Entry : /\ e = [r EXCEPT !.A = TRUE, !.D = r.D \/ b] /\ (e.P <=> r.P)
                            /\ e.frame = r.frame /\ e.A /\ (e.D <=> r.D \/ b) /\ (r.W => e.W)
<1>1. \E e \in Entry : /\ e = [r EXCEPT !.P = FALSE] /\ ~e.P /\ e.frame = r.frame
                      /\ (r.A => e.A) /\ (r.D => e.D)
  <2> USE DEF Entry
  <2> WITNESS [r EXCEPT !.P = FALSE] \in Entry
  <2> QED BY DEF Entry
<1>2. \E e \in Entry : /\ e = [r EXCEPT !.A = FALSE] /\ (e.P <=> r.P) /\ e.frame = r.frame
                      /\ (r.D => e.D)
  <2> USE DEF Entry
  <2> WITNESS [r EXCEPT !.A = FALSE] \in Entry
  <2> QED BY DEF Entry
<1>3. \E e \in Entry : /\ e = [r EXCEPT !.A = TRUE, !.D = r.D \/ b] /\ (e.P <=> r.P)
                      /\ e.frame = r.frame /\ e.A /\ (e.D <=> r.D \/ b) /\ (r.W => e.W)
  <2> USE DEF Entry
  <2> WITNESS [r EXCEPT !.A = TRUE, !.D = r.D \/ b] \in Entry
  <2> QED BY DEF Entry
<1> QED BY <1>1, <1>2, <1>3

(* lookup_page finds the entry of a mapped page. *)
LEMMA LookupLemma ==
  ASSUME EntryInv, NEW d \in Frame, NEW v \in UPage
  PROVE  /\ lookup_page(d, v).P <=> pte[d][v].P
         /\ pte[d][v].P => lookup_page(d, v) = pte[d][v]
         /\ lookup_page(d, v).A => lookup_page(d, v) = pte[d][v]
  BY DEF EntryInv, lookup_page, Zero

(* pagedir_set_accessed (upage, false): the bit is cleared, and the active *)
(* directory is to be invalidated.                                         *)
LEMMA AccessedKeeps ==
  ASSUME PagedirAssumption, IInv, NEW t \in AnyThread, NEW d \in Live, NEW v \in UPage,
         pagedir_set_accessed(t, d, v)
  PROVE  IInv'
<1>1. d \in Frame /\ pte[d][v] \in Entry
  BY DEF Live, IInv, ThreadsInv, TablesInv
<1>2. /\ current = t /\ inv[t] = NONE /\ pc[t] = "run" /\ inv' = [inv EXCEPT ![t] = d]
       /\ touched' = touched \ {<<d, v>>}
       /\ UNCHANGED <<pagedir, pd, pde, free, hand, pc, current, cr3, tlb, modified>>
  BY Zenon DEF pagedir_set_accessed, Between, Invalidate, cpu
<1>3. PICK e \in Entry : /\ e = [pte[d][v] EXCEPT !.A = FALSE] /\ (e.P <=> pte[d][v].P)
                         /\ e.frame = pte[d][v].frame /\ (pte[d][v].D => e.D)
  BY <1>1, BitsLemma
<1>4. Writes(d, v, e) /\ TablesInv
  BY <1>3, Zenon DEF Writes, IInv, pagedir_set_accessed
<1>5. /\ pte' \in [Frame -> [UPage -> Entry]] /\ pte'[d][v] = e
      /\ \A c \in Frame, w \in UPage : c # d \/ w # v => pte'[c][w] = pte[c][w]
  BY <1>1, <1>3, <1>4, WriteEntry
<1>6. SameDirs /\ SameMaps
  <2>1. SameDirs
    BY <1>2, Zenon DEF SameDirs, DirsOf
  <2>2. SameMaps
    BY <1>3, <1>5 DEF SameMaps
  <2> QED BY <2>1, <2>2
<1>7. UniqueInv' /\ PlaceInv'
  BY <1>6, <1>2, SameUses, Zenon DEF IInv
<1>8. EntryInv'
  BY <1>6, <1>2, SameEntries, Zenon DEF IInv
<1>9. ThreadsInv'
  BY <1>1, <1>2, Zenon DEF IInv, ThreadsInv
<1>10. TablesInv'
  BY <1>5, <1>2, Zenon DEF IInv, TablesInv
<1>11. PhaseInv'
  BY <1>2, Zenon DEF IInv, PhaseInv, ThreadsInv
<1>12. CpuInv'
  <2>1. inv'[current] = d /\ inv[current] = NONE
    BY <1>2, Zenon DEF IInv, ThreadsInv
  <2>2. cr3 # d /\ cr3 # NONE => \A w \in UPage : pte'[cr3][w] = pte[cr3][w]
    BY <1>5, Zenon DEF IInv, TablesInv
  <2> QED BY <1>2, <2>1, <2>2, Zenon DEF IInv, CpuInv
<1>13. BitsInv'
  BY <1>1, <1>3, <1>5, <1>2, Zenon DEF IInv, BitsInv
<1> QED BY <1>7, <1>8, <1>9, <1>10, <1>11, <1>12, <1>13 DEF IInv

(* process_exit clears pagedir and keeps the directory in pd. *)
LEMMA ExitNullKeeps ==
  ASSUME PagedirAssumption, IInv, NEW t \in Proc, ExitNull(t)
  PROVE  IInv'
<1>. USE DEF ExitNull, Between, cpu, ghost
<1>0. t \in AnyThread /\ pd[t] = NONE /\ pagedir[t] \in Frame
  BY DEF AnyThread, IInv, PhaseInv, ThreadsInv
<1>1. SameDirs /\ SameMaps
  <2>1. \A u \in AnyThread \ {t} : pagedir'[u] = pagedir[u] /\ pd'[u] = pd[u]
    BY DEF IInv, ThreadsInv
  <2>2. pagedir'[t] = NONE /\ pd'[t] = pagedir[t]
    BY <1>0 DEF IInv, ThreadsInv
  <2> QED BY <1>0, <2>1, <2>2 DEF SameDirs, SameMaps, DirsOf
<1>2. UniqueInv' /\ PlaceInv'
  BY <1>1, SameUses, Zenon DEF IInv
<1>3. EntryInv'
  BY <1>1, SameEntries, Zenon DEF IInv
<1>4. ThreadsInv' /\ TablesInv'
  BY <1>0, Zenon DEF IInv, ThreadsInv, TablesInv
<1>5. PhaseInv'
  BY <1>0 DEF IInv, PhaseInv, ThreadsInv, PagedirAssumption
<1>6. CpuInv'
  BY <1>0, Zenon DEF IInv, CpuInv, ThreadsInv
<1>7. BitsInv'
  BY Zenon DEF IInv, BitsInv
<1> QED BY <1>2, <1>3, <1>4, <1>5, <1>6, <1>7 DEF IInv

(* It activates the base directory before it destroys that one. *)
LEMMA ExitActivateKeeps ==
  ASSUME PagedirAssumption, IInv, NEW t \in Proc, ExitActivate(t)
  PROVE  IInv'
<1>. USE DEF ExitActivate, pagedir_activate, ghost
<1>0. t \in AnyThread
  BY DEF AnyThread
<1>1. SameDirs /\ SameMaps
  BY Zenon DEF SameDirs, SameMaps, DirsOf
<1>2. UniqueInv' /\ PlaceInv'
  BY <1>1, SameUses, Zenon DEF IInv
<1>3. EntryInv'
  BY <1>1, SameEntries, Zenon DEF IInv
<1>4. ThreadsInv' /\ TablesInv'
  BY <1>0, Zenon DEF IInv, ThreadsInv, TablesInv, Flushed
<1>5. PhaseInv'
  BY <1>0 DEF IInv, PhaseInv, ThreadsInv
<1>6. CpuInv'
  BY Zenon DEF IInv, CpuInv, Flushed
<1>7. BitsInv'
  BY Zenon DEF IInv, BitsInv
<1> QED BY <1>2, <1>3, <1>4, <1>5, <1>6, <1>7 DEF IInv
(* The processor sets the bits of the entry that it uses; what it has in   *)
(* the TLB needs no new bit.                                               *)
LEMMA AccessKeeps ==
  ASSUME PagedirAssumption, IInv, NEW t \in Proc, NEW v \in UPage, NEW write \in BOOLEAN,
         UserAccess(t, v, write)
  PROVE  IInv'
<1>. DEFINE hit == tlb[v] # NONE /\ (write => tlb[v].D)
<1>0. /\ t \in AnyThread /\ cr3 \in Frame /\ cr3 = pagedir[t] /\ inv[t] = NONE /\ current = t
      /\ IsDir(cr3) /\ pte[cr3][v] \in Entry
  BY DEF UserAccess, Between, AnyThread, IInv, TablesInv, CpuInv, IsDir, DirsOf
<1>1. /\ modified' = IF write THEN modified \cup {<<cr3, v>>} ELSE modified
      /\ touched' = touched \cup {<<cr3, v>>}
      /\ UNCHANGED <<pagedir, pd, pde, free, hand, inv, pc, current, cr3>>
  BY Zenon DEF UserAccess
<1>2. SameMaps /\ TablesInv' /\ BitsInv' /\ \A w \in UPage : tlb'[w] # NONE => Covers(pte'[cr3][w], tlb'[w])
  <2>1. CASE hit /\ UNCHANGED <<pte, tlb>>
    <3>1. pte[cr3][v].A /\ (write => pte[cr3][v].D)
      BY <1>0, <2>1, Zenon DEF IInv, CpuInv, Covers, PagedirAssumption
    <3>2. SameMaps
      BY <2>1, Zenon DEF SameMaps
    <3>3. TablesInv'
      BY <1>0, <1>1, <2>1 DEF IInv, TablesInv
    <3>4. BitsInv'
      BY <1>0, <1>1, <2>1, <3>1 DEF IInv, BitsInv
    <3>5. \A w \in UPage : tlb'[w] # NONE => Covers(pte'[cr3][w], tlb'[w])
      BY <1>0, <2>1, Zenon DEF IInv, CpuInv, PagedirAssumption
    <3> QED BY <3>2, <3>3, <3>4, <3>5
  <2>2. CASE /\ lookup_page(cr3, v).P
             /\ pte' = [pte EXCEPT ![cr3][v] =
                          [lookup_page(cr3, v) EXCEPT !.A = TRUE, !.D = lookup_page(cr3, v).D \/ write]]
             /\ tlb' = [tlb EXCEPT ![v] = pte'[cr3][v]]
    <3>1. pte[cr3][v].P /\ lookup_page(cr3, v) = pte[cr3][v]
      <4>1. lookup_page(cr3, v).P /\ EntryInv /\ cr3 \in Frame
        BY <1>0, <2>2, ZenonT(40) DEF IInv
      <4> QED BY <4>1, LookupLemma, Zenon
    <3>2. PICK e \in Entry :
            /\ e = [pte[cr3][v] EXCEPT !.A = TRUE, !.D = pte[cr3][v].D \/ write] /\ (e.P <=> pte[cr3][v].P)
            /\ e.frame = pte[cr3][v].frame /\ e.A /\ (e.D <=> pte[cr3][v].D \/ write) /\ (pte[cr3][v].W => e.W)
      BY <1>0, BitsLemma
    <3>3. Writes(cr3, v, e) /\ TablesInv
      BY <2>2, <3>1, <3>2, Zenon DEF Writes, IInv
    <3>4. /\ pte' \in [Frame -> [UPage -> Entry]] /\ pte'[cr3][v] = e
          /\ \A c \in Frame, w \in UPage : c # cr3 \/ w # v => pte'[c][w] = pte[c][w]
      BY <1>0, <3>2, <3>3, WriteEntry
    <3>5. DOMAIN tlb' = UPage /\ tlb'[v] = e /\ \A w \in UPage \ {v} : tlb'[w] = tlb[w]
      BY <2>2, <3>3, <3>4, Zenon DEF TablesInv
    <3>6. SameMaps
      <4>1. (pte'[cr3][v].P <=> pte[cr3][v].P) /\ pte'[cr3][v].frame = pte[cr3][v].frame
        BY <3>2, <3>4, Zenon
      <4> QED BY <3>4, <4>1 DEF SameMaps
    <3>7. TablesInv'
      BY <1>0, <1>1, <3>3, <3>4, <3>5 DEF TablesInv
    <3>8. BitsInv'
      <4>1. \A c \in Frame, w \in UPage : c # cr3 \/ w # v =>
              /\ <<c, w>> \in modified' <=> <<c, w>> \in modified
              /\ <<c, w>> \in touched' <=> <<c, w>> \in touched
        BY <1>1
      <4>2. <<cr3, v>> \in modified' => <<cr3, v>> \in modified \/ write
        BY <1>1
      <4>3. <<cr3, v>> \in modified' => e.D
        BY <1>0, <3>2, <4>2, Zenon DEF IInv, BitsInv
      <4>4. ASSUME NEW c \in Frame, NEW w \in UPage
            PROVE  (<<c, w>> \in modified' => pte'[c][w].D) /\ (<<c, w>> \in touched' => pte'[c][w].A)
        <5>1. CASE c = cr3 /\ w = v
          BY <3>2, <3>4, <4>3, <5>1, Zenon
        <5>2. CASE c # cr3 \/ w # v
          <6>1. pte'[c][w] = pte[c][w]
            BY <3>4, <5>2, Zenon
          <6> QED BY <4>1, <5>2, <6>1, Zenon DEF IInv, BitsInv
        <5> QED BY <5>1, <5>2, Zenon
      <4> QED BY <4>4, Zenon DEF BitsInv
    <3>9. \A w \in UPage : tlb'[w] # NONE => Covers(pte'[cr3][w], tlb'[w])
      <4>1. Covers(e, e)
        BY <3>1, <3>2, Zenon DEF Covers
      <4>2. \A w \in UPage : tlb[w] # NONE => Covers(pte[cr3][w], tlb[w])
        BY <1>0, Zenon DEF IInv, CpuInv, PagedirAssumption
      <4> QED BY <1>0, <3>4, <3>5, <4>1, <4>2, ZenonT(40)
    <3> QED BY <3>6, <3>7, <3>8, <3>9
  <2> QED BY <2>1, <2>2, Zenon DEF UserAccess
<1>3. SameDirs
  BY <1>1, Zenon DEF SameDirs, DirsOf
<1>4. UniqueInv' /\ PlaceInv'
  BY <1>1, <1>2, <1>3, SameUses, Zenon DEF IInv
<1>5. EntryInv'
  <2>1. \A c \in Frame, w \in UPage : <<c, w>> \in modified' \cup touched' =>
          <<c, w>> \in modified \cup touched \/ IsDir(c)
    BY <1>0, <1>1
  <2> QED BY <1>1, <1>2, <1>3, <2>1, SameEntries, Zenon DEF IInv
<1>6. ThreadsInv' /\ PhaseInv'
  BY <1>1, Zenon DEF IInv, ThreadsInv, PhaseInv
<1>7. CpuInv'
  BY <1>0, <1>1, <1>2, Zenon DEF CpuInv, PagedirAssumption
<1> QED BY <1>2, <1>4, <1>5, <1>6, <1>7 DEF IInv
-----------------------------------------------------------------------------
(* pagedir_clear_page: a page's frame passes to the thread's hand. *)
LEMMA ClearKeeps ==
  ASSUME PagedirAssumption, IInv, NEW t \in AnyThread, NEW d \in Live, NEW v \in UPage,
         pagedir_clear_page(t, d, v)
  PROVE  IInv'
<1>1. d \in Frame /\ pte[d][v] \in Entry
  BY DEF Live, IInv, ThreadsInv, TablesInv
<1>2. /\ current = t /\ inv[t] = NONE /\ hand[t] = NONE /\ pc[t] = "run" /\ inv' = [inv EXCEPT ![t] = d]
      /\ hand' = [hand EXCEPT ![t] = pte[d][v].frame] /\ lookup_page(d, v).P
      /\ UNCHANGED <<pagedir, pd, pde, free, pc, current, cr3, tlb, modified, touched>>
  BY Zenon DEF pagedir_clear_page, Between, Invalidate, cpu, ghost
<1>3. PICK e \in Entry : /\ e = [pte[d][v] EXCEPT !.P = FALSE] /\ ~e.P /\ e.frame = pte[d][v].frame
                         /\ (pte[d][v].A => e.A) /\ (pte[d][v].D => e.D)
  BY <1>1, BitsLemma
<1>4. Writes(d, v, e) /\ TablesInv
  BY <1>3, Zenon DEF Writes, IInv, pagedir_clear_page
<1>5. /\ pte' \in [Frame -> [UPage -> Entry]] /\ pte'[d][v] = e
      /\ \A c \in Frame, w \in UPage : c # d \/ w # v => pte'[c][w] = pte[c][w]
  BY <1>1, <1>3, <1>4, WriteEntry
<1>6. PICK f0 \in Frame : f0 = pte[d][v].frame /\ Maps(d, v, f0)
  <2>1. pte[d][v].P /\ pte[d][v].frame # NONE
    BY <1>1, <1>2, LookupLemma, Zenon DEF IInv, EntryInv
  <2>2. pte[d][v].frame \in Frame
    BY <1>1, <2>1 DEF Entry
  <2> QED BY <2>1, <2>2, Zenon DEF Maps
<1>7. hand'[t] = f0 /\ \A u \in AnyThread \ {t} : hand'[u] = hand[u]
  BY <1>2, <1>6, Zenon DEF IInv, ThreadsInv
<1>8. \A c, f \in Frame, w \in UPage : Maps(c, w, f)' <=> Maps(c, w, f) /\ (c # d \/ w # v)
  BY <1>3, <1>5 DEF Maps
<1>9. SameDirs
  BY <1>2, Zenon DEF SameDirs, DirsOf
<1>10. \A f \in Frame : /\ IsDir(f)' <=> IsDir(f)
                        /\ IsTable(f)' <=> IsTable(f)
                        /\ IsHand(f)' <=> IsHand(f) \/ f = f0
                        /\ IsPage(f)' <=> IsPage(f) /\ f # f0
  <2>1. \A f \in Frame : (IsDir(f)' <=> IsDir(f)) /\ (IsTable(f)' <=> IsTable(f))
    BY <1>2, <1>9, Zenon DEF IsDir, IsTable, SameDirs
  <2>2. \A f \in Frame : IsHand(f)' <=> IsHand(f) \/ f = f0
    BY <1>2, <1>7 DEF IsHand, PagedirAssumption
  <2>3. \A f \in Frame : IsPage(f)' <=> IsPage(f) /\ f # f0
    <3>1. \A c, f \in Frame, w \in UPage : Maps(c, w, f) => (c = d /\ w = v <=> f = f0)
      BY <1>1, <1>6 DEF Maps, IInv, UniqueInv, UniquePages
    <3>2. \A c, f \in Frame, w \in UPage : Maps(c, w, f)' <=> Maps(c, w, f) /\ f # f0
      BY <1>8, <3>1, Zenon
    <3> QED BY <3>2, Zenon DEF IsPage
  <2> QED BY <2>1, <2>2, <2>3
<1>11. IsPage(f0)
  BY <1>1, <1>6, Zenon DEF IsPage
<1>12. PlaceInv'
  BY <1>2, <1>10, <1>11, Zenon DEF IInv, PlaceInv
<1>13. UniqueInv'
  <2>1. UniqueDirs' /\ UniqueTables'
    BY <1>2, <1>9 DEF IInv, UniqueInv, UniqueDirs, UniqueTables, SameDirs
  <2>2. UniqueHands'
    <3>1. \A u \in AnyThread : hand[u] # f0
      BY <1>11, Zenon DEF IInv, PlaceInv, IsHand
    <3> QED BY <1>7, <3>1 DEF IInv, UniqueInv, UniqueHands
  <2>3. UniquePages'
    BY <1>8 DEF IInv, UniqueInv, UniquePages
  <2> QED BY <2>1, <2>2, <2>3 DEF UniqueInv
<1>14. EntryInv'
  <2>1. \A c \in Frame, w \in UPage : pte'[c][w].P => pte[c][w].P /\ pte'[c][w].frame = pte[c][w].frame
    BY <1>3, <1>5, ZenonT(40)
  <2> QED BY <1>2, <1>10, <2>1 DEF IInv, EntryInv
<1>15. ThreadsInv'
  BY <1>1, <1>2, <1>6, Zenon DEF IInv, ThreadsInv
<1>16. TablesInv'
  BY <1>2, <1>5, Zenon DEF IInv, TablesInv
<1>17. PhaseInv'
  BY <1>2, Zenon DEF IInv, PhaseInv, ThreadsInv
<1>18. CpuInv'
  <2>1. inv'[current] = d /\ inv[current] = NONE
    BY <1>2, Zenon DEF IInv, ThreadsInv
  <2>2. cr3 # d /\ cr3 # NONE => \A w \in UPage : pte'[cr3][w] = pte[cr3][w]
    BY <1>5, Zenon DEF IInv, TablesInv
  <2> QED BY <1>2, <2>1, <2>2, Zenon DEF IInv, CpuInv
<1>19. BitsInv'
  BY <1>1, <1>2, <1>3, <1>5, ZenonT(40) DEF IInv, BitsInv
<1> QED BY <1>12, <1>13, <1>14, <1>15, <1>16, <1>17, <1>18, <1>19 DEF IInv

(* The frame in a thread's hand goes back to the allocator. *)
LEMMA GiveBackKeeps ==
  ASSUME PagedirAssumption, IInv, NEW t \in AnyThread, GiveBack(t)
  PROVE  IInv'
<1>1. PICK f0 \in Frame : f0 = hand[t]
  BY DEF GiveBack, IInv, ThreadsInv
<1>2. /\ free' = free \cup {f0} /\ hand' = [hand EXCEPT ![t] = NONE]
      /\ UNCHANGED <<pagedir, pd, pde, pte, inv, pc, current, cr3, tlb, modified, touched>>
  BY <1>1, Zenon DEF GiveBack, cpu, ghost
<1>3. hand'[t] = NONE /\ \A u \in AnyThread \ {t} : hand'[u] = hand[u]
  BY <1>2, Zenon DEF IInv, ThreadsInv
<1>4. SameDirs /\ SameMaps
  BY <1>2, Zenon DEF SameDirs, SameMaps, DirsOf
<1>5. \A f \in Frame : /\ IsDir(f)' <=> IsDir(f)
                       /\ IsTable(f)' <=> IsTable(f)
                       /\ IsHand(f)' <=> IsHand(f) /\ f # f0
                       /\ IsPage(f)' <=> IsPage(f)
  <2>1. \A f \in Frame : (IsDir(f)' <=> IsDir(f)) /\ (IsTable(f)' <=> IsTable(f)) /\ (IsPage(f)' <=> IsPage(f))
    BY <1>2, <1>4, Zenon DEF IsDir, IsTable, IsPage, Maps, SameDirs
  <2>2. \A f \in Frame : IsHand(f)' <=> IsHand(f) /\ f # f0
    BY <1>1, <1>3 DEF IsHand, PagedirAssumption, IInv, UniqueInv, UniqueHands
  <2> QED BY <2>1, <2>2
<1>6. IsHand(f0)
  BY <1>1, Zenon DEF IsHand
<1>7. PlaceInv'
  BY <1>2, <1>5, <1>6 DEF IInv, PlaceInv
<1>8. UniqueInv'
  <2>1. UniqueDirs' /\ UniqueTables'
    BY <1>2, <1>4 DEF IInv, UniqueInv, UniqueDirs, UniqueTables, SameDirs
  <2>2. UniqueHands'
    BY <1>3 DEF IInv, UniqueInv, UniqueHands, PagedirAssumption
  <2>3. UniquePages'
    BY <1>2 DEF IInv, UniqueInv, UniquePages, Maps
  <2> QED BY <2>1, <2>2, <2>3 DEF UniqueInv
<1>9. EntryInv'
  BY <1>2, <1>4, SameEntries, Zenon DEF IInv
<1>10. ThreadsInv' /\ TablesInv'
  BY <1>1, <1>2, Zenon DEF IInv, ThreadsInv, TablesInv
<1>11. PhaseInv' /\ CpuInv' /\ BitsInv'
  BY <1>2, Zenon DEF IInv, PhaseInv, CpuInv, BitsInv
<1> QED BY <1>7, <1>8, <1>9, <1>10, <1>11 DEF IInv
-----------------------------------------------------------------------------
(* pagedir_create: a free frame becomes a directory without entries. *)
LEMMA CreateKeeps ==
  ASSUME PagedirAssumption, IInv, NEW t \in Proc, pagedir_create(t)
  PROVE  IInv'
<1>1. PICK f0 \in free :
        /\ free' = free \ {f0} /\ pagedir' = [pagedir EXCEPT ![t] = f0]
        /\ pde' = [pde EXCEPT ![f0] = [k \in Table |-> NONE]]
        /\ pte' = [pte EXCEPT ![f0] = [v \in UPage |-> Zero]]
  BY Zenon DEF pagedir_create, Lowest
<1>2. /\ current = t /\ pc[t] = "new" /\ pc' = [pc EXCEPT ![t] = "loading"]
      /\ UNCHANGED <<pd, hand, inv, current, cr3, tlb, modified, touched>>
  BY Zenon DEF pagedir_create, cpu, ghost
<1>3. /\ t \in AnyThread /\ t # KThread /\ f0 \in Frame /\ f0 # NONE
      /\ pagedir[t] = NONE /\ pd[t] = NONE /\ inv[t] = NONE
  <2>1. t \in AnyThread /\ t # KThread /\ f0 \in Frame /\ f0 # NONE
    BY <1>1, Zenon DEF AnyThread, PagedirAssumption, IInv, TablesInv
  <2> QED BY <1>2, <2>1 DEF IInv, PhaseInv
<1>4. ~IsDir(f0) /\ ~IsHand(f0) /\ ~IsTable(f0) /\ ~IsPage(f0)
  BY <1>1, <1>3, Zenon DEF IInv, PlaceInv
<1>5. pagedir'[t] = f0 /\ \A u \in AnyThread \ {t} : pagedir'[u] = pagedir[u]
  BY <1>1, <1>3, Zenon DEF IInv, ThreadsInv
<1>6. \A u \in AnyThread, f \in Frame : f \in DirsOf(u)' <=> f \in DirsOf(u) \/ (u = t /\ f = f0)
  BY <1>2, <1>3, <1>5 DEF DirsOf, PagedirAssumption
<1>7. \A c \in Frame, k \in Table : pde'[c][k] = pde[c][k]
  <2>1. \A k \in Table : pde[f0][k] = NONE
    BY <1>3, <1>4, Zenon DEF IInv, EntryInv
  <2> QED BY <1>1, <1>3, <2>1 DEF IInv, TablesInv
<1>8. Zero \in Entry /\ ~Zero.P /\ ~Zero.D /\ ~Zero.A
  BY DEF Zero, Entry
<1>9. /\ \A c \in Frame, v \in UPage : c # f0 => pte'[c][v] = pte[c][v]
      /\ \A v \in UPage : pte'[f0][v] = Zero
      /\ pte' \in [Frame -> [UPage -> Entry]]
  BY <1>1, <1>3, <1>8, Zenon DEF IInv, TablesInv
<1>10. \A v \in UPage : ~pte[f0][v].P
  BY <1>3, <1>4, TableLemma, Zenon DEF IInv, EntryInv
<1>11. \A c, f \in Frame, v \in UPage : Maps(c, v, f)' <=> Maps(c, v, f)
  BY <1>8, <1>9, <1>10, ZenonT(40) DEF Maps
<1>12. \A f \in Frame : /\ IsDir(f)' <=> IsDir(f) \/ f = f0
                        /\ IsTable(f)' <=> IsTable(f)
                        /\ IsHand(f)' <=> IsHand(f)
                        /\ IsPage(f)' <=> IsPage(f)
  <2>1. \A f \in Frame : IsDir(f)' <=> IsDir(f) \/ f = f0
    BY <1>3, <1>6, Zenon DEF IsDir
  <2>2. \A f \in Frame : IsTable(f)' <=> IsTable(f)
    BY <1>7, Zenon DEF IsTable
  <2>3. \A f \in Frame : IsHand(f)' <=> IsHand(f)
    BY <1>2, Zenon DEF IsHand
  <2>4. \A f \in Frame : IsPage(f)' <=> IsPage(f)
    BY <1>11, Zenon DEF IsPage
  <2> QED BY <2>1, <2>2, <2>3, <2>4
<1>13. PlaceInv'
  BY <1>1, <1>4, <1>12 DEF IInv, PlaceInv
<1>14. UniqueInv'
  <2>1. UniqueDirs'
    <3>1. \A u \in AnyThread : f0 \notin DirsOf(u)
      BY <1>4, Zenon DEF IsDir
    <3> QED BY <1>6, <3>1 DEF IInv, UniqueInv, UniqueDirs
  <2>2. UniqueHands'
    BY <1>2 DEF IInv, UniqueInv, UniqueHands
  <2>3. UniqueTables'
    BY <1>7 DEF IInv, UniqueInv, UniqueTables
  <2>4. UniquePages'
    BY <1>11 DEF IInv, UniqueInv, UniquePages
  <2> QED BY <2>1, <2>2, <2>3, <2>4 DEF UniqueInv
<1>15. EntryInv'
  <2>1. \A c \in Frame, k \in Table : pde'[c][k] # NONE => IsDir(c)'
    BY <1>7, <1>12, Zenon DEF IInv, EntryInv
  <2>2. \A c \in Frame, v \in UPage : pte'[c][v].P => pde'[c][pd_no(v)] # NONE /\ pte'[c][v].frame # NONE
    <3>1. \A c \in Frame, v \in UPage : pte'[c][v].P => c # f0 /\ pte'[c][v] = pte[c][v]
      BY <1>8, <1>9, Zenon
    <3>2. \A c \in Frame, v \in UPage : pde'[c][pd_no(v)] = pde[c][pd_no(v)]
      BY <1>7, TableLemma, Zenon
    <3> QED BY <3>1, <3>2 DEF IInv, EntryInv
  <2>3. \A c \in Frame, v \in UPage : <<c, v>> \in modified' \cup touched' => IsDir(c)'
    BY <1>2, <1>12, Zenon DEF IInv, EntryInv
  <2> QED BY <2>1, <2>2, <2>3, Zenon DEF EntryInv
<1>16. ThreadsInv'
  BY <1>1, <1>2, <1>3, Zenon DEF IInv, ThreadsInv
<1>17. TablesInv'
  <2>1. pde' \in [Frame -> [Table -> Frame \cup {NONE}]]
    BY <1>1, <1>3, Zenon DEF IInv, TablesInv
  <2> QED BY <1>1, <1>2, <1>9, <2>1 DEF IInv, TablesInv
<1>18. PhaseInv'
  BY <1>2, <1>3, <1>5 DEF IInv, PhaseInv, ThreadsInv
<1>19. CpuInv'
  <2>1. cr3 = NONE
    BY <1>2, <1>3 DEF IInv, CpuInv
  <2> QED BY <1>2, <2>1, Zenon DEF IInv, CpuInv
<1>20. BitsInv'
  <2>1. \A v \in UPage : <<f0, v>> \notin modified \cup touched
    BY <1>3, <1>4, Zenon DEF IInv, EntryInv
  <2> QED BY <1>2, <1>9, <2>1, Zenon DEF IInv, BitsInv
<1> QED BY <1>13, <1>14, <1>15, <1>16, <1>17, <1>18, <1>19, <1>20 DEF IInv
(* pagedir_set_page: a free frame becomes a page, and another one a table  *)
(* where there is none.                                                    *)
LEMMA SetPageKeeps ==
  ASSUME PagedirAssumption, IInv, NEW t \in Proc, NEW v \in UPage, NEW w \in Writable,
         pagedir_set_page(t, v, w)
  PROVE  IInv'
<1>1. PICK d \in Frame : d = pagedir[t]
  BY DEF pagedir_set_page, Between, IInv, PhaseInv, ThreadsInv, AnyThread
<1>2. PICK n \in Table : n = pd_no(v)
  BY TableLemma, Zenon
<1>3. PICK f0 \in free : \E g \in IF pde[d][n] # NONE THEN {pde[d][n]} ELSE Lowest(free \ {f0}) :
        /\ free' = free \ {f0, g} /\ pde' = [pde EXCEPT ![d][n] = g]
        /\ pte' = [pte EXCEPT ![d][v] = [Zero EXCEPT !.P = TRUE, !.W = w, !.frame = f0]]
        /\ modified' = modified \ {<<d, v>>} /\ touched' = touched \ {<<d, v>>}
  BY <1>1, <1>2, Zenon DEF pagedir_set_page, Lowest
<1>4. PICK g : /\ (pde[d][n] # NONE /\ g = pde[d][n]) \/ (pde[d][n] = NONE /\ g \in free \ {f0})
               /\ free' = free \ {f0, g} /\ pde' = [pde EXCEPT ![d][n] = g]
               /\ pte' = [pte EXCEPT ![d][v] = [Zero EXCEPT !.P = TRUE, !.W = w, !.frame = f0]]
               /\ modified' = modified \ {<<d, v>>} /\ touched' = touched \ {<<d, v>>}
  BY <1>3, Zenon DEF Lowest
<1>5. /\ current = t /\ inv[t] = NONE /\ ~lookup_page(d, v).P
      /\ UNCHANGED <<pagedir, pd, hand, inv, pc, current, cr3, tlb>>
  BY <1>1, Zenon DEF pagedir_set_page, Between, cpu
<1>6. f0 \in Frame /\ ~IsDir(f0) /\ ~IsHand(f0) /\ ~IsTable(f0) /\ ~IsPage(f0)
  BY <1>3, Zenon DEF IInv, PlaceInv, TablesInv
<1>7. /\ g \in Frame /\ g # f0 /\ g # NONE /\ (IsTable(g) \/ g \in free)
      /\ (pde[d][n] # NONE /\ g = pde[d][n]) \/ (pde[d][n] = NONE /\ g \in free)
  <2>1. CASE pde[d][n] # NONE /\ g = pde[d][n]
    <3>1. g \in Frame
      BY <2>1 DEF IInv, TablesInv
    <3>2. IsTable(g)
      BY <2>1, Zenon DEF IsTable
    <3> QED BY <1>6, <2>1, <3>1, <3>2, Zenon
  <2>2. CASE pde[d][n] = NONE /\ g \in free \ {f0}
    BY <2>2 DEF IInv, TablesInv, PagedirAssumption
  <2> QED BY <1>4, <2>1, <2>2, Zenon
<1>8. PICK e \in Entry : /\ e = [Zero EXCEPT !.P = TRUE, !.W = w, !.frame = f0]
                         /\ e.P /\ e.frame = f0
  <2>. DEFINE r == [Zero EXCEPT !.P = TRUE, !.W = w, !.frame = f0]
  <2>1. r \in Entry /\ r.P /\ r.frame = f0
    BY <1>6 DEF Zero, Entry, PagedirAssumption
  <2> QED BY <2>1, Zenon
<1>9. Writes(d, v, e) /\ TablesInv
  BY <1>4, <1>8, Zenon DEF Writes, IInv
<1>10. /\ pte' \in [Frame -> [UPage -> Entry]] /\ pte'[d][v] = e
       /\ \A c \in Frame, x \in UPage : c # d \/ x # v => pte'[c][x] = pte[c][x]
  <2>1. e \in Entry
    BY <1>8
  <2> QED BY <1>9, <2>1, WriteEntry
<1>11. ~pte[d][v].P
  BY <1>5, LookupLemma, Zenon DEF IInv
<1>12. /\ pde' \in [Frame -> [Table -> Frame \cup {NONE}]] /\ pde'[d][n] = g
       /\ \A c \in Frame, k \in Table : c # d \/ k # n => pde'[c][k] = pde[c][k]
  <2>1. pde' = [pde EXCEPT ![d][n] = g] /\ pde \in [Frame -> [Table -> Frame \cup {NONE}]] /\ g \in Frame
    BY <1>4, <1>7, <1>9, Zenon DEF TablesInv
  <2> QED BY <2>1
<1>13. \A c, f \in Frame, x \in UPage : Maps(c, x, f)' <=> Maps(c, x, f) \/ (c = d /\ x = v /\ f = f0)
  <2>1. \A f \in Frame : (Maps(d, v, f)' <=> f = f0) /\ ~Maps(d, v, f)
    BY <1>8, <1>10, <1>11, Zenon DEF Maps
  <2>2. \A c, f \in Frame, x \in UPage : c # d \/ x # v => (Maps(c, x, f)' <=> Maps(c, x, f))
    BY <1>10, Zenon DEF Maps
  <2> QED BY <2>1, <2>2, Zenon
<1>14. \A f \in Frame : /\ IsDir(f)' <=> IsDir(f)
                        /\ IsTable(f)' <=> IsTable(f) \/ f = g
                        /\ IsHand(f)' <=> IsHand(f)
                        /\ IsPage(f)' <=> IsPage(f) \/ f = f0
  <2>1. \A f \in Frame : (IsDir(f)' <=> IsDir(f)) /\ (IsHand(f)' <=> IsHand(f))
    BY <1>5, Zenon DEF IsDir, IsHand, DirsOf
  <2>2. \A f \in Frame : IsTable(f)' <=> IsTable(f) \/ f = g
    <3>1. \A f \in Frame : IsTable(f)' => IsTable(f) \/ f = g
      BY <1>12, Zenon DEF IsTable
    <3>2. \A c, f \in Frame, k \in Table : pde[c][k] = f => pde'[c][k] = f
      BY <1>7, <1>12, Zenon DEF PagedirAssumption
    <3>3. \A f \in Frame : IsTable(f) => IsTable(f)'
      BY <3>2, Zenon DEF IsTable
    <3>4. IsTable(g)'
      BY <1>12, Zenon DEF IsTable
    <3> QED BY <3>1, <3>3, <3>4, Zenon
  <2>3. \A f \in Frame : IsPage(f)' <=> IsPage(f) \/ f = f0
    BY <1>13, Zenon DEF IsPage
  <2> QED BY <2>1, <2>2, <2>3
<1>15. PlaceInv'
  <2>1. free' = free \ {f0, g}
    BY <1>4, Zenon
  <2> QED BY <1>6, <1>7, <1>14, <2>1 DEF IInv, PlaceInv
<1>16. UniqueInv'
  <2>1. UniqueDirs' /\ UniqueHands'
    BY <1>5 DEF IInv, UniqueInv, UniqueDirs, UniqueHands, DirsOf
  <2>2. UniqueTables'
    <3>1. \A c \in Frame, k \in Table : pde[c][k] = g => c = d /\ k = n
      <4>1. CASE g \in free
        BY <1>7, <4>1, Zenon DEF IInv, PlaceInv, IsTable
      <4>2. CASE g = pde[d][n]
        BY <1>7, <4>2 DEF IInv, UniqueInv, UniqueTables
      <4> QED BY <1>7, <4>1, <4>2, Zenon
    <3>2. \A c \in Frame, k \in Table : pde'[c][k] = g => c = d /\ k = n
      BY <1>12, <3>1, ZenonT(40)
    <3>3. \A c \in Frame, k \in Table : pde'[c][k] # g => pde'[c][k] = pde[c][k]
      BY <1>12, Zenon
    <3> QED BY <3>2, <3>3 DEF IInv, UniqueInv, UniqueTables
  <2>3. UniquePages'
    <3>1. \A c \in Frame, x \in UPage : ~Maps(c, x, f0)
      BY <1>6, Zenon DEF IsPage
    <3> QED BY <1>13, <3>1 DEF IInv, UniqueInv, UniquePages
  <2> QED BY <2>1, <2>2, <2>3 DEF UniqueInv
<1>17. IsDir(d)
  BY <1>1 DEF IsDir, DirsOf, AnyThread
<1>18. EntryInv'
  <2>1. \A c \in Frame, k \in Table : pde'[c][k] # NONE => IsDir(c)'
    BY <1>12, <1>14, <1>17, Zenon DEF IInv, EntryInv
  <2>2. \A c \in Frame, x \in UPage : pte'[c][x].P => pde'[c][pd_no(x)] # NONE /\ pte'[c][x].frame # NONE
    <3>1. pde'[d][pd_no(v)] # NONE /\ pte'[d][v].frame # NONE
      <4>1. pde'[d][pd_no(v)] = g /\ pte'[d][v].frame = f0
        BY <1>2, <1>8, <1>10, <1>12
      <4> QED BY <1>6, <1>7, <4>1 DEF PagedirAssumption
    <3>2. \A c \in Frame, k \in Table : pde[c][k] # NONE => pde'[c][k] # NONE
      BY <1>7, <1>12, Zenon
    <3>3. ASSUME NEW c \in Frame, NEW x \in UPage, pte'[c][x].P, c # d \/ x # v
          PROVE  pde'[c][pd_no(x)] # NONE /\ pte'[c][x].frame # NONE
      <4>1. pte'[c][x] = pte[c][x]
        BY <1>10, <3>3, Zenon
      <4>2. pde[c][pd_no(x)] # NONE /\ pte[c][x].frame # NONE
        BY <3>3, <4>1, Zenon DEF IInv, EntryInv
      <4> QED BY <3>2, <4>1, <4>2, TableLemma, Zenon
    <3> QED BY <3>1, <3>3, Zenon
  <2>3. \A c \in Frame, x \in UPage : <<c, x>> \in modified' \cup touched' => IsDir(c)'
    <3>1. modified' \subseteq modified /\ touched' \subseteq touched
      BY <1>4, Zenon
    <3> QED BY <1>14, <3>1, Zenon DEF IInv, EntryInv
  <2> QED BY <2>1, <2>2, <2>3, Zenon DEF EntryInv
<1>19. ThreadsInv' /\ PhaseInv'
  BY <1>5, Zenon DEF IInv, ThreadsInv, PhaseInv
<1>20. TablesInv'
  <2>1. free' \subseteq free /\ modified' \subseteq modified /\ touched' \subseteq touched
    BY <1>4, Zenon
  <2> QED BY <1>5, <1>10, <1>12, <2>1, Zenon DEF IInv, TablesInv
<1>21. CpuInv'
  <2>1. cr3 # NONE => \A x \in UPage : tlb[x] # NONE => Covers(pte[cr3][x], tlb[x])
    BY <1>5, Zenon DEF IInv, CpuInv
  <2>2. cr3 = d => tlb[v] = NONE
    BY <1>11, <2>1, Zenon DEF Covers, PagedirAssumption
  <2>3. cr3 # NONE => \A x \in UPage : tlb[x] # NONE => Covers(pte'[cr3][x], tlb[x])
    <3>1. ASSUME cr3 # NONE, NEW x \in UPage, tlb[x] # NONE PROVE pte'[cr3][x] = pte[cr3][x]
      BY <1>10, <2>2, <3>1, Zenon DEF IInv, TablesInv
    <3> QED BY <2>1, <3>1, Zenon
  <2> QED BY <1>5, <2>3, Zenon DEF IInv, CpuInv
<1>22. BitsInv'
  <2>1. \A c \in Frame, x \in UPage :
          /\ <<c, x>> \in modified' => <<c, x>> \in modified /\ (c # d \/ x # v)
          /\ <<c, x>> \in touched' => <<c, x>> \in touched /\ (c # d \/ x # v)
    BY <1>4, Zenon
  <2> QED BY <1>10, <2>1, Zenon DEF IInv, BitsInv
<1> QED BY <1>15, <1>16, <1>18, <1>19, <1>20, <1>21, <1>22 DEF IInv

(* pagedir_destroy frees the directory with its tables and pages. *)
LEMMA DestroyKeeps ==
  ASSUME PagedirAssumption, IInv, NEW t \in Proc, pagedir_destroy(t)
  PROVE  IInv'
<1>1. /\ t \in AnyThread /\ t # KThread /\ current = t /\ pc[t] = "destroying"
      /\ pagedir[t] = NONE /\ inv[t] = NONE /\ pd[t] # NONE
  BY DEF AnyThread, PagedirAssumption, pagedir_destroy, IInv, PhaseInv
<1>2. PICK d \in Frame : d = pd[t]
  BY <1>1 DEF IInv, ThreadsInv
<1>3. /\ free' = free \cup Destroyed(d)
      /\ pd' = [pd EXCEPT ![t] = NONE] /\ pc' = [pc EXCEPT ![t] = "gone"]
      /\ modified' = {x \in modified : x[1] # d} /\ touched' = {x \in touched : x[1] # d}
      /\ pde' = [pde EXCEPT ![d] = [k \in Table |-> NONE]]
      /\ pte' = [pte EXCEPT ![d] = [v \in UPage |-> Zero]]
      /\ UNCHANGED <<pagedir, hand, inv, current, cr3, tlb>>
  BY <1>2, Zenon DEF pagedir_destroy, cpu
<1>4. pd'[t] = NONE /\ \A u \in AnyThread \ {t} : pd'[u] = pd[u]
  BY <1>1, <1>3, Zenon DEF IInv, ThreadsInv
<1>5. \A u \in AnyThread, f \in Frame : f \in DirsOf(u)' <=> f \in DirsOf(u) /\ u # t
  BY <1>1, <1>3, <1>4 DEF DirsOf, PagedirAssumption
<1>6. \A u \in AnyThread, f \in Frame : f \in DirsOf(u) => (u = t <=> f = d)
  <2>1. d \in DirsOf(t) /\ \A f \in Frame : f \in DirsOf(t) => f = d
    BY <1>1, <1>2 DEF DirsOf, PagedirAssumption
  <2> QED BY <1>1, <2>1 DEF IInv, UniqueInv, UniqueDirs
<1>7. /\ pde' \in [Frame -> [Table -> Frame \cup {NONE}]] /\ \A k \in Table : pde'[d][k] = NONE
      /\ \A c \in Frame, k \in Table : c # d => pde'[c][k] = pde[c][k]
  BY <1>3, Zenon DEF IInv, TablesInv
<1>8. Zero \in Entry /\ ~Zero.P /\ ~Zero.D /\ ~Zero.A
  BY DEF Zero, Entry
<1>9. /\ pte' \in [Frame -> [UPage -> Entry]] /\ \A v \in UPage : pte'[d][v] = Zero
      /\ \A c \in Frame, v \in UPage : c # d => pte'[c][v] = pte[c][v]
  BY <1>3, <1>8, Zenon DEF IInv, TablesInv
<1>10. \A c, f \in Frame, v \in UPage : Maps(c, v, f)' <=> Maps(c, v, f) /\ c # d
  BY <1>8, <1>9, Zenon DEF Maps
<1>11. \A f \in Frame : f \in Tables(d) <=> \E k \in Table : pde[d][k] = f
  BY Zenon DEF Tables, PagedirAssumption
<1>12. \A f \in Frame : f \in Mapped(d) <=> \E v \in UPage : Maps(d, v, f)
  <2>1. \A v \in UPage : (lookup_page(d, v).P <=> pte[d][v].P) /\ (pte[d][v].P => lookup_page(d, v) = pte[d][v])
    BY LookupLemma, Zenon DEF IInv
  <2> QED BY <2>1, Zenon DEF Mapped, Maps
<1>13. \A c, f \in Frame, k \in Table : pde'[c][k] = f <=> pde[c][k] = f /\ c # d
  BY <1>7, Zenon DEF PagedirAssumption
<1>14. \A f \in Frame : /\ IsDir(f)' <=> IsDir(f) /\ f # d
                        /\ IsTable(f)' <=> IsTable(f) /\ f \notin Tables(d)
                        /\ IsHand(f)' <=> IsHand(f)
                        /\ IsPage(f)' <=> IsPage(f) /\ f \notin Mapped(d)
  <2>1. \A f \in Frame : IsDir(f)' <=> IsDir(f) /\ f # d
    BY <1>5, <1>6, Zenon DEF IsDir
  <2>2. \A f \in Frame : IsTable(f)' <=> IsTable(f) /\ f \notin Tables(d)
    <3>1. \A c, f \in Frame, k \in Table : pde[c][k] = f => (c = d <=> f \in Tables(d))
      BY <1>11 DEF IInv, UniqueInv, UniqueTables
    <3>2. \A c, f \in Frame, k \in Table : pde'[c][k] = f <=> pde[c][k] = f /\ f \notin Tables(d)
      BY <1>13, <3>1
    <3> QED BY <3>2, ZenonT(40) DEF IsTable
  <2>3. \A f \in Frame : IsHand(f)' <=> IsHand(f)
    BY <1>3, Zenon DEF IsHand
  <2>4. \A f \in Frame : IsPage(f)' <=> IsPage(f) /\ f \notin Mapped(d)
    <3>1. \A c, f \in Frame, v \in UPage : Maps(c, v, f) => (c = d <=> f \in Mapped(d))
      BY <1>12 DEF IInv, UniqueInv, UniquePages
    <3> QED BY <1>10, <3>1, Zenon DEF IsPage
  <2> QED BY <2>1, <2>2, <2>3, <2>4
<1>15. PlaceInv'
  <2>1. IsDir(d)
    BY <1>1, <1>2 DEF IsDir, DirsOf
  <2>2. \A f \in Frame : (f \in Tables(d) => IsTable(f)) /\ (f \in Mapped(d) => IsPage(f))
    BY <1>11, <1>12, Zenon DEF IsTable, IsPage
  <2>3. \A f \in Frame : f \in free' <=> f \in free \/ f = d \/ f \in Tables(d) \/ f \in Mapped(d)
    BY <1>3, Zenon DEF Destroyed
  <2> QED BY <1>14, <2>1, <2>2, <2>3 DEF IInv, PlaceInv
<1>16. UniqueInv'
  <2>1. UniqueDirs' /\ UniqueHands'
    BY <1>3, <1>5 DEF IInv, UniqueInv, UniqueDirs, UniqueHands
  <2>2. UniqueTables'
    BY <1>13 DEF IInv, UniqueInv, UniqueTables
  <2>3. UniquePages'
    BY <1>10 DEF IInv, UniqueInv, UniquePages
  <2> QED BY <2>1, <2>2, <2>3 DEF UniqueInv
<1>17. EntryInv'
  <2>1. \A c \in Frame, k \in Table : pde'[c][k] # NONE => IsDir(c)'
    BY <1>7, <1>14, Zenon DEF IInv, EntryInv
  <2>2. \A c \in Frame, x \in UPage : pte'[c][x].P => pde'[c][pd_no(x)] # NONE /\ pte'[c][x].frame # NONE
    <3>1. \A c \in Frame, x \in UPage : pte'[c][x].P => c # d /\ pte'[c][x] = pte[c][x]
      BY <1>8, <1>9, Zenon
    <3>2. \A c \in Frame, x \in UPage : c # d => pde'[c][pd_no(x)] = pde[c][pd_no(x)]
      BY <1>7, TableLemma, Zenon
    <3> QED BY <3>1, <3>2 DEF IInv, EntryInv
  <2>3. \A c \in Frame, x \in UPage : <<c, x>> \in modified' \cup touched' => IsDir(c)'
    <3>1. \A c \in Frame, x \in UPage : <<c, x>> \in modified' \cup touched' =>
            <<c, x>> \in modified \cup touched /\ c # d
      BY <1>3
    <3> QED BY <1>14, <3>1, Zenon DEF IInv, EntryInv
  <2> QED BY <2>1, <2>2, <2>3, Zenon DEF EntryInv
<1>18. ThreadsInv'
  BY <1>1, <1>3, Zenon DEF IInv, ThreadsInv
<1>19. TablesInv'
  <2>1. Destroyed(d) \subseteq Frame
    <3>1. Tables(d) \subseteq Frame
      BY DEF Tables, IInv, TablesInv
    <3>2. Mapped(d) \subseteq Frame
      <4>1. \A v \in UPage : lookup_page(d, v).P => lookup_page(d, v) = pte[d][v] /\ pte[d][v].frame # NONE
        BY LookupLemma, Zenon DEF IInv, EntryInv
      <4>2. \A v \in UPage : pte[d][v].frame \in Frame \cup {NONE}
        BY DEF IInv, TablesInv, Entry
      <4> QED BY <4>1, <4>2, Zenon DEF Mapped
    <3> QED BY <3>1, <3>2, Zenon DEF Destroyed
  <2>2. modified' \subseteq modified /\ touched' \subseteq touched
    BY <1>3, Zenon
  <2> QED BY <1>3, <1>7, <1>9, <2>1, <2>2, Zenon DEF IInv, TablesInv
<1>20. PhaseInv'
  BY <1>1, <1>3, <1>4 DEF IInv, PhaseInv, ThreadsInv
<1>21. CpuInv'
  <2>1. cr3 = NONE
    BY <1>1 DEF IInv, CpuInv
  <2> QED BY <1>3, <2>1, Zenon DEF IInv, CpuInv
<1>22. BitsInv'
  <2>1. \A c \in Frame, x \in UPage :
          /\ <<c, x>> \in modified' => <<c, x>> \in modified /\ c # d
          /\ <<c, x>> \in touched' => <<c, x>> \in touched /\ c # d
    BY <1>3
  <2> QED BY <1>9, <2>1, Zenon DEF IInv, BitsInv
<1> QED BY <1>15, <1>16, <1>17, <1>18, <1>19, <1>20, <1>21, <1>22 DEF IInv

-----------------------------------------------------------------------------
LEMMA NextKeeps ==
  ASSUME PagedirAssumption, IInv, Next
  PROVE  IInv'
  BY ActivateKeeps, LoadKeeps, InvalidateKeeps, AccessedKeeps, ExitNullKeeps, ExitActivateKeeps,
     AccessKeeps, ClearKeeps, GiveBackKeeps, CreateKeeps, SetPageKeeps, DestroyKeeps, Zenon DEF Next

LEMMA InitKeeps ==
  ASSUME PagedirAssumption, Init
  PROVE  IInv
<1>. USE DEF Init
<1>1. /\ \A t \in AnyThread : pagedir[t] = NONE /\ pd[t] = NONE /\ hand[t] = NONE /\ inv[t] = NONE
      /\ \A d \in Frame, k \in Table : pde[d][k] = NONE
      /\ \A d \in Frame, v \in UPage : pte[d][v] = Zero
  BY Zenon
<1>2. Zero \in Entry /\ ~Zero.P
  BY DEF Zero, Entry
<1>3. ThreadsInv
  BY Zenon DEF ThreadsInv, AnyThread
<1>4. TablesInv
  BY <1>2, Zenon DEF TablesInv, Flushed
<1>5. PhaseInv
  BY <1>1 DEF PhaseInv, AnyThread
<1>6. \A f \in Frame : ~IsDir(f) /\ ~IsHand(f) /\ ~IsTable(f) /\ ~IsPage(f)
  <2>1. \A f \in Frame : ~IsDir(f) /\ ~IsHand(f)
    BY <1>1 DEF IsDir, DirsOf, IsHand, PagedirAssumption
  <2>2. \A f \in Frame : ~IsTable(f)
    BY <1>1, Zenon DEF IsTable, PagedirAssumption
  <2>3. \A f \in Frame : ~IsPage(f)
    BY <1>1, <1>2, Zenon DEF IsPage, Maps
  <2> QED BY <2>1, <2>2, <2>3
<1>7. PlaceInv
  BY <1>6, Zenon DEF PlaceInv
<1>8. UniqueInv
  BY <1>6, Zenon DEF UniqueInv, UniqueDirs, UniqueHands, UniqueTables, UniquePages, IsDir, IsHand, IsTable, IsPage
<1>9. EntryInv
  BY <1>1, <1>2, Zenon DEF EntryInv
<1>10. CpuInv /\ BitsInv
  BY Zenon DEF CpuInv, BitsInv, Flushed
<1> QED BY <1>3, <1>4, <1>5, <1>7, <1>8, <1>9, <1>10 DEF IInv

(* A stuttering step keeps the invariant. *)
LEMMA StutterKeeps ==
  ASSUME IInv, UNCHANGED vars
  PROVE  IInv'
<1>1. UNCHANGED <<pagedir, pd, pde, pte, free, hand, inv, pc, current, cr3, tlb, modified, touched>>
  BY Zenon DEF vars, cpu, ghost
<1>2. SameDirs /\ SameMaps
  BY <1>1, Zenon DEF SameDirs, SameMaps, DirsOf
<1>3. UniqueInv' /\ PlaceInv' /\ EntryInv'
  BY <1>1, <1>2, SameUses, SameEntries, Zenon DEF IInv
<1>4. ThreadsInv' /\ TablesInv' /\ PhaseInv' /\ CpuInv' /\ BitsInv'
  BY <1>1, Zenon DEF IInv, ThreadsInv, TablesInv, PhaseInv, CpuInv, BitsInv
<1> QED BY <1>3, <1>4 DEF IInv

(* In every reachable state of pagedir.c every frame has one use, the      *)
(* active directory belongs to the running thread, and its entries cover   *)
(* those that the processor has cached.                                    *)
THEOREM DirectoriesInvariant == ASSUME PagedirAssumption PROVE Spec => []IInv
<1>1. Init => IInv
  BY InitKeeps
<1>2. IInv /\ [Next]_vars => IInv'
  BY NextKeeps, StutterKeeps
<1> QED BY <1>1, <1>2, PTL DEF Spec

(* A set has one member, or none. *)
LEMMA OneMember ==
  ASSUME NEW S
  PROVE  /\ S = {} => Cardinality(S) = 0
         /\ \A a \in S : (\A x \in S : x = a) => Cardinality(S) = 1
<1>1. ASSUME NEW a \in S, \A x \in S : x = a PROVE Cardinality(S) = 1
  <2>1. S = {a}
    BY <1>1, Zenon
  <2> QED BY <2>1, FS_Singleton
<1> QED BY <1>1, FS_EmptySet
(* A frame has one use: exactly one of the terms of Uses is 1. *)
LEMMA FramesLemma ==
  ASSUME PagedirAssumption, IInv
  PROVE  FramesExact
<1>. SUFFICES ASSUME NEW f \in Frame PROVE Uses(f) = 1
  BY DEF FramesExact
<1>. DEFINE InFree == {x \in {free} : f \in x}
            InHand == {t \in AnyThread : hand[t] = f}
            AsDir == {d \in Directories : d = f}
            AsTable == {x \in Directories \X Table : pde[x[1]][x[2]] = f}
            AsPage == {x \in Directories \X UPage :
                        lookup_page(x[1], x[2]).P /\ lookup_page(x[1], x[2]).frame = f}
<1>1. Directories \subseteq Frame /\ \A d \in Frame : d \in Directories <=> IsDir(d)
  BY DEF Directories, IsDir, DirsOf, IInv, ThreadsInv, PagedirAssumption
<1>2. (f \in free => Cardinality(InFree) = 1) /\ (f \notin free => Cardinality(InFree) = 0)
  <2>1. f \in free => free \in InFree /\ \A x \in InFree : x = free
    BY Zenon
  <2>2. f \notin free => InFree = {}
    BY Zenon
  <2>. HIDE DEF InFree
  <2> QED BY <2>1, <2>2, OneMember, Zenon
<1>3. (IsHand(f) => Cardinality(InHand) = 1) /\ (~IsHand(f) => Cardinality(InHand) = 0)
  <2>1. IsHand(f) => \E t \in InHand : \A u \in InHand : u = t
    BY DEF IsHand, IInv, UniqueInv, UniqueHands
  <2>2. ~IsHand(f) => InHand = {}
    BY Zenon DEF IsHand
  <2>. HIDE DEF InHand
  <2> QED BY <2>1, <2>2, OneMember, Zenon
<1>4. (IsDir(f) => Cardinality(AsDir) = 1) /\ (~IsDir(f) => Cardinality(AsDir) = 0)
  <2>1. IsDir(f) => \E d \in AsDir : \A x \in AsDir : x = d
    BY <1>1, Zenon
  <2>2. ~IsDir(f) => AsDir = {}
    BY <1>1, Zenon
  <2>. HIDE DEF AsDir
  <2> QED BY <2>1, <2>2, OneMember, Zenon
<1>5. (IsTable(f) => Cardinality(AsTable) = 1) /\ (~IsTable(f) => Cardinality(AsTable) = 0)
  <2>1. ASSUME IsTable(f) PROVE \E y \in AsTable : \A x \in AsTable : x = y
    <3>1. PICK d \in Frame, k \in Table : pde[d][k] = f
      BY <2>1, Zenon DEF IsTable
    <3>2. d \in Directories
      BY <1>1, <3>1 DEF IInv, EntryInv, PagedirAssumption
    <3>3. <<d, k>> \in AsTable
      BY <3>1, <3>2
    <3>4. \A x \in AsTable : x = <<d, k>>
      BY <1>1, <3>1 DEF IInv, UniqueInv, UniqueTables
    <3> QED BY <3>3, <3>4, Zenon
  <2>2. ~IsTable(f) => AsTable = {}
    BY <1>1 DEF IsTable
  <2>. HIDE DEF AsTable
  <2> QED BY <2>1, <2>2, OneMember, Zenon
<1>6. (IsPage(f) => Cardinality(AsPage) = 1) /\ (~IsPage(f) => Cardinality(AsPage) = 0)
  <2>0. \A d \in Frame, v \in UPage : lookup_page(d, v).P /\ lookup_page(d, v).frame = f <=> Maps(d, v, f)
    BY LookupLemma, Zenon DEF IInv, Maps
  <2>1. ASSUME IsPage(f) PROVE \E y \in AsPage : \A x \in AsPage : x = y
    <3>1. PICK d \in Frame, v \in UPage : Maps(d, v, f)
      BY <2>1, Zenon DEF IsPage
    <3>2. d \in Directories
      BY <1>1, <3>1, TableLemma, Zenon DEF IInv, EntryInv, Maps
    <3>3. <<d, v>> \in AsPage
      BY <2>0, <3>1, <3>2
    <3>4. \A x \in AsPage : x = <<d, v>>
      BY <1>1, <2>0, <3>1 DEF IInv, UniqueInv, UniquePages
    <3> QED BY <3>3, <3>4, Zenon
  <2>2. ~IsPage(f) => AsPage = {}
    BY <1>1, <2>0 DEF IsPage
  <2>. HIDE DEF AsPage
  <2> QED BY <2>1, <2>2, OneMember, Zenon
<1>7. Uses(f) = Cardinality(InFree) + Cardinality(InHand) + Cardinality(AsDir) + Cardinality(AsTable)
                + Cardinality(AsPage)
  BY Zenon DEF Uses
<1>. HIDE DEF InFree, InHand, AsDir, AsTable, AsPage
<1>8. \/ f \in free /\ ~IsHand(f) /\ ~IsDir(f) /\ ~IsTable(f) /\ ~IsPage(f)
      \/ f \notin free /\ IsHand(f) /\ ~IsDir(f) /\ ~IsTable(f) /\ ~IsPage(f)
      \/ f \notin free /\ ~IsHand(f) /\ IsDir(f) /\ ~IsTable(f) /\ ~IsPage(f)
      \/ f \notin free /\ ~IsHand(f) /\ ~IsDir(f) /\ IsTable(f) /\ ~IsPage(f)
      \/ f \notin free /\ ~IsHand(f) /\ ~IsDir(f) /\ ~IsTable(f) /\ IsPage(f)
  BY Zenon DEF IInv, PlaceInv
<1> QED BY <1>2, <1>3, <1>4, <1>5, <1>6, <1>7, <1>8

(* However the timer switches threads during load, eviction and exit:      *)
(* process_exit never leaves a freed directory active; a user program      *)
(* never reaches through the TLB a page that its directory does not map or *)
(* that was given back (invalidate_pagedir); pagedir_destroy loses no      *)
(* frame and frees none twice.                                             *)
THEOREM DirectoriesStayCoherent == ASSUME PagedirAssumption PROVE Spec => []DirectoriesCoherent
<1>1. ASSUME IInv PROVE ActiveNotFreed
  <2>1. cr3 # NONE => cr3 \in Frame /\ IsDir(cr3)
    BY <1>1 DEF IInv, CpuInv, TablesInv, ThreadsInv, IsDir, DirsOf
  <2> QED BY <1>1, <2>1, Zenon DEF ActiveNotFreed, IInv, PlaceInv
<1>2. ASSUME IInv PROVE TlbCoherent
  <2>. SUFFICES ASSUME inv[current] = NONE, NEW v \in UPage, tlb[v] # NONE
                PROVE  LET e == lookup_page(cr3, v) IN
                       e.P /\ e.frame = tlb[v].frame /\ e.frame \notin free /\ (tlb[v].W => e.W)
    BY Zenon DEF TlbCoherent
  <2>1. cr3 \in Frame /\ Covers(pte[cr3][v], tlb[v])
    BY <1>2, Zenon DEF IInv, CpuInv, TablesInv
  <2>2. PICK d \in Frame : d = cr3
    BY <2>1
  <2>3. pte[d][v].P /\ lookup_page(d, v) = pte[d][v]
    BY <1>2, <2>1, <2>2, LookupLemma, Zenon DEF IInv, Covers
  <2>4. pte[d][v].frame \notin free
    <3>1. ASSUME pte[d][v].frame \in free PROVE FALSE
      <4>1. PICK f \in Frame : f = pte[d][v].frame /\ f \in free
        BY <1>2, <3>1, Zenon DEF IInv, TablesInv
      <4>2. IsPage(f)
        BY <2>3, <4>1, Zenon DEF IsPage, Maps
      <4> QED BY <1>2, <4>1, <4>2, Zenon DEF IInv, PlaceInv
    <3> QED BY <3>1
  <2> QED BY <2>1, <2>2, <2>3, <2>4, Zenon DEF Covers
<1>3. IInv => DirectoriesCoherent
  BY <1>1, <1>2, FramesLemma, Zenon DEF DirectoriesCoherent
<1> QED BY <1>3, DirectoriesInvariant, PTL

(* A page that was modified, or used, since its bit was last cleared has   *)
(* the bit, whatever the processor had cached of the entry: eviction       *)
(* (pagedir_is_dirty, pagedir_is_accessed) writes out what was modified.   *)
THEOREM BitsStayExact == ASSUME PagedirAssumption PROVE Spec => []BitsExact
<1>1. ASSUME IInv PROVE BitsExact
  <2>1. \A x \in modified \cup touched : \E d \in Frame, v \in UPage : x = <<d, v>>
    BY <1>1 DEF IInv, TablesInv
  <2>2. \A x \in modified : pte[x[1]][x[2]].D
    BY <1>1, <2>1 DEF IInv, BitsInv
  <2>3. \A x \in touched : pte[x[1]][x[2]].A
    BY <1>1, <2>1 DEF IInv, BitsInv
  <2> QED BY <2>2, <2>3, Zenon DEF BitsExact
<1>2. IInv => BitsExact
  BY <1>1
<1> QED BY <1>2, DirectoriesInvariant, PTL

=============================================================================
