---------------------------------- MODULE Vm ----------------------------------
(***************************************************************************)
(* Demand paging: vm/frame.c, vm/page.c, vm/swap.c, the page fault of      *)
(* userprog/exception.c, handle_mm_fault, setup_stack and process_exit of  *)
(* userprog/process.c, and read and write of userprog/syscall.c as far as  *)
(* they touch a user page.                                                 *)
(*                                                                         *)
(* A process is the thread that runs it.  A thread is preempted between    *)
(* any two of the steps below; a step ends where another thread can see or *)
(* change what the code uses next.  struct page is named by its frame: the *)
(* pages on lru_list have different frames.  The contents of a page are a  *)
(* pair of the page and a version, so that a foreign or an old value shows.*)
(* Locks are the abstract ones of Mutex.                                   *)
(***************************************************************************)
EXTENDS Naturals, Sequences, FiniteSets, Functions

CONSTANTS
  Proc,     \* processes
  VPage,    \* the user pages that have a vm_entry
  Owner,    \* VPage -> Proc
  Kind,     \* VPage -> VM_BIN, VM_FILE, VM_ANON: the type it starts with
  Frame,    \* frames of the user pool
  Slots,    \* number of slots of the swap disk
  Short,    \* pages of a segment that reaches past the end of its file
  Callers,  \* bound: the processes that call read and write
  Version,  \* bound: the versions that a write gives a page
  Exiting,  \* bound: the processes that exit or for which the kernel pool is empty
  NULL

VM_BIN == "bin"
VM_FILE == "file"
VM_ANON == "anon"

(* What the instances satisfy. *)
VmAssumption ==
  /\ Owner \in [VPage -> Proc] /\ Kind \in [VPage -> {VM_BIN, VM_FILE, VM_ANON}]
  /\ \A t \in Proc : \E v \in VPage : Owner[v] = t /\ Kind[v] = VM_ANON
  /\ Short \subseteq VPage /\ Callers \subseteq Proc /\ Exiting \subseteq Proc
  /\ IsFiniteSet(Frame) /\ Slots \in Nat /\ NULL \notin Frame \cup Proc \cup VPage

(* list_end of lru_list; a number that is no slot. *)
TAIL == "tail"
Slot == 0..Slots - 1
BITMAP_ERROR == Slots
Locks == {"lru_list_lock", "filesys_lock", "swap_lock"}
Junk == <<NULL, 0>>

VARIABLES
  vme,       \* vm_entry: type, is_loaded, pinned, swap_slot; NULL once freed
  pte,       \* page table entry: present, frame, accessed, dirty
  pool,      \* free frames of the user pool
  lru_list,  \* frames of the pages on lru_list
  lru_clock, \* a frame, NULL or TAIL
  page,      \* struct page: vme (NULL: not yet assigned) and thread
  swap_map,  \* slots in use
  ram,       \* contents of frames
  disk,      \* contents of slots and of the files behind the pages
  holder,    \* owners of the locks
  pc,        \* place of each thread
  reg,       \* its local variables
  halted     \* "no", or why the machine cannot go on

kernVars == <<pool, lru_list, lru_clock, page, swap_map, holder>>
dataVars == <<ram, disk>>
vars == <<vme, pte, kernVars, dataVars, pc, reg, halted>>

Stack(t) == CHOOSE v \in VPage : Owner[v] = t /\ Kind[v] = VM_ANON
Mine(t)  == {v \in VPage : Owner[v] = t}

(* v: the page a fault or a call is about; f: the frame alloc_page found;  *)
(* type: type as read by handle_mm_fault; victim: lru_page of              *)
(* try_to_free_pages; slot: empty_block_index of swap_out; back: where the *)
(* fault returns to; kaddr, todo: the frame and the pages that             *)
(* process_exit has yet to deal with.                                      *)
NoReg == [v |-> NULL, f |-> NULL, type |-> NULL, victim |-> NULL,
          slot |-> 0, back |-> "start", kaddr |-> NULL, todo |-> {}]

(* Every process is at load's call of setup_stack, its segments entered in *)
(* the supplemental page table.                                            *)
Init ==
  /\ vme = [v \in VPage |->
             IF Kind[v] = VM_ANON THEN NULL
             ELSE [type |-> Kind[v], is_loaded |-> FALSE, pinned |-> FALSE, swap_slot |-> 0]]
  /\ pte = [v \in VPage |-> [p |-> FALSE, frame |-> NULL, a |-> FALSE, d |-> FALSE]]
  /\ pool = Frame /\ lru_list = <<>> /\ lru_clock = NULL
  /\ page = [f \in Frame |-> [vme |-> NULL, thread |-> NULL]]
  /\ swap_map = {}
  /\ ram = [f \in Frame |-> Junk]
  /\ disk = [x \in VPage \cup Slot |-> IF x \in VPage THEN <<x, 0>> ELSE Junk]
  /\ holder = [l \in Locks |-> NULL]
  /\ pc = [t \in Proc |-> "get"]
  /\ reg = [t \in Proc |-> [NoReg EXCEPT !.v = Stack(t)]]
  /\ halted = "no"

At(t, place) == pc[t] = place /\ halted = "no"
Goto(t, place) == pc' = [pc EXCEPT ![t] = place]
Halt(why) == halted' = why /\ UNCHANGED <<vme, pte, kernVars, dataVars, pc, reg>>

Acquired(l, t) == holder[l] = NULL /\ holder' = [holder EXCEPT ![l] = t]
Released(l) == holder' = [holder EXCEPT ![l] = NULL]

(* lock_acquire's ASSERT (!lock_held_by_current_thread (lock)). *)
LockPanic(t) ==
  /\ halted = "no"
  /\ \/ pc[t] \in {"lru", "add", "xfree"} /\ holder["lru_list_lock"] = t
     \/ pc[t] \in {"fs", "rwlock", "xfs"} /\ holder["filesys_lock"] = t
     \/ pc[t] \in {"swapout", "load"} /\ holder["swap_lock"] = t
        /\ (pc[t] = "load" => reg[t].type = VM_ANON)
  /\ Halt("lock_acquire")

-----------------------------------------------------------------------------
(* User code, and the kernel on behalf of a call, reads and writes pages.  *)

(* The CPU finds the page present and sets its accessed and dirty bits. *)
Touch(t, v, write) ==
  /\ pte[v].p
  /\ pte' = [pte EXCEPT ![v].a = TRUE, ![v].d = @ \/ write]
  /\ IF write
     THEN \E n \in Version : ram' = [ram EXCEPT ![pte[v].frame] = <<v, n>>]
     ELSE UNCHANGED ram
  /\ UNCHANGED <<vme, kernVars, disk, reg, halted>>

Access(t, v, write) ==
  /\ At(t, "user") /\ v \in Mine(t)
  /\ Touch(t, v, write) /\ UNCHANGED pc

(* page_fault: check_address has found the vm_entry. *)
Fault(t, v, back) ==
  /\ ~pte[v].p /\ vme[v] # NULL
  /\ Goto(t, "get")
  /\ reg' = [reg EXCEPT ![t].v = v, ![t].back = back]
  /\ UNCHANGED <<vme, pte, kernVars, dataVars, halted>>

PageFault(t, v) == At(t, "user") /\ v \in Mine(t) /\ Fault(t, v, "user")

(* read and write take filesys_lock and use the caller's buffer under it;  *)
(* read ends with unpin_buffer, write does not.                            *)
RwCall(t, v) ==
  /\ At(t, "user") /\ t \in Callers /\ v \in Mine(t)
  /\ Goto(t, "rwlock") /\ reg' = [reg EXCEPT ![t].v = v]
  /\ UNCHANGED <<vme, pte, kernVars, dataVars, halted>>

RwAcquire(t) ==
  /\ At(t, "rwlock") /\ Acquired("filesys_lock", t) /\ Goto(t, "rw")
  /\ UNCHANGED <<vme, pte, pool, lru_list, lru_clock, page, swap_map, dataVars, reg, halted>>

RwFault(t) == At(t, "rw") /\ Fault(t, reg[t].v, "rw")

RwCopy(t, write) ==
  /\ At(t, "rw") /\ Touch(t, reg[t].v, write)
  /\ Goto(t, IF write THEN "rwunpin" ELSE "rwdone")

RwRelease(t) ==
  /\ pc[t] \in {"rwunpin", "rwdone"} /\ halted = "no"
  /\ Released("filesys_lock") /\ Goto(t, "user") /\ reg' = [reg EXCEPT ![t].v = NULL]
  /\ vme' = IF pc[t] = "rwunpin" THEN [vme EXCEPT ![reg[t].v].pinned = FALSE] ELSE vme
  /\ UNCHANGED <<pte, pool, lru_list, lru_clock, page, swap_map, dataVars, halted>>

-----------------------------------------------------------------------------
(* alloc_page and try_to_free_pages.                                       *)

(* palloc_get_page (PAL_USER); setup_stack also asks for PAL_ZERO. *)
PallocGet(t) ==
  /\ At(t, "get")
  /\ IF pool = {}
     THEN Goto(t, "lru") /\ UNCHANGED <<pool, page, ram, reg>>
     ELSE \E f \in pool :
            /\ pool' = pool \ {f}
            /\ reg' = [reg EXCEPT ![t].f = f]
            /\ page' = [page EXCEPT ![f] = [vme |-> NULL, thread |-> t]]
            /\ ram' = IF reg[t].back = "start"
                      THEN [ram EXCEPT ![f] = <<reg[t].v, 0>>] ELSE ram
            /\ Goto(t, "add")
  /\ UNCHANGED <<vme, pte, lru_list, lru_clock, swap_map, holder, disk, halted>>

(* Faulty variant of MallocFail: the frame is not given back. *)
MallocFail_leak(t) ==
  /\ At(t, "add") /\ t \in Exiting
  /\ Goto(t, "exit")
  /\ UNCHANGED <<vme, pte, kernVars, dataVars, reg, halted>>

(* malloc of the struct page fails: setup_stack gives up, handle_mm_fault  *)
(* follows the null pointer and is ended by page_fault.                    *)
MallocFail(t) ==
  /\ At(t, "add") /\ t \in Exiting
  /\ pool' = pool \cup {reg[t].f} /\ ram' = [ram EXCEPT ![reg[t].f] = Junk]
  /\ Goto(t, "exit")
  /\ UNCHANGED <<vme, pte, lru_list, lru_clock, page, swap_map, holder, disk, reg, halted>>

(* add_page_to_lru_list *)
AddPage(t) ==
  /\ At(t, "add") /\ holder["lru_list_lock"] = NULL
  /\ lru_list' = Append(lru_list, reg[t].f)
  /\ Goto(t, IF reg[t].back = "start" THEN "stack" ELSE "setvme")
  /\ UNCHANGED <<vme, pte, pool, lru_clock, page, swap_map, holder, dataVars, reg, halted>>

(* try_to_free_pages: an empty list leaves nothing to evict. *)
LruAcquire(t) ==
  /\ At(t, "lru") /\ holder["lru_list_lock"] = NULL
  /\ IF lru_list = <<>>
     THEN Goto(t, "get") /\ UNCHANGED holder
     ELSE Acquired("lru_list_lock", t) /\ Goto(t, "scan")
  /\ UNCHANGED <<vme, pte, pool, lru_list, lru_clock, page, swap_map, dataVars, reg, halted>>

Index(f) == CHOOSE i \in DOMAIN lru_list : lru_list[i] = f

list_remove(list, i) == SubSeq(list, 1, i - 1) \o SubSeq(list, i + 1, Len(list))

(* get_next_lru_clock, when its list_next is defined: NULL when the hand   *)
(* is on the only page.                                                    *)
get_next_lru_clock ==
  IF lru_clock = NULL THEN Head(lru_list)
  ELSE LET i == Index(lru_clock) IN
       IF i < Len(lru_list) THEN lru_list[i + 1]
       ELSE IF i = 1 THEN NULL ELSE Head(lru_list)

ClockDefined == lru_clock # TAIL

(* list_next's ASSERT (is_head (elem) || is_interior (elem)). *)
ClockPanic(t) == At(t, "scan") /\ ~ClockDefined /\ Halt("list_next")

(* A turn of the loop that reads the vme of a page that has none yet, or   *)
(* one that was freed: the outcome is undefined.                           *)
WildVme(f) == page[f].vme \notin {v \in VPage : vme[v] # NULL}

ScanWild(t) ==
  /\ At(t, "scan") /\ ClockDefined
  /\ get_next_lru_clock # NULL /\ WildVme(get_next_lru_clock)
  /\ Halt("wild")

(* The only page is under the hand: give up, alloc_page tries again. *)
ScanNone(t) ==
  /\ At(t, "scan") /\ ClockDefined /\ get_next_lru_clock = NULL
  /\ Released("lru_list_lock") /\ Goto(t, "get")
  /\ UNCHANGED <<vme, pte, pool, lru_list, lru_clock, page, swap_map, dataVars, reg, halted>>

(* Faulty variant of ScanSkip: the accessed bit stays set. *)
ScanSkip_sticky(t) ==
  /\ At(t, "scan") /\ ClockDefined
  /\ LET f == get_next_lru_clock
         v == page[f].vme
     IN /\ f # NULL /\ ~WildVme(f)
        /\ vme[v].pinned \/ pte[v].a
        /\ lru_clock' = f
  /\ UNCHANGED <<vme, pte, pool, lru_list, page, swap_map, holder, dataVars, pc, reg, halted>>

(* Pinned and accessed pages are passed by, the latter only once. *)
ScanSkip(t) ==
  /\ At(t, "scan") /\ ClockDefined
  /\ LET f == get_next_lru_clock
         v == page[f].vme
     IN /\ f # NULL /\ ~WildVme(f)
        /\ vme[v].pinned \/ pte[v].a
        /\ lru_clock' = f
        /\ pte' = IF vme[v].pinned THEN pte ELSE [pte EXCEPT ![v].a = FALSE]
  /\ UNCHANGED <<vme, pool, lru_list, page, swap_map, holder, dataVars, pc, reg, halted>>

(* Faulty variant of ScanTake: a dirty page of a segment is dropped. *)
ScanTake_clean(t) ==
  /\ At(t, "scan") /\ ClockDefined
  /\ LET f == get_next_lru_clock
         v == page[f].vme
     IN /\ f # NULL /\ ~WildVme(f)
        /\ ~vme[v].pinned /\ ~pte[v].a
        /\ lru_clock' = f
        /\ reg' = [reg EXCEPT ![t].victim = f]
        /\ Goto(t, IF vme[v].type = VM_FILE /\ pte[v].d THEN "fs"
                   ELSE IF vme[v].type = VM_ANON THEN "swapout" ELSE "unload")
  /\ UNCHANGED <<vme, pte, pool, lru_list, page, swap_map, holder, dataVars, halted>>

(* The choice of a victim, and of where its contents go. *)
ScanTake(t) ==
  /\ At(t, "scan") /\ ClockDefined
  /\ LET f == get_next_lru_clock
         v == page[f].vme
     IN /\ f # NULL /\ ~WildVme(f)
        /\ ~vme[v].pinned /\ ~pte[v].a
        /\ lru_clock' = f
        /\ reg' = [reg EXCEPT ![t].victim = f]
        /\ IF pte[v].d \/ vme[v].type = VM_ANON
           THEN IF vme[v].type = VM_FILE
                THEN Goto(t, "fs") /\ UNCHANGED vme
                ELSE Goto(t, "swapout") /\ vme' = [vme EXCEPT ![v].type = VM_ANON]
           ELSE Goto(t, "unload") /\ UNCHANGED vme
  /\ UNCHANGED <<pte, pool, lru_list, page, swap_map, holder, dataVars, halted>>

Victim(t) == page[reg[t].victim].vme

(* The owner of the victim has ended meanwhile: its vm_entry, or in the    *)
(* last step its page directory, is used after it was freed.               *)
EvictWild(t) ==
  /\ halted = "no"
  /\ \/ pc[t] \in {"fs", "writeback", "swapout", "swapwrite", "unload"} /\ vme[Victim(t)] = NULL
     \/ pc[t] = "clear" /\ pc[Owner[Victim(t)]] = "dead"
  /\ Halt("wild")

EvictLockFile(t) ==
  /\ At(t, "fs") /\ vme[Victim(t)] # NULL /\ Acquired("filesys_lock", t) /\ Goto(t, "writeback")
  /\ UNCHANGED <<vme, pte, pool, lru_list, lru_clock, page, swap_map, dataVars, reg, halted>>

EvictWriteFile(t) ==
  /\ At(t, "writeback") /\ vme[Victim(t)] # NULL /\ Released("filesys_lock") /\ Goto(t, "unload")
  /\ disk' = [disk EXCEPT ![Victim(t)] = ram[reg[t].victim]]
  /\ UNCHANGED <<vme, pte, pool, lru_list, lru_clock, page, swap_map, ram, reg, halted>>

(* swap_out: with no free slot it returns BITMAP_ERROR and keeps swap_lock. *)
SwapOut(t) ==
  /\ At(t, "swapout") /\ vme[Victim(t)] # NULL /\ holder["swap_lock"] = NULL
  /\ IF Slot \subseteq swap_map
     THEN /\ vme' = [vme EXCEPT ![Victim(t)].swap_slot = BITMAP_ERROR]
          /\ holder' = [holder EXCEPT !["swap_lock"] = t]
          /\ Goto(t, "unload") /\ UNCHANGED <<swap_map, disk, reg>>
     ELSE LET s == CHOOSE s \in Slot \ swap_map : \A r \in Slot \ swap_map : s <= r IN
          /\ swap_map' = swap_map \cup {s}
          /\ holder' = [holder EXCEPT !["swap_lock"] = t]
          /\ reg' = [reg EXCEPT ![t].slot = s]
          /\ Goto(t, "swapwrite") /\ UNCHANGED <<vme, disk>>
  /\ UNCHANGED <<pte, pool, lru_list, lru_clock, page, ram, halted>>

SwapWrite(t) ==
  /\ At(t, "swapwrite") /\ vme[Victim(t)] # NULL /\ Released("swap_lock") /\ Goto(t, "unload")
  /\ disk' = [disk EXCEPT ![reg[t].slot] = ram[reg[t].victim]]
  /\ vme' = [vme EXCEPT ![Victim(t)].swap_slot = reg[t].slot]
  /\ UNCHANGED <<pte, pool, lru_list, lru_clock, page, swap_map, ram, reg, halted>>

Unload(t) ==
  /\ At(t, "unload") /\ vme[Victim(t)] # NULL /\ Goto(t, "clear")
  /\ vme' = [vme EXCEPT ![Victim(t)].is_loaded = FALSE]
  /\ UNCHANGED <<pte, kernVars, dataVars, reg, halted>>

(* __free_page of the page on lru_list with frame f: palloc_free_page,     *)
(* which overwrites the frame, del_page_from_lru_list with its adjustment  *)
(* of the hand, free.                                                      *)
__free_page(f) ==
  LET i == Index(f) IN
  /\ pool' = pool \cup {f}
  /\ ram' = [ram EXCEPT ![f] = Junk]
  /\ lru_list' = list_remove(lru_list, i)
  /\ lru_clock' = IF lru_clock # f THEN lru_clock
                  ELSE IF i = Len(lru_list) THEN TAIL ELSE lru_list[i + 1]

(* free_page frees whatever page on the list has this frame. *)
free_page(f) ==
  /\ holder["lru_list_lock"] = NULL
  /\ IF f \in Range(lru_list) THEN __free_page(f)
     ELSE UNCHANGED <<pool, ram, lru_list, lru_clock>>

(* Faulty variant of EvictFree: the page stays present. *)
EvictFree_mapped(t) ==
  /\ At(t, "clear") /\ pc[Owner[Victim(t)]] # "dead"
  /\ __free_page(reg[t].victim)
  /\ Released("lru_list_lock") /\ Goto(t, "get")
  /\ reg' = [reg EXCEPT ![t].victim = NULL, ![t].slot = 0]
  /\ UNCHANGED <<vme, pte, page, swap_map, disk, halted>>

(* pagedir_clear_page, __free_page and the release of the list. *)
EvictFree(t) ==
  /\ At(t, "clear") /\ pc[Owner[Victim(t)]] # "dead"
  /\ pte' = [pte EXCEPT ![Victim(t)].p = FALSE, ![Victim(t)].frame = NULL]
  /\ __free_page(reg[t].victim)
  /\ Released("lru_list_lock") /\ Goto(t, "get")
  /\ reg' = [reg EXCEPT ![t].victim = NULL, ![t].slot = 0]
  /\ UNCHANGED <<vme, page, swap_map, disk, halted>>

-----------------------------------------------------------------------------
(* handle_mm_fault and setup_stack.                                        *)

(* The page that alloc_page returned was evicted while it was being filled, *)
(* and phys_page points to freed memory.                                   *)
PageGone(t) == reg[t].f \notin Range(lru_list) \/ page[reg[t].f] # [vme |-> reg[t].v, thread |-> t]

LoadWild(t) ==
  /\ pc[t] \in {"load", "install"} /\ halted = "no" /\ PageGone(t)
  /\ Halt("wild")

SetVme(t) ==
  /\ At(t, "setvme") /\ Goto(t, "pin")
  /\ page' = [page EXCEPT ![reg[t].f].vme = reg[t].v]
  /\ reg' = [reg EXCEPT ![t].type = vme[reg[t].v].type]
  /\ UNCHANGED <<vme, pte, pool, lru_list, lru_clock, swap_map, holder, dataVars, halted>>

(* A page that is loaded already: free_page is given the struct page and   *)
(* finds no frame at that address; exit (-1).                              *)
Pin(t) ==
  /\ At(t, "pin")
  /\ vme' = [vme EXCEPT ![reg[t].v].pinned = TRUE]
  /\ Goto(t, IF vme[reg[t].v].is_loaded THEN "exit" ELSE "load")
  /\ UNCHANGED <<pte, kernVars, dataVars, reg, halted>>

(* load_file.  A short read of VM_BIN keeps the page; of VM_FILE frees it. *)
LoadFile(t) ==
  /\ At(t, "load") /\ ~PageGone(t) /\ reg[t].type # VM_ANON
  /\ IF reg[t].v \notin Short
     THEN /\ ram' = [ram EXCEPT ![reg[t].f] = disk[reg[t].v]]
          /\ Goto(t, "install") /\ UNCHANGED <<pool, lru_list, lru_clock>>
     ELSE /\ Goto(t, "exit")
          /\ IF reg[t].type = VM_FILE
             THEN free_page(reg[t].f)
             ELSE UNCHANGED <<pool, ram, lru_list, lru_clock>>
  /\ UNCHANGED <<vme, pte, page, swap_map, holder, disk, reg, halted>>

(* swap_in: it keeps swap_lock when the slot is free.  A slot that is      *)
(* BITMAP_ERROR is never tested: swap_out has kept swap_lock.              *)
SwapIn(t) ==
  /\ At(t, "load") /\ ~PageGone(t) /\ reg[t].type = VM_ANON /\ holder["swap_lock"] = NULL
  /\ holder' = [holder EXCEPT !["swap_lock"] = t]
  /\ Goto(t, IF vme[reg[t].v].swap_slot \in swap_map THEN "swapread" ELSE "install")
  /\ UNCHANGED <<vme, pte, pool, lru_list, lru_clock, page, swap_map, dataVars, reg, halted>>

(* The contents of a free slot are not read again. *)
SwapRead(t) ==
  /\ At(t, "swapread")
  /\ disk' = [disk EXCEPT ![vme[reg[t].v].swap_slot] = Junk]
  /\ ram' = [ram EXCEPT ![reg[t].f] = disk[vme[reg[t].v].swap_slot]]
  /\ swap_map' = swap_map \ {vme[reg[t].v].swap_slot}
  /\ Released("swap_lock") /\ Goto(t, "install")
  /\ UNCHANGED <<vme, pte, pool, lru_list, lru_clock, page, reg, halted>>

(* install_page: pte_create_user starts with clear bits. *)
Install(t) ==
  /\ At(t, "install") /\ ~PageGone(t) /\ Goto(t, "unpin")
  /\ pte' = [pte EXCEPT ![reg[t].v] = [p |-> TRUE, frame |-> reg[t].f, a |-> FALSE, d |-> FALSE]]
  /\ vme' = [vme EXCEPT ![reg[t].v].is_loaded = TRUE]
  /\ UNCHANGED <<kernVars, dataVars, reg, halted>>

(* There is no memory for a page table: the process ends. *)
InstallFail(t) ==
  /\ pc[t] \in {"install", "stack"} /\ halted = "no" /\ t \in Exiting
  /\ pc[t] = "install" => ~PageGone(t)
  /\ free_page(reg[t].f) /\ Goto(t, "exit")
  /\ UNCHANGED <<vme, pte, page, swap_map, holder, disk, reg, halted>>

(* The end of page_fault. *)
Unpin(t) ==
  /\ At(t, "unpin") /\ Goto(t, reg[t].back)
  /\ reg' = [reg EXCEPT ![t].v = IF reg[t].back = "user" THEN NULL ELSE @,
                         ![t].f = NULL, ![t].type = NULL, ![t].back = "user"]
  /\ vme' = [vme EXCEPT ![reg[t].v].pinned = FALSE, ![reg[t].v].is_loaded = TRUE]
  /\ UNCHANGED <<pte, kernVars, dataVars, halted>>

(* setup_stack after alloc_page: the page is mapped before it has a vme,   *)
(* which is pinned for good.                                               *)
StackInstall(t) ==
  /\ At(t, "stack") /\ Goto(t, "stackvme")
  /\ pte' = [pte EXCEPT ![reg[t].v] = [p |-> TRUE, frame |-> reg[t].f, a |-> FALSE, d |-> FALSE]]
  /\ UNCHANGED <<vme, kernVars, dataVars, reg, halted>>

StackVme(t) ==
  /\ At(t, "stackvme") /\ Goto(t, "user")
  /\ reg' = [reg EXCEPT ![t].v = NULL, ![t].f = NULL, ![t].back = "user"]
  /\ page' = [page EXCEPT ![reg[t].f].vme = reg[t].v]
  /\ vme' = [vme EXCEPT ![reg[t].v] =
               [type |-> VM_ANON, is_loaded |-> TRUE, pinned |-> TRUE, swap_slot |-> 0]]
  /\ UNCHANGED <<pte, pool, lru_list, lru_clock, swap_map, holder, dataVars, halted>>

-----------------------------------------------------------------------------
(* process_exit: munmap (CLOSE_ALL) for the mapped files, then vm_destroy.  *)

(* Mapped files first: vm_destroy finds what munmap has left. *)
NextPage(t) ==
  LET files == {v \in reg[t].todo : Kind[v] = VM_FILE}
  IN IF files # {} THEN files ELSE reg[t].todo

Exit(t) ==
  /\ halted = "no"
  /\ pc[t] = "exit" \/ (pc[t] = "user" /\ t \in Exiting)
  /\ Goto(t, "xnext") /\ reg' = [reg EXCEPT ![t].todo = {v \in Mine(t) : vme[v] # NULL}]
  /\ UNCHANGED <<vme, pte, kernVars, dataVars, halted>>

(* do_munmap and vm_destroy_func look up the frame; do_munmap decides      *)
(* whether to write the page back.                                         *)
ExitLook(t) ==
  /\ At(t, "xnext")
  /\ \E v \in NextPage(t) :
       LET kaddr == IF pte[v].p THEN pte[v].frame ELSE NULL IN
       /\ reg' = [reg EXCEPT ![t].v = v, ![t].kaddr = kaddr]
       /\ Goto(t, IF Kind[v] = VM_FILE
                  THEN IF vme[v].is_loaded /\ pte[v].d THEN "xfs" ELSE "xclear"
                  ELSE IF vme[v].is_loaded THEN "xfree" ELSE "xvme")
  /\ UNCHANGED <<vme, pte, kernVars, dataVars, halted>>

ExitLockFile(t) ==
  /\ At(t, "xfs") /\ Acquired("filesys_lock", t) /\ Goto(t, "xwrite")
  /\ UNCHANGED <<vme, pte, pool, lru_list, lru_clock, page, swap_map, dataVars, reg, halted>>

(* file_write_at reads through the user's address and may fault. *)
ExitFault(t) == At(t, "xwrite") /\ Fault(t, reg[t].v, "xwrite")

ExitWrite(t) ==
  /\ At(t, "xwrite") /\ pte[reg[t].v].p
  /\ disk' = [disk EXCEPT ![reg[t].v] = ram[pte[reg[t].v].frame]]
  /\ Released("filesys_lock") /\ Goto(t, "xclear")
  /\ UNCHANGED <<vme, pte, pool, lru_list, lru_clock, page, swap_map, ram, reg, halted>>

ExitClear(t) ==
  /\ At(t, "xclear")
  /\ pte' = [pte EXCEPT ![reg[t].v].p = FALSE, ![reg[t].v].frame = NULL]
  /\ Goto(t, "xfree")
  /\ UNCHANGED <<vme, kernVars, dataVars, reg, halted>>

(* free_page with the frame that was looked up. *)
ExitFree(t) ==
  /\ At(t, "xfree") /\ free_page(reg[t].kaddr) /\ Goto(t, "xvme")
  /\ UNCHANGED <<vme, pte, page, swap_map, holder, disk, reg, halted>>

(* pagedir_clear_page of vm_destroy_func, and free (vme).  The swap slot   *)
(* of the page stays in use.                                               *)
ExitVme(t) ==
  /\ At(t, "xvme") /\ Goto(t, "xnext")
  /\ pte' = [pte EXCEPT ![reg[t].v].p = FALSE, ![reg[t].v].frame = NULL]
  /\ vme' = [vme EXCEPT ![reg[t].v] = NULL]
  /\ reg' = [reg EXCEPT ![t].todo = reg[t].todo \ {reg[t].v}]
  /\ UNCHANGED <<kernVars, dataVars, halted>>

ExitDone(t) ==
  /\ At(t, "xnext") /\ reg[t].todo = {} /\ Goto(t, "dead")
  /\ UNCHANGED <<vme, pte, kernVars, dataVars, reg, halted>>

-----------------------------------------------------------------------------
(* What a thread inside the kernel does next. *)
Kernel(t) ==
  \/ RwAcquire(t) \/ RwFault(t) \/ RwRelease(t)
  \/ \E write \in BOOLEAN : RwCopy(t, write)
  \/ PallocGet(t) \/ MallocFail(t) \/ AddPage(t) \/ LruAcquire(t)
  \/ ScanNone(t) \/ ScanSkip(t) \/ ScanTake(t)
  \/ EvictLockFile(t) \/ EvictWriteFile(t) \/ SwapOut(t) \/ SwapWrite(t)
  \/ Unload(t) \/ EvictFree(t)
  \/ SetVme(t) \/ Pin(t) \/ LoadFile(t) \/ SwapIn(t) \/ SwapRead(t)
  \/ Install(t) \/ InstallFail(t) \/ Unpin(t) \/ StackInstall(t) \/ StackVme(t)
  \/ ExitLook(t) \/ ExitLockFile(t) \/ ExitFault(t) \/ ExitWrite(t)
  \/ ExitClear(t) \/ ExitFree(t) \/ ExitVme(t) \/ ExitDone(t)

Panic(t) ==
  \/ LockPanic(t) \/ ClockPanic(t)
  \/ ScanWild(t) \/ EvictWild(t) \/ LoadWild(t)

User(t) ==
  \/ \E v \in VPage, write \in BOOLEAN : Access(t, v, write)
  \/ \E v \in VPage : PageFault(t, v) \/ RwCall(t, v)
  \/ Exit(t)

Next == \E t \in Proc : Kernel(t) \/ Panic(t) \/ User(t)
Spec == Init /\ [][Next]_vars

(* A thread inside the kernel goes on when it can, also into process_exit  *)
(* after a fault that could not be served.                                 *)
GoesOn(t) == Kernel(t) \/ Panic(t) \/ (pc[t] = "exit" /\ Exit(t))
FairSpec == Spec /\ \A t \in Proc : WF_vars(GoesOn(t))

-----------------------------------------------------------------------------
(* Properties.                                                             *)

ExitPlaces == {"exit", "xnext", "xfs", "xwrite", "xclear", "xfree", "xvme", "dead"}
Running(v) == pc[Owner[v]] \notin ExitPlaces

(* Frames are not shared: the frame of a page that its process can use is  *)
(* in no other page table, is not in the user pool, and its struct page is *)
(* on lru_list once.  (alloc_page, try_to_free_pages, handle_mm_fault)     *)
FramesExclusive ==
  halted = "no" =>
    /\ IsInjective(lru_list) /\ Range(lru_list) \cap pool = {}
    /\ \A v \in VPage : pte[v].p /\ Running(v) =>
         /\ pte[v].frame \in Range(lru_list)
         /\ \A w \in VPage \ {v} : pte[w].p /\ Running(w) => pte[w].frame # pte[v].frame

(* No frame is lost and none has two owners: every frame is in the user    *)
(* pool, or on lru_list once, or with one thread that is about to add it,  *)
(* also when processes end in the middle of evictions.  (__free_page,      *)
(* alloc_page)                                                             *)
FramesAccounted ==
  LET adding == {t \in Proc : pc[t] = "add"} IN
  halted = "no" =>
    /\ Frame = pool \cup Range(lru_list) \cup {reg[t].f : t \in adding}
    /\ Cardinality(pool) + Len(lru_list) + Cardinality(adding) = Cardinality(Frame)

(* Parts of the inductive invariant behind FramesAccounted. *)
Fields == {"v", "f", "type", "victim", "slot", "back", "kaddr", "todo"}
Adding == {t \in Proc : pc[t] = "add"}
Evicting == {"scan", "fs", "writeback", "swapout", "swapwrite", "unload", "clear"}
ReturnPlace == {"start", "user", "rw", "xwrite"}

TypesInv ==
  /\ pool \subseteq Frame /\ lru_list \in Seq(Frame)
  /\ DOMAIN pc = Proc /\ DOMAIN holder = Locks /\ DOMAIN reg = Proc
  /\ \A t \in Proc : DOMAIN reg[t] = Fields /\ reg[t].back \in ReturnPlace

(* A frame has one place, the hand is on the list or off it. *)
PlacesInv ==
  /\ \A i, j \in DOMAIN lru_list : lru_list[i] = lru_list[j] => i = j
  /\ pool \cap Range(lru_list) = {}
  /\ \A t \in Adding : reg[t].f \in Frame \ (pool \cup Range(lru_list))
  /\ \A t, u \in Adding : reg[t].f = reg[u].f => t = u
  /\ \A f \in Frame \ (pool \cup Range(lru_list)) : \E t \in Adding : reg[t].f = f
  /\ lru_clock \in Range(lru_list) \cup {NULL, TAIL}

(* The list stays as it is while a thread evicts: the thread has its lock. *)
EvictInv ==
  \A t \in Proc : pc[t] \in Evicting =>
    /\ holder["lru_list_lock"] = t /\ lru_list # <<>>
    /\ pc[t] # "scan" => reg[t].victim \in Range(lru_list)

CountInv ==
  /\ IsFiniteSet(Adding)
  /\ Cardinality(pool) + Len(lru_list) + Cardinality(Adding) = Cardinality(Frame)

IInv == TypesInv /\ PlacesInv /\ EvictInv /\ CountInv

(* What a page holds: its frame while it is present, the frame that is     *)
(* being installed, its swap slot, or its file.                            *)
Contents(v) ==
  LET t == Owner[v] IN
  IF pte[v].p THEN ram[pte[v].frame]
  ELSE IF pc[t] = "install" /\ reg[t].v = v THEN ram[reg[t].f]
  ELSE IF vme[v] # NULL /\ vme[v].type = VM_ANON
       THEN IF vme[v].swap_slot \in Slot THEN disk[vme[v].swap_slot] ELSE Junk
  ELSE disk[v]

(* Paging is invisible: only a write of its owner changes what a page      *)
(* holds, through any number of evictions, swaps and faults, and a mapped  *)
(* file keeps its contents when the process ends.                          *)
OwnerWrites ==
  \A v \in VPage :
    Contents(v)' # Contents(v) /\ (Kind[v] = VM_FILE \/ Running(v)') =>
      /\ pc[Owner[v]] \in {"user", "rw"}
      /\ pte[v].p /\ pte'[v].p /\ pte'[v].d
PagingInvisible == [][OwnerWrites]_vars

(* A page fault is served: the faulting thread gets back to what it was    *)
(* doing, or ends, or the machine stops.  (page_fault, alloc_page)         *)
Faulted(t) == pc[t] = "get"
Served(t) == pc[t] \in {"user", "rw", "xwrite", "dead"} \/ halted # "no"
FaultServed == \A t \in Proc : Faulted(t) ~> Served(t)

-----------------------------------------------------------------------------
(* What documents, comments and assertions say and the code does not keep. *)

(* list_next is never given the tail of lru_list: its assertion, met by    *)
(* get_next_lru_clock after the last page on the list was evicted.         *)
ListNextDefined == halted # "list_next"

(* A page that is being read in is not evicted: the pinned flag is set to  *)
(* this end by handle_mm_fault, but after the page is on lru_list.         *)
NotEvictedWhileReadIn ==
  \A t, u \in Proc : t # u /\ reg[t].victim # NULL /\ reg[u].victim = NULL =>
    ~(pc[u] \in {"pin", "load", "swapread", "install"} /\ reg[u].f = reg[t].victim)

(* What was written out is what the frame holds until the page is cleared: *)
(* its owner does not modify it during the eviction (try_to_free_pages).   *)
NotModifiedWhileEvicted ==
  [][\A t \in Proc : pc[t] \in {"unload", "clear"} /\ pc'[t] = pc[t] =>
       ram'[reg[t].victim] = ram[reg[t].victim]]_vars

(* No two threads wait for a lock of the other (lru_list_lock held for the *)
(* write-back, filesys_lock held across a fault).                          *)
WaitsFor(t, l) ==
  CASE l = "lru_list_lock" -> pc[t] \in {"lru", "add", "xfree"}
    [] l = "filesys_lock"  -> pc[t] \in {"fs", "rwlock", "xfs"}
    [] l = "swap_lock"     -> pc[t] = "swapout" \/ (pc[t] = "load" /\ reg[t].type = VM_ANON)
NoLockCycle ==
  \A t, u \in Proc, l, m \in Locks :
    ~(t # u /\ WaitsFor(t, l) /\ holder[l] = u /\ WaitsFor(u, m) /\ holder[m] = t)

(* A process that ends frees its own frames only: free_page is called with *)
(* a frame that was looked up before the wait for lru_list_lock.           *)
FreesOwnFrames ==
  \A t \in Proc :
    At(t, "xfree") /\ holder["lru_list_lock"] = NULL /\ reg[t].kaddr \in Range(lru_list)
      => page[reg[t].kaddr].vme = reg[t].v

(* swap_lock is held while a page is swapped and not afterwards (the early *)
(* returns of swap_out and swap_in).                                       *)
SwapLockReturned == \A t \in Proc : pc[t] = "user" => holder["swap_lock"] # t
=============================================================================
