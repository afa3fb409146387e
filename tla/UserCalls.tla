------------------------------- MODULE UserCalls -------------------------------
(***************************************************************************)
(* How a system call gets its arguments: the stubs of lib/user/syscall.c   *)
(* push them on the user's stack, syscall_handler of userprog/syscall.c    *)
(* fetches them and checks the memory they point to.  The work itself is   *)
(* in Process, UserFiles and Filesys.                                      *)
(***************************************************************************)
EXTENDS Naturals, Sequences

CONSTANTS
  WORD,        \* bytes of a word (4)
  PGSIZE,
  LOW,         \* lowest address of a program (0x8048000)
  PHYS_BASE,   \* first address of the kernel
  Top,         \* highest address
  Arg,         \* bound: values that are passed
  Esp          \* bound: stack pointers that a program uses

(* What the instances satisfy. *)
UserCallsAssumption ==
  /\ {WORD, PGSIZE, LOW, PHYS_BASE, Top} \subseteq Nat \ {0}
  /\ LOW < PHYS_BASE /\ PHYS_BASE <= Top /\ Esp \subseteq 0..Top

Address == 0..Top
UPage == 0..Top \div PGSIZE

(* The calls with the number of arguments that their stubs push. *)
Pushes ==
  [halt |-> 0, exit |-> 1, exec |-> 1, wait |-> 1, create |-> 2, remove |-> 1, open |-> 1,
   filesize |-> 1, read |-> 3, write |-> 3, seek |-> 2, tell |-> 1, close |-> 1,
   sigaction |-> 2, sendsig |-> 2, sched_yield |-> 0, mmap |-> 2, munmap |-> 1,
   chdir |-> 1, mkdir |-> 1, readdir |-> 2, isdir |-> 1, inumber |-> 1]
Call == DOMAIN Pushes

(* The calls of the switch with the number of arguments it fetches; the    *)
(* string or the buffer that it checks is an argument of them.             *)
Fetches ==
  [halt |-> 0, exit |-> 1, exec |-> 1, wait |-> 1, create |-> 2, remove |-> 1, open |-> 1,
   filesize |-> 1, read |-> 3, write |-> 3, seek |-> 2, tell |-> 1, close |-> 1,
   sigaction |-> 2, sendsig |-> 2, sched_yield |-> 0, mmap |-> 2, munmap |-> 1]
TakesString == {"exec", "create", "remove", "open"}
TakesBuffer == {"read", "write"}

VARIABLES
  pc,       \* "user", "handler", "check", "work", "exited"
  esp,      \* f->esp
  word,     \* the words that the program has put on its stack, by address
  vm,       \* UPage -> "none", "read-only", "writable"
  arg,      \* arg[] of syscall_handler
  called    \* the call, its arguments, how it was made, where its string ends

vars == <<pc, esp, word, vm, arg, called>>

NoCall == [name |-> "none", args |-> <<>>, stub |-> FALSE, end |-> 0]

Init ==
  /\ pc = "user" /\ esp \in Esp
  /\ word = <<>> /\ arg = <<>> /\ called = NoCall
  /\ vm \in [UPage -> {"none", "read-only", "writable"}]
  /\ \A p \in UPage : (p * PGSIZE >= PHYS_BASE \/ (p + 1) * PGSIZE <= LOW) => vm[p] = "none"

find_vme(a) == vm[a \div PGSIZE]

(* The address has passed; exit (-1) otherwise. *)
check_address(a) ==
  /\ a # 0 /\ a < PHYS_BASE
  /\ LOW <= a /\ a <= PHYS_BASE
  /\ find_vme(a) # "none"

(* A word is read after a check of its first byte; another byte that is in *)
(* no page ends the program too, by way of page_fault.                     *)
Readable(a) == \A b \in a..a + WORD - 1 : b \in Address /\ check_address(b)

-----------------------------------------------------------------------------
(* syscall0 to syscall3: the number is at sp, the arguments above it. *)
Pushed(sp, name, args) ==
  [a \in {sp + WORD * k : k \in 0..Len(args)} |->
     IF a = sp THEN name ELSE args[(a - sp) \div WORD]]

(* A stub of the user library. *)
Stub(name, args, end) ==
  LET sp == esp - WORD * (Len(args) + 1) IN
  /\ pc = "user" /\ esp >= WORD * (Len(args) + 1)
  /\ \A a \in sp..esp - 1 : check_address(a) /\ find_vme(a) = "writable"
  /\ word' = Pushed(sp, name, args)
  /\ esp' = sp
  /\ called' = [name |-> name, args |-> args, stub |-> TRUE, end |-> end]
  /\ pc' = "handler"
  /\ UNCHANGED <<vm, arg>>

(* A program that does not use the library may come with any esp, and with *)
(* any words above it.                                                     *)
Raw(name, args) ==
  /\ pc = "user"
  /\ word' = Pushed(esp, name, args)
  /\ called' = [name |-> name, args |-> args, stub |-> FALSE, end |-> 0]
  /\ pc' = "handler"
  /\ UNCHANGED <<esp, vm, arg>>

exit ==
  /\ pc' = "exited"
  /\ UNCHANGED <<esp, word, vm, arg, called>>

get_argument(count) == [k \in 1..count |-> word[esp + WORD * k]]

(* syscall_handler up to the fetched arguments.  A number that is not in   *)
(* the switch ends the thread.                                             *)
Fetched ==
  /\ check_address(esp) /\ Readable(esp)
  /\ word[esp] \in DOMAIN Fetches
  /\ \A k \in 1..Fetches[word[esp]] : Readable(esp + WORD * k)

Fetch ==
  /\ pc = "handler" /\ Fetched
  /\ arg' = get_argument(Fetches[word[esp]])
  /\ pc' = "check"
  /\ UNCHANGED <<esp, word, vm, called>>

FetchFails ==
  /\ pc = "handler" /\ ~Fetched
  /\ exit

(* The loop runs until the pointer is NULL again. *)
check_valid_string(str) == \A a \in str..Top : check_address(a)

(* Faulty variant of check_valid_buffer: only its ends are looked at. *)
check_valid_buffer_ends(buffer, size, to_write) ==
  size > 0 =>
    \A a \in {buffer, buffer + size - 1} : check_address(a) /\ (to_write => find_vme(a) = "writable")

check_valid_buffer(buffer, size, to_write) ==
  \A i \in 0..size - 1 :
    check_address(buffer + i) /\ (to_write => find_vme(buffer + i) = "writable")

Valid ==
  /\ word[esp] \in TakesString =>
       /\ word[esp] = "create" => arg[1] # 0
       /\ check_valid_string(arg[1])
  /\ word[esp] \in TakesBuffer => check_valid_buffer(arg[2], arg[3], word[esp] = "read")

Check ==
  /\ pc = "check"
  /\ \/ Valid /\ pc' = "work" /\ UNCHANGED <<esp, word, vm, arg, called>>
     \/ ~Valid /\ exit

(* The work is done; the stub takes its words off the stack. *)
Return ==
  /\ pc = "work" /\ word[esp] \notin {"halt", "exit"}
  /\ esp' = IF called.stub THEN esp + WORD * (Len(called.args) + 1) ELSE esp
  /\ pc' = "user" /\ word' = <<>> /\ arg' = <<>> /\ called' = NoCall
  /\ UNCHANGED vm

Next ==
  \/ \E name \in Call :
       \E args \in [1..Pushes[name] -> Arg] :
         \/ \E end \in IF name \in TakesString THEN {args[1], args[1] + PGSIZE} ELSE {0} : Stub(name, args, end)
         \/ Raw(name, args)
  \/ Fetch \/ FetchFails \/ Check \/ Return

Spec == Init /\ [][Next]_vars

-----------------------------------------------------------------------------
(* The handler works with the call and with the arguments that the program *)
(* gave to the stub, each in its place: the numbers of arguments and their *)
(* order agree between the library and the kernel.                         *)
ArgumentsDelivered ==
  pc = "work" /\ called.stub => word[esp] = called.name /\ arg = called.args

(* read and write go to work on a buffer exactly if every byte of it is    *)
(* the program's, and writable for read; in any other case the program     *)
(* ends (check_valid_buffer).                                              *)
BuffersChecked ==
  called.name \in TakesBuffer =>
    LET bytes == {called.args[2] + i : i \in 0..called.args[3] - 1}
        good  == \A a \in bytes :
                   /\ LOW <= a /\ a < PHYS_BASE
                   /\ vm[a \div PGSIZE] \in (IF called.name = "read" THEN {"writable"} ELSE {"read-only", "writable"}) IN
    /\ pc = "work" => good
    /\ pc = "exited" /\ called.stub => ~good

(* A program that creates a file with a name that is all in its memory is  *)
(* not ended for it.                                                       *)
NamesAccepted ==
  ~ /\ pc = "exited" /\ called.stub /\ called.name = "create"
    /\ \A a \in called.args[1]..called.end :
         LOW <= a /\ a < PHYS_BASE /\ vm[a \div PGSIZE] # "none"
=============================================================================
