---------------------------- MODULE ProcessProofs ----------------------------
(***************************************************************************)
(* Process keeps its inductive invariant, for any pages, exit codes and    *)
(* bound on tids: pages of threads are not used after they are freed, and  *)
(* process_wait delivers the final status of a child once.                 *)
(***************************************************************************)
EXTENDS Process, TLAPS

(* The places where p works on child[p]. *)
ChildPlace == {"exec_down", "exec_read", "wait_down", "wait_read"}

(* A live thread moves on without touching children or tids; it does not   *)
(* start to use child[p] and does not take a status.                       *)
Moves(p, place) ==
  /\ Live(p) /\ goto(p, place)
  /\ place \in Place \ {"none", "dead", "wait_read"}
  /\ place \in ChildPlace => pc[p] \in ChildPlace
  /\ UNCHANGED <<family, child, delivered>>

(* Initially only the initial thread exists and it has no children. *)
LEMMA InitInv == ASSUME ProcessAssumption, Init PROVE IInv
<1>1. TypeOK
  BY DEF ProcessAssumption, Init, TypeOK, Place
<1>2. NoUseAfterFree /\ NotOwnChild /\ WaitDelivers
  BY DEF ProcessAssumption, Init, NoUseAfterFree, NotOwnChild, WaitDelivers, Live
<1>3. SemasExact /\ TidsExact
  BY DEF ProcessAssumption, Init, SemasExact, TidsExact
<1> QED BY <1>1, <1>2, <1>3 DEF IInv

(* A thread that only moves on keeps what is said about children and tids. *)
LEMMA MoveKeeps ==
  ASSUME IInv, NEW p \in Page, NEW place, Moves(p, place)
  PROVE  NoUseAfterFree' /\ NotOwnChild' /\ WaitDelivers' /\ TidsExact'
<1>1. /\ pc \in [Page -> Place]
      /\ pc' = [pc EXCEPT ![p] = place]
      /\ UNCHANGED <<tid, next_tid, sibling, child, delivered>>
  BY DEF IInv, TypeOK, Moves, goto, family
<1>2. /\ pc'[p] = place /\ \A q \in Page \ {p} : pc'[q] = pc[q]
      /\ pc[p] # "none" /\ pc[p] # "dead"
      /\ place # "none" /\ place # "dead" /\ place # "wait_read"
      /\ place \in ChildPlace => pc[p] \in ChildPlace
  BY <1>1 DEF Moves, Live
<1>3. \A q \in Page : /\ Live(q)' <=> Live(q)
                      /\ (pc'[q] = "none") <=> (pc[q] = "none")
                      /\ pc'[q] \in ChildPlace => pc[q] \in ChildPlace
                      /\ pc'[q] = "wait_read" => pc[q] = "wait_read"
                      /\ pc[q] = "dead" => pc'[q] = "dead"
  BY <1>2 DEF Live
<1>4. NoUseAfterFree'
  <2> USE <1>1, <1>3
  <2>1. \A q \in Page : Live(q)' => \A c \in sibling'[q] : pc'[c] # "none"
    BY DEF IInv, NoUseAfterFree, TypeOK
  <2>2. \A q, r \in Page : Live(q)' /\ Live(r)' /\ sibling'[q] \cap sibling'[r] # {} => q = r
    BY DEF IInv, NoUseAfterFree
  <2>3. \A q \in Page : pc'[q] \in ChildPlace => child'[q] \in sibling'[q] \ {q}
    BY DEF IInv, NoUseAfterFree, ChildPlace
  <2> QED BY <2>1, <2>2, <2>3 DEF NoUseAfterFree, ChildPlace
<1>5. NotOwnChild'
  BY <1>1, <1>3 DEF IInv, NotOwnChild
<1>6. WaitDelivers'
  <2> SUFFICES ASSUME NEW q \in Page, pc'[q] = "wait_read"
               PROVE  pc'[child'[q]] = "dead" /\ tid'[child'[q]] \notin delivered'
    BY DEF WaitDelivers
  <2>1. pc[q] = "wait_read" /\ pc[child[q]] = "dead" /\ tid[child[q]] \notin delivered
    BY <1>3 DEF IInv, WaitDelivers
  <2>2. child[q] \in Page
    BY <2>1 DEF IInv, NoUseAfterFree, TypeOK
  <2> QED BY <1>1, <1>3, <2>1, <2>2
<1>7. TidsExact'
  BY <1>1, <1>3 DEF IInv, TidsExact
<1> QED BY <1>4, <1>5, <1>6, <1>7

(* A new thread asks for a page directory. *)
LEMMA LoadPagedirKeeps ==
  ASSUME ProcessAssumption, IInv, NEW p \in Page, LoadPagedir(p)
  PROVE  IInv'
<1>1. \E place : Moves(p, place)
  BY DEF IInv, TypeOK, LoadPagedir, Moves, Live, Place, ChildPlace, goto, family, history
<1>2. TypeOK'
  BY ZenonT(40) DEF IInv, TypeOK, ProcessAssumption, LoadPagedir, Place, goto, family, semas, loading, history
<1>3. SemasExact'
  BY DEF IInv, TypeOK, SemasExact, LoadPagedir, goto, semas
<1> QED BY <1>1, <1>2, <1>3, MoveKeeps DEF IInv

(* load takes filesys_lock. *)
LEMMA LoadAcquireKeeps ==
  ASSUME ProcessAssumption, IInv, NEW p \in Page, LoadAcquire(p)
  PROVE  IInv'
<1>1. \E place : Moves(p, place)
  BY DEF IInv, TypeOK, LoadAcquire, Moves, Live, Place, ChildPlace, goto, family, history
<1>2. TypeOK'
  BY DEF IInv, TypeOK, ProcessAssumption, LoadAcquire, Place, goto, family, semas, loading, history
<1>3. SemasExact'
  BY DEF IInv, TypeOK, SemasExact, LoadAcquire, goto, semas
<1> QED BY <1>1, <1>2, <1>3, MoveKeeps DEF IInv

(* load opens the executable and reads its header. *)
LEMMA LoadOpenKeeps ==
  ASSUME ProcessAssumption, IInv, NEW p \in Page, LoadOpen(p)
  PROVE  IInv'
<1>1. \E place : Moves(p, place)
  BY DEF IInv, TypeOK, LoadOpen, Moves, Live, Place, ChildPlace, goto, family, history
<1>2. TypeOK'
  BY DEF IInv, TypeOK, ProcessAssumption, LoadOpen, Place, goto, family, semas, loading, history
<1>3. SemasExact'
  BY DEF IInv, TypeOK, SemasExact, LoadOpen, goto, semas
<1> QED BY <1>1, <1>2, <1>3, MoveKeeps DEF IInv

(* load enters the segments and the stack. *)
LEMMA LoadSegmentsKeeps ==
  ASSUME ProcessAssumption, IInv, NEW p \in Page, LoadSegments(p)
  PROVE  IInv'
<1>1. \E place : Moves(p, place)
  BY DEF IInv, TypeOK, LoadSegments, Moves, Live, Place, ChildPlace, goto, family, history
<1>2. TypeOK'
  BY DEF IInv, TypeOK, ProcessAssumption, LoadSegments, Place, goto, family, semas, loading, history
<1>3. SemasExact'
  BY DEF IInv, TypeOK, SemasExact, LoadSegments, goto, semas
<1> QED BY <1>1, <1>2, <1>3, MoveKeeps DEF IInv

(* start_process ups load_semaphore, which was 0. *)
LEMMA StartUpKeeps ==
  ASSUME ProcessAssumption, IInv, NEW p \in Page, StartUp(p)
  PROVE  IInv'
<1>1. \E place : Moves(p, place)
  BY DEF IInv, TypeOK, StartUp, Moves, Live, Place, ChildPlace, goto, family, history
<1>a. load_sema[p] = 0
  BY DEF IInv, SemasExact, StartUp
<1>2. TypeOK'
  BY <1>a DEF IInv, TypeOK, StartUp, Place, goto, family, loading, history
<1>3. SemasExact'
  BY DEF IInv, TypeOK, SemasExact, StartUp, goto, semas
<1> QED BY <1>1, <1>2, <1>3, MoveKeeps DEF IInv

(* start_process sets load_process. *)
LEMMA StartSetKeeps ==
  ASSUME ProcessAssumption, IInv, NEW p \in Page, StartSet(p)
  PROVE  IInv'
<1>1. \E place : Moves(p, place)
  BY DEF IInv, TypeOK, StartSet, Moves, Live, Place, ChildPlace, goto, family, history
<1>2. TypeOK'
  BY DEF IInv, TypeOK, ProcessAssumption, StartSet, Place, goto, family, semas, loading, history
<1>3. SemasExact'
  BY DEF IInv, TypeOK, SemasExact, StartSet, goto, semas
<1> QED BY <1>1, <1>2, <1>3, MoveKeeps DEF IInv

(* exec downs the load_semaphore of its child. *)
LEMMA ExecDownKeeps ==
  ASSUME ProcessAssumption, IInv, NEW p \in Page, ExecDown(p)
  PROVE  IInv'
<1>1. \E place : Moves(p, place)
  BY DEF IInv, TypeOK, ExecDown, Moves, Live, Place, ChildPlace, goto, family, history
<1>a. child[p] \in Page
  BY DEF IInv, TypeOK, NoUseAfterFree, ExecDown
<1>b. load_sema[child[p]] = 1
  BY <1>a DEF IInv, TypeOK, ExecDown
<1>2. TypeOK'
  BY <1>a, <1>b DEF IInv, TypeOK, ExecDown, Place, goto, family, loading, history
<1>3. SemasExact'
  BY DEF IInv, TypeOK, SemasExact, ExecDown, goto, semas
<1> QED BY <1>1, <1>2, <1>3, MoveKeeps DEF IInv

(* exec returns. *)
LEMMA ExecReturnKeeps ==
  ASSUME ProcessAssumption, IInv, NEW p \in Page, ExecReturn(p)
  PROVE  IInv'
<1>1. \E place : Moves(p, place)
  BY DEF IInv, TypeOK, ExecReturn, Moves, Live, Place, ChildPlace, goto, family, history
<1>2. TypeOK'
  BY DEF IInv, TypeOK, ProcessAssumption, ExecReturn, Place, goto, family, semas, loading, history
<1>3. SemasExact'
  BY DEF IInv, TypeOK, SemasExact, ExecReturn, goto, semas
<1> QED BY <1>1, <1>2, <1>3, MoveKeeps DEF IInv

(* exit, or a system call that does not exist. *)
LEMMA ExitKeeps ==
  ASSUME ProcessAssumption, IInv, NEW p \in Page, Exit(p)
  PROVE  IInv'
<1>1. \E place : Moves(p, place)
  BY DEF IInv, TypeOK, Exit, Moves, Live, Place, ChildPlace, goto, family, history, exit
<1>2. TypeOK'
  BY DEF IInv, TypeOK, ProcessAssumption, Exit, Place, goto, family, semas, loading, history, exit
<1>3. SemasExact'
  BY DEF IInv, TypeOK, SemasExact, Exit, goto, semas, exit
<1> QED BY <1>1, <1>2, <1>3, MoveKeeps DEF IInv

(* An exception ends the process. *)
LEMMA KillKeeps ==
  ASSUME ProcessAssumption, IInv, NEW p \in Page, Kill(p)
  PROVE  IInv'
<1>1. \E place : Moves(p, place)
  BY DEF IInv, TypeOK, Kill, Moves, Live, Place, ChildPlace, goto, family, history
<1>2. TypeOK'
  BY DEF IInv, TypeOK, ProcessAssumption, Kill, Place, goto, family, semas, loading, history
<1>3. SemasExact'
  BY DEF IInv, TypeOK, SemasExact, Kill, goto, semas
<1> QED BY <1>1, <1>2, <1>3, MoveKeeps DEF IInv

(* A page fault that cannot be served ends the process. *)
LEMMA BadFaultKeeps ==
  ASSUME ProcessAssumption, IInv, NEW p \in Page, BadFault(p)
  PROVE  IInv'
<1>1. \E place : Moves(p, place)
  BY DEF IInv, TypeOK, BadFault, Moves, Live, Place, ChildPlace, goto, family, history, exit
<1>2. TypeOK'
  BY DEF IInv, TypeOK, ProcessAssumption, BadFault, Place, goto, family, semas, loading, history, exit
<1>3. SemasExact'
  BY DEF IInv, TypeOK, SemasExact, BadFault, goto, semas, exit
<1> QED BY <1>1, <1>2, <1>3, MoveKeeps DEF IInv

(* A call that needs filesys_lock. *)
LEMMA FileCallKeeps ==
  ASSUME ProcessAssumption, IInv, NEW p \in Page, FileCall(p)
  PROVE  IInv'
<1>1. \E place : Moves(p, place)
  BY DEF IInv, TypeOK, FileCall, Moves, Live, Place, ChildPlace, goto, family, history
<1>2. TypeOK'
  BY DEF IInv, TypeOK, ProcessAssumption, FileCall, Place, goto, family, semas, loading, history
<1>3. SemasExact'
  BY DEF IInv, TypeOK, SemasExact, FileCall, goto, semas
<1> QED BY <1>1, <1>2, <1>3, MoveKeeps DEF IInv

(* The call takes filesys_lock. *)
LEMMA FileAcquireKeeps ==
  ASSUME ProcessAssumption, IInv, NEW p \in Page, FileAcquire(p)
  PROVE  IInv'
<1>1. \E place : Moves(p, place)
  BY DEF IInv, TypeOK, FileAcquire, Moves, Live, Place, ChildPlace, goto, family, history
<1>2. TypeOK'
  BY DEF IInv, TypeOK, ProcessAssumption, FileAcquire, Place, goto, family, semas, loading, history
<1>3. SemasExact'
  BY DEF IInv, TypeOK, SemasExact, FileAcquire, goto, semas
<1> QED BY <1>1, <1>2, <1>3, MoveKeeps DEF IInv

(* The call returns, or ends the process with the lock held. *)
LEMMA FileReturnKeeps ==
  ASSUME ProcessAssumption, IInv, NEW p \in Page, FileReturn(p)
  PROVE  IInv'
<1>1. \E place : Moves(p, place)
  BY DEF IInv, TypeOK, FileReturn, Moves, Live, Place, ChildPlace, goto, family, history, exit
<1>2. TypeOK'
  BY DEF IInv, TypeOK, ProcessAssumption, FileReturn, Place, goto, family, semas, loading, history, exit
<1>3. SemasExact'
  BY DEF IInv, TypeOK, SemasExact, FileReturn, goto, semas, exit
<1> QED BY <1>1, <1>2, <1>3, MoveKeeps DEF IInv

(* lock_acquire's assertion fails. *)
LEMMA LockPanicKeeps ==
  ASSUME ProcessAssumption, IInv, NEW p \in Page, LockPanic(p)
  PROVE  IInv'
<1>1. \E place : Moves(p, place)
  BY DEF IInv, TypeOK, LockPanic, Moves, Live, Place, ChildPlace, goto, family, history
<1>2. TypeOK'
  BY DEF IInv, TypeOK, ProcessAssumption, LockPanic, Place, goto, family, semas, loading, history
<1>3. SemasExact'
  BY DEF IInv, TypeOK, SemasExact, LockPanic, goto, semas
<1> QED BY <1>1, <1>2, <1>3, MoveKeeps DEF IInv

(* process_execute: the page was free, so it is on no list of a live       *)
(* thread, and its tid is new.                                             *)
LEMMA ExecuteKeeps ==
  ASSUME ProcessAssumption, IInv, NEW p \in Page, NEW c \in Page, NEW place \in {"exec_down", "wait_down"},
         pc[p] \in {"run", "user"}, process_execute(p, c, place)
  PROVE  IInv'
<1>1. /\ pc \in [Page -> Place] /\ sibling \in [Page -> SUBSET Page] /\ child \in [Page -> Page \cup {NULL}]
      /\ tid \in [Page -> Nat] /\ next_tid \in Nat /\ delivered \subseteq Nat
      /\ load_sema \in [Page -> {0, 1}] /\ exit_sema \in [Page -> {0, 1}]
  BY DEF IInv, TypeOK
<1>2. pc[c] = "none" /\ c # p
  BY DEF process_execute
<1>3. /\ pc'[p] = place /\ pc'[c] = "start" /\ \A q \in Page \ {p, c} : pc'[q] = pc[q]
      /\ sibling'[p] = sibling[p] \cup {c} /\ sibling'[c] = {} /\ \A q \in Page \ {p, c} : sibling'[q] = sibling[q]
      /\ child'[p] = c /\ \A q \in Page \ {p} : child'[q] = child[q]
      /\ tid'[c] = next_tid /\ \A q \in Page \ {c} : tid'[q] = tid[q]
      /\ delivered' = delivered
  BY <1>1, <1>2 DEF process_execute
<1>4. \A q \in Page : Live(q) => c \notin sibling[q]
  BY <1>2 DEF IInv, NoUseAfterFree
<1>5. /\ \A q \in Page : Live(q)' <=> Live(q) \/ q = c
      /\ Live(p) /\ ~Live(c)
  BY <1>2, <1>3 DEF Live
<1>6. TypeOK'
  BY DEF IInv, TypeOK, ProcessAssumption, process_execute, Place
<1>7. NoUseAfterFree'
  <2>1. \A q \in Page : Live(q)' => \A d \in sibling'[q] : pc'[d] # "none"
    <3> SUFFICES ASSUME NEW q \in Page, Live(q)', NEW d \in sibling'[q]
                 PROVE  pc'[d] # "none"
      OBVIOUS
    <3>1. d = c \/ (d \in Page /\ pc[d] # "none")
      BY <1>1, <1>2, <1>3, <1>5 DEF IInv, NoUseAfterFree
    <3> QED BY <1>3, <3>1
  <2>2. \A q, r \in Page : Live(q)' /\ Live(r)' /\ sibling'[q] \cap sibling'[r] # {} => q = r
    <3> SUFFICES ASSUME NEW q \in Page, NEW r \in Page, Live(q)', Live(r)',
                        NEW d \in sibling'[q] \cap sibling'[r]
                 PROVE  q = r
      OBVIOUS
    <3>1. q # c /\ r # c
      BY <1>3
    <3>2. Live(q) /\ Live(r)
      BY <1>5, <3>1
    <3>3. CASE d = c
      BY <1>3, <1>4, <3>1, <3>2, <3>3
    <3>4. CASE d # c
      BY <1>3, <3>1, <3>2, <3>4 DEF IInv, NoUseAfterFree
    <3> QED BY <3>3, <3>4
  <2>3. \A q \in Page : pc'[q] \in ChildPlace => child'[q] \in sibling'[q] \ {q}
    BY <1>2, <1>3 DEF IInv, NoUseAfterFree, ChildPlace
  <2> QED BY <2>1, <2>2, <2>3 DEF NoUseAfterFree, ChildPlace
<1>8. NotOwnChild'
  BY <1>2, <1>3, <1>5 DEF IInv, NotOwnChild
<1>9. WaitDelivers'
  <2> SUFFICES ASSUME NEW q \in Page, pc'[q] = "wait_read"
               PROVE  pc'[child'[q]] = "dead" /\ tid'[child'[q]] \notin delivered'
    BY DEF WaitDelivers
  <2>1. q \notin {p, c} /\ pc[q] = "wait_read"
    BY <1>3
  <2>2. child[q] \in Page /\ pc[child[q]] = "dead" /\ tid[child[q]] \notin delivered
    BY <1>1, <2>1 DEF IInv, NoUseAfterFree, WaitDelivers
  <2>3. child[q] \notin {p, c}
    BY <1>2, <1>5, <2>2 DEF Live
  <2> QED BY <1>3, <2>1, <2>2, <2>3
<1>10. SemasExact'
  BY <1>1, <1>2 DEF IInv, SemasExact, process_execute
<1>11. TidsExact'
  <2>1. next_tid' = next_tid + 1
    BY DEF process_execute
  <2>2. /\ \A q \in Page : tid'[q] < next_tid'
        /\ \A n \in delivered' : n < next_tid'
    BY <1>1, <1>3, <2>1 DEF IInv, TidsExact
  <2>3. \A q \in Page : q # c => tid[q] # next_tid
    BY <1>1 DEF IInv, TidsExact
  <2>4. next_tid \notin delivered
    BY <1>1 DEF IInv, TidsExact
  <2>5. \A q \in Page : q # c => (pc'[q] # "none" <=> pc[q] # "none")
    BY <1>3
  <2>6. \A q \in Page : pc'[q] # "none" => tid'[q] \notin delivered'
    BY <1>3, <2>4, <2>5 DEF IInv, TidsExact
  <2>7. \A q, r \in Page : pc'[q] # "none" /\ pc'[r] # "none" /\ tid'[q] = tid'[r] => q = r
    BY <1>3, <2>3, <2>5 DEF IInv, TidsExact
  <2> QED BY <2>2, <2>6, <2>7 DEF TidsExact
<1> QED BY <1>6, <1>7, <1>8, <1>9, <1>10, <1>11 DEF IInv

(* wait: the child that is found is on the caller's list. *)
LEMMA WaitKeeps ==
  ASSUME ProcessAssumption, IInv, NEW p \in Page, NEW t, Wait(p, t)
  PROVE  IInv'
<1>1. CASE UNCHANGED vars
  BY <1>1 DEF IInv, TypeOK, NoUseAfterFree, NotOwnChild, WaitDelivers, SemasExact, TidsExact, Live,
              vars, family, semas, loading, history
<1>2. ASSUME NEW c \in get_child_process(p, t),
             child' = [child EXCEPT ![p] = c], goto(p, "wait_down"),
             UNCHANGED <<family, semas, loading, exit_status, filesys_lock, history>>
      PROVE  IInv'
  <2>1. /\ pc \in [Page -> Place] /\ sibling \in [Page -> SUBSET Page] /\ child \in [Page -> Page \cup {NULL}]
        /\ pc[p] = "user" /\ c \in sibling[p]
    BY DEF IInv, TypeOK, Wait, get_child_process
  <2>2. c \in Page /\ c # p
    BY <2>1 DEF IInv, NotOwnChild, Live
  <2>3. /\ pc'[p] = "wait_down" /\ \A q \in Page \ {p} : pc'[q] = pc[q]
        /\ child'[p] = c /\ \A q \in Page \ {p} : child'[q] = child[q]
        /\ UNCHANGED <<tid, next_tid, sibling, load_sema, exit_sema, success, load_process, exit_status,
                       filesys_lock, killed, delivered>>
    BY <1>2, <2>1, <2>2 DEF goto, family, semas, loading, history
  <2>4. \A q \in Page : /\ Live(q)' <=> Live(q)
                        /\ (pc'[q] = "none") <=> (pc[q] = "none")
                        /\ pc[q] = "dead" => pc'[q] = "dead"
    BY <2>1, <2>3 DEF Live
  <2>5. TypeOK'
    BY <1>2, <2>1, <2>2, <2>3 DEF IInv, TypeOK, Place, goto
  <2>6. NoUseAfterFree'
    <3>1. \A q \in Page : Live(q)' => \A d \in sibling'[q] : pc'[d] # "none"
      BY <2>1, <2>3, <2>4 DEF IInv, NoUseAfterFree
    <3>2. \A q, r \in Page : Live(q)' /\ Live(r)' /\ sibling'[q] \cap sibling'[r] # {} => q = r
      BY <2>3, <2>4 DEF IInv, NoUseAfterFree
    <3>3. \A q \in Page : pc'[q] \in ChildPlace => child'[q] \in sibling'[q] \ {q}
      BY <2>1, <2>2, <2>3 DEF IInv, NoUseAfterFree, ChildPlace
    <3> QED BY <3>1, <3>2, <3>3 DEF NoUseAfterFree, ChildPlace
  <2>7. NotOwnChild'
    BY <2>3, <2>4 DEF IInv, NotOwnChild
  <2>8. WaitDelivers'
    <3> SUFFICES ASSUME NEW q \in Page, pc'[q] = "wait_read"
                 PROVE  pc'[child'[q]] = "dead" /\ tid'[child'[q]] \notin delivered'
      BY DEF WaitDelivers
    <3>1. q # p /\ pc[q] = "wait_read"
      BY <2>3
    <3>2. child[q] \in Page /\ pc[child[q]] = "dead" /\ tid[child[q]] \notin delivered
      BY <2>1, <3>1 DEF IInv, NoUseAfterFree, WaitDelivers
    <3> QED BY <2>3, <2>4, <3>1, <3>2
  <2>9. SemasExact'
    BY <2>1, <2>3 DEF IInv, SemasExact
  <2>10. TidsExact'
    BY <2>3, <2>4 DEF IInv, TidsExact
  <2> QED BY <2>5, <2>6, <2>7, <2>8, <2>9, <2>10 DEF IInv
<1> QED BY <1>1, <1>2 DEF Wait

(* process_wait passes the exit_semaphore of its child: it was up, so the  *)
(* child is dead.                                                          *)
LEMMA WaitDownKeeps ==
  ASSUME ProcessAssumption, IInv, NEW p \in Page, WaitDown(p)
  PROVE  IInv'
<1>1. /\ pc \in [Page -> Place] /\ exit_sema \in [Page -> {0, 1}] /\ sibling \in [Page -> SUBSET Page]
      /\ pc[p] = "wait_down" /\ exit_sema[child[p]] > 0
      /\ pc' = [pc EXCEPT ![p] = "wait_read"]
      /\ exit_sema' = [exit_sema EXCEPT ![child[p]] = @ - 1]
      /\ UNCHANGED <<tid, next_tid, sibling, load_sema, success, load_process, exit_status, child,
                     filesys_lock, killed, delivered>>
  BY DEF IInv, TypeOK, WaitDown, goto, family, loading, history
<1>2. child[p] \in Page /\ child[p] \in sibling[p] /\ child[p] # p /\ pc[child[p]] # "none"
  BY <1>1 DEF IInv, NoUseAfterFree, Live
<1>3. exit_sema[child[p]] = 1 /\ pc[child[p]] = "dead"
  BY <1>1, <1>2 DEF IInv, SemasExact
<1>4. /\ pc'[p] = "wait_read" /\ \A q \in Page \ {p} : pc'[q] = pc[q]
      /\ exit_sema'[child[p]] = 0 /\ \A q \in Page \ {child[p]} : exit_sema'[q] = exit_sema[q]
  BY <1>1, <1>2, <1>3
<1>5. \A q \in Page : /\ Live(q)' <=> Live(q)
                      /\ (pc'[q] = "none") <=> (pc[q] = "none")
                      /\ pc[q] = "dead" => pc'[q] = "dead"
  BY <1>1, <1>4 DEF Live
<1>6. TypeOK'
  BY <1>1, <1>2, <1>3 DEF IInv, TypeOK, Place
<1>7. NoUseAfterFree'
  <2>1. \A q \in Page : Live(q)' => \A d \in sibling'[q] : pc'[d] # "none"
    BY <1>1, <1>5 DEF IInv, NoUseAfterFree
  <2>2. \A q, r \in Page : Live(q)' /\ Live(r)' /\ sibling'[q] \cap sibling'[r] # {} => q = r
    BY <1>1, <1>5 DEF IInv, NoUseAfterFree
  <2>3. \A q \in Page : pc'[q] \in ChildPlace => child'[q] \in sibling'[q] \ {q}
    BY <1>1, <1>4 DEF IInv, NoUseAfterFree, ChildPlace
  <2> QED BY <2>1, <2>2, <2>3 DEF NoUseAfterFree, ChildPlace
<1>8. NotOwnChild'
  BY <1>1, <1>5 DEF IInv, NotOwnChild
<1>9. WaitDelivers'
  <2> SUFFICES ASSUME NEW q \in Page, pc'[q] = "wait_read"
               PROVE  pc'[child[q]] = "dead" /\ tid[child[q]] \notin delivered
    BY <1>1 DEF WaitDelivers
  <2>1. CASE q = p
    BY <1>2, <1>3, <1>5, <2>1 DEF IInv, TidsExact
  <2>2. CASE q # p
    <3>1. pc[q] = "wait_read"
      BY <1>4, <2>2
    <3>2. child[q] \in Page /\ pc[child[q]] = "dead" /\ tid[child[q]] \notin delivered
      BY <1>1, <3>1 DEF IInv, NoUseAfterFree, WaitDelivers
    <3> QED BY <1>5, <3>2
  <2> QED BY <2>1, <2>2
<1>10. SemasExact'
  BY <1>1, <1>3, <1>4 DEF IInv, SemasExact
<1>11. TidsExact'
  BY <1>1, <1>5 DEF IInv, TidsExact
<1> QED BY <1>6, <1>7, <1>8, <1>9, <1>10, <1>11 DEF IInv

(* process_wait takes the status, unlinks the child and frees its page:    *)
(* nobody else has the child on a list or is waiting for it.               *)
LEMMA WaitReturnKeeps ==
  ASSUME ProcessAssumption, IInv, NEW p \in Page, WaitReturn(p)
  PROVE  IInv'
<1> DEFINE c == child[p]
<1> DEFINE back == IF p = Main THEN "run" ELSE "user"
<1>1. /\ pc \in [Page -> Place] /\ sibling \in [Page -> SUBSET Page] /\ tid \in [Page -> Nat]
      /\ pc[p] = "wait_read" /\ pc' = [pc EXCEPT ![c] = "none", ![p] = back]
      /\ sibling' = [sibling EXCEPT ![p] = @ \ {c}]
      /\ delivered' = delivered \cup {tid[c]}
      /\ UNCHANGED <<tid, next_tid, load_sema, exit_sema, success, load_process, exit_status, child,
                     filesys_lock, killed>>
  BY DEF IInv, TypeOK, WaitReturn, semas, loading
<1>2. c \in Page /\ c \in sibling[p] /\ c # p /\ pc[c] = "dead" /\ tid[c] \notin delivered
  BY <1>1 DEF IInv, NoUseAfterFree, WaitDelivers
<1> HIDE DEF c, back
<1>3. /\ pc'[p] = back /\ pc'[c] = "none" /\ \A q \in Page \ {p, c} : pc'[q] = pc[q]
      /\ sibling'[p] = sibling[p] \ {c} /\ \A q \in Page \ {p} : sibling'[q] = sibling[q]
  BY <1>1, <1>2
<1>4. back \in {"run", "user"}
  BY DEF back
<1>5. \A q \in Page : Live(q)' <=> Live(q)
  BY <1>1, <1>2, <1>3, <1>4 DEF Live
<1>6. \A q \in Page : q # c => ((pc'[q] = "none") <=> (pc[q] = "none"))
  BY <1>1, <1>3, <1>4
<1>7. \A q \in Page : Live(q) /\ c \in sibling[q] => q = p
  BY <1>1, <1>2 DEF IInv, NoUseAfterFree, Live
<1>8. TypeOK'
  <2>1. pc' \in [Page -> Place]
    BY <1>1, <1>2, <1>4 DEF Place
  <2>2. sibling' \in [Page -> SUBSET Page]
    BY <1>1
  <2>3. delivered' \subseteq Nat
    <3>1. delivered \subseteq Nat /\ tid[c] \in Nat
      BY <1>1, <1>2 DEF IInv, TypeOK
    <3> QED BY <1>1, <3>1
  <2> QED BY <1>1, <2>1, <2>2, <2>3 DEF IInv, TypeOK
<1>9. NoUseAfterFree'
  <2>1. \A q \in Page : Live(q)' => \A d \in sibling'[q] : pc'[d] # "none"
    <3> SUFFICES ASSUME NEW q \in Page, Live(q)', NEW d \in sibling'[q]
                 PROVE  pc'[d] # "none"
      OBVIOUS
    <3>1. d \in Page /\ d # c /\ d \in sibling[q]
      BY <1>1, <1>3, <1>5, <1>7
    <3> QED BY <1>5, <1>6, <3>1 DEF IInv, NoUseAfterFree
  <2>2. \A q, r \in Page : Live(q)' /\ Live(r)' /\ sibling'[q] \cap sibling'[r] # {} => q = r
    <3> SUFFICES ASSUME NEW q \in Page, NEW r \in Page, Live(q)', Live(r)',
                        NEW d \in sibling'[q] \cap sibling'[r]
                 PROVE  q = r
      OBVIOUS
    <3>1. d \in sibling[q] \cap sibling[r]
      BY <1>3
    <3> QED BY <1>5, <3>1 DEF IInv, NoUseAfterFree
  <2>3. \A q \in Page : pc'[q] \in ChildPlace => child'[q] \in sibling'[q] \ {q}
    <3> SUFFICES ASSUME NEW q \in Page, pc'[q] \in ChildPlace
                 PROVE  child[q] \in sibling'[q] \ {q}
      BY <1>1
    <3>1. q # p /\ q # c /\ pc[q] = pc'[q]
      BY <1>3, <1>4 DEF ChildPlace
    <3> QED BY <1>3, <3>1 DEF IInv, NoUseAfterFree, ChildPlace
  <2> QED BY <2>1, <2>2, <2>3 DEF NoUseAfterFree, ChildPlace
<1>10. NotOwnChild'
  BY <1>3, <1>5 DEF IInv, NotOwnChild
<1>11. WaitDelivers'
  <2> SUFFICES ASSUME NEW q \in Page, pc'[q] = "wait_read"
               PROVE  pc'[child[q]] = "dead" /\ tid[child[q]] \notin delivered'
    BY <1>1 DEF WaitDelivers
  <2>1. q # p /\ pc[q] = "wait_read"
    BY <1>3, <1>4
  <2>2. /\ child[q] \in Page /\ pc[child[q]] = "dead" /\ tid[child[q]] \notin delivered
        /\ child[q] \in sibling[q] /\ Live(q)
    BY <1>1, <2>1 DEF IInv, NoUseAfterFree, WaitDelivers, Live
  <2>3. child[q] # c /\ child[q] # p
    BY <1>1, <1>7, <2>1, <2>2
  <2>4. tid[child[q]] # tid[c]
    BY <1>2, <2>2, <2>3 DEF IInv, TidsExact
  <2> QED BY <1>1, <1>3, <2>2, <2>3, <2>4
<1>12. SemasExact'
  BY <1>1, <1>2, <1>3, <1>4 DEF IInv, SemasExact
<1>13. TidsExact'
  <2>1. \A q \in Page : q # c /\ pc[q] # "none" => tid[q] # tid[c]
    BY <1>2 DEF IInv, TidsExact
  <2>2. /\ \A q \in Page : tid'[q] < next_tid'
        /\ \A n \in delivered' : n < next_tid'
    BY <1>1, <1>2 DEF IInv, TidsExact
  <2>3. \A q \in Page : pc'[q] # "none" => tid'[q] \notin delivered'
    BY <1>1, <1>3, <1>6, <2>1 DEF IInv, TidsExact
  <2>4. \A q, r \in Page : pc'[q] # "none" /\ pc'[r] # "none" /\ tid'[q] = tid'[r] => q = r
    BY <1>1, <1>3, <1>6 DEF IInv, TidsExact
  <2> QED BY <2>2, <2>3, <2>4 DEF TidsExact
<1> QED BY <1>8, <1>9, <1>10, <1>11, <1>12, <1>13 DEF IInv

(* thread_exit ups exit_semaphore, which was 0. *)
LEMMA ThreadExitKeeps ==
  ASSUME ProcessAssumption, IInv, NEW p \in Page, ThreadExit(p)
  PROVE  IInv'
<1>1. /\ pc \in [Page -> Place] /\ exit_sema \in [Page -> {0, 1}] /\ sibling \in [Page -> SUBSET Page]
      /\ pc[p] = "exiting" /\ pc' = [pc EXCEPT ![p] = "dead"]
      /\ exit_sema' = [exit_sema EXCEPT ![p] = @ + 1]
      /\ UNCHANGED <<tid, next_tid, sibling, load_sema, success, load_process, exit_status, child,
                     filesys_lock, killed, delivered>>
  BY DEF IInv, TypeOK, ThreadExit, goto, family, loading, history
<1>2. exit_sema[p] = 0
  BY <1>1 DEF IInv, SemasExact
<1>3. /\ pc'[p] = "dead" /\ \A q \in Page \ {p} : pc'[q] = pc[q]
      /\ exit_sema'[p] = 1 /\ \A q \in Page \ {p} : exit_sema'[q] = exit_sema[q]
  BY <1>1, <1>2
<1>4. \A q \in Page : /\ Live(q)' => Live(q)
                      /\ (pc'[q] = "none") <=> (pc[q] = "none")
                      /\ pc[q] = "dead" => pc'[q] = "dead"
                      /\ pc'[q] \in ChildPlace => pc[q] = pc'[q]
  BY <1>1, <1>3 DEF Live, ChildPlace
<1>5. TypeOK'
  BY <1>1, <1>2 DEF IInv, TypeOK, Place
<1>6. NoUseAfterFree'
  <2>1. \A q \in Page : Live(q)' => \A d \in sibling'[q] : pc'[d] # "none"
    BY <1>1, <1>4 DEF IInv, NoUseAfterFree
  <2>2. \A q, r \in Page : Live(q)' /\ Live(r)' /\ sibling'[q] \cap sibling'[r] # {} => q = r
    BY <1>1, <1>4 DEF IInv, NoUseAfterFree
  <2>3. \A q \in Page : pc'[q] \in ChildPlace => child'[q] \in sibling'[q] \ {q}
    BY <1>1, <1>4 DEF IInv, NoUseAfterFree, ChildPlace
  <2> QED BY <2>1, <2>2, <2>3 DEF NoUseAfterFree, ChildPlace
<1>7. NotOwnChild'
  BY <1>1, <1>4 DEF IInv, NotOwnChild
<1>8. WaitDelivers'
  <2> SUFFICES ASSUME NEW q \in Page, pc'[q] = "wait_read"
               PROVE  pc'[child[q]] = "dead" /\ tid[child[q]] \notin delivered
    BY <1>1 DEF WaitDelivers
  <2>1. pc[q] = "wait_read"
    BY <1>4 DEF ChildPlace
  <2>2. child[q] \in Page /\ pc[child[q]] = "dead" /\ tid[child[q]] \notin delivered
    BY <1>1, <2>1 DEF IInv, NoUseAfterFree, WaitDelivers
  <2> QED BY <1>4, <2>2
<1>9. SemasExact'
  BY <1>1, <1>3 DEF IInv, SemasExact
<1>10. TidsExact'
  BY <1>1, <1>4 DEF IInv, TidsExact
<1> QED BY <1>5, <1>6, <1>7, <1>8, <1>9, <1>10 DEF IInv

-----------------------------------------------------------------------------
(* A step that changes nothing. *)
LEMMA StutterKeeps == ASSUME IInv, UNCHANGED vars PROVE IInv'
  BY DEF IInv, TypeOK, NoUseAfterFree, NotOwnChild, WaitDelivers, SemasExact, TidsExact, Live,
         vars, family, semas, loading, history

(* exec makes a process, or ends the caller when there is no page. *)
LEMMA ExecKeeps == ASSUME ProcessAssumption, IInv, NEW p \in Page, Exec(p) PROVE IInv'
<1>1. ASSUME NEW c \in Page, process_execute(p, c, "exec_down") PROVE IInv'
  BY <1>1, ExecuteKeeps DEF Exec
<1>2. ASSUME exit(p, -1), UNCHANGED <<family, semas, loading, child, filesys_lock, history>> PROVE IInv'
  <2>1. Moves(p, "exiting")
    BY <1>2 DEF Exec, exit, Moves, Live, Place, ChildPlace, history
  <2>2. TypeOK'
    BY <1>2 DEF IInv, TypeOK, Place, exit, goto, family, semas, loading, history
  <2>3. SemasExact'
    BY <1>2 DEF IInv, TypeOK, SemasExact, Exec, exit, goto, semas
  <2> QED BY <2>1, <2>2, <2>3, MoveKeeps DEF IInv
<1> QED BY <1>1, <1>2 DEF Exec

(* A step of the initial thread. *)
LEMMA RunTaskKeeps == ASSUME ProcessAssumption, IInv, RunTask PROVE IInv'
<1>1. ASSUME NEW c \in Page, process_execute(Main, c, "wait_down") PROVE IInv'
  BY <1>1, ExecuteKeeps DEF RunTask, ProcessAssumption
<1> QED BY <1>1, StutterKeeps DEF RunTask

(* Every step keeps the invariant. *)
LEMMA NextKeeps == ASSUME ProcessAssumption, IInv, [Next]_vars PROVE IInv'
<1>1. ASSUME NEW p \in Page, Inside(p) PROVE IInv'
  BY <1>1, LoadPagedirKeeps, LoadOpenKeeps, LoadSegmentsKeeps, StartUpKeeps, StartSetKeeps, ExecDownKeeps,
     ExecReturnKeeps, WaitDownKeeps, WaitReturnKeeps, FileReturnKeeps, LockPanicKeeps, ThreadExitKeeps
  DEF Inside
<1>2. ASSUME NEW p \in Page, Acquire(p) PROVE IInv'
  BY <1>2, LoadAcquireKeeps, FileAcquireKeeps DEF Acquire
<1>3. ASSUME NEW p \in Page, User(p) PROVE IInv'
  BY <1>3, ExecKeeps, ExitKeeps, KillKeeps, BadFaultKeeps, FileCallKeeps, WaitKeeps DEF User
<1> QED BY <1>1, <1>2, <1>3, RunTaskKeeps, StutterKeeps DEF Next

(* The pages of struct threads are not used after they are freed, whatever *)
(* the order in which parents and children run, exit and wait (exec,       *)
(* process_wait, remove_child_process).                                    *)
THEOREM PagesNotReused == ProcessAssumption /\ Spec => []NoUseAfterFree
<1> SUFFICES ASSUME ProcessAssumption PROVE Spec => []NoUseAfterFree
  OBVIOUS
<1>1. Init => IInv
  BY InitInv
<1>2. IInv /\ [Next]_vars => IInv'
  BY NextKeeps
<1>3. IInv => NoUseAfterFree
  BY DEF IInv
<1> QED BY <1>1, <1>2, <1>3, PTL DEF Spec

(* process_wait takes the status of a child only when the child is dead,   *)
(* and never twice for a tid (process_wait, thread_exit).                  *)
THEOREM StatusDelivered == ProcessAssumption /\ Spec => []WaitDelivers
<1> SUFFICES ASSUME ProcessAssumption PROVE Spec => []WaitDelivers
  OBVIOUS
<1>1. Init => IInv
  BY InitInv
<1>2. IInv /\ [Next]_vars => IInv'
  BY NextKeeps
<1>3. IInv => WaitDelivers
  BY DEF IInv
<1> QED BY <1>1, <1>2, <1>3, PTL DEF Spec
=============================================================================
