---------------------------------- MODULE Ide ----------------------------------
(***************************************************************************)
(* An ATA channel with two disks, devices/ide.c: detection at boot, then   *)
(* ide_read and ide_write by threads, with the channel's lock, its         *)
(* completion semaphore and interrupt.  The disks' side is external.       *)
(***************************************************************************)
EXTENDS Naturals

CONSTANTS
  Thread, Sector, Value,
  Errors, Ready, Sigs, Bigs,   \* what the disks may show at boot
  NONE

Disk == {0, 1}

VARIABLES
  error, ready, sig,      \* what the registers of each disk show at boot
  big,                    \* disks of 1 GB and more
  is_ata, boot,           \* boot: steps of ide_init that are done
  lock, expecting_interrupt, completion_wait,
  device, lba,            \* selected disk and sector
  status,                 \* of the channel: idle, or the phase of a command
  intrq, data,            \* interrupt line, data register
  media,                  \* what each disk holds
  pc, call                \* per thread; a call is [op, disk, sector, value]

disks == <<error, ready, sig, big>>
chan == <<lock, expecting_interrupt, completion_wait>>
dev == <<device, lba, status, intrq, data, media>>
vars == <<disks, is_ata, boot, chan, dev, pc, call>>

Idle == [op |-> NONE, disk |-> 0, sector |-> NONE, value |-> NONE]

Init ==
  /\ error \in [Disk -> Errors] /\ ready \in [Disk -> Ready]
  /\ sig \in [Disk -> Sigs] /\ big \in [Disk -> Bigs]
  /\ is_ata = [d \in Disk |-> FALSE] /\ boot = 0
  /\ lock = NONE /\ expecting_interrupt = FALSE /\ completion_wait = 0
  /\ device = 0 /\ lba = NONE /\ status = "idle" /\ intrq = FALSE /\ data = NONE
  /\ media \in {[d \in Disk |-> [s \in Sector |-> v]] : v \in Value}
  /\ pc = [t \in Thread |-> "idle"] /\ call = [t \in Thread |-> Idle]

-----------------------------------------------------------------------------
(* Detection.  check_device_type: the result tells whether there may be a  *)
(* slave.                                                                  *)
Absent(d) == (error[d] # "ok" /\ (error[d] # "slave_failed" \/ d = 1)) \/ ~ready[d]
MaySlave == ~(Absent(0) /\ error[0] = "slave_failed")

(* reset_channel and both calls of check_device_type *)
check_device_type ==
  /\ boot = 0 /\ boot' = 1
  /\ is_ata' = [d \in Disk |-> ~Absent(d) /\ sig[d] = "ata" /\ (d = 1 => MaySlave)]
  /\ UNCHANGED <<disks, chan, dev, pc, call>>

(* identify_ata_device of the next disk, by the only thread there is; it   *)
(* does not take the lock.  partition_scan, which reads the disk right     *)
(* after, while nobody else can, is left to Partitions.                    *)
identify_ata_device(t) ==
  /\ boot \in {1, 2} /\ \A u \in Thread : pc[u] = "idle"
  /\ IF is_ata[boot - 1]
     THEN /\ call' = [call EXCEPT ![t] = [Idle EXCEPT !.op = "identify", !.disk = boot - 1]]
          /\ pc' = [pc EXCEPT ![t] = "select"] /\ UNCHANGED boot
     ELSE boot' = boot + 1 /\ UNCHANGED <<pc, call>>
  /\ UNCHANGED <<disks, is_ata, chan, dev>>

(* The answer is read, or there is none, or the disk is too large to be    *)
(* touched; in both cases it is not used.                                  *)
Identified(t, answered) ==
  /\ boot' = boot + 1
  /\ is_ata' = [is_ata EXCEPT ![call[t].disk] = answered /\ ~big[call[t].disk]]
  /\ pc' = [pc EXCEPT ![t] = "idle"] /\ call' = [call EXCEPT ![t] = Idle]

-----------------------------------------------------------------------------
ide_read(t, d, s) ==
  /\ pc[t] = "idle" /\ boot = 3 /\ is_ata[d]
  /\ call' = [call EXCEPT ![t] = [op |-> "read", disk |-> d, sector |-> s, value |-> NONE]]
  /\ pc' = [pc EXCEPT ![t] = "acquire"]
  /\ UNCHANGED <<disks, is_ata, boot, chan, dev>>

ide_write(t, d, s, v) ==
  /\ pc[t] = "idle" /\ boot = 3 /\ is_ata[d]
  /\ call' = [call EXCEPT ![t] = [op |-> "write", disk |-> d, sector |-> s, value |-> v]]
  /\ pc' = [pc EXCEPT ![t] = "acquire"]
  /\ UNCHANGED <<disks, is_ata, boot, chan, dev>>

(* Faulty variant of Acquire: one lock per disk, not per channel. *)
Acquire_disk(t) ==
  /\ pc[t] = "acquire" /\ ~(lock # NONE /\ call[lock].disk = call[t].disk) /\ lock' = t
  /\ pc' = [pc EXCEPT ![t] = "select"]
  /\ UNCHANGED <<disks, is_ata, boot, expecting_interrupt, completion_wait, dev, call>>

Acquire(t) ==
  /\ pc[t] = "acquire" /\ lock = NONE /\ lock' = t
  /\ pc' = [pc EXCEPT ![t] = "select"]
  /\ UNCHANGED <<disks, is_ata, boot, expecting_interrupt, completion_wait, dev, call>>

(* select_device_wait and select_sector: wait_until_idle reads the status  *)
(* register, which clears a pending interrupt.                             *)
select_sector(t) ==
  /\ pc[t] = "select" /\ status = "idle"
  /\ device' = call[t].disk /\ lba' = call[t].sector /\ intrq' = FALSE
  /\ pc' = [pc EXCEPT ![t] = "expect"]
  /\ UNCHANGED <<disks, is_ata, boot, chan, status, data, media, call>>

(* issue_pio_command: the flag first, then the command. *)
Expect(t) ==
  /\ pc[t] = "expect" /\ expecting_interrupt' = TRUE
  /\ pc' = [pc EXCEPT ![t] = "command"]
  /\ UNCHANGED <<disks, is_ata, boot, lock, completion_wait, dev, call>>

Command(t) ==
  /\ pc[t] = "command"
  /\ status' = call[t].op
  /\ pc' = [pc EXCEPT ![t] = IF call[t].op = "write" THEN "busy" ELSE "down"]
  /\ UNCHANGED <<disks, is_ata, boot, chan, device, lba, intrq, data, media, call>>

(* sema_down (&c->completion_wait) *)
Down(t) ==
  /\ pc[t] = "down" /\ completion_wait > 0
  /\ completion_wait' = completion_wait - 1
  /\ pc' = [pc EXCEPT ![t] = IF call[t].op = "write" THEN "release" ELSE "busy"]
  /\ UNCHANGED <<disks, is_ata, boot, lock, expecting_interrupt, dev, call>>

Busy == status \in {"read", "write", "identify", "store"}

(* wait_while_busy and input_sector, in ide_read and identify_ata_device.  *)
(* Without DRQ ide_read panics; identify gives the disk up.                *)
input_sector(t) ==
  /\ pc[t] = "busy" /\ call[t].op # "write" /\ ~Busy
  /\ status' = "idle"
  /\ IF call[t].op = "read"
     THEN /\ status = "drq_in"
          /\ call' = [call EXCEPT ![t].value = data] /\ pc' = [pc EXCEPT ![t] = "release"]
          /\ UNCHANGED <<is_ata, boot>>
     ELSE Identified(t, status = "drq_in")
  /\ data' = NONE
  /\ UNCHANGED <<disks, chan, device, lba, intrq, media>>

output_sector(t) ==
  /\ pc[t] = "busy" /\ call[t].op = "write" /\ status = "drq_out"
  /\ data' = call[t].value /\ status' = "store"
  /\ pc' = [pc EXCEPT ![t] = "down"]
  /\ UNCHANGED <<disks, is_ata, boot, chan, device, lba, intrq, media, call>>

Release(t) ==
  /\ pc[t] = "release" /\ lock' = NONE
  /\ pc' = [pc EXCEPT ![t] = "idle"] /\ call' = [call EXCEPT ![t] = Idle]
  /\ UNCHANGED <<disks, is_ata, boot, expecting_interrupt, completion_wait, dev>>

(* The interrupt is acknowledged only if it is expected. *)
interrupt_handler ==
  /\ intrq /\ intrq' = FALSE
  /\ completion_wait' = IF expecting_interrupt THEN completion_wait + 1 ELSE completion_wait
  /\ UNCHANGED <<disks, is_ata, boot, lock, expecting_interrupt, device, lba, status, data, media, pc, call>>

-----------------------------------------------------------------------------
(* The disk (external).  It finishes a command of each kind; IDENTIFY may  *)
(* be refused.                                                             *)
DiskStep ==
  /\ \/ /\ status = "read" /\ status' = "drq_in" /\ data' = media[device][lba]
        /\ intrq' = TRUE /\ UNCHANGED media
     \/ /\ status = "write" /\ status' = "drq_out" /\ UNCHANGED <<intrq, data, media>>
     \/ /\ status = "store" /\ status' = "idle" /\ data' = NONE
        /\ media' = [media EXCEPT ![device][lba] = data] /\ intrq' = TRUE
     \/ /\ status = "identify" /\ status' \in {"drq_in", "idle"} /\ intrq' = TRUE
        /\ UNCHANGED <<data, media>>
  /\ UNCHANGED <<disks, is_ata, boot, chan, device, lba, pc, call>>

(* The channel interrupts while nobody uses it. *)
SpuriousInterrupt ==
  /\ boot = 3 /\ lock = NONE /\ ~intrq /\ completion_wait = 0 /\ intrq' = TRUE
  /\ UNCHANGED <<disks, is_ata, boot, chan, device, lba, status, data, media, pc, call>>

Step(t) ==
  \/ Acquire(t) \/ select_sector(t) \/ Expect(t) \/ Command(t) \/ Down(t)
  \/ input_sector(t) \/ output_sector(t) \/ Release(t)

Next ==
  \/ check_device_type
  \/ \E t \in Thread : identify_ata_device(t)
  \/ \E t \in Thread, d \in Disk, s \in Sector : ide_read(t, d, s)
  \/ \E t \in Thread, d \in Disk, s \in Sector, v \in Value : ide_write(t, d, s, v)
  \/ \E t \in Thread : Step(t)
  \/ interrupt_handler
  \/ DiskStep

SpuriousNext == Next \/ SpuriousInterrupt

(* The scheduler runs ready threads, the lock is handed on in order of     *)
(* arrival, and the disk answers.                                          *)
Fairness ==
  /\ \A t \in Thread : WF_vars(Step(t)) /\ SF_vars(Acquire(t))
  /\ WF_vars(interrupt_handler) /\ WF_vars(DiskStep)

Spec == Init /\ [][Next]_vars
FairSpec == Spec /\ Fairness
SpuriousSpec == Init /\ [][SpuriousNext]_vars

-----------------------------------------------------------------------------
(* A read returns what the sector of its disk holds, and a write returns   *)
(* when the sector holds its data: "Returns after the disk has             *)
(* acknowledged receiving the data" (ide_write).                           *)
TransfersExact ==
  \A t \in Thread : pc[t] = "release" => call[t].value = media[call[t].disk][call[t].sector]

(* Between commands no completion is left over, and the channel is idle.   *)
CompletionsExact ==
  boot = 3 /\ lock = NONE => completion_wait = 0 /\ status = "idle" /\ ~intrq

(* "True if an interrupt is expected, false if any interrupt would be      *)
(* spurious" (struct channel).                                             *)
ExpectingExact == expecting_interrupt => \E t \in Thread : pc[t] # "idle"

(* A disk that is not an ATA disk, or is too large, or does not answer, is *)
(* never given a read or a write command.                                  *)
ForeignUntouched ==
  status \in {"read", "write"} =>
    sig[device] = "ata" /\ ~big[device] /\ ready[device] /\ error[device] # "bad"

(* Every call ends. *)
CallsEnd == \A t \in Thread : (pc[t] # "idle") ~> (pc[t] = "idle")
=============================================================================
