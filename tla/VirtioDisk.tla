----------------------------- MODULE VirtioDisk -----------------------------
(***************************************************************************)
(* The block device driver of virtio.c: virtio_disk_rw, cut where another  *)
(* hart, the interrupt handler or the device can come in between, beside   *)
(* virtio_disk_isr and the device.  The program calls it from hart 0 only; *)
(* vdisk_lock is there for callers on several harts, so the model has any  *)
(* number of them.  Interrupts go to hart 0, whose own call waits while    *)
(* the handler runs.                                                       *)
(***************************************************************************)
EXTENDS Integers, FiniteSets

CONSTANTS
    NHart,          \* harts that call the driver; the program has one
    NUM,            \* descriptors; 8 in virtio.h
    IDX,            \* the ring indexes count modulo IDX; 2^16 for uint16
    Sectors, Values,
    CanFail         \* may the device report an error?

Harts == 0..(NHart - 1)
Main == 0                       \* the hart that takes interrupts
Descs == 0..(NUM - 1)
NONE == -1                      \* a null struct blk *, no descriptor

ASSUME HartAssumption == NHart \in Nat \ {0}
ASSUME RingAssumption == NUM \in Nat /\ NUM >= 3 /\ IDX \in Nat /\ IDX > NUM /\ IDX % NUM = 0
ASSUME DataAssumption == Sectors # {} /\ Values # {} /\ CanFail \in BOOLEAN

NEXT == "VRING_DESC_F_NEXT"
WRITE == "VRING_DESC_F_WRITE"

VARIABLES
    init, halted,               \* virtio_disk_init has run; what panic was called with
    pc, op, data, blk_disk, idx,\* per hart: its call, its struct blk b, the local idx
    locked,                     \* disk.vdisk_lock
    free, desc, ops, info,      \* disk.free, disk.desc, disk.ops, disk.info
    avail_idx, avail_ring,      \* *disk.avail
    dev_used, used_ring,        \* *disk.used: idx (the device's) and ring
    used_idx,                   \* disk.used_idx (the driver's)
    isr, isr_id,                \* the handler's place and local id
    dev, dev_avail, notified, intr, store   \* the device

driver == <<locked, free, desc, ops>>
caller == <<pc, op, idx>>
rings == <<avail_idx, avail_ring>>
handler == <<used_idx, isr, isr_id>>
device == <<dev, dev_avail, dev_used, used_ring, intr, store>>
vars == <<init, halted, caller, data, blk_disk, driver, info, rings, handler, device, notified>>

Addr == [kind : {"none", "op", "data", "status"}, of : Int]
Nowhere == [kind |-> "none", of |-> 0]
NoDesc == [addr |-> Nowhere, flags |-> {}, next |-> 0]
Request == [sector : Sectors, write : BOOLEAN]

Init ==
    /\ init = FALSE /\ halted = "no"
    /\ pc = [h \in Harts |-> "idle"]
    /\ op \in [Harts -> Request] /\ data \in [Harts -> Values]
    /\ blk_disk = [h \in Harts |-> 0] /\ idx = [h \in Harts |-> <<NONE, NONE, NONE>>]
    /\ locked = FALSE
    /\ free = [i \in Descs |-> FALSE] /\ desc = [i \in Descs |-> NoDesc]
    /\ ops = [i \in Descs |-> CHOOSE r \in Request : TRUE]
    /\ info = [i \in Descs |-> [b |-> NONE, status |-> 0]]
    /\ avail_idx = 0 /\ avail_ring = [i \in Descs |-> 0]
    /\ dev_used = 0 /\ used_ring = [i \in Descs |-> 0] /\ used_idx = 0
    /\ isr = "idle" /\ isr_id = NONE
    /\ dev = "idle" /\ dev_avail = 0 /\ notified = FALSE /\ intr = FALSE
    /\ store \in [Sectors -> Values]

\* Mutated forms of definitions: what a plausible slip in the code at their
\* lines would make of them.
MutBump(i) == i + 1                                  \* an index wider than uint16
MutRecorded(h) == [b |-> NONE, status |-> 0]         \* info[].b not recorded
MutWaitOver(h) == TRUE                               \* the spin forgotten
MutChain(i) == {i}                                   \* only the head is freed
MutPendingAlways == TRUE                             \* the handler does not look first

\* uint16 idx += 1
Bump(i) == (i + 1) % IDX

\* virtio_disk_init finds the device, or panics.
NoDisk == {"could not find virtio disk", "virtio disk has no queue 0",
           "virtio disk max queue too short"}
DiskInit ==
    /\ ~init /\ halted = "no"
    /\ \/ init' = TRUE /\ free' = [i \in Descs |-> TRUE] /\ UNCHANGED halted
       \/ halted' \in NoDisk /\ UNCHANGED <<init, free>>
    /\ UNCHANGED <<caller, data, blk_disk, locked, desc, ops, info, rings, handler, device, notified>>

-----------------------------------------------------------------------------
(* virtio_disk_rw.                                                          *)

\* Hart h is at l; hart 0 does not get on while it handles an interrupt.
At(h, l) == pc[h] = l /\ ~(h = Main /\ (isr # "idle" \/ halted # "no"))
GoTo(h, l) == pc' = [pc EXCEPT ![h] = l]

\* The caller fills in b: the block number and, for a write, the data.
Call(h) ==
    /\ init /\ At(h, "idle") /\ GoTo(h, "acquire")
    /\ \E r \in Request, v \in Values :
        /\ op' = [op EXCEPT ![h] = r]
        /\ data' = [data EXCEPT ![h] = IF r.write THEN v ELSE @]
    /\ UNCHANGED <<init, halted, blk_disk, idx, driver, info, rings, handler, device, notified>>

\* lock_acquire, the swap that finds the lock free.
Unlocked == ~locked
Acquire(h) ==
    /\ At(h, "acquire") /\ Unlocked /\ locked' = TRUE
    /\ GoTo(h, "alloc")
    /\ UNCHANGED <<init, halted, op, idx, data, blk_disk, free, desc, ops, info, rings,
                   handler, device, notified>>

\* alloc3_desc: the three lowest free descriptors in order; with fewer it gives
\* back what it took and virtio_disk_rw tries again.
IsLowest(i, S) == i \in S /\ \A j \in S : i <= j
Alloc3(h) ==
    LET avail == {i \in Descs : free[i]}
    IN  /\ At(h, "alloc")
        /\ \E i \in avail, j \in avail, k \in avail :
            /\ IsLowest(i, avail) /\ IsLowest(j, avail \ {i}) /\ IsLowest(k, avail \ {i, j})
            /\ idx' = [idx EXCEPT ![h] = <<i, j, k>>]
            /\ free' = [x \in Descs |-> free[x] /\ x \notin {i, j, k}]
        /\ GoTo(h, "format")
        /\ UNCHANGED <<init, halted, op, data, blk_disk, locked, desc, ops, info, rings,
                       handler, device, notified>>

\* What the handler needs in disk.info.
Recorded(h) == [b |-> h, status |-> 0]

\* The three descriptors, the command header, the status byte, b->disk and
\* disk.info.  Nobody looks before PublishIdx.
Format(h) ==
    LET i == idx[h][1]  j == idx[h][2]  k == idx[h][3]
    IN  /\ At(h, "format") /\ GoTo(h, "ring")
        /\ ops' = [ops EXCEPT ![i] = op[h]]
        /\ desc' = [desc EXCEPT
                ![i] = [addr |-> [kind |-> "op", of |-> i], flags |-> {NEXT}, next |-> j],
                ![j] = [addr |-> [kind |-> "data", of |-> h],
                        flags |-> {NEXT} \cup (IF op[h].write THEN {} ELSE {WRITE}), next |-> k],
                ![k] = [addr |-> [kind |-> "status", of |-> i], flags |-> {WRITE}, next |-> 0]]
        /\ info' = [info EXCEPT ![i] = Recorded(h)]
        /\ blk_disk' = [blk_disk EXCEPT ![h] = 1]
        /\ UNCHANGED <<init, halted, op, idx, data, locked, free, rings, handler,
                       device, notified>>

PublishHead(h) ==
    /\ At(h, "ring") /\ GoTo(h, "idx")
    /\ avail_ring' = [avail_ring EXCEPT ![avail_idx % NUM] = idx[h][1]]
    /\ UNCHANGED <<init, halted, op, idx, data, blk_disk, driver, info, avail_idx, handler,
                   device, notified>>

PublishIdx(h) ==
    /\ At(h, "idx") /\ GoTo(h, "notify")
    /\ avail_idx' = Bump(avail_idx)
    /\ UNCHANGED <<init, halted, op, idx, data, blk_disk, driver, info, avail_ring, handler,
                   device, notified>>

Notify(h) ==
    /\ At(h, "notify") /\ GoTo(h, "wait") /\ notified' = TRUE
    /\ UNCHANGED <<init, halted, op, idx, data, blk_disk, driver, info, rings, handler, device>>

\* The spin on b->disk ends.
WaitOver(h) == blk_disk[h] # 1
Wait(h) ==
    /\ At(h, "wait") /\ WaitOver(h) /\ GoTo(h, "free")
    /\ UNCHANGED <<init, halted, op, idx, data, blk_disk, driver, info, rings, handler,
                   device, notified>>

\* free_chain follows the chain; free_desc panics on a descriptor that is free.
Chain(i) ==
    LET j == desc[i].next  k == desc[j].next
    IN  IF NEXT \notin desc[i].flags THEN {i}
        ELSE IF NEXT \notin desc[j].flags THEN {i, j} ELSE {i, j, k}

FreeChain(h) ==
    LET chain == Chain(idx[h][1])
    IN  /\ At(h, "free")
        /\ info' = [info EXCEPT ![idx[h][1]].b = NONE]
        /\ IF \E x \in chain : free[x]
           THEN halted' = "free_desc 2" /\ GoTo(h, "panic") /\ UNCHANGED <<free, desc>>
           ELSE /\ free' = [x \in Descs |-> free[x] \/ x \in chain]
                /\ desc' = [x \in Descs |-> IF x \in chain THEN NoDesc ELSE desc[x]]
                /\ GoTo(h, "unlock") /\ UNCHANGED halted
        /\ UNCHANGED <<init, op, idx, data, blk_disk, locked, ops, rings, handler, device,
                       notified>>

Unlock(h) ==
    /\ At(h, "unlock") /\ GoTo(h, "idle")
    /\ locked' = FALSE
    /\ UNCHANGED <<init, halted, op, idx, data, blk_disk, free, desc, ops, info, rings,
                   handler, device, notified>>

-----------------------------------------------------------------------------
(* virtio_disk_isr on hart 0, entered when the device's line is up.         *)

IsrEnter ==
    /\ isr = "idle" /\ intr /\ halted = "no"
    /\ isr' = "ack"
    /\ UNCHANGED <<init, halted, caller, data, blk_disk, driver, info, rings, used_idx, isr_id,
                   device, notified>>

\* The line goes down, even if the device has raised it again meanwhile.
IsrAck ==
    /\ isr = "ack" /\ halted = "no"
    /\ intr' = FALSE /\ isr' = "loop"
    /\ UNCHANGED <<init, halted, caller, data, blk_disk, driver, info, rings, used_idx, isr_id,
                   dev, dev_avail, dev_used, used_ring, store, notified>>

\* The loop's condition and, if it holds, the next id and its status.
Pending == used_idx # dev_used
IsrTake ==
    LET id == used_ring[used_idx % NUM]
    IN  /\ isr = "loop" /\ halted = "no"
        /\ IF ~Pending THEN isr' = "idle" /\ UNCHANGED <<isr_id, halted>>
           ELSE IF info[id].status # 0
           THEN halted' = "virtio_disk_intr status" /\ UNCHANGED <<isr, isr_id>>
           ELSE isr' = "complete" /\ isr_id' = id /\ UNCHANGED halted
        /\ UNCHANGED <<init, caller, data, blk_disk, driver, info, rings, used_idx, device,
                       notified>>

\* b->disk = 0; a null b makes the store fault.
IsrComplete ==
    LET b == info[isr_id].b
    IN  /\ isr = "complete" /\ halted = "no"
        /\ IF b = NONE THEN halted' = "null b" /\ UNCHANGED <<blk_disk, isr>>
           ELSE blk_disk' = [blk_disk EXCEPT ![b] = 0] /\ isr' = "next" /\ UNCHANGED halted
        /\ UNCHANGED <<init, caller, data, driver, info, rings, used_idx, isr_id, device,
                       notified>>

IsrNext ==
    /\ isr = "next" /\ halted = "no"
    /\ used_idx' = Bump(used_idx) /\ isr' = "loop" /\ isr_id' = NONE
    /\ UNCHANGED <<init, halted, caller, data, blk_disk, driver, info, rings, device, notified>>

-----------------------------------------------------------------------------
(* The device (QEMU's virtio-blk), as the driver's comments rely on it: it  *)
(* takes the chains in ring order, carries the request out, writes the      *)
(* status and then the used ring, and interrupts.                           *)

DevFetch ==
    /\ dev = "idle" /\ dev_avail # avail_idx
    /\ dev' = "busy" /\ notified' = FALSE
    /\ UNCHANGED <<init, halted, caller, data, blk_disk, driver, info, rings, handler,
                   dev_avail, dev_used, used_ring, intr, store>>

\* A notification that finds nothing new.
DevNothing ==
    /\ dev = "idle" /\ notified /\ dev_avail = avail_idx
    /\ notified' = FALSE
    /\ UNCHANGED <<init, halted, caller, data, blk_disk, driver, info, rings, handler, device>>

Head == avail_ring[dev_avail % NUM]

DevTransfer ==
    LET d0 == desc[Head]  d1 == desc[d0.next]  d2 == desc[d1.next]
        r == ops[d0.addr.of]  b == d1.addr.of
    IN  /\ dev = "busy"
        /\ \/ /\ IF r.write
                 THEN store' = [store EXCEPT ![r.sector] = data[b]] /\ UNCHANGED data
                 ELSE data' = [data EXCEPT ![b] = store[r.sector]] /\ UNCHANGED store
              /\ info' = [info EXCEPT ![d2.addr.of].status = 0]
           \/ /\ CanFail
              /\ info' = [info EXCEPT ![d2.addr.of].status = 1] /\ UNCHANGED <<data, store>>
        /\ dev' = "moved"
        /\ UNCHANGED <<init, halted, caller, blk_disk, driver, rings, handler,
                       dev_avail, dev_used, used_ring, intr, notified>>

DevUsed ==
    /\ dev = "moved"
    /\ used_ring' = [used_ring EXCEPT ![dev_used % NUM] = Head]
    /\ dev_used' = Bump(dev_used) /\ dev_avail' = Bump(dev_avail)
    /\ dev' = "signal"
    /\ UNCHANGED <<init, halted, caller, data, blk_disk, driver, info, rings, handler,
                   intr, store, notified>>

DevInterrupt ==
    /\ dev = "signal"
    /\ intr' = TRUE /\ dev' = "idle"
    /\ UNCHANGED <<init, halted, caller, data, blk_disk, driver, info, rings, handler,
                   dev_avail, dev_used, used_ring, store, notified>>

-----------------------------------------------------------------------------
\* panic prints and spins for ever.
Panic == halted # "no" /\ UNCHANGED vars

Rw(h) == Call(h) \/ Acquire(h) \/ Alloc3(h) \/ Format(h) \/ PublishHead(h)
         \/ PublishIdx(h) \/ Notify(h) \/ Wait(h) \/ FreeChain(h) \/ Unlock(h)
Isr == IsrEnter \/ IsrAck \/ IsrTake \/ IsrComplete \/ IsrNext
Device == DevFetch \/ DevNothing \/ DevTransfer \/ DevUsed \/ DevInterrupt

Next == DiskInit \/ (\E h \in Harts : Rw(h)) \/ Isr \/ Device \/ Panic

\* Harts and the handler go on executing; the device answers what it has been
\* notified of, and may look at the ring at other times.  Nobody has to call.
Fairness ==
    /\ \A h \in Harts : WF_vars(Rw(h) /\ ~Call(h))
    /\ WF_vars(Isr)
    /\ WF_vars(DevFetch /\ notified)
    /\ WF_vars(DevTransfer \/ DevUsed \/ DevInterrupt)

Spec == Init /\ [][Next]_vars /\ Fairness

-----------------------------------------------------------------------------
(* Properties                                                               *)

Inside == {"alloc", "format", "ring", "idx", "notify", "wait", "free", "unlock"}
Posted == {"notify", "wait"}

TypeOK ==
    /\ init \in BOOLEAN
    /\ halted \in NoDisk \cup {"no", "virtio_disk_intr status", "free_desc 2", "null b"}
    /\ pc \in [Harts -> Inside \cup {"idle", "acquire", "panic"}]
    /\ op \in [Harts -> Request] /\ data \in [Harts -> Values]
    /\ blk_disk \in [Harts -> {0, 1}]
    /\ idx \in [Harts -> (Descs \cup {NONE}) \X (Descs \cup {NONE}) \X (Descs \cup {NONE})]
    /\ locked \in BOOLEAN /\ free \in [Descs -> BOOLEAN]
    /\ desc \in [Descs -> [addr : Addr, flags : SUBSET {NEXT, WRITE}, next : Descs]]
    /\ ops \in [Descs -> Request]
    /\ info \in [Descs -> [b : Harts \cup {NONE}, status : {0, 1}]]
    /\ avail_idx \in 0..(IDX - 1) /\ avail_ring \in [Descs -> Descs]
    /\ dev_used \in 0..(IDX - 1) /\ used_ring \in [Descs -> Descs] /\ used_idx \in 0..(IDX - 1)
    /\ isr \in {"idle", "ack", "loop", "complete", "next"} /\ isr_id \in Descs \cup {NONE}
    /\ dev \in {"idle", "busy", "moved", "signal"} /\ dev_avail \in 0..(IDX - 1)
    /\ notified \in BOOLEAN /\ intr \in BOOLEAN /\ store \in [Sectors -> Values]

\* Every descriptor is either free or in the chain of the hart that holds the
\* lock: none leaks and none is in use twice, call after call.
DescriptorsConserved ==
    init => \A i \in Descs :
        ~free[i] <=> \E h \in Harts : /\ pc[h] \in Inside \ {"alloc", "unlock"}
                                      /\ \E k \in 1..3 : idx[h][k] = i

\* The handler takes no lock; it still completes only the request that is in
\* flight, of a caller that waits or is about to, even while the device adds entries.
HandlerCompletesInFlight ==
    isr = "complete" =>
        LET b == info[isr_id].b
        IN  b # NONE /\ pc[b] \in Posted /\ blk_disk[b] = 1

\* The handler lags behind the device by two entries at most (a caller on
\* another hart may go on before used_idx moves), so no ring slot is reused early.
HandlerKeepsUp == (avail_idx - used_idx) % IDX <= 2

\* Of all panics only those that the device causes can happen.
OnlyDevicePanics == halted \notin {"free_desc 2", "null b"}

\* virtio_disk_rw is a block device: its data is moved between call and return.
Served(h) ==
    \/ pc[h] \in {"free", "unlock"}
    \/ /\ pc[h] \in Posted /\ info[idx[h][1]].status = 0
       /\ dev_avail = avail_idx \/ dev = "moved"
BlockDeviceOf == INSTANCE BlockDevice WITH
    Callers <- Harts,
    phase <- [h \in Harts |-> IF pc[h] = "idle" THEN "idle"
                              ELSE IF Served(h) THEN "served" ELSE "asked"],
    request <- op, buffer <- data
ImplementsBlockDevice == BlockDeviceOf!Spec

\* A caller that holds the lock gets its answer and leaves, unless the device
\* reports an error: no completion is lost between handler and device.
RequestReturns ==
    \A h \in Harts : pc[h] = "alloc" ~> (pc[h] = "idle" \/ halted # "no")
=============================================================================
