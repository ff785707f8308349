-------------------------------- MODULE Disk8 -------------------------------
(***************************************************************************)
(* 08-BlockDeviceDriver: how virtio_disk_init brings the device and the    *)
(* driver to one view of the queue, and the requests that virtio_tester    *)
(* then makes through it.  A legacy device finds the rings by the page     *)
(* number, the page size, the queue size and the alignment it was told;    *)
(* the driver by pointers of its own.  VirtioDisk models the request path  *)
(* itself, with several callers and every interleaving.                    *)
(***************************************************************************)
EXTENDS Integers, FiniteSets

CONSTANTS
    NUM8, PGSIZE8,          \* as in virtio.h and types.h
    Pages8,                 \* the address of disk.pages, on a page boundary
    Offered8,               \* the features a device may offer
    Maxima8,                \* what QUEUE_NUM_MAX may read as
    Reads8                  \* bound: calls of virtio_tester

DESC_SIZE8 == 16            \* sizeof(virtq_desc_t)
AVAIL_SIZE8 == 4 + 2 * NUM8

ASSUME Disk8Assumption ==
    /\ NUM8 \in Nat /\ NUM8 >= 3 /\ PGSIZE8 \in Nat \ {0} /\ Reads8 \in Nat
    /\ Pages8 \in Nat \ {0} /\ Pages8 % PGSIZE8 = 0 /\ Maxima8 \subseteq Nat
    /\ NUM8 * DESC_SIZE8 + AVAIL_SIZE8 <= PGSIZE8

\* The features that the driver clears, by the names of virtio.h.
RO == "VIRTIO_BLK_F_RO"
SCSI == "VIRTIO_BLK_F_SCSI"
WCE == "VIRTIO_BLK_F_CONFIG_WCE"
MQ == "VIRTIO_BLK_F_MQ"
ANY_LAYOUT == "VIRTIO_F_ANY_LAYOUT"
EVENT_IDX == "VIRTIO_RING_F_EVENT_IDX"
INDIRECT == "VIRTIO_RING_F_INDIRECT_DESC"

VARIABLES
    pc8, reads8,                    \* os_main, and how often it has read
    there8, max8, offered8,         \* what the registers read as
    status8, features8,             \* DEVICE_STATUS, DRIVER_FEATURES
    page8, num8, pfn8, align8,      \* GUEST_PAGE_SIZE, QUEUE_NUM, QUEUE_PFN, QUEUE_ALIGN
    zeroed8,                        \* disk.pages has been cleared
    ptrs8,                          \* disk.desc, disk.avail, disk.used
    free8, idx8, b8,                \* disk.free, the local idx, b[0]
    avail8, used8, seen8,           \* avail->idx, used->idx, disk.used_idx
    intr8, isr8, claimed8,          \* the device's line, the handler, the PLIC
    failed8                         \* a status byte is not 0

regs8 == <<status8, features8, page8, num8, pfn8, align8>>
given8 == <<there8, max8, offered8>>
irq8 == <<used8, intr8, isr8, claimed8, failed8>>
rw8 == <<reads8, free8, idx8, b8, avail8, seen8>>
vars8 == <<pc8, given8, regs8, zeroed8, ptrs8, rw8, irq8>>

\* Mutated forms of definitions below.
MutUsedPtr == Pages8 + NUM8 * DESC_SIZE8 + AVAIL_SIZE8      \* not on the next page
MutCleared8 == {RO, SCSI, WCE, MQ, ANY_LAYOUT, INDIRECT}    \* EVENT_IDX accepted

NoBuf == [dev |-> 0, blockno |-> 0, data |-> "zeros", disk |-> 0]

Init8 ==
    /\ pc8 = "probe" /\ reads8 = 0
    /\ there8 \in BOOLEAN /\ max8 \in Maxima8 /\ offered8 \in SUBSET Offered8
    /\ status8 = {} /\ features8 = {} /\ page8 = 0 /\ num8 = 0 /\ pfn8 = 0
    /\ align8 = PGSIZE8                                    \* the device's default
    /\ zeroed8 = FALSE /\ ptrs8 = <<0, 0, 0>>
    /\ free8 = {} /\ idx8 = {} /\ b8 = NoBuf
    /\ avail8 = 0 /\ used8 = 0 /\ seen8 = 0
    /\ intr8 = FALSE /\ isr8 = "idle" /\ claimed8 = FALSE /\ failed8 = FALSE

-----------------------------------------------------------------------------
(* virtio_disk_init                                                         *)

\* os_main is at l, and no handler runs.
At8(l, m) == pc8 = l /\ isr8 = "idle" /\ pc8' = m
Setup(l, m) ==
    /\ At8(l, m)
    /\ UNCHANGED <<reads8, given8, idx8, b8, avail8, seen8, irq8>>

\* The magic number, the version, the device and the vendor; or panic.
Probe ==
    /\ Setup("probe", IF there8 THEN "status" ELSE "panic")
    /\ UNCHANGED <<regs8, zeroed8, ptrs8, free8>>

\* Reset, ACKNOWLEDGE, DRIVER, the features, FEATURES_OK, DRIVER_OK.
ClearedFeatures == {RO, SCSI, WCE, MQ, ANY_LAYOUT, EVENT_IDX, INDIRECT}
Negotiate ==
    /\ Setup("status", "queue")
    /\ features8' = offered8 \ ClearedFeatures
    /\ status8' = {"ACKNOWLEDGE", "DRIVER", "FEATURES_OK", "DRIVER_OK"}
    /\ UNCHANGED <<page8, num8, pfn8, align8, zeroed8, ptrs8, free8>>

SelectQueue ==
    /\ Setup("queue", IF max8 < NUM8 THEN "panic" ELSE "memset")
    /\ page8' = PGSIZE8 /\ num8' = IF max8 < NUM8 THEN num8 ELSE NUM8
    /\ UNCHANGED <<status8, features8, pfn8, align8, zeroed8, ptrs8, free8>>

ClearPages ==
    /\ Setup("memset", "pfn") /\ zeroed8' = TRUE /\ UNCHANGED <<regs8, ptrs8, free8>>

\* From here on the device has a queue.
SetPfn ==
    /\ Setup("pfn", "align") /\ pfn8' = Pages8 \div PGSIZE8
    /\ UNCHANGED <<status8, features8, page8, num8, align8, zeroed8, ptrs8, free8>>

\* QUEUE_READY and the addresses behind it are no registers of a legacy device.
SetAlign ==
    /\ Setup("align", "pointers") /\ align8' = PGSIZE8
    /\ UNCHANGED <<status8, features8, page8, num8, pfn8, zeroed8, ptrs8, free8>>

UsedPtr == Pages8 + PGSIZE8
SetPointers ==
    /\ Setup("pointers", "free")
    /\ ptrs8' = <<Pages8, Pages8 + NUM8 * DESC_SIZE8, UsedPtr>>
    /\ UNCHANGED <<regs8, zeroed8, free8>>

FreeAll ==
    /\ Setup("free", "tester") /\ free8' = 0..(NUM8 - 1)
    /\ UNCHANGED <<regs8, zeroed8, ptrs8>>

-----------------------------------------------------------------------------
(* disk_read: virtio_tester and virtio_disk_rw                              *)

Rw8(l, m) ==
    /\ At8(l, m)
    /\ UNCHANGED <<given8, regs8, zeroed8, ptrs8, irq8, seen8>>

\* b[0] is filled in at the first call.
Tester ==
    /\ reads8 < Reads8 /\ Rw8("tester", "alloc") /\ reads8' = reads8 + 1
    /\ b8' = IF b8.dev = 0 THEN [NoBuf EXCEPT !.dev = 1, !.blockno = 1] ELSE b8
    /\ UNCHANGED <<free8, idx8, avail8>>

\* alloc3_desc: the three lowest; nobody else has any.
Alloc3Desc ==
    /\ Rw8("alloc", "publish")
    /\ idx8' = {i \in free8 : Cardinality({j \in free8 : j < i}) < 3}
    /\ free8' = free8 \ idx8'
    /\ UNCHANGED <<reads8, b8, avail8>>

\* The descriptors, b->disk, the ring and its index.
Publish ==
    /\ Rw8("publish", "wait")
    /\ b8' = [b8 EXCEPT !.disk = 1] /\ avail8' = avail8 + 1
    /\ UNCHANGED <<reads8, free8, idx8>>

WaitFree ==
    /\ b8.disk # 1 /\ Rw8("wait", "print")
    /\ free8' = free8 \cup idx8 /\ idx8' = {}
    /\ UNCHANGED <<reads8, b8, avail8>>

\* The first bytes of the block; then os_main goes on.
PrintBlock == Rw8("print", "tester") /\ UNCHANGED <<reads8, free8, idx8, b8, avail8>>

Panic8 == pc8 = "panic" /\ UNCHANGED vars8
Done8 == pc8 = "tester" /\ reads8 = Reads8 /\ isr8 = "idle" /\ ~intr8 /\ UNCHANGED vars8

-----------------------------------------------------------------------------
(* The device, and external_handler with virtio_disk_isr                    *)

\* Where a legacy device looks for descriptors, available ring and used ring.
AlignUp(a, n) == ((a + n - 1) \div n) * n
Rings == LET desc == pfn8 * page8
             avail == desc + num8 * DESC_SIZE8
         IN  <<desc, avail, AlignUp(avail + 4 + 2 * num8, align8)>>
Live == pfn8 # 0 /\ "DRIVER_OK" \in status8

\* With EVENT_IDX it would interrupt for the entry that used_event names, which the
\* driver never sets: for the first one only.
Signals == EVENT_IDX \notin features8 \/ used8 = 0

DeviceServes ==
    /\ Live /\ Rings = ptrs8 /\ used8 < avail8
    /\ used8' = used8 + 1 /\ intr8' = (intr8 \/ Signals)
    /\ \/ b8' = [b8 EXCEPT !.data = "block"] /\ UNCHANGED failed8
       \/ failed8' = TRUE /\ UNCHANGED b8
    /\ UNCHANGED <<pc8, reads8, given8, regs8, zeroed8, ptrs8, free8, idx8, avail8, seen8,
                   isr8, claimed8>>

Isr8(l, m) ==
    /\ isr8 = l /\ isr8' = m
    /\ UNCHANGED <<pc8, reads8, given8, regs8, zeroed8, ptrs8, free8, idx8, avail8, used8,
                   failed8>>

\* plic_claim returns VIRTIO_IRQ.
TakeExternal8 ==
    /\ intr8 /\ ~claimed8 /\ Isr8("idle", "ack")
    /\ claimed8' = TRUE /\ UNCHANGED <<b8, seen8, intr8>>
IsrAck8 == Isr8("ack", "loop") /\ intr8' = FALSE /\ UNCHANGED <<b8, seen8, claimed8>>

IsrLoop8 ==
    /\ seen8 # used8 /\ Isr8("loop", IF failed8 THEN "panic" ELSE "loop")
    /\ IF failed8 THEN UNCHANGED <<b8, seen8>>
       ELSE b8' = [b8 EXCEPT !.disk = 0] /\ seen8' = seen8 + 1
    /\ UNCHANGED <<intr8, claimed8>>
IsrDone8 ==
    seen8 = used8 /\ Isr8("loop", "complete") /\ UNCHANGED <<b8, seen8, intr8, claimed8>>
IsrComplete8 ==
    Isr8("complete", "idle") /\ claimed8' = FALSE /\ UNCHANGED <<b8, seen8, intr8>>
IsrPanic8 == isr8 = "panic" /\ UNCHANGED vars8

Init8Step == Probe \/ Negotiate \/ SelectQueue \/ ClearPages \/ SetPfn \/ SetAlign
             \/ SetPointers \/ FreeAll
Rw8Step == Tester \/ Alloc3Desc \/ Publish \/ WaitFree \/ PrintBlock \/ Panic8 \/ Done8
Isr8Step == TakeExternal8 \/ IsrAck8 \/ IsrLoop8 \/ IsrDone8 \/ IsrComplete8 \/ IsrPanic8
Next8 == Init8Step \/ Rw8Step \/ DeviceServes \/ Isr8Step

\* The hart executes, takes the interrupt it is sent, and the device answers.
Fairness8 == WF_vars8(Init8Step \/ Rw8Step \/ Isr8Step) /\ WF_vars8(DeviceServes)
Spec8 == Init8 /\ [][Next8]_vars8 /\ Fairness8

-----------------------------------------------------------------------------
(* Properties                                                               *)

TypeOK8 ==
    /\ pc8 \in {"probe", "status", "queue", "memset", "pfn", "align", "pointers", "free",
               "tester", "alloc", "publish", "wait", "print", "panic"}
    /\ reads8 \in 0..Reads8 /\ features8 \subseteq Offered8 /\ num8 \in {0, NUM8}
    /\ free8 \subseteq 0..(NUM8 - 1) /\ idx8 \subseteq 0..(NUM8 - 1)
    /\ seen8 \in 0..used8 /\ used8 \in 0..avail8 /\ avail8 \in 0..reads8
    /\ isr8 \in {"idle", "ack", "loop", "complete", "panic"}

\* From the moment the device has a queue its rings are cleared memory, inside
\* disk.pages: it never takes what was in memory before for requests.  Once the
\* driver posts one, both look for the three parts in the same places, which no
\* single register says: page number, page size, queue size and alignment together.
RingsAgree ==
    Live => /\ zeroed8
            /\ Rings[1] = Pages8 /\ Rings[3] + 4 + 8 * NUM8 <= Pages8 + 2 * PGSIZE8
            /\ pc8 \in {"publish", "wait"} => Rings = ptrs8

\* A read that has come back has brought the block: the device has served it, and it
\* has given its descriptors back.
BlockRead8 ==
    pc8 = "print" => b8.data = "block" /\ Cardinality(free8) = NUM8 /\ used8 = avail8

\* Every read of the block comes back, with the block, whatever features the device
\* offers; unless the device reports an error.
TesterReturns ==
    /\ \A n \in 1..Reads8 :
          (pc8 = "wait" /\ reads8 = n) ~> ((pc8 = "print" /\ reads8 = n) \/ isr8 = "panic")
    /\ []BlockRead8
=============================================================================
