------------------------- MODULE VirtioDiskProofs --------------------------
(***************************************************************************)
(* The block device driver for any number of harts, descriptors and ring   *)
(* indexes: the descriptors are conserved, the handler completes only what *)
(* is in flight, and of the driver's panics only the device's happen.      *)
(*                                                                         *)
(* A request goes round: it is Asked when its caller has published it,     *)
(* Answered when the device has put it into the used ring, and the rings   *)
(* are Quiet when the handler has completed it and before the next one.    *)
(***************************************************************************)
EXTENDS VirtioDisk, TLAPS

\* The entries of the used ring whose callers have been released.
Done == IF isr = "next" THEN Bump(used_idx) ELSE used_idx
DevIdle == dev \notin {"busy", "moved"}

Quiet ==
    /\ avail_idx = dev_avail /\ dev_used = Done /\ isr # "complete" /\ DevIdle
Asked(i) ==
    /\ avail_idx = Bump(dev_avail) /\ dev_used = Done /\ isr # "complete"
    /\ avail_ring[dev_avail % NUM] = i
Answered(i) ==
    /\ avail_idx = dev_avail /\ dev_used = Bump(Done) /\ DevIdle
    /\ used_ring[Done % NUM] = i
    /\ isr = "complete" => isr_id = i

\* The three descriptors of hart h's request and what Format has made of them.
Distinct(h) ==
    /\ idx[h] \in Descs \X Descs \X Descs
    /\ idx[h][1] # idx[h][2] /\ idx[h][1] # idx[h][3] /\ idx[h][2] # idx[h][3]
Chained(h) ==
    LET i == idx[h][1]  j == idx[h][2]  k == idx[h][3]
    IN  /\ desc[i].next = j /\ NEXT \in desc[i].flags
        /\ desc[j].next = k /\ NEXT \in desc[j].flags
        /\ NEXT \notin desc[k].flags
Addressed(h) ==
    LET i == idx[h][1]  j == idx[h][2]  k == idx[h][3]
    IN  /\ desc[i].addr.of = i /\ desc[j].addr.of = h /\ info[i].b = h

Holding == {"format", "ring", "idx", "notify", "wait", "free"}
Own(h) == {idx[h][1], idx[h][2], idx[h][3]}

OwnerInv ==
    /\ \A h \in Harts : /\ pc[h] # "panic"
                        /\ pc[h] \in Inside => locked
                        /\ pc[h] # "idle" => init
    /\ \A g, h \in Harts : pc[g] \in Inside /\ pc[h] \in Inside => g = h

ChainInv ==
    \A h \in Harts :
        /\ pc[h] \in Holding => Distinct(h)
        /\ pc[h] \in Holding \ {"format"} => Chained(h)
        /\ pc[h] \in {"ring", "idx", "notify", "wait"} => Addressed(h)

\* The rings, by where the hart that has the lock is.
RingInv ==
    /\ dev_used = dev_avail
    /\ (\A h \in Harts : pc[h] \notin Posted) => Quiet
    /\ \A h \in Harts :
        /\ pc[h] \in {"ring", "idx"} => blk_disk[h] = 1
        /\ pc[h] = "idx" => avail_ring[avail_idx % NUM] = idx[h][1]
        /\ pc[h] \in Posted => \/ blk_disk[h] = 1 /\ Asked(idx[h][1])
                               \/ blk_disk[h] = 1 /\ Answered(idx[h][1])
                               \/ blk_disk[h] = 0 /\ Quiet

PanicInv == halted \notin {"free_desc 2", "null b"}

DiskInv == OwnerInv /\ DescriptorsConserved /\ ChainInv /\ RingInv /\ PanicInv

-----------------------------------------------------------------------------
(* The ring indexes                                                         *)

Ring == 0..(IDX - 1)

LEMMA BumpIs ==
    ASSUME NEW x \in Ring
    PROVE  /\ Bump(x) = IF x = IDX - 1 THEN 0 ELSE x + 1
           /\ Bump(x) \in Ring
           /\ Bump(x) # x
           /\ x % NUM \in Descs
  <1>1. IDX \in Nat /\ IDX > 3 /\ NUM \in Nat /\ NUM > 0 BY RingAssumption
  <1>2. CASE x = IDX - 1
    <2>1. (x + 1) % IDX = 0 BY <1>1, <1>2 DEF Ring
    <2>2. QED BY <1>1, <1>2, <2>1 DEF Bump, Descs, Ring
  <1>3. CASE x # IDX - 1
    <2>1. x + 1 \in Ring BY <1>1, <1>3 DEF Ring
    <2>2. (x + 1) % IDX = x + 1 BY <1>1, <2>1 DEF Ring
    <2>3. QED BY <1>1, <1>3, <2>1, <2>2 DEF Bump, Descs, Ring
  <1>4. QED BY <1>2, <1>3

\* How far an index is ahead of another.
LEMMA Ahead ==
    ASSUME NEW x \in Ring
    PROVE  /\ (x - x) % IDX = 0
           /\ (Bump(x) - x) % IDX = 1
           /\ (Bump(Bump(x)) - x) % IDX = 2
  <1>1. IDX \in Nat /\ IDX > 3 BY RingAssumption
  <1>2. ASSUME NEW y \in {0, 1, 2} PROVE y % IDX = y /\ (y - IDX) % IDX = y
    BY <1>1
  <1>3. Bump(x) - x \in {1, 1 - IDX} BY <1>1, BumpIs DEF Ring
  <1>4. Bump(Bump(x)) - x \in {2, 2 - IDX} BY <1>1, BumpIs DEF Ring
  <1>5. QED BY <1>1, <1>2, <1>3, <1>4 DEF Ring

-----------------------------------------------------------------------------
(* Types                                                                    *)

Desc == [addr : Addr, flags : SUBSET {NEXT, WRITE}, next : Descs]
Info == [b : Harts \cup {NONE}, status : {0, 1}]

LEMMA DiskFacts ==
    /\ NHart \in Nat \ {0} /\ Main \in Harts /\ NONE \notin Harts /\ NONE \notin Descs
    /\ NUM \in Nat /\ NUM >= 3 /\ IDX \in Nat /\ IDX > 3 /\ 0 \in Ring /\ 0 \in Descs
    /\ Harts \subseteq Int /\ Descs \subseteq Int /\ NEXT # WRITE
    /\ Nowhere \in Addr /\ NoDesc \in Desc /\ CanFail \in BOOLEAN
  <1>1. NHart \in Nat \ {0} /\ NUM \in Nat /\ NUM >= 3 /\ IDX \in Nat /\ IDX > 3
    BY HartAssumption, RingAssumption
  <1>2. Main \in Harts /\ NONE \notin Harts /\ NONE \notin Descs /\ 0 \in Ring /\ 0 \in Descs
        /\ Harts \subseteq Int /\ Descs \subseteq Int
    BY <1>1 DEF Main, Harts, NONE, Descs, Ring
  <1>3. NEXT # WRITE BY DEF NEXT, WRITE
  <1>4. Nowhere \in Addr BY DEF Nowhere, Addr
  <1>5. NoDesc \in Desc BY <1>2, <1>4 DEF NoDesc, Desc
  <1>6. QED BY <1>1, <1>2, <1>3, <1>4, <1>5, DataAssumption

\* Type correctness in two parts: flags, and what SMT can handle best.
FlagTypes ==
    init \in BOOLEAN /\ locked \in BOOLEAN /\ notified \in BOOLEAN /\ intr \in BOOLEAN
DataTypes ==
    /\ halted \in NoDisk \cup {"no", "virtio_disk_intr status", "free_desc 2", "null b"}
    /\ pc \in [Harts -> Inside \cup {"idle", "acquire", "panic"}]
    /\ op \in [Harts -> Request] /\ data \in [Harts -> Values]
    /\ blk_disk \in [Harts -> {0, 1}]
    /\ idx \in [Harts -> (Descs \cup {NONE}) \X (Descs \cup {NONE}) \X (Descs \cup {NONE})]
    /\ free \in [Descs -> BOOLEAN] /\ desc \in [Descs -> Desc] /\ ops \in [Descs -> Request]
    /\ info \in [Descs -> Info]
    /\ avail_idx \in Ring /\ avail_ring \in [Descs -> Descs]
    /\ dev_used \in Ring /\ used_ring \in [Descs -> Descs] /\ used_idx \in Ring
    /\ isr \in {"idle", "ack", "loop", "complete", "next"} /\ isr_id \in Descs \cup {NONE}
    /\ dev \in {"idle", "busy", "moved", "signal"} /\ dev_avail \in Ring
    /\ store \in [Sectors -> Values]

LEMMA TypesAre == TypeOK <=> FlagTypes /\ DataTypes
  BY Zenon DEF TypeOK, FlagTypes, DataTypes, Ring, Desc, Info

LEMMA DiskTypesInit == ASSUME Init PROVE TypeOK
  <1>1. (CHOOSE r \in Request : TRUE) \in Request
    <2>1. PICK s \in Sectors : TRUE BY DataAssumption
    <2>2. [sector |-> s, write |-> TRUE] \in Request BY DEF Request
    <2>3. QED BY <2>2
  <1>2. /\ init \in BOOLEAN /\ locked \in BOOLEAN /\ notified \in BOOLEAN /\ intr \in BOOLEAN
        /\ free \in [Descs -> BOOLEAN]
    BY DEF Init
  <1>3. /\ pc \in [Harts -> Inside \cup {"idle", "acquire", "panic"}]
        /\ blk_disk \in [Harts -> {0, 1}]
        /\ idx \in [Harts -> (Descs \cup {NONE}) \X (Descs \cup {NONE}) \X (Descs \cup {NONE})]
        /\ info \in [Descs -> [b : Harts \cup {NONE}, status : {0, 1}]]
    BY DEF Init
  <1>4. desc \in [Descs -> Desc] /\ ops \in [Descs -> Request]
    BY <1>1, DiskFacts DEF Init
  <1>5. QED
    BY <1>2, <1>3, <1>4, DiskFacts DEF Init, TypeOK, Ring, Desc

LEMMA InfoSet ==
    ASSUME NEW f \in [Descs -> Info], NEW i
    PROVE  /\ [f EXCEPT ![i].b = NONE] \in [Descs -> Info]
           /\ [f EXCEPT ![i].status = 0] \in [Descs -> Info]
           /\ [f EXCEPT ![i].status = 1] \in [Descs -> Info]
  <1>1. CASE i \in Descs
    <2>1. f[i] \in Info BY <1>1
    <2>2. /\ [f[i] EXCEPT !.b = NONE] \in Info /\ [f[i] EXCEPT !.status = 0] \in Info
          /\ [f[i] EXCEPT !.status = 1] \in Info
      BY <2>1 DEF Info
    <2>3. QED BY <2>2
  <1>2. CASE i \notin Descs BY <1>2
  <1>3. QED BY <1>1, <1>2

\* The device finds its way from the head of the ring to the caller's buffer.
LEMMA HeadIs ==
    ASSUME OwnerInv, ChainInv, RingInv, dev \in {"busy", "moved"}
    PROVE  \E h \in Harts :
                /\ pc[h] \in Posted /\ blk_disk[h] = 1 /\ Asked(idx[h][1]) /\ Head = idx[h][1]
                /\ Distinct(h) /\ Chained(h) /\ Addressed(h)
  <1>1. PICK h \in Harts : pc[h] \in Posted
    BY DEF RingInv, Quiet, DevIdle
  <1>2. blk_disk[h] = 1 /\ Asked(idx[h][1])
    BY <1>1 DEF RingInv, Quiet, Answered, DevIdle
  <1>3. Head = idx[h][1] BY <1>2 DEF Asked, Head
  <1>4. QED BY <1>1, <1>2, <1>3 DEF ChainInv, Holding, Posted

LEMMA RwTypes ==
    ASSUME DataTypes, ChainInv, NEW h \in Harts, Rw(h)
    PROVE  DataTypes'
  <1> USE DEF caller, driver, rings, handler, device
  <1>0. pc' \in [Harts -> Inside \cup {"idle", "acquire", "panic"}]
    <2>1. PICK l \in Inside \cup {"idle", "acquire", "panic"} : GoTo(h, l)
      BY DEF Rw, Call, Acquire, Alloc3, Format, PublishHead, PublishIdx, Notify, Wait,
             FreeChain, Unlock, Inside
    <2>2. QED BY <2>1 DEF GoTo, DataTypes
  <1>1. CASE Call(h)
    <2>1. PICK r \in Request, v \in Values :
            /\ op' = [op EXCEPT ![h] = r]
            /\ data' = [data EXCEPT ![h] = IF r.write THEN v ELSE data[h]]
      BY <1>1 DEF Call
    <2>2. (IF r.write THEN v ELSE data[h]) \in Values BY DEF DataTypes
    <2>3. op' \in [Harts -> Request] /\ data' \in [Harts -> Values]
      BY <2>1, <2>2 DEF DataTypes
    <2>4. QED BY <1>0, <1>1, <2>3 DEF Call, DataTypes
  <1>2. CASE Acquire(h) BY <1>0, <1>2 DEF Acquire, DataTypes, Inside
  <1>3. CASE Alloc3(h)
    <2>1. PICK i \in Descs, j \in Descs, k \in Descs :
            /\ idx' = [idx EXCEPT ![h] = <<i, j, k>>]
            /\ free' = [x \in Descs |-> free[x] /\ x \notin {i, j, k}]
      BY <1>3 DEF Alloc3
    <2>2. idx' \in [Harts -> (Descs \cup {NONE}) \X (Descs \cup {NONE}) \X (Descs \cup {NONE})]
      BY <2>1 DEF DataTypes
    <2>3. free' \in [Descs -> BOOLEAN] BY <2>1
    <2>4. QED BY <1>0, <1>3, <2>2, <2>3 DEF Alloc3, DataTypes, Inside
  <1>4. CASE Format(h)
    <2>1. Distinct(h) /\ op[h] \in Request
      BY <1>4 DEF Format, At, ChainInv, Holding, DataTypes
    <2>2. /\ idx[h][1] \in Descs /\ idx[h][2] \in Descs /\ idx[h][3] \in Descs
      BY <2>1 DEF Distinct
    <2>3. ops' \in [Descs -> Request] /\ blk_disk' \in [Harts -> {0, 1}]
      BY <1>4, <2>1 DEF Format, DataTypes
    <2>4. info' \in [Descs -> Info]
      BY <1>4 DEF Format, Recorded, DataTypes, Info
    <2>5. /\ [addr |-> [kind |-> "op", of |-> idx[h][1]], flags |-> {NEXT},
              next |-> idx[h][2]] \in Desc
          /\ [addr |-> [kind |-> "data", of |-> h],
              flags |-> {NEXT} \cup (IF op[h].write THEN {} ELSE {WRITE}),
              next |-> idx[h][3]] \in Desc
          /\ [addr |-> [kind |-> "status", of |-> idx[h][1]], flags |-> {WRITE},
              next |-> 0] \in Desc
      BY <2>2, DiskFacts DEF Desc, Addr
    <2>6. desc' \in [Descs -> Desc]
      BY <1>4, <2>5 DEF Format, DataTypes, Desc
    <2>7. QED BY <1>0, <1>4, <2>3, <2>4, <2>6 DEF Format, DataTypes, Inside, Desc
  <1>5. CASE PublishHead(h)
    <2>1. idx[h][1] \in Descs
      BY <1>5 DEF PublishHead, At, ChainInv, Holding, Distinct
    <2>2. QED BY <1>0, <1>5, <2>1 DEF PublishHead, DataTypes, Inside
  <1>6. CASE PublishIdx(h)
    BY <1>0, <1>6, BumpIs DEF PublishIdx, DataTypes, Inside
  <1>7. CASE Notify(h) BY <1>0, <1>7 DEF Notify, DataTypes, Inside
  <1>8. CASE Wait(h) BY <1>0, <1>8 DEF Wait, DataTypes, Inside
  <1>9. CASE FreeChain(h)
    <2>1. info' \in [Descs -> Info]
      BY <1>9, InfoSet DEF FreeChain, DataTypes
    <2>2. /\ free' \in [Descs -> BOOLEAN] /\ desc' \in [Descs -> Desc]
          /\ halted' \in {halted, "free_desc 2"}
          /\ pc' \in [Harts -> Inside \cup {"idle", "acquire", "panic"}]
      <3>1. CASE \E x \in Chain(idx[h][1]) : free[x]
        BY <1>0, <1>9, <3>1 DEF FreeChain, DataTypes, Desc
      <3>2. CASE ~\E x \in Chain(idx[h][1]) : free[x]
        <4>1. /\ free' = [x \in Descs |-> free[x] \/ x \in Chain(idx[h][1])]
              /\ desc' = [x \in Descs |-> IF x \in Chain(idx[h][1]) THEN NoDesc ELSE desc[x]]
              /\ GoTo(h, "unlock") /\ UNCHANGED halted
          BY <1>9, <3>2 DEF FreeChain
        <4>2. free' \in [Descs -> BOOLEAN] BY <4>1
        <4>3. desc' \in [Descs -> Desc] BY <4>1, DiskFacts DEF DataTypes, Desc
        <4>4. QED BY <1>0, <4>1, <4>2, <4>3 DEF Inside
      <3>3. QED BY <3>1, <3>2
    <2>3. QED BY <1>9, <2>1, <2>2 DEF FreeChain, DataTypes, Desc
  <1>10. CASE Unlock(h) BY <1>0, <1>10 DEF Unlock, DataTypes
  <1>11. QED
    BY <1>1, <1>2, <1>3, <1>4, <1>5, <1>6, <1>7, <1>8, <1>9, <1>10 DEF Rw

LEMMA IsrTypes ==
    ASSUME DataTypes, RingInv, Isr
    PROVE  DataTypes'
  <1> USE DEF caller, driver, rings, handler, device
  <1>1. CASE IsrEnter BY <1>1 DEF IsrEnter, DataTypes
  <1>2. CASE IsrAck BY <1>2 DEF IsrAck, DataTypes
  <1>3. CASE IsrTake
    <2>1. used_ring[used_idx % NUM] \in Descs BY BumpIs DEF DataTypes
    <2>2. QED BY <1>3, <2>1 DEF IsrTake, DataTypes
  <1>4. CASE IsrComplete BY <1>4 DEF IsrComplete, DataTypes
  <1>5. CASE IsrNext BY <1>5, BumpIs DEF IsrNext, DataTypes
  <1>6. QED BY <1>1, <1>2, <1>3, <1>4, <1>5 DEF Isr

LEMMA DeviceTypes ==
    ASSUME DataTypes, OwnerInv, ChainInv, RingInv, Device
    PROVE  DataTypes'
  <1> USE DEF caller, driver, rings, handler, device
  <1>1. CASE DevFetch BY <1>1 DEF DevFetch, DataTypes
  <1>2. CASE DevNothing BY <1>2 DEF DevNothing, DataTypes
  <1>3. CASE DevTransfer
    <2>1. PICK h \in Harts : Head = idx[h][1] /\ Distinct(h) /\ Chained(h) /\ Addressed(h)
      BY <1>3, HeadIs DEF DevTransfer
    <2> DEFINE d0 == desc[Head]
               d1 == desc[d0.next]
               d2 == desc[d1.next]
               r == ops[d0.addr.of]
    <2>2. d0.addr.of \in Descs /\ d1.addr.of = h
      BY <2>1 DEF Chained, Addressed, Distinct
    <2>3. r.sector \in Sectors /\ store[r.sector] \in Values /\ data[h] \in Values
      BY <2>2 DEF DataTypes, Request
    <2>4. /\ \/ store' = [store EXCEPT ![r.sector] = data[d1.addr.of]] /\ data' = data
             \/ data' = [data EXCEPT ![d1.addr.of] = store[r.sector]] /\ store' = store
             \/ data' = data /\ store' = store
          /\ \/ info' = [info EXCEPT ![d2.addr.of].status = 0]
             \/ info' = [info EXCEPT ![d2.addr.of].status = 1]
      BY <1>3 DEF DevTransfer
    <2>5. store' \in [Sectors -> Values] /\ data' \in [Harts -> Values]
      BY <2>2, <2>3, <2>4 DEF DataTypes
    <2>6. info' \in [Descs -> Info]
      <3>1. info \in [Descs -> Info] BY DEF DataTypes
      <3>2. /\ [info EXCEPT ![d2.addr.of].status = 0] \in [Descs -> Info]
            /\ [info EXCEPT ![d2.addr.of].status = 1] \in [Descs -> Info]
        BY <3>1, InfoSet
      <3>3. CASE info' = [info EXCEPT ![d2.addr.of].status = 0] BY <3>2, <3>3
      <3>4. CASE info' = [info EXCEPT ![d2.addr.of].status = 1] BY <3>2, <3>4
      <3>5. QED BY <2>4, <3>3, <3>4
    <2>7. QED BY <1>3, <2>5, <2>6 DEF DevTransfer, DataTypes
  <1>4. CASE DevUsed
    <2>1. Head \in Descs BY BumpIs DEF Head, DataTypes
    <2>2. QED BY <1>4, <2>1, BumpIs DEF DevUsed, DataTypes
  <1>5. CASE DevInterrupt BY <1>5 DEF DevInterrupt, DataTypes
  <1>6. QED BY <1>1, <1>2, <1>3, <1>4, <1>5 DEF Device

LEMMA DiskFlags ==
    ASSUME FlagTypes, [Next]_vars
    PROVE  FlagTypes'
  <1> USE DEF FlagTypes, caller, driver, rings, handler, device
  <1>1. CASE DiskInit BY <1>1, Zenon DEF DiskInit
  <1>2. ASSUME NEW h \in Harts, Rw(h) PROVE FlagTypes'
    <2>1. CASE Call(h) BY <2>1, Zenon DEF Call
    <2>2. CASE Acquire(h) BY <2>2, Zenon DEF Acquire
    <2>3. CASE Alloc3(h) BY <2>3, Zenon DEF Alloc3
    <2>4. CASE Format(h) BY <2>4, Zenon DEF Format
    <2>5. CASE PublishHead(h) BY <2>5, Zenon DEF PublishHead
    <2>6. CASE PublishIdx(h) BY <2>6, Zenon DEF PublishIdx
    <2>7. CASE Notify(h) BY <2>7, Zenon DEF Notify
    <2>8. CASE Wait(h) BY <2>8, Zenon DEF Wait
    <2>9. CASE FreeChain(h) BY <2>9, Zenon DEF FreeChain
    <2>10. CASE Unlock(h) BY <2>10, Zenon DEF Unlock
    <2>11. QED
      BY <1>2, <2>1, <2>2, <2>3, <2>4, <2>5, <2>6, <2>7, <2>8, <2>9, <2>10 DEF Rw
  <1>3. CASE Isr
    <2>1. CASE IsrEnter BY <2>1, Zenon DEF IsrEnter
    <2>2. CASE IsrAck BY <2>2, Zenon DEF IsrAck
    <2>3. CASE IsrTake BY <2>3, Zenon DEF IsrTake
    <2>4. CASE IsrComplete BY <2>4, Zenon DEF IsrComplete
    <2>5. CASE IsrNext BY <2>5, Zenon DEF IsrNext
    <2>6. QED BY <1>3, <2>1, <2>2, <2>3, <2>4, <2>5 DEF Isr
  <1>4. CASE Device
    <2>1. CASE DevFetch BY <2>1, Zenon DEF DevFetch
    <2>2. CASE DevNothing BY <2>2, Zenon DEF DevNothing
    <2>3. CASE DevTransfer BY <2>3, Zenon DEF DevTransfer
    <2>4. CASE DevUsed BY <2>4, Zenon DEF DevUsed
    <2>5. CASE DevInterrupt BY <2>5, Zenon DEF DevInterrupt
    <2>6. QED BY <1>4, <2>1, <2>2, <2>3, <2>4, <2>5 DEF Device
  <1>5. CASE UNCHANGED vars BY <1>5, Zenon DEF vars
  <1>6. QED BY <1>1, <1>2, <1>3, <1>4, <1>5 DEF Next, Panic

LEMMA DiskTypesStep ==
    ASSUME FlagTypes, DataTypes, OwnerInv, ChainInv, RingInv, [Next]_vars
    PROVE  DataTypes'
  <1>1. CASE DiskInit
    BY <1>1 DEF DiskInit, DataTypes, NoDisk, caller, driver, rings, handler, device
  <1>2. CASE \E h \in Harts : Rw(h) BY <1>2, RwTypes
  <1>3. CASE Isr BY <1>3, IsrTypes
  <1>4. CASE Device BY <1>4, DeviceTypes
  <1>5. CASE UNCHANGED vars
    BY <1>5 DEF vars, DataTypes, caller, driver, rings, handler, device
  <1>6. QED BY <1>1, <1>2, <1>3, <1>4, <1>5 DEF Next, Panic

-----------------------------------------------------------------------------
(* Who has the lock, and which descriptors                                  *)

\* A step of hart h moves h only, and inside the lock no other hart is.
LEMMA RwFrame ==
    ASSUME DataTypes, OwnerInv, NEW h \in Harts, Rw(h)
    PROVE  /\ \A g \in Harts \ {h} : pc'[g] = pc[g]
           /\ pc[h] \in Inside => \A g \in Harts \ {h} : pc'[g] \notin Inside
           /\ pc[h] # "panic"
  <1>1. PICK l : GoTo(h, l)
    BY DEF Rw, Call, Acquire, Alloc3, Format, PublishHead, PublishIdx, Notify, Wait,
           FreeChain, Unlock
  <1>2. QED BY <1>1 DEF GoTo, DataTypes, OwnerInv

LEMMA Owned ==
    ASSUME DataTypes
    PROVE  DescriptorsConserved <=>
               (init => \A i \in Descs :
                    ~free[i] <=> \E h \in Harts : pc[h] \in Holding /\ i \in Own(h))
  <1>1. \A x : x \in Inside \ {"alloc", "unlock"} <=> x \in Holding
    BY DEF Inside, Holding
  <1>2. \A h \in Harts, i \in Descs : (\E k \in 1..3 : idx[h][k] = i) <=> i \in Own(h)
    BY DEF Own
  <1>3. QED BY <1>1, <1>2 DEF DescriptorsConserved

\* The chain that a caller frees is its own, and no descriptor of it is free.
LEMMA FreesOwn ==
    ASSUME FlagTypes, DataTypes, OwnerInv, DescriptorsConserved, ChainInv,
           NEW h \in Harts, FreeChain(h)
    PROVE  /\ free' = [x \in Descs |-> free[x] \/ x \in Own(h)]
           /\ GoTo(h, "unlock") /\ halted' = halted /\ Own(h) \subseteq Descs
  <1>1. pc[h] = "free" BY DEF FreeChain, At
  <1>2. Distinct(h) /\ Chained(h) BY <1>1 DEF ChainInv, Holding
  <1>3. Chain(idx[h][1]) = Own(h) BY <1>2 DEF Chained, Chain, Own
  <1>4. Own(h) \subseteq Descs BY <1>2 DEF Distinct, Own
  <1>5. init BY <1>1 DEF OwnerInv
  <1>6. \A x \in Own(h) : ~free[x]
    BY <1>1, <1>4, <1>5, Owned DEF Holding
  <1>7. QED BY <1>3, <1>4, <1>6 DEF FreeChain

LEMMA OwnerStep ==
    ASSUME FlagTypes, DataTypes, OwnerInv, DescriptorsConserved, ChainInv, [Next]_vars
    PROVE  OwnerInv'
  <1>1. ASSUME NEW h \in Harts, Rw(h) PROVE OwnerInv'
    <2>1. CASE Call(h) BY <1>1, <2>1, RwFrame DEF Call, At, GoTo, DataTypes, OwnerInv, Inside,
                                                  driver
    <2>2. CASE Acquire(h)
      <3>1. \A g \in Harts : pc[g] \notin Inside BY <2>2 DEF Acquire, Unlocked, OwnerInv
      <3>2. QED BY <1>1, <2>2, <3>1, RwFrame DEF Acquire, At, GoTo, DataTypes, OwnerInv, Inside
    <2>3. CASE Unlock(h)
      <3>1. pc[h] \in Inside BY <2>3 DEF Unlock, At, Inside
      <3>2. \A g \in Harts : pc'[g] \notin Inside
        BY <1>1, <2>3, <3>1, RwFrame DEF Unlock, GoTo, DataTypes, Inside
      <3>3. QED BY <1>1, <2>3, <3>1, <3>2, RwFrame DEF Unlock, GoTo, DataTypes, OwnerInv
    <2>4. ASSUME \E l \in Inside : GoTo(h, l), pc[h] \in Inside, UNCHANGED <<locked, init>>
          PROVE  OwnerInv'
      BY <1>1, <2>4, RwFrame DEF GoTo, DataTypes, OwnerInv, Inside
    <2>5. CASE FreeChain(h)
      <3>1. /\ GoTo(h, "unlock") /\ "unlock" \in Inside /\ pc[h] \in Inside
            /\ UNCHANGED <<locked, init>>
        BY <2>5, FreesOwn DEF FreeChain, At, Inside
      <3>2. QED BY <2>4, <3>1
    <2>6. ASSUME Alloc3(h) \/ Format(h) \/ PublishHead(h) \/ PublishIdx(h) \/ Notify(h)
                 \/ Wait(h)
          PROVE  OwnerInv'
      <3>1. (\E l \in Inside : GoTo(h, l)) /\ pc[h] \in Inside
        BY <2>6 DEF Alloc3, Format, PublishHead, PublishIdx, Notify, Wait, At, Inside
      <3>2. UNCHANGED <<locked, init>>
        BY <2>6 DEF Alloc3, Format, PublishHead, PublishIdx, Notify, Wait, driver
      <3>3. QED BY <2>4, <3>1, <3>2
    <2>7. QED BY <1>1, <2>1, <2>2, <2>3, <2>5, <2>6 DEF Rw
  <1>2. ASSUME UNCHANGED <<pc, locked>>, init => init' PROVE OwnerInv'
    BY <1>2 DEF OwnerInv
  <1>3. CASE DiskInit BY <1>2, <1>3 DEF DiskInit, caller
  <1>4. CASE Isr
    BY <1>2, <1>4 DEF Isr, IsrEnter, IsrAck, IsrTake, IsrComplete, IsrNext, caller, driver
  <1>5. CASE Device
    BY <1>2, <1>5 DEF Device, DevFetch, DevNothing, DevTransfer, DevUsed, DevInterrupt,
                      caller, driver
  <1>6. CASE UNCHANGED vars BY <1>2, <1>6 DEF vars, caller, driver
  <1>7. QED BY <1>1, <1>3, <1>4, <1>5, <1>6 DEF Next, Panic

LEMMA ConservedStep ==
    ASSUME FlagTypes, DataTypes, OwnerInv, DescriptorsConserved, ChainInv, [Next]_vars,
           DataTypes'
    PROVE  DescriptorsConserved'
  <1> DEFINE C == init => \A i \in Descs :
                    ~free[i] <=> \E h \in Harts : pc[h] \in Holding /\ i \in Own(h)
  <1>0. C BY Owned
  <1> SUFFICES C'
    <2>1. \A x : x \in Inside \ {"alloc", "unlock"} <=> x \in Holding
      BY DEF Inside, Holding
    <2>2. \A h \in Harts, i \in Descs :
            (\E k \in 1..3 : idx'[h][k] = i) <=> i \in Own(h)'
      BY DEF Own
    <2>3. QED BY <2>1, <2>2 DEF DescriptorsConserved
  <1>1. ASSUME NEW h \in Harts, Rw(h) PROVE C'
    <2>0. init' = init
      BY <1>1 DEF Rw, Call, Acquire, Alloc3, Format, PublishHead, PublishIdx, Notify, Wait,
                  FreeChain, Unlock
    <2>1. ASSUME UNCHANGED <<free, idx>>, pc'[h] \in Holding <=> pc[h] \in Holding
          PROVE  C'
      <3>1. \A g \in Harts : pc'[g] \in Holding <=> pc[g] \in Holding
        BY <1>1, <2>1, RwFrame
      <3>2. \A g \in Harts : Own(g)' = Own(g) BY <2>1 DEF Own
      <3>3. QED BY <1>0, <2>0, <2>1, <3>1, <3>2
    <2>2. CASE Alloc3(h)
      <3>1. PICK i \in Descs, j \in Descs, k \in Descs :
              /\ idx' = [idx EXCEPT ![h] = <<i, j, k>>]
              /\ free' = [x \in Descs |-> free[x] /\ x \notin {i, j, k}]
        BY <2>2 DEF Alloc3
      <3>2. pc[h] = "alloc" /\ pc'[h] = "format"
        BY <2>2 DEF Alloc3, At, GoTo, DataTypes
      <3>3. \A g \in Harts : pc[g] \notin Holding
        BY <1>1, <3>2, RwFrame DEF Holding, Inside
      <3>4. \A g \in Harts \ {h} : pc'[g] \notin Holding
        BY <1>1, <3>2, RwFrame DEF Holding, Inside
      <3>5. Own(h)' = {i, j, k} BY <3>1 DEF Own, DataTypes
      <3>6. ASSUME init PROVE \A x \in Descs : ~free'[x] <=> x \in {i, j, k}
        BY <1>0, <3>1, <3>3, <3>6
      <3>7. QED BY <2>0, <3>2, <3>4, <3>5, <3>6 DEF Holding
    <2>3. CASE FreeChain(h)
      <3>1. free' = [x \in Descs |-> free[x] \/ x \in Own(h)] /\ pc'[h] = "unlock"
        BY <2>3, FreesOwn DEF GoTo, DataTypes
      <3>2. pc[h] = "free" BY <2>3 DEF FreeChain, At
      <3>3. \A g \in Harts : pc'[g] \notin Holding
        BY <1>1, <3>1, <3>2, RwFrame DEF Holding, Inside
      <3>4. \A g \in Harts \ {h} : pc[g] \notin Holding
        BY <1>1, <3>2, RwFrame DEF Holding, Inside
      <3>5. ASSUME init PROVE \A x \in Descs : free'[x]
        BY <1>0, <3>1, <3>4, <3>5
      <3>6. QED BY <2>0, <3>3, <3>5
    <2>4. CASE Call(h) \/ Acquire(h) \/ Unlock(h)
      BY <2>1, <2>4 DEF Call, Acquire, Unlock, At, GoTo, Holding, DataTypes, driver
    <2>5. CASE Format(h) \/ PublishHead(h) \/ PublishIdx(h) \/ Notify(h) \/ Wait(h)
      BY <2>1, <2>5 DEF Format, PublishHead, PublishIdx, Notify, Wait, At, GoTo, Holding,
                        DataTypes, driver
    <2>6. QED BY <1>1, <2>2, <2>3, <2>4, <2>5 DEF Rw
  <1>2. ASSUME UNCHANGED <<pc, idx, free, init>> PROVE C'
    BY <1>0, <1>2 DEF Own
  <1>3. CASE DiskInit
    <2>1. CASE init' = TRUE /\ free' = [i \in Descs |-> TRUE]
      <3>1. ~init /\ pc' = pc BY <1>3 DEF DiskInit, caller
      <3>2. \A h \in Harts : pc'[h] \notin Holding
        BY <3>1 DEF OwnerInv, Holding
      <3>3. QED BY <2>1, <3>2
    <2>2. CASE UNCHANGED <<init, free>> BY <1>2, <1>3, <2>2 DEF DiskInit, caller
    <2>3. QED BY <1>3, <2>1, <2>2 DEF DiskInit
  <1>4. CASE Isr
    BY <1>2, <1>4 DEF Isr, IsrEnter, IsrAck, IsrTake, IsrComplete, IsrNext, caller, driver
  <1>5. CASE Device
    BY <1>2, <1>5 DEF Device, DevFetch, DevNothing, DevTransfer, DevUsed, DevInterrupt,
                      caller, driver
  <1>6. CASE UNCHANGED vars BY <1>2, <1>6 DEF vars, caller, driver
  <1>7. QED BY <1>1, <1>3, <1>4, <1>5, <1>6 DEF Next, Panic

-----------------------------------------------------------------------------
(* The chain                                                                *)

LEMMA ChainStep ==
    ASSUME DataTypes, OwnerInv, ChainInv, [Next]_vars
    PROVE  ChainInv'
  <1>1. ASSUME NEW h \in Harts, Rw(h) PROVE ChainInv'
    <2>1. ASSUME pc'[h] \notin Holding,
                 UNCHANGED <<idx, desc, info>> \/ pc[h] \in Inside
          PROVE  ChainInv'
      <3>1. CASE pc[h] \in Inside
        <4>1. \A g \in Harts : pc'[g] \notin Holding
          BY <1>1, <2>1, <3>1, RwFrame DEF Holding, Inside
        <4>2. QED BY <4>1 DEF ChainInv, Holding
      <3>2. CASE UNCHANGED <<idx, desc, info>>
        BY <1>1, <2>1, <3>2, RwFrame DEF ChainInv, Holding, Distinct, Chained, Addressed
      <3>3. QED BY <2>1, <3>1, <3>2
    <2>2. ASSUME pc[h] \in Inside, Distinct(h)',
                 pc'[h] # "format" => Chained(h)',
                 pc'[h] \in {"ring", "idx", "notify", "wait"} => Addressed(h)'
          PROVE  ChainInv'
      <3>1. \A g \in Harts \ {h} : pc'[g] \notin Holding
        BY <1>1, <2>2, RwFrame DEF Holding, Inside
      <3>2. QED BY <2>2, <3>1 DEF ChainInv, Holding
    <2>3. CASE Call(h) \/ Acquire(h) \/ FreeChain(h) \/ Unlock(h)
      <3>1. pc'[h] \notin Holding
        <4>1. \E l \in {"acquire", "alloc", "unlock", "panic", "idle"} : GoTo(h, l)
          BY <2>3 DEF Call, Acquire, FreeChain, Unlock
        <4>2. QED BY <4>1 DEF GoTo, DataTypes, Holding
      <3>2. UNCHANGED <<idx, desc, info>> \/ pc[h] \in Inside
        BY <2>3 DEF Call, Acquire, FreeChain, Unlock, At, Inside, driver
      <3>3. QED BY <2>1, <3>1, <3>2
    <2>4. CASE Alloc3(h)
      <3>1. PICK i \in Descs, j \in Descs, k \in Descs :
              /\ i # j /\ i # k /\ j # k
              /\ idx' = [idx EXCEPT ![h] = <<i, j, k>>]
        BY <2>4 DEF Alloc3, IsLowest
      <3>2. idx'[h] = <<i, j, k>> BY <3>1 DEF DataTypes
      <3>3. Distinct(h)' BY <3>1, <3>2 DEF Distinct
      <3>4. pc[h] \in Inside /\ pc'[h] = "format"
        BY <2>4 DEF Alloc3, At, GoTo, DataTypes, Inside
      <3>5. QED BY <2>2, <3>3, <3>4
    <2>5. CASE Format(h)
      <3>1. pc[h] = "format" /\ Distinct(h) /\ idx' = idx
        BY <2>5 DEF Format, At, ChainInv, Holding
      <3> DEFINE i == idx[h][1]
                 j == idx[h][2]
                 k == idx[h][3]
      <3>2. i \in Descs /\ j \in Descs /\ k \in Descs /\ i # j /\ i # k /\ j # k
        BY <3>1 DEF Distinct
      <3>3. /\ desc'[i] = [addr |-> [kind |-> "op", of |-> i], flags |-> {NEXT}, next |-> j]
            /\ desc'[j] = [addr |-> [kind |-> "data", of |-> h],
                           flags |-> {NEXT} \cup (IF op[h].write THEN {} ELSE {WRITE}),
                           next |-> k]
            /\ desc'[k] = [addr |-> [kind |-> "status", of |-> i], flags |-> {WRITE},
                           next |-> 0]
            /\ info'[i] = [b |-> h, status |-> 0]
        BY <2>5, <3>2 DEF Format, DataTypes, Recorded
      <3>4. Distinct(h)' BY <3>1 DEF Distinct
      <3>5. Chained(h)' BY <3>1, <3>3, DiskFacts DEF Chained
      <3>6. Addressed(h)' BY <3>1, <3>3 DEF Addressed
      <3>7. pc[h] \in Inside BY <3>1 DEF Inside
      <3>8. QED BY <2>2, <3>4, <3>5, <3>6, <3>7
    <2>6. CASE PublishHead(h) \/ PublishIdx(h) \/ Notify(h) \/ Wait(h)
      <3>1. UNCHANGED <<idx, desc, info>>
        BY <2>6 DEF PublishHead, PublishIdx, Notify, Wait, driver, caller
      <3>2. pc[h] \in {"ring", "idx", "notify", "wait"}
        BY <2>6 DEF PublishHead, PublishIdx, Notify, Wait, At
      <3>3. Distinct(h) /\ Chained(h) /\ Addressed(h) BY <3>2 DEF ChainInv, Holding
      <3>4. Distinct(h)' /\ Chained(h)' /\ Addressed(h)'
        BY <3>1, <3>3 DEF Distinct, Chained, Addressed
      <3>5. QED BY <2>2, <3>2, <3>4 DEF Inside
    <2>7. QED BY <1>1, <2>3, <2>4, <2>5, <2>6 DEF Rw
  <1>2. ASSUME UNCHANGED <<pc, idx, desc>>, \A i \in Descs : info'[i].b = info[i].b
        PROVE  ChainInv'
    BY <1>2 DEF ChainInv, Holding, Distinct, Chained, Addressed
  <1>3. CASE DiskInit BY <1>2, <1>3 DEF DiskInit, caller
  <1>4. CASE Isr
    BY <1>2, <1>4 DEF Isr, IsrEnter, IsrAck, IsrTake, IsrComplete, IsrNext, caller, driver
  <1>5. CASE Device
    <2>1. CASE DevTransfer
      <3>1. \E x : \/ info' = [info EXCEPT ![x].status = 0]
                   \/ info' = [info EXCEPT ![x].status = 1]
        BY <2>1 DEF DevTransfer
      <3>2. PICK x : \/ info' = [info EXCEPT ![x].status = 0]
                     \/ info' = [info EXCEPT ![x].status = 1]
        BY <3>1
      <3>3. \A i \in Descs : info'[i].b = info[i].b
        <4>1. info \in [Descs -> Info] BY DEF DataTypes
        <4>2. \A i \in Descs : info[i] \in Info BY <4>1
        <4>3. QED BY <3>2, <4>1, <4>2 DEF Info
      <3>4. QED BY <1>2, <2>1, <3>3 DEF DevTransfer, caller, driver
    <2>2. CASE DevFetch \/ DevNothing \/ DevUsed \/ DevInterrupt
      BY <1>2, <2>2 DEF DevFetch, DevNothing, DevUsed, DevInterrupt, caller, driver
    <2>3. QED BY <1>5, <2>1, <2>2 DEF Device
  <1>6. CASE UNCHANGED vars BY <1>2, <1>6 DEF vars, caller, driver
  <1>7. QED BY <1>1, <1>3, <1>4, <1>5, <1>6 DEF Next, Panic

-----------------------------------------------------------------------------
(* The rings                                                                *)

ringvars == <<avail_idx, avail_ring, dev_avail, dev_used, used_ring, used_idx, isr, isr_id>>

\* Nobody's request is out: nothing is on its way anywhere.
LEMMA AllQuiet ==
    ASSUME OwnerInv, RingInv, NEW h \in Harts, pc[h] \in Inside \ Posted
    PROVE  Quiet
  <1>1. \A g \in Harts : pc[g] \notin Posted BY DEF OwnerInv, Inside, Posted
  <1>2. QED BY <1>1 DEF RingInv

\* Steps of a hart outside the publication and the wait leave the rings alone.
LEMMA RingRest ==
    ASSUME DataTypes, OwnerInv, RingInv, NEW h \in Harts, Rw(h),
           UNCHANGED <<ringvars, dev, blk_disk>>,
           pc[h] \notin Posted, pc'[h] \notin Posted \cup {"ring", "idx"},
           idx' = idx \/ pc[h] \in Inside
    PROVE  RingInv'
  <1>1. Quiet' = Quiet BY DEF Quiet, Done, DevIdle, ringvars
  <1>2. CASE pc[h] \in Inside
    <2>1. Quiet BY <1>2, AllQuiet
    <2>2. \A g \in Harts : pc'[g] \notin Posted \cup {"ring", "idx"}
      BY <1>2, RwFrame DEF Inside, Posted
    <2>3. QED BY <1>1, <2>1, <2>2 DEF RingInv, ringvars
  <1>3. CASE idx' = idx
    <2>1. \A g \in Harts : g # h => pc'[g] = pc[g] BY RwFrame
    <2>2. \A g \in Harts : Asked(idx[g][1])' = Asked(idx[g][1])
      BY <1>3 DEF Asked, Done, ringvars
    <2>3. \A g \in Harts : Answered(idx[g][1])' = Answered(idx[g][1])
      BY <1>3 DEF Answered, Done, DevIdle, ringvars
    <2>4. QED BY <1>1, <1>3, <2>1, <2>2, <2>3 DEF RingInv, ringvars
  <1>4. QED BY <1>2, <1>3

LEMMA RingRw ==
    ASSUME DataTypes, OwnerInv, ChainInv, RingInv, NEW h \in Harts, Rw(h)
    PROVE  RingInv'
  <1>0. /\ \A g \in Harts \ {h} : pc'[g] = pc[g]
        /\ pc[h] \in Inside => \A g \in Harts \ {h} : pc'[g] \notin Inside
    BY RwFrame
  <1>1. CASE Call(h) \/ Acquire(h) \/ Alloc3(h) \/ FreeChain(h) \/ Unlock(h)
    <2>1. \E l \in {"acquire", "alloc", "format", "unlock", "panic", "idle"} : GoTo(h, l)
      BY <1>1 DEF Call, Acquire, Alloc3, FreeChain, Unlock
    <2>2. pc'[h] \notin Posted \cup {"ring", "idx"}
      BY <2>1 DEF GoTo, DataTypes, Posted
    <2>3. UNCHANGED <<ringvars, dev, blk_disk>>
      BY <1>1 DEF Call, Acquire, Alloc3, FreeChain, Unlock, ringvars, rings, handler, device
    <2>4. (idx' = idx \/ pc[h] \in Inside) /\ pc[h] \notin Posted
      BY <1>1 DEF Call, Acquire, Alloc3, FreeChain, Unlock, At, Inside, Posted, caller
    <2>5. QED BY <2>2, <2>3, <2>4, RingRest
  <1>2. CASE Format(h)
    <2>1. pc[h] = "format" /\ pc'[h] = "ring" /\ blk_disk'[h] = 1
      BY <1>2 DEF Format, At, GoTo, DataTypes
    <2>2. Quiet BY <2>1, AllQuiet DEF Inside, Posted
    <2>3. UNCHANGED <<ringvars, dev>>
      BY <1>2 DEF Format, ringvars, rings, handler, device
    <2>4. Quiet' BY <2>2, <2>3 DEF Quiet, Done, DevIdle, ringvars
    <2>5. QED BY <1>0, <2>1, <2>3, <2>4 DEF RingInv, Inside, Posted, ringvars
  <1>3. CASE PublishHead(h)
    <2>1. /\ pc[h] = "ring" /\ pc'[h] = "idx" /\ blk_disk[h] = 1 /\ blk_disk' = blk_disk
          /\ idx' = idx
      BY <1>3 DEF PublishHead, At, GoTo, DataTypes, RingInv
    <2>2. avail_ring' = [avail_ring EXCEPT ![avail_idx % NUM] = idx[h][1]]
      BY <1>3 DEF PublishHead
    <2>3. avail_ring'[avail_idx % NUM] = idx[h][1] /\ avail_idx' = avail_idx
      <3>1. avail_idx % NUM \in Descs BY BumpIs DEF DataTypes
      <3>2. QED BY <1>3, <2>2, <3>1 DEF DataTypes, PublishHead
    <2>4. UNCHANGED <<avail_idx, dev_avail, dev_used, used_idx, isr, dev>>
      BY <1>3 DEF PublishHead, handler, device
    <2>5. Quiet BY <2>1, AllQuiet DEF Inside, Posted
    <2>6. Quiet' BY <2>4, <2>5 DEF Quiet, Done, DevIdle
    <2>7. QED BY <1>0, <2>1, <2>3, <2>4, <2>6 DEF RingInv, Inside, Posted
  <1>4. CASE PublishIdx(h)
    <2>1. /\ pc[h] = "idx" /\ pc'[h] = "notify" /\ blk_disk[h] = 1 /\ blk_disk' = blk_disk
          /\ idx' = idx /\ avail_ring[avail_idx % NUM] = idx[h][1]
      BY <1>4 DEF PublishIdx, At, GoTo, DataTypes, RingInv
    <2>2. Quiet BY <2>1, AllQuiet DEF Inside, Posted
    <2>3. /\ avail_idx' = Bump(avail_idx)
          /\ UNCHANGED <<avail_ring, dev_avail, dev_used, used_idx, isr, dev>>
      BY <1>4 DEF PublishIdx, handler, device
    <2>4. Asked(idx[h][1])' BY <2>1, <2>2, <2>3 DEF Asked, Quiet, Done, Bump
    <2>5. QED BY <1>0, <2>1, <2>3, <2>4 DEF RingInv, Inside, Posted
  <1>5. CASE Notify(h)
    <2>1. /\ pc[h] = "notify" /\ pc'[h] = "wait" /\ idx' = idx
          /\ UNCHANGED <<ringvars, dev, blk_disk>>
      BY <1>5 DEF Notify, At, GoTo, DataTypes, ringvars, rings, handler, device
    <2>2. Quiet' = Quiet BY <2>1 DEF Quiet, Done, DevIdle, ringvars
    <2>3. Asked(idx[h][1])' = Asked(idx[h][1]) BY <2>1 DEF Asked, Done, ringvars
    <2>4. Answered(idx[h][1])' = Answered(idx[h][1])
      BY <2>1 DEF Answered, Done, DevIdle, ringvars
    <2>5. QED BY <1>0, <2>1, <2>2, <2>3, <2>4 DEF RingInv, Inside, Posted, ringvars
  <1>6. CASE Wait(h)
    <2>1. /\ pc[h] = "wait" /\ pc'[h] = "free" /\ blk_disk[h] # 1 /\ idx' = idx
          /\ UNCHANGED <<ringvars, dev, blk_disk>>
      BY <1>6 DEF Wait, WaitOver, At, GoTo, DataTypes, ringvars, rings, handler, device
    <2>2. Quiet BY <2>1 DEF RingInv, Posted
    <2>3. Quiet' BY <2>1, <2>2 DEF Quiet, Done, DevIdle, ringvars
    <2>4. QED BY <1>0, <2>1, <2>3 DEF RingInv, Inside, Posted, ringvars
  <1>7. QED BY <1>1, <1>2, <1>3, <1>4, <1>5, <1>6 DEF Rw

\* The handler has found an entry: the request of the one caller that waits.
LEMMA InFlight ==
    ASSUME DataTypes, OwnerInv, ChainInv, RingInv,
           isr = "complete" \/ (isr = "loop" /\ Pending)
    PROVE  \E h \in Harts :
                /\ pc[h] \in Posted /\ blk_disk[h] = 1 /\ Answered(idx[h][1])
                /\ info[idx[h][1]].b = h
                /\ isr = "complete" => isr_id = idx[h][1]
  <1>1. ~Quiet /\ \A i \in Descs : ~Asked(i) BY DEF Quiet, Asked, Done, Pending
  <1>2. PICK h \in Harts : pc[h] \in Posted BY <1>1 DEF RingInv
  <1>3. idx[h][1] \in Descs /\ info[idx[h][1]].b = h
    BY <1>2 DEF ChainInv, Holding, Posted, Distinct, Addressed
  <1>4. blk_disk[h] = 1 /\ Answered(idx[h][1]) BY <1>1, <1>2, <1>3 DEF RingInv
  <1>5. QED BY <1>2, <1>3, <1>4 DEF Answered

LEMMA RingIsr ==
    ASSUME DataTypes, OwnerInv, ChainInv, RingInv, Isr
    PROVE  RingInv'
  <1>0. UNCHANGED <<pc, idx, avail_idx, avail_ring, dev, dev_avail, dev_used, used_ring>>
    BY DEF Isr, IsrEnter, IsrAck, IsrTake, IsrComplete, IsrNext, caller, rings, device
  <1>1. ASSUME Done' = Done, blk_disk' = blk_disk, isr' # "complete", isr # "complete"
        PROVE  RingInv'
    <2>1. Quiet' = Quiet BY <1>0, <1>1 DEF Quiet, DevIdle
    <2>2. \A h \in Harts : Asked(idx[h][1])' = Asked(idx[h][1]) BY <1>0, <1>1 DEF Asked
    <2>3. \A h \in Harts : Answered(idx[h][1])' = Answered(idx[h][1])
      BY <1>0, <1>1 DEF Answered, DevIdle
    <2>4. QED BY <1>0, <1>1, <2>1, <2>2, <2>3 DEF RingInv
  <1>2. CASE IsrEnter BY <1>1, <1>2 DEF IsrEnter, Done
  <1>3. CASE IsrAck BY <1>1, <1>3 DEF IsrAck, Done
  <1>4. CASE IsrTake
    <2>1. isr = "loop" /\ used_idx' = used_idx /\ blk_disk' = blk_disk
      BY <1>4 DEF IsrTake
    <2>2. CASE isr' # "complete"
      <3>1. isr' \in {"idle", "loop"} BY <1>4, <2>1, <2>2 DEF IsrTake
      <3>2. Done' = Done BY <2>1, <3>1 DEF Done
      <3>3. QED BY <1>1, <2>1, <2>2, <3>2
    <2>3. CASE isr' = "complete"
      <3>1. Pending /\ isr_id' = used_ring[used_idx % NUM]
        BY <1>4, <2>1, <2>3 DEF IsrTake
      <3>2. PICK h \in Harts : pc[h] \in Posted /\ blk_disk[h] = 1 /\ Answered(idx[h][1])
        BY <2>1, <3>1, InFlight
      <3>3. Done' = Done BY <2>1, <2>3 DEF Done
      <3>4. isr_id' = idx[h][1] BY <2>1, <3>1, <3>2 DEF Answered, Done
      <3>5. Answered(idx[h][1])' BY <1>0, <3>2, <3>3, <3>4 DEF Answered, DevIdle
      <3>6. \A g \in Harts \ {h} : pc[g] \notin Inside
        BY <3>2 DEF OwnerInv, Inside, Posted
      <3>7. QED BY <1>0, <2>1, <3>2, <3>5, <3>6 DEF RingInv, Inside, Posted
    <2>4. QED BY <2>2, <2>3
  <1>5. CASE IsrComplete
    <2>1. isr = "complete" BY <1>5 DEF IsrComplete
    <2>2. PICK h \in Harts : /\ pc[h] \in Posted /\ blk_disk[h] = 1 /\ Answered(idx[h][1])
                             /\ info[idx[h][1]].b = h /\ isr_id = idx[h][1]
      BY <2>1, InFlight
    <2>3. blk_disk' = [blk_disk EXCEPT ![h] = 0] /\ isr' = "next" /\ used_idx' = used_idx
      BY <1>5, <2>2, DiskFacts DEF IsrComplete
    <2>4. blk_disk'[h] = 0 BY <2>3 DEF DataTypes
    <2>5. Quiet' BY <1>0, <2>1, <2>2, <2>3 DEF Quiet, Answered, Done, DevIdle, Bump
    <2>6. \A g \in Harts \ {h} : pc[g] \notin Inside
      BY <2>2 DEF OwnerInv, Inside, Posted
    <2>7. QED BY <1>0, <2>2, <2>4, <2>5, <2>6 DEF RingInv, Inside, Posted
  <1>6. CASE IsrNext BY <1>1, <1>6 DEF IsrNext, Done
  <1>7. QED BY <1>2, <1>3, <1>4, <1>5, <1>6 DEF Isr

LEMMA RingDevice ==
    ASSUME DataTypes, OwnerInv, ChainInv, RingInv, Device
    PROVE  RingInv'
  <1>0. UNCHANGED <<pc, idx, blk_disk, avail_idx, avail_ring, used_idx, isr, isr_id>>
    BY DEF Device, DevFetch, DevNothing, DevTransfer, DevUsed, DevInterrupt, caller, rings,
           handler
  <1>1. Done' = Done BY <1>0 DEF Done
  <1>2. ASSUME UNCHANGED <<dev_avail, dev_used, used_ring>>,
               DevIdle' \/ ~DevIdle \/ avail_idx # dev_avail
        PROVE  RingInv'
    <2>1. Quiet => Quiet' BY <1>0, <1>1, <1>2 DEF Quiet
    <2>2. \A h \in Harts : Asked(idx[h][1])' = Asked(idx[h][1])
      BY <1>0, <1>1, <1>2 DEF Asked
    <2>3. \A h \in Harts : Answered(idx[h][1]) => Answered(idx[h][1])'
      BY <1>0, <1>1, <1>2 DEF Answered
    <2>4. QED BY <1>0, <1>2, <2>1, <2>2, <2>3 DEF RingInv
  <1>3. CASE DevFetch BY <1>2, <1>3 DEF DevFetch
  <1>4. CASE DevNothing BY <1>2, <1>4 DEF DevNothing, device, DevIdle
  <1>5. CASE DevTransfer BY <1>2, <1>5 DEF DevTransfer, DevIdle
  <1>6. CASE DevInterrupt BY <1>2, <1>6 DEF DevInterrupt, DevIdle
  <1>7. CASE DevUsed
    <2>1. PICK h \in Harts : /\ pc[h] \in Posted /\ blk_disk[h] = 1 /\ Asked(idx[h][1])
                             /\ Head = idx[h][1]
      BY <1>7, HeadIs DEF DevUsed
    <2>2. /\ used_ring' = [used_ring EXCEPT ![dev_used % NUM] = idx[h][1]]
          /\ dev_used' = Bump(dev_used) /\ dev_avail' = Bump(dev_avail)
          /\ dev' = "signal"
      BY <1>7, <2>1 DEF DevUsed
    <2>3. dev_used = dev_avail /\ dev_used = Done /\ avail_idx = Bump(dev_avail)
          /\ isr # "complete"
      BY <2>1 DEF RingInv, Asked
    <2>4. used_ring'[dev_used % NUM] = idx[h][1]
      BY <2>2, BumpIs DEF DataTypes
    <2>5. dev_used' = dev_avail' /\ dev_used' = Bump(Done') /\ avail_idx' = dev_avail'
      BY <1>0, <1>1, <2>2, <2>3
    <2>6. used_ring'[Done' % NUM] = idx[h][1] BY <1>1, <2>3, <2>4
    <2>7. DevIdle' BY <2>2 DEF DevIdle
    <2>8. Answered(idx[h][1])'
      BY <1>0, <2>3, <2>5, <2>6, <2>7 DEF Answered
    <2>9. \A g \in Harts \ {h} : pc[g] \notin Inside
      BY <2>1 DEF OwnerInv, Inside, Posted
    <2>10. QED BY <1>0, <2>1, <2>5, <2>8, <2>9 DEF RingInv, Inside, Posted
  <1>8. QED BY <1>3, <1>4, <1>5, <1>6, <1>7 DEF Device

LEMMA RingStep ==
    ASSUME DataTypes, OwnerInv, ChainInv, RingInv, [Next]_vars
    PROVE  RingInv'
  <1>1. CASE \E h \in Harts : Rw(h) BY <1>1, RingRw
  <1>2. CASE Isr BY <1>2, RingIsr
  <1>3. CASE Device BY <1>3, RingDevice
  <1>4. ASSUME UNCHANGED <<pc, idx, ringvars, dev, blk_disk>> PROVE RingInv'
    <2>1. Quiet' = Quiet BY <1>4 DEF Quiet, Done, DevIdle, ringvars
    <2>2. \A h \in Harts : Asked(idx[h][1])' = Asked(idx[h][1])
      BY <1>4 DEF Asked, Done, ringvars
    <2>3. \A h \in Harts : Answered(idx[h][1])' = Answered(idx[h][1])
      BY <1>4 DEF Answered, Done, DevIdle, ringvars
    <2>4. QED BY <1>4, <2>1, <2>2, <2>3 DEF RingInv, ringvars
  <1>5. CASE DiskInit
    BY <1>4, <1>5 DEF DiskInit, caller, rings, handler, device, ringvars
  <1>6. CASE UNCHANGED vars
    BY <1>4, <1>6 DEF vars, caller, rings, handler, device, ringvars
  <1>7. QED BY <1>1, <1>2, <1>3, <1>5, <1>6 DEF Next, Panic

LEMMA PanicStep ==
    ASSUME FlagTypes, DataTypes, DiskInv, [Next]_vars
    PROVE  PanicInv'
  <1> USE DEF PanicInv, DiskInv
  <1>1. ASSUME halted' = halted PROVE PanicInv' BY <1>1
  <1>2. ASSUME NEW h \in Harts, Rw(h) PROVE PanicInv'
    <2>1. CASE FreeChain(h) BY <1>1, <2>1, FreesOwn
    <2>2. QED
      BY <1>1, <1>2, <2>1 DEF Rw, Call, Acquire, Alloc3, Format, PublishHead, PublishIdx,
                              Notify, Wait, Unlock
  <1>3. CASE IsrComplete
    <2>1. PICK h \in Harts : info[idx[h][1]].b = h /\ isr_id = idx[h][1]
      BY <1>3, InFlight DEF IsrComplete
    <2>2. halted' = halted BY <1>3, <2>1, DiskFacts DEF IsrComplete
    <2>3. QED BY <1>1, <2>2
  <1>4. CASE IsrTake BY <1>4 DEF IsrTake
  <1>5. CASE DiskInit BY <1>5 DEF DiskInit, NoDisk
  <1>6. CASE Isr BY <1>1, <1>3, <1>4, <1>6 DEF Isr, IsrEnter, IsrAck, IsrNext
  <1>7. CASE Device
    BY <1>1, <1>7 DEF Device, DevFetch, DevNothing, DevTransfer, DevUsed, DevInterrupt
  <1>8. CASE UNCHANGED vars BY <1>1, <1>8 DEF vars
  <1>9. QED BY <1>2, <1>5, <1>6, <1>7, <1>8 DEF Next, Panic

-----------------------------------------------------------------------------
LEMMA DiskInvariance == Spec => [](FlagTypes /\ DataTypes /\ DiskInv)
  <1>1. Init => FlagTypes /\ DataTypes /\ DiskInv
    <2>1. ASSUME Init PROVE FlagTypes /\ DataTypes BY <2>1, DiskTypesInit, TypesAre
    <2>2. ASSUME Init PROVE OwnerInv /\ DescriptorsConserved /\ ChainInv /\ PanicInv
      BY <2>2 DEF Init, OwnerInv, DescriptorsConserved, ChainInv, PanicInv, Inside, Holding
    <2>3. ASSUME Init PROVE RingInv
      BY <2>3 DEF Init, RingInv, Quiet, Done, DevIdle, Posted
    <2>4. QED BY <2>1, <2>2, <2>3 DEF DiskInv
  <1>2. FlagTypes /\ DataTypes /\ DiskInv /\ [Next]_vars
            => (FlagTypes /\ DataTypes /\ DiskInv)'
    <2>1. SUFFICES ASSUME FlagTypes, DataTypes, DiskInv, [Next]_vars
                   PROVE  (FlagTypes /\ DataTypes /\ DiskInv)'
      OBVIOUS
    <2>2. OwnerInv /\ DescriptorsConserved /\ ChainInv /\ RingInv BY <2>1 DEF DiskInv
    <2>3. FlagTypes' BY <2>1, DiskFlags
    <2>4. DataTypes' BY <2>1, <2>2, DiskTypesStep
    <2>5. OwnerInv' BY <2>1, <2>2, OwnerStep
    <2>6. DescriptorsConserved' BY <2>1, <2>2, <2>4, ConservedStep
    <2>7. ChainInv' BY <2>1, <2>2, ChainStep
    <2>8. RingInv' BY <2>1, <2>2, RingStep
    <2>9. PanicInv' BY <2>1, PanicStep
    <2>10. QED BY <2>3, <2>4, <2>5, <2>6, <2>7, <2>8, <2>9 DEF DiskInv
  <1>3. QED BY <1>1, <1>2, PTL DEF Spec

-----------------------------------------------------------------------------
(* The block device: between call and return the caller's data is moved.    *)

\* What the device finds behind the chain, and what the status byte says when
\* the handler, and then the caller, goes on.
OrderInv ==
    /\ \A h \in Harts :
        /\ pc[h] \in {"ring", "idx", "notify", "wait"} =>
               ops[idx[h][1]] = op[h] /\ desc[idx[h][3]].addr.of = idx[h][1]
        /\ pc[h] \in Posted /\ blk_disk[h] = 0 => info[idx[h][1]].status = 0
    /\ isr = "complete" => info[isr_id].status = 0

LEMMA OrderRw ==
    ASSUME DataTypes, OwnerInv, ChainInv, RingInv, OrderInv, NEW h \in Harts, Rw(h)
    PROVE  OrderInv'
  <1>0. /\ \A g \in Harts \ {h} : pc'[g] = pc[g]
        /\ pc[h] \in Inside => \A g \in Harts \ {h} : pc'[g] \notin Inside
        /\ UNCHANGED <<isr, isr_id>>
    BY RwFrame DEF Rw, Call, Acquire, Alloc3, Format, PublishHead, PublishIdx, Notify, Wait,
                   FreeChain, Unlock, handler
  <1> DEFINE Busy == {"ring", "idx", "notify", "wait"}
  <1>1. CASE Call(h) \/ Acquire(h)
    <2>1. UNCHANGED <<idx, ops, desc, info, blk_disk>> /\ pc'[h] \notin Busy
      BY <1>1 DEF Call, Acquire, GoTo, DataTypes, driver
    <2>2. \A g \in Harts \ {h} : op'[g] = op[g]
      BY <1>1 DEF Call, Acquire, DataTypes
    <2>3. QED BY <1>0, <2>1, <2>2 DEF OrderInv, Posted
  <1>2. CASE Alloc3(h) \/ Unlock(h)
    <2>1. info' = info /\ pc[h] \in Inside /\ pc'[h] \notin Busy
      BY <1>2 DEF Alloc3, Unlock, At, GoTo, DataTypes, Inside
    <2>2. QED BY <1>0, <2>1 DEF OrderInv, Posted, Inside
  <1>3. CASE Format(h)
    <2>1. /\ pc[h] = "format" /\ pc'[h] = "ring" /\ Distinct(h)
          /\ UNCHANGED <<idx, op>>
      BY <1>3 DEF Format, At, GoTo, DataTypes, ChainInv, Holding
    <2>2. isr # "complete"
      <3>1. Quiet BY <2>1, AllQuiet DEF Inside, Posted
      <3>2. QED BY <3>1 DEF Quiet
    <2>3. ops'[idx[h][1]] = op[h]
      BY <1>3, <2>1 DEF Format, Distinct, DataTypes
    <2>4. desc'[idx[h][3]].addr.of = idx[h][1]
      BY <1>3, <2>1 DEF Format, Distinct, DataTypes
    <2>5. QED BY <1>0, <2>1, <2>2, <2>3, <2>4 DEF OrderInv, Posted, Inside
  <1>4. CASE PublishHead(h) \/ PublishIdx(h)
    <2>1. /\ pc[h] \in {"ring", "idx"} /\ UNCHANGED <<idx, op, ops, desc, info, blk_disk>>
          /\ blk_disk[h] = 1
      BY <1>4 DEF PublishHead, PublishIdx, At, driver, RingInv
    <2>2. QED BY <1>0, <2>1 DEF OrderInv, Posted, Inside
  <1>5. CASE Notify(h) \/ Wait(h)
    <2>1. pc[h] \in Posted /\ UNCHANGED <<idx, op, ops, desc, info, blk_disk>>
      BY <1>5 DEF Notify, Wait, At, driver, caller, Posted
    <2>2. QED BY <1>0, <2>1 DEF OrderInv, Posted, Inside
  <1>6. CASE FreeChain(h)
    <2>1. pc[h] = "free" /\ pc'[h] \notin Busy
      <3>1. \E l \in {"panic", "unlock"} : GoTo(h, l) BY <1>6 DEF FreeChain
      <3>2. QED BY <1>6, <3>1 DEF FreeChain, At, GoTo, DataTypes
    <2>2. isr # "complete"
      <3>1. Quiet BY <2>1, AllQuiet DEF Inside, Posted
      <3>2. QED BY <3>1 DEF Quiet
    <2>3. QED BY <1>0, <2>1, <2>2 DEF OrderInv, Posted, Inside
  <1>7. QED BY <1>1, <1>2, <1>3, <1>4, <1>5, <1>6 DEF Rw

\* A transfer that the device carries out, or refuses.
LEMMA Transfers ==
    ASSUME DataTypes, OwnerInv, ChainInv, RingInv, OrderInv, DevTransfer
    PROVE  \E h \in Harts :
             /\ pc[h] \in Posted /\ blk_disk[h] = 1 /\ Asked(idx[h][1])
             /\ \/ /\ info'[idx[h][1]].status = 0
                   /\ IF op[h].write
                      THEN store' = [store EXCEPT ![op[h].sector] = data[h]] /\ data' = data
                      ELSE data' = [data EXCEPT ![h] = store[op[h].sector]] /\ store' = store
                \/ info'[idx[h][1]].status = 1 /\ UNCHANGED <<data, store>>
  <1>1. dev = "busy" BY DEF DevTransfer
  <1>2. PICK h \in Harts : /\ pc[h] \in Posted /\ blk_disk[h] = 1 /\ Asked(idx[h][1])
                           /\ Head = idx[h][1] /\ Distinct(h) /\ Chained(h) /\ Addressed(h)
    BY <1>1, HeadIs
  <1> DEFINE i == idx[h][1]
             d0 == desc[Head]
             d1 == desc[d0.next]
             d2 == desc[d1.next]
  <1>3. d0.addr.of = i /\ d1.addr.of = h BY <1>2 DEF Chained, Addressed
  <1>4. ops[i] = op[h] /\ d2.addr.of = i BY <1>2 DEF OrderInv, Posted, Chained
  <1>5. i \in Descs /\ info \in [Descs -> Info] /\ info[i] \in Info
    BY <1>2 DEF Distinct, DataTypes
  <1>6. \/ /\ info' = [info EXCEPT ![i].status = 0]
           /\ IF op[h].write
              THEN store' = [store EXCEPT ![op[h].sector] = data[h]] /\ data' = data
              ELSE data' = [data EXCEPT ![h] = store[op[h].sector]] /\ store' = store
        \/ info' = [info EXCEPT ![i].status = 1] /\ UNCHANGED <<data, store>>
    BY <1>3, <1>4 DEF DevTransfer
  <1>7. info' = [info EXCEPT ![i].status = 0] => info'[i].status = 0
    BY <1>5 DEF Info
  <1>8. info' = [info EXCEPT ![i].status = 1] => info'[i].status = 1
    BY <1>5 DEF Info
  <1>9. QED BY <1>2, <1>6, <1>7, <1>8

LEMMA OrderStep ==
    ASSUME DataTypes, OwnerInv, ChainInv, RingInv, OrderInv, [Next]_vars
    PROVE  OrderInv'
  <1>1. CASE \E h \in Harts : Rw(h) BY <1>1, OrderRw
  <1>2. ASSUME UNCHANGED <<pc, op, idx, ops, desc, info, blk_disk>>,
               isr' = "complete" => isr = "complete" /\ isr_id' = isr_id
        PROVE  OrderInv'
    BY <1>2 DEF OrderInv
  <1>3. CASE Isr
    <2>1. UNCHANGED <<pc, op, idx, ops, desc, info>>
      BY <1>3 DEF Isr, IsrEnter, IsrAck, IsrTake, IsrComplete, IsrNext, caller, driver
    <2>2. CASE IsrEnter \/ IsrAck \/ IsrNext
      BY <1>2, <2>1, <2>2 DEF IsrEnter, IsrAck, IsrNext
    <2>3. CASE IsrTake
      <3>1. isr' = "complete" => info[isr_id'].status = 0
        BY <2>3 DEF IsrTake
      <3>2. QED BY <2>1, <2>3, <3>1 DEF IsrTake, OrderInv
    <2>4. CASE IsrComplete
      <3>1. PICK h \in Harts : /\ pc[h] \in Posted /\ info[idx[h][1]].b = h
                               /\ isr_id = idx[h][1]
        BY <2>4, InFlight DEF IsrComplete
      <3>2. /\ blk_disk' = [blk_disk EXCEPT ![h] = 0] /\ isr' = "next"
            /\ info[idx[h][1]].status = 0
        BY <2>4, <3>1, DiskFacts DEF IsrComplete, OrderInv
      <3>3. QED BY <2>1, <3>1, <3>2 DEF OrderInv, DataTypes
    <2>5. QED BY <1>3, <2>2, <2>3, <2>4 DEF Isr
  <1>4. CASE Device
    <2>1. CASE DevTransfer
      <3>1. PICK h \in Harts : pc[h] \in Posted /\ blk_disk[h] = 1 /\ Asked(idx[h][1])
        BY <2>1, Transfers
      <3>2. UNCHANGED <<pc, op, idx, ops, desc, blk_disk, isr>>
        BY <2>1 DEF DevTransfer, caller, driver, handler
      <3>3. \A g \in Harts \ {h} : pc[g] \notin Inside
        BY <3>1 DEF OwnerInv, Inside, Posted
      <3>4. isr # "complete" BY <3>1 DEF Asked
      <3>5. QED BY <3>1, <3>2, <3>3, <3>4 DEF OrderInv, Inside, Posted
    <2>2. CASE DevFetch \/ DevNothing \/ DevUsed \/ DevInterrupt
      BY <1>2, <2>2 DEF DevFetch, DevNothing, DevUsed, DevInterrupt, caller, driver, handler
    <2>3. QED BY <1>4, <2>1, <2>2 DEF Device
  <1>5. CASE DiskInit BY <1>2, <1>5 DEF DiskInit, caller, handler
  <1>6. CASE UNCHANGED vars BY <1>2, <1>6 DEF vars, caller, driver, handler
  <1>7. QED BY <1>1, <1>3, <1>4, <1>5, <1>6 DEF Next, Panic

Phase == [h \in Harts |-> IF pc[h] = "idle" THEN "idle"
                          ELSE IF Served(h) THEN "served" ELSE "asked"]
Device1 == <<Phase, op, data, store>>

\* A step after which a hart is where it was, and is served if it was.
LEMMA PhaseStays ==
    ASSUME \A h \in Harts : /\ pc'[h] = "idle" <=> pc[h] = "idle"
                            /\ Served(h)' <=> Served(h)
    PROVE  Phase' = Phase
  BY DEF Phase

LEMMA PhaseRw ==
    ASSUME DataTypes, OwnerInv, ChainInv, RingInv, OrderInv, DataTypes',
           FlagTypes, DescriptorsConserved, NEW h \in Harts, Rw(h)
    PROVE  BlockDeviceOf!Next \/ Device1' = Device1
  <1>0. /\ \A g \in Harts \ {h} : pc'[g] = pc[g]
        /\ pc[h] \in Inside => \A g \in Harts \ {h} : pc'[g] \notin Inside
        /\ store' = store
    BY RwFrame DEF Rw, Call, Acquire, Alloc3, Format, PublishHead, PublishIdx, Notify, Wait,
                   FreeChain, Unlock, device
  <1>1. CASE Call(h)
    <2>1. PICK r \in Request, v \in Values :
            /\ op' = [op EXCEPT ![h] = r]
            /\ data' = [data EXCEPT ![h] = IF r.write THEN v ELSE data[h]]
      BY <1>1 DEF Call
    <2>2. (IF r.write THEN v ELSE data[h]) \in Values BY DEF DataTypes
    <2>3. /\ pc[h] = "idle" /\ pc'[h] = "acquire"
          /\ UNCHANGED <<idx, info, avail_idx, dev_avail, dev>>
      BY <1>1 DEF Call, At, GoTo, DataTypes, rings, device
    <2>4. \A g \in Harts \ {h} : Served(g)' <=> Served(g)
      BY <1>0, <2>3 DEF Served
    <2>5. ~Served(h)' BY <2>3 DEF Served, Posted
    <2>6. Phase' = [Phase EXCEPT ![h] = "asked"]
      BY <1>0, <2>3, <2>4, <2>5 DEF Phase
    <2>7. Phase[h] = "idle" BY <2>3 DEF Phase
    <2>8. BlockDeviceOf!Ask(h)
      BY <1>0, <2>1, <2>2, <2>6, <2>7 DEF BlockDeviceOf!Ask, Phase, Request
    <2>9. QED BY <2>8 DEF BlockDeviceOf!Next
  <1>2. CASE Unlock(h)
    <2>1. /\ pc[h] = "unlock" /\ pc'[h] = "idle"
          /\ UNCHANGED <<op, data, idx, info, avail_idx, dev_avail, dev>>
      BY <1>2 DEF Unlock, At, GoTo, DataTypes, rings, device
    <2>2. \A g \in Harts \ {h} : Served(g)' <=> Served(g)
      BY <1>0, <2>1 DEF Served
    <2>3. Served(h) BY <2>1 DEF Served
    <2>4. Phase' = [Phase EXCEPT ![h] = "idle"]
      BY <1>0, <2>1, <2>2 DEF Phase
    <2>5. Phase[h] = "served" BY <2>1, <2>3 DEF Phase
    <2>6. BlockDeviceOf!Return(h)
      BY <1>0, <2>1, <2>4, <2>5 DEF BlockDeviceOf!Return, Phase
    <2>7. QED BY <2>6 DEF BlockDeviceOf!Next
  <1>3. ASSUME ~Call(h), ~Unlock(h) PROVE Device1' = Device1
    <2>1. UNCHANGED <<op, data>>
      BY <1>3 DEF Rw, Acquire, Alloc3, Format, PublishHead, PublishIdx, Notify, Wait, FreeChain
    <2>2. pc[h] # "idle" /\ pc'[h] # "idle"
      <3>1. PICK l : GoTo(h, l) /\ l # "idle" /\ pc[h] # "idle"
        BY <1>3 DEF Rw, Acquire, Alloc3, Format, PublishHead, PublishIdx, Notify, Wait,
                    FreeChain, At
      <3>2. QED BY <3>1 DEF GoTo, DataTypes
    <2>3. ASSUME Served(h)' <=> Served(h), \A g \in Harts \ {h} : Served(g)' <=> Served(g)
          PROVE  Device1' = Device1
      <3>1. Phase' = Phase BY <1>0, <2>2, <2>3, PhaseStays
      <3>2. QED BY <1>0, <2>1, <3>1 DEF Device1
    <2>4. CASE Acquire(h)
      <3>1. /\ pc[h] = "acquire" /\ pc'[h] = "alloc"
            /\ UNCHANGED <<idx, info, avail_idx, dev_avail, dev>>
        BY <2>4 DEF Acquire, At, GoTo, DataTypes, rings, device
      <3>2. QED BY <1>0, <2>3, <3>1 DEF Served, Posted
    <2>5. ASSUME pc[h] \in Inside, Served(h)' <=> Served(h) PROVE Device1' = Device1
      <3>1. \A g \in Harts \ {h} : pc[g] \notin Inside /\ pc'[g] \notin Inside
        BY <1>0, <2>5
      <3>2. \A g \in Harts \ {h} : ~Served(g) /\ ~Served(g)'
        BY <3>1 DEF Served, Inside, Posted
      <3>3. QED BY <2>3, <2>5, <3>2
    <2>6. CASE Alloc3(h) \/ Format(h) \/ PublishHead(h)
      <3>1. pc[h] \in {"alloc", "format", "ring"} /\ pc'[h] \in {"format", "ring", "idx"}
        BY <2>6 DEF Alloc3, Format, PublishHead, At, GoTo, DataTypes
      <3>2. QED BY <2>5, <3>1 DEF Served, Posted, Inside
    <2>7. CASE PublishIdx(h)
      <3>1. /\ pc[h] = "idx" /\ pc'[h] = "notify" /\ avail_idx' = Bump(avail_idx)
            /\ UNCHANGED <<dev_avail, dev>>
        BY <2>7 DEF PublishIdx, At, GoTo, DataTypes, device
      <3>2. Quiet BY <3>1, AllQuiet DEF Inside, Posted
      <3>3. avail_idx' # dev_avail' /\ dev' # "moved"
        BY <3>1, <3>2, BumpIs DEF Quiet, DevIdle, DataTypes
      <3>4. ~Served(h) /\ ~Served(h)' BY <3>1, <3>3 DEF Served, Posted
      <3>5. QED BY <2>5, <3>1, <3>4 DEF Inside
    <2>8. CASE Notify(h)
      <3>1. /\ pc[h] = "notify" /\ pc'[h] = "wait"
            /\ UNCHANGED <<idx, info, avail_idx, dev_avail, dev>>
        BY <2>8 DEF Notify, At, GoTo, DataTypes, rings, device
      <3>2. QED BY <2>5, <3>1 DEF Served, Posted, Inside
    <2>9. CASE Wait(h)
      <3>1. pc[h] = "wait" /\ pc'[h] = "free" /\ blk_disk[h] # 1
        BY <2>9 DEF Wait, WaitOver, At, GoTo, DataTypes
      <3>2. Quiet /\ info[idx[h][1]].status = 0
        BY <3>1 DEF RingInv, OrderInv, Posted
      <3>3. Served(h) /\ Served(h)' BY <3>1, <3>2 DEF Served, Posted, Quiet
      <3>4. QED BY <2>5, <3>1, <3>3 DEF Inside
    <2>10. CASE FreeChain(h)
      <3>1. pc[h] = "free" /\ pc'[h] = "unlock"
        BY <2>10, FreesOwn DEF FreeChain, At, GoTo, DataTypes
      <3>2. QED BY <2>5, <3>1 DEF Served, Inside
    <2>11. QED
      BY <1>3, <2>4, <2>6, <2>7, <2>8, <2>9, <2>10 DEF Rw
  <1>4. QED BY <1>1, <1>2, <1>3

LEMMA PhaseDevice ==
    ASSUME DataTypes, OwnerInv, ChainInv, RingInv, OrderInv, Device
    PROVE  BlockDeviceOf!Next \/ Device1' = Device1
  <1>0. UNCHANGED <<pc, op, idx, avail_idx>>
    BY DEF Device, DevFetch, DevNothing, DevTransfer, DevUsed, DevInterrupt, caller, rings
  <1>1. ASSUME UNCHANGED <<info, data, store>>,
               (dev_avail' = avail_idx \/ dev' = "moved")
                   <=> (dev_avail = avail_idx \/ dev = "moved")
        PROVE  Device1' = Device1
    <2>1. \A h \in Harts : Served(h)' <=> Served(h) BY <1>0, <1>1 DEF Served
    <2>2. Phase' = Phase BY <1>0, <2>1, PhaseStays
    <2>3. QED BY <1>0, <1>1, <2>2 DEF Device1
  <1>2. CASE DevFetch BY <1>1, <1>2 DEF DevFetch
  <1>3. CASE DevNothing BY <1>1, <1>3 DEF DevNothing, device
  <1>4. CASE DevInterrupt BY <1>1, <1>4 DEF DevInterrupt
  <1>5. CASE DevUsed
    <2>1. dev = "moved" /\ dev_avail' = Bump(dev_avail) BY <1>5 DEF DevUsed
    <2>2. avail_idx = Bump(dev_avail) BY <2>1, HeadIs DEF Asked
    <2>3. QED BY <1>1, <1>5, <2>1, <2>2 DEF DevUsed
  <1>6. CASE DevTransfer
    <2>1. PICK h \in Harts :
             /\ pc[h] \in Posted /\ blk_disk[h] = 1 /\ Asked(idx[h][1])
             /\ \/ /\ info'[idx[h][1]].status = 0
                   /\ IF op[h].write
                      THEN store' = [store EXCEPT ![op[h].sector] = data[h]] /\ data' = data
                      ELSE data' = [data EXCEPT ![h] = store[op[h].sector]] /\ store' = store
                \/ info'[idx[h][1]].status = 1 /\ UNCHANGED <<data, store>>
      BY <1>6, Transfers
    <2>2. dev = "busy" /\ dev' = "moved" /\ dev_avail' = dev_avail
      BY <1>6 DEF DevTransfer
    <2>3. avail_idx # dev_avail BY <2>1, BumpIs DEF Asked, DataTypes
    <2>4. \A g \in Harts \ {h} : ~Served(g) /\ ~Served(g)'
      <3>1. \A g \in Harts \ {h} : pc[g] \notin Inside
        BY <2>1 DEF OwnerInv, Inside, Posted
      <3>2. QED BY <1>0, <3>1 DEF Served, Inside, Posted
    <2>5. ~Served(h) /\ pc[h] # "idle" BY <2>1, <2>2, <2>3 DEF Served, Posted
    <2>6. CASE info'[idx[h][1]].status = 1
      <3>1. ~Served(h)' BY <1>0, <2>1, <2>6 DEF Served, Posted
      <3>2. Phase' = Phase
        <4>1. \A g \in Harts : Served(g)' <=> Served(g) BY <2>4, <2>5, <3>1
        <4>2. QED BY <1>0, <4>1, PhaseStays
      <3>3. UNCHANGED <<data, store>> BY <2>1, <2>6
      <3>4. QED BY <1>0, <3>2, <3>3 DEF Device1
    <2>7. CASE info'[idx[h][1]].status = 0
      <3>1. Served(h)' BY <1>0, <2>1, <2>2, <2>7 DEF Served
      <3>2. Phase' = [Phase EXCEPT ![h] = "served"]
        BY <1>0, <2>4, <2>5, <3>1 DEF Phase
      <3>3. Phase[h] = "asked" BY <2>5 DEF Phase
      <3>4. IF op[h].write
            THEN store' = [store EXCEPT ![op[h].sector] = data[h]] /\ data' = data
            ELSE data' = [data EXCEPT ![h] = store[op[h].sector]] /\ store' = store
        BY <2>1, <2>7
      <3>5. BlockDeviceOf!Serve(h)
        BY <1>0, <3>2, <3>3, <3>4 DEF BlockDeviceOf!Serve, Phase
      <3>6. QED BY <3>5 DEF BlockDeviceOf!Next
    <2>8. QED BY <2>1, <2>6, <2>7
  <1>7. QED BY <1>2, <1>3, <1>4, <1>5, <1>6 DEF Device

LEMMA OrderInvariance == Spec => []OrderInv
  <1>1. Init => OrderInv BY DEF Init, OrderInv, Posted
  <1>2. DataTypes /\ DiskInv /\ OrderInv /\ [Next]_vars => OrderInv'
    BY OrderStep DEF DiskInv
  <1>3. QED BY <1>1, <1>2, DiskInvariance, PTL DEF Spec

-----------------------------------------------------------------------------
(* The theorems: for every number of harts and descriptors, every width of  *)
(* the ring indexes, and a device that may fail.                            *)

\* Every step of the driver, its handler and the device keeps the types.
THEOREM DiskTyped == Spec => []TypeOK
  BY DiskInvariance, TypesAre, PTL

\* No descriptor leaks or is in two chains (alloc3_desc, free_chain).
THEOREM NoDescriptorLost == Spec => []DescriptorsConserved
  <1>1. DiskInv => DescriptorsConserved BY DEF DiskInv
  <1>2. QED BY <1>1, DiskInvariance, PTL

\* virtio_disk_isr clears b->disk only of the caller that waits for it, though it
\* takes no lock and may find entries added after its acknowledgement.
THEOREM CompletesInFlight == Spec => []HandlerCompletesInFlight
  <1>1. ASSUME DataTypes, DiskInv PROVE HandlerCompletesInFlight
    <2>1. SUFFICES ASSUME isr = "complete" PROVE HandlerCompletesInFlight
      BY DEF HandlerCompletesInFlight
    <2>2. PICK h \in Harts : /\ pc[h] \in Posted /\ blk_disk[h] = 1
                             /\ info[idx[h][1]].b = h /\ isr_id = idx[h][1]
      BY <1>1, <2>1, InFlight DEF DiskInv
    <2>3. QED BY <2>2, DiskFacts DEF HandlerCompletesInFlight
  <1>2. QED BY <1>1, DiskInvariance, PTL

\* used_idx is at most two entries behind avail->idx, over every wrap.
THEOREM KeepsUp == Spec => []HandlerKeepsUp
  <1>1. ASSUME DataTypes, DiskInv PROVE HandlerKeepsUp
    <2>1. avail_idx \in {Done, Bump(Done)}
      <3>1. CASE Quiet BY <1>1, <3>1 DEF DiskInv, RingInv, Quiet
      <3>2. CASE ~Quiet
        <4>1. PICK h \in Harts : Asked(idx[h][1]) \/ Answered(idx[h][1])
          BY <1>1, <3>2 DEF DiskInv, RingInv
        <4>2. QED BY <1>1, <4>1 DEF DiskInv, RingInv, Asked, Answered
      <3>3. QED BY <3>1, <3>2
    <2>2. used_idx \in Ring BY <1>1 DEF DataTypes
    <2>3. avail_idx \in {used_idx, Bump(used_idx), Bump(Bump(used_idx))}
      BY <2>1 DEF Done
    <2>4. QED BY <2>2, <2>3, Ahead DEF HandlerKeepsUp
  <1>2. QED BY <1>1, DiskInvariance, PTL

\* free_desc never finds a free descriptor and b is never null.
THEOREM DriverNeverPanics == Spec => []OnlyDevicePanics
  <1>1. DiskInv => OnlyDevicePanics BY DEF DiskInv, PanicInv, OnlyDevicePanics
  <1>2. QED BY <1>1, DiskInvariance, PTL

\* virtio_disk_rw implements BlockDevice: each call moves its own data once.
THEOREM BlockDeviceRefinement == Spec => ImplementsBlockDevice
  <1> SUFFICES Spec => BlockDeviceOf!Spec BY DEF ImplementsBlockDevice
  <1>1. Init => BlockDeviceOf!Init
    BY DEF Init, BlockDeviceOf!Init, Request, Harts
  <1>2. ASSUME FlagTypes, DataTypes, DiskInv, OrderInv, DataTypes', [Next]_vars
        PROVE  [BlockDeviceOf!Next]_Device1
    <2>1. OwnerInv /\ DescriptorsConserved /\ ChainInv /\ RingInv
      BY <1>2 DEF DiskInv
    <2>2. CASE \E h \in Harts : Rw(h) BY <1>2, <2>1, <2>2, PhaseRw
    <2>3. CASE Device BY <1>2, <2>1, <2>3, PhaseDevice
    <2>4. ASSUME UNCHANGED <<pc, op, idx, info, data, avail_idx, dev_avail, dev, store>>
          PROVE  Device1' = Device1
      <3>1. \A h \in Harts : Served(h)' <=> Served(h) BY <2>4 DEF Served
      <3>2. Phase' = Phase BY <2>4, <3>1, PhaseStays
      <3>3. QED BY <2>4, <3>2 DEF Device1
    <2>5. CASE DiskInit BY <2>4, <2>5 DEF DiskInit, caller, rings, device
    <2>6. CASE Isr
      BY <2>4, <2>6 DEF Isr, IsrEnter, IsrAck, IsrTake, IsrComplete, IsrNext, caller, rings,
                        device
    <2>7. CASE UNCHANGED vars BY <2>4, <2>7 DEF vars, caller, rings, device
    <2>8. QED BY <1>2, <2>2, <2>3, <2>5, <2>6, <2>7 DEF Next, Panic
  <1>3. [BlockDeviceOf!Next]_Device1 => [BlockDeviceOf!Next]_(BlockDeviceOf!vars)
    BY DEF Device1, Phase, BlockDeviceOf!vars
  <1>4. QED
    BY <1>1, <1>2, <1>3, DiskInvariance, OrderInvariance, PTL DEF Spec, BlockDeviceOf!Spec
=============================================================================
