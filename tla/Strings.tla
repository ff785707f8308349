------------------------------- MODULE Strings ------------------------------
(***************************************************************************)
(* 08-BlockDeviceDriver/string.c: memset, memcpy and memmove as loops over *)
(* bytes.  memmove chooses its direction by how source and destination     *)
(* overlap; memcpy is memmove.                                             *)
(***************************************************************************)
EXTENDS Integers

CONSTANT Size                       \* bytes of memory
ASSUME SizeAssumption == Size \in Nat \ {0}

Cells == 0..(Size - 1)
FILL == -1                          \* memset's c

VARIABLES
    pcS, mem,
    dst, src, cnt,                  \* the arguments; src = FILL for memset
    d, sS, n                        \* the loop's variables

args == <<dst, src, cnt>>
varsS == <<pcS, mem, args, d, sS, n>>

\* Mutated forms of definitions below.
MutBackward == FALSE                \* always upwards

\* The bytes of memory are told apart by where they are at first.
InitS ==
    /\ pcS = "call" /\ mem = [x \in Cells |-> x]
    /\ dst \in Cells /\ src \in Cells \cup {FILL} /\ cnt \in 0..Size
    /\ dst + cnt <= Size /\ src + cnt <= Size
    /\ d = dst /\ sS = src /\ n = cnt

Memset ==
    /\ pcS = "call" /\ src = FILL /\ pcS' = "set"
    /\ UNCHANGED <<mem, args, d, sS, n>>
SetByte ==
    /\ pcS = "set" /\ n > 0
    /\ mem' = [mem EXCEPT ![d] = FILL] /\ d' = d + 1 /\ n' = n - 1
    /\ UNCHANGED <<pcS, args, sS>>

\* s < d && s + n > d
Backward == src < dst /\ src + cnt > dst
Memmove ==
    /\ pcS = "call" /\ src # FILL
    /\ IF Backward THEN pcS' = "down" /\ d' = dst + cnt /\ sS' = src + cnt
                   ELSE pcS' = "up" /\ UNCHANGED <<d, sS>>
    /\ UNCHANGED <<mem, args, n>>
MoveDown ==
    /\ pcS = "down" /\ n > 0
    /\ d' = d - 1 /\ sS' = sS - 1 /\ n' = n - 1 /\ mem' = [mem EXCEPT ![d'] = mem[sS']]
    /\ UNCHANGED <<pcS, args>>
MoveUp ==
    /\ pcS = "up" /\ n > 0
    /\ mem' = [mem EXCEPT ![d] = mem[sS]] /\ d' = d + 1 /\ sS' = sS + 1 /\ n' = n - 1
    /\ UNCHANGED <<pcS, args>>

ReturnS == pcS \in {"set", "up", "down"} /\ n = 0 /\ pcS' = "done"
           /\ UNCHANGED <<mem, args, d, sS, n>>
DoneS == pcS = "done" /\ UNCHANGED varsS

NextS == Memset \/ SetByte \/ Memmove \/ MoveDown \/ MoveUp \/ ReturnS \/ DoneS
SpecS == InitS /\ [][NextS]_varsS

-----------------------------------------------------------------------------
(* Properties                                                               *)

TypeOKS ==
    /\ pcS \in {"call", "set", "up", "down", "done"} /\ mem \in [Cells -> Cells \cup {FILL}]
    /\ dst \in Cells /\ src \in Cells \cup {FILL} /\ cnt \in 0..Size
    /\ d \in 0..Size /\ sS \in -1..Size /\ n \in 0..Size

\* However source and destination overlap, the destination ends up with the bytes
\* that the source had at the call, and nothing else changes.
MoveKeepsBytes ==
    pcS = "done" =>
        mem = [x \in Cells |-> IF x \notin dst..(dst + cnt - 1) THEN x
                               ELSE IF src = FILL THEN FILL ELSE src + (x - dst)]
=============================================================================
