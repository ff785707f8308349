----------------------------- MODULE BlockDevice ----------------------------
(***************************************************************************)
(* What virtio_disk_rw promises its callers: between the call and the      *)
(* return the sector is read into, or written from, the caller's buffer,   *)
(* once and in one piece.                                                  *)
(***************************************************************************)
CONSTANTS Callers, Sectors, Values
VARIABLES
    phase,      \* per caller: "idle", "asked" or "served"
    request,    \* per caller: the sector and the direction
    buffer,     \* per caller: its buffer's content
    store       \* the disk's content

vars == <<phase, request, buffer, store>>

Init ==
    /\ phase = [c \in Callers |-> "idle"]
    /\ request \in [Callers -> [sector : Sectors, write : BOOLEAN]]
    /\ buffer \in [Callers -> Values] /\ store \in [Sectors -> Values]

Ask(c) ==
    /\ phase[c] = "idle" /\ phase' = [phase EXCEPT ![c] = "asked"]
    /\ \E r \in [sector : Sectors, write : BOOLEAN], v \in Values :
        request' = [request EXCEPT ![c] = r] /\ buffer' = [buffer EXCEPT ![c] = v]
    /\ UNCHANGED store

Serve(c) ==
    LET s == request[c].sector
    IN  /\ phase[c] = "asked" /\ phase' = [phase EXCEPT ![c] = "served"]
        /\ IF request[c].write
           THEN store' = [store EXCEPT ![s] = buffer[c]] /\ UNCHANGED buffer
           ELSE buffer' = [buffer EXCEPT ![c] = store[s]] /\ UNCHANGED store
        /\ UNCHANGED request

Return(c) ==
    /\ phase[c] = "served" /\ phase' = [phase EXCEPT ![c] = "idle"]
    /\ UNCHANGED <<request, buffer, store>>

Next == \E c \in Callers : Ask(c) \/ Serve(c) \/ Return(c)

Spec == Init /\ [][Next]_vars
=============================================================================
