----------------------------- MODULE AtomicSend -----------------------------
(***************************************************************************)
(* What tunnel.go promises of sendPacket ("session.Send and client.Send    *)
(* happen atomically"): each call takes the next LMID and, in the same     *)
(* step, puts that packet on the wire or loses it.                         *)
(***************************************************************************)
EXTENDS Naturals

VARIABLES
    next,  \* the LMID of the next packet
    wire   \* the LMID of the last packet written, 0 before the first

Init == next = 1 /\ wire = 0

Send == next' = next + 1 /\ wire' \in {wire, next}

Spec == Init /\ [][Send]_<<next, wire>>
=============================================================================
