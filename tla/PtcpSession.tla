----------------------------- MODULE PtcpSession -----------------------------
(***************************************************************************)
(* ptcp/session.go: the counters of a PTCP session, the PIDs it gives out, *)
(* and the loss estimates of Stats, with counters that wrap.  The device   *)
(* (external) counts the bytes it sends and consumes without wrapping; its *)
(* packets arrive in order and may be lost.                                *)
(***************************************************************************)
EXTENDS Framing

CONSTANTS
    Half,      \* half the range of a counter (2^31)
    PidRange,  \* the range of the PID counter (2^16)
    Bodies,    \* bodies we send
    Wires,     \* bodies the device sends, as bytes
    MaxMsgs,   \* bound: packets we send
    MaxIn,     \* bound: packets the device sends
    MaxFlight  \* bound: packets of the device under way

ASSUME WidthAssumption ==
    /\ Half \in Nat \ {0} /\ PidRange \in Nat \ {0} /\ (2 * Half) % PidRange = 0
    /\ MaxMsgs \in Nat /\ MaxIn \in Nat /\ MaxFlight \in Nat

ASSUME BodiesAssumption ==
    /\ \A b \in Bodies : Sendable(b)
    /\ \A w \in Wires : w \in Seq(Bytes)

VARIABLES
    sent, recv, count, id, rmid, peerSent, peerRecv, peerRMID, \* Session
    pids,        \* PIDs of the non-SYNC packets, oldest first
    out,         \* the last body we sent, and its bytes
    totalSent,   \* body bytes we sent, not wrapped
    totalMsgs,   \* packets we sent
    device,      \* what the device has sent and consumed, not wrapped
    flight,      \* packets from the device that are under way
    lost,        \* bytes of its packets that were lost before the last one we received
    uncounted,   \* bytes of the packets we received that recv does not count
    last         \* the last packet received

session == <<sent, recv, count, id, rmid, peerSent, peerRecv, peerRMID>>
ours == <<pids, out, totalSent, totalMsgs>>
theirs == <<device, flight>>
vars == <<session, ours, theirs, lost, uncounted, last>>

Modulus == 2 * Half
Wrap(n) == n % Modulus

NoMessage == [sent |-> 0, recv |-> 0, lmid |-> 0, rmid |-> 0, wire |-> <<>>]

Init ==
    /\ sent = 0 /\ recv = 0 /\ count = 0 /\ id = 0 /\ rmid = 0
    /\ peerSent = 0 /\ peerRecv = 0 /\ peerRMID = 0
    /\ pids = <<>>
    /\ out = [body |-> NewEmptyBody, wire |-> <<>>]
    /\ totalSent = 0 /\ totalMsgs = 0
    /\ device = [sent |-> 0, consumed |-> 0, msgs |-> 0, seen |-> 0]
    /\ flight = <<>>
    /\ lost = 0 /\ uncounted = 0
    /\ last = NoMessage

-----------------------------------------------------------------------------
(* Session.Send *)

(* 0xFFFF - (count & 0xFFFF) *)
Pid == (PidRange - 1) - (count % PidRange)

CountTwice(b) == IF b.type = "sync" THEN count ELSE Wrap(count + 2)
NextCount(b) == IF b.type = "sync" THEN count ELSE Wrap(count + 1)

AddSent(b) == Wrap(sent + BodyLen(b))

(* Send, and Packet.Serialize of what it returns. *)
Send(b) ==
    /\ totalMsgs < MaxMsgs
    /\ pids' = IF b.type = "sync" THEN pids ELSE Append(pids, Pid)
    /\ sent' = AddSent(b)
    /\ id' = Wrap(id + 1)
    /\ count' = NextCount(b)
    /\ out' = [body |-> b, wire |-> Serialize(b)]
    /\ totalSent' = totalSent + Len(Serialize(b))
    /\ totalMsgs' = totalMsgs + 1
    /\ UNCHANGED <<recv, rmid, peerSent, peerRecv, peerRMID, theirs, lost, uncounted, last>>

AddRecv(b) == Wrap(recv + BodyLen(b))

(* ParsePacket and Session.Recv of the oldest packet under way; one that   *)
(* does not parse is dropped.                                              *)
Recv ==
    /\ flight # <<>>
    /\ LET packet == Head(flight)
           body == ParseBody(packet.wire)
       IN  /\ body # Invalid
           /\ recv' = AddRecv(body)
           /\ rmid' = Wrap(packet.lmid)
           /\ peerSent' = Wrap(packet.sent)
           /\ peerRecv' = Wrap(packet.recv)
           /\ peerRMID' = Wrap(packet.rmid)
           /\ lost' = lost + (packet.sent - (last.sent + Len(last.wire)))
           /\ uncounted' = uncounted + (Len(packet.wire) - BodyLen(body))
           /\ last' = packet
    /\ flight' = Tail(flight)
    /\ UNCHANGED <<sent, count, id, ours, device>>

(* Stats: subtraction of two wrapping counters, read as a signed number. *)
DeltaUnsigned(a, b) == Wrap(a - b)
Delta(a, b) ==
    LET d == Wrap(a - b) IN IF d >= Half THEN d - Modulus ELSE d

OutBytes == Delta(sent, peerRecv)
OutMsgs == Delta(id, peerRMID)
InBytes == Delta(peerSent, recv)

-----------------------------------------------------------------------------
(* The device and the network *)

DeviceConsumes ==
    /\ device.seen < totalMsgs \/ device.consumed < totalSent
    /\ device' = [device EXCEPT !.consumed = totalSent, !.seen = totalMsgs]
    /\ UNCHANGED <<session, ours, flight, lost, uncounted, last>>

(* Like ours, its headers hold the counters from before the packet. *)
DeviceSends(w) ==
    /\ device.msgs < MaxIn /\ Len(flight) < MaxFlight
    /\ flight' = Append(flight, [sent |-> device.sent, recv |-> device.consumed,
                                 lmid |-> device.msgs, rmid |-> device.seen, wire |-> w])
    /\ device' = [device EXCEPT !.sent = @ + Len(w), !.msgs = @ + 1]
    /\ UNCHANGED <<session, ours, lost, uncounted, last>>

(* Lost on the way, or unparseable. *)
Lose ==
    /\ flight # <<>>
    /\ flight' = Tail(flight)
    /\ UNCHANGED <<session, ours, device, lost, uncounted, last>>

Next ==
    \/ \E b \in Bodies : Send(b)
    \/ Recv
    \/ DeviceConsumes
    \/ \E w \in Wires : DeviceSends(w)
    \/ Lose

Spec == Init /\ [][Next]_vars

-----------------------------------------------------------------------------
(* Properties *)

InRange(n) == n \in -Half .. Half - 1

(* The estimates that reportLoss and the stall check read are exact across *)
(* the wrap of every counter, while they fit half a counter's range.       *)
(* OutBytes is our data the device had not acknowledged when it sent the   *)
(* last packet we received, OutMsgs the same in messages.  InBytes is what *)
(* was lost on the way to us less the packet being read, plus what recv    *)
(* never counts: the end of a body that is longer than its parsed form,    *)
(* such as the NULs after a status.                                        *)
LossEstimatesExact ==
    LET unacked == totalSent - last.recv
        lag == totalMsgs - last.rmid
        missing == lost - Len(last.wire) + uncounted
    IN  /\ InRange(unacked) => OutBytes = unacked
        /\ InRange(lag) => OutMsgs = lag
        /\ InRange(missing) => InBytes = missing

(* Whoever parses our packets as we do reads the body we sent: no type,    *)
(* realm, port or data is confused with another by the framing.            *)
WireFaithful == ParseBody(out.wire) = out.body

(* The device discards a PID it knows; among any PidRange consecutive      *)
(* non-SYNC packets no PID occurs twice.                                   *)
PidsDistinctInWindow ==
    \A i, j \in DOMAIN pids : i < j /\ j - i < PidRange => pids[i] # pids[j]

=============================================================================
