------------------------------ MODULE Watchdog ------------------------------
(***************************************************************************)
(* The health checks of tunnel.go: the heartbeat that counts unanswered    *)
(* rounds and watches whether the device still consumes our bytes.  Time   *)
(* counts heartbeat periods (5 s); every body is one byte long; the        *)
(* device's reports of what it consumed arrive in order and may be late,   *)
(* also between the steps of a heartbeat.                                  *)
(***************************************************************************)
EXTENDS Integers

CONSTANTS
    StallTimeout, \* outboundStallTimeout in heartbeat periods (4)
    MaxMissed,    \* maxMissedHeartbeats (24)
    MaxTime,      \* bound: heartbeat periods
    MaxSent,      \* bound: packets other than heartbeats
    None          \* the zero time

ASSUME WatchdogAssumption ==
    /\ StallTimeout \in Nat /\ MaxMissed \in Nat /\ MaxTime \in Nat /\ MaxSent \in Nat
    /\ MaxMissed >= StallTimeout + 3
    /\ None \notin Nat

VARIABLES
    now,
    heartbeat,     \* where sendHeartbeat is in this period
    sent,          \* session.sent
    others,        \* packets sent that are not heartbeats
    consumed,      \* bytes the device has consumed
    peerRecv,      \* session.peerRecv
    missed,        \* missedHeartbeats
    lastDrain, lastDrainTime,
    closedFor,     \* why the heartbeat closed the tunnel
    lastPacket,    \* when the last packet arrived
    lastProgress   \* when the device last reported that it consumed more

drain == <<lastDrain, lastDrainTime>>
watchVars == <<now, heartbeat, sent, others, consumed, peerRecv, missed, drain, closedFor,
               lastPacket, lastProgress>>

WatchTypeOK ==
    /\ now \in 0..MaxTime /\ heartbeat \in {"due", "send", "check", "done"}
    /\ sent \in Nat /\ others \in 0..MaxSent
    /\ consumed \in 0..sent /\ peerRecv \in 0..consumed
    /\ missed \in Nat
    /\ lastDrain \in Nat /\ lastDrainTime \in Nat \cup {None}
    /\ closedFor \in {"open", "stall", "missed"}
    /\ lastPacket \in 0..now /\ lastProgress \in 0..now

WatchInit ==
    /\ now = 0 /\ heartbeat = "due"
    /\ sent = 0 /\ others = 0 /\ consumed = 0 /\ peerRecv = 0
    /\ missed = 0
    /\ lastDrain = 0 /\ lastDrainTime = None
    /\ closedFor = "open"
    /\ lastPacket = 0 /\ lastProgress = 0

-----------------------------------------------------------------------------
(* time.Since(lastDrainTime) > outboundStallTimeout: two heartbeats that    *)
(* are StallTimeout periods apart are a moment more or less apart in time.  *)
StalledAtOnce == TRUE
MayBeStalled == now - lastDrainTime >= StallTimeout
StalledLate == now - lastDrainTime > StallTimeout + MaxMissed
Stalled == now - lastDrainTime > StallTimeout

TooManyMissed == missed' > MaxMissed

Close(reason) == closedFor' = reason

(* sendHeartbeat *)
CountMissed ==
    /\ closedFor = "open"
    /\ heartbeat = "due"
    /\ missed' = missed + 1
    /\ IF TooManyMissed
       THEN Close("missed") /\ heartbeat' = "done"
       ELSE heartbeat' = "send" /\ UNCHANGED closedFor
    /\ UNCHANGED <<now, sent, others, consumed, peerRecv, drain, lastPacket, lastProgress>>

(* session.Send counts the heartbeat even if the write fails. *)
SendHeartbeat ==
    /\ heartbeat = "send"
    /\ sent' = sent + 1
    /\ heartbeat' = "check"
    /\ UNCHANGED <<now, others, consumed, peerRecv, missed, drain, closedFor, lastPacket,
                   lastProgress>>

OutboundStalled ==
    /\ heartbeat = "check"
    /\ heartbeat' = "done"
    /\ IF sent <= peerRecv \/ peerRecv # lastDrain
       THEN /\ lastDrain' = peerRecv
            /\ lastDrainTime' = now
            /\ UNCHANGED closedFor
       ELSE IF lastDrainTime = None
       THEN lastDrainTime' = now /\ UNCHANGED <<lastDrain, closedFor>>
       ELSE /\ UNCHANGED drain
            /\ \/ MayBeStalled /\ Close("stall")
               \/ ~Stalled /\ UNCHANGED closedFor
    /\ UNCHANGED <<now, sent, others, consumed, peerRecv, missed, lastPacket, lastProgress>>

(* Conn.Write, Dial, ACKs *)
SendOther ==
    /\ closedFor = "open"
    /\ others < MaxSent
    /\ sent' = sent + 1
    /\ others' = others + 1
    /\ UNCHANGED <<now, heartbeat, consumed, peerRecv, missed, drain, closedFor, lastPacket,
                   lastProgress>>

(* ackHeartbeat and session.Recv; the packet reports n bytes consumed. *)
ReceivePacket(n) ==
    /\ closedFor = "open"
    /\ n \in peerRecv..consumed
    /\ peerRecv' = n
    /\ missed' = 0
    /\ lastPacket' = now
    /\ lastProgress' = IF n # peerRecv THEN now ELSE lastProgress
    /\ UNCHANGED <<now, heartbeat, sent, others, consumed, drain, closedFor>>

DeviceConsumes(n) ==
    /\ n \in consumed + 1..sent
    /\ consumed' = n
    /\ UNCHANGED <<now, heartbeat, sent, others, peerRecv, missed, drain, closedFor, lastPacket,
                   lastProgress>>

(* The ticker: no period ends before its heartbeat ran, so no send blocks   *)
(* for a whole period.                                                      *)
Tick ==
    /\ closedFor = "open"
    /\ heartbeat = "done"
    /\ now < MaxTime
    /\ now' = now + 1
    /\ heartbeat' = "due"
    /\ UNCHANGED <<sent, others, consumed, peerRecv, missed, drain, closedFor, lastPacket,
                   lastProgress>>

WatchNext ==
    \/ CountMissed \/ SendHeartbeat \/ OutboundStalled \/ SendOther
    \/ \E n \in 0..sent : ReceivePacket(n) \/ DeviceConsumes(n)
    \/ Tick

WatchSpec == WatchInit /\ [][WatchNext]_watchVars

-----------------------------------------------------------------------------
(* Properties *)

(* A device that keeps consuming is never taken for a stalled one: the     *)
(* stall check closes only after StallTimeout without progress.            *)
NoFalseStall == closedFor = "stall" => now - lastProgress >= StallTimeout

(* A device that stops consuming is noticed: the tunnel never stays open   *)
(* past a heartbeat more than StallTimeout + 1 periods after the last      *)
(* reported progress.                                                      *)
StallNoticed ==
    closedFor = "open" /\ heartbeat = "done" => now - lastProgress <= StallTimeout + 1

(* The stall check makes the count of missed heartbeats a second line of   *)
(* defence: a device silent for MaxMissed periods has stopped consuming    *)
(* long before, so the count never passes StallTimeout + 3.                *)
MissedBounded == missed <= StallTimeout + 3 /\ closedFor # "missed"
=============================================================================
