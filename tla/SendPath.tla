------------------------------ MODULE SendPath ------------------------------
(***************************************************************************)
(* The outbound half of tunnel.go: every goroutine that sends a PTCP       *)
(* packet (Conn.Write, Conn.Close, the heartbeat and Dial, the reader, the *)
(* coalesced ACK, Tunnel.Close), the send permit, the socket's write       *)
(* deadline, and the locks t.mu and ackMu that are held across a send.     *)
(*                                                                         *)
(* Short critical sections (Conn.mu, writeDeadlineMu, realmsMu, the        *)
(* session's own mutex) are single actions.  t.mu is write-held by Close   *)
(* from its first to its last step and ackMu by flushACK from lock to      *)
(* unlock, so both are predicates on the holder's pc.                      *)
(***************************************************************************)
EXTENDS Integers, FiniteSets

CONSTANTS
    Conns,          \* realms of the tunnel; a Conn also names its Write goroutine
    Apps,           \* goroutines that send without a writer: heartbeat, Dial, Conn.Close
    None,           \* zero deadline, no writer
    DiscRetries,    \* discRetries of Conn.Close
    MaxTime,        \* bound: clock ticks
    MaxMsgs,        \* bound: LMIDs after which nobody starts another send
    MaxRecv,        \* bound: packets the reader takes from the socket
    MaxUpdates      \* bound: concurrent SetWriteDeadline calls on one Conn

Daemons == {"reader", "acker", "closer"}
Proc == Conns \cup Apps \cup Daemons

ASSUME ProcAssumption ==
    /\ Conns \cap Apps = {}
    /\ (Conns \cup Apps) \cap (Daemons \cup {None}) = {}
    /\ None \notin Nat
ASSUME BoundAssumption ==
    /\ DiscRetries \in Nat \ {0}
    /\ MaxTime \in Nat /\ MaxMsgs \in Nat /\ MaxRecv \in Nat /\ MaxUpdates \in Nat

VARIABLES
    pc,             \* program counter of each goroutine
    ok,             \* the send in progress has met no error
    packet,         \* the packet between session.Send and the UDP write
    target,         \* the Conn a goroutine is closing
    left,           \* DISCs a goroutine still has to send
    permit,         \* sendPermit holds its token
    activeWriter,   \* t.activeWriter
    sockDeadline,   \* write deadline of the UDP socket
    sockClosed,     \* client.Close() was called
    closed,         \* t.closed, t.done
    realms,         \* Conns in t.realms
    connClosed,     \* Conn.closed, closeCh
    toWake, toDisc, \* realms Close still has to signal, to send a DISC for
    writeDeadline,  \* Conn.writeDeadline
    seen,           \* deadline snapshot of a queued Conn.Write
    changed,        \* the writeDeadlineChanged of that snapshot was closed
    updating,       \* deadlines of SetWriteDeadline calls between their two critical sections
    nextId,         \* session.id
    recv,           \* session.recv, in packets
    owed,           \* session.recv after the last packet that needs an ACK
    wire,           \* LMID of the last packet written to the socket
    wireRecv,       \* Recv field of that packet
    ackPending, ackTimer, sendErrs,
    now

writers == <<writeDeadline, seen, changed, updating>>
session == <<nextId, recv, owed>>
network == <<wire, wireRecv>>
acks == <<ackPending, ackTimer, sendErrs>>
socket == <<activeWriter, sockDeadline, sockClosed>>
closing == <<toWake, toDisc>>
shutdown == <<closed, realms, connClosed, closing>>
vars == <<pc, ok, packet, target, left, permit, socket, shutdown, writers,
          session, network, acks, now>>

Deadlines == {None} \cup 0..MaxTime
Expired(d) == d # None /\ d <= now

PcState == {"idle", "checkTunnel", "acquire", "select", "prepare", "assign", "udp",
            "finish", "release", "wait", "interrupt", "checkClosed", "delete",
            "reading", "schedule", "exited", "lock", "flushed", "stopTimer",
            "wake", "done"}

TypeOK ==
    /\ pc \in [Proc -> PcState]
    /\ ok \in [Proc -> BOOLEAN]
    /\ packet \in [Proc -> [lmid : Nat, recv : Nat]]
    /\ target \in [Proc -> Conns \cup {None}]
    /\ left \in [Proc -> Nat]
    /\ permit \in BOOLEAN
    /\ activeWriter \in Conns \cup {None}
    /\ sockDeadline \in Deadlines
    /\ sockClosed \in BOOLEAN
    /\ closed \in BOOLEAN
    /\ realms \subseteq Conns
    /\ connClosed \in [Conns -> BOOLEAN]
    /\ toWake \subseteq Conns /\ toDisc \subseteq Conns
    /\ writeDeadline \in [Conns -> Deadlines]
    /\ seen \in [Conns -> Deadlines]
    /\ changed \in [Conns -> BOOLEAN]
    /\ updating \in [Conns -> SUBSET Deadlines]
    /\ nextId \in Nat /\ recv \in Nat /\ owed \in Nat
    /\ wire \in Nat /\ wireRecv \in Nat
    /\ ackPending \in BOOLEAN /\ ackTimer \in BOOLEAN
    /\ sendErrs \in 0..1
    /\ now \in 0..MaxTime

NoPacket == [lmid |-> 0, recv |-> 0]

(* LMIDs count from 1 here: 0 is "nothing written yet". *)
Init ==
    /\ pc = [p \in Proc |-> "idle"]
    /\ ok = [p \in Proc |-> TRUE]
    /\ packet = [p \in Proc |-> NoPacket]
    /\ target = [p \in Proc |-> None]
    /\ left = [p \in Proc |-> 0]
    /\ permit = TRUE
    /\ activeWriter = None /\ sockDeadline = None /\ sockClosed = FALSE
    /\ closed = FALSE
    /\ realms = Conns
    /\ connClosed = [c \in Conns |-> FALSE]
    /\ toWake = {} /\ toDisc = {}
    /\ writeDeadline = [c \in Conns |-> None]
    /\ seen = [c \in Conns |-> None]
    /\ changed = [c \in Conns |-> FALSE]
    /\ updating = [c \in Conns |-> {}]
    /\ nextId = 1 /\ recv = 0 /\ owed = 0
    /\ wire = 0 /\ wireRecv = 0
    /\ ackPending = FALSE /\ ackTimer = FALSE /\ sendErrs = 0
    /\ now = 0

Goto(p, label) == pc' = [pc EXCEPT ![p] = label]

(* Close holds t.mu for writing, flushACK holds ackMu. *)
MuHeld == pc["closer"] \notin {"idle", "done"}
AckMuFree == pc["acker"] \notin {"wait", "assign", "udp", "release", "flushed"}

CanStartSend == nextId <= MaxMsgs

-----------------------------------------------------------------------------
(* sendPacketFor *)

TakePermitShared == permit /\ UNCHANGED permit
TakePermit == permit /\ permit' = FALSE

(* acquireSendPermit(nil) waits for the permit and nothing else. *)
AcquireNil(p) ==
    /\ pc[p] = "wait"
    /\ TakePermit
    /\ Goto(p, "assign")
    /\ UNCHANGED <<ok, packet, target, left, socket, shutdown, writers, session,
                   network, acks, now>>

(* One turn of the loop in acquireSendPermit(writer) up to its select. *)
AcquireLoop(c) ==
    /\ pc[c] = "acquire"
    /\ IF connClosed[c] \/ Expired(writeDeadline[c])
       THEN Goto(c, "idle") /\ UNCHANGED <<seen, changed>>
       ELSE /\ seen' = [seen EXCEPT ![c] = writeDeadline[c]]
            /\ changed' = [changed EXCEPT ![c] = FALSE]
            /\ Goto(c, "select")
    /\ UNCHANGED <<ok, packet, target, left, permit, socket, shutdown,
                   writeDeadline, updating, session, network, acks, now>>

(* The select; a permit taken after done closed is put back at once. *)
AcquireSelect(c) ==
    /\ pc[c] = "select"
    /\ \/ /\ connClosed[c] \/ closed \/ Expired(seen[c])
          /\ Goto(c, "idle") /\ UNCHANGED permit
       \/ /\ changed[c]
          /\ Goto(c, "acquire") /\ UNCHANGED permit
       \/ /\ ~closed
          /\ TakePermit
          /\ Goto(c, "prepare")
    /\ seen' = [seen EXCEPT ![c] = None]
    /\ changed' = [changed EXCEPT ![c] = FALSE]
    /\ UNCHANGED <<ok, packet, target, left, socket, shutdown, writeDeadline, updating,
                   session, network, acks, now>>

(* Under writeDeadlineMu: become the active writer with this realm's       *)
(* deadline, or give up.                                                   *)
Prepare(c) ==
    /\ pc[c] = "prepare"
    /\ IF connClosed[c] \/ Expired(writeDeadline[c]) \/ sockClosed
       THEN /\ ok' = [ok EXCEPT ![c] = FALSE]
            /\ Goto(c, "release")
            /\ UNCHANGED <<activeWriter, sockDeadline>>
       ELSE /\ activeWriter' = c
            /\ sockDeadline' = writeDeadline[c]
            /\ Goto(c, "assign")
            /\ UNCHANGED ok
    /\ UNCHANGED <<packet, target, left, permit, sockClosed, shutdown, writers,
                   session, network, acks, now>>

(* session.Send: the header takes the next LMID and the current Recv. *)
SessionSend(p) ==
    /\ pc[p] = "assign"
    /\ packet' = [packet EXCEPT ![p] = [lmid |-> nextId, recv |-> recv]]
    /\ nextId' = nextId + 1
    /\ Goto(p, "udp")
    /\ UNCHANGED <<ok, target, left, permit, socket, shutdown, writers, recv, owed,
                   network, acks, now>>

AfterWrite(p) == IF p \in Conns THEN "finish" ELSE "release"

UdpWrite(p) ==
    /\ pc[p] = "udp"
    /\ ~sockClosed
    /\ wire' = packet[p].lmid
    /\ wireRecv' = packet[p].recv
    /\ packet' = [packet EXCEPT ![p] = NoPacket]
    /\ Goto(p, AfterWrite(p))
    /\ UNCHANGED <<ok, target, left, permit, socket, shutdown, writers, session,
                   acks, now>>

(* The write fails: closed socket, passed deadline, or an error of the OS. *)
UdpError(p) ==
    /\ pc[p] = "udp"
    /\ ok' = [ok EXCEPT ![p] = FALSE]
    /\ packet' = [packet EXCEPT ![p] = NoPacket]
    /\ Goto(p, AfterWrite(p))
    /\ UNCHANGED <<target, left, permit, socket, shutdown, writers, session,
                   network, acks, now>>

FinishKeepingDeadline(c) ==
    /\ pc[c] = "finish"
    /\ activeWriter' = None
    /\ Goto(c, "release")
    /\ UNCHANGED <<ok, packet, target, left, permit, sockDeadline, sockClosed, shutdown,
                   writers, session, network, acks, now>>

(* The inner defer of sendPacketFor. *)
FinishWrite(c) ==
    /\ pc[c] = "finish"
    /\ activeWriter' = None
    /\ sockDeadline' = None
    /\ Goto(c, "release")
    /\ UNCHANGED <<ok, packet, target, left, permit, sockClosed, shutdown, writers,
                   session, network, acks, now>>

(* Where each goroutine continues once its send returned. *)
AfterSend(p) ==
    CASE p \in Conns -> IF ok[p] /\ CanStartSend THEN {"idle", "acquire"} ELSE {"idle"}
      [] p \in Apps -> IF target[p] = None THEN {"idle"}
                       ELSE IF ok[p] /\ left[p] > 1 THEN {"wait"} ELSE {"delete"}
      [] p = "reader" -> IF target[p] = None THEN {"idle"} ELSE {"schedule"}
      [] p = "acker" -> {"flushed"}
      [] p = "closer" -> {"wake"}

ReturnPermitOnSuccess(p) == permit' = ok[p]
(* defer func() { t.sendPermit <- struct{}{} }() *)
ReturnPermit(p) == permit' = TRUE

DiscsLeft(p) == IF left[p] > 0 THEN left[p] - 1 ELSE 0

(* The outer defer returns the token; a Write may have more chunks. *)
Release(p) ==
    /\ pc[p] = "release"
    /\ ReturnPermit(p)
    /\ \E label \in AfterSend(p) : Goto(p, label)
    /\ left' = [left EXCEPT ![p] = DiscsLeft(p)]
    /\ ok' = IF p = "acker" THEN ok ELSE [ok EXCEPT ![p] = TRUE]
    /\ UNCHANGED <<packet, target, socket, shutdown, writers, session, network,
                   acks, now>>

-----------------------------------------------------------------------------
(* Conn.Write and SetWriteDeadline *)

Write(c) ==
    /\ pc[c] = "idle"
    /\ CanStartSend
    /\ ~connClosed[c]
    /\ Goto(c, "checkTunnel")
    /\ UNCHANGED <<ok, packet, target, left, permit, socket, shutdown, writers,
                   session, network, acks, now>>

WriteCheck(c) ==
    /\ pc[c] = "checkTunnel"
    /\ ~MuHeld
    /\ Goto(c, IF closed THEN "idle" ELSE "acquire")
    /\ UNCHANGED <<ok, packet, target, left, permit, socket, shutdown, writers,
                   session, network, acks, now>>

SetWriteDeadline(c, d) ==
    /\ Cardinality(updating[c]) < MaxUpdates
    /\ writeDeadline' = [writeDeadline EXCEPT ![c] = d]
    /\ changed' = [changed EXCEPT ![c] = (pc[c] = "select")]
    /\ updating' = [updating EXCEPT ![c] = @ \cup {d}]
    /\ UNCHANGED <<pc, ok, packet, target, left, permit, socket, shutdown, seen,
                   session, network, acks, now>>

MayUpdateAnyone(c) == ~connClosed[c]
MayUpdateClosed(c) == activeWriter = c
MayUpdate(c) == ~connClosed[c] /\ activeWriter = c

UpdateWriteDeadline(c, d) ==
    /\ d \in updating[c]
    /\ updating' = [updating EXCEPT ![c] = @ \ {d}]
    /\ sockDeadline' = IF MayUpdate(c) THEN d ELSE sockDeadline
    /\ UNCHANGED <<pc, ok, packet, target, left, permit, activeWriter, sockClosed,
                   shutdown, writeDeadline, seen, changed, session, network, acks, now>>

-----------------------------------------------------------------------------
(* signalClosed and Conn.Close *)

NoInterrupt(p) == UNCHANGED sockDeadline
InterruptWrite(p) ==
    sockDeadline' = IF activeWriter = target[p] THEN now ELSE sockDeadline

(* The second half of signalClosed, after Conn.closed and closeCh are set. *)
Interrupt(p) ==
    /\ pc[p] = "interrupt"
    /\ InterruptWrite(p)
    /\ target' = IF left[p] > 0 THEN target ELSE [target EXCEPT ![p] = None]
    /\ Goto(p, CASE p = "closer" -> "wake"
                 [] p = "reader" -> IF left[p] > 0 THEN "wait" ELSE "schedule"
                 [] OTHER -> IF left[p] > 0 THEN "checkClosed" ELSE "idle")
    /\ UNCHANGED <<ok, packet, left, permit, activeWriter, sockClosed, shutdown,
                   writers, session, network, acks, now>>

ConnClose(a, c) ==
    /\ pc[a] = "idle"
    /\ CanStartSend
    /\ target' = [target EXCEPT ![a] = c]
    /\ left' = [left EXCEPT ![a] = IF connClosed[c] THEN 0 ELSE DiscRetries]
    /\ connClosed' = [connClosed EXCEPT ![c] = TRUE]
    /\ Goto(a, "interrupt")
    /\ UNCHANGED <<ok, packet, permit, socket, closed, realms, closing, writers, session,
                   network, acks, now>>

ConnCloseCheck(a) ==
    /\ pc[a] = "checkClosed"
    /\ ~MuHeld
    /\ Goto(a, IF closed THEN "delete" ELSE "wait")
    /\ UNCHANGED <<ok, packet, target, left, permit, socket, shutdown, writers,
                   session, network, acks, now>>

ConnCloseDelete(a) ==
    /\ pc[a] = "delete"
    /\ realms' = realms \ {target[a]}
    /\ target' = [target EXCEPT ![a] = None]
    /\ left' = [left EXCEPT ![a] = 0]
    /\ Goto(a, "idle")
    /\ UNCHANGED <<ok, packet, permit, socket, closed, connClosed, closing, writers,
                   session, network, acks, now>>

(* sendHeartbeat and Dial: check t.closed, then sendPacket. *)
SendNil(a) ==
    /\ pc[a] = "idle"
    /\ CanStartSend
    /\ ~MuHeld /\ ~closed
    /\ target' = [target EXCEPT ![a] = None]
    /\ Goto(a, "wait")
    /\ UNCHANGED <<ok, packet, left, permit, socket, shutdown, writers, session,
                   network, acks, now>>

-----------------------------------------------------------------------------
(* reader and scheduleACK *)

(* The top of the loop, and a ReadRaw that timed out or failed. *)
ReaderLoop ==
    /\ \/ /\ pc["reader"] = "idle"
          /\ Goto("reader", IF closed THEN "exited" ELSE "reading")
       \/ /\ pc["reader"] = "reading"
          /\ Goto("reader", "idle")
    /\ UNCHANGED <<ok, packet, target, left, permit, socket, shutdown, writers,
                   session, network, acks, now>>

Receives ==
    /\ pc["reader"] = "reading"
    /\ ~sockClosed
    /\ recv < MaxRecv
    /\ recv' = recv + 1
    /\ UNCHANGED <<ok, packet, permit, socket, closed, closing, writers, nextId, network,
                   acks, now>>

(* Empty and unhandled bodies are not acknowledged; SYNC is answered. *)
ReceiveUnacked ==
    /\ Receives
    /\ \E label \in {"idle", "wait"} : Goto("reader", label)
    /\ target' = [target EXCEPT !["reader"] = None]
    /\ UNCHANGED <<left, realms, connClosed, owed>>

(* Heartbeats, CONN, payloads that fit their dataCh, unknown realms. *)
ReceiveAcked ==
    /\ Receives
    /\ owed' = recv'
    /\ Goto("reader", "schedule")
    /\ UNCHANGED <<target, left, realms, connClosed>>

(* DISC from the device (no answer), or a payload for a full dataCh, which *)
(* tears the realm down and tells the device (one DISC).                   *)
ReceiveTeardown(c) ==
    /\ Receives
    /\ c \in realms
    /\ owed' = recv'
    /\ realms' = realms \ {c}
    /\ connClosed' = [connClosed EXCEPT ![c] = TRUE]
    /\ target' = [target EXCEPT !["reader"] = c]
    /\ \E discs \in 0..1 : left' = [left EXCEPT !["reader"] = discs]
    /\ Goto("reader", "interrupt")

(* A pending ACK already has its timer; otherwise time.AfterFunc arms one. *)
ArmAckOnce == ackTimer
ArmAck == ackTimer \/ ~ackPending

ScheduleACK ==
    /\ pc["reader"] = "schedule"
    /\ AckMuFree
    /\ ackPending' = TRUE
    /\ ackTimer' = ArmAck
    /\ target' = [target EXCEPT !["reader"] = None]
    /\ Goto("reader", "idle")
    /\ UNCHANGED <<ok, packet, left, permit, socket, shutdown, writers,
                   session, network, sendErrs, now>>

-----------------------------------------------------------------------------
(* flushACK *)

AckTimerFires ==
    /\ ackTimer
    /\ pc["acker"] = "idle"
    /\ ackTimer' = FALSE
    /\ Goto("acker", "lock")
    /\ UNCHANGED <<ok, packet, target, left, permit, socket, shutdown, writers,
                   session, network, ackPending, sendErrs, now>>

FlushACK ==
    /\ pc["acker"] = "lock"
    /\ Goto("acker", "wait")
    /\ UNCHANGED <<ok, packet, target, left, permit, socket, shutdown, writers,
                   session, network, acks, now>>

(* consecutiveSendErrs is kept as zero or not zero: the Close it leads to  *)
(* is one of the callers of Close below.                                   *)
FlushDone ==
    /\ pc["acker"] = "flushed"
    /\ sendErrs' = IF ok["acker"] THEN 0 ELSE 1
    /\ ok' = [ok EXCEPT !["acker"] = TRUE]
    /\ ackPending' = FALSE
    /\ Goto("acker", "idle")
    /\ UNCHANGED <<packet, target, left, permit, socket, shutdown, writers,
                   session, network, ackTimer, now>>

-----------------------------------------------------------------------------
(* Tunnel.Close, by its first caller; later callers find t.closed and      *)
(* return.  It may be called at any time: by the application, the reader,  *)
(* the heartbeat or flushACK.                                              *)

Close ==
    /\ pc["closer"] = "idle"
    /\ closed' = TRUE
    /\ Goto("closer", "stopTimer")
    /\ UNCHANGED <<ok, packet, target, left, permit, socket, realms, connClosed,
                   closing, writers, session, network, acks, now>>

(* Stop the ACK timer under ackMu, then take the realms map. *)
StopAckTimer ==
    /\ pc["closer"] = "stopTimer"
    /\ AckMuFree
    /\ ackTimer' = FALSE
    /\ toWake' = realms /\ toDisc' = realms
    /\ realms' = {}
    /\ Goto("closer", "wake")
    /\ UNCHANGED <<ok, packet, target, left, permit, socket, closed, connClosed, writers,
                   session, network, ackPending, sendErrs, now>>

WakeRealm(c) ==
    /\ pc["closer"] = "wake"
    /\ c \in toWake
    /\ toWake' = toWake \ {c}
    /\ connClosed' = [connClosed EXCEPT ![c] = TRUE]
    /\ target' = [target EXCEPT !["closer"] = c]
    /\ Goto("closer", "interrupt")
    /\ UNCHANGED <<ok, packet, left, permit, socket, closed, realms, toDisc, writers,
                   session, network, acks, now>>

DiscAnyTime == TRUE
AllAwake == toWake = {}

DiscRealm(c) ==
    /\ pc["closer"] = "wake"
    /\ AllAwake
    /\ c \in toDisc
    /\ toDisc' = toDisc \ {c}
    /\ Goto("closer", "wait")
    /\ UNCHANGED <<ok, packet, target, left, permit, socket, closed, realms, connClosed,
                   toWake, writers, session, network, acks, now>>

(* client.Close(), t.mu.Unlock() and the OnClose callback. *)
CloseSocket ==
    /\ pc["closer"] = "wake"
    /\ toWake = {} /\ toDisc = {}
    /\ sockClosed' = TRUE
    /\ Goto("closer", "done")
    /\ UNCHANGED <<ok, packet, target, left, permit, activeWriter, sockDeadline, shutdown,
                   writers, session, network, acks, now>>

Tick ==
    /\ now < MaxTime
    /\ now' = now + 1
    /\ UNCHANGED <<pc, ok, packet, target, left, permit, socket, shutdown, writers,
                   session, network, acks>>

-----------------------------------------------------------------------------
SendStep(p) ==
    AcquireNil(p) \/ SessionSend(p) \/ UdpWrite(p) \/ UdpError(p) \/ Release(p)

WriterStep(c) ==
    \/ Write(c) \/ WriteCheck(c) \/ AcquireLoop(c) \/ AcquireSelect(c)
    \/ Prepare(c) \/ FinishWrite(c)
    \/ \E d \in Deadlines : SetWriteDeadline(c, d) \/ UpdateWriteDeadline(c, d)

AppStep(a) ==
    \/ SendNil(a)
    \/ \E c \in Conns : ConnClose(a, c)
    \/ ConnCloseCheck(a) \/ ConnCloseDelete(a)

ReaderStep ==
    \/ ReaderLoop \/ ReceiveUnacked \/ ReceiveAcked \/ ScheduleACK
    \/ \E c \in Conns : ReceiveTeardown(c)

AckerStep == AckTimerFires \/ FlushACK \/ FlushDone

CloserStep ==
    \/ Close \/ StopAckTimer \/ CloseSocket
    \/ \E c \in Conns : WakeRealm(c) \/ DiscRealm(c)

Next ==
    \/ \E p \in Proc : SendStep(p) \/ Interrupt(p)
    \/ \E c \in Conns : WriterStep(c)
    \/ \E a \in Apps : AppStep(a)
    \/ ReaderStep \/ AckerStep \/ CloserStep
    \/ Tick

Spec == Init /\ [][Next]_vars

(* The steps a goroutine takes without waiting for a caller.  A realm's    *)
(* UDP write may block (and hold the permit) until its deadline passes or  *)
(* the socket is closed; the short packets of the others are written.      *)
Running(p) ==
    \/ AcquireNil(p) \/ SessionSend(p) \/ Release(p) \/ Interrupt(p)
    \/ p \notin Conns /\ UdpWrite(p)
    \/ (Expired(sockDeadline) \/ sockClosed) /\ UdpError(p)

WriterRunning(c) ==
    \/ Running(c) \/ WriteCheck(c) \/ AcquireLoop(c) \/ AcquireSelect(c)
    \/ Prepare(c) \/ FinishWrite(c)

AppRunning(a) == Running(a) \/ ConnCloseCheck(a) \/ ConnCloseDelete(a)

CloserRunning ==
    \/ Running("closer") \/ StopAckTimer \/ CloseSocket
    \/ \E c \in Conns : WakeRealm(c) \/ DiscRealm(c)

(* Strong fairness: a goroutine queued on a mutex or on the permit channel *)
(* is served in turn, so it is not overtaken for ever.  Of a Write no more *)
(* is needed than that it goes on when nothing stops it.                   *)
Fairness ==
    /\ \A c \in Conns :
        WF_vars(WriterRunning(c)) /\ WF_vars(\E d \in Deadlines : UpdateWriteDeadline(c, d))
    /\ \A a \in Apps : SF_vars(AppRunning(a))
    /\ SF_vars(Running("reader") \/ ScheduleACK)
    /\ SF_vars(Running("acker") \/ AckerStep)
    /\ SF_vars(CloserRunning)

FairSpec == Spec /\ Fairness

-----------------------------------------------------------------------------
(* Properties *)

Holding(p) == pc[p] \in {"prepare", "assign", "udp", "finish", "release"}

(* The permit is a lock that is never lost: its token is away exactly while*)
(* one goroutine is between acquireSendPermit and the deferred return,     *)
(* on every path out of sendPacketFor.                                     *)
PermitConserved ==
    /\ permit <=> \A p \in Proc : ~Holding(p)
    /\ \A p, q \in Proc : Holding(p) /\ Holding(q) => p = q

(* Packets reach the socket in the order their LMIDs were assigned, and no *)
(* LMID is written twice ("Send order must match LMID order").             *)
SendOrder == [][network' # network => wire' > wire]_vars

(* A packet sent for nobody (heartbeat, ACK, BIND, DISC, SYNC) never runs  *)
(* under a realm's write deadline, not even one left by an interrupted or  *)
(* timed-out write.                                                        *)
NoForeignDeadline ==
    \A p \in Proc \ Conns : pc[p] = "udp" => sockDeadline = None /\ activeWriter = None

(* The realm that owns the UDP write runs under its own current deadline,  *)
(* however SetWriteDeadline interleaves with the start of the write.       *)
OwnDeadline ==
    \A c \in Conns :
        pc[c] \in {"assign", "udp"} /\ ~connClosed[c] /\ updating[c] = {}
            => sockDeadline = writeDeadline[c]

(* A realm closed while it owns the UDP write has an expired socket        *)
(* deadline once signalClosed returned, and no later SetWriteDeadline      *)
(* revives the write.                                                      *)
InterruptSticks ==
    \A c \in Conns :
        /\ pc[c] \in {"assign", "udp"}
        /\ connClosed[c]
        /\ ~\E p \in Proc : pc[p] = "interrupt" /\ target[p] = c
        => Expired(sockDeadline)

(* Coalescing loses no acknowledgement: with no ACK pending and no failed  *)
(* flush, the last packet written reports every byte that asked for one.   *)
AckCovered ==
    ~ackPending /\ sendErrs = 0 /\ pc["reader"] \in {"idle", "reading", "exited"}
        => wireRecv >= owed

(* Tunnel.Close runs to its end, and t.mu, which it holds all the time, is *)
(* free again ("Wake every realm first. A realm can own sendPermit in a    *)
(* blocked write").                                                        *)
CloseCompletes == []<>~MuHeld

(* No realm's UDP write blocks for ever. *)
WritesEnd == \A c \in Conns : []<>(pc[c] # "udp")

(* Tunnel.Close runs to its end although a realm that owns the permit may  *)
(* be blocked in its write, as long as no flush of an ACK hangs.           *)
CloseWakesWriters == []<>(pc["acker"] = "idle") => CloseCompletes

(* Its realm was closed, and the Write is still under way. *)
Unnoticed(c) == connClosed[c] /\ pc[c] # "idle"

(* A Write on a realm that was closed returns from the queue for the       *)
(* permit and from its UDP write, even if the writes of other realms block *)
(* for ever.  Before that, in IsClosed, it may have to wait for t.mu while *)
(* Tunnel.Close holds it; it returns from there too if realm writes end.   *)
ClosedWriterReturns ==
    /\ []<>(\A c \in Conns : Unnoticed(c) => pc[c] = "checkTunnel" /\ MuHeld)
    /\ WritesEnd => []<>(\A c \in Conns : ~Unnoticed(c))

(* While realm writes end, a pending ACK is flushed unless the tunnel      *)
(* closes first.                                                           *)
AckFlushed == WritesEnd => []<>(~ackPending \/ closed)

-----------------------------------------------------------------------------
(* The send path implements AtomicSend: an LMID counts as taken when its   *)
(* UDP write returns.                                                      *)
Atomic == INSTANCE AtomicSend WITH
    next <- IF \E p \in Proc : pc[p] = "udp" THEN nextId - 1 ELSE nextId,
    wire <- wire

(* Whatever the goroutines do, the socket sees a sequence of atomic sends. *)
ImplementsAtomicSend == Atomic!Spec
=============================================================================
