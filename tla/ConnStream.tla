----------------------------- MODULE ConnStream -----------------------------
(***************************************************************************)
(* The inbound half of one Conn of tunnel.go: the tunnel's reader queues   *)
(* payloads on dataCh or tears the realm down, Conn.Read takes them out    *)
(* through readBuf under a read deadline that may change, and the realm is *)
(* closed by the device, by an overflow or by another goroutine.           *)
(*                                                                         *)
(* The n-th byte the device sends on the realm is the number n.  One       *)
(* goroutine calls Read, as in cmd/dahua-p2p.  A critical section of       *)
(* Conn.mu is one action.                                                  *)
(***************************************************************************)
EXTENDS Naturals, Sequences

CONSTANTS
    Cap,       \* capacity of dataCh
    Lengths,   \* payload lengths
    BufSizes,  \* lengths of the slice given to Read
    MaxBytes   \* bound: bytes the device sends

ASSUME StreamAssumption ==
    /\ Cap \in Nat \ {0} /\ MaxBytes \in Nat
    /\ Lengths \subseteq Nat /\ BufSizes \subseteq Nat \ {0}

VARIABLES
    inRealms,   \* the Conn is in t.realms
    closed,     \* Conn.closed
    closeCh,    \* closeCh is closed
    dataCh,     \* queue of payloads, each a sequence of bytes
    readBuf,
    readDeadline, \* "none", "future" or "past"
    seen,       \* the deadline a waiting Read took with it
    changed,    \* the readDeadlineChanged of that Read is closed
    pc, size,   \* of the goroutine in Read, and the length of its slice
    readerPc,   \* the tunnel's reader
    payload,    \* the payload it holds
    closerPc,   \* Conn.Close or Tunnel.Close by another goroutine
    arrived,    \* bytes that reached the tunnel's reader
    accepted,   \* bytes queued on dataCh
    out,        \* bytes Read returned, in order
    eof         \* Read returned io.EOF

conn == <<inRealms, closed, closeCh>>
deadline == <<readDeadline, seen, changed>>
producer == <<readerPc, payload, arrived, accepted>>
vars == <<conn, dataCh, readBuf, deadline, pc, size, producer, closerPc, out, eof>>

Bytes == 1..MaxBytes
Deadlines == {"none", "future", "past"}

TypeOK ==
    /\ inRealms \in BOOLEAN /\ closed \in BOOLEAN /\ closeCh \in BOOLEAN
    /\ dataCh \in Seq(Seq(Bytes)) /\ Len(dataCh) <= Cap
    /\ readBuf \in Seq(Bytes)
    /\ readDeadline \in Deadlines /\ seen \in Deadlines /\ changed \in BOOLEAN
    /\ pc \in {"idle", "read", "drain", "select"}
    /\ size \in BufSizes \cup {0}
    /\ readerPc \in {"idle", "deliver", "delete", "signal", "closeCh"}
    /\ payload \in Seq(Bytes)
    /\ closerPc \in {"idle", "closeCh", "delete", "done"}
    /\ arrived \in 0..MaxBytes /\ accepted \in 0..MaxBytes
    /\ out \in Seq(Bytes)
    /\ eof \in BOOLEAN

Init ==
    /\ inRealms = TRUE /\ closed = FALSE /\ closeCh = FALSE
    /\ dataCh = <<>> /\ readBuf = <<>>
    /\ readDeadline = "none" /\ seen = "none" /\ changed = FALSE
    /\ pc = "idle" /\ size = 0
    /\ readerPc = "idle" /\ payload = <<>>
    /\ closerPc = "idle"
    /\ arrived = 0 /\ accepted = 0
    /\ out = <<>> /\ eof = FALSE

-----------------------------------------------------------------------------
(* The tunnel's reader *)

(* A payload for this realm, looked up under realmsMu. *)
ReceivePayload(n) ==
    /\ readerPc = "idle"
    /\ arrived + n <= MaxBytes
    /\ arrived' = arrived + n
    /\ IF inRealms
       THEN readerPc' = "deliver" /\ payload' = [i \in 1..n |-> arrived + i]
       ELSE UNCHANGED <<readerPc, payload>>
    /\ UNCHANGED <<conn, dataCh, readBuf, deadline, pc, size, accepted, closerPc, out, eof>>

HasRoom == Len(dataCh) < Cap

DropPayload == readerPc' = "idle"
TearDown == readerPc' = "delete"

(* select { case conn.dataCh <- data: default: tear the realm down } *)
Deliver ==
    /\ readerPc = "deliver"
    /\ IF HasRoom
       THEN /\ dataCh' = Append(dataCh, payload)
            /\ accepted' = accepted + Len(payload)
            /\ readerPc' = "idle"
       ELSE TearDown /\ UNCHANGED <<dataCh, accepted>>
    /\ payload' = <<>>
    /\ UNCHANGED <<conn, readBuf, deadline, pc, size, arrived, closerPc, out, eof>>

ReceiveDisconnect ==
    /\ readerPc = "idle"
    /\ inRealms
    /\ inRealms' = FALSE
    /\ readerPc' = "signal"
    /\ UNCHANGED <<closed, closeCh, dataCh, readBuf, deadline, pc, size, payload, arrived, accepted,
                   closerPc, out, eof>>

ReaderDelete ==
    /\ readerPc = "delete"
    /\ inRealms' = FALSE
    /\ readerPc' = "signal"
    /\ UNCHANGED <<closed, closeCh, dataCh, readBuf, deadline, pc, size, payload, arrived,
                   accepted, closerPc, out, eof>>

(* signalClosed: Conn.closed, then closeCh. *)
ReaderSignal ==
    /\ readerPc = "signal"
    /\ closed' = TRUE
    /\ readerPc' = "closeCh"
    /\ UNCHANGED <<inRealms, closeCh, dataCh, readBuf, deadline, pc, size, payload, arrived,
                   accepted, closerPc, out, eof>>

ReaderCloseCh ==
    /\ readerPc = "closeCh"
    /\ closeCh' = TRUE
    /\ readerPc' = "idle"
    /\ UNCHANGED <<inRealms, closed, dataCh, readBuf, deadline, pc, size, payload, arrived,
                   accepted, closerPc, out, eof>>

-----------------------------------------------------------------------------
(* Conn.Close by another goroutine: it removes the realm last.  With        *)
(* Tunnel.Close the realm leaves the map first, which only shortens the     *)
(* time in which payloads still arrive.                                     *)

StartClose ==
    /\ closerPc = "idle"
    /\ closed' = TRUE
    /\ closerPc' = "closeCh"
    /\ UNCHANGED <<inRealms, closeCh, dataCh, readBuf, deadline, pc, size, producer, out, eof>>

CloserCloseCh ==
    /\ closerPc = "closeCh"
    /\ closeCh' = TRUE
    /\ closerPc' = "delete"
    /\ UNCHANGED <<inRealms, closed, dataCh, readBuf, deadline, pc, size, producer, out, eof>>

CloserDelete ==
    /\ closerPc = "delete"
    /\ inRealms' = FALSE
    /\ closerPc' = "done"
    /\ UNCHANGED <<closed, closeCh, dataCh, readBuf, deadline, pc, size, producer, out, eof>>

-----------------------------------------------------------------------------
(* Conn.Read *)

CallRead(n) ==
    /\ pc = "idle"
    /\ pc' = "read" /\ size' = n
    /\ UNCHANGED <<conn, dataCh, readBuf, deadline, producer, closerPc, out, eof>>

ReturnFromRead == pc' = "idle" /\ size' = 0 /\ seen' = "none" /\ changed' = FALSE

(* Read returns the first bytes of data and keeps the rest in readBuf. *)
Rest(data, n) == SubSeq(data, n + 1, Len(data))

ReturnData(data) ==
    LET n == IF Len(data) < size THEN Len(data) ELSE size
    IN  /\ out' = out \o SubSeq(data, 1, n)
        /\ readBuf' = Rest(data, n)
        /\ ReturnFromRead

(* The top of the loop: buffered bytes first, then a snapshot. *)
ReadBuffered ==
    /\ pc = "read"
    /\ readBuf # <<>>
    /\ ReturnData(readBuf)
    /\ UNCHANGED <<conn, dataCh, readDeadline, producer, closerPc, eof>>

ReadSnapshot ==
    /\ pc = "read"
    /\ readBuf = <<>>
    /\ IF ~closed /\ readDeadline = "past"
       THEN ReturnFromRead
       ELSE /\ pc' = IF closed THEN "drain" ELSE "select"
            /\ seen' = readDeadline
            /\ changed' = FALSE
            /\ UNCHANGED size
    /\ UNCHANGED <<conn, dataCh, readBuf, readDeadline, producer, closerPc, out, eof>>

ReadDrainBlocking ==
    /\ pc = "drain"
    /\ dataCh # <<>>
    /\ ReturnData(Head(dataCh))
    /\ dataCh' = Tail(dataCh)
    /\ UNCHANGED <<conn, readDeadline, producer, closerPc, eof>>

(* The Conn is closed: queued payloads, then EOF. *)
ReadDrain ==
    /\ pc = "drain"
    /\ IF dataCh # <<>>
       THEN ReturnData(Head(dataCh)) /\ dataCh' = Tail(dataCh) /\ UNCHANGED eof
       ELSE ReturnFromRead /\ eof' = TRUE /\ UNCHANGED <<dataCh, readBuf, out>>
    /\ UNCHANGED <<conn, readDeadline, producer, closerPc>>

SelectData ==
    /\ pc = "select"
    /\ dataCh # <<>>
    /\ ReturnData(Head(dataCh))
    /\ dataCh' = Tail(dataCh)
    /\ UNCHANGED <<conn, readDeadline, producer, closerPc, eof>>

SelectClosedEOF ==
    /\ pc = "select"
    /\ closeCh
    /\ ReturnFromRead
    /\ eof' = TRUE
    /\ UNCHANGED <<conn, dataCh, readBuf, readDeadline, producer, closerPc, out>>

(* closeCh only restarts the loop. *)
SelectClosed ==
    /\ pc = "select"
    /\ closeCh
    /\ pc' = "read"
    /\ UNCHANGED <<conn, dataCh, readBuf, deadline, size, producer, closerPc, out, eof>>

SelectChanged ==
    /\ pc = "select"
    /\ changed
    /\ pc' = "read"
    /\ UNCHANGED <<conn, dataCh, readBuf, deadline, size, producer, closerPc, out, eof>>

SelectTimeout ==
    /\ pc = "select"
    /\ seen = "past"
    /\ ReturnFromRead
    /\ UNCHANGED <<conn, dataCh, readBuf, readDeadline, producer, closerPc, out, eof>>

NotifyNobody == FALSE
NotifyReader == pc \in {"drain", "select"}

SetReadDeadline(d) ==
    /\ readDeadline' = d
    /\ changed' = NotifyReader
    /\ UNCHANGED <<conn, dataCh, readBuf, seen, pc, size, producer, closerPc, out, eof>>

(* Time passes a deadline, and the timer of a Read that waits for it. *)
DeadlinePasses ==
    /\ readDeadline = "future" \/ seen = "future"
    /\ readDeadline' = IF readDeadline = "future" THEN "past" ELSE readDeadline
    /\ seen' = IF seen = "future" THEN "past" ELSE seen
    /\ UNCHANGED <<conn, dataCh, readBuf, changed, pc, size, producer, closerPc, out, eof>>

-----------------------------------------------------------------------------
ReadStep ==
    \/ ReadBuffered \/ ReadSnapshot \/ ReadDrain
    \/ SelectData \/ SelectClosed \/ SelectChanged \/ SelectTimeout

ReaderStep == Deliver \/ ReaderDelete \/ ReaderSignal \/ ReaderCloseCh

CloserStep == CloserCloseCh \/ CloserDelete

Next ==
    \/ \E n \in Lengths : ReceivePayload(n)
    \/ ReceiveDisconnect \/ ReaderStep
    \/ StartClose \/ CloserStep
    \/ \E n \in BufSizes : CallRead(n)
    \/ ReadStep
    \/ \E d \in Deadlines : SetReadDeadline(d)
    \/ DeadlinePasses

Spec == Init /\ [][Next]_vars

(* Go's select picks among its ready cases at random, so a ready dataCh is *)
(* not passed over for ever.                                               *)
FairSpec ==
    /\ Spec
    /\ SF_vars(SelectData)
    /\ WF_vars(ReadStep) /\ WF_vars(ReaderStep) /\ WF_vars(CloserStep)

-----------------------------------------------------------------------------
(* Properties *)

(* Read returns the bytes that reached the reader for this realm in order  *)
(* and without a hole, through partial reads, readBuf, an overflow ("a     *)
(* hole in the middle of an RTSP stream is worse than a clean EOF") and    *)
(* close.  What UDP loses before the reader is not retransmitted, and is   *)
(* outside this property.                                                  *)
NoHole == \A i \in 1..Len(out) : out[i] = i

(* A realm the tunnel's reader closed "still yields the bytes already      *)
(* received": EOF comes only after every queued byte was returned.         *)
EofAfterDrain == eof /\ closerPc = "idle" => Len(out) = accepted

(* A Read that waits returns once there is data or the Conn is closed.     *)
WaitingReadWakes ==
    (pc = "select" /\ (dataCh # <<>> \/ closed)) ~> (pc = "idle")

(* A deadline set to the past while Read waits ends that Read, unless the  *)
(* deadline is moved again.                                                *)
DeadlineEndsRead ==
    (pc = "select" /\ readDeadline = "past") ~> (pc = "idle" \/ readDeadline # "past")
=============================================================================
