# A TLA+ verification of dahua-p2p

`dahua-p2p` reaches a Dahua camera through the vendor's P2P cloud, multiplexes
connections ("realms") over one UDP tunnel, shares tunnels in a pool and serves
them to ordinary RTSP clients. The code is small, and nearly everything that is
hard about it is concurrency: six kinds of goroutine send on one socket, timers
race with reuse, a reader serves all realms, and shutdown has to wake everyone.
This directory models that, checks it with TLC on small instances and proves
its safety properties with TLAPS for all sizes.

Line numbers are those of the sources as mapped in `PROJECT.json` (`map`).

## Inventory

| Part | Source | Modelled by | Hard because |
|---|---|---|---|
| Session manager (tunnel pool) | `src/dahua.go` 224-501 | `SessionManager` | reservations, idle timers and dying tunnels race under one mutex |
| Client.Dial, negotiate lock | `src/dahua.go` 100-222 | `Realms`, `Bridge` | decisions on a failure count that others reset; a lock that is a channel |
| Tunnel: sending, ACKs, Close | `src/tunnel/tunnel.go` 205-395, 664-702, 846-1040 | `SendPath`, `AtomicSend` | one socket, one permit, one write deadline for all realms; locks held across a send |
| Tunnel: realms | `tunnel.go` 347-393, 542-660, 704-846, 969-1000 | `Realms` | two maps, late CONNs, Close against Dial |
| Tunnel: inbound stream | `tunnel.go` 542-660, 870-965 | `ConnStream` | bounded queue, EOF after drain, deadlines that move |
| Tunnel: health checks | `tunnel.go` 433-540 | `Watchdog` | two timeouts over the same failure |
| PTCP session counters | `src/ptcp/session.go` | `PtcpSession` | wrapping counters, masked PIDs |
| PTCP framing | `src/ptcp/types.go` | `Framing`, checked in `PtcpSession` | two encodings that must be inverse; lengths that are counted |
| P2P handshake | `src/dh/handshake.go` | `Handshake` | twelve exchanges and three attempts over UDP, sockets to close on every error |
| DH client | `src/dh/protocol.go` 130-300 | `Handshake` (sockets and addresses) | answers matched by order and sender only |
| RTSP bridge | `src/cmd/dahua-p2p/main.go` 148-360 | `Bridge` | slots, negotiate lock, shutdown of everything |
| RTSP proxying | `src/cmd/dahua-p2p/proxy.go` | `Bridge` (control only) | the negotiation holds a lock; message framing is text |
| Crypto | `src/dh/crypto.go` | no | pure functions of opaque bytes |

How they interact: the bridge connects one tunnel (handshake), then runs a
handler per RTSP client; a handler takes the negotiate lock, dials a realm,
and copies bytes both ways. Other users of the library go through the session
manager, which hands out clients of shared tunnels. A tunnel runs a reader, a
heartbeat and an ACK timer; any of them may close it, and its `OnClose`
callback tells the pool (`forget`) or the bridge (`cancel`).

`PROJECT.json` lists the hazards found in the survey with the line where each
bites and the properties that cover it.

## The modules

Each module follows one rule: a critical section of a short mutex is one
action; a lock held across something that can block (the send permit, `t.mu`
in `Close`, `ackMu` in `flushACK`, `dialMu`, `connChMu`) is kept as state, or
as a predicate on the holder's program counter. Every value of `pc` is a point
of the code between two such actions. Definitions whose names end the way a
bug would (`AvailableAtCap`, `DiscardLeaking`, `FinishTwice`, ...) are mutated
forms of the operator that follows them; they are used only to confirm that a
property can fail.

**SessionManager** (`dahua.go`). `sessions` is `m.sessions[key]`, `inflight`
the owner of `m.inflight[key]`, `refCount` and `idleTimer` the fields of a
session, `expired` the idle callbacks fired but not yet under `m.mu`;
`closing` are clients some goroutine has unlisted and is about to close,
`forgetting` the `OnClose` callbacks not yet under `m.mu`. Actions:
`AcquireReuse`/`AcquireFull`/`AcquireClosed` (one pass of Acquire's loop, with
the pruning of dead sessions), `Connect`, `Register`, `Hook` (SetOnClose and
its late check), `Discard`, `Publish`, `Release`, `TimerFires`/`IdleCallback`,
`CloseAll`, `Forget`; the tunnel may die or be retired at any time. One
session key (keys share only `m.mu`); the order of the list is dropped, so
"first with capacity" is any with capacity; `findAvailableSession` looks at
`IsClosed` and `IsRetired` in one step.

**SendPath** (`tunnel.go`). Every goroutine that sends, through
`acquireSendPermit` (both loops), the write deadline, `session.Send`, the UDP
write, its failure, and the release; `Conn.Write`, `Conn.Close` with its DISC
retries, `SetWriteDeadline` in its two critical sections, `interruptWrite`, the
reader with `scheduleACK`, the ACK timer with `flushACK`, and `Tunnel.Close`
in its real order (`ackMu`, wake all, DISC all, socket). A realm's UDP write may
block until its deadline passes. **AtomicSend** is what the code promises of
`sendPacket`; under the mapping `Atomic` an LMID counts as taken when its UDP
write returns.

**Realms** (`tunnel.go`, `dahua.go`). `realms` and `connCh` are the two maps;
each dialer runs `Client.Dial` and `Tunnel.Dial`: `LockDial`, `Recheck`,
`Install`, `Register`, `Bind`, `Await...`, `CleanupRealm`, `CleanupCh` per
attempt, then `Exhausted` and the judgement of the failure count. The reader
handles CONN, DISC and overflow, and one more packet once `t.done` is closed; the device (external) answers any BIND at any
time, repeatedly, late or never. `Conn.Close` and `Tunnel.Close` run alongside.

**ConnStream** (`tunnel.go`). One Conn: `dataCh`, `readBuf`, the read deadline
and its change channel, the reader's delivery or tear-down on overflow, `Read`
with its priority of queued data over close, and the three ways a Conn is
closed. Bytes are numbered as they reach the reader, so order and holes are
visible; what UDP loses before that is not retransmitted and not part of it.

**Framing** (`types.go`). Bodies as records, `Len`, `Serialize` and `ParseBody`
as operators on sequences of bytes: the type byte and length field, the realm
and port words, the NULs trimmed after a status, the lengths that are checked
and those that are not. It has no state of its own.

**PtcpSession** (`session.go`, over `Framing`). Counters range over `2 * Half`
values (2^32 in the code), PIDs over `PidRange` (2^16). Packets carry serialized bodies; the receiver counts the
length of what it parsed. Ghosts count without wrapping what each side really
sent, what was lost, and the bytes of received bodies that `recv` never counts.
The device is external; its packets arrive in order and may be lost.

**Watchdog** (`tunnel.go`). `sendHeartbeat` in its three steps, `CountMissed`,
`SendHeartbeat`, `OutboundStalled`, with packets arriving between them; time
counts heartbeat periods (`WatchSpec` and the other names with that prefix
keep it apart from `ConnStream`, with which it shares a module of proofs). Two
heartbeats exactly the stall timeout apart may be
judged either way, as tickers jitter.

**Handshake** (`handshake.go`, `protocol.go`). One action per request and per
read of `Handshake` and `performDirectHandshake`, each with its error path.
`handles` are the client variables that are not nil, `sockets` the sockets that
are open, `raddr` the remote address `Recv` filters by, `inbox` what a socket
has received and nobody read. A datagram is what it answers, its sender, and
the direct attempt that asked for it; whether it is well formed is chosen when
it is read. Servers and device are external: they answer late, never, or (up
to a bound) twice; what one sender sends to one socket keeps its order.

**Bridge** (`main.go`, `proxy.go`, `dahua.go`). The accept loop with slots,
one handler per client from the first request through the negotiate lock,
`openRealm`, the proxied negotiation and the stream to its deferred calls in
their order, and `shutdown`. A message exchange goes on, succeeds or fails.

The `MC...` modules only add symmetry sets and, for `PtcpSession`, the bodies
exchanged.

## What TLC checks

Every run finishes in about two minutes or less on two workers.

| Run | Instance | Shows |
|---|---|---|
| `pool` | 2 callers, 2 tunnels of 1 realm, port pinned or not | reservations counted exactly, cap, no tunnel closed under a holder, one session on a pinned port; dead tunnels are forgotten, waiters wake, CloseAll closes all, unused tunnels go; no deadlock |
| `pool_port_race` | the same | finding, below |
| `send_safety` | 2 realms, 1 other sender, Close, 2 DISCs per Conn.Close | permit never lost, a write runs under its own realm's deadline only, a closed realm's write stays interrupted, implements AtomicSend (and so writes in LMID order) |
| `send_live` | 2 realms whose writes may block, 1 packet in, 1 tick | Close returns unless an ACK flush hangs; the writer of a closed realm returns, except that in `IsClosed` it waits for a Close that hangs; pending ACKs are flushed while writes end |
| `send_deadlock` | 1 realm, 1 packet in | finding, below |
| `realms_safety` | 2 dialers, 3 BIND attempts, 3 ids that may repeat | failed dials leave nothing in the maps; the reader never blocks on a CONN; while ids do not repeat an open Conn stays routed until signalled and Close reaches every Conn |
| `realms_live` | 2 dialers, 2 attempts | every Dial returns while BIND sends and Close end |
| `stream` | queue of 2, payloads of 0-2 bytes, buffers of 1-2, 4 bytes | no hole in the bytes that reached the reader, EOF only after the queue is drained, waiting reads wake, a moved deadline ends them |
| `session` | every kind of body out, 5 kinds in, 5-bit counters, 2-bit PIDs, 5 packets out, 2 in | the loss estimates are exact across wraps while the true value fits the signed range; what is serialized parses back to the same body; PIDs distinct within a cycle |
| `watchdog` | the real limits (4 and 24 periods), 10 periods | no false stall, no missed stall, the stall check always beats the missed-heartbeat limit |
| `bridge` | 3 clients, 2 realms, 3 connections | negotiate lock exact, realm limit, clean exit; shutdown completes; a useless tunnel ends the bridge |
| `handshake` | 2 reads for sign and auth, 3 direct attempts, drains of 1, one repeated cloud datagram | every error path closes every socket once; answers meet their requests while nothing is repeated; success means an acknowledged auth, of the same attempt if its SYNC answer was its own; the handshake returns |

### Bounds

Two of each thing that competes make every race of two actors happen; the
bridge has a third client because its realm limit must be lower than the number
of clients while two of them negotiate. The pool's instance is small because
its safety properties are proved for all sizes; with two tunnels of one realm
a full tunnel, a second handshake and a waiter all occur. `MaxExpired` 1 still
allows a callback of an earlier life of a session to meet its present one.
Three BIND attempts allow a failed attempt, a retry and a second dialer; the
liveness run has two attempts, and there must be as many ids as attempts, for
otherwise the model and not the code would run out of ids. Counter widths of 5
and 2 bits wrap within a run: five payloads of 16 bytes pass 32 twice. `MaxMsgs` stops goroutines from *starting* sends
once that many LMIDs are out; sends under way, DISCs and ACKs still go on.
`MaxTime` 0 in `send_safety` leaves the deadlines "none" and "already passed",
which is what the deadline properties tell apart; `send_live` lets time pass.
It needs two realms, one to block and one to be closed meanwhile, and has no
`SetWriteDeadline` calls (`MaxUpdates` 0). Its properties also hold for one
realm whose deadline is moved (132,588 states) and for two realms and two
packets (3.1 million states), which is too long for a regular run.
`MaxUpdates` 1 is one `SetWriteDeadline` call per Conn at a time. Ten
heartbeat periods exceed the stall timeout twice. The handshake keeps its three
attempts, so that late answers of the first can reach the third; its read loops
are cut to two reads and one drained packet, enough for each way into, around
and out of a loop. Repeats are left to the cloud's two sockets in the run; with
a repeat on the device's socket instead, the three invariants hold as well
(6.3 million states, without the liveness property). The theorems below cover all
sizes for every invariant the runs check.

`CHECK_DEADLOCK FALSE` is set where the modelled system ends: a closed tunnel
whose goroutines have returned, a bridge that exited, a session that has
exhausted its message bound. The pool never ends (callers may always call
Acquire again), so its runs check for deadlock.

### Fairness

- Pool: goroutines inside Acquire, timers, callbacks and Close calls are
  weakly fair; handshakes are bounded by timeouts. Nobody has to call Acquire,
  Release or CloseAll.
- Send path and realms: strong fairness for goroutines that queue on a mutex
  or a channel, because Go serves those queues in turn (a mutex waiter is
  handed the lock after 1 ms of starvation); of a Write only weak fairness is
  needed. A realm's UDP write may block, and is never forced to complete: only a
  passed deadline or a closed socket ends it. Where a property needs more it
  says so: `AckFlushed`, and `ClosedWriterReturns` for a Write that is still in
  `IsClosed`, assume that realm writes end (`WritesEnd`); `CloseWakesWriters`
  assumes that no ACK flush hangs.
- Realms: the send of a BIND waits for the permit without a deadline
  (`tunnel.go` 261) and Close can block with `t.mu` held (361), so neither is
  fair. `DialReturns` assumes that both end (`BindsEnd`, `CloseEnds`) and fails
  without either assumption. Nobody has to answer a BIND; `retryTimeout` fires.
- Stream: Go's `select` chooses at random among ready cases, so data that stays
  ready is taken in the end (strong fairness of `SelectData`).
- Handshake: every read has a timeout and nothing else waits, so its next step
  is weakly fair; nobody has to answer.
- Bridge: every step of a handler is bounded by a deadline except streaming,
  which is fair only once the client's connection has been closed.

### Findings

Two runs show where the code departs from its own comments; each is quoted in
`PROJECT.json`.

- `pool_port_race`: a session is unlisted before its tunnel closes, so with a
  pinned port the next handshake can meet the port still in use.
- `send_deadlock`: `Close` waits for `ackMu` before it wakes the realms; with
  an ACK queued behind a realm's blocked write nothing interrupts that write.
  Whoever asks `IsClosed` then waits for `t.mu` as well: with two realms a
  `Write` on the other one, even on a closed one, does not return, which is why
  `ClosedWriterReturns` treats that wait apart.

Smaller observations, without a run of their own:

- The failure count is read before `dialMu` is waited for once more
  (`dahua.go` 201-213), so a tunnel that has just granted a realm to a queued
  Dial may be retired.
- An idle callback that lost `m.mu` to a reuse and the following release closes
  the session before its new idle time is over.
- A packet whose UDP write fails stays counted in the session.
- Two concurrent `SetWriteDeadline` calls on a Conn can leave the socket with
  the older deadline (`OwnDeadline` fails with `MaxUpdates` 2).
- PIDs repeat after 65536 packets, as the mask implies. The comment on `count`
  (`session.go` 12) says empty packets are excluded; they are counted.
- `recv` counts the parsed form of a body, so the NULs after a status, and what
  follows a SYNC, BIND or heartbeat that is longer than usual, stay in `InBytes`
  for good. `LossEstimatesExact` states this as `uncounted`.
- DH answers are not matched by CSeq. If the network repeats a datagram, a
  second `/probe/p2psrv` answer ends the handshake with `ErrDeviceNotFound`, and
  a second `/probe/device` answer is taken for `/info/device`: the default RTSP
  port, no randsalt and an unauthenticated channel request.
- A direct attempt that takes a late SYNC answer may also take the late
  acknowledgement of an earlier attempt's auth and succeed
  (`handshake.go` 588-590 expects the answer to its own 0x19); `AuthIsFresh` is
  stated for attempts whose SYNC answer is their own. Such an attempt's counters
  also start with a packet of the earlier session.
- A direct attempt that fails after an answer from the LAN leaves the client
  there, and the next attempt does not ask the public address.

## What TLAPS proves

For every value of the constants, subject to the named assumptions of each
module (finite sets of callers or clients, limits of at least one, `None` and
the daemons' names outside the other sets, timeouts that are natural numbers
and leave room between the two limits of the watchdog, a PID range that divides
the range of a counter, bodies as the program builds them and any bytes from the
device). Every invariant that a run checks is stated by a theorem.

**SessionManagerProofs**: `TypeCorrect`, `RefCountCorrect`, `RealmCapHolds`,
`ClosedStaysEmpty`, `NoTunnelLeak`, `HoldersKeepTunnel`, `PinnedPortSafe`,
`NoMissedWakeup`. `RefCountExact` is not
inductive: a Register that started a second count for a client already listed,
or a Release of a client not in hand, would break it. The invariant adds where
a caller has a client in hand (`ClientInHand`), that a client just connected is
known to its caller only (`PrivateClient`), that a client never connected is
nowhere (`UnbornUnused`), and that a client to be closed is unlisted
(`ClosingUnlisted`). The steps that count use cardinality lemmas for one caller
joining or leaving the holders of a client. One session per pinned port rests
on `m.inflight`: it names the one caller between reserving a handshake and
ending it (`OneHandshake`), and with a pinned port a handshake starts from an
empty list that nobody else fills meanwhile (`HandshakeFromEmpty`). The same
invariant shows that a waiter's leader has still to close the channel it waits
on (`WaiterHasLeader`), which is the safety half of `WaiterWakes`.

**SendPathProofs**: `TypeCorrect`, `PermitIsConserved`, `WrittenInOrder`,
`NilSendersUnhurried`, `ClosedWriteInterrupted`, `OwnDeadlineApplies`,
`NoAckLost`, and the refinement `SendIsAtomic`. The invariant adds which
goroutines pass which labels (`Roles`), that `activeWriter` is exactly the realm
between its two updates and that the socket has a deadline only then
(`Ownership`), and that the packet at the socket has the last LMID given out
(`Numbering`). With these a step of the send path is a send of AtomicSend or a
stutter.

`NoAckLost` is `AckCovered`. The race is a packet received while `flushACK`
sends: its `scheduleACK` must wait for `ackMu`, or the flush would clear
`ackPending` after it. The invariant says that Recv fields only grow on the wire
(`RecvGrows`, from the permit) and that, unless the reader is on its way to
`scheduleACK`, the ACK being sent covers all that is owed (`AckInv`). TLC also
checked it with two packets (3 million states); `send_live` takes one packet and
cannot meet this race.

`OwnDeadlineApplies` assumes `MaxUpdates <= 1`, that is, calls of
`SetWriteDeadline` on one Conn that do not overlap; with two the property is
false (see the observations). Then the call under way is applying the current
deadline (`UpdateIsCurrent`), and only a Conn already marked closed is
interrupted (`InterruptsClosed`).

**RealmsProofs**: `TypeCorrect`, `ReaderIsFree`, `MapsDoNotLeak`,
`ConnsAreRouted`, `CloseReachesEveryConn`. `ReaderNeverBlocks` needs to know
that a channel with a token is no longer registered and belongs to the Dial at
work (`Channels`), which rests on `dialMu` admitting one Dial (`DialSerial`) and
on map entries being filed under their Conn's own id (`Filed`). Routing needs
that the tunnel signals a Conn only after it left the map (`OutBeforeSignal`).
The whole invariant, `Structure`, was also checked by TLC (470,877 states).

**TunnelProofs**, the stream: `TypeCorrect`, `StreamHasNoHole`, `EofIsLast`. The
invariant follows the bytes: what was returned, `readBuf` and the payloads in
`dataCh` are consecutive (`Queued`, with the offsets at which the payloads start
as a witness, `Chain`), the reader's payload comes next (`InHand`), and a Conn
closed by the reader has left the map, so its queue only shrinks (`Closing`).

**TunnelProofs**, the watchdog: `StallIsReal`, `StallIsNoticed`,
`MissedIsBounded`. The invariant relates the stall clock to the ghost
`lastProgress` (it starts at most one period after the last progress, never
before it), says what the heartbeat under way has yet to compare (`Observed`),
and relates the missed count to the time since the last packet.

**HandshakeProofs**: `SocketsExact`, `TypeCorrect`, `AnswersPaired`. While the
handshake runs the handles are the open sockets, and each label of the code
determines which they are (`SocketInv`); that is what makes the one deferred
cleanup right for every error return. `AnswersMatch` is about order only: while
nothing is repeated, what a cloud socket has received or will receive from a
server is at most one datagram, the answer the present label waits for
(`OneAnswer`), and the socket is connected to that server (`Connected`). The
exception is the main server's answer to the relay-channel request, which
nobody reads (`Stray`).

**HandshakeAuthProofs** (on top of HandshakeProofs): `AuthFresh`, that is
`AuthIsFresh`. Answers of one server that wait for the device's socket are in
the order of the attempts that asked (`InOrder`); hence once an attempt took the
answer to its own SYNC, its peer has only answers to this attempt left
(`AfterSync`), and the acknowledgement it takes is its own (`AuthRecorded`).

**PtcpSessionProofs**: `TypeCorrect`, `EstimatesExact`, `FramingFaithful`,
`PidsDistinct`. Each counter is congruent, modulo its range, to the total it
stands for (`CountersFollow`; for `recv` that is what the device has sent less
what was lost and what is never counted), and the signed difference of two
counters is then the difference of the totals whenever that fits
(`DeltaExact`). PIDs count down through their range over and over
(`PidsFollow`), which needs the range to divide that of the counter, or the
cycle would break at a wrap. The framing lemmas find the parts of a framed body
(`Frame`), show that `TrimRight` keeps a string that does not end in NUL
(`TrimNulKeeps`), and read every kind of body back (`RoundTrip`). The invariants
were checked by TLC on the instance of `session` first.

**BridgeProofs**: `NegotiateLockExact`, `RealmLimitHolds`, `ExitIsClean`. The
invariant adds where `finishOnce` has run (`FinishPlaces`), that the slots in
use are the handlers between Accept and FreeSlot (`SlotsExact`), that a realm is
open only while its handler proxies (`RealmPlaces`), what `b.connections` holds
(`TrackedExact`) and what shutdown has done (`ServePlaces`).

Proved and not repeated in a run: type correctness of the modules for which it
is a theorem, that nothing is listed after CloseAll, that every open tunnel has
an owner and every idle session a timer, the LMID order (it follows from
AtomicSend), and `AckCovered`.

Only model-checked: the liveness properties, because fairness and ENABLED are
beyond this prover.

## Not modelled

- Text formats: `copyRTSPMessage` and the RTSP request lines, DH responses and
  their XML. They are sequential parsers used by one goroutine each, with tests
  of their own, and nothing another actor does changes what they read; in
  `Bridge` and `Handshake` a message is well formed or not, chosen freely.
- The 24-byte PTCP header as bytes (a record in `PtcpSession`); a packet with a
  wrong magic is one that is lost.
- Cryptography, configuration, logging, `reportLoss` (it only logs).
- Reordering. Datagrams of one sender keep their order in `PtcpSession`,
  `Watchdog` and `Handshake`. A stale report that overwrites a newer one can
  hide progress from a heartbeat, or pass for progress and restart the stall
  clock, until the next packet in order.
- A tunnel that dies between `IsClosed` and `IsRetired` of one
  `findAvailableSession`; a heartbeat that a blocked send keeps for a whole
  period. `LiveConnRouted` and `CloseReachesAll` say nothing once a random
  32-bit realm id has repeated.
- The pool, the handshake and the send path as one system. In the pool and the
  bridge a handshake is one step that succeeds or fails, and a tunnel's Close is
  one step, which their liveness properties take to end; that Close can block
  with `t.mu` held (`send_deadlock`) would then
  hold up `findAvailableSession`, which takes `t.mu` under `m.mu`.
- Reconnection by the process supervisor after the bridge exits.

## Where to go on

1. Pool and send path composed, for the two locks above.
2. An abstract pool (reservations only) that `SessionManager` implements.
3. Reordered datagrams in `PtcpSession` and `Watchdog`, with properties that
   allow for stale reports.
4. Proofs: the refinement of an abstract pool, once there is one.
