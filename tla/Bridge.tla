------------------------------- MODULE Bridge -------------------------------
(***************************************************************************)
(* cmd/dahua-p2p/main.go: the accept loop with its connection slots, one   *)
(* handler per RTSP client, the negotiate lock of dahua.go that serializes *)
(* them on the single tunnel, and the shutdown that waits for them all.    *)
(*                                                                         *)
(* The tunnel is seen as the bridge sees it: open or closed, retired or    *)
(* not, with one realm per handler; its Close runs OnClose, which the      *)
(* bridge set to cancel.  RTSP messages are abstracted to whether the      *)
(* exchange goes on, succeeds or fails.                                    *)
(***************************************************************************)
EXTENDS Integers, FiniteSets

CONSTANTS
    Handlers,  \* RTSP client connections, each with the goroutine that serves it
    MaxConns,  \* config.maxConns
    MaxRealms  \* config.maxRealms

ASSUME BridgeAssumption ==
    /\ IsFiniteSet(Handlers)
    /\ MaxConns \in Nat \ {0} /\ MaxRealms \in Nat \ {0}

VARIABLES
    ctxDone,    \* the context of run is cancelled
    listening,  \* the TCP listener is open
    servePc,    \* serve: the accept loop, then shutdown
    toClose,    \* connections shutdown still has to close
    slots,      \* tokens in b.slots
    tracked,    \* b.connections
    tunnel,     \* "open" or "closed"
    retired,
    token,      \* negotiateSem holds a token
    pc,         \* of each handler; "none" when wg does not count it
    upClosed,   \* the handler's TCP connection is closed on our side
    realm,      \* the handler's realm: "none", "open" or "closed"
    finished    \* finishOnce has run

serve == <<ctxDone, listening, servePc, toClose>>
pool == <<slots, tracked>>
device == <<tunnel, retired, realm>>
vars == <<serve, pool, device, token, pc, upClosed, finished>>

TypeOK ==
    /\ ctxDone \in BOOLEAN /\ listening \in BOOLEAN
    /\ servePc \in {"accept", "closeTunnel", "snapshot", "closeConns", "exited"}
    /\ toClose \subseteq Handlers /\ tracked \subseteq Handlers
    /\ slots \in 0..MaxConns
    /\ tunnel \in {"open", "closed"} /\ retired \in BOOLEAN
    /\ token \in BOOLEAN
    /\ pc \in [Handlers -> {"none", "request", "lock", "dial", "unlock", "failed", "negotiate",
                            "stream", "closeDevice", "finish", "return", "untrack", "free", "done"}]
    /\ upClosed \in [Handlers -> BOOLEAN]
    /\ realm \in [Handlers -> {"none", "open", "closed"}]
    /\ finished \in [Handlers -> BOOLEAN]

(* run: the tunnel is connected and cancel installed before the listener opens. *)
Init ==
    /\ ctxDone = FALSE /\ listening = TRUE
    /\ servePc = "accept" /\ toClose = {}
    /\ slots = 0 /\ tracked = {}
    /\ tunnel = "open" /\ retired = FALSE
    /\ token = FALSE
    /\ pc = [h \in Handlers |-> "none"]
    /\ upClosed = [h \in Handlers |-> FALSE]
    /\ realm = [h \in Handlers |-> "none"]
    /\ finished = [h \in Handlers |-> FALSE]

Goto(h, label) == pc' = [pc EXCEPT ![h] = label]

ConnectionLimitLarger == IF MaxConns < MaxRealms THEN MaxRealms ELSE MaxConns
ConnectionLimit == IF MaxConns < MaxRealms THEN MaxConns ELSE MaxRealms

-----------------------------------------------------------------------------
(* The accept loop *)

Accept(h) ==
    /\ servePc = "accept"
    /\ listening
    /\ pc[h] = "none"
    /\ slots < ConnectionLimit
    /\ slots' = slots + 1
    /\ tracked' = tracked \cup {h}
    /\ upClosed' = [upClosed EXCEPT ![h] = FALSE]
    /\ realm' = [realm EXCEPT ![h] = "none"]
    /\ finished' = [finished EXCEPT ![h] = FALSE]
    /\ Goto(h, "request")
    /\ UNCHANGED <<serve, tunnel, retired, token>>

(* No slot: the connection is closed at once. *)
Reject(h) ==
    /\ servePc = "accept"
    /\ listening
    /\ pc[h] = "none"
    /\ slots >= ConnectionLimit
    /\ upClosed' = [upClosed EXCEPT ![h] = TRUE]
    /\ UNCHANGED <<serve, pool, device, token, pc, finished>>

(* SIGINT or SIGTERM *)
Signal ==
    /\ ~ctxDone
    /\ ctxDone' = TRUE
    /\ UNCHANGED <<listening, servePc, toClose, pool, device, token, pc, upClosed, finished>>

CloseListener ==
    /\ ctxDone /\ listening
    /\ listening' = FALSE
    /\ UNCHANGED <<ctxDone, servePc, toClose, pool, device, token, pc, upClosed, finished>>

(* Accept returns an error: the listener is closed, or failed by itself. *)
AcceptFails ==
    /\ servePc = "accept"
    /\ servePc' = "closeTunnel"
    /\ UNCHANGED <<ctxDone, listening, toClose, pool, device, token, pc, upClosed, finished>>

-----------------------------------------------------------------------------
(* Tunnel.Close with OnClose = cancel; nothing happens the second time. *)
CloseTunnel ==
    /\ tunnel' = "closed"
    /\ realm' = [h \in Handlers |-> IF realm[h] = "open" THEN "closed" ELSE realm[h]]
    /\ ctxDone' = (ctxDone \/ tunnel = "open")

TunnelDies ==
    /\ tunnel = "open"
    /\ CloseTunnel
    /\ UNCHANGED <<listening, servePc, toClose, pool, retired, token, pc, upClosed, finished>>

(* DISC from the device, or an overflow of the realm's queue. *)
RealmDies(h) ==
    /\ realm[h] = "open"
    /\ realm' = [realm EXCEPT ![h] = "closed"]
    /\ UNCHANGED <<serve, pool, tunnel, retired, token, pc, upClosed, finished>>

-----------------------------------------------------------------------------
(* shutdown *)

ShutdownTunnel ==
    /\ servePc = "closeTunnel"
    /\ CloseTunnel
    /\ servePc' = "snapshot"
    /\ UNCHANGED <<listening, toClose, pool, retired, token, pc, upClosed, finished>>

SnapshotNothing == {}
Snapshot == tracked

ShutdownSnapshot ==
    /\ servePc = "snapshot"
    /\ toClose' = Snapshot
    /\ servePc' = "closeConns"
    /\ UNCHANGED <<ctxDone, listening, pool, device, token, pc, upClosed, finished>>

ShutdownConn(h) ==
    /\ servePc = "closeConns"
    /\ h \in toClose
    /\ toClose' = toClose \ {h}
    /\ upClosed' = [upClosed EXCEPT ![h] = TRUE]
    /\ UNCHANGED <<ctxDone, listening, servePc, pool, device, token, pc, finished>>

HandlersUncounted == TRUE
(* b.wg is zero *)
HandlersDone == \A h \in Handlers : pc[h] = "none"

ShutdownWait ==
    /\ servePc = "closeConns"
    /\ toClose = {}
    /\ HandlersDone
    /\ servePc' = "exited"
    /\ UNCHANGED <<ctxDone, listening, toClose, pool, device, token, pc, upClosed, finished>>

-----------------------------------------------------------------------------
(* handle *)

FinishTwice(h) == token' = FALSE /\ finished' = [finished EXCEPT ![h] = TRUE]
(* finishOnce: DoneNegotiate and UnlockNegotiate, the first time only. *)
Finish(h) ==
    /\ token' = IF finished[h] THEN token ELSE FALSE
    /\ finished' = [finished EXCEPT ![h] = TRUE]

(* A valid first request, or a failure: bad request, deadline, closed. *)
FirstRequest(h) ==
    /\ pc[h] = "request"
    /\ \/ ~upClosed[h] /\ Goto(h, "lock")
       \/ Goto(h, "return")
    /\ UNCHANGED <<serve, pool, device, token, upClosed, finished>>

(* LockNegotiate *)
LockNegotiate(h) ==
    /\ pc[h] = "lock"
    /\ ~token
    /\ token' = TRUE
    /\ Goto(h, "dial")
    /\ UNCHANGED <<serve, pool, device, upClosed, finished>>

(* The context is done, or negotiateTimeout passed. *)
LockGivesUp(h) ==
    /\ pc[h] = "lock"
    /\ Goto(h, "failed")
    /\ UNCHANGED <<serve, pool, device, token, upClosed, finished>>

(* WaitSettle and Client.Dial, which refuses a closed or retired tunnel. *)
DialRealm(h) ==
    /\ pc[h] = "dial"
    /\ tunnel = "open" /\ ~retired
    /\ realm' = [realm EXCEPT ![h] = "open"]
    /\ Goto(h, "negotiate")
    /\ UNCHANGED <<serve, pool, tunnel, retired, token, upClosed, finished>>

(* Dial fails, and may close a silent tunnel or retire a refusing one. *)
DialFails(h) ==
    /\ pc[h] = "dial"
    /\ \/ UNCHANGED <<ctxDone, device>>
       \/ CloseTunnel /\ UNCHANGED retired
       \/ retired' = TRUE /\ UNCHANGED <<ctxDone, tunnel, realm>>
    /\ Goto(h, "unlock")
    /\ UNCHANGED <<listening, servePc, toClose, pool, token, upClosed, finished>>

OpenRealmUnlock(h) ==
    /\ pc[h] = "unlock"
    /\ Finish(h)
    /\ Goto(h, "failed")
    /\ UNCHANGED <<serve, pool, device, upClosed>>

TunnelClosedOnly == tunnel = "closed"
(* IsClosed() || IsRetired() *)
TunnelUseless == tunnel = "closed" \/ retired

OpenRealmFailed(h) ==
    /\ pc[h] = "failed"
    /\ ctxDone' = (ctxDone \/ TunnelUseless)
    /\ Goto(h, "return")
    /\ UNCHANGED <<listening, servePc, toClose, pool, device, token, upClosed, finished>>

(* proxyRTSP up to a successful PLAY or RECORD. *)
NegotiationFinished(h) ==
    /\ pc[h] = "negotiate"
    /\ realm[h] = "open" /\ ~upClosed[h]
    /\ Finish(h)
    /\ Goto(h, "stream")
    /\ UNCHANGED <<serve, pool, device, upClosed>>

(* An error on either side, or the negotiation deadline. *)
NegotiationFails(h) ==
    /\ pc[h] = "negotiate"
    /\ Goto(h, "closeDevice")
    /\ UNCHANGED <<serve, pool, device, token, upClosed, finished>>

CloseRealm(h) == realm' = [realm EXCEPT ![h] = "closed"]

(* copyBoth: the first direction to end closes both connections. *)
StreamEnds(h) ==
    /\ pc[h] = "stream"
    /\ upClosed' = [upClosed EXCEPT ![h] = TRUE]
    /\ CloseRealm(h)
    /\ Goto(h, "closeDevice")
    /\ UNCHANGED <<serve, pool, tunnel, retired, token, finished>>

(* The deferred calls of handle, last in first out. *)
CloseDevice(h) ==
    /\ pc[h] = "closeDevice"
    /\ CloseRealm(h)
    /\ Goto(h, "finish")
    /\ UNCHANGED <<serve, pool, tunnel, retired, token, upClosed, finished>>

FinishDeferred(h) ==
    /\ pc[h] = "finish"
    /\ Finish(h)
    /\ Goto(h, "return")
    /\ UNCHANGED <<serve, pool, device, upClosed>>

CloseUpstream(h) ==
    /\ pc[h] = "return"
    /\ upClosed' = [upClosed EXCEPT ![h] = TRUE]
    /\ Goto(h, "untrack")
    /\ UNCHANGED <<serve, pool, device, token, finished>>

(* The deferred function of the goroutine that serve started. *)
Untrack(h) ==
    /\ pc[h] = "untrack"
    /\ tracked' = tracked \ {h}
    /\ Goto(h, "free")
    /\ UNCHANGED <<serve, slots, device, token, upClosed, finished>>

FreeSlot(h) ==
    /\ pc[h] = "free"
    /\ slots' = slots - 1
    /\ Goto(h, "done")
    /\ UNCHANGED <<serve, tracked, device, token, upClosed, finished>>

WgDone(h) ==
    /\ pc[h] = "done"
    /\ Goto(h, "none")
    /\ UNCHANGED <<serve, pool, device, token, upClosed, finished>>

-----------------------------------------------------------------------------
(* Steps with a bound: deadlines, the settle time, Dial's retries. *)
HandlerRunning(h) ==
    \/ FirstRequest(h) \/ LockNegotiate(h) \/ LockGivesUp(h) \/ DialRealm(h) \/ DialFails(h)
    \/ OpenRealmUnlock(h) \/ OpenRealmFailed(h)
    \/ NegotiationFinished(h) \/ NegotiationFails(h)
    \/ CloseDevice(h) \/ FinishDeferred(h) \/ CloseUpstream(h)
    \/ Untrack(h) \/ FreeSlot(h) \/ WgDone(h)

HandlerStep(h) == HandlerRunning(h) \/ StreamEnds(h)

ServeRunning ==
    \/ CloseListener
    \/ (~listening /\ AcceptFails)
    \/ ShutdownTunnel \/ ShutdownSnapshot \/ ShutdownWait
    \/ \E h \in Handlers : ShutdownConn(h)

Next ==
    \/ \E h \in Handlers : Accept(h) \/ Reject(h) \/ RealmDies(h) \/ HandlerStep(h)
    \/ Signal \/ AcceptFails \/ TunnelDies
    \/ ServeRunning

Spec == Init /\ [][Next]_vars

(* A stream has no deadline: a client that stops reading keeps it, even    *)
(* after its realm died, until its TCP connection is closed.               *)
Fairness ==
    /\ WF_vars(ServeRunning)
    /\ \A h \in Handlers :
          WF_vars(HandlerRunning(h)) /\ WF_vars(upClosed[h] /\ StreamEnds(h))

FairSpec == Spec /\ Fairness

-----------------------------------------------------------------------------
(* Properties *)

Negotiating(h) ==
    \/ pc[h] \in {"dial", "unlock", "negotiate"}
    \/ pc[h] \in {"closeDevice", "finish"} /\ ~finished[h]

(* The negotiate lock excludes and is never lost: the channel holds a token *)
(* exactly while one handler is between LockNegotiate and its first finish, *)
(* and no handler takes out the token of another ("calling it without      *)
(* ownership steals another caller's token").                              *)
TokenExact ==
    /\ token <=> \E h \in Handlers : Negotiating(h)
    /\ \A g, h \in Handlers : Negotiating(g) /\ Negotiating(h) => g = h

(* The tunnel never carries more realms of the bridge than config.maxRealms *)
(* however handlers come, fail and leave ("effective connection limit is   *)
(* the lower of"): a slot is freed only after its realm is closed.         *)
RealmsWithinLimit == Cardinality({h \in Handlers : realm[h] = "open"}) <= MaxRealms

(* When serve returned nothing is left over: no client connection, realm,  *)
(* slot or negotiate token.                                                *)
ExitClean ==
    servePc = "exited" =>
        /\ tunnel = "closed" /\ slots = 0 /\ tracked = {} /\ ~token
        /\ \A h \in Handlers : realm[h] # "open"

(* Shutdown returns, whatever the handlers were doing: waiting for the     *)
(* lock, dialing, negotiating or streaming to a client that does not read. *)
ShutdownCompletes == ctxDone ~> (servePc = "exited")

(* "A closed or retired tunnel ends the process."                          *)
UselessTunnelEndsBridge == (tunnel = "closed" \/ retired) ~> (servePc = "exited")
=============================================================================
