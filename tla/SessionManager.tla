--------------------------- MODULE SessionManager ---------------------------
(***************************************************************************)
(* The shared tunnel pool of dahua.go: SessionManager.Acquire, Release,    *)
(* forget and CloseAll, the idle timers, and the tunnels as the pool sees  *)
(* them (open, closed, retired, with or without an OnClose callback).      *)
(*                                                                         *)
(* One sessionKey is modelled: entries of different keys share only m.mu.  *)
(* A critical section of m.mu is one action.  The list m.sessions[key] is  *)
(* the set of its clients, so "the first session with capacity" becomes    *)
(* any session with capacity.                                              *)
(***************************************************************************)
EXTENDS Integers, FiniteSets

CONSTANTS
    Callers,    \* goroutines that call Acquire and Release
    Clients,    \* *Client objects; their number bounds the handshakes that succeed
    MaxRealms,  \* key.maxRealms
    MaxExpired, \* bound: idle callbacks of one session waiting for m.mu at once
    None        \* a nil pointer

ASSUME CallersAssumption == IsFiniteSet(Callers)
ASSUME MaxRealmsAssumption == MaxRealms \in Nat \ {0}
ASSUME MaxExpiredAssumption == MaxExpired \in Nat \ {0}
ASSUME NoneAssumption == None \notin Clients \cup Callers

VARIABLES
    fixedPort,   \* key.p2pPort # 0, as configured
    closed,      \* m.closed
    sessions,    \* clients with a managedSession in m.sessions[key]
    inflight,    \* caller that owns m.inflight[key], or None
    refCount,    \* managedSession.refCount
    idleTimer,   \* managedSession.idleTimer is running
    expired,     \* idle timers that fired and whose callback waits for m.mu
    tunnel,      \* life cycle of the client's tunnel
    retired,     \* tunnel.retired
    onClose,     \* forget is installed as the tunnel's OnClose callback
    closing,     \* clients some goroutine is committed to Close
    forgetting,  \* closed tunnels whose OnClose callback waits for m.mu
    pc,          \* where each caller is
    client,      \* the client a caller connects, registers or holds
    leader       \* whose inflightConn.done a waiting caller waits for

pool == <<fixedPort, closed, sessions, inflight, refCount, idleTimer, expired>>
tunnels == <<tunnel, retired, onClose, closing, forgetting>>
callers == <<pc, client, leader>>
vars == <<pool, tunnels, callers>>

PcState == {"idle", "acquire", "wait", "connect", "register", "hook",
            "discard", "publish", "hold"}

TypeOK ==
    /\ fixedPort \in BOOLEAN
    /\ closed \in BOOLEAN
    /\ sessions \subseteq Clients
    /\ inflight \in Callers \cup {None}
    /\ refCount \in [Clients -> Nat]
    /\ idleTimer \in [Clients -> BOOLEAN]
    /\ expired \in [Clients -> Nat]
    /\ tunnel \in [Clients -> {"none", "open", "closed"}]
    /\ retired \in [Clients -> BOOLEAN]
    /\ onClose \in [Clients -> BOOLEAN]
    /\ closing \subseteq Clients
    /\ forgetting \subseteq Clients
    /\ pc \in [Callers -> PcState]
    /\ client \in [Callers -> Clients \cup {None}]
    /\ leader \in [Callers -> Callers \cup {None}]

Init ==
    /\ fixedPort \in BOOLEAN
    /\ closed = FALSE
    /\ sessions = {}
    /\ inflight = None
    /\ refCount = [c \in Clients |-> 0]
    /\ idleTimer = [c \in Clients |-> FALSE]
    /\ expired = [c \in Clients |-> 0]
    /\ tunnel = [c \in Clients |-> "none"]
    /\ retired = [c \in Clients |-> FALSE]
    /\ onClose = [c \in Clients |-> FALSE]
    /\ closing = {}
    /\ forgetting = {}
    /\ pc = [k \in Callers |-> "idle"]
    /\ client = [k \in Callers |-> None]
    /\ leader = [k \in Callers |-> None]

Goto(k, label) == pc' = [pc EXCEPT ![k] = label]

(* Callers whose reservation on c is counted or about to be returned. *)
Holders(c) == {k \in Callers : client[k] = c /\ pc[k] \in {"hook", "publish", "hold"}}

-----------------------------------------------------------------------------
(* Acquire *)

Live == {c \in sessions : tunnel[c] # "closed"}

AvailableAtCap(c) == ~retired[c] /\ refCount[c] <= MaxRealms
Available(c) == ~retired[c] /\ refCount[c] < MaxRealms

(* findAvailableSession drops the sessions of closed tunnels first. *)
PruneClosed ==
    /\ sessions' = Live
    /\ idleTimer' = [c \in Clients |-> idleTimer[c] /\ c \notin sessions \ Live]

StartAcquire(k) ==
    /\ pc[k] = "idle"
    /\ Goto(k, "acquire")
    /\ UNCHANGED <<pool, tunnels, client, leader>>

AcquireClosed(k) ==
    /\ pc[k] = "acquire"
    /\ closed
    /\ Goto(k, "idle")
    /\ UNCHANGED <<pool, tunnels, client, leader>>

AcquireReuse(k, c) ==
    /\ pc[k] = "acquire"
    /\ ~closed
    /\ c \in Live /\ Available(c)
    /\ sessions' = Live
    /\ idleTimer' = [d \in Clients |-> idleTimer[d] /\ d # c /\ d \notin sessions \ Live]
    /\ refCount' = [refCount EXCEPT ![c] = @ + 1]
    /\ client' = [client EXCEPT ![k] = c]
    /\ Goto(k, "hold")
    /\ UNCHANGED <<fixedPort, closed, inflight, expired, tunnels, leader>>

PortIgnored == FALSE
(* A live session exists and the key pins the local UDP port. *)
PortTaken == fixedPort /\ Live # {}

AcquireFull(k) ==
    /\ pc[k] = "acquire"
    /\ ~closed
    /\ ~\E c \in Live : Available(c)
    /\ PruneClosed
    /\ \/ /\ PortTaken
          /\ Goto(k, "idle")
          /\ UNCHANGED <<inflight, leader>>
       \/ /\ ~PortTaken /\ inflight # None
          /\ leader' = [leader EXCEPT ![k] = inflight]
          /\ Goto(k, "wait")
          /\ UNCHANGED inflight
       \/ /\ ~PortTaken /\ inflight = None
          /\ inflight' = k
          /\ Goto(k, "connect")
          /\ UNCHANGED leader
    /\ UNCHANGED <<fixedPort, closed, refCount, expired, tunnels, client>>

(* ConnectWithConfig: a fresh client, or an error.  A fixed port that an   *)
(* open tunnel still holds cannot be bound.                                *)
Connect(k) ==
    /\ pc[k] = "connect"
    /\ Goto(k, "register")
    /\ \/ UNCHANGED <<client, tunnel>>
       \/ /\ ~(fixedPort /\ \E d \in Clients : tunnel[d] = "open")
          /\ \E c \in Clients :
                /\ tunnel[c] = "none"
                /\ client' = [client EXCEPT ![k] = c]
                /\ tunnel' = [tunnel EXCEPT ![c] = "open"]
    /\ UNCHANGED <<pool, retired, onClose, closing, forgetting, leader>>

Keep(k) == client[k] # None /\ ~closed

InitialCountZero(c) == [refCount EXCEPT ![c] = 0]
InitialCount(c) == [refCount EXCEPT ![c] = 1]

Register(k) ==
    /\ pc[k] = "register"
    /\ inflight' = None
    /\ IF Keep(k)
       THEN /\ sessions' = sessions \cup {client[k]}
            /\ refCount' = InitialCount(client[k])
            /\ Goto(k, "hook")
       ELSE /\ UNCHANGED <<sessions, refCount>>
            /\ Goto(k, IF client[k] # None THEN "discard" ELSE "publish")
    /\ UNCHANGED <<fixedPort, closed, idleTimer, expired, tunnels, client, leader>>

(* forget, run by OnClose or by SetOnClose when the tunnel is closed. *)
ForgetBody(c) ==
    /\ sessions' = sessions \ {c}
    /\ idleTimer' = [idleTimer EXCEPT ![c] = FALSE]

(* client.SetOnClose(forget) *)
HookOnlyOpen(k) ==
    /\ pc[k] = "hook"
    /\ onClose' = [onClose EXCEPT ![client[k]] = TRUE]
    /\ Goto(k, "publish")
    /\ UNCHANGED <<pool, tunnel, retired, closing, forgetting, client, leader>>

Hook(k) ==
    /\ pc[k] = "hook"
    /\ IF tunnel[client[k]] = "closed"
       THEN ForgetBody(client[k]) /\ UNCHANGED onClose
       ELSE /\ onClose' = [onClose EXCEPT ![client[k]] = TRUE]
            /\ UNCHANGED <<sessions, idleTimer>>
    /\ Goto(k, "publish")
    /\ UNCHANGED <<fixedPort, closed, inflight, refCount, expired, tunnel, retired, closing,
                   forgetting, client, leader>>

DiscardLeaking(k) ==
    /\ pc[k] = "discard"
    /\ client' = [client EXCEPT ![k] = None]
    /\ Goto(k, "publish")
    /\ UNCHANGED <<pool, tunnels, leader>>

(* The manager closed during the handshake: close the unused tunnel. *)
Discard(k) ==
    /\ pc[k] = "discard"
    /\ tunnel' = [tunnel EXCEPT ![client[k]] = "closed"]
    /\ client' = [client EXCEPT ![k] = None]
    /\ Goto(k, "publish")
    /\ UNCHANGED <<pool, retired, onClose, closing, forgetting, leader>>

WokenOnSuccess(k) == {w \in Callers : pc[w] = "wait" /\ leader[w] = k /\ client[k] # None}
Woken(k) == {w \in Callers : pc[w] = "wait" /\ leader[w] = k}

(* close(inf.done): the waiters retry, or return inf.err. *)
Publish(k) ==
    /\ pc[k] = "publish"
    /\ pc' = [w \in Callers |->
                IF w = k THEN (IF client[k] = None THEN "idle" ELSE "hold")
                ELSE IF w \in Woken(k)
                     THEN (IF client[k] = None THEN "idle" ELSE "acquire")
                     ELSE pc[w]]
    /\ leader' = [w \in Callers |-> IF w \in Woken(k) THEN None ELSE leader[w]]
    /\ UNCHANGED <<pool, tunnels, client>>

-----------------------------------------------------------------------------
(* Release and the idle timer *)

ArmIdleNever(c) == [idleTimer EXCEPT ![c] = FALSE]
ArmIdle(c) == [idleTimer EXCEPT ![c] = TRUE]

(* IsRetired: retired or closed. *)
Unusable(c) == retired[c] \/ tunnel[c] = "closed"

Release(k) ==
    /\ pc[k] = "hold"
    /\ LET c == client[k] IN
       IF c \notin sessions
       THEN UNCHANGED <<sessions, refCount, idleTimer, closing>>
       ELSE /\ refCount' = [refCount EXCEPT ![c] = @ - 1]
            /\ IF refCount[c] > 1
               THEN UNCHANGED <<sessions, idleTimer, closing>>
               ELSE IF Unusable(c)
               THEN /\ sessions' = sessions \ {c}
                    /\ idleTimer' = [idleTimer EXCEPT ![c] = FALSE]
                    /\ closing' = closing \cup {c}
               ELSE /\ idleTimer' = ArmIdle(c)
                    /\ UNCHANGED <<sessions, closing>>
    /\ client' = [client EXCEPT ![k] = None]
    /\ Goto(k, "idle")
    /\ UNCHANGED <<fixedPort, closed, inflight, expired, tunnel, retired, onClose, forgetting,
                   leader>>

TimerFires(c) ==
    /\ idleTimer[c]
    /\ expired[c] < MaxExpired
    /\ idleTimer' = [idleTimer EXCEPT ![c] = FALSE]
    /\ expired' = [expired EXCEPT ![c] = @ + 1]
    /\ UNCHANGED <<fixedPort, closed, sessions, inflight, refCount, tunnels, callers>>

StillListed(c) == c \in sessions
StillIdle(c) == c \in sessions /\ refCount[c] = 0

(* The AfterFunc callback once it has m.mu.  Stop does not recall it. *)
IdleCallback(c) ==
    /\ expired[c] > 0
    /\ expired' = [expired EXCEPT ![c] = @ - 1]
    /\ IF StillIdle(c)
       THEN sessions' = sessions \ {c} /\ closing' = closing \cup {c}
       ELSE UNCHANGED <<sessions, closing>>
    /\ UNCHANGED <<fixedPort, closed, inflight, refCount, idleTimer, tunnel, retired, onClose,
                   forgetting, callers>>

CloseAll ==
    /\ ~closed
    /\ closed' = TRUE
    /\ closing' = closing \cup sessions
    /\ idleTimer' = [c \in Clients |-> idleTimer[c] /\ c \notin sessions]
    /\ sessions' = {}
    /\ UNCHANGED <<fixedPort, inflight, refCount, expired, tunnel, retired, onClose, forgetting,
                   callers>>

-----------------------------------------------------------------------------
(* Tunnels *)

(* tunnel.Close: the callback runs after t.mu is released. *)
CloseTunnel(c) ==
    /\ tunnel' = [tunnel EXCEPT ![c] = "closed"]
    /\ forgetting' = IF onClose[c] /\ tunnel[c] = "open" THEN forgetting \cup {c}
                                                        ELSE forgetting

(* client.Close() by the goroutine that took c out of the list. *)
CloseRemoved(c) ==
    /\ c \in closing
    /\ closing' = closing \ {c}
    /\ CloseTunnel(c)
    /\ UNCHANGED <<pool, retired, onClose, callers>>

(* Heartbeat loss, stall, socket errors, or Client.Dial on a silent device. *)
TunnelDies(c) ==
    /\ tunnel[c] = "open"
    /\ CloseTunnel(c)
    /\ UNCHANGED <<pool, retired, onClose, closing, callers>>

(* Client.Dial by a holder after repeated BIND failures. *)
Retire(c) ==
    /\ tunnel[c] = "open"
    /\ \E k \in Callers : pc[k] = "hold" /\ client[k] = c
    /\ retired' = [retired EXCEPT ![c] = TRUE]
    /\ UNCHANGED <<pool, tunnel, onClose, closing, forgetting, callers>>

Forget(c) ==
    /\ c \in forgetting
    /\ forgetting' = forgetting \ {c}
    /\ ForgetBody(c)
    /\ UNCHANGED <<fixedPort, closed, inflight, refCount, expired, tunnel, retired, onClose,
                   closing, callers>>

-----------------------------------------------------------------------------
CallerStep(k) ==
    \/ StartAcquire(k) \/ AcquireClosed(k) \/ AcquireFull(k)
    \/ \E c \in Clients : AcquireReuse(k, c)
    \/ Connect(k) \/ Register(k) \/ Hook(k) \/ Discard(k) \/ Publish(k)
    \/ Release(k)

TunnelStep(c) ==
    \/ TimerFires(c) \/ IdleCallback(c) \/ CloseRemoved(c)
    \/ TunnelDies(c) \/ Retire(c) \/ Forget(c)

Next ==
    \/ \E k \in Callers : CallerStep(k)
    \/ \E c \in Clients : TunnelStep(c)
    \/ CloseAll

Spec == Init /\ [][Next]_vars

(* A goroutine inside Acquire keeps running, handshakes are bounded by     *)
(* timeouts, timers fire, callbacks and Close calls run.  Nobody is        *)
(* obliged to call Acquire, Release or CloseAll.                           *)
Fairness ==
    /\ \A k \in Callers :
          /\ WF_vars(AcquireClosed(k) \/ AcquireFull(k) \/ \E c \in Clients : AcquireReuse(k, c))
          /\ WF_vars(Connect(k) \/ Register(k) \/ Hook(k) \/ Discard(k) \/ Publish(k))
    /\ \A c \in Clients :
          /\ WF_vars(TimerFires(c))
          /\ WF_vars(IdleCallback(c))
          /\ WF_vars(CloseRemoved(c))
          /\ WF_vars(Forget(c))

FairSpec == Spec /\ Fairness

-----------------------------------------------------------------------------
(* Properties *)

(* The refCount of a listed session is the number of callers that reserved *)
(* it in Acquire and have not released it: no interleaving of Acquire,     *)
(* Release, the idle callback and forget loses or doubles a reservation.   *)
RefCountExact == \A c \in sessions : refCount[c] = Cardinality(Holders(c))

(* No tunnel ever carries more reservations than key.maxRealms, forgotten  *)
(* and closing tunnels included (findAvailableSession reserves before Dial).*)
RealmCap == \A c \in Clients : Cardinality(Holders(c)) <= MaxRealms

(* Nothing is listed after CloseAll: an Acquire that was handshaking when  *)
(* the manager closed does not slip its session in afterwards.             *)
ClosedEmpty == closed => sessions = {}

(* Every open tunnel has an owner that will close it: the list, a          *)
(* goroutine committed to Close, or the Acquire that is creating it.       *)
OpenTunnelOwned ==
    \A c \in Clients : tunnel[c] = "open" =>
        \/ c \in sessions \cup closing
        \/ \E k \in Callers : client[k] = c /\ pc[k] \in {"register", "discard"}

(* A listed session without holders always has an idle timer running or an *)
(* expired callback pending, so it cannot stay open for ever.              *)
IdleCovered ==
    \A c \in sessions : refCount[c] = 0 => idleTimer[c] \/ expired[c] > 0

(* Until CloseAll, the manager closes a tunnel only after its last holder  *)
(* released it: an idle callback racing with Acquire never takes the       *)
(* tunnel away from the new holder.                                        *)
NoCloseUnderHolder == ~closed => \A c \in closing : Holders(c) = {}

(* With a pinned local port the list never holds two sessions, not even a   *)
(* dead one beside its successor: Acquire's capacity error and the single  *)
(* inflight handshake together keep a second tunnel from being opened.     *)
PinnedPortOneSession == fixedPort => Cardinality(sessions) <= 1

(* A tunnel that closes on its own leaves the list even when it dies before*)
(* SetOnClose installed the callback.                                      *)
DeadIsForgotten ==
    \A c \in Clients : (tunnel[c] = "closed") ~> (c \notin sessions)

(* A caller waiting for another caller's handshake is woken, also when     *)
(* the handshake fails or the manager closes.                              *)
WaiterWakes == \A k \in Callers : (pc[k] = "wait") ~> (pc[k] # "wait")

(* After CloseAll every tunnel ends closed and stays so, the ones whose    *)
(* handshake was in flight included.                                       *)
ShutdownClosesAll == closed ~> [](\A c \in Clients : tunnel[c] # "open")

(* A tunnel without holders, retired or idle, is reused or closed.         *)
UnusedTunnelGoes ==
    \A c \in Clients : (tunnel[c] = "open" /\ Holders(c) = {})
                           ~> (tunnel[c] = "closed" \/ Holders(c) # {})

(* Acquire documents that a pinned local port is not bound by two live     *)
(* tunnels: no handshake runs while another tunnel of the key is open.     *)
FixedPortAlone ==
    fixedPort /\ inflight # None =>
        \A c \in Clients : tunnel[c] = "open" => client[inflight] = c
=============================================================================
