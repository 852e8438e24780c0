------------------------------- MODULE Realms -------------------------------
(***************************************************************************)
(* The life of a realm in tunnel.go: Tunnel.Dial with its BIND retries,    *)
(* the reader's CONN, DISC and overflow handling, Conn.Close, Tunnel.Close *)
(* over the realms and connCh maps, and Client.Dial of dahua.go, which     *)
(* retires a tunnel that refuses realms.                                   *)
(*                                                                         *)
(* A map operation under its mutex is one action; dialMu is held from      *)
(* LockDial to the return of Dial and t.mu by Close from its first to its  *)
(* last step.  The device may answer any BIND at any time, any number of   *)
(* times and in any order, or never: UDP loses, repeats and reorders.      *)
(***************************************************************************)
EXTENDS Naturals, FiniteSets

CONSTANTS
    Dialers,         \* goroutines that call Client.Dial
    Ids,             \* realm ids
    None,            \* no entry in a map
    MaxRetries,      \* maxRetries of Tunnel.Dial
    MaxBindFailures, \* maxBindFailures of Client.Dial
    MaxConns         \* bound: BIND attempts

Conns == 1..MaxConns

ASSUME RealmsAssumption ==
    /\ MaxRetries \in Nat \ {0} /\ MaxBindFailures \in Nat \ {0} /\ MaxConns \in Nat
    /\ None \notin Ids \cup Conns

VARIABLES
    closed, retired,
    swapped,       \* t.realms is nil
    realms,        \* t.realms: id -> Conn
    connCh,        \* t.connCh: id -> the Conn whose channel is registered
    granted,       \* Conns whose channel holds the token of a CONN
    bindFailures,
    made,          \* number of Conns created
    realmID,       \* Conn.realmID
    stage,         \* who owns a Conn
    connClosed,    \* Conns with Conn.closed set
    pc, attempt, cur,  \* of each dialer
    bound,         \* ids the device may have received a BIND for
    readerPc, reading, \* the reader and the Conn it handles
    closerPc, toSignal \* Tunnel.Close and the realms it still has to signal

maps == <<swapped, realms, connCh>>
conns == <<made, realmID, stage, connClosed, granted>>
dialers == <<pc, attempt, cur>>
reader == <<readerPc, reading>>
closer == <<closerPc, toSignal>>
vars == <<closed, retired, maps, bindFailures, conns, dialers, bound, reader, closer>>

TypeOK ==
    /\ closed \in BOOLEAN /\ retired \in BOOLEAN /\ swapped \in BOOLEAN
    /\ realms \in [Ids -> Conns \cup {None}]
    /\ connCh \in [Ids -> Conns \cup {None}]
    /\ granted \subseteq Conns
    /\ bindFailures \in Nat
    /\ made \in 0..MaxConns
    /\ realmID \in [Conns -> Ids \cup {None}]
    /\ stage \in [Conns -> {"unmade", "dialing", "open", "closing", "closed"}]
    /\ connClosed \subseteq Conns
    /\ pc \in [Dialers -> {"idle", "queue", "recheck", "install", "register", "bind",
                           "await", "fail", "failCh", "retry", "retryCh",
                           "exhausted", "judge", "report", "retire"}]
    /\ attempt \in [Dialers -> 0..MaxRetries]
    /\ cur \in [Dialers -> Conns \cup {None}]
    /\ bound \subseteq Ids
    /\ readerPc \in {"idle", "overflow", "signal", "blocked", "exited"}
    /\ reading \in Conns \cup {None}
    /\ closerPc \in {"idle", "swap", "wake", "done"}
    /\ toSignal \subseteq Conns

Init ==
    /\ closed = FALSE /\ retired = FALSE /\ swapped = FALSE
    /\ realms = [i \in Ids |-> None]
    /\ connCh = [i \in Ids |-> None]
    /\ granted = {} /\ connClosed = {}
    /\ bindFailures = 0 /\ made = 0
    /\ realmID = [c \in Conns |-> None]
    /\ stage = [c \in Conns |-> "unmade"]
    /\ pc = [d \in Dialers |-> "idle"]
    /\ attempt = [d \in Dialers |-> 0]
    /\ cur = [d \in Dialers |-> None]
    /\ bound = {}
    /\ readerPc = "idle" /\ reading = None
    /\ closerPc = "idle" /\ toSignal = {}

Goto(d, label) == pc' = [pc EXCEPT ![d] = label]

Dialing(d) == pc[d] \notin {"idle", "queue", "judge", "report", "retire"}
DialMuFree == \A d \in Dialers : ~Dialing(d)
MuFree == closerPc \in {"idle", "done"}
ConnChMuFree == readerPc # "blocked"

IdOf(d) == realmID[cur[d]]
Without(map, id) == [map EXCEPT ![id] = None]

-----------------------------------------------------------------------------
(* Tunnel.Dial *)

StartDial(d) ==
    /\ pc[d] = "idle"
    /\ MuFree /\ ~closed /\ ~retired
    /\ Goto(d, "queue")
    /\ UNCHANGED <<closed, retired, maps, bindFailures, conns, attempt, cur, bound, reader, closer>>

LockDial(d) ==
    /\ pc[d] = "queue"
    /\ DialMuFree
    /\ Goto(d, "recheck")
    /\ UNCHANGED <<closed, retired, maps, bindFailures, conns, attempt, cur, bound, reader, closer>>

Recheck(d) ==
    /\ pc[d] = "recheck"
    /\ MuFree
    /\ Goto(d, IF closed \/ retired THEN "idle" ELSE "install")
    /\ UNCHANGED <<closed, retired, maps, bindFailures, conns, attempt, cur, bound, reader, closer>>

(* randomRealmID: an id no realm has now; it may have been used before. *)
NewId(id) == realms[id] = None

MapTornDownIgnored == FALSE
MapTornDown == swapped

(* One attempt: create the Conn and install it, unless Close took the map. *)
Install(d) ==
    /\ pc[d] = "install"
    /\ IF MapTornDown
       THEN /\ Goto(d, "idle")
            /\ attempt' = [attempt EXCEPT ![d] = 0]
            /\ UNCHANGED <<made, realmID, stage, realms, cur>>
       ELSE \E id \in Ids :
            /\ made < MaxConns
            /\ NewId(id)
            /\ made' = made + 1
            /\ realmID' = [realmID EXCEPT ![made'] = id]
            /\ stage' = [stage EXCEPT ![made'] = "dialing"]
            /\ realms' = [realms EXCEPT ![id] = made']
            /\ cur' = [cur EXCEPT ![d] = made']
            /\ attempt' = [attempt EXCEPT ![d] = @ + 1]
            /\ Goto(d, "register")
    /\ UNCHANGED <<closed, retired, swapped, connCh, bindFailures, connClosed, granted, bound,
                   reader, closer>>

Register(d) ==
    /\ pc[d] = "register"
    /\ ConnChMuFree
    /\ connCh' = [connCh EXCEPT ![IdOf(d)] = cur[d]]
    /\ Goto(d, "bind")
    /\ UNCHANGED <<closed, retired, swapped, realms, bindFailures, conns, attempt, cur, bound,
                   reader, closer>>

BindFailedLeaking == "idle"
BindFailed == "fail"

(* sendPacket(BIND) reaches the device, is lost (never answered), or fails. *)
Bind(d) ==
    /\ pc[d] = "bind"
    /\ \/ bound' = bound \cup {IdOf(d)} /\ Goto(d, "await")
       \/ UNCHANGED bound /\ Goto(d, BindFailed)
    /\ UNCHANGED <<closed, retired, maps, bindFailures, conns, attempt, cur, reader, closer>>

(* Dial returns, with or without a Conn. *)
Return(d, label) ==
    /\ Goto(d, label)
    /\ attempt' = [attempt EXCEPT ![d] = 0]
    /\ cur' = [cur EXCEPT ![d] = None]

AwaitGranted(d) ==
    /\ pc[d] = "await"
    /\ cur[d] \in granted
    /\ granted' = granted \ {cur[d]}
    /\ bindFailures' = 0
    /\ stage' = [stage EXCEPT ![cur[d]] = "open"]
    /\ Return(d, "idle")
    /\ UNCHANGED <<closed, retired, maps, made, realmID, connClosed, bound, reader, closer>>

AwaitDone(d) ==
    /\ pc[d] = "await"
    /\ closed
    /\ Goto(d, "fail")
    /\ UNCHANGED <<closed, retired, maps, bindFailures, conns, attempt, cur, bound, reader, closer>>

(* retryTimeout may win against a token that is already in the channel. *)
AwaitTimeout(d) ==
    /\ pc[d] = "await"
    /\ Goto(d, "retry")
    /\ UNCHANGED <<closed, retired, maps, bindFailures, conns, attempt, cur, bound, reader, closer>>

(* cleanup(), first half: the Conn is dropped and was never handed out. *)
CleanupRealm(d) ==
    /\ pc[d] \in {"fail", "retry"}
    /\ realms' = Without(realms, IdOf(d))
    /\ stage' = [stage EXCEPT ![cur[d]] = "closed"]
    /\ Goto(d, IF pc[d] = "fail" THEN "failCh" ELSE "retryCh")
    /\ UNCHANGED <<closed, retired, swapped, connCh, bindFailures, made, realmID, connClosed,
                   granted, attempt, cur, bound, reader, closer>>

RetriesLeft(d) == attempt[d] < MaxRetries

(* cleanup(), second half, and what Dial does next. *)
CleanupCh(d) ==
    /\ pc[d] \in {"failCh", "retryCh"}
    /\ ConnChMuFree
    /\ connCh' = Without(connCh, IdOf(d))
    /\ granted' = granted \ {cur[d]}
    /\ \/ /\ pc[d] = "failCh"
          /\ Return(d, "idle") /\ UNCHANGED bindFailures
       \/ /\ pc[d] = "retryCh"
          /\ RetriesLeft(d)
          /\ Goto(d, "install")
          /\ cur' = [cur EXCEPT ![d] = None]
          /\ UNCHANGED <<attempt, bindFailures>>
       \/ /\ pc[d] = "retryCh"
          /\ ~RetriesLeft(d)
          /\ bindFailures' = bindFailures + 1
          /\ Return(d, "exhausted")
    /\ UNCHANGED <<closed, retired, swapped, realms, made, realmID, stage, connClosed, bound,
                   reader, closer>>

(* The error report asks IsClosed, which waits for t.mu, with dialMu held. *)
Exhausted(d) ==
    /\ pc[d] = "exhausted"
    /\ MuFree
    /\ Goto(d, "judge")
    /\ UNCHANGED <<closed, retired, maps, bindFailures, conns, attempt, cur, bound, reader, closer>>

-----------------------------------------------------------------------------
(* Client.Dial after ErrDialTimeout.  BindFailures() waits for dialMu, once *)
(* in the condition and once more in the arguments of reportError.          *)

(* No packet for deadTunnelSilence: Close, which another caller may have run. *)
JudgeSilent(d) ==
    /\ pc[d] = "judge"
    /\ MuFree
    /\ closed' = TRUE
    /\ closerPc' = IF closed THEN closerPc ELSE "swap"
    /\ Goto(d, "idle")
    /\ UNCHANGED <<retired, maps, bindFailures, conns, attempt, cur, bound, reader, toSignal>>

JudgeKeep(d) ==
    /\ pc[d] = "judge"
    /\ DialMuFree
    /\ bindFailures < MaxBindFailures
    /\ Goto(d, "idle")
    /\ UNCHANGED <<closed, retired, maps, bindFailures, conns, attempt, cur, bound, reader, closer>>

JudgeFailures(d) ==
    /\ pc[d] = "judge"
    /\ DialMuFree
    /\ bindFailures >= MaxBindFailures
    /\ Goto(d, "report")
    /\ UNCHANGED <<closed, retired, maps, bindFailures, conns, attempt, cur, bound, reader, closer>>

Report(d) ==
    /\ pc[d] = "report"
    /\ DialMuFree
    /\ Goto(d, "retire")
    /\ UNCHANGED <<closed, retired, maps, bindFailures, conns, attempt, cur, bound, reader, closer>>

Retire(d) ==
    /\ pc[d] = "retire"
    /\ MuFree
    /\ retired' = TRUE
    /\ Goto(d, "idle")
    /\ UNCHANGED <<closed, maps, bindFailures, conns, attempt, cur, bound, reader, closer>>

-----------------------------------------------------------------------------
(* reader *)

(* The loop asks for t.done before each read, so a reader that is waiting  *)
(* for a packet when Close closes t.done still handles that one.           *)
NextPacket == IF closed THEN "exited" ELSE "idle"

ConnChKept(id) == connCh
ConnChAfterGrant(id) == Without(connCh, id)

(* ch <- true under connChMu blocks the reader when the channel is full. *)
ReceiveConnect(id) ==
    /\ readerPc = "idle"
    /\ id \in bound
    /\ connCh[id] # None
    /\ IF connCh[id] \in granted
       THEN readerPc' = "blocked" /\ UNCHANGED <<granted, connCh>>
       ELSE /\ granted' = granted \cup {connCh[id]}
            /\ connCh' = ConnChAfterGrant(id)
            /\ readerPc' = NextPacket
    /\ UNCHANGED <<closed, retired, swapped, realms, bindFailures, made, realmID, stage,
                   connClosed, dialers, bound, reading, closer>>

DisconnectUnseen(id) == readerPc' = NextPacket /\ reading' = None
SignalNext(id) == readerPc' = "signal" /\ reading' = realms[id]

ReceiveDisconnect(id) ==
    /\ readerPc = "idle"
    /\ id \in bound
    /\ realms[id] # None
    /\ SignalNext(id)
    /\ realms' = Without(realms, id)
    /\ UNCHANGED <<closed, retired, swapped, connCh, bindFailures, conns, dialers, bound, closer>>

(* A payload for a Conn whose dataCh is full. *)
ReceiveOverflow(id) ==
    /\ readerPc = "idle"
    /\ id \in bound
    /\ realms[id] # None
    /\ readerPc' = "overflow"
    /\ reading' = realms[id]
    /\ UNCHANGED <<closed, retired, maps, bindFailures, conns, dialers, bound, closer>>

OverflowDelete ==
    /\ readerPc = "overflow"
    /\ realms' = Without(realms, realmID[reading])
    /\ readerPc' = "signal"
    /\ UNCHANGED <<closed, retired, swapped, connCh, bindFailures, conns, dialers, bound,
                   reading, closer>>

ReaderSignal ==
    /\ readerPc = "signal"
    /\ connClosed' = connClosed \cup {reading}
    /\ readerPc' = NextPacket /\ reading' = None
    /\ UNCHANGED <<closed, retired, maps, bindFailures, made, realmID, stage, granted, dialers,
                   bound, closer>>

-----------------------------------------------------------------------------
(* Conn.Close *)

(* A Conn that the tunnel closed already needs no DISC and no delete. *)
CloseConn(c) ==
    /\ stage[c] = "open"
    /\ stage' = [stage EXCEPT ![c] = IF c \in connClosed THEN "closed" ELSE "closing"]
    /\ connClosed' = connClosed \cup {c}
    /\ UNCHANGED <<closed, retired, maps, bindFailures, made, realmID, granted, dialers, bound,
                   reader, closer>>

(* After the DISCs, which SendPath models. *)
CloseConnDelete(c) ==
    /\ stage[c] = "closing"
    /\ realms' = Without(realms, realmID[c])
    /\ stage' = [stage EXCEPT ![c] = "closed"]
    /\ UNCHANGED <<closed, retired, swapped, connCh, bindFailures, made, realmID, connClosed,
                   granted, dialers, bound, reader, closer>>

-----------------------------------------------------------------------------
(* Tunnel.Close *)

StartClose ==
    /\ closerPc = "idle"
    /\ closed' = TRUE
    /\ closerPc' = "swap"
    /\ UNCHANGED <<retired, maps, bindFailures, conns, dialers, bound, reader, toSignal>>

(* Take the realms and leave a nil map. *)
SwapRealms ==
    /\ closerPc = "swap"
    /\ toSignal' = {realms[id] : id \in Ids} \ {None}
    /\ realms' = [id \in Ids |-> None]
    /\ swapped' = TRUE
    /\ closerPc' = "wake"
    /\ UNCHANGED <<closed, retired, connCh, bindFailures, conns, dialers, bound, reader>>

WakeRealm(c) ==
    /\ closerPc = "wake"
    /\ c \in toSignal
    /\ toSignal' = toSignal \ {c}
    /\ connClosed' = connClosed \cup {c}
    /\ UNCHANGED <<closed, retired, maps, bindFailures, made, realmID, stage, granted, dialers,
                   bound, reader, closerPc>>

EndClose ==
    /\ closerPc = "wake"
    /\ toSignal = {}
    /\ closerPc' = "done"
    /\ UNCHANGED <<closed, retired, maps, bindFailures, conns, dialers, bound, reader, toSignal>>

-----------------------------------------------------------------------------
DialStep(d) ==
    \/ LockDial(d) \/ Recheck(d) \/ Install(d) \/ Register(d) \/ Bind(d)
    \/ AwaitGranted(d) \/ AwaitDone(d) \/ AwaitTimeout(d)
    \/ CleanupRealm(d) \/ CleanupCh(d) \/ Exhausted(d)
    \/ JudgeSilent(d) \/ JudgeKeep(d) \/ JudgeFailures(d) \/ Report(d) \/ Retire(d)

Device ==
    \E id \in Ids : ReceiveConnect(id) \/ ReceiveDisconnect(id) \/ ReceiveOverflow(id)

ReaderStep == OverflowDelete \/ ReaderSignal

CloserStep == SwapRealms \/ EndClose \/ \E c \in Conns : WakeRealm(c)

Next ==
    \/ \E d \in Dialers : StartDial(d) \/ DialStep(d)
    \/ Device \/ ReaderStep
    \/ \E c \in Conns : CloseConn(c) \/ CloseConnDelete(c)
    \/ StartClose \/ CloserStep

Spec == Init /\ [][Next]_vars

(* A goroutine queued on dialMu or t.mu is served in turn; retryTimeout    *)
(* fires; the reader goes on.  Nobody has to answer a BIND, and nothing    *)
(* forces the send of a BIND, which waits for the permit, or Tunnel.Close, *)
(* which waits for ackMu and the permit with t.mu held, to complete.       *)
Fairness ==
    /\ \A d \in Dialers : SF_vars(pc[d] # "bind" /\ DialStep(d))
    /\ WF_vars(ReaderStep)

FairSpec == Spec /\ Fairness

-----------------------------------------------------------------------------
(* Properties *)

ToBeSignalled(c) == c \in toSignal \/ (readerPc = "signal" /\ reading = c)

(* randomRealmID has not repeated an id so far (they are 32 bits long). *)
IdsDistinct == \A c, e \in 1..made : realmID[c] = realmID[e] => c = e

(* While ids do not repeat, a Conn in the application's hands that nobody  *)
(* closed still receives: it is in the realms map, or the goroutine that   *)
(* took it out is about to signal it.  Dial, cleanup, DISC, overflow,      *)
(* Conn.Close and Tunnel.Close may run in any order.                       *)
LiveConnRouted ==
    IdsDistinct =>
        \A c \in Conns : stage[c] = "open" /\ c \notin connClosed
                            => realms[realmID[c]] = c \/ ToBeSignalled(c)

(* While ids do not repeat, Close leaves nobody behind: once it returned,  *)
(* every Conn that Dial handed out before, during or after it has been or  *)
(* is being signalled.                                                     *)
CloseReachesAll ==
    IdsDistinct /\ closerPc = "done" =>
        \A c \in Conns : stage[c] = "open" => c \in connClosed \/ ToBeSignalled(c)

(* Failed dials leave nothing in the maps: a realms entry is a Conn some   *)
(* Dial works on or the application has, a connCh entry is the Conn a Dial *)
(* works on now.                                                           *)
NoMapLeak ==
    \A id \in Ids :
        /\ realms[id] # None => stage[realms[id]] \in {"dialing", "open", "closing"}
        /\ connCh[id] # None => \E d \in Dialers : cur[d] = connCh[id]
        /\ realms[id] # None /\ stage[realms[id]] = "dialing"
               => \E d \in Dialers : cur[d] = realms[id]

(* The reader serves every realm, so a repeated or late CONN must not      *)
(* block it on a full channel while it holds connChMu.                     *)
ReaderNeverBlocks == readerPc # "blocked"

(* The bounds of the model, on attempts and ids, stop the Dial that holds  *)
(* dialMu.                                                                 *)
OutOfBounds ==
    /\ \E d \in Dialers : pc[d] = "install"
    /\ made = MaxConns \/ \A id \in Ids : ~NewId(id)

(* No BIND waits for the permit, and no Close keeps t.mu, for ever. *)
BindsEnd == \A d \in Dialers : []<>(pc[d] # "bind")
CloseEnds == []<>MuFree

(* While BIND sends and Close end, every Dial that was let in returns,     *)
(* whatever the device does, unless the bounds of the model stop it: it is *)
(* not held up for ever by the dials before it, by the reader, or between  *)
(* the locks dialMu, t.mu and connChMu.                                    *)
DialReturns ==
    BindsEnd /\ CloseEnds =>
        \A d \in Dialers : (pc[d] = "queue") ~> (pc[d] = "idle" \/ OutOfBounds)
=============================================================================
