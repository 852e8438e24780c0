---------------------------- MODULE RealmsProofs ----------------------------
(***************************************************************************)
(* The maps of the tunnel for any number of dialers, realm ids and         *)
(* attempts.  What makes the properties inductive: dialMu lets one Dial    *)
(* work at a time, a map entry is filed under its Conn's own id, and a     *)
(* Conn leaves the map before the tunnel signals it.                       *)
(***************************************************************************)
EXTENDS Realms, TLAPS

(* Labels at which a Dial works on cur[d]. *)
AtWork == {"register", "bind", "await", "fail", "failCh", "retry", "retryCh"}

(* One Dial at a time, and it alone has a Conn in hand. *)
DialSerial ==
    /\ \A d, e \in Dialers : Dialing(d) /\ Dialing(e) => d = e
    /\ \A d \in Dialers :
           IF pc[d] \in AtWork
           THEN /\ cur[d] \in 1..made
                /\ stage[cur[d]] = IF pc[d] \in {"failCh", "retryCh"} THEN "closed" ELSE "dialing"
           ELSE cur[d] = None

(* Dial counts its attempts from zero and stops at the last. *)
Attempts ==
    \A d \in Dialers :
        /\ pc[d] \in {"idle", "queue", "recheck", "exhausted", "judge", "report", "retire"}
               => attempt[d] = 0
        /\ pc[d] = "install" => attempt[d] < MaxRetries

(* The Conns created so far have an id and those to come are nowhere. *)
Created ==
    \A c \in Conns :
        /\ c > made => stage[c] = "unmade" /\ c \notin connClosed
        /\ c <= made => stage[c] # "unmade" /\ realmID[c] \in Ids

(* The Conn of a Dial that has registered its channel. *)
Registered == {"bind", "await", "fail", "failCh", "retry", "retryCh"}
Owned(c) == \E d \in Dialers : pc[d] \in Registered /\ cur[d] = c

(* A registered channel, or one with a token, belongs to the Dial at work, *)
(* and no channel is both.                                                 *)
Channels ==
    /\ \A id \in Ids : connCh[id] # None =>
           /\ connCh[id] \notin granted
           /\ realmID[connCh[id]] = id
           /\ Owned(connCh[id])
    /\ \A c \in granted : Owned(c)

(* A Conn in the map is filed under its id and has an owner. *)
Filed ==
    \A id \in Ids : realms[id] # None =>
        /\ realms[id] <= made
        /\ realmID[realms[id]] = id
        /\ stage[realms[id]] \in {"dialing", "open", "closing"}
        /\ stage[realms[id]] = "dialing" => \E d \in Dialers : cur[d] = realms[id]

(* The tunnel signals only Conns that left the map. *)
OutBeforeSignal ==
    /\ \A c \in connClosed : stage[c] # "closing" => \A id \in Ids : realms[id] # c
    /\ readerPc \in {"overflow", "signal"} => reading \in 1..made
    /\ readerPc = "signal" => \A id \in Ids : realms[id] # reading
    /\ toSignal \subseteq 1..made
    /\ closerPc \in {"idle", "swap", "done"} => toSignal = {}
    /\ closerPc \in {"wake", "done"} => swapped
    /\ swapped => \A id \in Ids : realms[id] = None

(* A Conn that Dial works on or has handed out, and nobody closed, is      *)
(* routed, while ids do not repeat.                                        *)
Routed ==
    IdsDistinct =>
        \A c \in Conns : stage[c] \in {"dialing", "open"} /\ c \notin connClosed
                            => realms[realmID[c]] = c \/ ToBeSignalled(c)

Structure == TypeOK /\ DialSerial /\ Attempts /\ Created /\ Channels /\ Filed /\ OutBeforeSignal
             /\ Routed /\ ReaderNeverBlocks

USE RealmsAssumption DEF Conns, maps, conns, dialers, reader, closer, Goto

(* A Conn stays owned when its Dial keeps it. *)
LEMMA OwnersStay ==
    ASSUME \A e \in Dialers : pc[e] \in Registered => pc'[e] \in Registered /\ cur'[e] = cur[e]
    PROVE  \A c : Owned(c) => Owned(c)'
BY Zenon DEF Owned

(* A Dial at work has a Conn with an id. *)
LEMMA CurHasId ==
    ASSUME TypeOK, DialSerial, Created, NEW d \in Dialers, pc[d] \in AtWork
    PROVE  /\ cur[d] \in Conns /\ cur[d] \in 1..made /\ IdOf(d) \in Ids /\ Dialing(d)
           /\ stage[cur[d]] = IF pc[d] \in {"failCh", "retryCh"} THEN "closed" ELSE "dialing"
BY DEF TypeOK, DialSerial, Created, IdOf, AtWork, Dialing

(* While a Dial works, the others do not. *)
LEMMA WorksAlone ==
    ASSUME TypeOK, DialSerial, NEW d \in Dialers, Dialing(d)
    PROVE  \A e \in Dialers : e # d => ~Dialing(e) /\ pc[e] \notin AtWork /\ cur[e] = None
BY Zenon DEF TypeOK, DialSerial, AtWork, Dialing

(* What the next packet of the reader is. *)
LEMMA NextPacketType == NextPacket \in {"exited", "idle"}
BY Zenon DEF NextPacket

(* What Return assigns. *)
LEMMA ReturnType ==
    ASSUME TypeOK, NEW d \in Dialers, NEW label \in {"idle", "exhausted"}, Return(d, label)
    PROVE  (/\ pc \in [Dialers -> {"idle", "queue", "recheck", "install", "register", "bind",
                                   "await", "fail", "failCh", "retry", "retryCh",
                                   "exhausted", "judge", "report", "retire"}]
            /\ attempt \in [Dialers -> 0..MaxRetries]
            /\ cur \in [Dialers -> Conns \cup {None}])'
BY DEF TypeOK, Return

(* The two outcomes of Install, and what both leave alone. *)
GivesUp(d) ==
    /\ pc' = [pc EXCEPT ![d] = "idle"]
    /\ attempt' = [attempt EXCEPT ![d] = 0]
    /\ UNCHANGED <<made, realmID, stage, realms, cur>>
Creates(d, id) ==
    /\ ~swapped /\ made < MaxConns /\ realms[id] = None
    /\ made' = made + 1
    /\ realmID' = [realmID EXCEPT ![made + 1] = id]
    /\ stage' = [stage EXCEPT ![made + 1] = "dialing"]
    /\ realms' = [realms EXCEPT ![id] = made + 1]
    /\ cur' = [cur EXCEPT ![d] = made + 1]
    /\ attempt' = [attempt EXCEPT ![d] = @ + 1]
    /\ pc' = [pc EXCEPT ![d] = "register"]
Untouched ==
    UNCHANGED <<closed, retired, swapped, connCh, bindFailures, connClosed, granted, bound,
                readerPc, reading, closerPc, toSignal>>

(* Install gives up, or creates Conn made + 1 with a free id. *)
LEMMA InstallSteps ==
    ASSUME NEW d \in Dialers, Install(d)
    PROVE  /\ pc[d] = "install"
           /\ GivesUp(d) \/ \E id \in Ids : Creates(d, id)
           /\ Untouched
BY Zenon DEF Install, GivesUp, Creates, Untouched, MapTornDown, NewId

(* No other Dial owns a Conn. *)
LEMMA OwnerUnique ==
    ASSUME TypeOK, DialSerial, Created, NEW d \in Dialers, Dialing(d), NEW c, Owned(c)
    PROVE  pc[d] \in Registered /\ cur[d] = c
BY Zenon DEF TypeOK, DialSerial, Owned, Registered, Dialing

(* The types of Dial, the reader and Close are kept by every step. *)
LEMMA TypePreserved == Structure /\ [Next]_vars => TypeOK'
<1> SUFFICES ASSUME Structure, [Next]_vars PROVE TypeOK'
  BY Zenon
<1>h. TypeOK /\ DialSerial /\ Created /\ Attempts /\ OutBeforeSignal
  BY Zenon DEF Structure
<1>1. ASSUME NEW d \in Dialers, StartDial(d) PROVE TypeOK'
  BY <1>h, <1>1, Zenon DEF StartDial, TypeOK
<1>2. ASSUME NEW d \in Dialers, LockDial(d) PROVE TypeOK'
  BY <1>h, <1>2 DEF LockDial, TypeOK
<1>3. ASSUME NEW d \in Dialers, Recheck(d) PROVE TypeOK'
  BY <1>h, <1>3 DEF Recheck, TypeOK
<1>4. ASSUME NEW d \in Dialers, Install(d) PROVE TypeOK'
  <2>1. Untouched /\ pc[d] = "install"
    BY <1>4, InstallSteps, Zenon
  <2>2. CASE GivesUp(d)
    BY <1>h, <2>1, <2>2 DEF GivesUp, Untouched, TypeOK
  <2>3. ASSUME NEW id \in Ids, Creates(d, id) PROVE TypeOK'
    BY <1>h, <2>1, <2>3 DEF Creates, Untouched, TypeOK, Attempts
  <2> QED
    BY <1>4, <2>2, <2>3, InstallSteps, Zenon
<1>5. ASSUME NEW d \in Dialers, Register(d) PROVE TypeOK'
  <2>1. cur[d] \in Conns /\ cur[d] \in 1..made /\ IdOf(d) \in Ids
    BY <1>h, <1>5, CurHasId, Zenon DEF AtWork, Register
  <2> QED
    BY <1>h, <1>5, <2>1 DEF Register, TypeOK
<1>6. ASSUME NEW d \in Dialers, Bind(d) PROVE TypeOK'
  <2>1. cur[d] \in Conns /\ cur[d] \in 1..made /\ IdOf(d) \in Ids
    BY <1>h, <1>6, CurHasId, Zenon DEF AtWork, Bind, BindFailed
  <2> QED
    BY <1>h, <1>6, <2>1, Zenon DEF Bind, BindFailed, TypeOK
<1>7. ASSUME NEW d \in Dialers, AwaitGranted(d) PROVE TypeOK'
  <2>1. cur[d] \in Conns /\ cur[d] \in 1..made /\ IdOf(d) \in Ids
    BY <1>h, <1>7, CurHasId, Zenon DEF AtWork, AwaitGranted
  <2>2. Return(d, "idle")
    BY <1>7, Zenon DEF AwaitGranted
  <2> QED
    BY <1>h, <1>7, <2>1, <2>2, ReturnType, Zenon DEF AwaitGranted, TypeOK
<1>8. ASSUME NEW d \in Dialers, AwaitDone(d) PROVE TypeOK'
  BY <1>h, <1>8, Zenon DEF AwaitDone, TypeOK
<1>9. ASSUME NEW d \in Dialers, AwaitTimeout(d) PROVE TypeOK'
  BY <1>h, <1>9, Zenon DEF AwaitTimeout, TypeOK
<1>10. ASSUME NEW d \in Dialers, CleanupRealm(d) PROVE TypeOK'
  <2>1. cur[d] \in Conns /\ cur[d] \in 1..made /\ IdOf(d) \in Ids
    BY <1>h, <1>10, CurHasId, Zenon DEF AtWork, CleanupRealm, Without
  <2> QED
    BY <1>h, <1>10, <2>1 DEF CleanupRealm, Without, TypeOK
<1>11. ASSUME NEW d \in Dialers, CleanupCh(d) PROVE TypeOK'
  <2>1. cur[d] \in Conns /\ IdOf(d) \in Ids
    BY <1>h, <1>11, CurHasId, Zenon DEF AtWork, CleanupCh
  <2>2. (/\ pc \in [Dialers -> {"idle", "queue", "recheck", "install", "register", "bind",
                               "await", "fail", "failCh", "retry", "retryCh",
                               "exhausted", "judge", "report", "retire"}]
         /\ attempt \in [Dialers -> 0..MaxRetries]
         /\ cur \in [Dialers -> Conns \cup {None}]
         /\ bindFailures \in Nat)'
    <3>1. CASE Return(d, "idle") /\ UNCHANGED bindFailures
      BY <1>h, <3>1, ReturnType, Zenon DEF TypeOK
    <3>2. CASE /\ pc' = [pc EXCEPT ![d] = "install"] /\ cur' = [cur EXCEPT ![d] = None]
               /\ UNCHANGED <<attempt, bindFailures>>
      BY <1>h, <3>2, Zenon DEF TypeOK
    <3>3. CASE bindFailures' = bindFailures + 1 /\ Return(d, "exhausted")
      BY <1>h, <3>3, ReturnType DEF TypeOK
    <3> QED
      BY <1>11, <3>1, <3>2, <3>3, Zenon DEF CleanupCh
  <2> QED
    BY <1>h, <1>11, <2>1, <2>2, Zenon DEF CleanupCh, Without, TypeOK
<1>12. ASSUME NEW d \in Dialers, Exhausted(d) PROVE TypeOK'
  BY <1>h, <1>12, Zenon DEF Exhausted, TypeOK
<1>13. ASSUME NEW d \in Dialers, JudgeSilent(d) PROVE TypeOK'
  BY <1>h, <1>13, Zenon DEF JudgeSilent, TypeOK
<1>14. ASSUME NEW d \in Dialers, JudgeKeep(d) PROVE TypeOK'
  BY <1>h, <1>14 DEF JudgeKeep, TypeOK
<1>15. ASSUME NEW d \in Dialers, JudgeFailures(d) PROVE TypeOK'
  BY <1>h, <1>15 DEF JudgeFailures, TypeOK
<1>16. ASSUME NEW d \in Dialers, Report(d) PROVE TypeOK'
  BY <1>h, <1>16 DEF Report, TypeOK
<1>17. ASSUME NEW d \in Dialers, Retire(d) PROVE TypeOK'
  BY <1>h, <1>17, Zenon DEF Retire, TypeOK
<1>18. ASSUME NEW id \in Ids, ReceiveConnect(id) PROVE TypeOK'
  <2>1. CASE connCh[id] \in granted
    BY <1>h, <1>18, <2>1, Zenon DEF ReceiveConnect, TypeOK
  <2>2. CASE connCh[id] \notin granted
    <3>1. /\ granted' = granted \cup {connCh[id]} /\ connCh' = [connCh EXCEPT ![id] = None]
          /\ readerPc' \in {"exited", "idle"}
      BY <1>18, <2>2, NextPacketType, Zenon DEF ReceiveConnect, ConnChAfterGrant, Without
    <3> QED
      BY <1>h, <1>18, <3>1, Zenon DEF ReceiveConnect, TypeOK
  <2> QED
    BY <2>1, <2>2, Zenon
<1>19. ASSUME NEW id \in Ids, ReceiveDisconnect(id) PROVE TypeOK'
  BY <1>h, <1>19, Zenon DEF ReceiveDisconnect, SignalNext, Without, TypeOK
<1>20. ASSUME NEW id \in Ids, ReceiveOverflow(id) PROVE TypeOK'
  BY <1>h, <1>20, Zenon DEF ReceiveOverflow, TypeOK
<1>21. CASE OverflowDelete
  BY <1>h, <1>21, Zenon DEF OverflowDelete, Without, TypeOK
<1>22. CASE ReaderSignal
  <2>1. readerPc' \in {"exited", "idle"} /\ reading \in Conns
    BY <1>h, <1>22, NextPacketType DEF ReaderSignal, OutBeforeSignal, TypeOK
  <2> QED
    BY <1>h, <1>22, <2>1, Zenon DEF ReaderSignal, TypeOK
<1>23. ASSUME NEW c \in Conns, CloseConn(c) PROVE TypeOK'
  BY <1>h, <1>23 DEF CloseConn, TypeOK
<1>24. ASSUME NEW c \in Conns, CloseConnDelete(c) PROVE TypeOK'
  BY <1>h, <1>24, Zenon DEF CloseConnDelete, Without, TypeOK
<1>25. CASE StartClose
  BY <1>h, <1>25, Zenon DEF StartClose, TypeOK
<1>26. CASE SwapRealms
  BY <1>h, <1>26 DEF SwapRealms, TypeOK
<1>27. CASE EndClose
  BY <1>h, <1>27, Zenon DEF EndClose, TypeOK
<1>28. ASSUME NEW c \in Conns, WakeRealm(c) PROVE TypeOK'
  BY <1>h, <1>28, Zenon DEF WakeRealm, TypeOK
<1>29. CASE UNCHANGED vars
  BY <1>h, <1>29, Zenon DEF vars, TypeOK
<1> QED
  BY Zenon, <1>1, <1>2, <1>3, <1>4, <1>5, <1>6, <1>7, <1>8, <1>9, <1>10, <1>11, <1>12, <1>13,
     <1>14, <1>15, <1>16, <1>17, <1>18, <1>19, <1>20, <1>21, <1>22, <1>23, <1>24, <1>25, <1>26,
     <1>27, <1>28, <1>29 DEF Next, DialStep, Device, ReaderStep, CloserStep

(* dialMu: one Dial at a time works on a Conn. *)
LEMMA SerialPreserved == Structure /\ [Next]_vars => DialSerial'
<1> SUFFICES ASSUME Structure, [Next]_vars PROVE DialSerial'
  BY Zenon
<1>h. TypeOK /\ DialSerial /\ Created
  BY Zenon DEF Structure
<1>1. ASSUME NEW d \in Dialers, StartDial(d) PROVE DialSerial'
  BY <1>h, <1>1 DEF StartDial, TypeOK, DialSerial, Dialing, DialMuFree, AtWork
<1>2. ASSUME NEW d \in Dialers, LockDial(d) PROVE DialSerial'
  BY <1>h, <1>2, Zenon DEF LockDial, TypeOK, DialSerial, Dialing, DialMuFree, AtWork
<1>3. ASSUME NEW d \in Dialers, Recheck(d) PROVE DialSerial'
  BY <1>h, <1>3, Zenon DEF Recheck, TypeOK, DialSerial, Dialing, DialMuFree, AtWork
<1>4. ASSUME NEW d \in Dialers, Install(d) PROVE DialSerial'
  <2>1. Untouched /\ pc[d] = "install"
    BY <1>4, InstallSteps, Zenon
  <2>2. CASE GivesUp(d)
    BY <1>h, <2>1, <2>2 DEF GivesUp, Untouched, TypeOK, DialSerial, Dialing, AtWork
  <2>3. ASSUME NEW id \in Ids, Creates(d, id) PROVE DialSerial'
    <3>1. Dialing(d)
      BY <2>1, Zenon DEF Dialing
    <3> QED
      BY <1>h, <2>1, <2>3, <3>1, WorksAlone
         DEF Creates, DialSerial, TypeOK, Dialing, AtWork
  <2> QED
    BY <1>4, <2>2, <2>3, InstallSteps, Zenon
<1>5. ASSUME NEW d \in Dialers, Register(d) PROVE DialSerial'
  BY <1>h, <1>5 DEF Register, IdOf, TypeOK, DialSerial, Dialing, DialMuFree, AtWork
<1>6. ASSUME NEW d \in Dialers, Bind(d) PROVE DialSerial'
  <2>1. /\ cur[d] \in 1..made /\ Dialing(d)
        /\ \A e \in Dialers : e # d => ~Dialing(e) /\ pc[e] \notin AtWork /\ cur[e] = None
    BY <1>h, <1>6, CurHasId, WorksAlone, Zenon DEF Bind, AtWork
  <2>2. /\ UNCHANGED <<cur, stage, made>>
        /\ \E label \in {"await", "fail"} : pc' = [pc EXCEPT ![d] = label]
    BY <1>6, Zenon DEF Bind, BindFailed
  <2> QED
    BY <1>h, <1>6, <2>1, <2>2 DEF Bind, DialSerial, TypeOK, Dialing, AtWork
<1>7. ASSUME NEW d \in Dialers, AwaitGranted(d) PROVE DialSerial'
  <2>1. pc[d] = "await" /\ Dialing(d)
    BY <1>7, Zenon DEF AwaitGranted, Dialing
  <2>2. /\ pc'[d] = "idle" /\ cur'[d] = None
        /\ \A e \in Dialers : e # d => pc'[e] = pc[e] /\ cur'[e] = cur[e]
    BY <1>h, <1>7, Zenon DEF AwaitGranted, Return, TypeOK
  <2>3. \A e \in Dialers : ~Dialing(e)' /\ pc'[e] \notin AtWork /\ cur'[e] = None
    BY <1>h, <2>1, <2>2, WorksAlone, Zenon DEF Dialing, AtWork
  <2> QED
    BY <2>3, Zenon DEF DialSerial
<1>8. ASSUME NEW d \in Dialers, AwaitDone(d) PROVE DialSerial'
  BY <1>h, <1>8 DEF AwaitDone, TypeOK, DialSerial, Dialing, DialMuFree, AtWork
<1>9. ASSUME NEW d \in Dialers, AwaitTimeout(d) PROVE DialSerial'
  BY <1>h, <1>9, Zenon DEF AwaitTimeout, TypeOK, DialSerial, Dialing, DialMuFree, AtWork
<1>10. ASSUME NEW d \in Dialers, CleanupRealm(d) PROVE DialSerial'
  <2>1. /\ cur[d] \in 1..made /\ Dialing(d)
        /\ \A e \in Dialers : e # d => ~Dialing(e) /\ pc[e] \notin AtWork /\ cur[e] = None
    BY <1>h, <1>10, CurHasId, WorksAlone, Zenon DEF CleanupRealm, AtWork
  <2>2. /\ UNCHANGED <<cur, made>>
        /\ \E label \in {"failCh", "retryCh"} : pc' = [pc EXCEPT ![d] = label]
    BY <1>10, Zenon DEF CleanupRealm
  <2> QED
    BY <1>h, <1>10, <2>1, <2>2 DEF CleanupRealm, DialSerial, TypeOK, Dialing, AtWork
<1>11. ASSUME NEW d \in Dialers, CleanupCh(d) PROVE DialSerial'
  <2>1. /\ cur[d] \in 1..made /\ Dialing(d)
        /\ \A e \in Dialers : e # d => ~Dialing(e) /\ pc[e] \notin AtWork /\ cur[e] = None
    BY <1>h, <1>11, CurHasId, WorksAlone, Zenon DEF CleanupCh, AtWork
  <2>2. /\ UNCHANGED <<stage, made>> /\ cur' = [cur EXCEPT ![d] = None]
        /\ \E label \in {"idle", "install", "exhausted"} : pc' = [pc EXCEPT ![d] = label]
    BY <1>11, Zenon DEF CleanupCh, Return
  <2> QED
    BY <1>h, <2>1, <2>2 DEF DialSerial, TypeOK, Dialing, AtWork
<1>12. ASSUME NEW d \in Dialers, Exhausted(d) PROVE DialSerial'
  BY <1>h, <1>12 DEF Exhausted, TypeOK, DialSerial, Dialing, DialMuFree, AtWork
<1>13. ASSUME NEW d \in Dialers, JudgeSilent(d) PROVE DialSerial'
  BY <1>h, <1>13, Zenon DEF JudgeSilent, TypeOK, DialSerial, Dialing, DialMuFree, AtWork
<1>14. ASSUME NEW d \in Dialers, JudgeKeep(d) PROVE DialSerial'
  BY <1>h, <1>14, Zenon DEF JudgeKeep, TypeOK, DialSerial, Dialing, DialMuFree, AtWork
<1>15. ASSUME NEW d \in Dialers, JudgeFailures(d) PROVE DialSerial'
  BY <1>h, <1>15, Zenon DEF JudgeFailures, TypeOK, DialSerial, Dialing, DialMuFree, AtWork
<1>16. ASSUME NEW d \in Dialers, Report(d) PROVE DialSerial'
  BY <1>h, <1>16 DEF Report, TypeOK, DialSerial, Dialing, DialMuFree, AtWork
<1>17. ASSUME NEW d \in Dialers, Retire(d) PROVE DialSerial'
  BY <1>h, <1>17 DEF Retire, TypeOK, DialSerial, Dialing, DialMuFree, AtWork
<1>18. ASSUME NEW c \in Conns, CloseConn(c) PROVE DialSerial'
  BY <1>h, <1>18 DEF CloseConn, TypeOK, DialSerial, Dialing, DialMuFree, AtWork
<1>19. ASSUME NEW c \in Conns, CloseConnDelete(c) PROVE DialSerial'
  BY <1>h, <1>19 DEF CloseConnDelete, Without, TypeOK, DialSerial, Dialing, DialMuFree,
     AtWork
<1>20. ASSUME NEW id \in Ids,
         ReceiveConnect(id) \/ ReceiveDisconnect(id) \/ ReceiveOverflow(id)
     PROVE DialSerial'
  BY <1>h, <1>20, Zenon DEF ReceiveConnect, ReceiveDisconnect, ReceiveOverflow, TypeOK, DialSerial,
     Dialing, DialMuFree, AtWork
<1>21. CASE OverflowDelete \/ ReaderSignal \/ StartClose \/ SwapRealms \/ EndClose
  BY <1>h, <1>21, Zenon DEF OverflowDelete, ReaderSignal, StartClose, SwapRealms, EndClose, TypeOK,
     DialSerial, Dialing, DialMuFree, AtWork
<1>22. ASSUME NEW c \in Conns,
         WakeRealm(c)
     PROVE DialSerial'
  BY <1>h, <1>22, Zenon DEF WakeRealm, TypeOK, DialSerial, Dialing, DialMuFree, AtWork
<1>23. CASE UNCHANGED vars
  BY <1>h, <1>23, Zenon DEF vars, TypeOK, DialSerial, Dialing, DialMuFree, AtWork
<1> QED
  BY Zenon, <1>1, <1>2, <1>3, <1>4, <1>5, <1>6, <1>7, <1>8, <1>9, <1>10, <1>11, <1>12, <1>13,
     <1>14, <1>15, <1>16, <1>17, <1>18, <1>19, <1>20, <1>21, <1>22, <1>23 DEF Next, DialStep,
     Device, ReaderStep, CloserStep

(* Dial makes no attempt after the last. *)
LEMMA AttemptsPreserved == Structure /\ [Next]_vars => Attempts'
<1> SUFFICES ASSUME Structure, [Next]_vars PROVE Attempts'
  BY Zenon
<1>h. TypeOK /\ Attempts
  BY Zenon DEF Structure
<1>1. ASSUME NEW d \in Dialers, StartDial(d) PROVE Attempts'
  BY <1>h, <1>1, Zenon DEF StartDial, TypeOK, Attempts
<1>2. ASSUME NEW d \in Dialers, LockDial(d) PROVE Attempts'
  BY <1>h, <1>2, Zenon DEF LockDial, TypeOK, Attempts
<1>3. ASSUME NEW d \in Dialers, Recheck(d) PROVE Attempts'
  BY <1>h, <1>3 DEF Recheck, TypeOK, Attempts
<1>4. ASSUME NEW d \in Dialers, Install(d) PROVE Attempts'
  <2>1. Untouched /\ pc[d] = "install"
    BY <1>4, InstallSteps, Zenon
  <2>2. CASE GivesUp(d)
    BY <1>h, <2>1, <2>2, Zenon DEF GivesUp, Untouched, TypeOK, Attempts
  <2>3. ASSUME NEW id \in Ids, Creates(d, id) PROVE Attempts'
    BY <1>h, <2>1, <2>3, Zenon DEF Creates, Untouched, TypeOK, Attempts
  <2> QED
    BY <1>4, <2>2, <2>3, InstallSteps, Zenon
<1>5. ASSUME NEW d \in Dialers, Register(d) PROVE Attempts'
  BY <1>h, <1>5, Zenon DEF Register, IdOf, TypeOK, Attempts
<1>6. ASSUME NEW d \in Dialers, Bind(d) PROVE Attempts'
  BY <1>h, <1>6 DEF Bind, BindFailed, IdOf, TypeOK, Attempts
<1>7. ASSUME NEW d \in Dialers, AwaitGranted(d) PROVE Attempts'
  BY <1>h, <1>7, Zenon DEF AwaitGranted, Return, TypeOK, Attempts
<1>8. ASSUME NEW d \in Dialers, AwaitDone(d) PROVE Attempts'
  BY <1>h, <1>8, Zenon DEF AwaitDone, TypeOK, Attempts
<1>9. ASSUME NEW d \in Dialers, AwaitTimeout(d) PROVE Attempts'
  BY <1>h, <1>9, Zenon DEF AwaitTimeout, TypeOK, Attempts
<1>10. ASSUME NEW d \in Dialers, CleanupRealm(d) PROVE Attempts'
  BY <1>h, <1>10, Zenon DEF CleanupRealm, IdOf, Without, TypeOK, Attempts
<1>11. ASSUME NEW d \in Dialers, CleanupCh(d) PROVE Attempts'
  BY <1>h, <1>11 DEF CleanupCh, IdOf, Without, Return, RetriesLeft, TypeOK, Attempts
<1>12. ASSUME NEW d \in Dialers, Exhausted(d) PROVE Attempts'
  BY <1>h, <1>12, Zenon DEF Exhausted, TypeOK, Attempts
<1>13. ASSUME NEW d \in Dialers, JudgeSilent(d) PROVE Attempts'
  BY <1>h, <1>13, Zenon DEF JudgeSilent, TypeOK, Attempts
<1>14. ASSUME NEW d \in Dialers, JudgeKeep(d) PROVE Attempts'
  BY <1>h, <1>14, Zenon DEF JudgeKeep, TypeOK, Attempts
<1>15. ASSUME NEW d \in Dialers, JudgeFailures(d) PROVE Attempts'
  BY <1>h, <1>15, Zenon DEF JudgeFailures, TypeOK, Attempts
<1>16. ASSUME NEW d \in Dialers, Report(d) PROVE Attempts'
  BY <1>h, <1>16, Zenon DEF Report, TypeOK, Attempts
<1>17. ASSUME NEW d \in Dialers, Retire(d) PROVE Attempts'
  BY <1>h, <1>17, Zenon DEF Retire, TypeOK, Attempts
<1>18. ASSUME NEW id \in Ids,
         ReceiveConnect(id) \/ ReceiveDisconnect(id) \/ ReceiveOverflow(id)
     PROVE Attempts'
  BY <1>h, <1>18, Zenon DEF ReceiveConnect, ReceiveDisconnect, ReceiveOverflow, TypeOK, Attempts
<1>19. CASE OverflowDelete \/ ReaderSignal \/ StartClose \/ SwapRealms \/ EndClose
  BY <1>h, <1>19, Zenon DEF OverflowDelete, ReaderSignal, StartClose, SwapRealms, EndClose, TypeOK,
     Attempts
<1>20. ASSUME NEW c \in Conns,
         CloseConn(c) \/ CloseConnDelete(c) \/ WakeRealm(c)
     PROVE Attempts'
  BY <1>h, <1>20, Zenon DEF CloseConn, CloseConnDelete, WakeRealm, TypeOK, Attempts
<1>21. CASE UNCHANGED vars
  BY <1>h, <1>21, Zenon DEF vars, TypeOK, Attempts
<1> QED
  BY Zenon, <1>1, <1>2, <1>3, <1>4, <1>5, <1>6, <1>7, <1>8, <1>9, <1>10, <1>11, <1>12, <1>13,
     <1>14, <1>15, <1>16, <1>17, <1>18, <1>19, <1>20, <1>21 DEF Next, DialStep, Device,
     ReaderStep, CloserStep

(* Install gives the next Conn its id; nothing touches the later ones. *)
LEMMA CreatedPreserved == Structure /\ [Next]_vars => Created'
<1> SUFFICES ASSUME Structure, [Next]_vars PROVE Created'
  BY Zenon
<1>h. TypeOK /\ DialSerial /\ Created /\ OutBeforeSignal
  BY Zenon DEF Structure
<1>1. ASSUME NEW d \in Dialers, Install(d) PROVE Created'
  BY <1>h, <1>1 DEF Install, MapTornDown, NewId, TypeOK, DialSerial, Created,
     OutBeforeSignal, AtWork
<1>2. ASSUME NEW d \in Dialers, AwaitGranted(d) PROVE Created'
  BY <1>h, <1>2, Zenon DEF AwaitGranted, Return, TypeOK, DialSerial, Created, OutBeforeSignal,
     AtWork
<1>3. ASSUME NEW d \in Dialers, CleanupRealm(d) PROVE Created'
  BY <1>h, <1>3, Zenon DEF CleanupRealm, IdOf, Without, TypeOK, DialSerial, Created,
     OutBeforeSignal, AtWork
<1>4. CASE ReaderSignal
  BY <1>h, <1>4 DEF ReaderSignal, NextPacket, TypeOK, DialSerial, Created, OutBeforeSignal,
     AtWork
<1>5. ASSUME NEW c \in Conns, CloseConn(c) PROVE Created'
  BY <1>h, <1>5, Zenon DEF CloseConn, TypeOK, DialSerial, Created, OutBeforeSignal, AtWork
<1>6. ASSUME NEW c \in Conns, CloseConnDelete(c) PROVE Created'
  BY <1>h, <1>6, Zenon DEF CloseConnDelete, Without, TypeOK, DialSerial, Created, OutBeforeSignal,
     AtWork
<1>7. ASSUME NEW c \in Conns, WakeRealm(c) PROVE Created'
  BY <1>h, <1>7 DEF WakeRealm, TypeOK, DialSerial, Created, OutBeforeSignal, AtWork
<1>8. ASSUME NEW d \in Dialers,
         StartDial(d) \/ LockDial(d) \/ Recheck(d) \/ Register(d) \/ Bind(d) \/
         AwaitDone(d) \/ AwaitTimeout(d) \/ CleanupCh(d) \/ Exhausted(d) \/
         JudgeSilent(d) \/ JudgeKeep(d) \/ JudgeFailures(d) \/ Report(d) \/ Retire(d)
     PROVE Created'
  BY <1>h, <1>8 DEF StartDial, LockDial, Recheck, Register, Bind, AwaitDone, AwaitTimeout,
     CleanupCh, Exhausted, JudgeSilent, JudgeKeep, JudgeFailures, Report, Retire, TypeOK,
     Created
<1>9. ASSUME NEW id \in Ids,
         ReceiveConnect(id) \/ ReceiveDisconnect(id) \/ ReceiveOverflow(id)
     PROVE Created'
  BY <1>h, <1>9 DEF ReceiveConnect, ReceiveDisconnect, ReceiveOverflow, TypeOK, Created
<1>10. CASE OverflowDelete \/ StartClose \/ SwapRealms \/ EndClose
  BY <1>h, <1>10 DEF OverflowDelete, StartClose, SwapRealms, EndClose, TypeOK, Created
<1>11. CASE UNCHANGED vars
  BY <1>h, <1>11, Zenon DEF vars, TypeOK, Created
<1> QED
  BY <1>1, <1>2, <1>3, <1>4, <1>5, <1>6, <1>7, <1>8, <1>9, <1>10, <1>11, Zenon DEF Next, DialStep,
     Device, ReaderStep, CloserStep

(* A CONN finds a channel without a token, or none. *)
LEMMA ChannelsPreserved == Structure /\ [Next]_vars => Channels'
<1> SUFFICES ASSUME Structure, [Next]_vars PROVE Channels'
  BY Zenon
<1>h. TypeOK /\ DialSerial /\ Created /\ Channels
  BY Zenon DEF Structure
<1>1. ASSUME NEW d \in Dialers, Install(d) PROVE Channels'
  <2>1. /\ \A e \in Dialers : pc[e] \in Registered => pc'[e] \in Registered /\ cur'[e] = cur[e]
        /\ UNCHANGED <<connCh, granted>>
    BY <1>h, <1>1, Zenon DEF Install, TypeOK, Registered
  <2>2. \A c \in Conns : c <= made => realmID'[c] = realmID[c]
    BY <1>h, <1>1 DEF Install, TypeOK
  <2>3. \A c : Owned(c) => c \in Conns /\ c <= made
    BY <1>h DEF Owned, DialSerial, TypeOK, Registered, AtWork
  <2> QED
    BY <1>h, <2>1, <2>2, <2>3, OwnersStay, Zenon DEF Channels
<1>2. ASSUME NEW d \in Dialers, Register(d) PROVE Channels'
  <2>1. Dialing(d) /\ pc[d] \notin Registered /\ cur[d] \in Conns /\ IdOf(d) \in Ids
    BY <1>h, <1>2, CurHasId, Zenon DEF Register, Registered, AtWork
  <2>2. granted = {} /\ \A id \in Ids : connCh[id] = None
    BY <1>h, <2>1, OwnerUnique, Zenon DEF Channels
  <2>3. pc'[d] \in Registered /\ cur'[d] = cur[d]
    BY <1>h, <1>2, Zenon DEF Register, TypeOK, Registered
  <2>4. Owned(cur[d])'
    BY <2>3, Zenon DEF Owned
  <2> QED
    BY <1>h, <1>2, <2>1, <2>2, <2>4, Zenon DEF Register, Channels, IdOf, TypeOK
<1>3. ASSUME NEW d \in Dialers, Bind(d) PROVE Channels'
  <2>1. /\ \A e \in Dialers : pc[e] \in Registered => pc'[e] \in Registered /\ cur'[e] = cur[e]
        /\ UNCHANGED <<connCh, granted, realmID>>
    BY <1>h, <1>3, Zenon DEF Bind, BindFailed, TypeOK, Registered
  <2> QED
    BY <1>h, <2>1, OwnersStay, Zenon DEF Channels
<1>4. ASSUME NEW d \in Dialers, AwaitGranted(d) PROVE Channels'
  <2>1. Dialing(d)
    BY <1>h, <1>4, CurHasId, Zenon DEF AwaitGranted, AtWork
  <2>2. granted \subseteq {cur[d]} /\ \A id \in Ids : connCh[id] = None
    BY <1>h, <1>4, <2>1, OwnerUnique, Zenon DEF Channels, AwaitGranted
  <2> QED
    BY <1>h, <1>4, <2>2, Zenon DEF AwaitGranted, Channels
<1>5. ASSUME NEW d \in Dialers, CleanupRealm(d) PROVE Channels'
  <2>1. /\ \A e \in Dialers : pc[e] \in Registered => pc'[e] \in Registered /\ cur'[e] = cur[e]
        /\ UNCHANGED <<connCh, granted, realmID>>
    BY <1>h, <1>5, Zenon DEF CleanupRealm, TypeOK, Registered
  <2> QED
    BY <1>h, <2>1, OwnersStay, Zenon DEF Channels
<1>6. ASSUME NEW d \in Dialers, CleanupCh(d) PROVE Channels'
  <2>1. Dialing(d) /\ IdOf(d) \in Ids
    BY <1>h, <1>6, CurHasId, Zenon DEF CleanupCh, AtWork
  <2>2. granted \subseteq {cur[d]} /\ \A id \in Ids : connCh[id] # None => id = IdOf(d)
    BY <1>h, <1>6, <2>1, OwnerUnique, Zenon DEF Channels, IdOf
  <2>3. granted' = {} /\ \A id \in Ids : connCh'[id] = None
    BY <1>h, <1>6, <2>1, <2>2, Zenon DEF CleanupCh, Without, TypeOK
  <2> QED
    BY <2>3, Zenon DEF Channels
<1>7. ASSUME NEW id \in Ids, ReceiveConnect(id) PROVE Channels'
  <2>1. /\ \A e \in Dialers : pc[e] \in Registered => pc'[e] \in Registered /\ cur'[e] = cur[e]
        /\ UNCHANGED realmID
    BY <1>h, <1>7, Zenon DEF ReceiveConnect
  <2>2. /\ granted' = granted \cup {connCh[id]}
        /\ connCh' = [connCh EXCEPT ![id] = None]
        /\ connCh[id] # None
    BY <1>h, <1>7, Zenon DEF ReceiveConnect, ConnChAfterGrant, Without, Channels
  <2> QED
    BY <1>h, <2>1, <2>2, OwnersStay DEF Channels, TypeOK
<1>8. ASSUME NEW d \in Dialers,
         StartDial(d) \/ LockDial(d) \/ Recheck(d) \/ AwaitDone(d) \/ AwaitTimeout(d)
         \/ Exhausted(d) \/ JudgeSilent(d) \/ JudgeKeep(d) \/ JudgeFailures(d) \/
         Report(d) \/ Retire(d)
     PROVE Channels'
  <2>1. /\ \A e \in Dialers : pc[e] \in Registered => pc'[e] \in Registered /\ cur'[e] = cur[e]
        /\ UNCHANGED <<connCh, granted, realmID>>
    BY <1>h, <1>8, Zenon DEF StartDial, LockDial, Recheck, AwaitDone, AwaitTimeout, Exhausted,
       JudgeSilent, JudgeKeep, JudgeFailures, Report, Retire, TypeOK, Registered
  <2> QED
    BY <1>h, <2>1, OwnersStay, Zenon DEF Channels
<1>9. ASSUME NEW id \in Ids,
         ReceiveDisconnect(id) \/ ReceiveOverflow(id)
     PROVE Channels'
  <2>1. /\ \A e \in Dialers : pc[e] \in Registered => pc'[e] \in Registered /\ cur'[e] = cur[e]
        /\ UNCHANGED <<connCh, granted, realmID>>
    BY <1>h, <1>9, SMTT(20) DEF ReceiveDisconnect, ReceiveOverflow, TypeOK, Registered
  <2> QED
    BY <1>h, <2>1, OwnersStay, Zenon DEF Channels
<1>10. CASE OverflowDelete \/ ReaderSignal \/ StartClose \/ SwapRealms \/ EndClose
  <2>1. /\ \A e \in Dialers : pc[e] \in Registered => pc'[e] \in Registered /\ cur'[e] = cur[e]
        /\ UNCHANGED <<connCh, granted, realmID>>
    BY <1>h, <1>10, Zenon DEF OverflowDelete, ReaderSignal, StartClose, SwapRealms, EndClose,
       TypeOK, Registered
  <2> QED
    BY <1>h, <2>1, OwnersStay, Zenon DEF Channels
<1>11. ASSUME NEW c \in Conns,
         CloseConn(c) \/ CloseConnDelete(c) \/ WakeRealm(c)
     PROVE Channels'
  <2>1. /\ \A e \in Dialers : pc[e] \in Registered => pc'[e] \in Registered /\ cur'[e] = cur[e]
        /\ UNCHANGED <<connCh, granted, realmID>>
    BY <1>h, <1>11, Zenon DEF CloseConn, CloseConnDelete, WakeRealm, TypeOK, Registered
  <2> QED
    BY <1>h, <2>1, OwnersStay, Zenon DEF Channels
<1>12. CASE UNCHANGED vars
  <2>1. /\ \A e \in Dialers : pc[e] \in Registered => pc'[e] \in Registered /\ cur'[e] = cur[e]
        /\ UNCHANGED <<connCh, granted, realmID>>
    BY <1>h, <1>12, Zenon DEF vars, TypeOK, Registered
  <2> QED
    BY <1>h, <2>1, OwnersStay, Zenon DEF Channels
<1> QED
  BY <1>1, <1>2, <1>3, <1>4, <1>5, <1>6, <1>7, <1>8, <1>9, <1>10, <1>11, <1>12, Zenon DEF Next,
     DialStep, Device, ReaderStep, CloserStep

(* Whoever drops a Conn takes it out of the map, under its own id. *)
LEMMA FiledPreserved == Structure /\ [Next]_vars => Filed'
<1> SUFFICES ASSUME Structure, [Next]_vars PROVE Filed'
  BY Zenon
<1>h. TypeOK /\ DialSerial /\ Created /\ Filed /\ OutBeforeSignal
  BY Zenon DEF Structure
<1>1. ASSUME NEW d \in Dialers, Install(d) PROVE Filed'
  <2>1. Untouched /\ pc[d] = "install"
    BY <1>1, InstallSteps, Zenon
  <2>2. CASE GivesUp(d)
    BY <1>h, <2>1, <2>2, Zenon DEF GivesUp, Untouched, Filed
  <2>3. ASSUME NEW id \in Ids, Creates(d, id) PROVE Filed'
    <3>1. /\ \A e \in Dialers : e # d => cur'[e] = cur[e]
          /\ cur'[d] = made + 1 /\ made + 1 \in Conns
      BY <1>h, <2>3 DEF Creates, TypeOK
    <3>2. cur[d] = None
      BY <1>h, <2>1, Zenon DEF DialSerial, AtWork
    <3>3. ASSUME NEW j \in Ids, j # id, realms'[j] # None
          PROVE  /\ realms'[j] = realms[j] /\ realms[j] \in Conns /\ realms[j] <= made
                 /\ realmID'[realms[j]] = realmID[realms[j]] /\ stage'[realms[j]] = stage[realms[j]]
      BY <1>h, <2>3, <3>3 DEF Creates, Filed, TypeOK
    <3>4. /\ realms'[id] = made + 1 /\ realmID'[made + 1] = id /\ stage'[made + 1] = "dialing"
          /\ made' = made + 1
      BY <1>h, <2>3, <3>1, Zenon DEF Creates, TypeOK
    <3>5. ASSUME NEW j \in Ids, j # id, realms'[j] # None
          PROVE  /\ realms'[j] <= made' /\ realmID'[realms'[j]] = j
                 /\ stage'[realms'[j]] \in {"dialing", "open", "closing"}
                 /\ stage'[realms'[j]] = "dialing" => \E e \in Dialers : cur'[e] = realms'[j]
      <4>1. /\ realms[j] # None /\ realms'[j] = realms[j]
            /\ realms[j] \in Conns /\ realms[j] <= made
            /\ realmID'[realms[j]] = realmID[realms[j]] /\ stage'[realms[j]] = stage[realms[j]]
        BY <3>3, <3>5, Zenon
      <4>2. /\ realmID[realms[j]] = j /\ stage[realms[j]] \in {"dialing", "open", "closing"}
            /\ stage[realms[j]] = "dialing" => \E e \in Dialers : cur[e] = realms[j]
        BY <1>h, <4>1, Zenon DEF Filed
      <4>3. stage[realms[j]] = "dialing" => \E e \in Dialers : cur'[e] = realms[j]
        BY <1>h, <3>1, <3>2, <4>1, <4>2, Zenon
      <4>4. realms[j] <= made'
        BY <1>h, <3>4, <4>1 DEF TypeOK
      <4> QED
        BY <4>1, <4>2, <4>3, <4>4, Zenon
    <3> QED
      BY <1>h, <3>1, <3>4, <3>5 DEF Filed, TypeOK
  <2> QED
    BY <1>1, <2>2, <2>3, InstallSteps, Zenon
<1>2. ASSUME NEW d \in Dialers, AwaitGranted(d) PROVE Filed'
  BY <1>h, <1>2 DEF AwaitGranted, Return, TypeOK, DialSerial, Created, Filed,
     OutBeforeSignal, AtWork, Dialing
<1>3. ASSUME NEW d \in Dialers, CleanupRealm(d) PROVE Filed'
  BY <1>h, <1>3 DEF CleanupRealm, IdOf, Without, TypeOK, DialSerial, Created, Filed,
     OutBeforeSignal, AtWork, Dialing
<1>4. ASSUME NEW d \in Dialers, CleanupCh(d) PROVE Filed'
  BY <1>h, <1>4 DEF CleanupCh, IdOf, Without, Return, RetriesLeft, TypeOK, DialSerial,
     Created, Filed, OutBeforeSignal, AtWork, Dialing
<1>5. ASSUME NEW id \in Ids, ReceiveDisconnect(id) PROVE Filed'
  BY <1>h, <1>5 DEF ReceiveDisconnect, SignalNext, Without, TypeOK, DialSerial, Created,
     Filed, OutBeforeSignal, AtWork, Dialing
<1>6. CASE OverflowDelete
  BY <1>h, <1>6 DEF OverflowDelete, Without, TypeOK, DialSerial, Created, Filed,
     OutBeforeSignal, AtWork, Dialing
<1>7. ASSUME NEW c \in Conns, CloseConn(c) PROVE Filed'
  BY <1>h, <1>7 DEF CloseConn, TypeOK, DialSerial, Created, Filed, OutBeforeSignal, AtWork,
     Dialing
<1>8. ASSUME NEW c \in Conns, CloseConnDelete(c) PROVE Filed'
  BY <1>h, <1>8 DEF CloseConnDelete, Without, TypeOK, DialSerial, Created, Filed,
     OutBeforeSignal, AtWork, Dialing
<1>9. CASE SwapRealms
  BY <1>h, <1>9, Zenon DEF SwapRealms, TypeOK, DialSerial, Created, Filed, OutBeforeSignal, AtWork,
     Dialing
<1>10. ASSUME NEW d \in Dialers,
         StartDial(d) \/ LockDial(d) \/ Recheck(d) \/ Register(d) \/ Bind(d) \/
         AwaitDone(d) \/ AwaitTimeout(d) \/ Exhausted(d) \/ JudgeSilent(d) \/
         JudgeKeep(d) \/ JudgeFailures(d) \/ Report(d) \/ Retire(d)
     PROVE Filed'
  BY <1>h, <1>10 DEF StartDial, LockDial, Recheck, Register, Bind, AwaitDone, AwaitTimeout,
     Exhausted, JudgeSilent, JudgeKeep, JudgeFailures, Report, Retire, Filed
<1>11. ASSUME NEW id \in Ids,
         ReceiveConnect(id) \/ ReceiveOverflow(id)
     PROVE Filed'
  BY <1>h, <1>11 DEF ReceiveConnect, ReceiveOverflow, Filed
<1>12. CASE ReaderSignal \/ StartClose \/ EndClose
  BY <1>h, <1>12 DEF ReaderSignal, StartClose, EndClose, Filed
<1>13. ASSUME NEW c \in Conns,
         WakeRealm(c)
     PROVE Filed'
  BY <1>h, <1>13, Zenon DEF WakeRealm, Filed
<1>14. CASE UNCHANGED vars
  BY <1>h, <1>14, Zenon DEF vars, Filed
<1> QED
  BY <1>1, <1>2, <1>3, <1>4, <1>5, <1>6, <1>7, <1>8, <1>9, <1>10, <1>11, <1>12, <1>13, <1>14, Zenon
     DEF Next, DialStep, Device, ReaderStep, CloserStep

(* The reader and Close take a Conn out of the map before they signal it. *)
LEMMA OutPreserved == Structure /\ [Next]_vars => OutBeforeSignal'
<1> SUFFICES ASSUME Structure, [Next]_vars PROVE OutBeforeSignal'
  BY Zenon
<1>h. TypeOK /\ DialSerial /\ Created /\ Filed /\ OutBeforeSignal
  BY Zenon DEF Structure
<1>1. ASSUME NEW d \in Dialers, Install(d) PROVE OutBeforeSignal'
  BY <1>h, <1>1 DEF Install, MapTornDown, NewId, TypeOK, DialSerial, Created, Filed,
     OutBeforeSignal, AtWork, Dialing, MuFree
<1>2. ASSUME NEW d \in Dialers, AwaitGranted(d) PROVE OutBeforeSignal'
  BY <1>h, <1>2 DEF AwaitGranted, Return, TypeOK, DialSerial, Created, Filed,
     OutBeforeSignal, AtWork, Dialing, MuFree
<1>3. ASSUME NEW d \in Dialers, CleanupRealm(d) PROVE OutBeforeSignal'
  BY <1>h, <1>3 DEF CleanupRealm, IdOf, Without, TypeOK, DialSerial, Created, Filed,
     OutBeforeSignal, AtWork, Dialing, MuFree
<1>4. ASSUME NEW d \in Dialers, JudgeSilent(d) PROVE OutBeforeSignal'
  BY <1>h, <1>4 DEF JudgeSilent, TypeOK, DialSerial, Created, Filed, OutBeforeSignal,
     AtWork, Dialing, MuFree
<1>5. ASSUME NEW id \in Ids, ReceiveConnect(id) PROVE OutBeforeSignal'
  BY <1>h, <1>5, Zenon DEF ReceiveConnect, ConnChAfterGrant, Without, NextPacket, TypeOK,
     DialSerial, Created, Filed, OutBeforeSignal, AtWork, Dialing, MuFree
<1>6. ASSUME NEW id \in Ids, ReceiveDisconnect(id) PROVE OutBeforeSignal'
  BY <1>h, <1>6 DEF ReceiveDisconnect, SignalNext, Without, TypeOK, DialSerial, Created,
     Filed, OutBeforeSignal, AtWork, Dialing, MuFree
<1>7. ASSUME NEW id \in Ids, ReceiveOverflow(id) PROVE OutBeforeSignal'
  BY <1>h, <1>7 DEF ReceiveOverflow, TypeOK, DialSerial, Created, Filed, OutBeforeSignal,
     AtWork, Dialing, MuFree
<1>8. CASE OverflowDelete
  BY <1>h, <1>8 DEF OverflowDelete, Without, TypeOK, DialSerial, Created, Filed,
     OutBeforeSignal, AtWork, Dialing, MuFree
<1>9. CASE ReaderSignal
  BY <1>h, <1>9, Zenon DEF ReaderSignal, NextPacket, TypeOK, DialSerial, Created, Filed,
     OutBeforeSignal, AtWork, Dialing, MuFree
<1>10. ASSUME NEW c \in Conns, CloseConn(c) PROVE OutBeforeSignal'
  BY <1>h, <1>10 DEF CloseConn, TypeOK, DialSerial, Created, Filed, OutBeforeSignal, AtWork,
     Dialing, MuFree
<1>11. ASSUME NEW c \in Conns, CloseConnDelete(c) PROVE OutBeforeSignal'
  BY <1>h, <1>11 DEF CloseConnDelete, Without, TypeOK, DialSerial, Created, Filed,
     OutBeforeSignal, AtWork, Dialing, MuFree
<1>12. CASE StartClose
  BY <1>h, <1>12, Zenon DEF StartClose, TypeOK, DialSerial, Created, Filed, OutBeforeSignal,
     AtWork, Dialing, MuFree
<1>13. CASE SwapRealms
  BY <1>h, <1>13 DEF SwapRealms, TypeOK, DialSerial, Created, Filed, OutBeforeSignal,
     AtWork, Dialing, MuFree
<1>14. CASE EndClose
  BY <1>h, <1>14, Zenon DEF EndClose, TypeOK, DialSerial, Created, Filed, OutBeforeSignal, AtWork,
     Dialing, MuFree
<1>15. ASSUME NEW c \in Conns, WakeRealm(c) PROVE OutBeforeSignal'
  BY <1>h, <1>15 DEF WakeRealm, TypeOK, DialSerial, Created, Filed, OutBeforeSignal, AtWork,
     Dialing, MuFree
<1>16. ASSUME NEW d \in Dialers,
         StartDial(d) \/ LockDial(d) \/ Recheck(d) \/ Register(d) \/ Bind(d) \/
         AwaitDone(d) \/ AwaitTimeout(d) \/ CleanupCh(d) \/ Exhausted(d) \/
         JudgeKeep(d) \/ JudgeFailures(d) \/ Report(d) \/ Retire(d)
     PROVE OutBeforeSignal'
  <2>1. UNCHANGED <<connClosed, stage, realms, readerPc, reading, made, toSignal, closerPc,
                    swapped>>
    BY <1>16, Zenon DEF StartDial, LockDial, Recheck, Register, Bind, AwaitDone, AwaitTimeout,
       CleanupCh, Exhausted, JudgeKeep, JudgeFailures, Report, Retire
  <2> QED
    BY <1>h, <2>1, SMTT(20) DEF OutBeforeSignal
<1>17. CASE UNCHANGED vars
  BY <1>h, <1>17, Zenon DEF vars, OutBeforeSignal
<1> QED
  BY Zenon, <1>1, <1>2, <1>3, <1>4, <1>5, <1>6, <1>7, <1>8, <1>9, <1>10, <1>11, <1>12, <1>13,
     <1>14, <1>15, <1>16, <1>17 DEF Next, DialStep, Device, ReaderStep, CloserStep

(* No step takes another Conn out of the map than the one it closes. *)
LEMMA RoutedPreserved == Structure /\ [Next]_vars => Routed'
<1> SUFFICES ASSUME Structure, [Next]_vars PROVE Routed'
  BY Zenon
<1>h. TypeOK /\ DialSerial /\ Created /\ Filed /\ OutBeforeSignal /\ Routed
  BY Zenon DEF Structure
<1>1. ASSUME NEW d \in Dialers, Install(d) PROVE Routed'
  <2>1. Untouched /\ pc[d] = "install"
    BY <1>1, InstallSteps, Zenon
  <2>2. CASE GivesUp(d)
    BY <1>h, <2>1, <2>2, ZenonT(40) DEF GivesUp, Untouched, Routed, IdsDistinct, ToBeSignalled
  <2>3. ASSUME NEW id \in Ids, Creates(d, id) PROVE Routed'
    <3> SUFFICES ASSUME IdsDistinct', NEW c \in Conns, stage'[c] \in {"dialing", "open"},
                        c \notin connClosed'
                 PROVE  realms'[realmID'[c]] = c \/ ToBeSignalled(c)'
      BY Zenon DEF Routed
    <3>1. CASE c = made + 1
      BY <1>h, <2>3, <3>1, Zenon DEF Creates, TypeOK
    <3>2. CASE c # made + 1
      <4>1. /\ stage[c] = stage'[c] /\ realmID'[c] = realmID[c] /\ c <= made
            /\ c \notin connClosed
        BY <1>h, <2>1, <2>3, <3>2 DEF Creates, Untouched, Created, TypeOK
      <4>2. IdsDistinct
        BY <1>h, <2>3 DEF Creates, IdsDistinct, TypeOK
      <4>3. realms[realmID[c]] = c \/ ToBeSignalled(c)
        BY <1>h, <4>1, <4>2, Zenon DEF Routed
      <4>4. realmID[c] \in Ids
        BY <1>h, <4>1, Zenon DEF Created
      <4>5. CASE realms[realmID[c]] = c
        BY <1>h, <2>3, <4>1, <4>4, <4>5, Zenon DEF Creates, TypeOK
      <4>6. CASE ToBeSignalled(c)
        BY <2>1, <4>6, SMTT(20) DEF ToBeSignalled, Untouched
      <4> QED
        BY <4>3, <4>5, <4>6, Zenon
    <3> QED
      BY <3>1, <3>2, Zenon
  <2> QED
    BY <1>1, <2>2, <2>3, InstallSteps, Zenon
<1>2. ASSUME NEW d \in Dialers, AwaitGranted(d) PROVE Routed'
  <2>1. cur[d] \in Conns /\ stage[cur[d]] = "dialing"
    BY <1>h, <1>2, CurHasId, Zenon DEF AwaitGranted, AtWork
  <2>2. /\ UNCHANGED <<connClosed, realms, realmID, made, toSignal, readerPc, reading>>
        /\ \A c \in Conns : stage'[c] \in {"dialing", "open"} => stage[c] \in {"dialing", "open"}
    BY <1>h, <1>2, <2>1, Zenon DEF AwaitGranted, TypeOK
  <2> QED
    BY <1>h, <2>2, Zenon DEF Routed, IdsDistinct, ToBeSignalled
<1>3. ASSUME NEW d \in Dialers, CleanupRealm(d) PROVE Routed'
  BY <1>h, <1>3 DEF CleanupRealm, IdOf, Without, TypeOK, DialSerial, Created, Filed,
     OutBeforeSignal, Routed, AtWork, IdsDistinct, ToBeSignalled
<1>4. ASSUME NEW id \in Ids, ReceiveConnect(id) PROVE Routed'
  BY <1>h, <1>4 DEF ReceiveConnect, ConnChAfterGrant, Without, NextPacket, TypeOK,
     DialSerial, Created, Filed, OutBeforeSignal, Routed, AtWork, IdsDistinct, ToBeSignalled
<1>5. ASSUME NEW id \in Ids, ReceiveDisconnect(id) PROVE Routed'
  BY <1>h, <1>5 DEF ReceiveDisconnect, SignalNext, Without, TypeOK, DialSerial, Created,
     Filed, OutBeforeSignal, Routed, AtWork, IdsDistinct, ToBeSignalled
<1>6. ASSUME NEW id \in Ids, ReceiveOverflow(id) PROVE Routed'
  BY <1>h, <1>6 DEF ReceiveOverflow, TypeOK, DialSerial, Created, Filed, OutBeforeSignal,
     Routed, AtWork, IdsDistinct, ToBeSignalled
<1>7. CASE OverflowDelete
  BY <1>h, <1>7 DEF OverflowDelete, Without, TypeOK, DialSerial, Created, Filed,
     OutBeforeSignal, Routed, AtWork, IdsDistinct, ToBeSignalled
<1>8. CASE ReaderSignal
  BY <1>h, <1>8 DEF ReaderSignal, NextPacket, TypeOK, DialSerial, Created, Filed,
     OutBeforeSignal, Routed, AtWork, IdsDistinct, ToBeSignalled
<1>9. ASSUME NEW c \in Conns, CloseConn(c) PROVE Routed'
  BY <1>h, <1>9 DEF CloseConn, TypeOK, DialSerial, Created, Filed, OutBeforeSignal, Routed,
     AtWork, IdsDistinct, ToBeSignalled
<1>10. ASSUME NEW c \in Conns, CloseConnDelete(c) PROVE Routed'
  BY <1>h, <1>10 DEF CloseConnDelete, Without, TypeOK, DialSerial, Created, Filed,
     OutBeforeSignal, Routed, AtWork, IdsDistinct, ToBeSignalled
<1>11. CASE SwapRealms
  BY <1>h, <1>11 DEF SwapRealms, TypeOK, DialSerial, Created, Filed, OutBeforeSignal,
     Routed, AtWork, IdsDistinct, ToBeSignalled
<1>12. ASSUME NEW c \in Conns, WakeRealm(c) PROVE Routed'
  <2>1. /\ UNCHANGED <<stage, realmID, realms, made, readerPc, reading>>
        /\ toSignal' = toSignal \ {c} /\ connClosed' = connClosed \cup {c}
    BY <1>12, Zenon DEF WakeRealm
  <2> QED
    BY <1>h, <2>1, Zenon DEF Routed, IdsDistinct, ToBeSignalled
<1>13. ASSUME NEW d \in Dialers,
         StartDial(d) \/ LockDial(d) \/ Recheck(d) \/ Register(d) \/ Bind(d) \/
         AwaitDone(d) \/ AwaitTimeout(d) \/ CleanupCh(d) \/ Exhausted(d) \/
         JudgeSilent(d) \/ JudgeKeep(d) \/ JudgeFailures(d) \/ Report(d) \/ Retire(d)
     PROVE Routed'
  <2>1. UNCHANGED <<stage, realmID, realms, made, connClosed, readerPc, reading, toSignal>>
    BY <1>13, Zenon DEF StartDial, LockDial, Recheck, Register, Bind, AwaitDone, AwaitTimeout,
       CleanupCh,
       Exhausted, JudgeSilent, JudgeKeep, JudgeFailures, Report, Retire
  <2> QED
    BY <1>h, <2>1, ZenonT(40) DEF Routed, IdsDistinct, ToBeSignalled
<1>14. CASE StartClose \/ EndClose
  BY <1>h, <1>14, Zenon DEF StartClose, EndClose, Routed, IdsDistinct, ToBeSignalled
<1>15. CASE UNCHANGED vars
  BY <1>h, <1>15, ZenonT(40) DEF vars, Routed, IdsDistinct, ToBeSignalled
<1> QED
  BY Zenon, <1>1, <1>2, <1>3, <1>4, <1>5, <1>6, <1>7, <1>8, <1>9, <1>10, <1>11, <1>12, <1>13,
     <1>14, <1>15 DEF Next, DialStep, Device, ReaderStep, CloserStep

(* The channel a CONN is sent to is never full. *)
LEMMA NeverBlocksPreserved == Structure /\ [Next]_vars => ReaderNeverBlocks'
<1> SUFFICES ASSUME Structure, [Next]_vars PROVE ReaderNeverBlocks'
  BY Zenon
<1>1. ASSUME NEW id \in Ids, ReceiveConnect(id) PROVE ReaderNeverBlocks'
  BY <1>1, Zenon DEF Structure, Channels, ReceiveConnect, ReaderNeverBlocks, NextPacket
<1>2. ASSUME NEW id \in Ids, ReceiveDisconnect(id) \/ ReceiveOverflow(id) PROVE ReaderNeverBlocks'
  BY <1>2, Zenon DEF ReceiveDisconnect, ReceiveOverflow, SignalNext, ReaderNeverBlocks
<1>3. CASE ReaderStep
  BY <1>3, Zenon DEF ReaderStep, OverflowDelete, ReaderSignal, ReaderNeverBlocks, NextPacket
<1>4. CASE readerPc' = readerPc
  BY <1>4, Zenon DEF Structure, ReaderNeverBlocks
<1> QED
  BY <1>1, <1>2, <1>3, <1>4, Zenon
     DEF Next, vars, DialStep, Device, CloserStep, StartDial, LockDial, Recheck, Install,
         Register, Bind, AwaitGranted, AwaitDone, AwaitTimeout, CleanupRealm, CleanupCh,
         Exhausted, JudgeSilent, JudgeKeep, JudgeFailures, Report, Retire, CloseConn,
         CloseConnDelete, StartClose, SwapRealms, EndClose, WakeRealm

(* The inductive invariant. *)
LEMMA StructureInvariant == Spec => []Structure
<1>1. Init => Structure
  <2> SUFFICES ASSUME Init PROVE Structure
    BY Zenon
  <2>1. TypeOK
    <3>1. /\ closed \in BOOLEAN /\ retired \in BOOLEAN /\ swapped \in BOOLEAN
          /\ readerPc \in {"idle", "overflow", "signal", "blocked", "exited"}
          /\ closerPc \in {"idle", "swap", "wake", "done"}
      BY Zenon DEF Init
    <3>2. /\ granted \subseteq Conns /\ connClosed \subseteq Conns /\ bound \subseteq Ids
          /\ toSignal \subseteq Conns /\ reading \in Conns \cup {None}
      BY Zenon DEF Init
    <3>3. bindFailures \in Nat /\ made \in 0..MaxConns /\ attempt \in [Dialers -> 0..MaxRetries]
      BY DEF Init
    <3>4. /\ realms \in [Ids -> Conns \cup {None}] /\ connCh \in [Ids -> Conns \cup {None}]
          /\ realmID \in [Conns -> Ids \cup {None}] /\ cur \in [Dialers -> Conns \cup {None}]
      BY Zenon DEF Init
    <3>5. /\ stage \in [Conns -> {"unmade", "dialing", "open", "closing", "closed"}]
          /\ pc \in [Dialers -> {"idle", "queue", "recheck", "install", "register", "bind",
                                 "await", "fail", "failCh", "retry", "retryCh",
                                 "exhausted", "judge", "report", "retire"}]
      BY Zenon DEF Init
    <3> QED
      BY <3>1, <3>2, <3>3, <3>4, <3>5, Zenon DEF TypeOK
  <2>2. DialSerial /\ Attempts
    BY Zenon DEF Init, DialSerial, Attempts, Dialing, AtWork
  <2>3. Created /\ Routed
    BY DEF Init, Created, Routed
  <2>4. Channels /\ Filed /\ OutBeforeSignal /\ ReaderNeverBlocks
    BY Zenon DEF Init, Channels, Filed, OutBeforeSignal, ReaderNeverBlocks
  <2> QED
    BY <2>1, <2>2, <2>3, <2>4, Zenon DEF Structure
<1>2. Structure /\ [Next]_vars => Structure'
  BY Zenon, TypePreserved, SerialPreserved, AttemptsPreserved, CreatedPreserved, ChannelsPreserved,
     FiledPreserved,
     OutPreserved, RoutedPreserved, NeverBlocksPreserved DEF Structure
<1> QED
  BY <1>1, <1>2, PTL DEF Spec

(* Type correctness of the maps, the dialers, the reader and Close. *)
THEOREM TypeCorrect == Spec => []TypeOK
<1>1. Structure => TypeOK
  BY Zenon DEF Structure
<1> QED
  BY <1>1, StructureInvariant, PTL

(* For any number of dialers and attempts, a repeated or late CONN never   *)
(* blocks the reader of tunnel.go with connChMu held.                      *)
THEOREM ReaderIsFree == Spec => []ReaderNeverBlocks
<1>1. Structure => ReaderNeverBlocks
  BY Zenon DEF Structure
<1> QED
  BY <1>1, StructureInvariant, PTL

(* Dial's cleanup, DISC, overflow and Close leave nothing behind in realms *)
(* and connCh.                                                             *)
THEOREM MapsDoNotLeak == Spec => []NoMapLeak
<1>1. Structure => NoMapLeak
  BY Zenon DEF Structure, NoMapLeak, Filed, Channels, Owned
<1> QED
  BY <1>1, StructureInvariant, PTL

(* While realm ids do not repeat, a Conn nobody closed is routed by the    *)
(* reader, or is about to be signalled.                                    *)
THEOREM ConnsAreRouted == Spec => []LiveConnRouted
<1>1. Structure => LiveConnRouted
  BY Zenon DEF Structure, LiveConnRouted, Routed
<1> QED
  BY <1>1, StructureInvariant, PTL

(* While realm ids do not repeat, Tunnel.Close reaches every Conn, also    *)
(* the one of a Dial that was under way.                                   *)
THEOREM CloseReachesEveryConn == Spec => []CloseReachesAll
<1>1. Structure => CloseReachesAll
  <2> SUFFICES ASSUME Structure, IdsDistinct, closerPc = "done", NEW c \in Conns, stage[c] = "open"
               PROVE  c \in connClosed \/ ToBeSignalled(c)
    BY Zenon DEF CloseReachesAll
  <2>1. c <= made /\ realmID[c] \in Ids
    BY DEF Structure, Created, TypeOK
  <2>2. realms[realmID[c]] = None
    BY <2>1, Zenon DEF Structure, OutBeforeSignal
  <2> QED
    BY <2>2, Zenon DEF Structure, Routed
<1> QED
  BY <1>1, StructureInvariant, PTL
=============================================================================
