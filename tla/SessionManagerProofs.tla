------------------------ MODULE SessionManagerProofs ------------------------
(***************************************************************************)
(* The safety properties of SessionManager for every number of callers,    *)
(* clients and realms.  RefCountExact is not inductive alone: it needs to  *)
(* know which pc values carry a client, that a client being registered is  *)
(* known to nobody else, and that a client about to be closed is unlisted. *)
(***************************************************************************)
EXTENDS SessionManager, FiniteSetTheorems, TLAPS

(* A caller carries a client exactly where Acquire has one in hand. *)
ClientInHand ==
    \A k \in Callers :
        /\ pc[k] \in {"hook", "discard", "hold"} => client[k] # None
        /\ pc[k] \in {"idle", "acquire", "wait", "connect"} => client[k] = None

(* The client a handshake just produced is known only to its caller. *)
PrivateClient ==
    \A k \in Callers :
        pc[k] \in {"register", "discard"} /\ client[k] # None =>
            /\ client[k] \notin sessions \cup closing
            /\ \A j \in Callers \ {k} : client[j] # client[k]

(* A client that was never connected appears nowhere. *)
UnbornUnused ==
    \A c \in Clients : tunnel[c] = "none" =>
        /\ c \notin sessions \cup closing
        /\ \A k \in Callers : client[k] # c

(* A client leaves the list when a goroutine commits to closing it. *)
ClosingUnlisted == sessions \cap closing = {}

(* Only closed tunnels wait to be forgotten. *)
ForgettingDead == \A c \in forgetting : tunnel[c] = "closed"

(* The part of the inductive invariant that counts nothing. *)
Structure ==
    /\ TypeOK
    /\ ClientInHand
    /\ PrivateClient
    /\ UnbornUnused
    /\ ClosingUnlisted
    /\ ForgettingDead
    /\ ClosedEmpty
    /\ OpenTunnelOwned
    /\ IdleCovered

(* The part about the callers that hold each client. *)
Counting ==
    /\ RefCountExact
    /\ RealmCap
    /\ NoCloseUnderHolder

IInv == Structure /\ Counting

USE DEF PcState, pool, tunnels, callers

(* The reservations of a client that Acquire handed out can be counted. *)
LEMMA HoldersFinite ==
    ASSUME NEW c
    PROVE  IsFiniteSet(Holders(c)) /\ Cardinality(Holders(c)) \in Nat
  <1>1. Holders(c) \in SUBSET Callers
    BY Zenon DEF Holders
  <1> QED BY <1>1, FS_Subset, FS_CardinalityType, CallersAssumption, Zenon

(* A caller that returns a listed client is counted in its refCount. *)
LEMMA HeldCounted ==
    ASSUME TypeOK, ClientInHand, RefCountExact,
           NEW k \in Callers, pc[k] = "hold", client[k] \in sessions
    PROVE  refCount[client[k]] >= 1
  <1> DEFINE c == client[k]
  <1>1. refCount[c] = Cardinality(Holders(c))
    BY Zenon DEF RefCountExact
  <1>2. k \in Holders(c)
    BY Zenon DEF Holders
  <1>3. Cardinality(Holders(c)) # 0
    BY <1>2, HoldersFinite, FS_EmptySet, Zenon
  <1> QED BY <1>1, <1>3, HoldersFinite

(* Type correctness is preserved; Release needs that the holder is counted. *)
LEMMA TypePreserved == IInv /\ [Next]_vars => TypeOK'
  <1> SUFFICES ASSUME IInv, [Next]_vars PROVE TypeOK'
    BY Zenon
  <1>0. TypeOK
    BY Zenon DEF IInv, Structure
  <1> USE <1>0 DEF TypeOK
  <1>1. ASSUME NEW k \in Callers, StartAcquire(k) PROVE TypeOK'
    BY <1>1, Zenon DEF StartAcquire, Goto
  <1>2. ASSUME NEW k \in Callers, AcquireClosed(k) PROVE TypeOK'
    BY <1>2, Zenon DEF AcquireClosed, Goto
  <1>3. ASSUME NEW k \in Callers, AcquireFull(k) PROVE TypeOK'
    BY <1>3, Zenon DEF AcquireFull, PruneClosed, Live, Goto
  <1>4. ASSUME NEW k \in Callers, NEW c \in Clients, AcquireReuse(k, c) PROVE TypeOK'
    BY <1>4 DEF AcquireReuse, Live, Goto
  <1>5. ASSUME NEW k \in Callers, Connect(k) PROVE TypeOK'
    BY <1>5 DEF Connect, Goto
  <1>6. ASSUME NEW k \in Callers, Register(k) PROVE TypeOK'
    BY <1>6 DEF Register, Keep, InitialCount, Goto
  <1>7. ASSUME NEW k \in Callers, Hook(k) PROVE TypeOK'
    BY <1>7, Zenon DEF Hook, ForgetBody, Goto
  <1>8. ASSUME NEW k \in Callers, Discard(k) PROVE TypeOK'
    BY <1>8, Zenon DEF Discard, Goto
  <1>9. ASSUME NEW k \in Callers, Publish(k) PROVE TypeOK'
    BY <1>9, Zenon DEF Publish
  <1>10. ASSUME NEW k \in Callers, Release(k) PROVE TypeOK'
    <2>1. client[k] \in sessions => refCount[client[k]] >= 1
      BY <1>10, HeldCounted, Zenon DEF Release, IInv, Structure, Counting
    <2>2. refCount' \in [Clients -> Nat]
      BY <1>10, <2>1 DEF Release
    <2>3. sessions' \subseteq Clients /\ closing' \subseteq Clients
      BY <1>10 DEF Release
    <2>4. idleTimer' \in [Clients -> BOOLEAN]
      BY <1>10, Zenon DEF Release, ArmIdle
    <2> QED BY <1>10, <2>2, <2>3, <2>4, Zenon DEF Release, Goto
  <1>11. ASSUME NEW c \in Clients, TimerFires(c) PROVE TypeOK'
    BY <1>11 DEF TimerFires
  <1>12. ASSUME NEW c \in Clients, IdleCallback(c) PROVE TypeOK'
    BY <1>12 DEF IdleCallback
  <1>13. ASSUME NEW c \in Clients, CloseRemoved(c) PROVE TypeOK'
    BY <1>13, Zenon DEF CloseRemoved, CloseTunnel
  <1>14. ASSUME NEW c \in Clients, TunnelDies(c) PROVE TypeOK'
    BY <1>14, Zenon DEF TunnelDies, CloseTunnel
  <1>15. ASSUME NEW c \in Clients, Retire(c) PROVE TypeOK'
    BY <1>15, Zenon DEF Retire
  <1>16. ASSUME NEW c \in Clients, Forget(c) PROVE TypeOK'
    BY <1>16, Zenon DEF Forget, ForgetBody
  <1>17. CASE CloseAll
    BY <1>17, Zenon DEF CloseAll
  <1>18. CASE UNCHANGED vars
    BY <1>18, Zenon DEF vars
  <1> QED
    BY Zenon, <1>1, <1>2, <1>3, <1>4, <1>5, <1>6, <1>7, <1>8, <1>9, <1>10, <1>11, <1>12,
       <1>13, <1>14, <1>15, <1>16, <1>17, <1>18
    DEF Next, CallerStep, TunnelStep

(* Every action preserves the structural part. *)
LEMMA StructurePreserved == IInv /\ [Next]_vars => Structure'
  <1> SUFFICES ASSUME IInv, [Next]_vars PROVE Structure'
    BY Zenon
  <1>0. TypeOK'
    BY TypePreserved, Zenon
  <1> USE DEF IInv, Structure, TypeOK, ClientInHand, PrivateClient, UnbornUnused,
              ClosingUnlisted, ForgettingDead, ClosedEmpty, OpenTunnelOwned, IdleCovered
  <1>1. ASSUME NEW k \in Callers, StartAcquire(k) PROVE Structure'
    BY <1>1 DEF StartAcquire, Goto
  <1>2. ASSUME NEW k \in Callers, AcquireClosed(k) PROVE Structure'
    BY <1>2 DEF AcquireClosed, Goto
  <1>3. ASSUME NEW k \in Callers, AcquireFull(k) PROVE Structure'
    BY <1>3 DEF AcquireFull, PruneClosed, Live, Goto
  <1>4. ASSUME NEW k \in Callers, NEW c \in Clients, AcquireReuse(k, c) PROVE Structure'
    <2> USE <1>4, NoneAssumption DEF AcquireReuse, Live, Goto
    <2>1. TypeOK'
      BY <1>0, Zenon
    <2>2. ClientInHand'
      OBVIOUS
    <2>3. PrivateClient'
      OBVIOUS
    <2>4. UnbornUnused'
      OBVIOUS
    <2>5. ClosingUnlisted'
      BY Zenon
    <2>6. ForgettingDead'
      BY Zenon
    <2>7. ClosedEmpty'
      BY Zenon
    <2>8. OpenTunnelOwned'
      OBVIOUS
    <2>9. IdleCovered'
      OBVIOUS
    <2> QED BY <2>1, <2>2, <2>3, <2>4, <2>5, <2>6, <2>7, <2>8, <2>9, Zenon
  <1>5. ASSUME NEW k \in Callers, Connect(k) PROVE Structure'
    BY <1>5 DEF Connect, Goto
  <1>6. ASSUME NEW k \in Callers, Register(k) PROVE Structure'
    <2> USE <1>6 DEF Register, Keep, InitialCount, Goto
    <2>1. TypeOK'
      BY <1>0, Zenon
    <2>2. ClientInHand'
      OBVIOUS
    <2>3. PrivateClient'
      OBVIOUS
    <2>4. UnbornUnused'
      OBVIOUS
    <2>5. ClosingUnlisted'
      OBVIOUS
    <2>6. ForgettingDead'
      BY Zenon
    <2>7. ClosedEmpty'
      BY Zenon
    <2>8. OpenTunnelOwned'
      <3> SUFFICES ASSUME NEW c \in Clients, tunnel[c] = "open"
                   PROVE  \/ c \in sessions' \cup closing
                          \/ \E j \in Callers : client[j] = c /\ pc'[j] \in {"register", "discard"}
        OBVIOUS
      <3>1. CASE c \in sessions \cup closing
        BY <3>1
      <3>2. ASSUME NEW j \in Callers, client[j] = c, pc[j] \in {"register", "discard"}, j # k
            PROVE  pc'[j] \in {"register", "discard"}
        BY <3>2
      <3>3. CASE client[k] = c
        BY <3>3, NoneAssumption
      <3> QED BY <3>1, <3>2, <3>3
    <2>9. IdleCovered'
      OBVIOUS
    <2> QED BY <2>1, <2>2, <2>3, <2>4, <2>5, <2>6, <2>7, <2>8, <2>9, Zenon
  <1>7. ASSUME NEW k \in Callers, Hook(k) PROVE Structure'
    <2>0. client[k] \in Clients
      BY <1>7 DEF Hook
    <2> USE <1>7, <2>0 DEF Hook, ForgetBody, Goto
    <2>1. TypeOK'
      BY <1>0, Zenon
    <2>2. ClientInHand'
      OBVIOUS
    <2>3. PrivateClient'
      OBVIOUS
    <2>4. UnbornUnused'
      OBVIOUS
    <2>5. ClosingUnlisted'
      BY Zenon
    <2>6. ForgettingDead'
      BY Zenon
    <2>7. ClosedEmpty'
      BY Zenon
    <2>8. OpenTunnelOwned'
      OBVIOUS
    <2>9. IdleCovered'
      OBVIOUS
    <2> QED BY <2>1, <2>2, <2>3, <2>4, <2>5, <2>6, <2>7, <2>8, <2>9, Zenon
  <1>8. ASSUME NEW k \in Callers, Discard(k) PROVE Structure'
    <2>0. client[k] \in Clients
      BY <1>8 DEF Discard
    <2> USE <1>8, <2>0, NoneAssumption DEF Discard, Goto
    <2>1. TypeOK'
      BY <1>0, Zenon
    <2>2. ClientInHand'
      OBVIOUS
    <2>3. PrivateClient'
      OBVIOUS
    <2>4. UnbornUnused'
      OBVIOUS
    <2>5. ClosingUnlisted'
      BY Zenon
    <2>6. ForgettingDead'
      OBVIOUS
    <2>7. ClosedEmpty'
      BY Zenon
    <2>8. OpenTunnelOwned'
      OBVIOUS
    <2>9. IdleCovered'
      BY Zenon
    <2> QED BY <2>1, <2>2, <2>3, <2>4, <2>5, <2>6, <2>7, <2>8, <2>9, Zenon
  <1>9. ASSUME NEW k \in Callers, Publish(k) PROVE Structure'
    BY <1>9 DEF Publish, Woken
  <1>10. ASSUME NEW k \in Callers, Release(k) PROVE Structure'
    <2>0. client[k] \in Clients /\ (client[k] \in sessions => refCount[client[k]] >= 1)
      BY <1>10, HeldCounted DEF Release, Counting
    <2> USE <1>10, <2>0, NoneAssumption DEF Release, ArmIdle, Goto
    <2>1. TypeOK'
      BY <1>0, Zenon
    <2>2. ClientInHand'
      OBVIOUS
    <2>3. PrivateClient'
      OBVIOUS
    <2>4. UnbornUnused'
      OBVIOUS
    <2>5. ClosingUnlisted'
      BY Zenon
    <2>6. ForgettingDead'
      BY Zenon
    <2>7. ClosedEmpty'
      BY Zenon
    <2>8. OpenTunnelOwned'
      OBVIOUS
    <2>9. IdleCovered'
      OBVIOUS
    <2> QED BY <2>1, <2>2, <2>3, <2>4, <2>5, <2>6, <2>7, <2>8, <2>9, Zenon
  <1>11. ASSUME NEW c \in Clients, TimerFires(c) PROVE Structure'
    BY <1>11 DEF TimerFires
  <1>12. ASSUME NEW c \in Clients, IdleCallback(c) PROVE Structure'
    BY <1>12 DEF IdleCallback, StillIdle
  <1>13. ASSUME NEW c \in Clients, CloseRemoved(c) PROVE Structure'
    BY <1>13 DEF CloseRemoved, CloseTunnel
  <1>14. ASSUME NEW c \in Clients, TunnelDies(c) PROVE Structure'
    BY <1>14 DEF TunnelDies, CloseTunnel
  <1>15. ASSUME NEW c \in Clients, Retire(c) PROVE Structure'
    BY <1>15 DEF Retire
  <1>16. ASSUME NEW c \in Clients, Forget(c) PROVE Structure'
    BY <1>16 DEF Forget, ForgetBody
  <1>17. CASE CloseAll
    BY <1>17 DEF CloseAll
  <1>18. CASE UNCHANGED vars
    BY <1>18 DEF vars
  <1> QED
    BY Zenon, <1>1, <1>2, <1>3, <1>4, <1>5, <1>6, <1>7, <1>8, <1>9, <1>10, <1>11, <1>12,
       <1>13, <1>14, <1>15, <1>16, <1>17, <1>18
    DEF Next, CallerStep, TunnelStep

(* A step that moves no holder and adds no count preserves the counting    *)
(* part, provided it commits only unheld clients to Close.                 *)
LEMMA HoldersKept ==
    ASSUME TypeOK, Counting,
           \A d \in Clients : Holders(d)' = Holders(d),
           sessions' \subseteq sessions, refCount' = refCount, closed => closed',
           closing' \subseteq Clients,
           \A d \in closing' \ closing : closed' \/ Holders(d) = {}
    PROVE  Counting'
  <1>1. RefCountExact'
    BY Zenon DEF TypeOK, Counting, RefCountExact
  <1>2. RealmCap'
    BY Zenon DEF Counting, RealmCap
  <1>3. NoCloseUnderHolder'
    BY Zenon DEF Counting, NoCloseUnderHolder
  <1> QED BY <1>1, <1>2, <1>3, Zenon DEF Counting

(* Every action preserves the counting part. *)
LEMMA CountingPreserved == IInv /\ [Next]_vars => Counting'
  <1> SUFFICES ASSUME IInv, [Next]_vars PROVE Counting'
    BY Zenon
  <1>0. Structure /\ Counting /\ TypeOK /\ ClientInHand /\ TypeOK'
    BY TypePreserved, Zenon DEF IInv, Structure
  <1> USE <1>0 DEF TypeOK
  <1>1. ASSUME NEW k \in Callers, StartAcquire(k) PROVE Counting'
    <2>1. \A d \in Clients : Holders(d)' = Holders(d)
      BY <1>1, NoneAssumption, Zenon DEF StartAcquire, Holders, Goto, ClientInHand
    <2> QED BY <1>1, <2>1, HoldersKept, Zenon DEF StartAcquire
  <1>2. ASSUME NEW k \in Callers, AcquireClosed(k) PROVE Counting'
    <2>1. \A d \in Clients : Holders(d)' = Holders(d)
      BY <1>2, NoneAssumption, Zenon DEF AcquireClosed, Holders, Goto, ClientInHand
    <2> QED BY <1>2, <2>1, HoldersKept, Zenon DEF AcquireClosed
  <1>3. ASSUME NEW k \in Callers, AcquireFull(k) PROVE Counting'
    <2>1. \A d \in Clients : Holders(d)' = Holders(d)
      BY <1>3, NoneAssumption DEF AcquireFull, Holders, Goto, ClientInHand
    <2> QED BY <1>3, <2>1, HoldersKept, Zenon DEF AcquireFull, PruneClosed, Live
  <1>4. ASSUME NEW k \in Callers, NEW c \in Clients, AcquireReuse(k, c) PROVE Counting'
    <2>1. c \in sessions /\ c \notin closing /\ k \notin Holders(c)
      BY <1>4, NoneAssumption, Zenon
      DEF AcquireReuse, Live, Holders, Structure, ClosingUnlisted, ClientInHand
    <2>2. Holders(c)' = Holders(c) \cup {k}
      BY <1>4 DEF AcquireReuse, Holders, Goto
    <2>3. \A d \in Clients \ {c} : Holders(d)' = Holders(d)
      BY <1>4, NoneAssumption, Zenon DEF AcquireReuse, Holders, Goto, ClientInHand
    <2>4. Cardinality(Holders(c)') = Cardinality(Holders(c)) + 1
      <3>1. IsFiniteSet(Holders(c))
        BY HoldersFinite, Zenon
      <3>2. Cardinality(Holders(c) \cup {k}) = Cardinality(Holders(c)) + 1
        BY <2>1, <3>1, FS_AddElement, Zenon
      <3> QED BY <2>2, <3>2, Zenon
    <2>5. RefCountExact'
      BY <1>4, <2>3, <2>4 DEF AcquireReuse, Live, Counting, RefCountExact
    <2>6. RealmCap'
      BY <1>4, <2>1, <2>3, <2>4, MaxRealmsAssumption, HoldersFinite
      DEF AcquireReuse, Available, Counting, RefCountExact, RealmCap
    <2>7. NoCloseUnderHolder'
      BY <1>4, <2>1, <2>3, Zenon DEF AcquireReuse, Counting, NoCloseUnderHolder
    <2> QED BY <2>5, <2>6, <2>7, Zenon DEF Counting
  <1>5. ASSUME NEW k \in Callers, Connect(k) PROVE Counting'
    <2>1. \A d \in Clients : Holders(d)' = Holders(d)
      BY <1>5, NoneAssumption DEF Connect, Holders, Goto, ClientInHand
    <2> QED BY <1>5, <2>1, HoldersKept, Zenon DEF Connect
  <1>6. ASSUME NEW k \in Callers, Register(k) PROVE Counting'
    <2>1. CASE ~Keep(k)
      <3>1. \A d \in Clients : Holders(d)' = Holders(d)
        BY <1>6, <2>1, NoneAssumption DEF Register, Keep, Holders, Goto
      <3> QED BY <1>6, <2>1, <3>1, HoldersKept, Zenon DEF Register
    <2>2. CASE Keep(k)
      <3> PICK c \in Clients : c = client[k]
        BY <2>2, Zenon DEF Keep
      <3>1. c \notin sessions \cup closing /\ Holders(c) = {}
        BY <1>6, <2>2, Zenon DEF Register, Keep, Holders, Structure, PrivateClient
      <3>2. Holders(c)' = {k}
        BY <1>6, <2>2, <3>1 DEF Register, Holders, Goto
      <3>3. \A d \in Clients \ {c} : Holders(d)' = Holders(d)
        BY <1>6, <2>2 DEF Register, Holders, Goto
      <3>4. Cardinality(Holders(c)') = 1
        BY <3>2, FS_Singleton, Zenon
      <3>5. RefCountExact'
        BY <1>6, <2>2, <3>1, <3>3, <3>4 DEF Register, InitialCount, Counting, RefCountExact
      <3>6. RealmCap'
        BY <3>1, <3>3, <3>4, MaxRealmsAssumption DEF Counting, RealmCap
      <3>7. NoCloseUnderHolder'
        BY <1>6, <2>2, <3>1, <3>3, Zenon DEF Register, Counting, NoCloseUnderHolder
      <3> QED BY <3>5, <3>6, <3>7, Zenon DEF Counting
    <2> QED BY <2>1, <2>2, Zenon
  <1>7. ASSUME NEW k \in Callers, Hook(k) PROVE Counting'
    <2>1. \A d \in Clients : Holders(d)' = Holders(d)
      BY <1>7, NoneAssumption DEF Hook, Holders, Goto, ClientInHand
    <2> QED BY <1>7, <2>1, HoldersKept, Zenon DEF Hook, ForgetBody
  <1>8. ASSUME NEW k \in Callers, Discard(k) PROVE Counting'
    <2>1. \A d \in Clients : Holders(d)' = Holders(d)
      BY <1>8, NoneAssumption DEF Discard, Holders, Goto, ClientInHand
    <2> QED BY <1>8, <2>1, HoldersKept, Zenon DEF Discard
  <1>9. ASSUME NEW k \in Callers, Publish(k) PROVE Counting'
    <2>1. \A d \in Clients : Holders(d)' = Holders(d)
      BY <1>9, NoneAssumption DEF Publish, Holders, ClientInHand, Woken
    <2> QED BY <1>9, <2>1, HoldersKept, Zenon DEF Publish, Woken
  <1>10. ASSUME NEW k \in Callers, Release(k) PROVE Counting'
    <2> PICK c \in Clients : c = client[k]
      BY <1>10 DEF Release, ClientInHand
    <2>1. k \in Holders(c)
      BY <1>10, Zenon DEF Release, Holders, ClientInHand
    <2>2. Holders(c)' = Holders(c) \ {k}
      BY <1>10, <2>1, NoneAssumption, Zenon DEF Release, Holders, Goto
    <2>3. \A d \in Clients \ {c} : Holders(d)' = Holders(d)
      BY <1>10, NoneAssumption DEF Release, Holders, Goto
    <2>4. Cardinality(Holders(c)') = Cardinality(Holders(c)) - 1
      <3>1. IsFiniteSet(Holders(c))
        BY HoldersFinite, Zenon
      <3>2. Cardinality(Holders(c) \ {k}) = Cardinality(Holders(c)) - 1
        BY <2>1, <3>1, FS_RemoveElement, Zenon
      <3> QED BY <2>2, <3>2, Zenon
    <2>5. RefCountExact'
      BY <1>10, <2>1, <2>3, <2>4 DEF Release, Counting, RefCountExact
    <2>6. RealmCap'
      BY <2>1, <2>3, <2>4, HoldersFinite, MaxRealmsAssumption DEF Counting, RealmCap
    <2>7. c \in sessions /\ ~(refCount[c] > 1) => Holders(c)' = {}
      <3>1. SUFFICES ASSUME c \in sessions, ~(refCount[c] > 1) PROVE Holders(c)' = {}
        BY Zenon
      <3>2. Cardinality(Holders(c)) = 1
        BY <1>10, <3>1, <2>1, HeldCounted DEF Release, Counting, RefCountExact
      <3>3. Cardinality(Holders(c) \ {k}) = 0 /\ IsFiniteSet(Holders(c) \ {k})
        BY <2>1, <3>2, HoldersFinite, FS_RemoveElement
      <3> QED BY <2>2, <3>3, FS_EmptySet, Zenon
    <2>8. NoCloseUnderHolder'
      BY <1>10, <2>1, <2>2, <2>3, <2>7 DEF Release, Counting, NoCloseUnderHolder
    <2> QED BY <2>5, <2>6, <2>8, Zenon DEF Counting
  <1>11. ASSUME NEW c \in Clients, TimerFires(c) PROVE Counting'
    <2>1. \A d \in Clients : Holders(d)' = Holders(d)
      BY <1>11, Zenon DEF TimerFires, Holders
    <2> QED BY <1>11, <2>1, HoldersKept, Zenon DEF TimerFires
  <1>12. ASSUME NEW c \in Clients, IdleCallback(c) PROVE Counting'
    <2>1. \A d \in Clients : Holders(d)' = Holders(d)
      BY <1>12, Zenon DEF IdleCallback, Holders
    <2>2. StillIdle(c) => Holders(c) = {}
      BY HoldersFinite, FS_EmptySet, Zenon DEF StillIdle, Counting, RefCountExact
    <2> QED BY <1>12, <2>1, <2>2, HoldersKept DEF IdleCallback
  <1>13. ASSUME NEW c \in Clients, CloseRemoved(c) PROVE Counting'
    <2>1. \A d \in Clients : Holders(d)' = Holders(d)
      BY <1>13, Zenon DEF CloseRemoved, Holders
    <2> QED BY <1>13, <2>1, HoldersKept, Zenon DEF CloseRemoved, CloseTunnel
  <1>14. ASSUME NEW c \in Clients, TunnelDies(c) PROVE Counting'
    <2>1. \A d \in Clients : Holders(d)' = Holders(d)
      BY <1>14, Zenon DEF TunnelDies, Holders
    <2> QED BY <1>14, <2>1, HoldersKept, Zenon DEF TunnelDies, CloseTunnel
  <1>15. ASSUME NEW c \in Clients, Retire(c) PROVE Counting'
    <2>1. \A d \in Clients : Holders(d)' = Holders(d)
      BY <1>15, Zenon DEF Retire, Holders
    <2> QED BY <1>15, <2>1, HoldersKept, Zenon DEF Retire
  <1>16. ASSUME NEW c \in Clients, Forget(c) PROVE Counting'
    <2>1. \A d \in Clients : Holders(d)' = Holders(d)
      BY <1>16, Zenon DEF Forget, Holders
    <2> QED BY <1>16, <2>1, HoldersKept, Zenon DEF Forget, ForgetBody
  <1>17. CASE CloseAll
    <2>1. \A d \in Clients : Holders(d)' = Holders(d)
      BY <1>17, Zenon DEF CloseAll, Holders
    <2> QED BY <1>17, <2>1, HoldersKept, Zenon DEF CloseAll
  <1>18. CASE UNCHANGED vars
    <2>1. \A d \in Clients : Holders(d)' = Holders(d)
      BY <1>18, Zenon DEF vars, Holders
    <2> QED BY <1>18, <2>1, HoldersKept, Zenon DEF vars
  <1> QED
    BY Zenon, <1>1, <1>2, <1>3, <1>4, <1>5, <1>6, <1>7, <1>8, <1>9, <1>10, <1>11, <1>12,
       <1>13, <1>14, <1>15, <1>16, <1>17, <1>18
    DEF Next, CallerStep, TunnelStep

(* The inductive invariant holds in every reachable state. *)
LEMMA Inductive == Spec => []IInv
  <1>1. Init => IInv
    <2> SUFFICES ASSUME Init PROVE IInv
      BY Zenon
    <2>1. Structure
      BY NoneAssumption, Zenon
      DEF Init, Structure, TypeOK, ClientInHand, PrivateClient, UnbornUnused,
          ClosingUnlisted, ForgettingDead, ClosedEmpty, OpenTunnelOwned, IdleCovered
    <2>2. \A c \in Clients : Holders(c) = {}
      BY NoneAssumption, Zenon DEF Init, Holders
    <2>3. Counting
      BY <2>2, FS_EmptySet, MaxRealmsAssumption
      DEF Init, Counting, RefCountExact, RealmCap, NoCloseUnderHolder
    <2> QED BY <2>1, <2>3, Zenon DEF IInv
  <1>2. IInv /\ [Next]_vars => IInv'
    BY StructurePreserved, CountingPreserved, Zenon DEF IInv
  <1> QED BY <1>1, <1>2, PTL DEF Spec

(* Every variable keeps its type. *)
THEOREM TypeCorrect == Spec => []TypeOK
  <1>1. IInv => TypeOK
    BY Zenon DEF IInv, Structure
  <1> QED BY <1>1, Inductive, PTL

(* Acquire, Release, the idle callback, forget and CloseAll keep every     *)
(* listed session's refCount equal to the number of its holders.           *)
THEOREM RefCountCorrect == Spec => []RefCountExact
  <1>1. IInv => RefCountExact
    BY Zenon DEF IInv, Counting
  <1> QED BY <1>1, Inductive, PTL

(* No tunnel ever has more holders than key.maxRealms. *)
THEOREM RealmCapHolds == Spec => []RealmCap
  <1>1. IInv => RealmCap
    BY Zenon DEF IInv, Counting
  <1> QED BY <1>1, Inductive, PTL

(* CloseAll leaves the list empty for good, whatever handshakes were in    *)
(* flight.                                                                 *)
THEOREM ClosedStaysEmpty == Spec => []ClosedEmpty
  <1>1. IInv => ClosedEmpty
    BY Zenon DEF IInv, Structure
  <1> QED BY <1>1, Inductive, PTL

(* No open tunnel is ever without an owner that will close it, and an idle *)
(* listed one always has its timer or its callback.                        *)
THEOREM NoTunnelLeak == Spec => [](OpenTunnelOwned /\ IdleCovered)
  <1>1. IInv => OpenTunnelOwned /\ IdleCovered
    BY Zenon DEF IInv, Structure
  <1> QED BY <1>1, Inductive, PTL

(* Before CloseAll, no client is closed by the manager under a holder. *)
THEOREM HoldersKeepTunnel == Spec => []NoCloseUnderHolder
  <1>1. IInv => NoCloseUnderHolder
    BY Zenon DEF IInv, Counting
  <1> QED BY <1>1, Inductive, PTL

-----------------------------------------------------------------------------
(* The handshake in flight *)

(* m.inflight[key] names the one caller between its reservation of the     *)
(* handshake and the critical section that ends it.                        *)
OneHandshake ==
    /\ \A k \in Callers : pc[k] \in {"connect", "register"} => inflight = k
    /\ \A k \in Callers : inflight = k => pc[k] \in {"connect", "register"}

(* With a pinned port a handshake starts only from an empty list, and      *)
(* nobody else lists a session until it ends.                              *)
HandshakeFromEmpty == fixedPort /\ inflight # None => sessions = {}

(* PinnedPortOneSession without the count. *)
OneListed == fixedPort => \A c, d \in sessions : c = d

(* A caller that waits on inflightConn.done waits for a caller that has    *)
(* not yet closed that channel, so the wake-up cannot be missed.           *)
WaiterHasLeader ==
    \A k \in Callers : pc[k] = "wait" =>
        /\ leader[k] \in Callers
        /\ pc[leader[k]] \in {"connect", "register", "hook", "discard", "publish"}

FlightInv == OneHandshake /\ HandshakeFromEmpty /\ OneListed /\ WaiterHasLeader

(* A step that keeps the handshake's fields, moves callers only between    *)
(* other labels and lists no new session preserves FlightInv.              *)
LEMMA FlightUntouched ==
    ASSUME TypeOK, FlightInv, UNCHANGED <<fixedPort, inflight, leader>>,
           sessions' \subseteq sessions,
           NEW k \in Callers, NEW label,
           pc' = [pc EXCEPT ![k] = label],
           \/ label = pc[k]
           \/ /\ pc[k] \in {"idle", "acquire", "hold"}
              /\ label \in {"idle", "acquire", "hold"}
           \/ /\ pc[k] \in {"hook", "discard"}
              /\ label = "publish"
    PROVE  FlightInv'
  <1> USE DEF TypeOK, FlightInv
  <1>1. OneHandshake'
    BY Zenon DEF OneHandshake
  <1>2. HandshakeFromEmpty'
    BY Zenon DEF HandshakeFromEmpty
  <1>3. OneListed'
    BY Zenon DEF OneListed
  <1>4. WaiterHasLeader'
    BY Zenon DEF WaiterHasLeader
  <1> QED BY <1>1, <1>2, <1>3, <1>4, Zenon

(* The same for a step that moves no caller. *)
LEMMA FlightUnmoved ==
    ASSUME FlightInv, UNCHANGED <<fixedPort, inflight, leader, pc>>, sessions' \subseteq sessions
    PROVE  FlightInv'
  <1> USE DEF FlightInv
  <1>1. OneHandshake'
    BY Zenon DEF OneHandshake
  <1>2. HandshakeFromEmpty'
    BY Zenon DEF HandshakeFromEmpty
  <1>3. OneListed'
    BY Zenon DEF OneListed
  <1>4. WaiterHasLeader'
    BY Zenon DEF WaiterHasLeader
  <1> QED BY <1>1, <1>2, <1>3, <1>4, Zenon

(* Every action preserves FlightInv. *)
LEMMA FlightPreserved == TypeOK /\ FlightInv /\ [Next]_vars => FlightInv'
  <1> SUFFICES ASSUME TypeOK, FlightInv, [Next]_vars PROVE FlightInv'
    BY Zenon
  <1>1. ASSUME NEW k \in Callers, StartAcquire(k) PROVE FlightInv'
    BY <1>1, FlightUntouched, Zenon DEF StartAcquire, Goto
  <1>2. ASSUME NEW k \in Callers, AcquireClosed(k) PROVE FlightInv'
    BY <1>2, FlightUntouched, Zenon DEF AcquireClosed, Goto
  <1>3. ASSUME NEW k \in Callers, AcquireFull(k) PROVE FlightInv'
    <2> USE <1>3 DEF AcquireFull, PruneClosed, Goto
    <2>0. Live \subseteq sessions
      BY Zenon DEF Live
    <2>1. CASE PortTaken /\ Goto(k, "idle") /\ UNCHANGED <<inflight, leader>>
      BY <2>0, <2>1, FlightUntouched, Zenon
    <2>2. CASE /\ ~PortTaken /\ inflight # None
               /\ leader' = [leader EXCEPT ![k] = inflight]
               /\ Goto(k, "wait") /\ UNCHANGED inflight
      <3>1. OneHandshake'
        BY <2>2, Zenon DEF OneHandshake, FlightInv, TypeOK
      <3>2. HandshakeFromEmpty' /\ OneListed'
        BY <2>0, <2>2, Zenon DEF HandshakeFromEmpty, OneListed, FlightInv
      <3>3. WaiterHasLeader'
        BY <2>2, Zenon DEF WaiterHasLeader, OneHandshake, FlightInv, TypeOK
      <3> QED BY <3>1, <3>2, <3>3, Zenon DEF FlightInv
    <2>3. CASE ~PortTaken /\ inflight = None /\ inflight' = k /\ Goto(k, "connect")
               /\ UNCHANGED leader
      <3>1. OneHandshake'
        BY <2>3, NoneAssumption, Zenon DEF OneHandshake, FlightInv, TypeOK
      <3>2. HandshakeFromEmpty' /\ OneListed'
        BY <2>0, <2>3, Zenon DEF PortTaken, HandshakeFromEmpty, OneListed, FlightInv
      <3>3. WaiterHasLeader'
        BY <2>3, Zenon DEF WaiterHasLeader, FlightInv, TypeOK
      <3> QED BY <3>1, <3>2, <3>3, Zenon DEF FlightInv
    <2> QED BY <2>1, <2>2, <2>3, Zenon
  <1>4. ASSUME NEW k \in Callers, NEW c \in Clients, AcquireReuse(k, c) PROVE FlightInv'
    BY <1>4, FlightUntouched, Zenon DEF AcquireReuse, Live, Goto
  <1>5. ASSUME NEW k \in Callers, Connect(k) PROVE FlightInv'
    <2> USE <1>5 DEF Connect, Goto
    <2>1. OneHandshake'
      BY Zenon DEF OneHandshake, FlightInv, TypeOK
    <2>2. HandshakeFromEmpty' /\ OneListed'
      BY Zenon DEF HandshakeFromEmpty, OneListed, FlightInv
    <2>3. WaiterHasLeader'
      BY Zenon DEF WaiterHasLeader, FlightInv, TypeOK
    <2> QED BY <2>1, <2>2, <2>3, Zenon DEF FlightInv
  <1>6. ASSUME NEW k \in Callers, Register(k) PROVE FlightInv'
    <2>0. inflight = k /\ k # None /\ inflight' = None /\ UNCHANGED <<fixedPort, leader>>
      BY <1>6, NoneAssumption, Zenon DEF Register, OneHandshake, FlightInv
    <2>1. OneHandshake'
      BY <1>6, <2>0, NoneAssumption DEF Register, Goto, OneHandshake, FlightInv, TypeOK
    <2>2. sessions' = sessions \/ sessions' = sessions \cup {client[k]}
      BY <1>6, Zenon DEF Register
    <2>3. OneListed'
      BY <2>0, <2>2, Zenon DEF HandshakeFromEmpty, OneListed, FlightInv
    <2>4. HandshakeFromEmpty'
      BY <2>0, Zenon DEF HandshakeFromEmpty
    <2>5. WaiterHasLeader'
      BY <1>6, <2>0 DEF Register, Goto, WaiterHasLeader, FlightInv, TypeOK
    <2> QED BY <2>1, <2>3, <2>4, <2>5, Zenon DEF FlightInv
  <1>7. ASSUME NEW k \in Callers, Hook(k) PROVE FlightInv'
    BY <1>7, FlightUntouched, Zenon DEF Hook, ForgetBody, Goto
  <1>8. ASSUME NEW k \in Callers, Discard(k) PROVE FlightInv'
    BY <1>8, FlightUntouched, Zenon DEF Discard, Goto
  <1>9. ASSUME NEW k \in Callers, Publish(k) PROVE FlightInv'
    <2>0. \A w \in Callers : \/ pc'[w] = pc[w] /\ w # k /\ w \notin Woken(k)
                             \/ pc[w] \in {"publish", "wait"} /\ pc'[w] \in {"idle", "hold", "acquire"}
      BY <1>9, Zenon DEF Publish, Woken
    <2>1. OneHandshake'
      BY <1>9, <2>0, Zenon DEF Publish, OneHandshake, FlightInv, TypeOK
    <2>2. HandshakeFromEmpty' /\ OneListed'
      BY <1>9, Zenon DEF Publish, HandshakeFromEmpty, OneListed, FlightInv
    <2>3. WaiterHasLeader'
      <3> SUFFICES ASSUME NEW w \in Callers, pc'[w] = "wait"
                   PROVE  /\ leader'[w] \in Callers
                          /\ pc'[leader'[w]] \in {"connect", "register", "hook", "discard", "publish"}
        BY Zenon DEF WaiterHasLeader
      <3>1. pc[w] = "wait" /\ w \notin Woken(k)
        BY <2>0, Zenon
      <3>2. leader'[w] = leader[w] /\ leader[w] # k /\ leader[w] \in Callers
        BY <1>9, <3>1, Zenon DEF Publish, Woken, WaiterHasLeader, FlightInv
      <3>3. pc'[leader[w]] = pc[leader[w]]
        BY <1>9, <3>1, <3>2, Zenon DEF Publish, Woken, WaiterHasLeader, FlightInv
      <3> QED BY <3>1, <3>2, <3>3, Zenon DEF WaiterHasLeader, FlightInv
    <2> QED BY <2>1, <2>2, <2>3, Zenon DEF FlightInv
  <1>10. ASSUME NEW k \in Callers, Release(k) PROVE FlightInv'
    BY <1>10, FlightUntouched, Zenon DEF Release, Goto
  <1>11. ASSUME NEW c \in Clients, TunnelStep(c) PROVE FlightInv'
    <2>1. UNCHANGED <<fixedPort, inflight, leader, pc>> /\ sessions' \subseteq sessions
      BY <1>11, Zenon
      DEF TunnelStep, TimerFires, IdleCallback, CloseRemoved, TunnelDies, Retire, Forget, ForgetBody
    <2> QED BY <2>1, FlightUnmoved, Zenon
  <1>12. CASE CloseAll
    BY <1>12, FlightUnmoved, Zenon DEF CloseAll
  <1>13. CASE UNCHANGED vars
    BY <1>13, FlightUnmoved, Zenon DEF vars
  <1> QED
    BY <1>1, <1>2, <1>3, <1>4, <1>5, <1>6, <1>7, <1>8, <1>9, <1>10, <1>11, <1>12, <1>13, Zenon
    DEF Next, CallerStep

(* FlightInv holds in every reachable state. *)
LEMMA FlightInductive == Spec => []FlightInv
  <1>1. Init => FlightInv
    BY NoneAssumption
    DEF Init, FlightInv, OneHandshake, HandshakeFromEmpty, OneListed, WaiterHasLeader
  <1>2. IInv => TypeOK
    BY Zenon DEF IInv, Structure
  <1> QED BY <1>1, <1>2, Inductive, FlightPreserved, PTL DEF Spec

(* A pinned local port never has two listed sessions: Acquire's capacity   *)
(* error and the single inflight handshake keep the second one out.        *)
THEOREM PinnedPortSafe == Spec => []PinnedPortOneSession
  <1>1. TypeOK /\ FlightInv => PinnedPortOneSession
    <2> SUFFICES ASSUME FlightInv, fixedPort PROVE Cardinality(sessions) <= 1
      BY Zenon DEF PinnedPortOneSession
    <2>1. CASE sessions = {}
      BY <2>1, FS_EmptySet
    <2>2. ASSUME NEW c \in sessions PROVE Cardinality(sessions) <= 1
      <3>1. sessions = {c}
        BY <2>2, Zenon DEF FlightInv, OneListed
      <3> QED BY <3>1, FS_Singleton
    <2> QED BY <2>1, <2>2, Zenon
  <1> QED BY <1>1, FlightInductive, TypeCorrect, PTL

(* A caller blocked on another caller's handshake always has a leader that *)
(* has still to close the channel: Acquire cannot miss the wake-up.        *)
THEOREM NoMissedWakeup == Spec => []WaiterHasLeader
  <1>1. FlightInv => WaiterHasLeader
    BY Zenon DEF FlightInv
  <1> QED BY <1>1, FlightInductive, PTL
=============================================================================
