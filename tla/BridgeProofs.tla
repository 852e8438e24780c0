---------------------------- MODULE BridgeProofs ----------------------------
(***************************************************************************)
(* The bridge for any number of clients and any limits.  TokenExact needs  *)
(* to know where finishOnce can have run; RealmsWithinLimit rests on the   *)
(* slots, which count the handlers between Accept and FreeSlot, and a      *)
(* handler has its realm only in between.                                  *)
(***************************************************************************)
EXTENDS Bridge, FiniteSetTheorems, TLAPS

Slotted == {h \in Handlers : pc[h] \notin {"none", "done"}}

(* Where finishOnce has run, and where it cannot have. *)
FinishPlaces ==
    \A h \in Handlers :
        /\ pc[h] \in {"request", "lock", "dial", "unlock", "negotiate"} => ~finished[h]
        /\ pc[h] = "stream" => finished[h]

SlotsExact == slots = Cardinality(Slotted) /\ slots <= ConnectionLimit

RealmPlaces ==
    \A h \in Handlers : realm[h] = "open" => pc[h] \in {"negotiate", "stream", "closeDevice"}

TrackedExact == tracked = {h \in Handlers : pc[h] \notin {"none", "free", "done"}}

ServePlaces ==
    /\ servePc \in {"snapshot", "closeConns", "exited"} => tunnel = "closed"
    /\ servePc = "exited" => \A h \in Handlers : pc[h] = "none"

IInv == TypeOK /\ TokenExact /\ FinishPlaces /\ SlotsExact /\ RealmPlaces /\ TrackedExact
        /\ ServePlaces

USE BridgeAssumption DEF serve, pool, device, Goto

(* Every step keeps the types; FreeSlot needs a slot to free. *)
LEMMA TypePreserved == IInv /\ [Next]_vars => TypeOK'
<1> SUFFICES ASSUME IInv, [Next]_vars PROVE TypeOK'
  BY Zenon
<1>h. TypeOK /\ SlotsExact
  BY Zenon DEF IInv
<1> USE <1>h DEF TypeOK
<1>1. ASSUME NEW h \in Handlers, Accept(h) PROVE TypeOK'
  BY <1>1 DEF Accept, ConnectionLimit
<1>2. ASSUME NEW h \in Handlers, Reject(h) PROVE TypeOK'
  BY <1>2, Zenon DEF Reject
<1>3. CASE Signal
  BY <1>3, Zenon DEF Signal
<1>4. CASE CloseListener
  BY <1>4, Zenon DEF CloseListener
<1>5. CASE AcceptFails
  BY <1>5, Zenon DEF AcceptFails
<1>6. CASE TunnelDies
  BY <1>6, Zenon DEF TunnelDies, CloseTunnel
<1>7. ASSUME NEW h \in Handlers, RealmDies(h) PROVE TypeOK'
  BY <1>7, Zenon DEF RealmDies
<1>8. CASE ShutdownTunnel
  BY <1>8, Zenon DEF ShutdownTunnel, CloseTunnel
<1>9. CASE ShutdownSnapshot
  BY <1>9, Zenon DEF ShutdownSnapshot, Snapshot
<1>10. ASSUME NEW h \in Handlers, ShutdownConn(h) PROVE TypeOK'
  BY <1>10, Zenon DEF ShutdownConn
<1>11. CASE ShutdownWait
  BY <1>11, Zenon DEF ShutdownWait, HandlersDone
<1>12. ASSUME NEW h \in Handlers, FirstRequest(h) PROVE TypeOK'
  BY <1>12, Zenon DEF FirstRequest
<1>13. ASSUME NEW h \in Handlers, LockNegotiate(h) PROVE TypeOK'
  BY <1>13, Zenon DEF LockNegotiate
<1>14. ASSUME NEW h \in Handlers, LockGivesUp(h) PROVE TypeOK'
  BY <1>14, Zenon DEF LockGivesUp
<1>15. ASSUME NEW h \in Handlers, DialRealm(h) PROVE TypeOK'
  BY <1>15, Zenon DEF DialRealm
<1>16. ASSUME NEW h \in Handlers, DialFails(h) PROVE TypeOK'
  BY <1>16, Zenon DEF DialFails, CloseTunnel
<1>17. ASSUME NEW h \in Handlers, OpenRealmUnlock(h) PROVE TypeOK'
  BY <1>17, Zenon DEF OpenRealmUnlock, Finish
<1>18. ASSUME NEW h \in Handlers, OpenRealmFailed(h) PROVE TypeOK'
  BY <1>18, Zenon DEF OpenRealmFailed, TunnelUseless
<1>19. ASSUME NEW h \in Handlers, NegotiationFinished(h) PROVE TypeOK'
  BY <1>19, Zenon DEF NegotiationFinished, Finish
<1>20. ASSUME NEW h \in Handlers, NegotiationFails(h) PROVE TypeOK'
  BY <1>20, Zenon DEF NegotiationFails
<1>21. ASSUME NEW h \in Handlers, StreamEnds(h) PROVE TypeOK'
  BY <1>21, Zenon DEF StreamEnds, CloseRealm
<1>22. ASSUME NEW h \in Handlers, CloseDevice(h) PROVE TypeOK'
  BY <1>22, Zenon DEF CloseDevice, CloseRealm
<1>23. ASSUME NEW h \in Handlers, FinishDeferred(h) PROVE TypeOK'
  BY <1>23, Zenon DEF FinishDeferred, Finish
<1>24. ASSUME NEW h \in Handlers, CloseUpstream(h) PROVE TypeOK'
  BY <1>24, Zenon DEF CloseUpstream
<1>25. ASSUME NEW h \in Handlers, Untrack(h) PROVE TypeOK'
  BY <1>25, Zenon DEF Untrack
<1>26. ASSUME NEW h \in Handlers, FreeSlot(h) PROVE TypeOK'
  <2>1. h \in Slotted
    BY <1>26, Zenon DEF FreeSlot, Slotted
  <2>2. IsFiniteSet(Slotted) /\ Cardinality(Slotted) \in Nat
    BY FS_Subset, FS_CardinalityType, Zenon DEF Slotted
  <2>3. Cardinality(Slotted) # 0
    BY <2>1, <2>2, FS_EmptySet, Zenon
  <2>4. slots >= 1
    BY <2>2, <2>3 DEF SlotsExact
  <2> QED
    BY <1>26, <2>4 DEF FreeSlot
<1>27. ASSUME NEW h \in Handlers, WgDone(h) PROVE TypeOK'
  BY <1>27, Zenon DEF WgDone
<1>28. CASE UNCHANGED vars
  BY <1>28, Zenon DEF vars
<1> QED
  BY <1>1, <1>2, <1>3, <1>4, <1>5, <1>6, <1>7, <1>8, <1>9, <1>10, <1>11, <1>12, <1>13, <1>14,
     <1>15, <1>16, <1>17, <1>18, <1>19, <1>20, <1>21, <1>22, <1>23, <1>24, <1>25, <1>26, <1>27,
     <1>28
     DEF Next, HandlerStep, HandlerRunning, ServeRunning

(* One handler at a time is between LockNegotiate and finish. *)
LEMMA TokenPreserved == IInv /\ [Next]_vars => TokenExact'
<1> SUFFICES ASSUME IInv, [Next]_vars PROVE TokenExact'
  BY Zenon
<1>h. TypeOK /\ TokenExact /\ FinishPlaces
  BY Zenon DEF IInv
<1> USE <1>h DEF TypeOK, TokenExact, FinishPlaces, Negotiating
<1>1. ASSUME NEW h \in Handlers, Accept(h) PROVE TokenExact'
  BY <1>1 DEF Accept
<1>2. ASSUME NEW h \in Handlers, Reject(h) PROVE TokenExact'
  BY <1>2, Zenon DEF Reject
<1>3. CASE Signal
  BY <1>3, Zenon DEF Signal
<1>4. CASE CloseListener
  BY <1>4, Zenon DEF CloseListener
<1>5. CASE AcceptFails
  BY <1>5, Zenon DEF AcceptFails
<1>6. CASE TunnelDies
  BY <1>6, Zenon DEF TunnelDies, CloseTunnel
<1>7. ASSUME NEW h \in Handlers, RealmDies(h) PROVE TokenExact'
  BY <1>7, Zenon DEF RealmDies
<1>8. CASE ShutdownTunnel
  BY <1>8, Zenon DEF ShutdownTunnel, CloseTunnel
<1>9. CASE ShutdownSnapshot
  BY <1>9, Zenon DEF ShutdownSnapshot, Snapshot
<1>10. ASSUME NEW h \in Handlers, ShutdownConn(h) PROVE TokenExact'
  BY <1>10, Zenon DEF ShutdownConn
<1>11. CASE ShutdownWait
  BY <1>11, Zenon DEF ShutdownWait, HandlersDone
<1>12. ASSUME NEW h \in Handlers, FirstRequest(h) PROVE TokenExact'
  BY <1>12 DEF FirstRequest
<1>13. ASSUME NEW h \in Handlers, LockNegotiate(h) PROVE TokenExact'
  BY <1>13 DEF LockNegotiate
<1>14. ASSUME NEW h \in Handlers, LockGivesUp(h) PROVE TokenExact'
  BY <1>14 DEF LockGivesUp
<1>15. ASSUME NEW h \in Handlers, DialRealm(h) PROVE TokenExact'
  BY <1>15 DEF DialRealm
<1>16. ASSUME NEW h \in Handlers, DialFails(h) PROVE TokenExact'
  BY <1>16 DEF DialFails, CloseTunnel
<1>17. ASSUME NEW h \in Handlers, OpenRealmUnlock(h) PROVE TokenExact'
  BY <1>17 DEF OpenRealmUnlock, Finish
<1>18. ASSUME NEW h \in Handlers, OpenRealmFailed(h) PROVE TokenExact'
  BY <1>18 DEF OpenRealmFailed, TunnelUseless
<1>19. ASSUME NEW h \in Handlers, NegotiationFinished(h) PROVE TokenExact'
  BY <1>19 DEF NegotiationFinished, Finish
<1>20. ASSUME NEW h \in Handlers, NegotiationFails(h) PROVE TokenExact'
  BY <1>20 DEF NegotiationFails
<1>21. ASSUME NEW h \in Handlers, StreamEnds(h) PROVE TokenExact'
  BY <1>21 DEF StreamEnds, CloseRealm
<1>22. ASSUME NEW h \in Handlers, CloseDevice(h) PROVE TokenExact'
  BY <1>22 DEF CloseDevice, CloseRealm
<1>23. ASSUME NEW h \in Handlers, FinishDeferred(h) PROVE TokenExact'
  BY <1>23 DEF FinishDeferred, Finish
<1>24. ASSUME NEW h \in Handlers, CloseUpstream(h) PROVE TokenExact'
  BY <1>24 DEF CloseUpstream
<1>25. ASSUME NEW h \in Handlers, Untrack(h) PROVE TokenExact'
  BY <1>25 DEF Untrack
<1>26. ASSUME NEW h \in Handlers, FreeSlot(h) PROVE TokenExact'
  BY <1>26 DEF FreeSlot
<1>27. ASSUME NEW h \in Handlers, WgDone(h) PROVE TokenExact'
  BY <1>27 DEF WgDone
<1>28. CASE UNCHANGED vars
  BY <1>28, Zenon DEF vars
<1> QED
  BY <1>1, <1>2, <1>3, <1>4, <1>5, <1>6, <1>7, <1>8, <1>9, <1>10, <1>11, <1>12, <1>13, <1>14,
     <1>15, <1>16, <1>17, <1>18, <1>19, <1>20, <1>21, <1>22, <1>23, <1>24, <1>25, <1>26, <1>27,
     <1>28, Zenon
     DEF Next, HandlerStep, HandlerRunning, ServeRunning

(* finishOnce runs when negotiation ends. *)
LEMMA FinishPreserved == IInv /\ [Next]_vars => FinishPlaces'
<1> SUFFICES ASSUME IInv, [Next]_vars PROVE FinishPlaces'
  BY Zenon
<1>h. TypeOK /\ FinishPlaces
  BY Zenon DEF IInv
<1> USE <1>h DEF TypeOK, FinishPlaces
<1>1. ASSUME NEW h \in Handlers, Accept(h) PROVE FinishPlaces'
  BY <1>1, Zenon DEF Accept
<1>2. ASSUME NEW h \in Handlers, Reject(h) PROVE FinishPlaces'
  BY <1>2, Zenon DEF Reject
<1>3. CASE Signal
  BY <1>3, Zenon DEF Signal
<1>4. CASE CloseListener
  BY <1>4, Zenon DEF CloseListener
<1>5. CASE AcceptFails
  BY <1>5, Zenon DEF AcceptFails
<1>6. CASE TunnelDies
  BY <1>6, Zenon DEF TunnelDies, CloseTunnel
<1>7. ASSUME NEW h \in Handlers, RealmDies(h) PROVE FinishPlaces'
  BY <1>7, Zenon DEF RealmDies
<1>8. CASE ShutdownTunnel
  BY <1>8, Zenon DEF ShutdownTunnel, CloseTunnel
<1>9. CASE ShutdownSnapshot
  BY <1>9, Zenon DEF ShutdownSnapshot, Snapshot
<1>10. ASSUME NEW h \in Handlers, ShutdownConn(h) PROVE FinishPlaces'
  BY <1>10, Zenon DEF ShutdownConn
<1>11. CASE ShutdownWait
  BY <1>11, Zenon DEF ShutdownWait, HandlersDone
<1>12. ASSUME NEW h \in Handlers, FirstRequest(h) PROVE FinishPlaces'
  BY <1>12, Zenon DEF FirstRequest
<1>13. ASSUME NEW h \in Handlers, LockNegotiate(h) PROVE FinishPlaces'
  BY <1>13, Zenon DEF LockNegotiate
<1>14. ASSUME NEW h \in Handlers, LockGivesUp(h) PROVE FinishPlaces'
  BY <1>14, Zenon DEF LockGivesUp
<1>15. ASSUME NEW h \in Handlers, DialRealm(h) PROVE FinishPlaces'
  BY <1>15, Zenon DEF DialRealm
<1>16. ASSUME NEW h \in Handlers, DialFails(h) PROVE FinishPlaces'
  BY <1>16, Zenon DEF DialFails, CloseTunnel
<1>17. ASSUME NEW h \in Handlers, OpenRealmUnlock(h) PROVE FinishPlaces'
  BY <1>17, Zenon DEF OpenRealmUnlock, Finish
<1>18. ASSUME NEW h \in Handlers, OpenRealmFailed(h) PROVE FinishPlaces'
  BY <1>18, Zenon DEF OpenRealmFailed, TunnelUseless
<1>19. ASSUME NEW h \in Handlers, NegotiationFinished(h) PROVE FinishPlaces'
  BY <1>19, Zenon DEF NegotiationFinished, Finish
<1>20. ASSUME NEW h \in Handlers, NegotiationFails(h) PROVE FinishPlaces'
  BY <1>20, Zenon DEF NegotiationFails
<1>21. ASSUME NEW h \in Handlers, StreamEnds(h) PROVE FinishPlaces'
  BY <1>21, Zenon DEF StreamEnds, CloseRealm
<1>22. ASSUME NEW h \in Handlers, CloseDevice(h) PROVE FinishPlaces'
  BY <1>22, Zenon DEF CloseDevice, CloseRealm
<1>23. ASSUME NEW h \in Handlers, FinishDeferred(h) PROVE FinishPlaces'
  BY <1>23, Zenon DEF FinishDeferred, Finish
<1>24. ASSUME NEW h \in Handlers, CloseUpstream(h) PROVE FinishPlaces'
  BY <1>24, Zenon DEF CloseUpstream
<1>25. ASSUME NEW h \in Handlers, Untrack(h) PROVE FinishPlaces'
  BY <1>25, Zenon DEF Untrack
<1>26. ASSUME NEW h \in Handlers, FreeSlot(h) PROVE FinishPlaces'
  BY <1>26, Zenon DEF FreeSlot
<1>27. ASSUME NEW h \in Handlers, WgDone(h) PROVE FinishPlaces'
  BY <1>27, Zenon DEF WgDone
<1>28. CASE UNCHANGED vars
  BY <1>28, Zenon DEF vars
<1> QED
  BY <1>1, <1>2, <1>3, <1>4, <1>5, <1>6, <1>7, <1>8, <1>9, <1>10, <1>11, <1>12, <1>13, <1>14,
     <1>15, <1>16, <1>17, <1>18, <1>19, <1>20, <1>21, <1>22, <1>23, <1>24, <1>25, <1>26, <1>27,
     <1>28, Zenon
     DEF Next, HandlerStep, HandlerRunning, ServeRunning

(* The slots in use are the handlers that have one. *)
LEMMA SlotsPreserved == IInv /\ [Next]_vars => SlotsExact'
<1> SUFFICES ASSUME IInv, [Next]_vars PROVE SlotsExact'
  BY Zenon
<1>h. TypeOK /\ SlotsExact
  BY Zenon DEF IInv
<1> USE <1>h DEF TypeOK, SlotsExact, ConnectionLimit
<1>1. ASSUME NEW h \in Handlers, Accept(h) PROVE SlotsExact'
  <2>1. Slotted' = Slotted \cup {h} /\ h \notin Slotted
    BY <1>1, Zenon DEF Accept, Slotted
  <2>2. IsFiniteSet(Slotted)
    BY FS_Subset, Zenon DEF Slotted
  <2>3. Cardinality(Slotted') = Cardinality(Slotted) + 1
    BY <2>1, <2>2, FS_AddElement, Zenon
  <2> QED
    BY <1>1, <2>3 DEF Accept, ConnectionLimit
<1>2. ASSUME NEW h \in Handlers, Reject(h) PROVE SlotsExact'
  <2>1. Slotted' = Slotted
    BY <1>2, Zenon DEF Reject, Slotted
  <2> QED
    BY <1>2, <2>1, Zenon DEF Reject
<1>3. CASE Signal
  <2>1. Slotted' = Slotted
    BY <1>3, Zenon DEF Signal, Slotted
  <2> QED
    BY <1>3, <2>1, Zenon DEF Signal
<1>4. CASE CloseListener
  <2>1. Slotted' = Slotted
    BY <1>4, Zenon DEF CloseListener, Slotted
  <2> QED
    BY <1>4, <2>1, Zenon DEF CloseListener
<1>5. CASE AcceptFails
  <2>1. Slotted' = Slotted
    BY <1>5, Zenon DEF AcceptFails, Slotted
  <2> QED
    BY <1>5, <2>1, Zenon DEF AcceptFails
<1>6. CASE TunnelDies
  <2>1. Slotted' = Slotted
    BY <1>6, Zenon DEF TunnelDies, CloseTunnel, Slotted
  <2> QED
    BY <1>6, <2>1, Zenon DEF TunnelDies, CloseTunnel
<1>7. ASSUME NEW h \in Handlers, RealmDies(h) PROVE SlotsExact'
  <2>1. Slotted' = Slotted
    BY <1>7, Zenon DEF RealmDies, Slotted
  <2> QED
    BY <1>7, <2>1, Zenon DEF RealmDies
<1>8. CASE ShutdownTunnel
  <2>1. Slotted' = Slotted
    BY <1>8, Zenon DEF ShutdownTunnel, CloseTunnel, Slotted
  <2> QED
    BY <1>8, <2>1, Zenon DEF ShutdownTunnel, CloseTunnel
<1>9. CASE ShutdownSnapshot
  <2>1. Slotted' = Slotted
    BY <1>9, Zenon DEF ShutdownSnapshot, Snapshot, Slotted
  <2> QED
    BY <1>9, <2>1, Zenon DEF ShutdownSnapshot, Snapshot
<1>10. ASSUME NEW h \in Handlers, ShutdownConn(h) PROVE SlotsExact'
  <2>1. Slotted' = Slotted
    BY <1>10, Zenon DEF ShutdownConn, Slotted
  <2> QED
    BY <1>10, <2>1, Zenon DEF ShutdownConn
<1>11. CASE ShutdownWait
  <2>1. Slotted' = Slotted
    BY <1>11, Zenon DEF ShutdownWait, HandlersDone, Slotted
  <2> QED
    BY <1>11, <2>1, Zenon DEF ShutdownWait, HandlersDone
<1>12. ASSUME NEW h \in Handlers, FirstRequest(h) PROVE SlotsExact'
  <2>1. Slotted' = Slotted
    BY <1>12, Zenon DEF FirstRequest, Slotted
  <2> QED
    BY <1>12, <2>1, Zenon DEF FirstRequest
<1>13. ASSUME NEW h \in Handlers, LockNegotiate(h) PROVE SlotsExact'
  <2>1. Slotted' = Slotted
    BY <1>13, Zenon DEF LockNegotiate, Slotted
  <2> QED
    BY <1>13, <2>1, Zenon DEF LockNegotiate
<1>14. ASSUME NEW h \in Handlers, LockGivesUp(h) PROVE SlotsExact'
  <2>1. Slotted' = Slotted
    BY <1>14, Zenon DEF LockGivesUp, Slotted
  <2> QED
    BY <1>14, <2>1, Zenon DEF LockGivesUp
<1>15. ASSUME NEW h \in Handlers, DialRealm(h) PROVE SlotsExact'
  <2>1. Slotted' = Slotted
    BY <1>15, Zenon DEF DialRealm, Slotted
  <2> QED
    BY <1>15, <2>1, Zenon DEF DialRealm
<1>16. ASSUME NEW h \in Handlers, DialFails(h) PROVE SlotsExact'
  <2>1. Slotted' = Slotted
    BY <1>16, Zenon DEF DialFails, CloseTunnel, Slotted
  <2> QED
    BY <1>16, <2>1, Zenon DEF DialFails, CloseTunnel
<1>17. ASSUME NEW h \in Handlers, OpenRealmUnlock(h) PROVE SlotsExact'
  <2>1. Slotted' = Slotted
    BY <1>17, Zenon DEF OpenRealmUnlock, Finish, Slotted
  <2> QED
    BY <1>17, <2>1, Zenon DEF OpenRealmUnlock, Finish
<1>18. ASSUME NEW h \in Handlers, OpenRealmFailed(h) PROVE SlotsExact'
  <2>1. Slotted' = Slotted
    BY <1>18, Zenon DEF OpenRealmFailed, TunnelUseless, Slotted
  <2> QED
    BY <1>18, <2>1, Zenon DEF OpenRealmFailed, TunnelUseless
<1>19. ASSUME NEW h \in Handlers, NegotiationFinished(h) PROVE SlotsExact'
  <2>1. Slotted' = Slotted
    BY <1>19, Zenon DEF NegotiationFinished, Finish, Slotted
  <2> QED
    BY <1>19, <2>1, Zenon DEF NegotiationFinished, Finish
<1>20. ASSUME NEW h \in Handlers, NegotiationFails(h) PROVE SlotsExact'
  <2>1. Slotted' = Slotted
    BY <1>20, Zenon DEF NegotiationFails, Slotted
  <2> QED
    BY <1>20, <2>1, Zenon DEF NegotiationFails
<1>21. ASSUME NEW h \in Handlers, StreamEnds(h) PROVE SlotsExact'
  <2>1. Slotted' = Slotted
    BY <1>21, Zenon DEF StreamEnds, CloseRealm, Slotted
  <2> QED
    BY <1>21, <2>1, Zenon DEF StreamEnds, CloseRealm
<1>22. ASSUME NEW h \in Handlers, CloseDevice(h) PROVE SlotsExact'
  <2>1. Slotted' = Slotted
    BY <1>22, Zenon DEF CloseDevice, CloseRealm, Slotted
  <2> QED
    BY <1>22, <2>1, Zenon DEF CloseDevice, CloseRealm
<1>23. ASSUME NEW h \in Handlers, FinishDeferred(h) PROVE SlotsExact'
  <2>1. Slotted' = Slotted
    BY <1>23, Zenon DEF FinishDeferred, Finish, Slotted
  <2> QED
    BY <1>23, <2>1, Zenon DEF FinishDeferred, Finish
<1>24. ASSUME NEW h \in Handlers, CloseUpstream(h) PROVE SlotsExact'
  <2>1. Slotted' = Slotted
    BY <1>24, Zenon DEF CloseUpstream, Slotted
  <2> QED
    BY <1>24, <2>1, Zenon DEF CloseUpstream
<1>25. ASSUME NEW h \in Handlers, Untrack(h) PROVE SlotsExact'
  <2>1. Slotted' = Slotted
    BY <1>25, Zenon DEF Untrack, Slotted
  <2> QED
    BY <1>25, <2>1, Zenon DEF Untrack
<1>26. ASSUME NEW h \in Handlers, FreeSlot(h) PROVE SlotsExact'
  <2>1. Slotted' = Slotted \ {h} /\ h \in Slotted
    BY <1>26, Zenon DEF FreeSlot, Slotted
  <2>2. IsFiniteSet(Slotted)
    BY FS_Subset, Zenon DEF Slotted
  <2>3. Cardinality(Slotted') = Cardinality(Slotted) - 1
    BY <2>1, <2>2, FS_RemoveElement, Zenon
  <2> QED
    BY <1>26, <2>3 DEF FreeSlot, ConnectionLimit
<1>27. ASSUME NEW h \in Handlers, WgDone(h) PROVE SlotsExact'
  <2>1. Slotted' = Slotted
    BY <1>27, Zenon DEF WgDone, Slotted
  <2> QED
    BY <1>27, <2>1, Zenon DEF WgDone
<1>28. CASE UNCHANGED vars
  <2>1. Slotted' = Slotted
    BY <1>28, Zenon DEF vars, Slotted
  <2> QED
    BY <1>28, <2>1, Zenon DEF vars
<1> QED
  BY <1>1, <1>2, <1>3, <1>4, <1>5, <1>6, <1>7, <1>8, <1>9, <1>10, <1>11, <1>12, <1>13, <1>14,
     <1>15, <1>16, <1>17, <1>18, <1>19, <1>20, <1>21, <1>22, <1>23, <1>24, <1>25, <1>26, <1>27,
     <1>28, Zenon
     DEF Next, HandlerStep, HandlerRunning, ServeRunning

(* A realm is open only while its handler proxies. *)
LEMMA RealmPreserved == IInv /\ [Next]_vars => RealmPlaces'
<1> SUFFICES ASSUME IInv, [Next]_vars PROVE RealmPlaces'
  BY Zenon
<1>h. TypeOK /\ RealmPlaces
  BY Zenon DEF IInv
<1> USE <1>h DEF TypeOK, RealmPlaces
<1>1. ASSUME NEW h \in Handlers, Accept(h) PROVE RealmPlaces'
  BY <1>1, Zenon DEF Accept
<1>2. ASSUME NEW h \in Handlers, Reject(h) PROVE RealmPlaces'
  BY <1>2, Zenon DEF Reject
<1>3. CASE Signal
  BY <1>3, Zenon DEF Signal
<1>4. CASE CloseListener
  BY <1>4, Zenon DEF CloseListener
<1>5. CASE AcceptFails
  BY <1>5, Zenon DEF AcceptFails
<1>6. CASE TunnelDies
  BY <1>6, Zenon DEF TunnelDies, CloseTunnel
<1>7. ASSUME NEW h \in Handlers, RealmDies(h) PROVE RealmPlaces'
  BY <1>7, Zenon DEF RealmDies
<1>8. CASE ShutdownTunnel
  BY <1>8, Zenon DEF ShutdownTunnel, CloseTunnel
<1>9. CASE ShutdownSnapshot
  BY <1>9, Zenon DEF ShutdownSnapshot, Snapshot
<1>10. ASSUME NEW h \in Handlers, ShutdownConn(h) PROVE RealmPlaces'
  BY <1>10, Zenon DEF ShutdownConn
<1>11. CASE ShutdownWait
  BY <1>11, Zenon DEF ShutdownWait, HandlersDone
<1>12. ASSUME NEW h \in Handlers, FirstRequest(h) PROVE RealmPlaces'
  BY <1>12, Zenon DEF FirstRequest
<1>13. ASSUME NEW h \in Handlers, LockNegotiate(h) PROVE RealmPlaces'
  BY <1>13, Zenon DEF LockNegotiate
<1>14. ASSUME NEW h \in Handlers, LockGivesUp(h) PROVE RealmPlaces'
  BY <1>14, Zenon DEF LockGivesUp
<1>15. ASSUME NEW h \in Handlers, DialRealm(h) PROVE RealmPlaces'
  BY <1>15, Zenon DEF DialRealm
<1>16. ASSUME NEW h \in Handlers, DialFails(h) PROVE RealmPlaces'
  BY <1>16, Zenon DEF DialFails, CloseTunnel
<1>17. ASSUME NEW h \in Handlers, OpenRealmUnlock(h) PROVE RealmPlaces'
  BY <1>17, Zenon DEF OpenRealmUnlock, Finish
<1>18. ASSUME NEW h \in Handlers, OpenRealmFailed(h) PROVE RealmPlaces'
  BY <1>18, Zenon DEF OpenRealmFailed, TunnelUseless
<1>19. ASSUME NEW h \in Handlers, NegotiationFinished(h) PROVE RealmPlaces'
  BY <1>19, Zenon DEF NegotiationFinished, Finish
<1>20. ASSUME NEW h \in Handlers, NegotiationFails(h) PROVE RealmPlaces'
  BY <1>20, Zenon DEF NegotiationFails
<1>21. ASSUME NEW h \in Handlers, StreamEnds(h) PROVE RealmPlaces'
  BY <1>21, Zenon DEF StreamEnds, CloseRealm
<1>22. ASSUME NEW h \in Handlers, CloseDevice(h) PROVE RealmPlaces'
  BY <1>22, Zenon DEF CloseDevice, CloseRealm
<1>23. ASSUME NEW h \in Handlers, FinishDeferred(h) PROVE RealmPlaces'
  BY <1>23, Zenon DEF FinishDeferred, Finish
<1>24. ASSUME NEW h \in Handlers, CloseUpstream(h) PROVE RealmPlaces'
  BY <1>24, Zenon DEF CloseUpstream
<1>25. ASSUME NEW h \in Handlers, Untrack(h) PROVE RealmPlaces'
  BY <1>25, Zenon DEF Untrack
<1>26. ASSUME NEW h \in Handlers, FreeSlot(h) PROVE RealmPlaces'
  BY <1>26, Zenon DEF FreeSlot
<1>27. ASSUME NEW h \in Handlers, WgDone(h) PROVE RealmPlaces'
  BY <1>27, Zenon DEF WgDone
<1>28. CASE UNCHANGED vars
  BY <1>28, Zenon DEF vars
<1> QED
  BY <1>1, <1>2, <1>3, <1>4, <1>5, <1>6, <1>7, <1>8, <1>9, <1>10, <1>11, <1>12, <1>13, <1>14,
     <1>15, <1>16, <1>17, <1>18, <1>19, <1>20, <1>21, <1>22, <1>23, <1>24, <1>25, <1>26, <1>27,
     <1>28, Zenon
     DEF Next, HandlerStep, HandlerRunning, ServeRunning

(* b.connections holds the handlers that have not returned. *)
LEMMA TrackedPreserved == IInv /\ [Next]_vars => TrackedExact'
<1> SUFFICES ASSUME IInv, [Next]_vars PROVE TrackedExact'
  BY Zenon
<1>h. TypeOK /\ TrackedExact
  BY Zenon DEF IInv
<1> USE <1>h DEF TypeOK, TrackedExact
<1>1. ASSUME NEW h \in Handlers, Accept(h) PROVE TrackedExact'
  BY <1>1, Zenon DEF Accept
<1>2. ASSUME NEW h \in Handlers, Reject(h) PROVE TrackedExact'
  BY <1>2, Zenon DEF Reject
<1>3. CASE Signal
  BY <1>3, Zenon DEF Signal
<1>4. CASE CloseListener
  BY <1>4, Zenon DEF CloseListener
<1>5. CASE AcceptFails
  BY <1>5, Zenon DEF AcceptFails
<1>6. CASE TunnelDies
  BY <1>6, Zenon DEF TunnelDies, CloseTunnel
<1>7. ASSUME NEW h \in Handlers, RealmDies(h) PROVE TrackedExact'
  BY <1>7, Zenon DEF RealmDies
<1>8. CASE ShutdownTunnel
  BY <1>8, Zenon DEF ShutdownTunnel, CloseTunnel
<1>9. CASE ShutdownSnapshot
  BY <1>9, Zenon DEF ShutdownSnapshot, Snapshot
<1>10. ASSUME NEW h \in Handlers, ShutdownConn(h) PROVE TrackedExact'
  BY <1>10, Zenon DEF ShutdownConn
<1>11. CASE ShutdownWait
  BY <1>11, Zenon DEF ShutdownWait, HandlersDone
<1>12. ASSUME NEW h \in Handlers, FirstRequest(h) PROVE TrackedExact'
  BY <1>12, Zenon DEF FirstRequest
<1>13. ASSUME NEW h \in Handlers, LockNegotiate(h) PROVE TrackedExact'
  BY <1>13, Zenon DEF LockNegotiate
<1>14. ASSUME NEW h \in Handlers, LockGivesUp(h) PROVE TrackedExact'
  BY <1>14, Zenon DEF LockGivesUp
<1>15. ASSUME NEW h \in Handlers, DialRealm(h) PROVE TrackedExact'
  BY <1>15, Zenon DEF DialRealm
<1>16. ASSUME NEW h \in Handlers, DialFails(h) PROVE TrackedExact'
  BY <1>16, Zenon DEF DialFails, CloseTunnel
<1>17. ASSUME NEW h \in Handlers, OpenRealmUnlock(h) PROVE TrackedExact'
  BY <1>17, Zenon DEF OpenRealmUnlock, Finish
<1>18. ASSUME NEW h \in Handlers, OpenRealmFailed(h) PROVE TrackedExact'
  BY <1>18, Zenon DEF OpenRealmFailed, TunnelUseless
<1>19. ASSUME NEW h \in Handlers, NegotiationFinished(h) PROVE TrackedExact'
  BY <1>19, Zenon DEF NegotiationFinished, Finish
<1>20. ASSUME NEW h \in Handlers, NegotiationFails(h) PROVE TrackedExact'
  BY <1>20, Zenon DEF NegotiationFails
<1>21. ASSUME NEW h \in Handlers, StreamEnds(h) PROVE TrackedExact'
  BY <1>21, Zenon DEF StreamEnds, CloseRealm
<1>22. ASSUME NEW h \in Handlers, CloseDevice(h) PROVE TrackedExact'
  BY <1>22, Zenon DEF CloseDevice, CloseRealm
<1>23. ASSUME NEW h \in Handlers, FinishDeferred(h) PROVE TrackedExact'
  BY <1>23, Zenon DEF FinishDeferred, Finish
<1>24. ASSUME NEW h \in Handlers, CloseUpstream(h) PROVE TrackedExact'
  BY <1>24, Zenon DEF CloseUpstream
<1>25. ASSUME NEW h \in Handlers, Untrack(h) PROVE TrackedExact'
  BY <1>25, Zenon DEF Untrack
<1>26. ASSUME NEW h \in Handlers, FreeSlot(h) PROVE TrackedExact'
  BY <1>26, Zenon DEF FreeSlot
<1>27. ASSUME NEW h \in Handlers, WgDone(h) PROVE TrackedExact'
  BY <1>27, Zenon DEF WgDone
<1>28. CASE UNCHANGED vars
  BY <1>28, Zenon DEF vars
<1> QED
  BY <1>1, <1>2, <1>3, <1>4, <1>5, <1>6, <1>7, <1>8, <1>9, <1>10, <1>11, <1>12, <1>13, <1>14,
     <1>15, <1>16, <1>17, <1>18, <1>19, <1>20, <1>21, <1>22, <1>23, <1>24, <1>25, <1>26, <1>27,
     <1>28, Zenon
     DEF Next, HandlerStep, HandlerRunning, ServeRunning

(* shutdown goes on only after it closed the tunnel. *)
LEMMA ServePreserved == IInv /\ [Next]_vars => ServePlaces'
<1> SUFFICES ASSUME IInv, [Next]_vars PROVE ServePlaces'
  BY Zenon
<1>h. TypeOK /\ ServePlaces
  BY Zenon DEF IInv
<1> USE <1>h DEF TypeOK, ServePlaces
<1>1. ASSUME NEW h \in Handlers, Accept(h) PROVE ServePlaces'
  BY <1>1, Zenon DEF Accept
<1>2. ASSUME NEW h \in Handlers, Reject(h) PROVE ServePlaces'
  BY <1>2, Zenon DEF Reject
<1>3. CASE Signal
  BY <1>3, Zenon DEF Signal
<1>4. CASE CloseListener
  BY <1>4, Zenon DEF CloseListener
<1>5. CASE AcceptFails
  BY <1>5, Zenon DEF AcceptFails
<1>6. CASE TunnelDies
  BY <1>6, Zenon DEF TunnelDies, CloseTunnel
<1>7. ASSUME NEW h \in Handlers, RealmDies(h) PROVE ServePlaces'
  BY <1>7, Zenon DEF RealmDies
<1>8. CASE ShutdownTunnel
  BY <1>8, Zenon DEF ShutdownTunnel, CloseTunnel
<1>9. CASE ShutdownSnapshot
  BY <1>9, Zenon DEF ShutdownSnapshot, Snapshot
<1>10. ASSUME NEW h \in Handlers, ShutdownConn(h) PROVE ServePlaces'
  BY <1>10, Zenon DEF ShutdownConn
<1>11. CASE ShutdownWait
  BY <1>11, Zenon DEF ShutdownWait, HandlersDone
<1>12. ASSUME NEW h \in Handlers, FirstRequest(h) PROVE ServePlaces'
  BY <1>12, Zenon DEF FirstRequest
<1>13. ASSUME NEW h \in Handlers, LockNegotiate(h) PROVE ServePlaces'
  BY <1>13, Zenon DEF LockNegotiate
<1>14. ASSUME NEW h \in Handlers, LockGivesUp(h) PROVE ServePlaces'
  BY <1>14, Zenon DEF LockGivesUp
<1>15. ASSUME NEW h \in Handlers, DialRealm(h) PROVE ServePlaces'
  BY <1>15, Zenon DEF DialRealm
<1>16. ASSUME NEW h \in Handlers, DialFails(h) PROVE ServePlaces'
  BY <1>16, Zenon DEF DialFails, CloseTunnel
<1>17. ASSUME NEW h \in Handlers, OpenRealmUnlock(h) PROVE ServePlaces'
  BY <1>17, Zenon DEF OpenRealmUnlock, Finish
<1>18. ASSUME NEW h \in Handlers, OpenRealmFailed(h) PROVE ServePlaces'
  BY <1>18, Zenon DEF OpenRealmFailed, TunnelUseless
<1>19. ASSUME NEW h \in Handlers, NegotiationFinished(h) PROVE ServePlaces'
  BY <1>19, Zenon DEF NegotiationFinished, Finish
<1>20. ASSUME NEW h \in Handlers, NegotiationFails(h) PROVE ServePlaces'
  BY <1>20, Zenon DEF NegotiationFails
<1>21. ASSUME NEW h \in Handlers, StreamEnds(h) PROVE ServePlaces'
  BY <1>21, Zenon DEF StreamEnds, CloseRealm
<1>22. ASSUME NEW h \in Handlers, CloseDevice(h) PROVE ServePlaces'
  BY <1>22, Zenon DEF CloseDevice, CloseRealm
<1>23. ASSUME NEW h \in Handlers, FinishDeferred(h) PROVE ServePlaces'
  BY <1>23, Zenon DEF FinishDeferred, Finish
<1>24. ASSUME NEW h \in Handlers, CloseUpstream(h) PROVE ServePlaces'
  BY <1>24, Zenon DEF CloseUpstream
<1>25. ASSUME NEW h \in Handlers, Untrack(h) PROVE ServePlaces'
  BY <1>25, Zenon DEF Untrack
<1>26. ASSUME NEW h \in Handlers, FreeSlot(h) PROVE ServePlaces'
  BY <1>26, Zenon DEF FreeSlot
<1>27. ASSUME NEW h \in Handlers, WgDone(h) PROVE ServePlaces'
  BY <1>27, Zenon DEF WgDone
<1>28. CASE UNCHANGED vars
  BY <1>28, Zenon DEF vars
<1> QED
  BY <1>1, <1>2, <1>3, <1>4, <1>5, <1>6, <1>7, <1>8, <1>9, <1>10, <1>11, <1>12, <1>13, <1>14,
     <1>15, <1>16, <1>17, <1>18, <1>19, <1>20, <1>21, <1>22, <1>23, <1>24, <1>25, <1>26, <1>27,
     <1>28, Zenon
     DEF Next, HandlerStep, HandlerRunning, ServeRunning

(* The bridge keeps its strengthened invariant in every behaviour. *)
LEMMA Inductive == Spec => []IInv
<1>1. Init => IInv
  <2> SUFFICES ASSUME Init PROVE IInv
    BY Zenon
  <2>1. Slotted = {}
    BY Zenon DEF Init, Slotted
  <2>2. SlotsExact
    BY <2>1, FS_EmptySet DEF Init, SlotsExact, ConnectionLimit
  <2>3. TypeOK
    <3>1. slots \in 0..MaxConns
      BY DEF Init
    <3>2. upClosed \in [Handlers -> BOOLEAN] /\ finished \in [Handlers -> BOOLEAN]
      BY Zenon DEF Init
    <3>3. ctxDone \in BOOLEAN /\ listening \in BOOLEAN /\ retired \in BOOLEAN /\ token \in BOOLEAN
      BY Zenon DEF Init
    <3>4. pc = [h \in Handlers |-> "none"] /\ realm = [h \in Handlers |-> "none"]
          /\ servePc = "accept" /\ toClose = {} /\ tracked = {} /\ tunnel = "open"
      BY Zenon DEF Init
    <3> QED
      BY <3>1, <3>2, <3>3, <3>4, Zenon DEF TypeOK
  <2>4. TokenExact
    BY Zenon DEF Init, TokenExact, Negotiating
  <2>5. FinishPlaces /\ RealmPlaces
    BY Zenon DEF Init, FinishPlaces, RealmPlaces
  <2>6. TrackedExact /\ ServePlaces
    BY Zenon DEF Init, TrackedExact, ServePlaces
  <2> QED
    BY <2>2, <2>3, <2>4, <2>5, <2>6, Zenon DEF IInv
<1>2. IInv /\ [Next]_vars => IInv'
  BY Zenon, TypePreserved, TokenPreserved, FinishPreserved, SlotsPreserved, RealmPreserved,
     TrackedPreserved, ServePreserved DEF IInv
<1> QED BY <1>1, <1>2, PTL DEF Spec

(* The negotiate lock of dahua.go, as openRealm and handle use it, is      *)
(* exclusive and never lost or stolen, for any number of clients.          *)
THEOREM NegotiateLockExact == Spec => []TokenExact
<1>1. IInv => TokenExact
  BY Zenon DEF IInv
<1> QED BY <1>1, Inductive, PTL

(* The bridge never has more than maxRealms realms open on its tunnel.     *)
THEOREM RealmLimitHolds == Spec => []RealmsWithinLimit
<1>1. IInv => RealmsWithinLimit
  <2> SUFFICES ASSUME IInv PROVE RealmsWithinLimit
    BY Zenon
  <2> DEFINE Open == {h \in Handlers : realm[h] = "open"}
  <2>1. Open \subseteq Slotted /\ Slotted \subseteq Handlers
    BY Zenon DEF IInv, RealmPlaces, Slotted
  <2>2. IsFiniteSet(Slotted)
    BY <2>1, FS_Subset, Zenon
  <2>3. Cardinality(Open) <= Cardinality(Slotted) /\ Cardinality(Open) \in Nat
    BY <2>1, <2>2, FS_Subset, FS_CardinalityType, Zenon
  <2>4. Cardinality(Slotted) = slots /\ slots \in Nat /\ slots <= MaxRealms
    BY DEF IInv, TypeOK, SlotsExact, ConnectionLimit
  <2> QED
    BY <2>3, <2>4 DEF RealmsWithinLimit
<1> QED BY <1>1, Inductive, PTL

(* serve returns with nothing left over: no realm, client, slot or token.  *)
THEOREM ExitIsClean == Spec => []ExitClean
<1>1. IInv => ExitClean
  <2> SUFFICES ASSUME IInv, servePc = "exited" PROVE ExitClean
    BY Zenon DEF ExitClean
  <2>1. \A h \in Handlers : pc[h] = "none"
    BY Zenon DEF IInv, ServePlaces
  <2>2. Slotted = {}
    BY <2>1, Zenon DEF Slotted
  <2>3. slots = 0
    BY <2>2, FS_EmptySet, Zenon DEF IInv, SlotsExact
  <2> QED
    BY <2>1, <2>3, Zenon DEF IInv, ServePlaces, TrackedExact, TokenExact, Negotiating,
       RealmPlaces, ExitClean
<1> QED BY <1>1, Inductive, PTL
=============================================================================
