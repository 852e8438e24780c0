--------------------------- MODULE SendPathProofs ---------------------------
(***************************************************************************)
(* The send path for any number of realms, senders, packets and ticks: the *)
(* permit is a lock that is never lost, packets are written in LMID order, *)
(* a realm's deadline stays its own, and a packet that arrives while       *)
(* flushACK is sending is not forgotten.                                   *)
(***************************************************************************)
EXTENDS SendPath, TLAPS

(* Labels a Conn.Write goroutine passes through. *)
WriterPc == {"idle", "checkTunnel", "acquire", "select", "prepare", "assign", "udp",
             "finish", "release"}

(* Only Conn.Write owns the permit before and after the socket deadline is *)
(* its own; signalClosed always names a Conn.                              *)
Roles ==
    /\ \A c \in Conns : pc[c] \in WriterPc
    /\ \A p \in Proc \ Conns : pc[p] \notin {"acquire", "select", "prepare", "finish"}
    /\ \A p \in Proc : pc[p] = "interrupt" => target[p] \in Conns

(* The active writer is the realm between Prepare and FinishWrite, and the *)
(* socket has a deadline only while there is one.                          *)
Ownership ==
    /\ \A c \in Conns : (activeWriter = c) <=> (pc[c] \in {"assign", "udp", "finish"})
    /\ activeWriter = None => sockDeadline = None

(* The packet at the socket has the last LMID given out, and it is new.    *)
Numbering ==
    /\ wire < nextId
    /\ \A p \in Proc : pc[p] = "udp" => packet[p].lmid = nextId - 1 /\ wire < packet[p].lmid

IInv == TypeOK /\ Roles /\ PermitConserved /\ Ownership /\ Numbering /\ InterruptSticks

USE DEF PcState, writers, session, network, acks, socket, closing, shutdown, Goto

-----------------------------------------------------------------------------
(* Where a send returns to, by kind of goroutine. *)
LEMMA AfterSendLabels ==
    ASSUME NEW p \in Proc
    PROVE  /\ AfterSend(p) \subseteq
                {"idle", "acquire", "wait", "delete", "schedule", "flushed", "wake"}
           /\ p \in Conns => AfterSend(p) \subseteq {"idle", "acquire"}
           /\ p \notin Conns => "acquire" \notin AfterSend(p)
<1>1. CASE p \in Conns
  BY <1>1, ProcAssumption, Zenon DEF AfterSend, Daemons
<1>2. CASE p \in Apps
  BY <1>2, ProcAssumption, Zenon DEF AfterSend, Daemons
<1>3. CASE p = "reader"
  BY <1>3, ProcAssumption, Zenon DEF AfterSend, Daemons
<1>4. CASE p = "acker"
  BY <1>4, ProcAssumption, Zenon DEF AfterSend, Daemons
<1>5. CASE p = "closer"
  BY <1>5, ProcAssumption, Zenon DEF AfterSend, Daemons
<1> QED  BY <1>1, <1>2, <1>3, <1>4, <1>5, Zenon DEF Proc, Daemons

(* Every step of every sender keeps the types. *)
LEMMA TypePreserved == TypeOK /\ [Next]_vars => TypeOK'
<1> SUFFICES ASSUME TypeOK, [Next]_vars PROVE TypeOK'
  BY Zenon
<1> USE BoundAssumption DEF TypeOK, Deadlines
<1>1. ASSUME NEW p \in Proc, AcquireNil(p) PROVE TypeOK'
  BY <1>1, Zenon DEF AcquireNil, TakePermit
<1>2. ASSUME NEW p \in Proc, SessionSend(p) PROVE TypeOK'
  BY <1>2 DEF SessionSend
<1>3. ASSUME NEW p \in Proc, UdpWrite(p) PROVE TypeOK'
  BY <1>3, Zenon DEF UdpWrite, AfterWrite, NoPacket
<1>4. ASSUME NEW p \in Proc, UdpError(p) PROVE TypeOK'
  BY <1>4, Zenon DEF UdpError, AfterWrite, NoPacket
<1>5. ASSUME NEW p \in Proc, Release(p) PROVE TypeOK'
  BY <1>5, AfterSendLabels DEF Release, ReturnPermit, DiscsLeft
<1>6. ASSUME NEW p \in Proc, Interrupt(p) PROVE TypeOK'
  BY <1>6, Zenon DEF Interrupt, InterruptWrite
<1>7. ASSUME NEW c \in Conns, Write(c) PROVE TypeOK'
  BY <1>7, Zenon DEF Write
<1>8. ASSUME NEW c \in Conns, WriteCheck(c) PROVE TypeOK'
  BY <1>8, Zenon DEF WriteCheck
<1>9. ASSUME NEW c \in Conns, AcquireLoop(c) PROVE TypeOK'
  BY <1>9, Zenon DEF AcquireLoop
<1>10. ASSUME NEW c \in Conns, AcquireSelect(c) PROVE TypeOK'
  BY <1>10, Zenon DEF AcquireSelect, TakePermit
<1>11. ASSUME NEW c \in Conns, Prepare(c) PROVE TypeOK'
  BY <1>11, Zenon DEF Prepare
<1>12. ASSUME NEW c \in Conns, FinishWrite(c) PROVE TypeOK'
  BY <1>12, Zenon DEF FinishWrite
<1>13. ASSUME NEW c \in Conns, NEW d \in Deadlines, SetWriteDeadline(c, d) PROVE TypeOK'
  BY <1>13, Zenon DEF SetWriteDeadline
<1>14. ASSUME NEW c \in Conns, NEW d \in Deadlines, UpdateWriteDeadline(c, d) PROVE TypeOK'
  BY <1>14, Zenon DEF UpdateWriteDeadline, MayUpdate
<1>15. ASSUME NEW a \in Apps, SendNil(a) PROVE TypeOK'
  BY <1>15, Zenon DEF SendNil
<1>16. ASSUME NEW a \in Apps, NEW c \in Conns, ConnClose(a, c) PROVE TypeOK'
  BY <1>16, Zenon DEF ConnClose
<1>17. ASSUME NEW a \in Apps, ConnCloseCheck(a) PROVE TypeOK'
  BY <1>17, Zenon DEF ConnCloseCheck
<1>18. ASSUME NEW a \in Apps, ConnCloseDelete(a) PROVE TypeOK'
  BY <1>18, Zenon DEF ConnCloseDelete
<1>19. CASE ReaderLoop
  BY <1>19 DEF ReaderLoop
<1>20. CASE ReceiveUnacked
  <2> USE <1>20 DEF ReceiveUnacked, Receives
  <2>1. pc' \in [Proc -> PcState] /\ ok' \in [Proc -> BOOLEAN]
    BY Zenon
  <2>2. target' \in [Proc -> Conns \cup {None}]
    BY Zenon
  <2>5. left' \in [Proc -> Nat]
    BY Zenon
  <2>3. realms' \subseteq Conns /\ connClosed' \in [Conns -> BOOLEAN]
    BY Zenon
  <2>4. recv' \in Nat /\ owed' \in Nat /\ ackPending' \in BOOLEAN
    OBVIOUS
  <2>6. sendErrs' \in 0..1
    BY Zenon
  <2> QED BY <2>1, <2>2, <2>3, <2>4, <2>5, <2>6, Zenon
<1>21. CASE ReceiveAcked
  <2> USE <1>21 DEF ReceiveAcked, Receives
  <2>1. pc' \in [Proc -> PcState] /\ ok' \in [Proc -> BOOLEAN]
    BY Zenon
  <2>2. target' \in [Proc -> Conns \cup {None}]
    BY Zenon
  <2>5. left' \in [Proc -> Nat]
    BY Zenon
  <2>3. realms' \subseteq Conns /\ connClosed' \in [Conns -> BOOLEAN]
    BY Zenon
  <2>4. recv' \in Nat /\ owed' \in Nat /\ ackPending' \in BOOLEAN
    OBVIOUS
  <2>6. sendErrs' \in 0..1
    BY Zenon
  <2> QED BY <2>1, <2>2, <2>3, <2>4, <2>5, <2>6, Zenon
<1>22. CASE ScheduleACK
  BY <1>22, Zenon DEF ScheduleACK, ArmAck
<1>23. ASSUME NEW c \in Conns, ReceiveTeardown(c) PROVE TypeOK'
  <2> USE <1>23 DEF ReceiveTeardown, Receives
  <2>1. pc' \in [Proc -> PcState] /\ ok' \in [Proc -> BOOLEAN]
    BY Zenon
  <2>2. target' \in [Proc -> Conns \cup {None}]
    BY Zenon
  <2>5. left' \in [Proc -> Nat]
    <3>1. PICK discs \in 0..1 : left' = [left EXCEPT !["reader"] = discs]
      BY Zenon
    <3>2. left \in [Proc -> Nat] /\ discs \in Nat
      OBVIOUS
    <3> QED BY ONLY <3>1, <3>2, Zenon
  <2>3. realms' \subseteq Conns /\ connClosed' \in [Conns -> BOOLEAN]
    BY Zenon
  <2>4. recv' \in Nat /\ owed' \in Nat /\ ackPending' \in BOOLEAN
    OBVIOUS
  <2>6. sendErrs' \in 0..1
    BY Zenon
  <2> QED BY <2>1, <2>2, <2>3, <2>4, <2>5, <2>6, Zenon
<1>24. CASE AckTimerFires
  BY <1>24, Zenon DEF AckTimerFires
<1>25. CASE FlushACK
  BY <1>25, Zenon DEF FlushACK
<1>26. CASE FlushDone
  <2> USE <1>26 DEF FlushDone
  <2>1. pc' \in [Proc -> PcState] /\ ok' \in [Proc -> BOOLEAN]
    BY Zenon
  <2>2. target' \in [Proc -> Conns \cup {None}]
    BY Zenon
  <2>5. left' \in [Proc -> Nat]
    BY Zenon
  <2>3. realms' \subseteq Conns /\ connClosed' \in [Conns -> BOOLEAN]
    BY Zenon
  <2>4. recv' \in Nat /\ owed' \in Nat /\ ackPending' \in BOOLEAN
    BY Zenon
  <2>6. sendErrs' \in 0..1
    OBVIOUS
  <2> QED BY <2>1, <2>2, <2>3, <2>4, <2>5, <2>6, Zenon
<1>27. CASE Close
  BY <1>27, Zenon DEF Close
<1>28. CASE StopAckTimer
  BY <1>28, Zenon DEF StopAckTimer
<1>29. CASE CloseSocket
  BY <1>29, Zenon DEF CloseSocket
<1>30. ASSUME NEW c \in Conns, WakeRealm(c) PROVE TypeOK'
  BY <1>30, Zenon DEF WakeRealm
<1>31. ASSUME NEW c \in Conns, DiscRealm(c) PROVE TypeOK'
  BY <1>31, Zenon DEF DiscRealm
<1>32. CASE Tick
  BY <1>32 DEF Tick
<1>33. CASE UNCHANGED vars
  BY <1>33, Zenon DEF vars
<1> QED
  BY <1>1, <1>2, <1>3, <1>4, <1>5, <1>6, <1>7, <1>8, <1>9, <1>10, <1>11, <1>12, <1>13,
     <1>14, <1>15, <1>16, <1>17, <1>18, <1>19, <1>20, <1>21, <1>22, <1>23, <1>24, <1>25,
     <1>26, <1>27, <1>28, <1>29, <1>30, <1>31, <1>32, <1>33, Zenon
     DEF Next, SendStep, WriterStep, AppStep, ReaderStep, AckerStep, CloserStep

(* Only Conn.Write passes through the steps that own the socket deadline. *)
LEMMA RolesPreserved == TypeOK /\ Roles /\ [Next]_vars => Roles'
<1> SUFFICES ASSUME TypeOK /\ Roles, [Next]_vars PROVE Roles'
  BY Zenon
<1>y. /\ pc \in [Proc -> PcState]
      /\ target \in [Proc -> Conns \cup {None}]
  BY Zenon DEF TypeOK
<1> USE ProcAssumption, <1>y DEF Roles, WriterPc, Proc, Daemons
<1>1. ASSUME NEW p \in Proc, AcquireNil(p) PROVE Roles'
  BY <1>1, Zenon DEF AcquireNil, TakePermit
<1>2. ASSUME NEW p \in Proc, SessionSend(p) PROVE Roles'
  BY <1>2, Zenon DEF SessionSend
<1>3. ASSUME NEW p \in Proc, UdpWrite(p) PROVE Roles'
  BY <1>3, Zenon DEF UdpWrite, AfterWrite, NoPacket
<1>4. ASSUME NEW p \in Proc, UdpError(p) PROVE Roles'
  BY <1>4, Zenon DEF UdpError, AfterWrite, NoPacket
<1>5. ASSUME NEW p \in Proc, Release(p) PROVE Roles'
  <2>1. PICK label \in AfterSend(p) : pc' = [pc EXCEPT ![p] = label]
    BY <1>5, Zenon DEF Release
  <2>2. /\ label \in {"idle", "acquire", "wait", "delete", "schedule", "flushed", "wake"}
        /\ p \in Conns => label \in WriterPc
        /\ p \notin Conns => label # "acquire"
    BY <2>1, AfterSendLabels
  <2> QED BY <1>5, <2>1, <2>2 DEF Release
<1>6. ASSUME NEW p \in Proc, Interrupt(p) PROVE Roles'
  BY <1>6, Zenon DEF Interrupt, InterruptWrite
<1>7. ASSUME NEW c \in Conns, Write(c) PROVE Roles'
  BY <1>7, Zenon DEF Write
<1>8. ASSUME NEW c \in Conns, WriteCheck(c) PROVE Roles'
  BY <1>8, Zenon DEF WriteCheck
<1>9. ASSUME NEW c \in Conns, AcquireLoop(c) PROVE Roles'
  BY <1>9 DEF AcquireLoop
<1>10. ASSUME NEW c \in Conns, AcquireSelect(c) PROVE Roles'
  BY <1>10, Zenon DEF AcquireSelect, TakePermit
<1>11. ASSUME NEW c \in Conns, Prepare(c) PROVE Roles'
  BY <1>11 DEF Prepare
<1>12. ASSUME NEW c \in Conns, FinishWrite(c) PROVE Roles'
  BY <1>12, Zenon DEF FinishWrite
<1>13. ASSUME NEW c \in Conns, NEW d \in Deadlines, SetWriteDeadline(c, d) PROVE Roles'
  BY <1>13, Zenon DEF SetWriteDeadline
<1>14. ASSUME NEW c \in Conns, NEW d \in Deadlines, UpdateWriteDeadline(c, d) PROVE Roles'
  BY <1>14, Zenon DEF UpdateWriteDeadline, MayUpdate
<1>15. ASSUME NEW a \in Apps, SendNil(a) PROVE Roles'
  BY <1>15, Zenon DEF SendNil
<1>16. ASSUME NEW a \in Apps, NEW c \in Conns, ConnClose(a, c) PROVE Roles'
  BY <1>16, Zenon DEF ConnClose
<1>17. ASSUME NEW a \in Apps, ConnCloseCheck(a) PROVE Roles'
  BY <1>17, Zenon DEF ConnCloseCheck
<1>18. ASSUME NEW a \in Apps, ConnCloseDelete(a) PROVE Roles'
  BY <1>18, Zenon DEF ConnCloseDelete
<1>19. CASE ReaderLoop
  BY <1>19 DEF ReaderLoop
<1>20. CASE ReceiveUnacked
  BY <1>20, Zenon DEF ReceiveUnacked, Receives
<1>21. CASE ReceiveAcked
  BY <1>21, Zenon DEF ReceiveAcked, Receives
<1>22. CASE ScheduleACK
  BY <1>22, Zenon DEF ScheduleACK, ArmAck
<1>23. ASSUME NEW c \in Conns, ReceiveTeardown(c) PROVE Roles'
  BY <1>23, Zenon DEF ReceiveTeardown, Receives
<1>24. CASE AckTimerFires
  BY <1>24, Zenon DEF AckTimerFires
<1>25. CASE FlushACK
  BY <1>25, Zenon DEF FlushACK
<1>26. CASE FlushDone
  BY <1>26, Zenon DEF FlushDone
<1>27. CASE Close
  BY <1>27, Zenon DEF Close
<1>28. CASE StopAckTimer
  BY <1>28, Zenon DEF StopAckTimer
<1>29. CASE CloseSocket
  BY <1>29, Zenon DEF CloseSocket
<1>30. ASSUME NEW c \in Conns, WakeRealm(c) PROVE Roles'
  BY <1>30, Zenon DEF WakeRealm
<1>31. ASSUME NEW c \in Conns, DiscRealm(c) PROVE Roles'
  BY <1>31, Zenon DEF DiscRealm
<1>32. CASE Tick
  BY <1>32, Zenon DEF Tick
<1>33. CASE UNCHANGED vars
  BY <1>33, Zenon DEF vars
<1> QED
  BY Zenon, <1>1, <1>2, <1>3, <1>4, <1>5, <1>6, <1>7, <1>8, <1>9, <1>10, <1>11, <1>12, <1>13, <1>14,
     <1>15, <1>16, <1>17, <1>18, <1>19, <1>20, <1>21, <1>22, <1>23, <1>24, <1>25, <1>26, <1>27,
     <1>28, <1>29, <1>30, <1>31, <1>32, <1>33, Zenon DEF Next, SendStep, WriterStep, AppStep,
     ReaderStep, AckerStep, CloserStep

(* acquireSendPermit and the deferred release keep the permit exact. *)
LEMMA PermitPreserved == TypeOK /\ Roles /\ PermitConserved /\ [Next]_vars => PermitConserved'
<1> SUFFICES ASSUME TypeOK /\ Roles /\ PermitConserved, [Next]_vars PROVE PermitConserved'
  BY Zenon
<1>y. /\ pc \in [Proc -> PcState]
      /\ permit \in BOOLEAN
  BY Zenon DEF TypeOK
<1> USE ProcAssumption, <1>y DEF Roles, WriterPc, PermitConserved, Holding
<1>1. ASSUME NEW p \in Proc, AcquireNil(p) PROVE PermitConserved'
  BY <1>1 DEF AcquireNil, TakePermit
<1>2. ASSUME NEW p \in Proc, SessionSend(p) PROVE PermitConserved'
  BY <1>2 DEF SessionSend
<1>3. ASSUME NEW p \in Proc, UdpWrite(p) PROVE PermitConserved'
  BY <1>3, Zenon DEF UdpWrite, AfterWrite, NoPacket
<1>4. ASSUME NEW p \in Proc, UdpError(p) PROVE PermitConserved'
  BY <1>4, Zenon DEF UdpError, AfterWrite, NoPacket
<1>5. ASSUME NEW p \in Proc, Release(p) PROVE PermitConserved'
  BY <1>5, AfterSendLabels DEF Release, ReturnPermit, DiscsLeft
<1>6. ASSUME NEW p \in Proc, Interrupt(p) PROVE PermitConserved'
  BY <1>6 DEF Interrupt, InterruptWrite
<1>7. ASSUME NEW c \in Conns, Write(c) PROVE PermitConserved'
  BY <1>7, Zenon DEF Write
<1>8. ASSUME NEW c \in Conns, WriteCheck(c) PROVE PermitConserved'
  BY <1>8 DEF WriteCheck
<1>9. ASSUME NEW c \in Conns, AcquireLoop(c) PROVE PermitConserved'
  BY <1>9 DEF AcquireLoop
<1>10. ASSUME NEW c \in Conns, AcquireSelect(c) PROVE PermitConserved'
  <2>1. c \in Proc
    BY Zenon DEF Proc
  <2>2. CASE /\ permit' = permit
             /\ pc' = [pc EXCEPT ![c] = "idle"] \/ pc' = [pc EXCEPT ![c] = "acquire"]
    BY <1>10, <2>1, <2>2 DEF AcquireSelect
  <2>3. CASE TakePermit /\ pc' = [pc EXCEPT ![c] = "prepare"]
    BY <2>1, <2>3 DEF TakePermit
  <2> QED BY <1>10, <2>2, <2>3, Zenon DEF AcquireSelect
<1>11. ASSUME NEW c \in Conns, Prepare(c) PROVE PermitConserved'
  BY <1>11 DEF Prepare
<1>12. ASSUME NEW c \in Conns, FinishWrite(c) PROVE PermitConserved'
  BY <1>12 DEF FinishWrite
<1>13. ASSUME NEW c \in Conns, NEW d \in Deadlines, SetWriteDeadline(c, d) PROVE PermitConserved'
  BY <1>13, Zenon DEF SetWriteDeadline
<1>14. ASSUME NEW c \in Conns, NEW d \in Deadlines, UpdateWriteDeadline(c, d) PROVE PermitConserved'
  BY <1>14, Zenon DEF UpdateWriteDeadline, MayUpdate
<1>15. ASSUME NEW a \in Apps, SendNil(a) PROVE PermitConserved'
  BY <1>15 DEF SendNil
<1>16. ASSUME NEW a \in Apps, NEW c \in Conns, ConnClose(a, c) PROVE PermitConserved'
  BY <1>16, Zenon DEF ConnClose
<1>17. ASSUME NEW a \in Apps, ConnCloseCheck(a) PROVE PermitConserved'
  BY <1>17 DEF ConnCloseCheck
<1>18. ASSUME NEW a \in Apps, ConnCloseDelete(a) PROVE PermitConserved'
  BY <1>18 DEF ConnCloseDelete
<1>19. CASE ReaderLoop
  BY <1>19 DEF ReaderLoop
<1>20. CASE ReceiveUnacked
  BY <1>20 DEF ReceiveUnacked, Receives
<1>21. CASE ReceiveAcked
  BY <1>21, Zenon DEF ReceiveAcked, Receives
<1>22. CASE ScheduleACK
  BY <1>22, Zenon DEF ScheduleACK, ArmAck
<1>23. ASSUME NEW c \in Conns, ReceiveTeardown(c) PROVE PermitConserved'
  BY <1>23, Zenon DEF ReceiveTeardown, Receives
<1>24. CASE AckTimerFires
  BY <1>24, Zenon DEF AckTimerFires
<1>25. CASE FlushACK
  BY <1>25 DEF FlushACK
<1>26. CASE FlushDone
  BY <1>26, Zenon DEF FlushDone
<1>27. CASE Close
  BY <1>27 DEF Close
<1>28. CASE StopAckTimer
  BY <1>28, Zenon DEF StopAckTimer
<1>29. CASE CloseSocket
  BY <1>29 DEF CloseSocket
<1>30. ASSUME NEW c \in Conns, WakeRealm(c) PROVE PermitConserved'
  BY <1>30, Zenon DEF WakeRealm
<1>31. ASSUME NEW c \in Conns, DiscRealm(c) PROVE PermitConserved'
  BY <1>31 DEF DiscRealm
<1>32. CASE Tick
  BY <1>32, Zenon DEF Tick
<1>33. CASE UNCHANGED vars
  BY <1>33, Zenon DEF vars
<1> QED
  BY Zenon, <1>1, <1>2, <1>3, <1>4, <1>5, <1>6, <1>7, <1>8, <1>9, <1>10, <1>11, <1>12, <1>13,
     <1>14, <1>15, <1>16, <1>17, <1>18, <1>19, <1>20, <1>21, <1>22, <1>23, <1>24, <1>25,
     <1>26, <1>27, <1>28, <1>29, <1>30, <1>31, <1>32, <1>33, Zenon
     DEF Next, SendStep, WriterStep, AppStep, ReaderStep, AckerStep, CloserStep

(* activeWriter is the realm between its two updates in sendPacketFor. *)
LEMMA OwnershipPreserved ==
    TypeOK /\ Roles /\ PermitConserved /\ Ownership /\ [Next]_vars => Ownership'
<1> SUFFICES ASSUME TypeOK /\ Roles /\ PermitConserved /\ Ownership, [Next]_vars PROVE Ownership'
  BY Zenon
<1>y. /\ pc \in [Proc -> PcState]
      /\ connClosed \in [Conns -> BOOLEAN]
      /\ sockDeadline \in Deadlines
      /\ activeWriter \in Conns \cup {None}
  BY Zenon DEF TypeOK
<1> USE ProcAssumption, <1>y DEF Roles, WriterPc, PermitConserved, Holding, Ownership, Proc, Daemons
<1>1. ASSUME NEW p \in Proc, AcquireNil(p) PROVE Ownership'
  BY <1>1, Zenon DEF AcquireNil, TakePermit
<1>2. ASSUME NEW p \in Proc, SessionSend(p) PROVE Ownership'
  BY <1>2, Zenon DEF SessionSend
<1>3. ASSUME NEW p \in Proc, UdpWrite(p) PROVE Ownership'
  BY <1>3 DEF UdpWrite, AfterWrite, NoPacket
<1>4. ASSUME NEW p \in Proc, UdpError(p) PROVE Ownership'
  BY <1>4 DEF UdpError, AfterWrite, NoPacket
<1>5. ASSUME NEW p \in Proc, Release(p) PROVE Ownership'
  <2>1. PICK label \in AfterSend(p) : pc' = [pc EXCEPT ![p] = label]
    BY <1>5, Zenon DEF Release
  <2>2. label \notin {"assign", "udp", "finish"}
    BY <2>1, AfterSendLabels, Zenon
  <2> QED BY <1>5, <2>1, <2>2, Zenon DEF Release
<1>6. ASSUME NEW p \in Proc, Interrupt(p) PROVE Ownership'
  BY <1>6, Zenon DEF Interrupt, InterruptWrite
<1>7. ASSUME NEW c \in Conns, Write(c) PROVE Ownership'
  BY <1>7, Zenon DEF Write
<1>8. ASSUME NEW c \in Conns, WriteCheck(c) PROVE Ownership'
  BY <1>8, Zenon DEF WriteCheck
<1>9. ASSUME NEW c \in Conns, AcquireLoop(c) PROVE Ownership'
  BY <1>9 DEF AcquireLoop
<1>10. ASSUME NEW c \in Conns, AcquireSelect(c) PROVE Ownership'
  BY <1>10 DEF AcquireSelect, TakePermit
<1>11. ASSUME NEW c \in Conns, Prepare(c) PROVE Ownership'
  BY <1>11 DEF Prepare
<1>12. ASSUME NEW c \in Conns, FinishWrite(c) PROVE Ownership'
  BY <1>12, Zenon DEF FinishWrite
<1>13. ASSUME NEW c \in Conns, NEW d \in Deadlines, SetWriteDeadline(c, d) PROVE Ownership'
  BY <1>13, Zenon DEF SetWriteDeadline
<1>14. ASSUME NEW c \in Conns, NEW d \in Deadlines, UpdateWriteDeadline(c, d) PROVE Ownership'
  BY <1>14, Zenon DEF UpdateWriteDeadline, MayUpdate
<1>15. ASSUME NEW a \in Apps, SendNil(a) PROVE Ownership'
  BY <1>15, Zenon DEF SendNil
<1>16. ASSUME NEW a \in Apps, NEW c \in Conns, ConnClose(a, c) PROVE Ownership'
  BY <1>16, Zenon DEF ConnClose
<1>17. ASSUME NEW a \in Apps, ConnCloseCheck(a) PROVE Ownership'
  BY <1>17, Zenon DEF ConnCloseCheck
<1>18. ASSUME NEW a \in Apps, ConnCloseDelete(a) PROVE Ownership'
  BY <1>18, Zenon DEF ConnCloseDelete
<1>19. CASE ReaderLoop
  BY <1>19 DEF ReaderLoop
<1>20. CASE ReceiveUnacked
  BY <1>20, Zenon DEF ReceiveUnacked, Receives
<1>21. CASE ReceiveAcked
  BY <1>21, Zenon DEF ReceiveAcked, Receives
<1>22. CASE ScheduleACK
  BY <1>22, Zenon DEF ScheduleACK, ArmAck
<1>23. ASSUME NEW c \in Conns, ReceiveTeardown(c) PROVE Ownership'
  BY <1>23, Zenon DEF ReceiveTeardown, Receives
<1>24. CASE AckTimerFires
  BY <1>24, Zenon DEF AckTimerFires
<1>25. CASE FlushACK
  BY <1>25, Zenon DEF FlushACK
<1>26. CASE FlushDone
  BY <1>26, Zenon DEF FlushDone
<1>27. CASE Close
  BY <1>27, Zenon DEF Close
<1>28. CASE StopAckTimer
  BY <1>28, Zenon DEF StopAckTimer
<1>29. CASE CloseSocket
  BY <1>29, Zenon DEF CloseSocket
<1>30. ASSUME NEW c \in Conns, WakeRealm(c) PROVE Ownership'
  BY <1>30, Zenon DEF WakeRealm
<1>31. ASSUME NEW c \in Conns, DiscRealm(c) PROVE Ownership'
  BY <1>31, Zenon DEF DiscRealm
<1>32. CASE Tick
  BY <1>32, Zenon DEF Tick
<1>33. CASE UNCHANGED vars
  BY <1>33, Zenon DEF vars
<1> QED
  BY <1>1, <1>2, <1>3, <1>4, <1>5, <1>6, <1>7, <1>8, <1>9, <1>10, <1>11, <1>12, <1>13, <1>14,
     <1>15, <1>16, <1>17, <1>18, <1>19, <1>20, <1>21, <1>22, <1>23, <1>24, <1>25, <1>26, <1>27,
     <1>28, <1>29, <1>30, <1>31, <1>32, <1>33 DEF Next, SendStep, WriterStep, AppStep, ReaderStep,
     AckerStep, CloserStep

(* session.Send under the permit numbers the packet about to be written. *)
LEMMA NumberingPreserved == TypeOK /\ PermitConserved /\ Numbering /\ [Next]_vars => Numbering'
<1> SUFFICES ASSUME TypeOK /\ PermitConserved /\ Numbering, [Next]_vars PROVE Numbering'
  BY Zenon
<1>y. /\ pc \in [Proc -> PcState]
      /\ packet \in [Proc -> [lmid : Nat, recv : Nat]]
      /\ nextId \in Nat /\ wire \in Nat
  BY Zenon DEF TypeOK
<1> USE ProcAssumption, <1>y DEF PermitConserved, Holding, Numbering
<1>1. ASSUME NEW p \in Proc, AcquireNil(p) PROVE Numbering'
  BY <1>1, Zenon DEF AcquireNil, TakePermit
<1>2. ASSUME NEW p \in Proc, SessionSend(p) PROVE Numbering'
  BY <1>2 DEF SessionSend
<1>3. ASSUME NEW p \in Proc, UdpWrite(p) PROVE Numbering'
  BY <1>3 DEF UdpWrite, AfterWrite, NoPacket
<1>4. ASSUME NEW p \in Proc, UdpError(p) PROVE Numbering'
  BY <1>4, Zenon DEF UdpError, AfterWrite, NoPacket
<1>5. ASSUME NEW p \in Proc, Release(p) PROVE Numbering'
  BY <1>5, AfterSendLabels, Zenon DEF Release, ReturnPermit, DiscsLeft
<1>6. ASSUME NEW p \in Proc, Interrupt(p) PROVE Numbering'
  BY <1>6, Zenon DEF Interrupt, InterruptWrite
<1>7. ASSUME NEW c \in Conns, Write(c) PROVE Numbering'
  BY <1>7, Zenon DEF Write
<1>8. ASSUME NEW c \in Conns, WriteCheck(c) PROVE Numbering'
  BY <1>8, Zenon DEF WriteCheck
<1>9. ASSUME NEW c \in Conns, AcquireLoop(c) PROVE Numbering'
  BY <1>9, Zenon DEF AcquireLoop
<1>10. ASSUME NEW c \in Conns, AcquireSelect(c) PROVE Numbering'
  BY <1>10, Zenon DEF AcquireSelect, TakePermit
<1>11. ASSUME NEW c \in Conns, Prepare(c) PROVE Numbering'
  BY <1>11 DEF Prepare
<1>12. ASSUME NEW c \in Conns, FinishWrite(c) PROVE Numbering'
  BY <1>12, Zenon DEF FinishWrite
<1>13. ASSUME NEW c \in Conns, NEW d \in Deadlines, SetWriteDeadline(c, d) PROVE Numbering'
  BY <1>13, Zenon DEF SetWriteDeadline
<1>14. ASSUME NEW c \in Conns, NEW d \in Deadlines, UpdateWriteDeadline(c, d) PROVE Numbering'
  BY <1>14, Zenon DEF UpdateWriteDeadline, MayUpdate
<1>15. ASSUME NEW a \in Apps, SendNil(a) PROVE Numbering'
  BY <1>15, Zenon DEF SendNil
<1>16. ASSUME NEW a \in Apps, NEW c \in Conns, ConnClose(a, c) PROVE Numbering'
  BY <1>16, Zenon DEF ConnClose
<1>17. ASSUME NEW a \in Apps, ConnCloseCheck(a) PROVE Numbering'
  BY <1>17, Zenon DEF ConnCloseCheck
<1>18. ASSUME NEW a \in Apps, ConnCloseDelete(a) PROVE Numbering'
  BY <1>18, Zenon DEF ConnCloseDelete
<1>19. CASE ReaderLoop
  BY <1>19, Zenon DEF ReaderLoop
<1>20. CASE ReceiveUnacked
  BY <1>20, Zenon DEF ReceiveUnacked, Receives
<1>21. CASE ReceiveAcked
  BY <1>21, Zenon DEF ReceiveAcked, Receives
<1>22. CASE ScheduleACK
  BY <1>22, Zenon DEF ScheduleACK, ArmAck
<1>23. ASSUME NEW c \in Conns, ReceiveTeardown(c) PROVE Numbering'
  BY <1>23, Zenon DEF ReceiveTeardown, Receives
<1>24. CASE AckTimerFires
  BY <1>24, Zenon DEF AckTimerFires
<1>25. CASE FlushACK
  BY <1>25, Zenon DEF FlushACK
<1>26. CASE FlushDone
  BY <1>26, Zenon DEF FlushDone
<1>27. CASE Close
  BY <1>27, Zenon DEF Close
<1>28. CASE StopAckTimer
  BY <1>28, Zenon DEF StopAckTimer
<1>29. CASE CloseSocket
  BY <1>29, Zenon DEF CloseSocket
<1>30. ASSUME NEW c \in Conns, WakeRealm(c) PROVE Numbering'
  BY <1>30, Zenon DEF WakeRealm
<1>31. ASSUME NEW c \in Conns, DiscRealm(c) PROVE Numbering'
  BY <1>31, Zenon DEF DiscRealm
<1>32. CASE Tick
  BY <1>32, Zenon DEF Tick
<1>33. CASE UNCHANGED vars
  BY <1>33, Zenon DEF vars
<1> QED
  BY Zenon, <1>1, <1>2, <1>3, <1>4, <1>5, <1>6, <1>7, <1>8, <1>9, <1>10, <1>11, <1>12, <1>13,
     <1>14, <1>15, <1>16, <1>17, <1>18, <1>19, <1>20, <1>21, <1>22, <1>23, <1>24, <1>25,
     <1>26, <1>27, <1>28, <1>29, <1>30, <1>31, <1>32, <1>33, Zenon
     DEF Next, SendStep, WriterStep, AppStep, ReaderStep, AckerStep, CloserStep

(* SetWriteDeadline never takes back what interruptWrite did. *)
LEMMA StickPreserved ==
    TypeOK /\ Roles /\ PermitConserved /\ Ownership /\ InterruptSticks /\ [Next]_vars
        => InterruptSticks'
<1> SUFFICES ASSUME TypeOK, Roles, PermitConserved, Ownership, InterruptSticks, [Next]_vars,
                    NEW w \in Conns, pc'[w] \in {"assign", "udp"}, connClosed'[w],
                    ~\E q \in Proc : pc'[q] = "interrupt" /\ target'[q] = w
             PROVE  Expired(sockDeadline)'
  BY Zenon DEF InterruptSticks
<1>y. /\ pc \in [Proc -> PcState]
      /\ target \in [Proc -> Conns \cup {None}]
      /\ connClosed \in [Conns -> BOOLEAN]
      /\ sockDeadline \in Deadlines
      /\ activeWriter \in Conns \cup {None}
      /\ now \in 0..MaxTime
      /\ writeDeadline \in [Conns -> Deadlines]
  BY Zenon DEF TypeOK
<1> USE ProcAssumption, <1>y
    DEF Roles, WriterPc, Ownership, InterruptSticks, Expired, Deadlines, Proc, Daemons
<1>1. ASSUME NEW p \in Proc, AcquireNil(p) PROVE Expired(sockDeadline)'
  BY <1>1, Zenon DEF AcquireNil, TakePermit
<1>2. ASSUME NEW p \in Proc, SessionSend(p) PROVE Expired(sockDeadline)'
  BY <1>2, Zenon DEF SessionSend
<1>3. ASSUME NEW p \in Proc, UdpWrite(p) PROVE Expired(sockDeadline)'
  BY <1>3, Zenon DEF UdpWrite, AfterWrite, NoPacket
<1>4. ASSUME NEW p \in Proc, UdpError(p) PROVE Expired(sockDeadline)'
  BY <1>4, Zenon DEF UdpError, AfterWrite, NoPacket
<1>5. ASSUME NEW p \in Proc, Release(p) PROVE Expired(sockDeadline)'
  BY <1>5, AfterSendLabels DEF Release, ReturnPermit, DiscsLeft
<1>6. ASSUME NEW p \in Proc, Interrupt(p) PROVE Expired(sockDeadline)'
  BY <1>6 DEF Interrupt, InterruptWrite
<1>7. ASSUME NEW c \in Conns, Write(c) PROVE Expired(sockDeadline)'
  BY <1>7, Zenon DEF Write
<1>8. ASSUME NEW c \in Conns, WriteCheck(c) PROVE Expired(sockDeadline)'
  BY <1>8, Zenon DEF WriteCheck
<1>9. ASSUME NEW c \in Conns, AcquireLoop(c) PROVE Expired(sockDeadline)'
  BY <1>9 DEF AcquireLoop
<1>10. ASSUME NEW c \in Conns, AcquireSelect(c) PROVE Expired(sockDeadline)'
  BY <1>10 DEF AcquireSelect, TakePermit
<1>11. ASSUME NEW c \in Conns, Prepare(c) PROVE Expired(sockDeadline)'
  <2>1. ~(Holding(w) /\ w # c)
    BY <1>11, Zenon DEF Prepare, PermitConserved, Holding
  <2> QED BY <1>11, <2>1 DEF Prepare, Holding
<1>12. ASSUME NEW c \in Conns, FinishWrite(c) PROVE Expired(sockDeadline)'
  BY <1>12, Zenon DEF FinishWrite
<1>13. ASSUME NEW c \in Conns, NEW d \in Deadlines, SetWriteDeadline(c, d)
       PROVE  Expired(sockDeadline)'
  BY <1>13, Zenon DEF SetWriteDeadline
<1>14. ASSUME NEW c \in Conns, NEW d \in Deadlines, UpdateWriteDeadline(c, d)
       PROVE  Expired(sockDeadline)'
  BY <1>14, Zenon DEF UpdateWriteDeadline, MayUpdate
<1>15. ASSUME NEW a \in Apps, SendNil(a) PROVE Expired(sockDeadline)'
  BY <1>15, Zenon DEF SendNil
<1>16. ASSUME NEW a \in Apps, NEW c \in Conns, ConnClose(a, c) PROVE Expired(sockDeadline)'
  BY <1>16, Zenon DEF ConnClose
<1>17. ASSUME NEW a \in Apps, ConnCloseCheck(a) PROVE Expired(sockDeadline)'
  BY <1>17, Zenon DEF ConnCloseCheck
<1>18. ASSUME NEW a \in Apps, ConnCloseDelete(a) PROVE Expired(sockDeadline)'
  BY <1>18, Zenon DEF ConnCloseDelete
<1>19. CASE ReaderLoop
  BY <1>19 DEF ReaderLoop
<1>20. CASE ReceiveUnacked
  BY <1>20 DEF ReceiveUnacked, Receives
<1>21. CASE ReceiveAcked
  BY <1>21, Zenon DEF ReceiveAcked, Receives
<1>22. CASE ScheduleACK
  BY <1>22, Zenon DEF ScheduleACK, ArmAck
<1>23. ASSUME NEW c \in Conns, ReceiveTeardown(c) PROVE Expired(sockDeadline)'
  BY <1>23 DEF ReceiveTeardown, Receives
<1>24. CASE AckTimerFires
  BY <1>24, Zenon DEF AckTimerFires
<1>25. CASE FlushACK
  BY <1>25, Zenon DEF FlushACK
<1>26. CASE FlushDone
  BY <1>26, Zenon DEF FlushDone
<1>27. CASE Close
  BY <1>27, Zenon DEF Close
<1>28. CASE StopAckTimer
  BY <1>28, Zenon DEF StopAckTimer
<1>29. CASE CloseSocket
  BY <1>29, Zenon DEF CloseSocket
<1>30. ASSUME NEW c \in Conns, WakeRealm(c) PROVE Expired(sockDeadline)'
  BY <1>30, Zenon DEF WakeRealm
<1>31. ASSUME NEW c \in Conns, DiscRealm(c) PROVE Expired(sockDeadline)'
  BY <1>31, Zenon DEF DiscRealm
<1>32. CASE Tick
  BY <1>32 DEF Tick
<1>33. CASE UNCHANGED vars
  BY <1>33, Zenon DEF vars
<1> QED
  BY Zenon, <1>1, <1>2, <1>3, <1>4, <1>5, <1>6, <1>7, <1>8, <1>9, <1>10, <1>11, <1>12, <1>13,
     <1>14, <1>15, <1>16, <1>17, <1>18, <1>19, <1>20, <1>21, <1>22, <1>23, <1>24, <1>25,
     <1>26, <1>27, <1>28, <1>29, <1>30, <1>31, <1>32, <1>33, Zenon
     DEF Next, SendStep, WriterStep, AppStep, ReaderStep, AckerStep, CloserStep

(* The send path keeps its strengthened invariant in every behaviour. *)
LEMMA Inductive == Spec => []IInv
<1>1. Init => IInv
  <2> SUFFICES ASSUME Init PROVE IInv
    BY Zenon
  <2> USE ProcAssumption, BoundAssumption DEF Init
  <2>1. TypeOK
    <3>1. NoPacket \in [lmid : Nat, recv : Nat] /\ None \in Deadlines /\ 0 \in 0..MaxTime
      BY DEF NoPacket, Deadlines
    <3>2. /\ pc \in [Proc -> PcState] /\ ok \in [Proc -> BOOLEAN]
          /\ packet \in [Proc -> [lmid : Nat, recv : Nat]]
          /\ target \in [Proc -> Conns \cup {None}] /\ left \in [Proc -> Nat]
      BY <3>1, Zenon
    <3>3. /\ writeDeadline \in [Conns -> Deadlines] /\ seen \in [Conns -> Deadlines]
          /\ changed \in [Conns -> BOOLEAN] /\ updating \in [Conns -> SUBSET Deadlines]
          /\ connClosed \in [Conns -> BOOLEAN]
      BY <3>1, Zenon
    <3>4. sendErrs \in 0..1 /\ now \in 0..MaxTime /\ sockDeadline \in Deadlines
      BY <3>1
    <3>5. /\ nextId \in Nat /\ recv \in Nat /\ owed \in Nat /\ wire \in Nat /\ wireRecv \in Nat
          /\ permit \in BOOLEAN /\ sockClosed \in BOOLEAN /\ closed \in BOOLEAN
          /\ ackPending \in BOOLEAN /\ ackTimer \in BOOLEAN
      BY Zenon
    <3>6. /\ activeWriter \in Conns \cup {None}
          /\ realms \subseteq Conns /\ toWake \subseteq Conns /\ toDisc \subseteq Conns
      BY Zenon
    <3> QED BY ONLY <3>2, <3>3, <3>4, <3>5, <3>6, Zenon DEF TypeOK
  <2>2. Roles /\ Ownership
    BY Zenon DEF Roles, WriterPc, Ownership, Proc
  <2>3. PermitConserved
    BY Zenon DEF PermitConserved, Holding, Proc
  <2>4. Numbering /\ InterruptSticks
    BY DEF Numbering, InterruptSticks, Proc
  <2> QED BY <2>1, <2>2, <2>3, <2>4, Zenon DEF IInv
<1>2. IInv /\ [Next]_vars => IInv'
  BY Zenon, TypePreserved, RolesPreserved, PermitPreserved, OwnershipPreserved, NumberingPreserved,
     StickPreserved DEF IInv
<1> QED BY <1>1, <1>2, PTL DEF Spec

-----------------------------------------------------------------------------
(* The goroutines of the send path keep every variable in its type. *)
THEOREM TypeCorrect == Spec => []TypeOK
<1>1. IInv => TypeOK
  BY Zenon DEF IInv
<1> QED BY <1>1, Inductive, PTL

(* sendPermit excludes, and no path out of sendPacketFor loses its token. *)
THEOREM PermitIsConserved == Spec => []PermitConserved
<1>1. IInv => PermitConserved
  BY Zenon DEF IInv
<1> QED BY <1>1, Inductive, PTL

(* Only the packet with the last LMID can be at the socket, so packets are *)
(* written in the order session.Send numbered them.                        *)
THEOREM WrittenInOrder == Spec => SendOrder
<1>1. IInv /\ [Next]_vars => [network' # network => wire' > wire]_vars
  <2> SUFFICES ASSUME IInv, [Next]_vars, network' # network PROVE wire' > wire
    BY Zenon
  <2>1. PICK p \in Proc : UdpWrite(p)
    BY Zenon DEF vars, Next, SendStep, WriterStep, AppStep, ReaderStep, AckerStep, CloserStep,
           AcquireNil, SessionSend, UdpError, Release, Interrupt, Write, WriteCheck, AcquireLoop,
           AcquireSelect, Prepare, FinishWrite, SetWriteDeadline, UpdateWriteDeadline, SendNil,
           ConnClose, ConnCloseCheck, ConnCloseDelete, ReaderLoop, ReceiveUnacked, ReceiveAcked,
           Receives, ScheduleACK, ReceiveTeardown, AckTimerFires, FlushACK, FlushDone, Close,
           StopAckTimer, CloseSocket, WakeRealm, DiscRealm, Tick
  <2> QED BY <2>1, Zenon DEF UdpWrite, IInv, Numbering, TypeOK
<1> QED BY <1>1, Inductive, PTL DEF Spec, SendOrder

(* A heartbeat, ACK, BIND, DISC or SYNC is written under no deadline. *)
THEOREM NilSendersUnhurried == Spec => []NoForeignDeadline
<1>1. IInv => NoForeignDeadline
  BY ProcAssumption
     DEF IInv, TypeOK, PermitConserved, Holding, Ownership, NoForeignDeadline, Proc
<1> QED BY <1>1, Inductive, PTL

(* signalClosed ends the write of its realm for good. *)
THEOREM ClosedWriteInterrupted == Spec => []InterruptSticks
<1>1. IInv => InterruptSticks
  BY Zenon DEF IInv
<1> QED BY <1>1, Inductive, PTL

-----------------------------------------------------------------------------
(* The LMIDs whose UDP write has returned, as AtomicSend counts them. *)
Taken == IF \E p \in Proc : pc[p] = "udp" THEN nextId - 1 ELSE nextId

Stutter == Taken' = Taken /\ wire' = wire
AtomicStep == Taken' = Taken + 1 /\ wire' \in {wire, Taken}

(* Entering the UDP write is invisible, leaving it is one atomic send. *)
LEMMA StepRefines == IInv /\ [Next]_vars => Stutter \/ AtomicStep
<1> SUFFICES ASSUME IInv, [Next]_vars PROVE Stutter \/ AtomicStep
  BY Zenon
<1>t. TypeOK /\ PermitConserved /\ Numbering
  BY Zenon DEF IInv
<1>y. /\ pc \in [Proc -> PcState]
      /\ packet \in [Proc -> [lmid : Nat, recv : Nat]]
      /\ nextId \in Nat /\ wire \in Nat
  BY <1>t, Zenon DEF TypeOK
<1> USE <1>t, <1>y DEF Stutter, Taken
<1>1. ASSUME NEW p \in Proc, AcquireNil(p) PROVE Stutter \/ AtomicStep
  BY <1>1, Zenon DEF AcquireNil, TakePermit
<1>2. ASSUME NEW p \in Proc, SessionSend(p) PROVE Stutter \/ AtomicStep
  <2>1. \A q \in Proc : pc[q] # "udp"
    BY <1>2, Zenon DEF SessionSend, PermitConserved, Holding
  <2>2. pc'[p] = "udp"
    BY <1>2, Zenon DEF SessionSend
  <2>3. Taken = nextId
    BY <2>1, Zenon
  <2>4. Taken' = nextId' - 1
    BY <2>2, Zenon
  <2>5. nextId' = nextId + 1 /\ wire' = wire
    BY <1>2, Zenon DEF SessionSend
  <2> QED BY <2>3, <2>4, <2>5, <1>y
<1>3. ASSUME NEW p \in Proc, UdpWrite(p) PROVE Stutter \/ AtomicStep
  <2>1. \A q \in Proc : pc[q] = "udp" => q = p
    BY <1>3, Zenon DEF UdpWrite, PermitConserved, Holding
  <2>2. \A q \in Proc : pc'[q] # "udp"
    BY <1>3, <2>1, Zenon DEF UdpWrite, AfterWrite
  <2>3. Taken = nextId - 1 /\ Taken' = nextId
    BY <1>3, <2>2, Zenon DEF UdpWrite
  <2> QED BY <1>3, <2>3 DEF UdpWrite, AtomicStep, Numbering
<1>4. ASSUME NEW p \in Proc, UdpError(p) PROVE Stutter \/ AtomicStep
  <2>1. \A q \in Proc : pc[q] = "udp" => q = p
    BY <1>4, Zenon DEF UdpError, PermitConserved, Holding
  <2>2. \A q \in Proc : pc'[q] # "udp"
    BY <1>4, <2>1, Zenon DEF UdpError, AfterWrite
  <2>3. Taken = nextId - 1 /\ Taken' = nextId
    BY <1>4, <2>2, Zenon DEF UdpError
  <2> QED BY <1>4, <2>3 DEF UdpError, AtomicStep, Numbering
<1>5. ASSUME NEW p \in Proc, Release(p) PROVE Stutter \/ AtomicStep
  BY <1>5, AfterSendLabels, Zenon DEF Release, ReturnPermit, DiscsLeft
<1>6. ASSUME NEW p \in Proc, Interrupt(p) PROVE Stutter \/ AtomicStep
  BY <1>6, Zenon DEF Interrupt, InterruptWrite
<1>7. ASSUME NEW c \in Conns, Write(c) PROVE Stutter \/ AtomicStep
  BY <1>7, Zenon DEF Write
<1>8. ASSUME NEW c \in Conns, WriteCheck(c) PROVE Stutter \/ AtomicStep
  BY <1>8, Zenon DEF WriteCheck
<1>9. ASSUME NEW c \in Conns, AcquireLoop(c) PROVE Stutter \/ AtomicStep
  BY <1>9, Zenon DEF AcquireLoop
<1>10. ASSUME NEW c \in Conns, AcquireSelect(c) PROVE Stutter \/ AtomicStep
  BY <1>10, Zenon DEF AcquireSelect, TakePermit
<1>11. ASSUME NEW c \in Conns, Prepare(c) PROVE Stutter \/ AtomicStep
  BY <1>11, Zenon DEF Prepare
<1>12. ASSUME NEW c \in Conns, FinishWrite(c) PROVE Stutter \/ AtomicStep
  BY <1>12, Zenon DEF FinishWrite
<1>13. ASSUME NEW c \in Conns, NEW d \in Deadlines, SetWriteDeadline(c, d)
       PROVE  Stutter \/ AtomicStep
  BY <1>13, Zenon DEF SetWriteDeadline
<1>14. ASSUME NEW c \in Conns, NEW d \in Deadlines, UpdateWriteDeadline(c, d)
       PROVE  Stutter \/ AtomicStep
  BY <1>14, Zenon DEF UpdateWriteDeadline, MayUpdate
<1>15. ASSUME NEW a \in Apps, SendNil(a) PROVE Stutter \/ AtomicStep
  BY <1>15, Zenon DEF SendNil
<1>16. ASSUME NEW a \in Apps, NEW c \in Conns, ConnClose(a, c) PROVE Stutter \/ AtomicStep
  BY <1>16, Zenon DEF ConnClose
<1>17. ASSUME NEW a \in Apps, ConnCloseCheck(a) PROVE Stutter \/ AtomicStep
  BY <1>17, Zenon DEF ConnCloseCheck
<1>18. ASSUME NEW a \in Apps, ConnCloseDelete(a) PROVE Stutter \/ AtomicStep
  BY <1>18, Zenon DEF ConnCloseDelete
<1>19. CASE ReaderLoop
  BY <1>19, Zenon DEF ReaderLoop
<1>20. CASE ReceiveUnacked
  BY <1>20, Zenon DEF ReceiveUnacked, Receives
<1>21. CASE ReceiveAcked
  BY <1>21, Zenon DEF ReceiveAcked, Receives
<1>22. CASE ScheduleACK
  BY <1>22, Zenon DEF ScheduleACK, ArmAck
<1>23. ASSUME NEW c \in Conns, ReceiveTeardown(c) PROVE Stutter \/ AtomicStep
  BY <1>23, Zenon DEF ReceiveTeardown, Receives
<1>24. CASE AckTimerFires
  BY <1>24, Zenon DEF AckTimerFires
<1>25. CASE FlushACK
  BY <1>25, Zenon DEF FlushACK
<1>26. CASE FlushDone
  BY <1>26, Zenon DEF FlushDone
<1>27. CASE Close
  BY <1>27, Zenon DEF Close
<1>28. CASE StopAckTimer
  BY <1>28, Zenon DEF StopAckTimer
<1>29. CASE CloseSocket
  BY <1>29, Zenon DEF CloseSocket
<1>30. ASSUME NEW c \in Conns, WakeRealm(c) PROVE Stutter \/ AtomicStep
  BY <1>30, Zenon DEF WakeRealm
<1>31. ASSUME NEW c \in Conns, DiscRealm(c) PROVE Stutter \/ AtomicStep
  BY <1>31, Zenon DEF DiscRealm
<1>32. CASE Tick
  BY <1>32, Zenon DEF Tick
<1>33. CASE UNCHANGED vars
  BY <1>33, Zenon DEF vars
<1> QED
  BY Zenon, <1>1, <1>2, <1>3, <1>4, <1>5, <1>6, <1>7, <1>8, <1>9, <1>10, <1>11, <1>12, <1>13,
     <1>14, <1>15, <1>16, <1>17, <1>18, <1>19, <1>20, <1>21, <1>22, <1>23, <1>24, <1>25,
     <1>26, <1>27, <1>28, <1>29, <1>30, <1>31, <1>32, <1>33, Zenon
     DEF Next, SendStep, WriterStep, AppStep, ReaderStep, AckerStep, CloserStep

(* sendPacket behaves as if session.Send and the UDP write were one step. *)
THEOREM SendIsAtomic == Spec => ImplementsAtomicSend
<1>1. Init => Atomic!Init
  BY ProcAssumption, Zenon DEF Init, Atomic!Init
<1>2. IInv /\ [Next]_vars => [Atomic!Send]_<<Taken, wire>>
  BY StepRefines, Zenon DEF Stutter, AtomicStep, Atomic!Send, Taken
<1> QED BY <1>1, <1>2, Inductive, PTL DEF Spec, ImplementsAtomicSend, Atomic!Spec, Taken

-----------------------------------------------------------------------------
(* The coalesced acknowledgements *)

(* The reader has handled a packet that asks for an ACK and has not called *)
(* scheduleACK yet.                                                        *)
Owes ==
    \/ pc["reader"] \in {"schedule", "interrupt"}
    \/ pc["reader"] \in {"wait", "assign", "udp", "release"} /\ target["reader"] # None

(* Recv fields only grow on the wire, because a header is filled in and    *)
(* written under the permit.                                               *)
RecvGrows ==
    /\ owed <= recv /\ wireRecv <= recv
    /\ \A p \in Proc : pc[p] = "udp" => wireRecv <= packet[p].recv /\ packet[p].recv <= recv

(* flushACK holds ackMu while it sends, so the reader that comes to rest   *)
(* meanwhile owes nothing that the ACK being sent does not cover.          *)
AckInv ==
    ~Owes =>
        /\ pc["acker"] = "udp" => packet["acker"].recv >= owed
        /\ pc["acker"] \in {"release", "flushed"} /\ ok["acker"] => wireRecv >= owed
        /\ ~ackPending /\ sendErrs = 0 => wireRecv >= owed

-----------------------------------------------------------------------------
(* No step puts an older Recv on the wire than the last one. *)
LEMMA RecvGrowsPreserved == TypeOK /\ PermitConserved /\ RecvGrows /\ [Next]_vars => RecvGrows'
<1> SUFFICES ASSUME TypeOK /\ PermitConserved /\ RecvGrows, [Next]_vars PROVE RecvGrows'
  BY Zenon
<1>y. /\ pc \in [Proc -> PcState]
      /\ packet \in [Proc -> [lmid : Nat, recv : Nat]]
      /\ recv \in Nat /\ owed \in Nat /\ wireRecv \in Nat
  BY Zenon DEF TypeOK
<1> USE ProcAssumption, <1>y DEF PermitConserved, Holding, RecvGrows
<1>1. ASSUME NEW p \in Proc, AcquireNil(p) PROVE RecvGrows'
  BY <1>1, Zenon DEF AcquireNil, TakePermit
<1>2. ASSUME NEW p \in Proc, SessionSend(p) PROVE RecvGrows'
  BY <1>2 DEF SessionSend
<1>3. ASSUME NEW p \in Proc, UdpWrite(p) PROVE RecvGrows'
  BY <1>3, Zenon DEF UdpWrite, AfterWrite, NoPacket
<1>4. ASSUME NEW p \in Proc, UdpError(p) PROVE RecvGrows'
  BY <1>4, Zenon DEF UdpError, AfterWrite, NoPacket
<1>5. ASSUME NEW p \in Proc, Release(p) PROVE RecvGrows'
  BY <1>5, AfterSendLabels, Zenon DEF Release, ReturnPermit, DiscsLeft
<1>6. ASSUME NEW p \in Proc, Interrupt(p) PROVE RecvGrows'
  BY <1>6, Zenon DEF Interrupt, InterruptWrite
<1>7. ASSUME NEW c \in Conns, Write(c) PROVE RecvGrows'
  BY <1>7, Zenon DEF Write
<1>8. ASSUME NEW c \in Conns, WriteCheck(c) PROVE RecvGrows'
  BY <1>8, Zenon DEF WriteCheck
<1>9. ASSUME NEW c \in Conns, AcquireLoop(c) PROVE RecvGrows'
  BY <1>9, Zenon DEF AcquireLoop
<1>10. ASSUME NEW c \in Conns, AcquireSelect(c) PROVE RecvGrows'
  BY <1>10, Zenon DEF AcquireSelect, TakePermit
<1>11. ASSUME NEW c \in Conns, Prepare(c) PROVE RecvGrows'
  BY <1>11, Zenon DEF Prepare
<1>12. ASSUME NEW c \in Conns, FinishWrite(c) PROVE RecvGrows'
  BY <1>12, Zenon DEF FinishWrite
<1>13. ASSUME NEW c \in Conns, NEW d \in Deadlines, SetWriteDeadline(c, d) PROVE RecvGrows'
  BY <1>13, Zenon DEF SetWriteDeadline
<1>14. ASSUME NEW c \in Conns, NEW d \in Deadlines, UpdateWriteDeadline(c, d) PROVE RecvGrows'
  BY <1>14, Zenon DEF UpdateWriteDeadline, MayUpdate
<1>15. ASSUME NEW a \in Apps, SendNil(a) PROVE RecvGrows'
  BY <1>15, Zenon DEF SendNil
<1>16. ASSUME NEW a \in Apps, NEW c \in Conns, ConnClose(a, c) PROVE RecvGrows'
  BY <1>16, Zenon DEF ConnClose
<1>17. ASSUME NEW a \in Apps, ConnCloseCheck(a) PROVE RecvGrows'
  BY <1>17, Zenon DEF ConnCloseCheck
<1>18. ASSUME NEW a \in Apps, ConnCloseDelete(a) PROVE RecvGrows'
  BY <1>18, Zenon DEF ConnCloseDelete
<1>19. CASE ReaderLoop
  BY <1>19, Zenon DEF ReaderLoop
<1>20. CASE ReceiveUnacked
  BY <1>20 DEF ReceiveUnacked, Receives
<1>21. CASE ReceiveAcked
  BY <1>21 DEF ReceiveAcked, Receives
<1>22. CASE ScheduleACK
  BY <1>22, Zenon DEF ScheduleACK, AckMuFree, ArmAck
<1>23. ASSUME NEW c \in Conns, ReceiveTeardown(c) PROVE RecvGrows'
  BY <1>23 DEF ReceiveTeardown, Receives
<1>24. CASE AckTimerFires
  BY <1>24, Zenon DEF AckTimerFires
<1>25. CASE FlushACK
  BY <1>25, Zenon DEF FlushACK
<1>26. CASE FlushDone
  BY <1>26, Zenon DEF FlushDone
<1>27. CASE Close
  BY <1>27, Zenon DEF Close
<1>28. CASE StopAckTimer
  BY <1>28, Zenon DEF StopAckTimer
<1>29. CASE CloseSocket
  BY <1>29, Zenon DEF CloseSocket
<1>30. ASSUME NEW c \in Conns, WakeRealm(c) PROVE RecvGrows'
  BY <1>30, Zenon DEF WakeRealm
<1>31. ASSUME NEW c \in Conns, DiscRealm(c) PROVE RecvGrows'
  BY <1>31, Zenon DEF DiscRealm
<1>32. CASE Tick
  BY <1>32, Zenon DEF Tick
<1>33. CASE UNCHANGED vars
  BY <1>33, Zenon DEF vars
<1> QED
  BY Zenon, <1>1, <1>2, <1>3, <1>4, <1>5, <1>6, <1>7, <1>8, <1>9, <1>10, <1>11, <1>12, <1>13,
     <1>14, <1>15, <1>16, <1>17, <1>18, <1>19, <1>20, <1>21, <1>22, <1>23, <1>24, <1>25,
     <1>26, <1>27, <1>28, <1>29, <1>30, <1>31, <1>32, <1>33, Zenon
     DEF Next, SendStep, WriterStep, AppStep, ReaderStep, AckerStep, CloserStep

(* No step of any sender lets the reader, flushACK or Close lose an ACK. *)
LEMMA AckPreserved == TypeOK /\ Roles /\ RecvGrows /\ AckInv /\ [Next]_vars => AckInv'
<1> SUFFICES ASSUME TypeOK /\ Roles /\ RecvGrows /\ AckInv, [Next]_vars PROVE AckInv'
  BY Zenon
<1>y. /\ pc \in [Proc -> PcState] /\ ok \in [Proc -> BOOLEAN]
      /\ packet \in [Proc -> [lmid : Nat, recv : Nat]]
      /\ target \in [Proc -> Conns \cup {None}]
      /\ recv \in Nat /\ owed \in Nat /\ wireRecv \in Nat
      /\ ackPending \in BOOLEAN
  BY Zenon DEF TypeOK
<1>d. /\ "reader" \in Proc \ (Conns \cup Apps) /\ "acker" \in Proc \ (Conns \cup Apps)
      /\ "closer" \in Proc \ (Conns \cup Apps)
      /\ Conns \subseteq Proc /\ Apps \subseteq Proc /\ None \notin Conns
  BY ProcAssumption, SMTT(30) DEF Proc, Daemons
<1>r. /\ owed <= recv
      /\ \A p \in Proc : pc[p] = "udp" => wireRecv <= packet[p].recv
      /\ pc["reader"] = "interrupt" => target["reader"] \in Conns
  BY <1>d, Zenon DEF RecvGrows, Roles
<1> USE <1>y, <1>d, <1>r DEF AckInv, Owes
<1>1. ASSUME NEW p \in Proc, AcquireNil(p) PROVE AckInv'
  BY <1>1, Zenon DEF AcquireNil, TakePermit
<1>2. ASSUME NEW p \in Proc, SessionSend(p) PROVE AckInv'
  BY <1>2, Zenon DEF SessionSend
<1>3. ASSUME NEW p \in Proc, UdpWrite(p) PROVE AckInv'
  BY <1>3 DEF UdpWrite, AfterWrite, NoPacket
<1>4. ASSUME NEW p \in Proc, UdpError(p) PROVE AckInv'
  BY <1>4, Zenon DEF UdpError, AfterWrite, NoPacket
<1>5. ASSUME NEW p \in Proc, Release(p) PROVE AckInv'
  <2>1. CASE p = "reader"
    BY <1>5, <2>1, ProcAssumption DEF Release, ReturnPermit, AfterSend, Daemons
  <2>2. CASE p = "acker"
    BY <1>5, <2>2, ProcAssumption, Zenon DEF Release, ReturnPermit, AfterSend, Daemons
  <2>3. CASE p \notin {"reader", "acker"}
    BY <1>5, <2>3, Zenon DEF Release, ReturnPermit
  <2> QED BY <2>1, <2>2, <2>3, Zenon
<1>6. ASSUME NEW p \in Proc, Interrupt(p) PROVE AckInv'
  BY <1>6, Zenon DEF Interrupt, InterruptWrite
<1>7. ASSUME NEW c \in Conns, Write(c) PROVE AckInv'
  BY <1>7, Zenon DEF Write
<1>8. ASSUME NEW c \in Conns, WriteCheck(c) PROVE AckInv'
  BY <1>8, Zenon DEF WriteCheck
<1>9. ASSUME NEW c \in Conns, AcquireLoop(c) PROVE AckInv'
  BY <1>9, Zenon DEF AcquireLoop
<1>10. ASSUME NEW c \in Conns, AcquireSelect(c) PROVE AckInv'
  BY <1>10 DEF AcquireSelect, TakePermit
<1>11. ASSUME NEW c \in Conns, Prepare(c) PROVE AckInv'
  BY <1>11, Zenon DEF Prepare
<1>12. ASSUME NEW c \in Conns, FinishWrite(c) PROVE AckInv'
  BY <1>12, Zenon DEF FinishWrite
<1>13. ASSUME NEW c \in Conns, NEW d \in Deadlines, SetWriteDeadline(c, d) PROVE AckInv'
  BY <1>13, Zenon DEF SetWriteDeadline
<1>14. ASSUME NEW c \in Conns, NEW d \in Deadlines, UpdateWriteDeadline(c, d) PROVE AckInv'
  BY <1>14, Zenon DEF UpdateWriteDeadline, MayUpdate
<1>15. ASSUME NEW a \in Apps, SendNil(a) PROVE AckInv'
  BY <1>15, Zenon DEF SendNil
<1>16. ASSUME NEW a \in Apps, NEW c \in Conns, ConnClose(a, c) PROVE AckInv'
  BY <1>16, Zenon DEF ConnClose
<1>17. ASSUME NEW a \in Apps, ConnCloseCheck(a) PROVE AckInv'
  BY <1>17, Zenon DEF ConnCloseCheck
<1>18. ASSUME NEW a \in Apps, ConnCloseDelete(a) PROVE AckInv'
  BY <1>18, Zenon DEF ConnCloseDelete
<1>19. CASE ReaderLoop
  BY <1>19 DEF ReaderLoop
<1>20. CASE ReceiveUnacked
  BY <1>20, Zenon DEF ReceiveUnacked, Receives
<1>21. CASE ReceiveAcked
  BY <1>21, Zenon DEF ReceiveAcked, Receives
<1>22. CASE ScheduleACK
  BY <1>22, Zenon DEF ScheduleACK, AckMuFree, ArmAck
<1>23. ASSUME NEW c \in Conns, ReceiveTeardown(c) PROVE AckInv'
  BY <1>23, Zenon DEF ReceiveTeardown, Receives
<1>24. CASE AckTimerFires
  BY <1>24, Zenon DEF AckTimerFires
<1>25. CASE FlushACK
  BY <1>25, Zenon DEF FlushACK
<1>26. CASE FlushDone
  BY <1>26 DEF FlushDone
<1>27. CASE Close
  BY <1>27, Zenon DEF Close
<1>28. CASE StopAckTimer
  BY <1>28, Zenon DEF StopAckTimer
<1>29. CASE CloseSocket
  BY <1>29, Zenon DEF CloseSocket
<1>30. ASSUME NEW c \in Conns, WakeRealm(c) PROVE AckInv'
  BY <1>30, Zenon DEF WakeRealm
<1>31. ASSUME NEW c \in Conns, DiscRealm(c) PROVE AckInv'
  BY <1>31, Zenon DEF DiscRealm
<1>32. CASE Tick
  BY <1>32, Zenon DEF Tick
<1>33. CASE UNCHANGED vars
  BY <1>33, Zenon DEF vars
<1> QED
  BY Zenon, <1>1, <1>2, <1>3, <1>4, <1>5, <1>6, <1>7, <1>8, <1>9, <1>10, <1>11, <1>12, <1>13,
     <1>14, <1>15, <1>16, <1>17, <1>18, <1>19, <1>20, <1>21, <1>22, <1>23, <1>24, <1>25,
     <1>26, <1>27, <1>28, <1>29, <1>30, <1>31, <1>32, <1>33, Zenon
     DEF Next, SendStep, WriterStep, AppStep, ReaderStep, AckerStep, CloserStep

-----------------------------------------------------------------------------
(* scheduleACK and flushACK coalesce acknowledgements and lose none: with  *)
(* no ACK pending and no failed flush, the last packet written reports     *)
(* every byte that asked for one.                                          *)
THEOREM NoAckLost == Spec => []AckCovered
<1>1. Init => RecvGrows /\ AckInv
  BY ProcAssumption DEF Init, RecvGrows, AckInv, Owes, Proc, Daemons
<1>2. IInv /\ RecvGrows /\ AckInv /\ [Next]_vars => RecvGrows' /\ AckInv'
  BY RecvGrowsPreserved, AckPreserved, Zenon DEF IInv
<1>3. AckInv => AckCovered
  BY Zenon DEF AckInv, AckCovered, Owes
<1> QED BY <1>1, <1>2, <1>3, Inductive, PTL DEF Spec

-----------------------------------------------------------------------------
(* A realm's own deadline, when the calls of SetWriteDeadline on one Conn  *)
(* do not overlap.                                                         *)

(* A set of one element has cardinality 1. *)
LEMMA Singleton == \A x : Cardinality({x}) = 1
<1> SUFFICES ASSUME NEW x PROVE Cardinality({x}) = 1
  OBVIOUS
<1> DEFINE Counts(f) == f = [T \in SUBSET {x} |->
                               IF T = {} THEN 0 ELSE 1 + f[T \ {CHOOSE y : y \in T}]]
           CS == CHOOSE f : Counts(f)
           g == [T \in SUBSET {x} |-> IF T = {} THEN 0 ELSE 1]
<1>1. \A T \in SUBSET {x} : T # {} => T = {x} /\ T \ {CHOOSE y : y \in T} = {}
  OBVIOUS
<1>2. {} \in SUBSET {x} /\ {x} \in SUBSET {x} /\ {x} # {} /\ 1 + 0 = 1
  OBVIOUS
<1>3. Counts(g)
  <2>1. \A T \in SUBSET {x} :
          g[T] = IF T = {} THEN 0 ELSE 1 + g[T \ {CHOOSE y : y \in T}]
    BY <1>1, <1>2, Zenon
  <2> QED BY <2>1, Zenon
<1>4. Counts(CS)
  <2> HIDE DEF Counts
  <2> QED BY <1>3, Zenon
<1>5. Cardinality({x}) = CS[{x}]
  BY Zenon DEF Cardinality
<1> HIDE DEF CS
<1>6. CS[{}] = 0
  BY <1>2, <1>4, Zenon
<1>7. CS[{x}] = 1 + CS[{}]
  <2>1. {x} \ {CHOOSE y : y \in {x}} = {}
    BY <1>1, <1>2, Zenon
  <2>2. CS[{x}] = IF {x} = {} THEN 0 ELSE 1 + CS[{x} \ {CHOOSE y : y \in {x}}]
    BY <1>2, <1>4, Zenon
  <2> QED BY <1>2, <2>1, <2>2, Zenon
<1> QED BY <1>2, <1>5, <1>6, <1>7, Zenon

(* The call under way, if any, is applying the current deadline. *)
UpdateIsCurrent == \A c \in Conns : updating[c] \in {{}, {writeDeadline[c]}}

(* signalClosed interrupts a write only after it marked the Conn closed. *)
InterruptsClosed == \A p \in Proc : pc[p] = "interrupt" => connClosed[target[p]]

(* A call of SetWriteDeadline starts only when the one before has ended.   *)
LEMMA UpdatePreserved ==
    ASSUME MaxUpdates <= 1
    PROVE  TypeOK /\ UpdateIsCurrent /\ [Next]_vars => UpdateIsCurrent'
<1> SUFFICES ASSUME TypeOK, UpdateIsCurrent, [Next]_vars PROVE UpdateIsCurrent'
  BY Zenon
<1>y. /\ writeDeadline \in [Conns -> Deadlines]
      /\ updating \in [Conns -> SUBSET Deadlines]
  BY Zenon DEF TypeOK
<1>1. ASSUME NEW c \in Conns, NEW d \in Deadlines, SetWriteDeadline(c, d) PROVE UpdateIsCurrent'
  <2>1. updating[c] = {}
    <3>1. Cardinality({writeDeadline[c]}) = 1
      BY Singleton, Zenon
    <3>2. Cardinality(updating[c]) < MaxUpdates
      BY <1>1, Zenon DEF SetWriteDeadline
    <3>3. ~(1 < MaxUpdates)
      BY BoundAssumption
    <3> QED BY <3>1, <3>2, <3>3, Zenon DEF UpdateIsCurrent
  <2> QED BY <1>y, <1>1, <2>1, Zenon DEF SetWriteDeadline, UpdateIsCurrent
<1>2. ASSUME NEW c \in Conns, NEW d \in Deadlines, UpdateWriteDeadline(c, d)
      PROVE  UpdateIsCurrent'
  BY <1>y, <1>2, Zenon DEF UpdateWriteDeadline, UpdateIsCurrent
<1>3. CASE UNCHANGED <<writeDeadline, updating>>
  BY <1>3, Zenon DEF UpdateIsCurrent
<1>4. \/ \E c \in Conns, d \in Deadlines : SetWriteDeadline(c, d) \/ UpdateWriteDeadline(c, d)
      \/ UNCHANGED <<writeDeadline, updating>>
  BY Zenon DEF vars, Next, SendStep, WriterStep, AppStep, ReaderStep, AckerStep, CloserStep,
         AcquireNil, SessionSend, UdpWrite, UdpError, Release, Interrupt, Write, WriteCheck,
         AcquireLoop, AcquireSelect, Prepare, FinishWrite, SendNil, ConnClose, ConnCloseCheck,
         ConnCloseDelete, ReaderLoop, ReceiveUnacked, ReceiveAcked, Receives, ScheduleACK,
         ReceiveTeardown, AckTimerFires, FlushACK, FlushDone, Close, StopAckTimer, CloseSocket,
         WakeRealm, DiscRealm, Tick
<1> QED BY <1>1, <1>2, <1>3, <1>4, Zenon

(* Closing comes before interrupting, and is never undone. *)
LEMMA InterruptsPreserved ==
    TypeOK /\ Roles /\ InterruptsClosed /\ [Next]_vars => InterruptsClosed'
<1> SUFFICES ASSUME TypeOK, Roles, InterruptsClosed, [Next]_vars,
                    NEW q \in Proc, pc'[q] = "interrupt"
             PROVE  connClosed'[target'[q]]
  BY Zenon DEF InterruptsClosed
<1>y. /\ pc \in [Proc -> PcState]
      /\ target \in [Proc -> Conns \cup {None}]
      /\ connClosed \in [Conns -> BOOLEAN]
  BY Zenon DEF TypeOK
<1> USE ProcAssumption, <1>y DEF Roles, WriterPc, InterruptsClosed, Proc, Daemons
<1>1. ASSUME NEW p \in Proc, AcquireNil(p) PROVE connClosed'[target'[q]]
  BY <1>1, Zenon DEF AcquireNil, TakePermit
<1>2. ASSUME NEW p \in Proc, SessionSend(p) PROVE connClosed'[target'[q]]
  BY <1>2, Zenon DEF SessionSend
<1>3. ASSUME NEW p \in Proc, UdpWrite(p) PROVE connClosed'[target'[q]]
  BY <1>3, Zenon DEF UdpWrite, AfterWrite, NoPacket
<1>4. ASSUME NEW p \in Proc, UdpError(p) PROVE connClosed'[target'[q]]
  BY <1>4, Zenon DEF UdpError, AfterWrite, NoPacket
<1>5. ASSUME NEW p \in Proc, Release(p) PROVE connClosed'[target'[q]]
  BY <1>5, AfterSendLabels DEF Release, ReturnPermit, DiscsLeft
<1>6. ASSUME NEW p \in Proc, Interrupt(p) PROVE connClosed'[target'[q]]
  BY <1>6, Zenon DEF Interrupt, InterruptWrite
<1>7. ASSUME NEW c \in Conns, Write(c) PROVE connClosed'[target'[q]]
  BY <1>7, Zenon DEF Write
<1>8. ASSUME NEW c \in Conns, WriteCheck(c) PROVE connClosed'[target'[q]]
  BY <1>8, Zenon DEF WriteCheck
<1>9. ASSUME NEW c \in Conns, AcquireLoop(c) PROVE connClosed'[target'[q]]
  BY <1>9 DEF AcquireLoop
<1>10. ASSUME NEW c \in Conns, AcquireSelect(c) PROVE connClosed'[target'[q]]
  BY <1>10, Zenon DEF AcquireSelect, TakePermit
<1>11. ASSUME NEW c \in Conns, Prepare(c) PROVE connClosed'[target'[q]]
  BY <1>11 DEF Prepare
<1>12. ASSUME NEW c \in Conns, FinishWrite(c) PROVE connClosed'[target'[q]]
  BY <1>12, Zenon DEF FinishWrite
<1>13. ASSUME NEW c \in Conns, NEW d \in Deadlines, SetWriteDeadline(c, d)
       PROVE  connClosed'[target'[q]]
  BY <1>13, Zenon DEF SetWriteDeadline
<1>14. ASSUME NEW c \in Conns, NEW d \in Deadlines, UpdateWriteDeadline(c, d)
       PROVE  connClosed'[target'[q]]
  BY <1>14, Zenon DEF UpdateWriteDeadline, MayUpdate
<1>15. ASSUME NEW a \in Apps, SendNil(a) PROVE connClosed'[target'[q]]
  BY <1>15, Zenon DEF SendNil
<1>16. ASSUME NEW a \in Apps, NEW c \in Conns, ConnClose(a, c) PROVE connClosed'[target'[q]]
  BY <1>16, Zenon DEF ConnClose
<1>17. ASSUME NEW a \in Apps, ConnCloseCheck(a) PROVE connClosed'[target'[q]]
  BY <1>17, Zenon DEF ConnCloseCheck
<1>18. ASSUME NEW a \in Apps, ConnCloseDelete(a) PROVE connClosed'[target'[q]]
  BY <1>18, Zenon DEF ConnCloseDelete
<1>19. CASE ReaderLoop
  BY <1>19, Zenon DEF ReaderLoop
<1>20. CASE ReceiveUnacked
  BY <1>20, Zenon DEF ReceiveUnacked, Receives
<1>21. CASE ReceiveAcked
  BY <1>21, Zenon DEF ReceiveAcked, Receives
<1>22. CASE ScheduleACK
  BY <1>22, Zenon DEF ScheduleACK, ArmAck
<1>23. ASSUME NEW c \in Conns, ReceiveTeardown(c) PROVE connClosed'[target'[q]]
  BY <1>23, Zenon DEF ReceiveTeardown, Receives
<1>24. CASE AckTimerFires
  BY <1>24, Zenon DEF AckTimerFires
<1>25. CASE FlushACK
  BY <1>25, Zenon DEF FlushACK
<1>26. CASE FlushDone
  BY <1>26, Zenon DEF FlushDone
<1>27. CASE Close
  BY <1>27, Zenon DEF Close
<1>28. CASE StopAckTimer
  BY <1>28, Zenon DEF StopAckTimer
<1>29. CASE CloseSocket
  BY <1>29, Zenon DEF CloseSocket
<1>30. ASSUME NEW c \in Conns, WakeRealm(c) PROVE connClosed'[target'[q]]
  BY <1>30, Zenon DEF WakeRealm
<1>31. ASSUME NEW c \in Conns, DiscRealm(c) PROVE connClosed'[target'[q]]
  BY <1>31, Zenon DEF DiscRealm
<1>32. CASE Tick
  BY <1>32, Zenon DEF Tick
<1>33. CASE UNCHANGED vars
  BY <1>33, Zenon DEF vars
<1> QED
  BY Zenon, <1>1, <1>2, <1>3, <1>4, <1>5, <1>6, <1>7, <1>8, <1>9, <1>10, <1>11, <1>12, <1>13,
     <1>14, <1>15, <1>16, <1>17, <1>18, <1>19, <1>20, <1>21, <1>22, <1>23, <1>24, <1>25,
     <1>26, <1>27, <1>28, <1>29, <1>30, <1>31, <1>32, <1>33, Zenon
     DEF Next, SendStep, WriterStep, AppStep, ReaderStep, AckerStep, CloserStep

(* A write runs under the deadline of its realm. *)
LEMMA OwnPreserved ==
    TypeOK /\ Roles /\ PermitConserved /\ Ownership /\ UpdateIsCurrent /\ InterruptsClosed
        /\ OwnDeadline /\ [Next]_vars => OwnDeadline'
<1> SUFFICES ASSUME TypeOK, Roles, PermitConserved, Ownership,
                    UpdateIsCurrent, InterruptsClosed, OwnDeadline, [Next]_vars,
                    NEW w \in Conns, pc'[w] \in {"assign", "udp"}, ~connClosed'[w],
                    updating'[w] = {}
             PROVE  sockDeadline' = writeDeadline'[w]
  BY Zenon DEF OwnDeadline
<1>y. /\ pc \in [Proc -> PcState]
      /\ target \in [Proc -> Conns \cup {None}]
      /\ connClosed \in [Conns -> BOOLEAN]
      /\ activeWriter \in Conns \cup {None}
      /\ writeDeadline \in [Conns -> Deadlines]
      /\ updating \in [Conns -> SUBSET Deadlines]
  BY Zenon DEF TypeOK
<1> USE ProcAssumption, <1>y DEF Roles, WriterPc, Ownership, OwnDeadline, Proc, Daemons
<1>1. ASSUME NEW p \in Proc, AcquireNil(p) PROVE sockDeadline' = writeDeadline'[w]
  BY <1>1, Zenon DEF AcquireNil, TakePermit
<1>2. ASSUME NEW p \in Proc, SessionSend(p) PROVE sockDeadline' = writeDeadline'[w]
  BY <1>2, Zenon DEF SessionSend
<1>3. ASSUME NEW p \in Proc, UdpWrite(p) PROVE sockDeadline' = writeDeadline'[w]
  BY <1>3, Zenon DEF UdpWrite, AfterWrite, NoPacket
<1>4. ASSUME NEW p \in Proc, UdpError(p) PROVE sockDeadline' = writeDeadline'[w]
  BY <1>4, Zenon DEF UdpError, AfterWrite, NoPacket
<1>5. ASSUME NEW p \in Proc, Release(p) PROVE sockDeadline' = writeDeadline'[w]
  BY <1>5, AfterSendLabels DEF Release, ReturnPermit, DiscsLeft
<1>6. ASSUME NEW p \in Proc, Interrupt(p) PROVE sockDeadline' = writeDeadline'[w]
  BY <1>6 DEF InterruptsClosed, Interrupt, InterruptWrite
<1>7. ASSUME NEW c \in Conns, Write(c) PROVE sockDeadline' = writeDeadline'[w]
  BY <1>7, Zenon DEF Write
<1>8. ASSUME NEW c \in Conns, WriteCheck(c) PROVE sockDeadline' = writeDeadline'[w]
  BY <1>8, Zenon DEF WriteCheck
<1>9. ASSUME NEW c \in Conns, AcquireLoop(c) PROVE sockDeadline' = writeDeadline'[w]
  BY <1>9 DEF AcquireLoop
<1>10. ASSUME NEW c \in Conns, AcquireSelect(c) PROVE sockDeadline' = writeDeadline'[w]
  BY <1>10, Zenon DEF AcquireSelect, TakePermit
<1>11. ASSUME NEW c \in Conns, Prepare(c) PROVE sockDeadline' = writeDeadline'[w]
  <2>1. ~(Holding(w) /\ w # c)
    BY <1>11, Zenon DEF Prepare, PermitConserved, Holding
  <2> QED BY <1>11, <2>1 DEF Prepare, Holding
<1>12. ASSUME NEW c \in Conns, FinishWrite(c) PROVE sockDeadline' = writeDeadline'[w]
  BY <1>12, Zenon DEF FinishWrite
<1>13. ASSUME NEW c \in Conns, NEW d \in Deadlines, SetWriteDeadline(c, d)
       PROVE  sockDeadline' = writeDeadline'[w]
  BY <1>13, Zenon DEF SetWriteDeadline
<1>14. ASSUME NEW c \in Conns, NEW d \in Deadlines, UpdateWriteDeadline(c, d)
       PROVE  sockDeadline' = writeDeadline'[w]
  BY <1>14 DEF UpdateIsCurrent, UpdateWriteDeadline, MayUpdate
<1>15. ASSUME NEW a \in Apps, SendNil(a) PROVE sockDeadline' = writeDeadline'[w]
  BY <1>15, Zenon DEF SendNil
<1>16. ASSUME NEW a \in Apps, NEW c \in Conns, ConnClose(a, c)
       PROVE  sockDeadline' = writeDeadline'[w]
  BY <1>16, Zenon DEF ConnClose
<1>17. ASSUME NEW a \in Apps, ConnCloseCheck(a) PROVE sockDeadline' = writeDeadline'[w]
  BY <1>17, Zenon DEF ConnCloseCheck
<1>18. ASSUME NEW a \in Apps, ConnCloseDelete(a) PROVE sockDeadline' = writeDeadline'[w]
  BY <1>18, Zenon DEF ConnCloseDelete
<1>19. CASE ReaderLoop
  BY <1>19, Zenon DEF ReaderLoop
<1>20. CASE ReceiveUnacked
  BY <1>20, Zenon DEF ReceiveUnacked, Receives
<1>21. CASE ReceiveAcked
  BY <1>21, Zenon DEF ReceiveAcked, Receives
<1>22. CASE ScheduleACK
  BY <1>22, Zenon DEF ScheduleACK, ArmAck
<1>23. ASSUME NEW c \in Conns, ReceiveTeardown(c) PROVE sockDeadline' = writeDeadline'[w]
  BY <1>23, Zenon DEF ReceiveTeardown, Receives
<1>24. CASE AckTimerFires
  BY <1>24, Zenon DEF AckTimerFires
<1>25. CASE FlushACK
  BY <1>25, Zenon DEF FlushACK
<1>26. CASE FlushDone
  BY <1>26, Zenon DEF FlushDone
<1>27. CASE Close
  BY <1>27, Zenon DEF Close
<1>28. CASE StopAckTimer
  BY <1>28, Zenon DEF StopAckTimer
<1>29. CASE CloseSocket
  BY <1>29, Zenon DEF CloseSocket
<1>30. ASSUME NEW c \in Conns, WakeRealm(c) PROVE sockDeadline' = writeDeadline'[w]
  BY <1>30, Zenon DEF WakeRealm
<1>31. ASSUME NEW c \in Conns, DiscRealm(c) PROVE sockDeadline' = writeDeadline'[w]
  BY <1>31, Zenon DEF DiscRealm
<1>32. CASE Tick
  BY <1>32, Zenon DEF Tick
<1>33. CASE UNCHANGED vars
  BY <1>33, Zenon DEF vars
<1> QED
  BY Zenon, <1>1, <1>2, <1>3, <1>4, <1>5, <1>6, <1>7, <1>8, <1>9, <1>10, <1>11, <1>12, <1>13,
     <1>14, <1>15, <1>16, <1>17, <1>18, <1>19, <1>20, <1>21, <1>22, <1>23, <1>24, <1>25,
     <1>26, <1>27, <1>28, <1>29, <1>30, <1>31, <1>32, <1>33, Zenon
     DEF Next, SendStep, WriterStep, AppStep, ReaderStep, AckerStep, CloserStep

(* While the calls of SetWriteDeadline on a Conn do not overlap, its UDP   *)
(* write runs under the deadline set last, whether the call came before,   *)
(* during or after the start of the write.                                 *)
THEOREM OwnDeadlineApplies ==
    ASSUME MaxUpdates <= 1
    PROVE  Spec => []OwnDeadline
<1>1. Init => UpdateIsCurrent /\ InterruptsClosed /\ OwnDeadline
  BY ProcAssumption, Zenon DEF Init, UpdateIsCurrent, InterruptsClosed, OwnDeadline, Proc
<1>2. IInv /\ UpdateIsCurrent /\ InterruptsClosed /\ OwnDeadline /\ [Next]_vars
        => UpdateIsCurrent' /\ InterruptsClosed' /\ OwnDeadline'
  BY UpdatePreserved, InterruptsPreserved, OwnPreserved, Zenon DEF IInv
<1> QED BY <1>1, <1>2, Inductive, PTL DEF Spec
=============================================================================
