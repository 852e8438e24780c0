--------------------------- MODULE HandshakeProofs ---------------------------
(***************************************************************************)
(* For any number of reads, attempts and repeated datagrams: no error path *)
(* of Handshake leaks a socket or closes one twice; the types; and, while  *)
(* nothing is repeated, every read before the direct attempts uses the     *)
(* answer to its own request.                                              *)
(***************************************************************************)
EXTENDS Handshake, TLAPS

(* The labels at which main, main and p2p, or all three sockets are open. *)
MainLabels == {"probe", "readProbe", "p2psrv", "readP2psrv", "openP2p"}
P2pLabels == {"probeDevice", "readProbeDevice", "info", "readInfo", "relay", "readRelay",
              "openDevice"}
AllLabels == {"channel", "agent", "readAgent", "start", "readStart", "readChannel",
              "readFinalChannel", "relayChannel", "readNatInfo", "agentSync", "readAgentSync",
              "sign", "readSign", "closeCloud"}

(* While Handshake runs, the handles are the open sockets and the label    *)
(* says which they are; that is what its deferred cleanup relies on.       *)
OpenAt(label, set) ==
    /\ label = "openMain" => set = {}
    /\ label \in MainLabels => set = {"main"}
    /\ label \in P2pLabels => set = {"main", "p2p"}
    /\ label \in AllLabels => set = {"main", "p2p", "device"}
    /\ label \in DirectLabels => set = {"device"}

(* The inductive invariant of the sockets. *)
SocketInv ==
    /\ result = "running" \/ pc = "returned"
    /\ pc \in {"openMain"} \cup MainLabels \cup P2pLabels \cup AllLabels \cup DirectLabels
              \cup {"returned"}
    /\ pc # "returned" => handles = sockets /\ OpenAt(pc, sockets)
    /\ SocketsAccounted

USE DEF device

(* A step of the handshake that fails closes the handles, which are the    *)
(* open sockets (the deferred cleanup of Handshake).                       *)
LEMMA FailKeepsInv ==
    ASSUME SocketInv, pc # "returned", Fail
    PROVE  SocketInv'
BY Zenon DEF SocketInv, Fail, Close, SocketsAccounted, sockVars, authVars

(* A step that goes on to a label with the same sockets open. *)
LEMMA GotoKeepsInv ==
    ASSUME SocketInv, pc # "returned",
           NEW label \in MainLabels \cup P2pLabels \cup AllLabels \cup DirectLabels,
           pc' = label, UNCHANGED <<result, sockVars>>,
           OpenAt(label, sockets)
    PROVE  SocketInv'
<1>1. result = "running" /\ handles = sockets
  BY Zenon DEF SocketInv
<1>2. label # "returned"
  BY Zenon DEF MainLabels, P2pLabels, AllLabels, DirectLabels
<1> QED
  BY <1>1, <1>2, Zenon DEF SocketInv, SocketsAccounted, sockVars, OpenAt

(* Request either goes on or fails. *)
LEMMA RequestKeepsInv ==
    ASSUME SocketInv, NEW label, NEW c, NEW s, NEW answers,
           NEW next \in MainLabels \cup P2pLabels \cup AllLabels,
           label # "returned",
           OpenAt(label, sockets) => OpenAt(next, sockets),
           Request(label, c, s, answers, next)
    PROVE  SocketInv'
<1>1. pc # "returned" /\ OpenAt(next, sockets)
  BY Zenon DEF SocketInv, Request
<1>2. CASE Fail
  BY <1>1, <1>2, FailKeepsInv, Zenon
<1>3. CASE Goto(next)
  BY <1>1, <1>3, GotoKeepsInv, Zenon DEF Goto
<1> QED
  BY <1>2, <1>3, Zenon DEF Request

(* So does Read. *)
LEMMA ReadKeepsInv ==
    ASSUME SocketInv, NEW label, NEW c, NEW serving, NEW expected,
           NEW next \in MainLabels \cup P2pLabels \cup AllLabels,
           label # "returned",
           OpenAt(label, sockets) => OpenAt(next, sockets),
           Read(label, c, serving, expected, next)
    PROVE  SocketInv'
<1>1. pc # "returned" /\ OpenAt(next, sockets)
  BY Zenon DEF SocketInv, Read
<1>2. CASE Fail
  BY <1>1, <1>2, FailKeepsInv, Zenon
<1>3. CASE Goto(next)
  BY <1>1, <1>3, GotoKeepsInv, Zenon DEF Goto
<1> QED
  BY <1>2, <1>3, Zenon DEF Read

(* NewUDPClientPort and Connect: the socket and its handle appear together. *)
LEMMA OpenKeepsInv ==
    ASSUME SocketInv, NEW label, NEW c, NEW s,
           NEW next \in MainLabels \cup P2pLabels \cup AllLabels,
           label # "returned",
           OpenAt(label, sockets) => OpenAt(next, sockets \cup {c}),
           Open(label, c, s, next)
    PROVE  SocketInv'
<1>1. pc # "returned" /\ OpenAt(next, sockets \cup {c}) /\ handles = sockets /\ result = "running"
  BY Zenon DEF SocketInv, Open
<1>2. next # "returned"
  BY Zenon DEF MainLabels, P2pLabels, AllLabels
<1>3. CASE Fail
  BY <1>1, <1>3, FailKeepsInv, Zenon
<1>4. CASE /\ handles' = handles \cup {c} /\ sockets' = sockets \cup {c}
           /\ pc' = next /\ UNCHANGED <<result, closedTwice>>
  BY <1>1, <1>2, <1>4, Zenon DEF SocketInv, SocketsAccounted, OpenAt
<1>5. CASE /\ handles' = handles \cup {c}
           /\ result' = "failed" /\ pc' = "returned"
           /\ sockets' = (sockets \cup {c}) \ handles'
           /\ UNCHANGED closedTwice
  BY <1>1, <1>5, Zenon DEF SocketInv, SocketsAccounted
<1> QED
  BY <1>3, <1>4, <1>5, Zenon DEF Open

(* Every step of the exchanges with the cloud. *)
LEMMA CloudKeepsInv ==
    ASSUME SocketInv, Cloud
    PROVE  SocketInv'
<1> USE DEF MainLabels, P2pLabels, AllLabels, DirectLabels, OpenAt
<1>1. CASE ProbeP2psrv
  BY <1>1, RequestKeepsInv, Zenon DEF ProbeP2psrv
<1>2. CASE OnlineP2psrv
  BY <1>2, RequestKeepsInv, Zenon DEF OnlineP2psrv
<1>3. CASE ProbeDevice
  BY <1>3, RequestKeepsInv, Zenon DEF ProbeDevice
<1>4. CASE InfoDevice
  BY <1>4, RequestKeepsInv, Zenon DEF InfoDevice
<1>5. CASE OnlineRelay
  BY <1>5, RequestKeepsInv, Zenon DEF OnlineRelay
<1>6. CASE RequestChannel
  BY <1>6, RequestKeepsInv, Zenon DEF RequestChannel
<1>7. CASE RelayAgent
  BY <1>7, RequestKeepsInv, Zenon DEF RelayAgent
<1>8. CASE RelayStart
  BY <1>8, RequestKeepsInv, Zenon DEF RelayStart
<1>9. CASE AgentSync
  BY <1>9, RequestKeepsInv, Zenon DEF AgentSync
<1>10. CASE RequestSign
  BY <1>10, RequestKeepsInv, Zenon DEF RequestSign
<1>11. CASE ReadProbe
  BY <1>11, ReadKeepsInv, Zenon DEF ReadProbe
<1>12. CASE ReadP2psrv
  BY <1>12, ReadKeepsInv, Zenon DEF ReadP2psrv
<1>13. CASE ReadProbeDevice
  BY <1>13, ReadKeepsInv, Zenon DEF ReadProbeDevice
<1>14. CASE ReadInfo
  BY <1>14, ReadKeepsInv, Zenon DEF ReadInfo
<1>15. CASE ReadRelay
  BY <1>15, ReadKeepsInv, Zenon DEF ReadRelay
<1>16. CASE ReadAgent
  BY <1>16, ReadKeepsInv, Zenon DEF ReadAgent
<1>17. CASE ReadStart
  BY <1>17, ReadKeepsInv, Zenon DEF ReadStart
<1>18. CASE ReadAgentSync
  BY <1>18, ReadKeepsInv, Zenon DEF ReadAgentSync
<1>19. CASE OpenMain
  BY <1>19, OpenKeepsInv, Zenon DEF OpenMain
<1>20. CASE OpenP2p
  BY <1>20, OpenKeepsInv, Zenon DEF OpenP2p
<1>21. CASE OpenDevice
  BY <1>21, OpenKeepsInv, Zenon DEF OpenDevice
<1>22. CASE ReadChannel \/ ReadFinalChannel
  <2>1. pc # "returned" /\ sockets = {"main", "p2p", "device"}
    BY <1>22, Zenon DEF SocketInv, ReadChannel, ReadFinalChannel
  <2>2. CASE Fail
    BY <2>1, <2>2, FailKeepsInv, Zenon
  <2>3. CASE Goto("readFinalChannel")
    BY <2>1, <2>3, GotoKeepsInv DEF Goto
  <2>4. CASE pc' = "relayChannel" /\ UNCHANGED <<result, sockVars>>
    BY <2>1, <2>4, GotoKeepsInv
  <2> QED
    BY <1>22, <2>2, <2>3, <2>4, Zenon DEF ReadChannel, ReadFinalChannel, UseChannel
<1>23. CASE RelayChannel \/ ReadNatInfo
  <2>1. pc # "returned" /\ sockets = {"main", "p2p", "device"}
    BY <1>23, Zenon DEF SocketInv, RelayChannel, ReadNatInfo
  <2>2. CASE Fail
    BY <2>1, <2>2, FailKeepsInv, Zenon
  <2>3. CASE Goto("readNatInfo") \/ Goto("agentSync")
    BY <2>1, <2>3, GotoKeepsInv, Zenon DEF Goto
  <2> QED
    BY <1>23, <2>2, <2>3, Zenon DEF RelayChannel, ReadNatInfo
<1>24. CASE ReadSign \/ NoSign
  <2>1. pc = "readSign" /\ sockets = {"main", "p2p", "device"}
    BY <1>24, Zenon DEF SocketInv, ReadSign, NoSign
  <2>2. CASE Fail
    BY <2>1, <2>2, FailKeepsInv, Zenon
  <2>3. CASE Goto("closeCloud")
    BY <2>1, <2>3, GotoKeepsInv DEF Goto
  <2>4. CASE Reads(reads + 1)
    BY <2>1, <2>4, GotoKeepsInv DEF Reads
  <2> QED
    BY <1>24, <2>2, <2>3, <2>4, Zenon DEF ReadSign, NoSign
<1>25. CASE CloseCloud
  <2>1. /\ handles = sockets /\ sockets = {"main", "p2p", "device"} /\ result = "running"
        /\ ~closedTwice
    BY <1>25, Zenon DEF SocketInv, CloseCloud, SocketsAccounted
  <2>2. /\ sockets' = sockets \ {"main", "p2p"} /\ handles' = handles \ {"main", "p2p"}
        /\ ~closedTwice' /\ pc' = "punch" /\ result' = "running"
    BY <1>25, <2>1, Zenon DEF CloseCloud, Close, HandlesAfterSign
  <2> QED
    BY <2>1, <2>2, Zenon DEF SocketInv, SocketsAccounted
<1> QED
  BY Zenon, <1>1, <1>2, <1>3, <1>4, <1>5, <1>6, <1>7, <1>8, <1>9, <1>10, <1>11, <1>12, <1>13,
     <1>14, <1>15, <1>16, <1>17, <1>18, <1>19, <1>20, <1>21, <1>22, <1>23, <1>24, <1>25 DEF Cloud

(* A direct attempt that fails starts the next one or fails the handshake. *)
LEMMA AttemptFailsKeepsInv ==
    ASSUME SocketInv, pc \in DirectLabels, AttemptFails
    PROVE  SocketInv'
<1>1. pc # "returned" /\ sockets = {"device"}
  BY Zenon DEF SocketInv, OpenAt, DirectLabels
<1>2. CASE Fail
  BY <1>1, <1>2, FailKeepsInv, Zenon
<1>3. CASE pc' = "punch" /\ UNCHANGED <<result, sockVars>>
  BY <1>1, <1>3, GotoKeepsInv
     DEF OpenAt, MainLabels, P2pLabels, AllLabels, DirectLabels
<1> QED
  BY <1>2, <1>3, Zenon DEF AttemptFails

(* Every step of the direct attempts. *)
LEMMA DirectKeepsInv ==
    ASSUME SocketInv, Direct
    PROVE  SocketInv'
<1>1. pc \in DirectLabels
  BY Zenon DEF Direct, Punch, AwaitPunch, Drain, SendSync, ReadSync, SendAuth, ReadAuth, NoAuth,
         SendFinal, ReadFinal, Settle, Succeed, SendDirect, DirectLabels
<1>2. pc # "returned" /\ sockets = {"device"} /\ handles = sockets /\ OpenAt(pc, sockets)
  BY <1>1, Zenon DEF SocketInv, OpenAt, DirectLabels
<1>3. CASE AttemptFails
  BY <1>1, <1>3, AttemptFailsKeepsInv, Zenon
<1>4. CASE pc' \in DirectLabels /\ UNCHANGED <<result, sockVars>>
  <2>1. OpenAt(pc', sockets)
    BY <1>2, <1>4, Zenon DEF OpenAt, MainLabels, P2pLabels, AllLabels, DirectLabels
  <2> QED
    BY <1>2, <1>4, <2>1, GotoKeepsInv, Zenon
<1>5. CASE Succeed
  BY <1>2, <1>5, Zenon DEF Succeed, SocketInv, SocketsAccounted
<1> QED
  BY <1>1, <1>3, <1>4, <1>5, Zenon
     DEF Direct, Punch, AwaitPunch, Drain, SendSync, ReadSync, SendAuth, ReadAuth, NoAuth,
         SendFinal, ReadFinal, Settle, SendDirect, Enter, Reads, Goto, DirectLabels

(* SocketInv holds in every reachable state. *)
LEMMA SocketsInductive == Spec => []SocketInv
<1>1. Init => SocketInv
  BY Zenon DEF Init, SocketInv, SocketsAccounted, OpenAt, MainLabels, P2pLabels, AllLabels,
         DirectLabels
<1>2. SocketInv /\ [Next]_vars => SocketInv'
  <2> SUFFICES ASSUME SocketInv, [Next]_vars PROVE SocketInv'
    BY Zenon
  <2>1. CASE Cloud
    BY <2>1, CloudKeepsInv, Zenon
  <2>2. CASE Direct
    BY <2>2, DirectKeepsInv, Zenon
  <2>3. CASE Network
    BY <2>3 DEF Network, Deliver, Repeat, sockVars, SocketInv, SocketsAccounted
  <2>4. CASE UNCHANGED vars
    BY <2>4, Zenon DEF vars, sockVars, SocketInv, SocketsAccounted
  <2> QED
    BY <2>1, <2>2, <2>3, <2>4, Zenon DEF Next
<1> QED
  BY <1>1, <1>2, PTL DEF Spec

(* For any limits on reads, attempts and repeats, Handshake leaves no      *)
(* socket open when it fails, exactly the device's when it succeeds, and   *)
(* closes none twice: the deferred cleanup of dh/handshake.go is exact.    *)
THEOREM SocketsExact == Spec => []SocketsAccounted
<1>1. SocketInv => SocketsAccounted
  BY Zenon DEF SocketInv
<1> QED
  BY <1>1, SocketsInductive, PTL

-----------------------------------------------------------------------------
(* What the network steps do to the queues, and type correctness *)

(* What a datagram may answer. *)
Re == DhAnswers \cup PtcpAnswers \cup {"natInfo", "stun"}

(* Recv returns the first datagram from the peer. *)
LEMMA FirstIsLeast ==
    ASSUME NEW set, HasFirst(set)
    PROVE  First(set) \in set /\ \A j \in set : First(set) <= j
BY Zenon DEF First, HasFirst

(* What is left of a buffer after datagram i was read or sent. *)
LEMMA Suffix ==
    ASSUME NEW S, NEW q \in Seq(S), NEW i \in 1..Len(q)
    PROVE  /\ SubSeq(q, i + 1, Len(q)) \in Seq(S)
           /\ Len(SubSeq(q, i + 1, Len(q))) = Len(q) - i
           /\ \A j \in 1..Len(q) - i : SubSeq(q, i + 1, Len(q))[j] = q[i + j]
OBVIOUS

(* The answers to a request are owed after those already owed, and carry   *)
(* the attempt that asked.                                                 *)
LEMMA OwedIs ==
    ASSUME TypeOK, NEW c \in Clients, NEW s \in Servers, NEW answers \in Seq(Re)
    PROVE  /\ Owed(c, s, answers) \in Seq(Datagrams)
           /\ Len(Owed(c, s, answers)) = Len(due[<<c, s>>]) + Len(answers)
           /\ \A i \in 1..Len(due[<<c, s>>]) : Owed(c, s, answers)[i] = due[<<c, s>>][i]
           /\ \A i \in 1..Len(answers) :
                 Owed(c, s, answers)[Len(due[<<c, s>>]) + i]
                     = [from |-> s, re |-> answers[i], n |-> attempt]
<1> DEFINE new == [i \in DOMAIN answers |-> [from |-> s, re |-> answers[i], n |-> attempt]]
           old == due[<<c, s>>]
<1>1. new \in Seq(Datagrams) /\ Len(new) = Len(answers)
  <2>1. \A i \in 1..Len(answers) : new[i] \in Datagrams
    BY DEF TypeOK, Datagrams, Re
  <2>2. new = [i \in 1..Len(answers) |-> new[i]]
    OBVIOUS
  <2> HIDE DEF new
  <2> QED BY <2>1, <2>2
<1>2. Owed(c, s, answers) = old \o new
  BY Zenon DEF Owed
<1>3. \A i \in 1..Len(answers) : new[i] = [from |-> s, re |-> answers[i], n |-> attempt]
  OBVIOUS
<1>4. old \in Seq(Datagrams) /\ Len(old) \in Nat /\ Len(new) \in Nat
  BY <1>1 DEF TypeOK
<1> HIDE DEF new, old
<1>5. /\ old \o new \in Seq(Datagrams)
      /\ Len(old \o new) = Len(old) + Len(new)
      /\ \A i \in 1..Len(old) : (old \o new)[i] = old[i]
      /\ \A i \in 1..Len(new) : (old \o new)[Len(old) + i] = new[i]
  <2>1. old \o new \in Seq(Datagrams) /\ Len(old \o new) = Len(old) + Len(new)
    BY <1>1, <1>4
  <2>2. \A i \in 1..Len(old) : (old \o new)[i] = old[i]
    BY <1>1, <1>4
  <2>3. \A i \in 1..Len(new) : (old \o new)[Len(old) + i] = new[i]
    BY <1>1, <1>4
  <2> QED BY <2>1, <2>2, <2>3, Zenon
<1> QED BY <1>1, <1>2, <1>3, <1>5, Zenon DEF old

(* A request extends one queue and leaves the others alone. *)
LEMMA OwingIs ==
    ASSUME TypeOK, NEW c \in Clients, NEW s \in Servers \cup {None}, NEW answers \in Seq(Re)
    PROVE  /\ Owing(c, s, answers) \in [Clients \X Servers -> Seq(Datagrams)]
           /\ \A link \in Clients \X Servers :
                 Owing(c, s, answers)[link] = IF link = <<c, s>> THEN Owed(c, s, answers)
                                                                ELSE due[link]
<1>1. due \in [Clients \X Servers -> Seq(Datagrams)]
  BY Zenon DEF TypeOK
<1>2. CASE s \in Servers
  <2>1. Owed(c, s, answers) \in Seq(Datagrams)
    BY <1>2, OwedIs, Zenon
  <2> QED BY <1>1, <1>2, <2>1, Zenon DEF Owing
<1>3. CASE s \notin Servers
  <2>1. <<c, s>> \notin Clients \X Servers
    BY <1>3, Zenon
  <2>2. Owing(c, s, answers) = due
    BY <1>1, <2>1, Zenon DEF Owing
  <2> QED BY <1>1, <2>1, <2>2, Zenon
<1> QED BY <1>2, <1>3, Zenon

(* Taking datagram i out of a client's buffer, and all before it. *)
Taken(c, i) ==
    /\ inbox' \in [Clients -> Seq(Datagrams)]
    /\ \A d \in Clients \ {c} : inbox'[d] = inbox[d]
    /\ Len(inbox'[c]) = Len(inbox[c]) - i
    /\ \A j \in 1..Len(inbox[c]) - i : inbox'[c][j] = inbox[c][i + j]

(* After(c, i) takes the first i datagrams from the buffer of c. *)
LEMMA AfterTakes ==
    ASSUME TypeOK, NEW c \in Clients, NEW i \in 1..Len(inbox[c]), inbox' = After(c, i)
    PROVE  Taken(c, i)
<1>1. inbox \in [Clients -> Seq(Datagrams)] /\ inbox[c] \in Seq(Datagrams)
  BY Zenon DEF TypeOK
<1>2. inbox' = [inbox EXCEPT ![c] = SubSeq(inbox[c], i + 1, Len(inbox[c]))]
  BY <1>1, Zenon DEF After
<1>3. /\ SubSeq(inbox[c], i + 1, Len(inbox[c])) \in Seq(Datagrams)
      /\ Len(SubSeq(inbox[c], i + 1, Len(inbox[c]))) = Len(inbox[c]) - i
      /\ \A j \in 1..Len(inbox[c]) - i :
            SubSeq(inbox[c], i + 1, Len(inbox[c]))[j] = inbox[c][i + j]
  BY <1>1, Suffix, Zenon
<1>4. inbox'[c] = SubSeq(inbox[c], i + 1, Len(inbox[c]))
  BY <1>1, <1>2, Zenon
<1> QED BY <1>1, <1>2, <1>3, <1>4, Zenon DEF Taken

(* Recv returns a datagram from the peer and drops the ones before it. *)
LEMMA ReceivedTakes ==
    ASSUME TypeOK, NEW c \in Clients, Received(c)
    PROVE  \E i \in 1..Len(inbox[c]) :
              /\ Arrival(c) = inbox[c][i] /\ inbox[c][i].from = raddr[c]
              /\ Taken(c, i)
<1>1. inbox[c] \in Seq(Datagrams)
  BY Zenon DEF TypeOK
<1>3. First(FromPeer(c)) \in FromPeer(c)
  BY FirstIsLeast, Zenon DEF Received
<1>4. /\ First(FromPeer(c)) \in 1..Len(inbox[c])
      /\ inbox[c][First(FromPeer(c))].from = raddr[c]
  BY <1>1, <1>3 DEF FromPeer, SameUDPAddr
<1>5. Taken(c, First(FromPeer(c)))
  BY <1>4, AfterTakes, Zenon DEF Received
<1> QED BY <1>4, <1>5, Zenon DEF Arrival

(* A timeout has emptied the buffer. *)
LEMMA TimedOutEmpties ==
    ASSUME TypeOK, NEW c \in Clients, TimedOut(c)
    PROVE  /\ inbox' \in [Clients -> Seq(Datagrams)] /\ inbox'[c] = <<>>
           /\ \A d \in Clients \ {c} : inbox'[d] = inbox[d]
BY DEF TypeOK, TimedOut

(* A delivery moves datagram i of a queue to the buffer. *)
LEMMA ArrivesAppends ==
    ASSUME TypeOK, NEW c \in Clients, NEW s \in Servers, NEW i \in 1..Len(due[<<c, s>>]),
           Arrives(c, s, i)
    PROVE  /\ inbox' \in [Clients -> Seq(Datagrams)]
           /\ \A d \in Clients \ {c} : inbox'[d] = inbox[d]
           /\ Len(inbox'[c]) = Len(inbox[c]) + 1
           /\ \A j \in 1..Len(inbox[c]) : inbox'[c][j] = inbox[c][j]
           /\ inbox'[c][Len(inbox[c]) + 1] = due[<<c, s>>][i]
<1>1. inbox \in [Clients -> Seq(Datagrams)] /\ due[<<c, s>>] \in Seq(Datagrams)
  BY Zenon DEF TypeOK
<1>2. inbox' = [inbox EXCEPT ![c] = Append(inbox[c], due[<<c, s>>][i])]
  BY <1>1, Zenon DEF Arrives
<1>3. inbox[c] \in Seq(Datagrams) /\ due[<<c, s>>][i] \in Datagrams
  BY <1>1
<1>4. inbox'[c] = Append(inbox[c], due[<<c, s>>][i])
  BY <1>1, <1>2, Zenon
<1> QED BY <1>1, <1>2, <1>3, <1>4

(* And leaves the rest of the queue. *)
LEMMA DeliverLeaves ==
    ASSUME TypeOK, NEW c \in Clients, NEW s \in Servers, NEW i \in 1..Len(due[<<c, s>>]),
           Deliver(c, s, i)
    PROVE  /\ due' \in [Clients \X Servers -> Seq(Datagrams)]
           /\ \A link \in Clients \X Servers : link # <<c, s>> => due'[link] = due[link]
           /\ Len(due'[<<c, s>>]) = Len(due[<<c, s>>]) - i
           /\ \A j \in 1..Len(due[<<c, s>>]) - i : due'[<<c, s>>][j] = due[<<c, s>>][i + j]
<1> DEFINE q == due[<<c, s>>]
<1>1. due \in [Clients \X Servers -> Seq(Datagrams)] /\ q \in Seq(Datagrams)
      /\ <<c, s>> \in Clients \X Servers
  BY Zenon DEF TypeOK
<1>2. due' = [due EXCEPT ![<<c, s>>] = SubSeq(q, i + 1, Len(q))]
  BY <1>1, Zenon DEF Deliver
<1>3. /\ SubSeq(q, i + 1, Len(q)) \in Seq(Datagrams)
      /\ Len(SubSeq(q, i + 1, Len(q))) = Len(q) - i
      /\ \A j \in 1..Len(q) - i : SubSeq(q, i + 1, Len(q))[j] = q[i + j]
  BY <1>1, Suffix, Zenon
<1>4. due'[<<c, s>>] = SubSeq(q, i + 1, Len(q))
  BY <1>1, <1>2, Zenon
<1> HIDE DEF q
<1>5. /\ due' \in [Clients \X Servers -> Seq(Datagrams)]
      /\ \A link \in Clients \X Servers : link # <<c, s>> => due'[link] = due[link]
  BY <1>1, <1>2, <1>3, Zenon
<1> QED BY <1>3, <1>4, <1>5, Zenon DEF q

(* TypeOK without the label, which SocketInv has. *)
ControlOK ==
    /\ reads \in Nat /\ attempt \in 0..DirectRetries
    /\ result \in {"running", "ok", "failed"}
    /\ handles \subseteq Clients /\ sockets \subseteq Clients
    /\ localAddr \in {"lan", None}
    /\ closedTwice \in BOOLEAN
    /\ syncOf \in 0..DirectRetries /\ authOf \in 0..DirectRetries

(* The part of TypeOK that is about the sockets and the network. *)
NetOK ==
    /\ raddr \in [Clients -> Servers \cup {None}]
    /\ inbox \in [Clients -> Seq(Datagrams)]
    /\ due \in [Clients \X Servers -> Seq(Datagrams)]
    /\ repeats \in 0..MaxRepeats
    /\ mismatched \in BOOLEAN

(* The two parts of TypeOK. *)
LEMMA TypeSplit == TypeOK => ControlOK /\ NetOK
BY Zenon DEF TypeOK, ControlOK, NetOK

(* The ways a step of Handshake goes on, or ends it. *)
LEMMA ControlKept ==
    ASSUME TypeOK,
           \/ Fail \/ AttemptFails \/ \E label : Goto(label) \/ Enter(label)
           \/ \E k \in Nat : Reads(k)
    PROVE  ControlOK'
<1> USE TypeSplit, HandshakeAssumption DEF ControlOK, sockVars, authVars
<1>1. CASE Fail
  <2>1. closedTwice' \in BOOLEAN
    BY <1>1, Zenon DEF Fail, Close
  <2> QED BY <1>1, <2>1, Zenon DEF Fail, Close
<1>2. CASE AttemptFails /\ ~Fail
  BY <1>2 DEF AttemptFails
<1>3. ASSUME NEW label, Goto(label) PROVE ControlOK'
  BY <1>3, Zenon DEF Goto
<1>4. ASSUME NEW label, Enter(label) PROVE ControlOK'
  BY <1>4, Zenon DEF Enter
<1>5. ASSUME NEW k \in Nat, Reads(k) PROVE ControlOK'
  BY <1>5, Zenon DEF Reads
<1> QED BY <1>1, <1>2, <1>3, <1>4, <1>5, Zenon

(* Request, Read and Open keep the types. *)
LEMMA RequestType ==
    ASSUME TypeOK, NEW label, NEW c \in Clients, NEW s \in Servers, NEW answers \in Seq(Re),
           NEW next, Request(label, c, s, answers, next)
    PROVE  ControlOK' /\ NetOK'
<1>1. ControlOK'
  BY ControlKept, Zenon DEF Request
<1>2. due' \in [Clients \X Servers -> Seq(Datagrams)]
  <2>1. Owing(c, s, answers) \in [Clients \X Servers -> Seq(Datagrams)]
    BY OwingIs, Zenon
  <2> QED BY <2>1, TypeSplit, Zenon DEF Request, NetOK
<1>3. raddr' \in [Clients -> Servers \cup {None}] /\ UNCHANGED <<inbox, repeats, mismatched>>
  BY TypeSplit, Zenon DEF Request, NetOK
<1> QED BY <1>1, <1>2, <1>3, TypeSplit, Zenon DEF NetOK

(* A read, or its timeout, leaves sequences of datagrams. *)
LEMMA InboxType ==
    ASSUME TypeOK, NEW c \in Clients, Received(c) \/ TimedOut(c)
    PROVE  inbox' \in [Clients -> Seq(Datagrams)]
BY ReceivedTakes, TimedOutEmpties, Zenon DEF Taken

(* A read keeps the types. *)
LEMMA ReadType ==
    ASSUME TypeOK, NEW label, NEW c \in Clients, NEW serving, NEW expected, NEW next,
           Read(label, c, serving, expected, next)
    PROVE  ControlOK' /\ NetOK'
<1>1. ControlOK'
  BY ControlKept, Zenon DEF Read
<1>2. inbox' \in [Clients -> Seq(Datagrams)]
  BY InboxType, Zenon DEF Read
<1>3. mismatched' \in BOOLEAN /\ UNCHANGED <<raddr, due, repeats>>
  BY TypeSplit, Zenon DEF Read, NetOK
<1> QED BY <1>1, <1>2, <1>3, TypeSplit, Zenon DEF NetOK

(* Opening and connecting a socket keeps the types. *)
LEMMA OpenType ==
    ASSUME TypeOK, NEW label, NEW c \in Clients, NEW s \in Servers, NEW next,
           Open(label, c, s, next)
    PROVE  ControlOK' /\ NetOK'
<1>1. CASE Fail
  BY <1>1, ControlKept, TypeSplit, Zenon DEF Open, NetOK, netVars
<1>2. CASE ~Fail
  BY <1>2, TypeSplit, Zenon DEF Open, ControlOK, NetOK, netVars, authVars
<1> QED BY <1>1, <1>2, Zenon

(* Every step of the exchanges with the cloud. *)
LEMMA CloudType ==
    ASSUME TypeOK, Cloud
    PROVE  ControlOK' /\ NetOK'
<1>0. /\ \A a \in Re : <<a>> \in Seq(Re)
      /\ \A a, b \in Re : <<a, b>> \in Seq(Re)
  OBVIOUS
<1>1. CASE OpenMain \/ OpenP2p \/ OpenDevice
  BY <1>1, OpenType, Zenon DEF OpenMain, OpenP2p, OpenDevice, Clients, Servers
<1>2. CASE ProbeP2psrv \/ OnlineP2psrv \/ ProbeDevice \/ InfoDevice \/ OnlineRelay
  BY <1>0, <1>2, RequestType, Zenon
     DEF ProbeP2psrv, OnlineP2psrv, ProbeDevice, InfoDevice, OnlineRelay, Clients, Servers, Re,
         DhAnswers
<1>3. CASE RequestChannel \/ RelayAgent \/ RelayStart \/ AgentSync \/ RequestSign
  BY <1>0, <1>3, RequestType, Zenon
     DEF RequestChannel, RelayAgent, RelayStart, AgentSync, RequestSign, Clients, Servers, Re,
         DhAnswers, PtcpAnswers
<1>4. CASE ReadProbe \/ ReadP2psrv \/ ReadProbeDevice \/ ReadInfo \/ ReadRelay
  BY <1>4, ReadType, Zenon DEF ReadProbe, ReadP2psrv, ReadProbeDevice, ReadInfo, ReadRelay, Clients
<1>5. CASE ReadAgent \/ ReadStart \/ ReadAgentSync
  BY <1>5, ReadType, Zenon DEF ReadAgent, ReadStart, ReadAgentSync, Clients
<1>6. CASE ReadChannel \/ ReadFinalChannel
  <2>1. inbox' \in [Clients -> Seq(Datagrams)] /\ UNCHANGED <<due, repeats>>
    BY <1>6, InboxType, Zenon DEF ReadChannel, ReadFinalChannel, Clients
  <2>2. raddr' \in [Clients -> Servers \cup {None}]
    BY <1>6, TypeSplit, Zenon DEF ReadChannel, ReadFinalChannel, UseChannel, NetOK, Clients, Servers
  <2>3. mismatched' \in BOOLEAN
    BY <1>6, TypeSplit, Zenon DEF ReadChannel, ReadFinalChannel, UseChannel, NetOK
  <2>4. NetOK'
    BY <2>1, <2>2, <2>3, TypeSplit, Zenon DEF NetOK
  <2>5. CASE Fail \/ Goto("readFinalChannel")
    BY <2>4, <2>5, ControlKept, Zenon
  <2>6. CASE localAddr' \in {"lan", None} /\ UNCHANGED <<result, sockVars, reads, attempt, authVars>>
    BY <2>4, <2>6, TypeSplit, Zenon DEF ControlOK, sockVars, authVars
  <2> QED
    BY <1>6, <2>5, <2>6, Zenon DEF ReadChannel, ReadFinalChannel, UseChannel
<1>7. CASE RelayChannel
  <2>1. ControlOK'
    BY <1>7, ControlKept, Zenon DEF RelayChannel
  <2>2. raddr' \in [Clients -> Servers \cup {None}] /\ UNCHANGED <<inbox, repeats, mismatched>>
    BY <1>7, TypeSplit, Zenon DEF RelayChannel, NetOK, Servers
  <2>3. /\ Owed("p2p", "main", <<"relayChannel">>) \in Seq(Datagrams)
        /\ Owed("p2p", "agent", <<"natInfo">>) \in Seq(Datagrams)
    BY <1>0, OwedIs, Zenon DEF Clients, Servers, Re, DhAnswers
  <2>4. due' \in [Clients \X Servers -> Seq(Datagrams)]
    BY <1>7, <2>3, TypeSplit, Zenon DEF RelayChannel, NetOK
  <2> QED BY <2>1, <2>2, <2>4, TypeSplit, Zenon DEF NetOK
<1>8. CASE ReadNatInfo
  <2>1. ControlOK'
    BY <1>8, ControlKept, Zenon DEF ReadNatInfo
  <2>2. inbox' \in [Clients -> Seq(Datagrams)]
    BY <1>8, InboxType, Zenon DEF ReadNatInfo, Clients
  <2>3. mismatched' \in BOOLEAN /\ UNCHANGED <<raddr, due, repeats>>
    BY <1>8, TypeSplit, Zenon DEF ReadNatInfo, NetOK
  <2> QED BY <2>1, <2>2, <2>3, TypeSplit, Zenon DEF NetOK
<1>9. CASE ReadSign
  <2>1. ControlOK'
    <3>1. reads + 1 \in Nat
      BY TypeSplit DEF ControlOK
    <3> QED BY <1>9, <3>1, ControlKept, Zenon DEF ReadSign
  <2>2. inbox' \in [Clients -> Seq(Datagrams)]
    BY <1>9, InboxType, Zenon DEF ReadSign, Clients
  <2>3. due' \in [Clients \X Servers -> Seq(Datagrams)]
    <3>1. raddr["p2p"] \in Servers \cup {None} /\ "p2p" \in Clients /\ <<"ack", "sign">> \in Seq(Re)
      BY <1>0, TypeSplit, Zenon DEF NetOK, Clients, Re, PtcpAnswers
    <3>2. Owing("p2p", raddr["p2p"], <<"ack", "sign">>) \in [Clients \X Servers -> Seq(Datagrams)]
      BY <3>1, OwingIs, Zenon
    <3> QED BY <1>9, <3>2, TypeSplit, Zenon DEF ReadSign, NetOK
  <2>4. UNCHANGED <<raddr, repeats, mismatched>>
    BY <1>9, Zenon DEF ReadSign
  <2> QED BY <2>1, <2>2, <2>3, <2>4, TypeSplit, Zenon DEF NetOK
<1>10. CASE NoSign
  BY <1>10, ControlKept, TypeSplit, Zenon DEF NoSign, NetOK, netVars
<1>11. CASE CloseCloud
  <2>1. closedTwice' \in BOOLEAN
    BY <1>11, Zenon DEF CloseCloud, Close
  <2>2. ControlOK'
    BY <1>11, <2>1, TypeSplit, HandshakeAssumption
       DEF CloseCloud, Close, HandlesAfterSign, ControlOK, authVars
  <2>3. NetOK'
    <3>1. inbox' \in [Clients -> Seq(Datagrams)]
      <4>1. <<>> \in Seq(Datagrams)
        OBVIOUS
      <4> QED BY <1>11, <4>1, TypeSplit, Zenon DEF CloseCloud, NetOK, Clients
    <3>2. due' \in [Clients \X Servers -> Seq(Datagrams)]
      BY <1>11, TypeSplit DEF CloseCloud, NetOK
    <3>3. UNCHANGED <<raddr, repeats, mismatched>>
      BY <1>11, Zenon DEF CloseCloud
    <3> QED BY <3>1, <3>2, <3>3, TypeSplit, Zenon DEF NetOK
  <2> QED BY <2>2, <2>3, Zenon
<1> QED
  BY <1>1, <1>2, <1>3, <1>4, <1>5, <1>6, <1>7, <1>8, <1>9, <1>10, <1>11, Zenon DEF Cloud

(* A send of a direct attempt. *)
LEMMA SendDirectType ==
    ASSUME TypeOK, NEW label, NEW answers \in Seq(Re), NEW next,
           SendDirect(label, answers, next)
    PROVE  ControlOK' /\ NetOK'
<1>1. ControlOK'
  BY ControlKept, Zenon DEF SendDirect
<1>2. due' \in [Clients \X Servers -> Seq(Datagrams)]
  <2>1. peer \in Servers \cup {None} /\ device \in Clients
    BY TypeSplit, Zenon DEF NetOK, peer, Clients
  <2>2. Owing(device, peer, answers) \in [Clients \X Servers -> Seq(Datagrams)]
    BY <2>1, OwingIs, Zenon
  <2> QED BY <2>2, TypeSplit, Zenon DEF SendDirect, NetOK
<1>3. UNCHANGED <<raddr, inbox, repeats, mismatched>>
  BY Zenon DEF SendDirect
<1> QED BY <1>1, <1>2, <1>3, TypeSplit, Zenon DEF NetOK

(* Queue q of server s grows to r by datagrams that carry attempt a. *)
GrownBy(q, r, s, a) ==
    /\ r \in Seq(Datagrams) /\ Len(r) >= Len(q)
    /\ \A i \in 1..Len(q) : r[i] = q[i]
    /\ \A i \in Len(q) + 1..Len(r) : r[i].from = s /\ r[i].n = a

(* r is the queue of a link after a step that only adds answers to it. *)
Grown(link, r) == GrownBy(due[link], r, link[2], attempt)

(* Owing grows the queue of the server that was asked. *)
LEMMA OwingGrows ==
    ASSUME TypeOK, NEW c \in Clients, NEW s \in Servers \cup {None}, NEW answers \in Seq(Re),
           NEW link \in Clients \X Servers
    PROVE  Grown(link, Owing(c, s, answers)[link])
<1>1. due[link] \in Seq(Datagrams)
  BY TypeSplit, Zenon DEF NetOK
<1>2. CASE link = <<c, s>>
  <2>1. s \in Servers /\ link[2] = s
    BY <1>2, Zenon
  <2>2. Owing(c, s, answers)[link] = Owed(c, s, answers)
    BY <1>2, OwingIs, Zenon
  <2> DEFINE q == Owed(c, s, answers)
  <2>3. /\ q \in Seq(Datagrams) /\ Len(q) = Len(due[link]) + Len(answers)
        /\ \A i \in 1..Len(due[link]) : q[i] = due[link][i]
        /\ \A i \in 1..Len(answers) :
              q[Len(due[link]) + i] = [from |-> s, re |-> answers[i], n |-> attempt]
    BY <1>2, <2>1, OwedIs, Zenon
  <2> HIDE DEF q
  <2>4. ASSUME NEW i \in Len(due[link]) + 1..Len(q)
        PROVE  q[i].from = link[2] /\ q[i].n = attempt
    <3>1. i - Len(due[link]) \in 1..Len(answers) /\ Len(due[link]) + (i - Len(due[link])) = i
      BY <1>1, <2>3
    <3>2. q[i] = [from |-> s, re |-> answers[i - Len(due[link])], n |-> attempt]
      BY <2>3, <3>1, Zenon
    <3> QED BY <2>1, <3>2
  <2>5. Len(q) >= Len(due[link])
    BY <1>1, <2>3
  <2> QED BY <2>2, <2>3, <2>4, <2>5, Zenon DEF Grown, GrownBy, q
<1>3. CASE link # <<c, s>>
  <2>1. Owing(c, s, answers)[link] = due[link]
    BY <1>3, OwingIs, Zenon
  <2> QED BY <1>1, <2>1 DEF Grown, GrownBy
<1> QED BY <1>2, <1>3, Zenon

(* The STUN requests of Punch: each address asked owes one more datagram. *)
LEMMA PunchGrows ==
    ASSUME TypeOK, Punch
    PROVE  /\ due' \in [Clients \X Servers -> Seq(Datagrams)]
           /\ \A link \in Clients \X Servers : Grown(link, due'[link])
<1> DEFINE sent == Owing(device, peer, <<"stun">>)
           stun == [from |-> localAddr, re |-> "stun", n |-> attempt]
<1>1. /\ sent \in [Clients \X Servers -> Seq(Datagrams)]
      /\ \A link \in Clients \X Servers : Grown(link, sent[link])
  <2>1. peer \in Servers \cup {None} /\ device \in Clients /\ <<"stun">> \in Seq(Re)
    BY TypeSplit DEF NetOK, peer, Clients, Re
  <2> QED BY <2>1, OwingIs, OwingGrows, Zenon
<1>2. /\ due \in [Clients \X Servers -> Seq(Datagrams)]
      /\ \A link \in Clients \X Servers : Grown(link, due[link])
  BY TypeSplit DEF NetOK, Grown, GrownBy
<1>3. CASE due' = sent \/ due' = due
  BY <1>1, <1>2, <1>3, Zenon
<1>4. CASE /\ localAddr # None
           /\ due' = [sent EXCEPT ![<<device, localAddr>>] = Append(@, stun)]
  <2>1. localAddr = "lan" /\ <<device, localAddr>> \in Clients \X Servers
    BY <1>4, TypeSplit, Zenon DEF ControlOK, Clients, Servers
  <2>2. stun \in Datagrams /\ stun.from = localAddr /\ stun.n = attempt
    BY <2>1, TypeSplit, Zenon DEF ControlOK, Datagrams, Servers
  <2> HIDE DEF sent, stun
  <2>3. due' \in [Clients \X Servers -> Seq(Datagrams)]
    BY <1>1, <1>4, <2>1, <2>2
  <2>4. ASSUME NEW link \in Clients \X Servers PROVE Grown(link, due'[link])
    <3>1. CASE link # <<device, localAddr>>
      BY <1>1, <1>4, <2>1, <3>1, Zenon
    <3>2. CASE link = <<device, localAddr>>
      <4> DEFINE q == sent[link]
      <4>1. due'[link] = Append(q, stun) /\ link[2] = localAddr
        BY <1>1, <1>4, <2>1, <3>2, Zenon
      <4>2. Grown(link, q) /\ q \in Seq(Datagrams) /\ due[link] \in Seq(Datagrams)
        BY <1>1, <1>2, Zenon
      <4> HIDE DEF q
      <4>3. Grown(link, Append(q, stun))
        BY <2>2, <4>1, <4>2 DEF Grown, GrownBy
      <4> QED BY <4>1, <4>3, Zenon
    <3> QED BY <3>1, <3>2, Zenon
  <2> QED BY <2>3, <2>4, Zenon
<1> QED BY <1>3, <1>4, Zenon DEF Punch

(* AwaitPunch takes the first datagram from the peer or the LAN address. *)
LEMMA AwaitTakes ==
    ASSUME TypeOK, HasFirst(Answering), inbox' = After(device, First(Answering))
    PROVE  /\ First(Answering) \in 1..Len(inbox[device])
           /\ inbox[device][First(Answering)] \in Datagrams
           /\ Taken(device, First(Answering))
<1>1. inbox[device] \in Seq(Datagrams) /\ device \in Clients
  BY TypeSplit, Zenon DEF NetOK, Clients
<1>3. First(Answering) \in Answering
  BY FirstIsLeast, Zenon
<1>4. First(Answering) \in 1..Len(inbox[device])
  BY <1>1, <1>3 DEF Answering
<1> QED BY <1>1, <1>4, AfterTakes

(* Every step of the direct attempts. *)
LEMMA DirectType ==
    ASSUME TypeOK, Direct
    PROVE  ControlOK' /\ NetOK'
<1>0. /\ \A a \in Re : <<a>> \in Seq(Re)
      /\ \A a, b \in Re : <<a, b>> \in Seq(Re)
      /\ reads + 1 \in Nat /\ {StunDrain, FinalDrain} \subseteq Nat /\ device \in Clients
  BY TypeSplit, HandshakeAssumption DEF ControlOK, Clients
<1>1. CASE SendSync \/ SendAuth \/ SendFinal
  BY <1>0, <1>1, SendDirectType, Zenon DEF SendSync, SendAuth, SendFinal, Re, PtcpAnswers
<1>2. CASE Punch
  <2>1. ControlOK' /\ UNCHANGED <<raddr, inbox, repeats, mismatched>>
    BY <1>2, ControlKept, Zenon DEF Punch
  <2> QED BY <1>2, <2>1, PunchGrows, TypeSplit, Zenon DEF NetOK
<1>3. CASE AwaitPunch
  <2>1. ControlOK'
    BY <1>3, ControlKept, Zenon DEF AwaitPunch
  <2>2. UNCHANGED <<repeats, mismatched>>
    BY <1>3, Zenon DEF AwaitPunch
  <2>3. CASE inbox' = [inbox EXCEPT ![device] = <<>>] /\ UNCHANGED <<raddr, due>>
    <3>1. <<>> \in Seq(Datagrams)
      OBVIOUS
    <3>2. inbox' \in [Clients -> Seq(Datagrams)]
      BY <2>3, <3>1, TypeSplit, Zenon DEF NetOK
    <3> QED BY <2>1, <2>2, <2>3, <3>2, TypeSplit, Zenon DEF NetOK
  <2>4. CASE /\ HasFirst(Answering) /\ inbox' = After(device, First(Answering))
             /\ raddr' = [raddr EXCEPT ![device] = inbox[device][First(Answering)].from]
             /\ \/ due' = Owing(device, inbox[device][First(Answering)].from, <<"stun">>)
                \/ UNCHANGED due
    <3> DEFINE d == inbox[device][First(Answering)]
    <3>0. d \in Datagrams /\ Taken(device, First(Answering))
      BY <2>4, AwaitTakes, Zenon
    <3>1. inbox' \in [Clients -> Seq(Datagrams)] /\ d.from \in Servers
      BY <3>0, Zenon DEF Taken, Datagrams
    <3>2. <<"stun">> \in Seq(Re)
      BY <1>0, Zenon DEF Re
    <3>3. Owing(device, d.from, <<"stun">>) \in [Clients \X Servers -> Seq(Datagrams)]
      BY <1>0, <3>1, <3>2, OwingIs, Zenon
    <3>4. due' \in [Clients \X Servers -> Seq(Datagrams)]
      BY <2>4, <3>3, TypeSplit, Zenon DEF NetOK
    <3>5. raddr' \in [Clients -> Servers \cup {None}]
      BY <2>4, <3>1, TypeSplit, Zenon DEF NetOK
    <3> QED BY <2>1, <2>2, <3>1, <3>4, <3>5, TypeSplit, Zenon DEF NetOK
  <2> QED BY <1>3, <2>3, <2>4, Zenon DEF AwaitPunch
<1>4. CASE Drain \/ Settle \/ ReadFinal
  <2>1. ControlOK'
    BY <1>0, <1>4, ControlKept, Zenon DEF Drain, Settle, ReadFinal
  <2>2. inbox' \in [Clients -> Seq(Datagrams)] /\ UNCHANGED <<due, raddr, repeats, mismatched>>
    BY <1>0, <1>4, InboxType, Zenon DEF Drain, Settle, ReadFinal
  <2> QED BY <2>1, <2>2, TypeSplit, Zenon DEF NetOK
<1>5. CASE ReadSync \/ ReadAuth
  <2>1. inbox' \in [Clients -> Seq(Datagrams)] /\ UNCHANGED <<due, raddr, repeats, mismatched>>
    BY <1>0, <1>5, InboxType, Zenon DEF ReadSync, ReadAuth
  <2>2. NetOK'
    BY <2>1, TypeSplit, Zenon DEF NetOK
  <2>3. CASE AttemptFails \/ Reads(reads + 1)
    BY <1>0, <2>2, <2>3, ControlKept, Zenon
  <2>4. CASE /\ Received(device)
             /\ \/ syncOf' = Arrival(device).n /\ UNCHANGED authOf
                \/ authOf' = Arrival(device).n /\ UNCHANGED syncOf
             /\ reads' \in {0, reads} /\ UNCHANGED <<result, sockVars, attempt, localAddr>>
    <3>1. Arrival(device).n \in 0..DirectRetries
      <4>1. PICK i \in 1..Len(inbox[device]) : Arrival(device) = inbox[device][i]
        BY <1>0, <2>4, ReceivedTakes, Zenon
      <4>2. inbox[device][i] \in Datagrams
        BY <1>0, TypeSplit DEF NetOK
      <4> QED BY <4>1, <4>2, Zenon DEF Datagrams
    <3> QED BY <2>2, <2>4, <3>1, TypeSplit DEF ControlOK, sockVars
  <2> QED BY <1>5, <2>3, <2>4, Zenon DEF ReadSync, ReadAuth, ReadsAfterTimeout
<1>6. CASE NoAuth
  BY <1>6, ControlKept, TypeSplit, Zenon DEF NoAuth, NetOK, netVars
<1>7. CASE Succeed
  BY <1>7, TypeSplit, Zenon DEF Succeed, ControlOK, NetOK, netVars, authVars
<1> QED BY <1>1, <1>2, <1>3, <1>4, <1>5, <1>6, <1>7, Zenon DEF Direct

(* The network moves datagrams and makes none up. *)
LEMMA NetworkType ==
    ASSUME TypeOK, Network
    PROVE  ControlOK' /\ NetOK'
<1> PICK c \in Clients, s \in Servers :
        \E i \in DOMAIN due[<<c, s>>] : Deliver(c, s, i) \/ Repeat(c, s, i)
  BY Zenon DEF Network
<1> PICK i \in DOMAIN due[<<c, s>>] : Deliver(c, s, i) \/ Repeat(c, s, i)
  BY Zenon
<1>0. due[<<c, s>>] \in Seq(Datagrams) /\ i \in 1..Len(due[<<c, s>>])
  BY TypeSplit DEF NetOK
<1>1. ControlOK' /\ UNCHANGED <<raddr, mismatched>>
  BY TypeSplit, Zenon DEF Deliver, Repeat, ControlOK, sockVars, authVars
<1>2. inbox' \in [Clients -> Seq(Datagrams)]
  BY <1>0, ArrivesAppends, Zenon DEF Deliver, Repeat
<1>3. CASE Deliver(c, s, i)
  <2>1. due' \in [Clients \X Servers -> Seq(Datagrams)] /\ UNCHANGED repeats
    BY <1>0, <1>3, DeliverLeaves, Zenon DEF Deliver
  <2> QED BY <1>1, <1>2, <2>1, TypeSplit, Zenon DEF NetOK
<1>4. CASE Repeat(c, s, i)
  <2>1. SubSeq(due[<<c, s>>], i, Len(due[<<c, s>>])) \in Seq(Datagrams)
    BY <1>0
  <2>2. due' \in [Clients \X Servers -> Seq(Datagrams)]
    BY <1>4, <2>1, TypeSplit, Zenon DEF Repeat, NetOK
  <2>3. repeats' \in 0..MaxRepeats
    BY <1>4, TypeSplit, HandshakeAssumption DEF Repeat, NetOK
  <2> QED BY <1>1, <1>2, <2>2, <2>3, TypeSplit, Zenon DEF NetOK
<1> QED BY <1>3, <1>4, Zenon

(* Every variable of the handshake keeps its type; in particular every     *)
(* datagram a client may read was sent to it by one of the servers.        *)
THEOREM TypeCorrect == Spec => []TypeOK
<1>1. Init => TypeOK
  <2> SUFFICES ASSUME Init PROVE TypeOK
    BY Zenon
  <2>1. <<>> \in Seq(Datagrams)
    OBVIOUS
  <2>2. /\ raddr \in [Clients -> Servers \cup {None}]
        /\ inbox \in [Clients -> Seq(Datagrams)]
        /\ due \in [Clients \X Servers -> Seq(Datagrams)]
    BY <2>1, Zenon DEF Init
  <2>3. /\ attempt \in 0..DirectRetries /\ reads \in Nat /\ repeats \in 0..MaxRepeats
        /\ syncOf \in 0..DirectRetries /\ authOf \in 0..DirectRetries
        /\ pc \in CloudLabels \cup DirectLabels \cup {"returned"}
    BY HandshakeAssumption DEF Init, CloudLabels
  <2> QED BY <2>2, <2>3, Zenon DEF Init, TypeOK
<1>2. TypeOK /\ SocketInv' /\ [Next]_vars => TypeOK'
  <2> SUFFICES ASSUME TypeOK, SocketInv', [Next]_vars PROVE TypeOK'
    BY Zenon
  <2>1. ControlOK' /\ NetOK'
    BY CloudType, DirectType, NetworkType, TypeSplit, Zenon
       DEF Next, vars, sockVars, netVars, authVars, ControlOK, NetOK
  <2>2. pc' \in CloudLabels \cup DirectLabels \cup {"returned"}
    BY Zenon DEF SocketInv, MainLabels, P2pLabels, AllLabels, CloudLabels
  <2> QED BY <2>1, <2>2, Zenon DEF TypeOK, ControlOK, NetOK
<1> QED BY <1>1, <1>2, SocketsInductive, PTL DEF Spec

-----------------------------------------------------------------------------
(* Requests and answers before the direct attempts *)

(* At label, client c waits for server s to answer re. *)
Waits(label, c, s, re) ==
    <<label, c, s, re>> \in
        {<<"readProbe", "main", "main", "probe">>,
         <<"readP2psrv", "main", "main", "p2psrv">>,
         <<"readProbeDevice", "p2p", "p2psrv", "probeDevice">>,
         <<"readInfo", "p2p", "p2psrv", "info">>,
         <<"readRelay", "main", "main", "relay">>,
         <<"readAgent", "p2p", "relay", "agent">>,
         <<"readStart", "p2p", "agent", "start">>,
         <<"readNatInfo", "p2p", "agent", "natInfo">>,
         <<"readAgentSync", "p2p", "agent", "sync">>}

(* The labels before the sign is asked for. *)
BeforeSign == CloudLabels \ {"sign", "readSign", "closeCloud"}

(* The main server's answer to the relay-channel request, which nobody     *)
(* reads.                                                                  *)
Stray(c, s) == c = "p2p" /\ s = "main"

(* The clients of the cloud. *)
Cloudy == {"main", "p2p"}

(* Of server s, a client has received in buf, or will receive from q, at   *)
(* most one datagram: the answer it waits for.                             *)
Awaited(label, c, s, buf, q) ==
    /\ \A i \in DOMAIN buf : buf[i].from = s => Waits(label, c, s, buf[i].re)
    /\ \A i \in DOMAIN q : Waits(label, c, s, q[i].re)
    /\ \A i, j \in DOMAIN buf : buf[i].from = s /\ buf[j].from = s => i = j
    /\ Len(q) <= 1
    /\ (\E i \in DOMAIN buf : buf[i].from = s) => q = <<>>

(* Every queue but the stray one holds only the answer that is waited for. *)
OneAnswer ==
    \A c \in Cloudy, s \in Servers :
        /\ \A i \in DOMAIN due[<<c, s>>] : due[<<c, s>>][i].from = s
        /\ Stray(c, s) \/ Awaited(pc, c, s, inbox[c], due[<<c, s>>])

(* The device's socket has only answers to the p2p-channel request. *)
ChannelAnswers ==
    /\ \A i \in DOMAIN inbox[device] : inbox[device][i].re \in {"continue", "channel"}
    /\ \A s \in Servers : \A i \in DOMAIN due[<<device, s>>] :
          due[<<device, s>>][i].re \in {"continue", "channel"}

(* The socket a read waits on is connected to the server that was asked. *)
Connected == \A c \in Clients, s \in Servers, re \in Re : Waits(pc, c, s, re) => raddr[c] = s

(* The inductive invariant of requests and answers. *)
MatchInv ==
    /\ repeats = 0 /\ pc \in BeforeSign => OneAnswer /\ ChannelAnswers /\ Connected
    /\ AnswersMatch

(* Nothing of server s is in buf or q. *)
Silent(s, buf, q) == (\A i \in DOMAIN buf : buf[i].from # s) /\ q = <<>>

(* Silence is always in order. *)
LEMMA SilentAwaited ==
    ASSUME NEW label, NEW c, NEW s, NEW buf, NEW q, Silent(s, buf, q)
    PROVE  Awaited(label, c, s, buf, q)
<1>1. DOMAIN <<>> = {} /\ Len(<<>>) <= 1
  OBVIOUS
<1> QED BY <1>1, Zenon DEF Silent, Awaited

(* A client that waits for nothing from s has nothing from s. *)
LEMMA AwaitedSilent ==
    ASSUME NEW label, NEW c, NEW s, NEW buf, NEW q \in Seq(Datagrams),
           Awaited(label, c, s, buf, q), \A re : ~Waits(label, c, s, re)
    PROVE  Silent(s, buf, q)
<1>1. \A i \in DOMAIN buf : buf[i].from # s
  BY Zenon DEF Awaited
<1>2. DOMAIN q = {}
  BY Zenon DEF Awaited
<1>3. q = <<>>
  BY <1>2
<1> QED BY <1>1, <1>3, Zenon DEF Silent

(* Recv takes the one answer there is. *)
LEMMA AwaitedTaken ==
    ASSUME NEW label, NEW c, NEW s, NEW buf \in Seq(Datagrams), NEW q, NEW new \in Seq(Datagrams),
           Awaited(label, c, s, buf, q), NEW k \in 1..Len(buf), buf[k].from = s,
           Len(new) = Len(buf) - k, \A j \in 1..Len(buf) - k : new[j] = buf[k + j]
    PROVE  Waits(label, c, s, buf[k].re) /\ Silent(s, new, q)
<1>0. k \in DOMAIN buf /\ DOMAIN new = 1..Len(buf) - k /\ DOMAIN buf = 1..Len(buf) /\ Len(buf) \in Nat
  OBVIOUS
<1>1. Waits(label, c, s, buf[k].re) /\ q = <<>>
  BY <1>0, Zenon DEF Awaited
<1>2. ASSUME NEW j \in DOMAIN new PROVE new[j].from # s
  <2>1. k + j \in DOMAIN buf /\ k + j # k /\ new[j] = buf[k + j]
    BY <1>0
  <2> QED BY <1>0, <2>1, Zenon DEF Awaited
<1> QED BY <1>1, <1>2, Zenon DEF Silent

(* Reading on keeps silence. *)
LEMMA SilentTaken ==
    ASSUME NEW s, NEW buf \in Seq(Datagrams), NEW q, NEW new \in Seq(Datagrams), Silent(s, buf, q),
           NEW k \in 1..Len(buf),
           Len(new) = Len(buf) - k, \A j \in 1..Len(buf) - k : new[j] = buf[k + j]
    PROVE  Silent(s, new, q)
<1>0. DOMAIN new = 1..Len(buf) - k /\ DOMAIN buf = 1..Len(buf) /\ Len(buf) \in Nat
  OBVIOUS
<1>2. ASSUME NEW j \in DOMAIN new PROVE new[j].from # s
  <2>1. k + j \in DOMAIN buf /\ new[j] = buf[k + j]
    BY <1>0
  <2> QED BY <2>1, Zenon DEF Silent
<1> QED BY <1>2, Zenon DEF Silent

(* The answer that is owed arrives. *)
LEMMA AwaitedDelivered ==
    ASSUME NEW label, NEW c, NEW s, NEW buf \in Seq(Datagrams), NEW q \in Seq(Datagrams),
           NEW new \in Seq(Datagrams), NEW r \in Seq(Datagrams), NEW i \in 1..Len(q),
           Awaited(label, c, s, buf, q),
           Len(new) = Len(buf) + 1, new[Len(buf) + 1] = q[i],
           \A j \in 1..Len(buf) : new[j] = buf[j],
           Len(r) = Len(q) - i
    PROVE  Awaited(label, c, s, new, r)
<1>0. i \in DOMAIN q /\ q # <<>> /\ Len(q) \in Nat /\ Len(buf) \in Nat
  OBVIOUS
<1>1. i = 1 /\ Len(q) = 1
  <2>1. Len(q) <= 1
    BY Zenon DEF Awaited
  <2>2. \A m \in Nat : \A k \in 1..m : m <= 1 => k = 1 /\ m = 1
    OBVIOUS
  <2> QED BY <1>0, <2>1, <2>2, Zenon
<1>2. r = <<>>
  BY <1>1
<1>3. \A j \in DOMAIN buf : buf[j].from # s
  BY <1>0, Zenon DEF Awaited
<1>4. \A j \in DOMAIN new : \/ j \in DOMAIN buf /\ new[j] = buf[j]
                            \/ j = Len(buf) + 1 /\ new[j] = q[i]
  <2>1. DOMAIN new = 1..Len(buf) + 1 /\ DOMAIN buf = 1..Len(buf)
    OBVIOUS
  <2> QED BY <1>0, <2>1
<1>5. Waits(label, c, s, q[i].re)
  BY <1>0, Zenon DEF Awaited
<1>6. DOMAIN <<>> = {} /\ Len(<<>>) <= 1
  OBVIOUS
<1>7. \A j \in DOMAIN new : new[j].from = s => Waits(label, c, s, new[j].re)
  BY <1>3, <1>4, <1>5, Zenon
<1>8. \A j, m \in DOMAIN new : new[j].from = s /\ new[m].from = s => j = m
  BY <1>3, <1>4, Zenon
<1> QED BY <1>2, <1>6, <1>7, <1>8, Zenon DEF Awaited

(* Something of another server arrives. *)
LEMMA AwaitedElsewhere ==
    ASSUME NEW label, NEW c, NEW s, NEW buf \in Seq(Datagrams), NEW q,
           NEW new \in Seq(Datagrams), NEW d, d.from # s,
           Awaited(label, c, s, buf, q),
           Len(new) = Len(buf) + 1, new[Len(buf) + 1] = d,
           \A j \in 1..Len(buf) : new[j] = buf[j]
    PROVE  Awaited(label, c, s, new, q)
<1>1. \A j \in DOMAIN new : \/ j \in DOMAIN buf /\ new[j] = buf[j]
                            \/ j = Len(buf) + 1 /\ new[j] = d
  OBVIOUS
<1>2. \A j \in DOMAIN new : new[j].from = s => j \in DOMAIN buf /\ new[j] = buf[j]
  BY <1>1, Zenon
<1> QED BY <1>2, Zenon DEF Awaited

(* A request whose answer is waited for. *)
LEMMA AwaitedAsked ==
    ASSUME NEW label, NEW c, NEW s, NEW re, NEW buf, NEW q, NEW r \in Seq(Datagrams),
           Silent(s, buf, q), Waits(label, c, s, re), Len(r) = 1, r[1].re = re
    PROVE  Awaited(label, c, s, buf, r)
BY DEF Silent, Awaited

(* The types of the queues of the cloud's clients. *)
LEMMA CloudyTypes ==
    ASSUME TypeOK, NEW c \in Cloudy
    PROVE  /\ c \in Clients /\ inbox[c] \in Seq(Datagrams)
           /\ \A s \in Servers : due[<<c, s>>] \in Seq(Datagrams)
<1>1. c \in Clients
  BY Zenon DEF Clients, Cloudy
<1>2. inbox[c] \in Seq(Datagrams)
  BY <1>1, TypeSplit, Zenon DEF NetOK
<1>3. \A s \in Servers : <<c, s>> \in Clients \X Servers
  BY <1>1, Zenon
<1>4. \A s \in Servers : due[<<c, s>>] \in Seq(Datagrams)
  BY <1>3, TypeSplit, Zenon DEF NetOK
<1> QED BY <1>1, <1>2, <1>4, Zenon

(* At a label that waits for nothing, every queue but the stray one is     *)
(* silent.                                                                 *)
LEMMA AllSilent ==
    ASSUME TypeOK, OneAnswer, \A c, s, re : ~Waits(pc, c, s, re),
           NEW c \in Cloudy, NEW s \in Servers, ~Stray(c, s)
    PROVE  Silent(s, inbox[c], due[<<c, s>>])
BY CloudyTypes, AwaitedSilent, Zenon DEF OneAnswer

(* A step that ends the handshake, or goes beyond these labels, only has   *)
(* to use the right answer.                                                *)
LEMMA MatchBeyond ==
    ASSUME MatchInv, pc' \notin BeforeSign, repeats' = 0 => repeats = 0 /\ mismatched' = mismatched
    PROVE  MatchInv'
BY DEF MatchInv, AnswersMatch

(* Request and its answer. *)
LEMMA RequestMatches ==
    ASSUME TypeOK, TypeOK', MatchInv, NEW label \in BeforeSign, NEW c \in Cloudy, NEW s \in Servers,
           NEW re \in Re, NEW next, ~Stray(c, s),
           \A d, t, a : ~Waits(label, d, t, a),
           \A d, t, a : Waits(next, d, t, a) <=> d = c /\ t = s /\ a = re,
           Request(label, c, s, <<re>>, next)
    PROVE  MatchInv'
<1>1. CASE Fail
  BY <1>1, MatchBeyond, Zenon DEF Fail, Request, BeforeSign, CloudLabels
<1>2. CASE Goto(next) /\ due' = Owing(c, s, <<re>>)
  <2>0. UNCHANGED <<inbox, repeats, mismatched>> /\ pc = label /\ pc' = next
    BY <1>2, Zenon DEF Request, Goto
  <2> SUFFICES ASSUME repeats = 0 PROVE OneAnswer' /\ ChannelAnswers' /\ Connected'
    BY <2>0, Zenon DEF MatchInv, AnswersMatch
  <2>1. OneAnswer /\ ChannelAnswers
    BY <2>0, Zenon DEF MatchInv
  <2>2. c \in Clients /\ <<re>> \in Seq(Re) /\ c # device /\ Len(<<re>>) = 1 /\ <<re>>[1] = re
    BY CloudyTypes DEF Cloudy
  <2>3. \A d \in Clients, t \in Servers : <<d, t>> # <<c, s>> => due'[<<d, t>>] = due[<<d, t>>]
    <3>1. \A link \in Clients \X Servers :
             due'[link] = IF link = <<c, s>> THEN Owed(c, s, <<re>>) ELSE due[link]
      BY <1>2, <2>2, OwingIs
    <3> QED BY <3>1, Zenon
  <2>4. due'[<<c, s>>] = Owed(c, s, <<re>>)
    BY <1>2, <2>2, OwingIs, Zenon
  <2>5. Silent(s, inbox[c], due[<<c, s>>])
    BY <2>0, <2>1, AllSilent, Zenon
  <2>6. /\ due'[<<c, s>>] \in Seq(Datagrams) /\ Len(due'[<<c, s>>]) = 1
        /\ due'[<<c, s>>][1] = [from |-> s, re |-> re, n |-> attempt]
    <3>1. Len(due[<<c, s>>]) = 0
      BY <2>5 DEF Silent
    <3>2. /\ Owed(c, s, <<re>>) \in Seq(Datagrams)
          /\ Len(Owed(c, s, <<re>>)) = Len(due[<<c, s>>]) + Len(<<re>>)
          /\ \A i \in 1..Len(<<re>>) :
                Owed(c, s, <<re>>)[Len(due[<<c, s>>]) + i] = [from |-> s, re |-> <<re>>[i], n |-> attempt]
      BY <2>2, OwedIs, Zenon
    <3> QED BY <2>2, <2>4, <3>1, <3>2
  <2>7. ASSUME NEW d \in Cloudy, NEW t \in Servers
        PROVE  /\ \A i \in DOMAIN due'[<<d, t>>] : due'[<<d, t>>][i].from = t
               /\ Stray(d, t) \/ Awaited(next, d, t, inbox[d], due'[<<d, t>>])
    <3>1. CASE <<d, t>> = <<c, s>>
      <4>1. d = c /\ t = s /\ Waits(next, c, s, re)
        BY <3>1, Zenon
      <4>2. Awaited(next, c, s, inbox[c], due'[<<c, s>>])
        BY <2>5, <2>6, <4>1, AwaitedAsked
      <4>3. DOMAIN due'[<<c, s>>] = {1}
        BY <2>6
      <4> QED BY <2>6, <4>1, <4>2, <4>3
    <3>2. CASE <<d, t>> # <<c, s>>
      <4>1. due'[<<d, t>>] = due[<<d, t>>]
        BY <2>3, <3>2, CloudyTypes, Zenon
      <4>2. \A i \in DOMAIN due[<<d, t>>] : due[<<d, t>>][i].from = t
        BY <2>1, Zenon DEF OneAnswer
      <4>3. Stray(d, t) \/ Silent(t, inbox[d], due[<<d, t>>])
        BY <2>0, <2>1, AllSilent, Zenon
      <4> QED BY <4>1, <4>2, <4>3, SilentAwaited, Zenon
    <3> QED BY <3>1, <3>2, Zenon
  <2>8. OneAnswer'
    BY <2>0, <2>7, Zenon DEF OneAnswer
  <2>9. ChannelAnswers'
    <3>1. \A t \in Servers : due'[<<device, t>>] = due[<<device, t>>]
      BY <2>2, <2>3, Zenon DEF Clients
    <3> QED BY <2>0, <2>1, <3>1, Zenon DEF ChannelAnswers
  <2>10. Connected'
    BY <2>0, <2>2, TypeSplit, Zenon DEF Connected, Request, NetOK
  <2> QED BY <2>8, <2>9, <2>10, Zenon
<1> QED BY <1>1, <1>2, Zenon DEF Request

(* What a read takes from the server it waits for is the answer, and       *)
(* nothing more comes from there.                                          *)
LEMMA TakenAwaited ==
    ASSUME NEW c \in Clients, NEW s \in Servers, inbox[c] \in Seq(Datagrams),
           inbox'[c] \in Seq(Datagrams), NEW k \in 1..Len(inbox[c]),
           Taken(c, k), inbox[c][k].from = s, Awaited(pc, c, s, inbox[c], due[<<c, s>>])
    PROVE  Waits(pc, c, s, inbox[c][k].re) /\ Silent(s, inbox'[c], due[<<c, s>>])
<1> DEFINE q == due[<<c, s>>]
           buf == inbox[c]
           new == inbox'[c]
<1>1. /\ buf \in Seq(Datagrams) /\ new \in Seq(Datagrams) /\ k \in 1..Len(buf)
      /\ Len(new) = Len(buf) - k /\ \A j \in 1..Len(buf) - k : new[j] = buf[k + j]
      /\ buf[k].from = s /\ Awaited(pc, c, s, buf, q)
  BY Zenon DEF Taken
<1> HIDE DEF q, buf, new
<1>2. Waits(pc, c, s, buf[k].re) /\ Silent(s, new, q)
  BY <1>1, AwaitedTaken, Zenon
<1> QED BY <1>2, Zenon DEF q, buf, new

(* A read of the one answer that is waited for. *)
LEMMA ReadMatches ==
    ASSUME TypeOK, TypeOK', MatchInv, pc \in BeforeSign, NEW c \in Cloudy, NEW s \in Servers,
           NEW re \in Re, NEW next, ~Stray(c, s),
           \A d, t, a : Waits(pc, d, t, a) <=> d = c /\ t = s /\ a = re,
           \A d, t, a : ~Waits(next, d, t, a),
           \/ /\ Received(c)
              /\ mismatched' = (mismatched \/ Arrival(c).re # re)
              /\ Goto(next) \/ Fail
           \/ TimedOut(c) /\ Fail /\ UNCHANGED mismatched,
           UNCHANGED <<raddr, due, repeats>>
    PROVE  MatchInv'
<1>1. CASE TimedOut(c) /\ Fail /\ UNCHANGED mismatched
  BY <1>1, MatchBeyond, Zenon DEF Fail, BeforeSign, CloudLabels
<1>2. CASE /\ Received(c)
           /\ mismatched' = (mismatched \/ Arrival(c).re # re)
           /\ Goto(next) \/ Fail
  <2> SUFFICES ASSUME repeats = 0
               PROVE  ~mismatched' /\ (pc' \in BeforeSign => OneAnswer' /\ ChannelAnswers' /\ Connected')
    BY Zenon DEF MatchInv, AnswersMatch
  <2>1. OneAnswer /\ ChannelAnswers /\ Connected /\ ~mismatched
    BY Zenon DEF MatchInv, AnswersMatch
  <2>2. /\ c \in Clients /\ inbox[c] \in Seq(Datagrams) /\ c # device
        /\ inbox'[c] \in Seq(Datagrams) /\ Waits(pc, c, s, re)
    BY CloudyTypes, Zenon DEF TypeOK, Cloudy
  <2>3. raddr[c] = s
    BY <2>1, <2>2, Zenon DEF Connected
  <2>4. PICK k \in 1..Len(inbox[c]) :
            Arrival(c) = inbox[c][k] /\ inbox[c][k].from = s /\ Taken(c, k)
    BY <1>2, <2>2, <2>3, ReceivedTakes, Zenon
  <2> DEFINE buf == inbox[c]
             new == inbox'[c]
  <2>5. /\ buf \in Seq(Datagrams) /\ new \in Seq(Datagrams) /\ k \in 1..Len(buf)
        /\ Len(new) = Len(buf) - k /\ \A j \in 1..Len(buf) - k : new[j] = buf[k + j]
        /\ buf[k].from = s /\ Arrival(c) = buf[k]
        /\ \A d \in Clients \ {c} : inbox'[d] = inbox[d]
    BY <2>2, <2>4, Zenon DEF Taken
  <2>6. Awaited(pc, c, s, buf, due[<<c, s>>])
    BY <2>1, Zenon DEF OneAnswer
  <2> HIDE DEF buf, new
  <2>7. Waits(pc, c, s, buf[k].re) /\ Silent(s, new, due[<<c, s>>])
    BY <2>2, <2>4, <2>6, TakenAwaited, Zenon DEF buf, new
  <2>8. ~mismatched'
    <3>1. Arrival(c).re = re
      BY <2>5, <2>7, Zenon
    <3> QED BY <1>2, <2>1, <3>1, Zenon
  <2>9. ASSUME pc' \in BeforeSign PROVE OneAnswer' /\ ChannelAnswers' /\ Connected'
    <3>1. pc' = next
      BY <1>2, <2>9, Zenon DEF Goto, Fail, BeforeSign, CloudLabels
    <3>2. ASSUME NEW d \in Cloudy, NEW t \in Servers, ~Stray(d, t)
          PROVE  Silent(t, inbox'[d], due[<<d, t>>])
      <4>1. CASE d # c
        <5>1. inbox'[d] = inbox[d]
          BY <2>5, <4>1, CloudyTypes, Zenon
        <5>2. Awaited(pc, d, t, inbox[d], due[<<d, t>>]) /\ \A a : ~Waits(pc, d, t, a)
          BY <2>1, <3>2, <4>1, Zenon DEF OneAnswer
        <5> QED BY <5>1, <5>2, CloudyTypes, AwaitedSilent, Zenon
      <4>2. CASE d = c /\ t # s
        <5>1. Awaited(pc, c, t, buf, due[<<c, t>>]) /\ \A a : ~Waits(pc, c, t, a)
          BY <2>1, <3>2, <4>2, Zenon DEF OneAnswer, buf
        <5>2. Silent(t, buf, due[<<c, t>>])
          BY <5>1, CloudyTypes, AwaitedSilent, Zenon
        <5>3. Silent(t, new, due[<<c, t>>])
          BY <2>5, <5>2, SilentTaken, Zenon
        <5> QED BY <4>2, <5>3, Zenon DEF new
      <4>3. CASE d = c /\ t = s
        BY <2>7, <4>3, Zenon DEF new
      <4> QED BY <4>1, <4>2, <4>3, Zenon
    <3>3. OneAnswer'
      BY <2>1, <3>2, SilentAwaited, Zenon DEF OneAnswer
    <3>4. ChannelAnswers'
      <4>1. inbox'[device] = inbox[device]
        BY <2>2, <2>5, Zenon DEF Clients
      <4> QED BY <2>1, <4>1, Zenon DEF ChannelAnswers
    <3>5. Connected'
      BY <3>1, Zenon DEF Connected
    <3> QED BY <3>3, <3>4, <3>5, Zenon
  <2> QED BY <2>8, <2>9, Zenon
<1> QED BY <1>1, <1>2, Zenon

(* Opening a socket sends nothing. *)
LEMMA OpenMatches ==
    ASSUME MatchInv, NEW label \in BeforeSign, NEW c \in Clients, NEW s \in Servers, NEW next,
           \A d, t, a : ~Waits(label, d, t, a), \A d, t, a : ~Waits(next, d, t, a), TypeOK,
           Open(label, c, s, next)
    PROVE  MatchInv'
<1>0. UNCHANGED <<inbox, due, repeats, mismatched>> /\ pc = label
  BY Zenon DEF Open, netVars
<1>1. CASE pc' = "returned"
  BY <1>0, <1>1, MatchBeyond, Zenon DEF BeforeSign, CloudLabels
<1>2. CASE pc' = next
  <2> SUFFICES ASSUME repeats = 0 PROVE OneAnswer' /\ ChannelAnswers' /\ Connected'
    BY <1>0, Zenon DEF MatchInv, AnswersMatch
  <2>1. OneAnswer /\ ChannelAnswers
    BY <1>0, Zenon DEF MatchInv
  <2>2. OneAnswer'
    BY <1>0, <1>2, <2>1, AllSilent, SilentAwaited, Zenon DEF OneAnswer
  <2> QED BY <1>0, <1>2, <2>1, <2>2, Zenon DEF ChannelAnswers, Connected
<1> QED BY <1>1, <1>2, Zenon DEF Open, Fail

(* What the device's client does leaves the cloud's clients alone. *)
LEMMA DeviceMatches ==
    ASSUME TypeOK, OneAnswer, \A d, t, a : ~Waits(pc, d, t, a), \A d, t, a : ~Waits(pc', d, t, a),
           \A c \in Cloudy : inbox'[c] = inbox[c],
           \A c \in Cloudy, s \in Servers : due'[<<c, s>>] = due[<<c, s>>]
    PROVE  OneAnswer' /\ Connected'
<1>1. ASSUME NEW c \in Cloudy, NEW s \in Servers
      PROVE  /\ \A i \in DOMAIN due'[<<c, s>>] : due'[<<c, s>>][i].from = s
             /\ Stray(c, s) \/ Awaited(pc', c, s, inbox'[c], due'[<<c, s>>])
  <2>1. inbox'[c] = inbox[c] /\ due'[<<c, s>>] = due[<<c, s>>]
    BY Zenon
  <2>2. \A i \in DOMAIN due[<<c, s>>] : due[<<c, s>>][i].from = s
    BY Zenon DEF OneAnswer
  <2>3. Stray(c, s) \/ Silent(s, inbox[c], due[<<c, s>>])
    BY AllSilent, Zenon
  <2> QED BY <2>1, <2>2, <2>3, SilentAwaited, Zenon
<1> QED BY <1>1, Zenon DEF OneAnswer, Connected

(* The p2p-channel request. *)
LEMMA ChannelMatches ==
    ASSUME TypeOK, MatchInv, RequestChannel
    PROVE  MatchInv'
<1>0. PICK answers \in {<<"channel">>, <<"continue", "channel">>} :
          Request("channel", "device", "main", answers, "agent")
  BY Zenon DEF RequestChannel
<1>1. CASE Fail
  BY <1>0, <1>1, MatchBeyond, Zenon DEF Fail, Request, BeforeSign, CloudLabels
<1>2. CASE Goto("agent") /\ due' = Owing(device, "main", answers)
  <2>0. UNCHANGED <<inbox, repeats, mismatched>> /\ pc = "channel" /\ pc' = "agent"
    BY <1>0, <1>2, Zenon DEF Request, Goto
  <2> SUFFICES ASSUME repeats = 0 PROVE OneAnswer' /\ ChannelAnswers' /\ Connected'
    BY <2>0, Zenon DEF MatchInv, AnswersMatch
  <2>1. OneAnswer /\ ChannelAnswers
    BY <2>0, Zenon DEF MatchInv, BeforeSign, CloudLabels
  <2>2. /\ answers \in Seq(Re) /\ device \in Clients /\ "main" \in Servers
        /\ \A i \in 1..Len(answers) : answers[i] \in {"continue", "channel"}
    <3>1. "continue" \in Re /\ "channel" \in Re
      BY Zenon DEF Re, DhAnswers
    <3>2. CASE answers = <<"channel">>
      BY <3>1, <3>2 DEF Clients, Servers, device
    <3>3. CASE answers = <<"continue", "channel">>
      BY <3>1, <3>3 DEF Clients, Servers, device
    <3> QED BY <3>2, <3>3, Zenon
  <2>3. \A link \in Clients \X Servers :
           due'[link] = IF link = <<device, "main">> THEN Owed(device, "main", answers) ELSE due[link]
    BY <1>2, <2>2, OwingIs
  <2>4. \A c \in Cloudy, s \in Servers : due'[<<c, s>>] = due[<<c, s>>]
    BY <2>3, Zenon DEF Cloudy, Clients, device
  <2>5. (\A d, t, a : ~Waits(pc, d, t, a)) /\ (\A d, t, a : ~Waits(pc', d, t, a))
    BY <2>0, Zenon DEF Waits
  <2>6. OneAnswer' /\ Connected'
    BY <2>0, <2>1, <2>4, <2>5, DeviceMatches, Zenon
  <2>7. ASSUME NEW s \in Servers, NEW i \in DOMAIN due'[<<device, s>>]
        PROVE  due'[<<device, s>>][i].re \in {"continue", "channel"}
    <3>1. CASE s # "main"
      <4>1. due'[<<device, s>>] = due[<<device, s>>]
        BY <2>2, <2>3, <3>1, Zenon
      <4> QED BY <2>1, <4>1, Zenon DEF ChannelAnswers
    <3>2. CASE s = "main"
      <4> DEFINE q == due[<<device, s>>]
                 r == due'[<<device, s>>]
                 o == Owed(device, s, answers)
      <4>1. r = o
        BY <2>2, <2>3, <3>2, Zenon
      <4>2. /\ o \in Seq(Datagrams) /\ Len(o) = Len(q) + Len(answers)
            /\ \A j \in 1..Len(q) : o[j] = q[j]
            /\ \A j \in 1..Len(answers) : o[Len(q) + j] = [from |-> s, re |-> answers[j], n |-> attempt]
        BY <2>2, OwedIs, Zenon
      <4>3. (\A j \in DOMAIN q : q[j].re \in {"continue", "channel"}) /\ q \in Seq(Datagrams)
        BY <2>1, <2>2, TypeSplit, Zenon DEF ChannelAnswers, NetOK
      <4>4. i \in DOMAIN o
        BY <4>1, Zenon
      <4> HIDE DEF q, o
      <4>5. DOMAIN o = 1..Len(o) /\ DOMAIN q = 1..Len(q) /\ Len(q) \in Nat /\ Len(answers) \in Nat
        BY <2>2, <4>2, <4>3
      <4>6. i \in 1..Len(q) \/ \E j \in 1..Len(answers) : i = Len(q) + j
        <5>1. i \in 1..Len(q) \/ (i - Len(q) \in 1..Len(answers) /\ i = Len(q) + (i - Len(q)))
          BY <4>2, <4>4, <4>5
        <5> QED BY <5>1, Zenon
      <4>7. o[i].re \in {"continue", "channel"}
        <5>1. CASE i \in 1..Len(q)
          BY <4>2, <4>3, <4>5, <5>1, Zenon
        <5>2. CASE \E j \in 1..Len(answers) : i = Len(q) + j
          <6>1. PICK j \in 1..Len(answers) : i = Len(q) + j
            BY <5>2, Zenon
          <6>2. o[i] = [from |-> s, re |-> answers[j], n |-> attempt]
            BY <4>2, <6>1, Zenon
          <6> QED BY <2>2, <6>2
        <5> QED BY <4>6, <5>1, <5>2, Zenon
      <4> QED BY <4>1, <4>7
    <3> QED BY <3>1, <3>2, Zenon
  <2>8. ChannelAnswers'
    BY <2>0, <2>1, <2>7, Zenon DEF ChannelAnswers
  <2> QED BY <2>6, <2>8, Zenon
<1> QED BY <1>0, <1>1, <1>2, Zenon DEF Request, device

(* The reads of its answer. *)
LEMMA ChannelReadMatches ==
    ASSUME TypeOK, MatchInv, ReadChannel \/ ReadFinalChannel
    PROVE  MatchInv'
<1>0. UNCHANGED <<due, repeats>> /\ pc \in {"readChannel", "readFinalChannel"}
  BY Zenon DEF ReadChannel, ReadFinalChannel
<1>a. device \in Clients
  BY Zenon DEF Clients, device
<1>1. CASE TimedOut("device") /\ Fail /\ UNCHANGED <<raddr, mismatched>>
  BY <1>0, <1>1, MatchBeyond, Zenon DEF Fail, BeforeSign, CloudLabels
<1>2. CASE Received(device) /\ ( \/ Goto("readFinalChannel") /\ UNCHANGED <<raddr, mismatched>>
                                 \/ UseChannel(Arrival(device)) )
  <2> SUFFICES ASSUME repeats = 0
               PROVE  ~mismatched' /\ (pc' \in BeforeSign => OneAnswer' /\ ChannelAnswers' /\ Connected')
    BY <1>0, Zenon DEF MatchInv, AnswersMatch
  <2>1. OneAnswer /\ ChannelAnswers /\ ~mismatched
    BY <1>0, Zenon DEF MatchInv, AnswersMatch, BeforeSign, CloudLabels
  <2>2. PICK k \in 1..Len(inbox[device]) : Arrival(device) = inbox[device][k] /\ Taken(device, k)
    BY <1>2, <1>a, ReceivedTakes, Zenon
  <2> DEFINE buf == inbox[device]
             new == inbox'[device]
  <2>3. /\ buf \in Seq(Datagrams) /\ new \in Seq(Datagrams) /\ k \in 1..Len(buf)
        /\ Len(new) = Len(buf) - k /\ \A j \in 1..Len(buf) - k : new[j] = buf[k + j]
        /\ Arrival(device) = buf[k]
        /\ \A d \in Clients \ {device} : inbox'[d] = inbox[d]
    BY <2>2, <1>a, TypeSplit, Zenon DEF Taken, NetOK
  <2>4. \A j \in DOMAIN buf : buf[j].re \in {"continue", "channel"}
    BY <2>1, Zenon DEF ChannelAnswers
  <2>5. \A j \in DOMAIN new : new[j].re \in {"continue", "channel"}
    <3> HIDE DEF buf, new
    <3>1. DOMAIN new = 1..Len(buf) - k /\ DOMAIN buf = 1..Len(buf) /\ Len(buf) \in Nat
      BY <2>3
    <3>2. ASSUME NEW j \in DOMAIN new PROVE k + j \in DOMAIN buf /\ new[j] = buf[k + j]
      BY <2>3, <3>1
    <3> QED BY <2>4, <3>2, Zenon
  <2>6. Arrival(device).re \in {"continue", "channel"}
    BY <2>3, <2>4
  <2>7. ~mismatched'
    BY <1>2, <2>1, <2>6, Zenon DEF UseChannel
  <2>8. ASSUME pc' \in BeforeSign PROVE OneAnswer' /\ ChannelAnswers' /\ Connected'
    <3>1. pc' \in {"readFinalChannel", "relayChannel"}
      BY <1>2, <2>8, Zenon DEF Goto, UseChannel, Fail, BeforeSign, CloudLabels
    <3>2. (\A d, t, a : ~Waits(pc, d, t, a)) /\ (\A d, t, a : ~Waits(pc', d, t, a))
      BY <1>0, <3>1, Zenon DEF Waits
    <3>3. \A c \in Cloudy : inbox'[c] = inbox[c]
      BY <2>3, Zenon DEF Cloudy, Clients, device
    <3>4. OneAnswer' /\ Connected'
      BY <1>0, <2>1, <3>2, <3>3, DeviceMatches, Zenon
    <3>5. ChannelAnswers'
      BY <1>0, <2>1, <2>5, Zenon DEF ChannelAnswers
    <3> QED BY <3>4, <3>5, Zenon
  <2> QED BY <2>7, <2>8, Zenon
<1> QED BY <1>1, <1>2, Zenon DEF ReadChannel, ReadFinalChannel, device

(* The relay-channel request: the agent's NAT info is waited for, the main *)
(* server's answer is not.                                                 *)
LEMMA RelayChannelMatches ==
    ASSUME TypeOK, TypeOK', MatchInv, RelayChannel
    PROVE  MatchInv'
<1>1. CASE Fail
  BY <1>1, MatchBeyond, Zenon DEF Fail, RelayChannel, BeforeSign, CloudLabels
<1>2. CASE /\ raddr' = [raddr EXCEPT !["p2p"] = "agent"]
           /\ due' = [due EXCEPT
                 ![<<"p2p", "main">>] = Owed("p2p", "main", <<"relayChannel">>),
                 ![<<"p2p", "agent">>] = Owed("p2p", "agent", <<"natInfo">>)]
           /\ Goto("readNatInfo")
  <2>0. UNCHANGED <<inbox, repeats, mismatched>> /\ pc = "relayChannel" /\ pc' = "readNatInfo"
    BY <1>2, Zenon DEF RelayChannel, Goto
  <2> SUFFICES ASSUME repeats = 0 PROVE OneAnswer' /\ ChannelAnswers' /\ Connected'
    BY <2>0, Zenon DEF MatchInv, AnswersMatch
  <2>1. OneAnswer /\ ChannelAnswers
    BY <2>0, Zenon DEF MatchInv, BeforeSign, CloudLabels
  <2>2. /\ <<"relayChannel">> \in Seq(Re) /\ <<"natInfo">> \in Seq(Re)
        /\ "p2p" \in Clients /\ "main" \in Servers /\ "agent" \in Servers
        /\ "p2p" \in Cloudy /\ ~Stray("p2p", "agent")
    BY DEF Re, Clients, Servers, Cloudy, Stray, DhAnswers
  <2>a. \A d, t, a : ~Waits(pc, d, t, a)
    BY <2>0, Zenon DEF Waits
  <2>3. /\ \A link \in Clients \X Servers :
              link # <<"p2p", "main">> /\ link # <<"p2p", "agent">> => due'[link] = due[link]
        /\ due'[<<"p2p", "main">>] = Owed("p2p", "main", <<"relayChannel">>)
        /\ due'[<<"p2p", "agent">>] = Owed("p2p", "agent", <<"natInfo">>)
    <3>1. due \in [Clients \X Servers -> Seq(Datagrams)]
      BY TypeSplit, Zenon DEF NetOK
    <3>2. <<"p2p", "main">> \in Clients \X Servers /\ <<"p2p", "agent">> \in Clients \X Servers
          /\ <<"p2p", "main">> # <<"p2p", "agent">>
      BY <2>2, Zenon
    <3> QED BY <1>2, <3>1, <3>2, Zenon
  <2>4. Silent("agent", inbox["p2p"], due[<<"p2p", "agent">>])
    BY <2>1, <2>2, <2>a, AllSilent, Zenon
  <2>5. /\ due'[<<"p2p", "agent">>] \in Seq(Datagrams) /\ Len(due'[<<"p2p", "agent">>]) = 1
        /\ due'[<<"p2p", "agent">>][1] = [from |-> "agent", re |-> "natInfo", n |-> attempt]
    <3> DEFINE q == due[<<"p2p", "agent">>]
               r == due'[<<"p2p", "agent">>]
               a == <<"natInfo">>
    <3>1. Len(q) = 0
      BY <2>4 DEF Silent
    <3>2. /\ r \in Seq(Datagrams) /\ Len(r) = Len(q) + Len(a)
          /\ \A i \in 1..Len(a) : r[Len(q) + i] = [from |-> "agent", re |-> a[i], n |-> attempt]
      BY <2>2, <2>3, OwedIs
    <3>3. Len(a) = 1 /\ a[1] = "natInfo"
      BY Zenon
    <3> HIDE DEF q, r, a
    <3>4. r \in Seq(Datagrams) /\ Len(r) = 1 /\ r[1] = [from |-> "agent", re |-> "natInfo", n |-> attempt]
      BY <3>1, <3>2, <3>3
    <3> QED BY <3>4, Zenon DEF r
  <2>6. \A i \in DOMAIN due'[<<"p2p", "main">>] : due'[<<"p2p", "main">>][i].from = "main"
    <3> DEFINE q == due[<<"p2p", "main">>]
               r == due'[<<"p2p", "main">>]
               a == <<"relayChannel">>
    <3>1. (\A i \in DOMAIN q : q[i].from = "main") /\ q \in Seq(Datagrams)
      BY <2>1, <2>2, CloudyTypes, Zenon DEF OneAnswer
    <3>2. /\ r \in Seq(Datagrams) /\ Len(r) = Len(q) + Len(a)
          /\ \A i \in 1..Len(q) : r[i] = q[i]
          /\ \A i \in 1..Len(a) : r[Len(q) + i] = [from |-> "main", re |-> a[i], n |-> attempt]
      BY <2>2, <2>3, OwedIs
    <3>3. Len(a) = 1
      BY Zenon
    <3> HIDE DEF q, r, a
    <3>4. DOMAIN r = 1..Len(q) + 1 /\ DOMAIN q = 1..Len(q) /\ Len(q) \in Nat
      BY <3>1, <3>2, <3>3
    <3>5. r[Len(q) + 1].from = "main"
      BY <3>2, <3>3
    <3>6. \A i \in DOMAIN r : r[i].from = "main"
      BY <3>1, <3>2, <3>4, <3>5
    <3> QED BY <3>6, Zenon DEF r
  <2>7. ASSUME NEW d \in Cloudy, NEW t \in Servers
        PROVE  /\ \A i \in DOMAIN due'[<<d, t>>] : due'[<<d, t>>][i].from = t
               /\ Stray(d, t) \/ Awaited("readNatInfo", d, t, inbox[d], due'[<<d, t>>])
    <3>1. CASE d = "p2p" /\ t = "agent"
      <4>1. Waits("readNatInfo", "p2p", "agent", "natInfo")
        BY Zenon DEF Waits
      <4>2. Awaited("readNatInfo", "p2p", "agent", inbox["p2p"], due'[<<"p2p", "agent">>])
        BY <2>4, <2>5, <4>1, AwaitedAsked
      <4>3. DOMAIN due'[<<"p2p", "agent">>] = {1}
        BY <2>5
      <4> QED BY <2>5, <3>1, <4>2, <4>3
    <3>2. CASE d = "p2p" /\ t = "main"
      BY <2>6, <3>2, Zenon DEF Stray
    <3>3. CASE ~(d = "p2p" /\ t = "agent") /\ ~(d = "p2p" /\ t = "main")
      <4>1. due'[<<d, t>>] = due[<<d, t>>]
        BY <2>3, <3>3, CloudyTypes, Zenon
      <4>2. \A i \in DOMAIN due[<<d, t>>] : due[<<d, t>>][i].from = t
        BY <2>1, Zenon DEF OneAnswer
      <4>3. Stray(d, t) \/ Silent(t, inbox[d], due[<<d, t>>])
        BY <2>1, <2>a, AllSilent, Zenon
      <4> QED BY <4>1, <4>2, <4>3, SilentAwaited, Zenon
    <3> QED BY <3>1, <3>2, <3>3, Zenon
  <2>8. OneAnswer'
    BY <2>0, <2>7, Zenon DEF OneAnswer
  <2>9. ChannelAnswers'
    <3>1. \A t \in Servers : due'[<<device, t>>] = due[<<device, t>>]
      BY <2>3, Zenon DEF Clients, device
    <3> QED BY <2>0, <2>1, <3>1, Zenon DEF ChannelAnswers
  <2>10. Connected'
    <3>1. raddr'["p2p"] = "agent"
      BY <1>2, <2>2, TypeSplit, Zenon DEF NetOK
    <3> QED BY <2>0, <3>1, Zenon DEF Connected, Waits
  <2> QED BY <2>8, <2>9, <2>10, Zenon
<1> QED BY <1>1, <1>2, Zenon DEF RelayChannel

(* Every step with the cloud keeps requests and answers paired.  A request *)
(* starts at a label where nothing is waited for, and a read ends at one.  *)
LEMMA CloudMatches ==
    ASSUME TypeOK, TypeOK', MatchInv, Cloud
    PROVE  MatchInv'
<1> DEFINE Still(label) == \A d, t, a : ~Waits(label, d, t, a)
           Only(label, c, s, re) == \A d, t, a : Waits(label, d, t, a) <=> d = c /\ t = s /\ a = re
<1>0. /\ {"main", "p2p"} \subseteq Cloudy /\ {"main", "p2psrv", "relay", "agent"} \subseteq Servers
      /\ \A s \in Servers : ~Stray("main", s)
      /\ \A s \in {"p2psrv", "relay", "agent"} : ~Stray("p2p", s)
      /\ {"probe", "p2psrv", "probeDevice", "info", "relay", "agent", "start", "natInfo", "sync"}
            \subseteq Re
      /\ {"openMain", "probe", "readProbe", "p2psrv", "readP2psrv", "openP2p", "probeDevice",
          "readProbeDevice", "info", "readInfo", "relay", "readRelay", "openDevice", "channel",
          "agent", "readAgent", "start", "readStart", "readChannel", "readFinalChannel",
          "relayChannel", "readNatInfo", "agentSync", "readAgentSync"} \subseteq BeforeSign
  BY DEF Cloudy, Servers, Stray, Re, DhAnswers, PtcpAnswers, BeforeSign, CloudLabels
<1>1. /\ Still("openMain") /\ Still("probe") /\ Still("p2psrv") /\ Still("openP2p")
      /\ Still("probeDevice") /\ Still("info") /\ Still("relay") /\ Still("openDevice")
      /\ Still("channel") /\ Still("agent") /\ Still("start") /\ Still("readChannel")
      /\ Still("relayChannel") /\ Still("agentSync") /\ Still("sign")
  BY Zenon DEF Waits
<1>2. /\ Only("readProbe", "main", "main", "probe") /\ Only("readP2psrv", "main", "main", "p2psrv")
      /\ Only("readProbeDevice", "p2p", "p2psrv", "probeDevice")
      /\ Only("readInfo", "p2p", "p2psrv", "info") /\ Only("readRelay", "main", "main", "relay")
      /\ Only("readAgent", "p2p", "relay", "agent") /\ Only("readStart", "p2p", "agent", "start")
      /\ Only("readNatInfo", "p2p", "agent", "natInfo")
      /\ Only("readAgentSync", "p2p", "agent", "sync")
  BY Zenon DEF Waits
<1>3. CASE OpenMain
  BY <1>0, <1>1, <1>3, OpenMatches, Zenon DEF OpenMain, Clients
<1>4. CASE OpenP2p
  BY <1>0, <1>1, <1>4, OpenMatches, Zenon DEF OpenP2p, Clients
<1>5. CASE OpenDevice
  BY <1>0, <1>1, <1>5, OpenMatches, Zenon DEF OpenDevice, Clients
<1>6. CASE ProbeP2psrv
  BY <1>0, <1>1, <1>2, <1>6, RequestMatches DEF ProbeP2psrv
<1>7. CASE OnlineP2psrv
  BY <1>0, <1>1, <1>2, <1>7, RequestMatches DEF OnlineP2psrv
<1>8. CASE ProbeDevice
  BY <1>0, <1>1, <1>2, <1>8, RequestMatches DEF ProbeDevice
<1>9. CASE InfoDevice
  BY <1>0, <1>1, <1>2, <1>9, RequestMatches DEF InfoDevice
<1>10. CASE OnlineRelay
  BY <1>0, <1>1, <1>2, <1>10, RequestMatches DEF OnlineRelay
<1>11. CASE RelayAgent
  BY <1>0, <1>1, <1>2, <1>11, RequestMatches DEF RelayAgent
<1>12. CASE RelayStart
  BY <1>0, <1>1, <1>2, <1>12, RequestMatches DEF RelayStart
<1>13. CASE AgentSync
  BY <1>0, <1>1, <1>2, <1>13, RequestMatches DEF AgentSync
<1> DEFINE Reading(c, re, next) ==
              \/ /\ Received(c)
                 /\ mismatched' = (mismatched \/ Arrival(c).re # re)
                 /\ Goto(next) \/ Fail
              \/ TimedOut(c) /\ Fail /\ UNCHANGED mismatched
<1>14. ASSUME NEW label, NEW c, NEW serving, NEW re, NEW next, Read(label, c, serving, re, next)
       PROVE  pc = label /\ Reading(c, re, next) /\ UNCHANGED <<raddr, due, repeats>>
  BY <1>14, Zenon DEF Read
<1>15. CASE ReadProbe
  <2>1. pc = "readProbe" /\ Reading("main", "probe", "p2psrv") /\ UNCHANGED <<raddr, due, repeats>>
    BY <1>14, <1>15, Zenon DEF ReadProbe
  <2> QED BY <1>0, <1>1, <1>2, <2>1, ReadMatches
<1>16. CASE ReadP2psrv
  <2>1. pc = "readP2psrv" /\ Reading("main", "p2psrv", "openP2p") /\ UNCHANGED <<raddr, due, repeats>>
    BY <1>14, <1>16, Zenon DEF ReadP2psrv
  <2> QED BY <1>0, <1>1, <1>2, <2>1, ReadMatches
<1>17. CASE ReadProbeDevice
  <2>1. /\ pc = "readProbeDevice" /\ Reading("p2p", "probeDevice", "info")
        /\ UNCHANGED <<raddr, due, repeats>>
    BY <1>14, <1>17, Zenon DEF ReadProbeDevice
  <2> QED BY <1>0, <1>1, <1>2, <2>1, ReadMatches
<1>18. CASE ReadInfo
  <2>1. pc = "readInfo" /\ Reading("p2p", "info", "relay") /\ UNCHANGED <<raddr, due, repeats>>
    BY <1>14, <1>18, Zenon DEF ReadInfo
  <2> QED BY <1>0, <1>1, <1>2, <2>1, ReadMatches
<1>19. CASE ReadRelay
  <2>1. pc = "readRelay" /\ Reading("main", "relay", "openDevice") /\ UNCHANGED <<raddr, due, repeats>>
    BY <1>14, <1>19, Zenon DEF ReadRelay
  <2> QED BY <1>0, <1>1, <1>2, <2>1, ReadMatches
<1>20. CASE ReadAgent
  <2>1. pc = "readAgent" /\ Reading("p2p", "agent", "start") /\ UNCHANGED <<raddr, due, repeats>>
    BY <1>14, <1>20, Zenon DEF ReadAgent
  <2> QED BY <1>0, <1>1, <1>2, <2>1, ReadMatches
<1>21. CASE ReadStart
  <2>1. pc = "readStart" /\ Reading("p2p", "start", "readChannel") /\ UNCHANGED <<raddr, due, repeats>>
    BY <1>14, <1>21, Zenon DEF ReadStart
  <2> QED BY <1>0, <1>1, <1>2, <2>1, ReadMatches
<1>22. CASE ReadNatInfo
  <2>1. pc = "readNatInfo" /\ Reading("p2p", "natInfo", "agentSync") /\ UNCHANGED <<raddr, due, repeats>>
    BY <1>22, Zenon DEF ReadNatInfo
  <2> QED BY <1>0, <1>1, <1>2, <2>1, ReadMatches
<1>23. CASE ReadAgentSync
  <2>1. pc = "readAgentSync" /\ Reading("p2p", "sync", "sign") /\ UNCHANGED <<raddr, due, repeats>>
    BY <1>14, <1>23, Zenon DEF ReadAgentSync
  <2> QED BY <1>0, <1>1, <1>2, <2>1, ReadMatches
<1>24. CASE RequestChannel
  BY <1>24, ChannelMatches, Zenon
<1>25. CASE ReadChannel \/ ReadFinalChannel
  BY <1>25, ChannelReadMatches, Zenon
<1>26. CASE RelayChannel
  BY <1>26, RelayChannelMatches, Zenon
<1>27. CASE RequestSign \/ ReadSign \/ NoSign \/ CloseCloud
  <2>1. /\ pc' \in {"sign", "readSign", "closeCloud", "punch", "returned"}
        /\ UNCHANGED <<repeats, mismatched>>
    BY <1>27, Zenon DEF RequestSign, Request, ReadSign, NoSign, CloseCloud, Goto, Fail, Reads,
       netVars
  <2> QED BY <2>1, MatchBeyond, Zenon DEF BeforeSign, CloudLabels
<1> QED BY Zenon, <1>3, <1>4, <1>5, <1>6, <1>7, <1>8, <1>9, <1>10, <1>11, <1>12, <1>13, <1>15,
           <1>16,
           <1>17, <1>18, <1>19, <1>20, <1>21, <1>22, <1>23, <1>24, <1>25, <1>26, <1>27 DEF Cloud

(* The direct attempts do not come back to these labels, and use no answer *)
(* in this sense.                                                          *)
LEMMA DirectMatches ==
    ASSUME MatchInv, Direct
    PROVE  MatchInv'
<1>1. pc' \notin BeforeSign /\ UNCHANGED <<repeats, mismatched>>
  BY Zenon DEF Direct, Punch, AwaitPunch, Drain, SendSync, ReadSync, SendAuth, ReadAuth, NoAuth,
         SendFinal, ReadFinal, Settle, Succeed, SendDirect, AttemptFails, Enter, Fail, Reads,
         netVars, BeforeSign, CloudLabels
<1> QED BY <1>1, MatchBeyond, Zenon

(* An answer that arrives is the one waited for, and the last of its kind; *)
(* what the network repeats is excluded.                                   *)
LEMMA NetworkMatches ==
    ASSUME TypeOK, TypeOK', MatchInv, Network
    PROVE  MatchInv'
<1>0. PICK c \in Clients, s \in Servers : \E i \in DOMAIN due[<<c, s>>] : Deliver(c, s, i) \/ Repeat(c, s, i)
  BY Zenon DEF Network
<1>1. PICK i \in DOMAIN due[<<c, s>>] : Deliver(c, s, i) \/ Repeat(c, s, i)
  BY <1>0, Zenon
<1>2. due[<<c, s>>] \in Seq(Datagrams) /\ i \in 1..Len(due[<<c, s>>])
  BY <1>1, TypeSplit DEF NetOK
<1>3. CASE Repeat(c, s, i)
  <2>1. repeats' # 0
    BY <1>3, TypeSplit DEF Repeat, NetOK
  <2> QED BY <2>1, Zenon DEF MatchInv, AnswersMatch
<1>4. CASE Deliver(c, s, i)
  <2>0. UNCHANGED <<pc, raddr, repeats, mismatched>> /\ Arrives(c, s, i)
    BY <1>4, Zenon DEF Deliver
  <2> SUFFICES ASSUME repeats = 0, pc \in BeforeSign
               PROVE  OneAnswer' /\ ChannelAnswers' /\ Connected'
    BY <2>0, Zenon DEF MatchInv, AnswersMatch
  <2>1. OneAnswer /\ ChannelAnswers /\ Connected
    BY Zenon DEF MatchInv
  <2>2. /\ inbox'[c] \in Seq(Datagrams) /\ inbox[c] \in Seq(Datagrams)
        /\ \A d \in Clients \ {c} : inbox'[d] = inbox[d]
        /\ Len(inbox'[c]) = Len(inbox[c]) + 1
        /\ \A j \in 1..Len(inbox[c]) : inbox'[c][j] = inbox[c][j]
        /\ inbox'[c][Len(inbox[c]) + 1] = due[<<c, s>>][i]
    BY <1>2, <2>0, ArrivesAppends, TypeSplit DEF NetOK
  <2>3. /\ due'[<<c, s>>] \in Seq(Datagrams)
        /\ \A link \in Clients \X Servers : link # <<c, s>> => due'[link] = due[link]
        /\ Len(due'[<<c, s>>]) = Len(due[<<c, s>>]) - i
        /\ \A j \in 1..Len(due[<<c, s>>]) - i : due'[<<c, s>>][j] = due[<<c, s>>][i + j]
    BY <1>2, <1>4, DeliverLeaves, Zenon
  <2> DEFINE buf == inbox[c]
             new == inbox'[c]
             q == due[<<c, s>>]
             r == due'[<<c, s>>]
  <2>4. /\ buf \in Seq(Datagrams) /\ new \in Seq(Datagrams) /\ q \in Seq(Datagrams)
        /\ r \in Seq(Datagrams) /\ i \in 1..Len(q)
        /\ Len(new) = Len(buf) + 1 /\ new[Len(buf) + 1] = q[i]
        /\ \A j \in 1..Len(buf) : new[j] = buf[j]
        /\ Len(r) = Len(q) - i /\ \A j \in 1..Len(q) - i : r[j] = q[i + j]
    BY <1>2, <2>2, <2>3, Zenon
  <2>5. /\ \A j \in DOMAIN r : \E m \in DOMAIN q : r[j] = q[m]
        /\ \A j \in DOMAIN new : (\E m \in DOMAIN buf : new[j] = buf[m]) \/ new[j] = q[i]
        /\ i \in DOMAIN q
    <3> HIDE DEF q, r, buf, new
    <3>1. /\ DOMAIN r = 1..Len(q) - i /\ DOMAIN q = 1..Len(q) /\ Len(q) \in Nat
          /\ DOMAIN new = 1..Len(buf) + 1 /\ DOMAIN buf = 1..Len(buf) /\ Len(buf) \in Nat
      BY <2>4
    <3>2. ASSUME NEW j \in DOMAIN r PROVE i + j \in DOMAIN q /\ r[j] = q[i + j]
      <4>1. j \in 1..Len(q) - i /\ i \in 1..Len(q) /\ Len(q) \in Nat
        BY <2>4, <3>1, Zenon
      <4>2. r[j] = q[i + j]
        BY <2>4, <4>1, Zenon
      <4>3. i + j \in 1..Len(q)
        BY <4>1
      <4> QED BY <3>1, <4>2, <4>3, Zenon
    <3>3. i \in DOMAIN q
      BY <2>4, <3>1, Zenon
    <3>4. ASSUME NEW j \in DOMAIN new PROVE (j \in DOMAIN buf /\ new[j] = buf[j]) \/ new[j] = q[i]
      BY <2>4, <3>1
    <3> QED BY <3>2, <3>3, <3>4, Zenon
  <2>6. OneAnswer'
    <3> SUFFICES ASSUME NEW d \in Cloudy, NEW t \in Servers
                 PROVE  /\ \A j \in DOMAIN due'[<<d, t>>] : due'[<<d, t>>][j].from = t
                        /\ Stray(d, t) \/ Awaited(pc, d, t, inbox'[d], due'[<<d, t>>])
      BY <2>0, Zenon DEF OneAnswer
    <3>0. /\ d \in Clients /\ \A j \in DOMAIN due[<<d, t>>] : due[<<d, t>>][j].from = t
          /\ Stray(d, t) \/ Awaited(pc, d, t, inbox[d], due[<<d, t>>])
      BY <2>1, CloudyTypes, Zenon DEF OneAnswer
    <3>1. CASE d # c
      <4>1. inbox'[d] = inbox[d] /\ due'[<<d, t>>] = due[<<d, t>>]
        BY <2>2, <2>3, <3>0, <3>1, Zenon
      <4> QED BY <3>0, <4>1, Zenon
    <3>2. CASE d = c /\ t = s
      <4>1. (\A j \in DOMAIN q : q[j].from = s) /\ (Stray(c, s) \/ Awaited(pc, c, s, buf, q))
        BY <3>0, <3>2, Zenon
      <4>2. \A j \in DOMAIN r : r[j].from = s
        BY <2>5, <4>1, Zenon
      <4>3. Stray(c, s) \/ Awaited(pc, c, s, new, r)
        <5> HIDE DEF q, r, buf, new
        <5> QED BY <2>4, <4>1, AwaitedDelivered, Zenon
      <4> QED BY <3>2, <4>2, <4>3, Zenon
    <3>3. CASE d = c /\ t # s
      <4>0. c \in Cloudy
        BY <3>3, Zenon
      <4>1. due'[<<c, t>>] = due[<<c, t>>]
        BY <2>3, <3>3, Zenon
      <4>2. q[i].from = s /\ q[i].from # t
        BY <2>1, <2>5, <3>3, <4>0, Zenon DEF OneAnswer
      <4>3. Stray(c, t) \/ Awaited(pc, c, t, new, due[<<c, t>>])
        <5> DEFINE p == due[<<c, t>>]
                   datagram == q[i]
        <5>1. Stray(c, t) \/ Awaited(pc, c, t, buf, p)
          BY <3>0, <3>3, Zenon
        <5>2. new[Len(buf) + 1] = datagram /\ datagram.from # t
          BY <2>4, <4>2, Zenon
        <5> HIDE DEF p, buf, new, datagram
        <5>3. Stray(c, t) \/ Awaited(pc, c, t, new, p)
          BY <2>4, <5>1, <5>2, AwaitedElsewhere
        <5> QED BY <5>3, Zenon DEF p
      <4> QED BY <3>0, <3>3, <4>1, <4>3, Zenon
    <3> QED BY <3>1, <3>2, <3>3, Zenon
  <2>7. ChannelAnswers'
    <3>0. /\ device \in Clients
          /\ \A j \in DOMAIN inbox[device] : inbox[device][j].re \in {"continue", "channel"}
          /\ \A t \in Servers : \A j \in DOMAIN due[<<device, t>>] :
                due[<<device, t>>][j].re \in {"continue", "channel"}
      BY <2>1, Zenon DEF ChannelAnswers, Clients, device
    <3>1. CASE c # device
      <4>1. inbox'[device] = inbox[device] /\ \A t \in Servers : due'[<<device, t>>] = due[<<device, t>>]
        BY <2>2, <2>3, <3>0, <3>1, Zenon
      <4> QED BY <3>0, <4>1, Zenon DEF ChannelAnswers
    <3>2. CASE c = device
      <4>1. /\ \A j \in DOMAIN buf : buf[j].re \in {"continue", "channel"}
            /\ \A j \in DOMAIN q : q[j].re \in {"continue", "channel"}
        BY <3>0, <3>2, Zenon
      <4>2. /\ \A j \in DOMAIN new : new[j].re \in {"continue", "channel"}
            /\ \A j \in DOMAIN r : r[j].re \in {"continue", "channel"}
        <5> HIDE DEF q, r, buf, new
        <5> QED BY <2>5, <4>1, Zenon
      <4>3. \A t \in Servers : t # s => due'[<<device, t>>] = due[<<device, t>>]
        BY <2>3, <3>0, <3>2, Zenon
      <4> QED BY <3>0, <3>2, <4>2, <4>3, Zenon DEF ChannelAnswers
    <3> QED BY <3>1, <3>2, Zenon
  <2> QED BY <2>0, <2>1, <2>6, <2>7, Zenon DEF Connected
<1> QED BY <1>1, <1>3, <1>4, Zenon

(* Requests and answers stay paired: for every number of reads, retries    *)
(* and repeated datagrams, every read before the direct attempts uses the  *)
(* answer to its own request as long as the network has repeated nothing   *)
(* (dh/handshake.go matches responses by their order on the socket alone). *)
THEOREM AnswersPaired == Spec => []AnswersMatch
<1>1. Init => MatchInv
  <2> SUFFICES ASSUME Init PROVE MatchInv
    BY Zenon
  <2>1. \A c \in Clients, s \in Servers : inbox[c] = <<>> /\ due[<<c, s>>] = <<>>
    BY Zenon DEF Init
  <2>2. Cloudy \subseteq Clients /\ device \in Clients /\ DOMAIN <<>> = {}
    BY DEF Cloudy, Clients, device
  <2>3. \A c \in Cloudy, s \in Servers : Silent(s, inbox[c], due[<<c, s>>])
    BY <2>1, <2>2, Zenon DEF Silent
  <2>4. OneAnswer
    BY <2>1, <2>2, <2>3, SilentAwaited, Zenon DEF OneAnswer
  <2>5. ChannelAnswers
    BY <2>1, <2>2, Zenon DEF ChannelAnswers, Servers
  <2>6. Connected
    BY Zenon DEF Connected, Waits, Init
  <2> QED BY <2>4, <2>5, <2>6, Zenon DEF MatchInv, AnswersMatch, Init
<1>2. TypeOK /\ TypeOK' /\ MatchInv /\ [Next]_vars => MatchInv'
  <2> SUFFICES ASSUME TypeOK, TypeOK', MatchInv, [Next]_vars PROVE MatchInv'
    BY Zenon
  <2>1. CASE UNCHANGED vars
    BY <2>1, Zenon DEF MatchInv, OneAnswer, ChannelAnswers, Connected, AnswersMatch, vars, netVars
  <2> QED BY <2>1, CloudMatches, DirectMatches, NetworkMatches, Zenon DEF Next
<1>3. MatchInv => AnswersMatch
  BY Zenon DEF MatchInv
<1> QED BY <1>1, <1>2, <1>3, TypeCorrect, PTL DEF Spec
=============================================================================
