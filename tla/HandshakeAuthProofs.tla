------------------------- MODULE HandshakeAuthProofs -------------------------
(***************************************************************************)
(* The auth of a successful attempt, for any number of reads, attempts and *)
(* late answers.  While nothing is repeated, the answers of a server that  *)
(* wait for the device's socket are in the order of the attempts that      *)
(* asked for them; so an attempt that took the answer to its own SYNC has  *)
(* no older one left in front of the answer to its auth.                   *)
(***************************************************************************)
EXTENDS HandshakeProofs

USE DEF device

(* The direct attempts are numbered from 1. *)
AttemptInv ==
    /\ pc \in CloudLabels => attempt = 0
    /\ pc \in DirectLabels => attempt >= 1

(* A datagram that may be waiting for the device's socket in attempt a. *)
Plausible(d, a) == d.n <= a /\ (d.re = "authOk" => d.n >= 1)

(* All that waits for the device's socket is plausible. *)
BoundedFrom(s, buf, q, a) ==
    /\ \A i \in DOMAIN buf : Plausible(buf[i], a)
    /\ \A i \in DOMAIN q : Plausible(q[i], a) /\ q[i].from = s

(* The answers of s, received in buf or still to come in q, are in the     *)
(* order of the attempts that asked for them.                              *)
OrderedFrom(s, buf, q) ==
    /\ \A i, j \in DOMAIN buf :
          i <= j /\ buf[i].from = s /\ buf[j].from = s => buf[i].n <= buf[j].n
    /\ \A i, j \in DOMAIN q : i <= j => q[i].n <= q[j].n
    /\ \A i \in DOMAIN buf, j \in DOMAIN q : buf[i].from = s => buf[i].n <= q[j].n

(* The same of the state: what is plausible, and its order. *)
Bounded == \A s \in Servers : BoundedFrom(s, inbox[device], due[<<device, s>>], attempt)
InOrder == repeats = 0 => \A s \in Servers : OrderedFrom(s, inbox[device], due[<<device, s>>])

(* Once an attempt has taken the answer to its own SYNC, the peer has only *)
(* answers to this attempt left to give.                                   *)
FreshFrom(s, buf, q, a) ==
    /\ \A i \in DOMAIN buf : buf[i].from = s => buf[i].n >= a
    /\ \A i \in DOMAIN q : q[i].n >= a

(* The peer is fresh between its SYNC and its answer to the auth. *)
AfterSync ==
    pc \in {"auth", "readAuth"} /\ repeats = 0 /\ syncOf = attempt /\ peer \in Servers =>
        FreshFrom(peer, inbox[device], due[<<device, peer>>], attempt)

(* What ReadAuth has recorded when it goes on. *)
AuthRecorded ==
    pc \in {"final", "readFinal", "settle"} \/ result = "ok" =>
        /\ authOf \in 1..attempt
        /\ repeats = 0 /\ syncOf = attempt => authOf = attempt

(* The inductive invariant of the direct attempts. *)
AuthInv == AttemptInv /\ Bounded /\ InOrder /\ AfterSync /\ AuthRecorded

(* What a step of the handshake does to the device's socket: it reads from *)
(* the front of the buffer and asks for more at the end of the queues.     *)
Shifted ==
    \E k \in 0..Len(inbox[device]) :
        /\ Len(inbox'[device]) = Len(inbox[device]) - k
        /\ \A j \in 1..Len(inbox[device]) - k : inbox'[device][j] = inbox[device][k + j]

(* The queues grow by answers of this attempt, to an auth only from attempt *)
(* 1 on.                                                                   *)
Asked ==
    \A s \in Servers :
        /\ Grown(<<device, s>>, due'[<<device, s>>])
        /\ \A i \in Len(due[<<device, s>>]) + 1..Len(due'[<<device, s>>]) :
              due'[<<device, s>>][i].re = "authOk" => attempt >= 1

(* Whatever a step does with the buffer, it reads from the front. *)
LEMMA ShiftedCases ==
    ASSUME TypeOK, TypeOK',
           \/ UNCHANGED inbox
           \/ \E c \in Clients : Received(c) \/ TimedOut(c)
           \/ HasFirst(Answering) /\ inbox' = After(device, First(Answering))
           \/ inbox' = [inbox EXCEPT !["main"] = <<>>, !["p2p"] = <<>>]
           \/ inbox' = [inbox EXCEPT ![device] = <<>>]
    PROVE  Shifted
<1>0. /\ inbox[device] \in Seq(Datagrams) /\ inbox \in [Clients -> Seq(Datagrams)]
      /\ device \in Clients /\ Len(inbox[device]) \in Nat
  BY TypeSplit DEF NetOK, Clients
<1>1. CASE inbox'[device] = inbox[device]
  BY <1>0, <1>1 DEF Shifted
<1>2. CASE inbox'[device] = <<>>
  <2>1. Len(inbox'[device]) = Len(inbox[device]) - Len(inbox[device])
    BY <1>0, <1>2
  <2> QED BY <1>0, <2>1 DEF Shifted
<1>3. ASSUME NEW i \in 1..Len(inbox[device]), Taken(device, i) PROVE Shifted
  BY <1>0, <1>3 DEF Shifted, Taken
<1>4. ASSUME NEW c \in Clients, Received(c) \/ TimedOut(c) PROVE Shifted
  <2>1. CASE c # device
    <3>1. inbox'[device] = inbox[device]
      BY <1>0, <1>4, <2>1, ReceivedTakes, TimedOutEmpties, Zenon DEF Taken
    <3> QED BY <1>1, <3>1, Zenon
  <2>2. CASE c = device /\ TimedOut(c)
    BY <1>0, <1>2, <2>2, TimedOutEmpties, Zenon
  <2>3. CASE c = device /\ Received(c)
    BY <1>0, <1>3, <2>3, ReceivedTakes, Zenon
  <2> QED BY <1>4, <2>1, <2>2, <2>3, Zenon
<1>5. CASE HasFirst(Answering) /\ inbox' = After(device, First(Answering))
  BY <1>3, <1>5, AwaitTakes, Zenon
<1>6. CASE inbox' = [inbox EXCEPT !["main"] = <<>>, !["p2p"] = <<>>]
  <2>1. inbox'[device] = inbox[device]
    BY <1>0, <1>6, Zenon
  <2> QED BY <1>1, <2>1, Zenon
<1>7. CASE inbox' = [inbox EXCEPT ![device] = <<>>]
  <2>1. inbox'[device] = <<>>
    BY <1>0, <1>7, Zenon
  <2> QED BY <1>2, <2>1, Zenon
<1> QED BY <1>1, <1>4, <1>5, <1>6, <1>7, Zenon

(* A queue that does not change is a queue that grew by nothing. *)
LEMMA AskedNothing ==
    ASSUME TypeOK, \A s \in Servers : due'[<<device, s>>] = due[<<device, s>>]
    PROVE  Asked
<1>1. \A s \in Servers : due[<<device, s>>] \in Seq(Datagrams) /\ Len(due[<<device, s>>]) \in Nat
  <2>1. device \in Clients
    BY Zenon DEF Clients
  <2>2. \A s \in Servers : <<device, s>> \in Clients \X Servers
    BY <2>1, Zenon
  <2>3. \A s \in Servers : due[<<device, s>>] \in Seq(Datagrams)
    BY <2>2, TypeSplit, Zenon DEF NetOK
  <2>4. \A q \in Seq(Datagrams) : Len(q) \in Nat
    OBVIOUS
  <2> QED BY <2>3, <2>4, Zenon
<1>2. ASSUME NEW s \in Servers
      PROVE  /\ Grown(<<device, s>>, due'[<<device, s>>])
             /\ Len(due[<<device, s>>]) + 1..Len(due'[<<device, s>>]) = {}
  BY <1>1 DEF Grown, GrownBy
<1> QED BY <1>2, Zenon DEF Asked

(* A request of another client asks the device for nothing. *)
LEMMA AskedElsewhere ==
    ASSUME TypeOK, NEW c \in Clients \ {device}, NEW s \in Servers \cup {None},
           NEW answers \in Seq(Re), due' = Owing(c, s, answers)
    PROVE  Asked
<1>1. ASSUME NEW t \in Servers PROVE due'[<<device, t>>] = due[<<device, t>>]
  <2>1. <<device, t>> \in Clients \X Servers /\ <<device, t>> # <<c, s>>
    BY Zenon DEF Clients
  <2> QED BY <2>1, OwingIs
<1> QED BY <1>1, AskedNothing, Zenon

(* Every step of the exchanges with the cloud. *)
LEMMA CloudAsks ==
    ASSUME TypeOK, TypeOK', AttemptInv, Cloud
    PROVE  Shifted /\ Asked /\ attempt' >= attempt /\ attempt' \in Nat
<1>0. /\ \A a \in Re : <<a>> \in Seq(Re)
      /\ \A a, b \in Re : <<a, b>> \in Seq(Re)
      /\ attempt \in Nat /\ attempt' \in Nat
      /\ Clients = {"main", "p2p", "device"}
  BY TypeSplit DEF ControlOK, Clients, TypeOK
<1>1. attempt' >= attempt
  <2>1. attempt' = attempt \/ (attempt = 0 /\ attempt' = 1)
    BY <1>0, Zenon
       DEF Cloud, OpenMain, ProbeP2psrv, ReadProbe, OnlineP2psrv, ReadP2psrv, OpenP2p, ProbeDevice,
           ReadProbeDevice, InfoDevice, ReadInfo, OnlineRelay, ReadRelay, OpenDevice,
           RequestChannel, RelayAgent, ReadAgent, RelayStart, ReadStart, ReadChannel,
           ReadFinalChannel, RelayChannel, ReadNatInfo, AgentSync, ReadAgentSync, RequestSign,
           ReadSign, NoSign, CloseCloud, Open, Request, Read, UseChannel, Goto, Fail, Reads,
           AttemptInv, CloudLabels
  <2> QED BY <1>0, <2>1
<1>2. Shifted
  <2>1. \/ UNCHANGED inbox
        \/ Received("main") \/ TimedOut("main") \/ Received("p2p") \/ TimedOut("p2p")
        \/ Received("device") \/ TimedOut("device")
        \/ inbox' = [inbox EXCEPT !["main"] = <<>>, !["p2p"] = <<>>]
    BY Zenon DEF Cloud, OpenMain, ProbeP2psrv, ReadProbe, OnlineP2psrv, ReadP2psrv, OpenP2p,
       ProbeDevice,
           ReadProbeDevice, InfoDevice, ReadInfo, OnlineRelay, ReadRelay, OpenDevice,
           RequestChannel, RelayAgent, ReadAgent, RelayStart, ReadStart, ReadChannel,
           ReadFinalChannel, RelayChannel, ReadNatInfo, AgentSync, ReadAgentSync, RequestSign,
           ReadSign, NoSign, CloseCloud, Open, Request, Read, netVars
  <2> QED BY <1>0, <2>1, ShiftedCases, Zenon
<1>3. CASE UNCHANGED due
  BY <1>0, <1>1, <1>2, <1>3, AskedNothing, Zenon
<1>4. CASE ProbeP2psrv \/ OnlineP2psrv \/ ProbeDevice \/ InfoDevice \/ OnlineRelay
  <2>1. /\ {"main", "p2p"} \subseteq Clients \ {device} /\ {"main", "p2psrv"} \subseteq Servers
        /\ {"probe", "p2psrv", "probeDevice", "info", "relay"} \subseteq Re
    BY Zenon DEF Clients, Servers, Re, DhAnswers
  <2>2. \E c \in {"main", "p2p"}, s \in {"main", "p2psrv"},
           a \in {"probe", "p2psrv", "probeDevice", "info", "relay"} :
            UNCHANGED due \/ due' = Owing(c, s, <<a>>)
    BY <1>4, Zenon DEF ProbeP2psrv, OnlineP2psrv, ProbeDevice, InfoDevice, OnlineRelay, Request
  <2> QED BY <1>0, <1>1, <1>2, <1>3, <2>1, <2>2, AskedElsewhere, Zenon
<1>5. CASE RelayAgent \/ RelayStart \/ AgentSync
  <2>1. \E c \in Clients \ {device}, s \in Servers, a \in Re :
            UNCHANGED due \/ due' = Owing(c, s, <<a>>)
    BY <1>5 DEF RelayAgent, RelayStart, AgentSync, Request, Clients, Servers, Re, DhAnswers,
                PtcpAnswers
  <2> QED BY <1>0, <1>1, <1>2, <1>3, <2>1, AskedElsewhere, Zenon
<1>6. CASE RequestSign \/ ReadSign
  <2>1. \E s \in Servers \cup {None} : UNCHANGED due \/ due' = Owing("p2p", s, <<"ack", "sign">>)
    BY <1>6, TypeSplit, Zenon DEF RequestSign, ReadSign, Request, Clients, Servers, NetOK
  <2>2. "p2p" \in Clients \ {device} /\ <<"ack", "sign">> \in Seq(Re)
    BY <1>0, Zenon DEF Re, PtcpAnswers
  <2> QED BY <1>0, <1>1, <1>2, <1>3, <2>1, <2>2, AskedElsewhere, Zenon
<1>7. CASE RelayChannel /\ ~UNCHANGED due
  <2>1. \A s \in Servers : due'[<<device, s>>] = due[<<device, s>>]
    BY <1>7, TypeSplit, Zenon DEF RelayChannel, NetOK, Clients
  <2> QED BY <1>0, <1>1, <1>2, <2>1, AskedNothing, Zenon
<1>8. CASE CloseCloud
  <2>1. \A s \in Servers : due'[<<device, s>>] = due[<<device, s>>]
    BY <1>8, Zenon DEF CloseCloud, Clients
  <2> QED BY <1>0, <1>1, <1>2, <2>1, AskedNothing, Zenon
<1>9. CASE RequestChannel /\ ~UNCHANGED due
  <2>1. PICK answers \in {<<"channel">>, <<"continue", "channel">>} :
            due' = Owing(device, "main", answers)
    BY <1>9, Zenon DEF RequestChannel, Request
  <2>2. /\ answers \in Seq(Re) /\ device \in Clients /\ "main" \in Servers
        /\ \A i \in 1..Len(answers) : answers[i] # "authOk"
    <3>1. {"channel", "continue"} \subseteq Re /\ device \in Clients /\ "main" \in Servers
      BY Zenon DEF Re, DhAnswers, Servers, Clients
    <3>2. CASE answers = <<"channel">>
      BY <1>0, <3>1, <3>2
    <3>3. CASE answers = <<"continue", "channel">>
      BY <1>0, <3>1, <3>3
    <3> QED BY <3>2, <3>3, Zenon
  <2>3. ASSUME NEW s \in Servers, NEW i \in Len(due[<<device, s>>]) + 1..Len(due'[<<device, s>>])
        PROVE  due'[<<device, s>>][i].re # "authOk"
    <3>1. CASE s # "main"
      <4>1. due'[<<device, s>>] = due[<<device, s>>] /\ Len(due[<<device, s>>]) \in Nat
        BY <2>1, <2>2, <3>1, OwingIs, TypeSplit DEF NetOK
      <4> QED BY <2>3, <4>1
    <3>2. CASE s = "main"
      <4> DEFINE k == i - Len(due[<<device, s>>])
      <4>1. due'[<<device, s>>] = Owed(device, "main", answers) /\ Len(due[<<device, s>>]) \in Nat
        BY <2>1, <2>2, <3>2, OwingIs, TypeSplit DEF NetOK
      <4>2. /\ Len(Owed(device, "main", answers)) = Len(due[<<device, "main">>]) + Len(answers)
            /\ \A j \in 1..Len(answers) : Owed(device, "main", answers)[Len(due[<<device, "main">>]) + j]
                                            = [from |-> "main", re |-> answers[j], n |-> attempt]
        BY <2>2, OwedIs, Zenon
      <4>3. k \in 1..Len(answers) /\ Len(due[<<device, s>>]) + k = i
        BY <2>2, <2>3, <3>2, <4>1, <4>2
      <4>4. due'[<<device, s>>][i] = [from |-> "main", re |-> answers[k], n |-> attempt]
        BY <3>2, <4>1, <4>2, <4>3, Zenon
      <4> QED BY <2>2, <4>3, <4>4
    <3> QED BY <3>1, <3>2, Zenon
  <2>4. \A s \in Servers : Grown(<<device, s>>, due'[<<device, s>>])
    BY <2>1, <2>2, OwingGrows, Zenon
  <2> QED BY <1>0, <1>1, <1>2, <2>3, <2>4, Zenon DEF Asked
<1> QED
  BY <1>3, <1>4, <1>5, <1>6, <1>7, <1>8, <1>9, Zenon
     DEF Cloud, OpenMain, ReadProbe, ReadP2psrv, OpenP2p, ReadProbeDevice, ReadInfo, ReadRelay,
         OpenDevice, ReadAgent, ReadStart, ReadChannel, ReadFinalChannel, ReadNatInfo,
         ReadAgentSync, NoSign, Open, Read, netVars

(* Every step of the direct attempts. *)
LEMMA DirectAsks ==
    ASSUME TypeOK, TypeOK', AttemptInv, Direct
    PROVE  Shifted /\ Asked /\ attempt' >= attempt /\ attempt' \in Nat
<1>0. /\ \A a \in Re : <<a>> \in Seq(Re)
      /\ \A a, b \in Re : <<a, b>> \in Seq(Re)
      /\ attempt \in Nat /\ attempt' \in Nat
      /\ device \in Clients /\ peer \in Servers \cup {None}
  BY TypeSplit DEF ControlOK, NetOK, Clients, TypeOK, peer
<1>1. attempt' >= attempt
  BY <1>0
     DEF Direct, Punch, AwaitPunch, Drain, SendSync, ReadSync, SendAuth, ReadAuth, NoAuth, SendFinal,
         ReadFinal, Settle, Succeed, SendDirect, Enter, Reads, AttemptFails, Fail
<1>2. Shifted
  <2>1. \/ UNCHANGED inbox
        \/ Received(device) \/ TimedOut(device)
        \/ HasFirst(Answering) /\ inbox' = After(device, First(Answering))
        \/ inbox' = [inbox EXCEPT ![device] = <<>>]
    BY Zenon DEF Direct, Punch, AwaitPunch, Drain, SendSync, ReadSync, SendAuth, ReadAuth, NoAuth,
           SendFinal, ReadFinal, Settle, Succeed, SendDirect, netVars
  <2> QED BY <1>0, <2>1, ShiftedCases, Zenon
<1>3. attempt >= 1
  BY Zenon DEF Direct, Punch, AwaitPunch, Drain, SendSync, ReadSync, SendAuth, ReadAuth, NoAuth,
         SendFinal, ReadFinal, Settle, Succeed, SendDirect, AttemptInv, DirectLabels
<1>4. \A s \in Servers : Grown(<<device, s>>, due'[<<device, s>>])
  <2>1. CASE UNCHANGED due
    BY <2>1, AskedNothing, Zenon DEF Asked
  <2>2. CASE Punch
    BY <1>0, <2>2, PunchGrows, Zenon
  <2>3. CASE AwaitPunch /\ ~UNCHANGED due
    <3>1. /\ HasFirst(Answering) /\ inbox' = After(device, First(Answering))
          /\ due' = Owing(device, inbox[device][First(Answering)].from, <<"stun">>)
      BY <2>3, Zenon DEF AwaitPunch
    <3>2. inbox[device][First(Answering)].from \in Servers /\ <<"stun">> \in Seq(Re)
      BY <1>0, <3>1, AwaitTakes, Zenon DEF Datagrams, Re
    <3> QED BY <1>0, <3>1, <3>2, OwingGrows, Zenon
  <2>4. CASE \E answers \in Seq(Re) : due' = Owing(device, peer, answers)
    BY <1>0, <2>4, OwingGrows, Zenon
  <2>5. CASE SendSync \/ SendAuth \/ SendFinal
    <3>1. <<"sync">> \in Seq(Re) /\ <<"ack", "authOk">> \in Seq(Re) /\ <<"ack">> \in Seq(Re)
      BY <1>0, Zenon DEF Re, PtcpAnswers
    <3> QED BY <2>1, <2>4, <2>5, <3>1, Zenon DEF SendSync, SendAuth, SendFinal, SendDirect
  <2> QED
    BY <2>1, <2>2, <2>3, <2>5, Zenon
       DEF Direct, Drain, ReadSync, ReadAuth, NoAuth, ReadFinal, Settle, Succeed, netVars
<1> QED BY <1>0, <1>1, <1>2, <1>3, <1>4, Zenon DEF Asked

(* Reading from the front of the buffer and asking at the end of the queue *)
(* keep the bounds and the order: what is asked for carries the highest    *)
(* attempt so far.                                                         *)
LEMMA OrderKept ==
    ASSUME NEW s, NEW buf \in Seq(Datagrams), NEW q \in Seq(Datagrams), NEW a \in Nat, NEW b \in Nat,
           NEW new \in Seq(Datagrams), NEW r, b >= a,
           NEW k \in 0..Len(buf), Len(new) = Len(buf) - k,
           \A j \in 1..Len(buf) - k : new[j] = buf[k + j],
           GrownBy(q, r, s, a),
           \A i \in Len(q) + 1..Len(r) : r[i].re = "authOk" => a >= 1,
           BoundedFrom(s, buf, q, a)
    PROVE  BoundedFrom(s, new, r, b) /\ (OrderedFrom(s, buf, q) => OrderedFrom(s, new, r))
<1>0. /\ Len(buf) \in Nat /\ Len(q) \in Nat /\ Len(r) \in Nat
      /\ r \in Seq(Datagrams)
  BY DEF GrownBy
<1>1. \A d \in Datagrams : d.n \in Nat
  BY DEF Datagrams
<1>2. \A j \in DOMAIN new : j \in Nat /\ k + j \in DOMAIN buf /\ new[j] = buf[k + j]
  <2>1. DOMAIN new = 1..Len(buf) - k /\ DOMAIN buf = 1..Len(buf)
    OBVIOUS
  <2> QED BY <1>0, <2>1
<1>3. \A i \in DOMAIN r : \/ i \in DOMAIN q /\ r[i] = q[i]
                          \/ /\ i \in Nat /\ i > Len(q) /\ r[i].from = s /\ r[i].n = a
                             /\ r[i].re = "authOk" => a >= 1
  <2>1. DOMAIN r = 1..Len(r) /\ DOMAIN q = 1..Len(q)
    BY <1>0
  <2>2. ASSUME NEW i \in 1..Len(r), i <= Len(q) PROVE i \in 1..Len(q) /\ r[i] = q[i]
    BY <1>0, <2>2 DEF GrownBy
  <2>3. ASSUME NEW i \in 1..Len(r), i > Len(q)
        PROVE  /\ i \in Nat /\ r[i].from = s /\ r[i].n = a
               /\ r[i].re = "authOk" => a >= 1
    <3>1. i \in Len(q) + 1..Len(r)
      BY <1>0, <2>3
    <3> QED BY <3>1 DEF GrownBy
  <2> QED BY <1>0, <2>1, <2>2, <2>3
<1>4. /\ \A j \in DOMAIN buf : buf[j].n \in Nat /\ buf[j].n <= a
      /\ \A j \in DOMAIN q : q[j].n \in Nat /\ q[j].n <= a
  BY <1>1 DEF BoundedFrom, Plausible
<1>5. BoundedFrom(s, new, r, b)
  <2>1. \A j \in DOMAIN new : Plausible(new[j], b)
    BY <1>2, <1>4 DEF BoundedFrom, Plausible
  <2>2. \A i \in DOMAIN r : Plausible(r[i], b) /\ r[i].from = s
    BY <1>3, <1>4 DEF BoundedFrom, Plausible
  <2> QED BY <2>1, <2>2, Zenon DEF BoundedFrom
<1>6. ASSUME OrderedFrom(s, buf, q) PROVE OrderedFrom(s, new, r)
  <2>1. ASSUME NEW i \in DOMAIN new, NEW j \in DOMAIN new, i <= j, new[i].from = s, new[j].from = s
        PROVE  new[i].n <= new[j].n
    <3>1. k + i <= k + j
      BY <1>2, <2>1
    <3> QED BY <1>2, <1>6, <2>1, <3>1, Zenon DEF OrderedFrom
  <2>2. ASSUME NEW i \in DOMAIN r, NEW j \in DOMAIN r, i <= j
        PROVE  r[i].n <= r[j].n
    <3>1. CASE j \in DOMAIN q /\ r[j] = q[j]
      <4>1. i \in DOMAIN q /\ r[i] = q[i]
        BY <1>0, <1>3, <2>2, <3>1
      <4> QED BY <1>6, <2>2, <3>1, <4>1, Zenon DEF OrderedFrom
    <3>2. CASE r[j].n = a
      BY <1>3, <1>4, <3>2
    <3> QED BY <1>3, <3>1, <3>2, Zenon
  <2>3. ASSUME NEW i \in DOMAIN new, NEW j \in DOMAIN r, new[i].from = s
        PROVE  new[i].n <= r[j].n
    <3>1. CASE j \in DOMAIN q /\ r[j] = q[j]
      BY <1>2, <1>6, <2>3, <3>1, Zenon DEF OrderedFrom
    <3>2. CASE r[j].n = a
      BY <1>2, <1>4, <3>2, Zenon
    <3> QED BY <1>3, <3>1, <3>2, Zenon
  <2> QED BY <2>1, <2>2, <2>3, Zenon DEF OrderedFrom
<1> QED BY <1>5, <1>6, Zenon

(* So does moving datagram i of the queue to the buffer, and losing the    *)
(* ones before it.                                                         *)
LEMMA OrderDelivered ==
    ASSUME NEW s, NEW buf \in Seq(Datagrams), NEW q \in Seq(Datagrams), NEW a \in Nat,
           NEW new \in Seq(Datagrams), NEW r \in Seq(Datagrams), NEW i \in 1..Len(q),
           Len(new) = Len(buf) + 1, new[Len(buf) + 1] = q[i],
           \A j \in 1..Len(buf) : new[j] = buf[j],
           Len(r) = Len(q) - i, \A j \in 1..Len(q) - i : r[j] = q[i + j],
           BoundedFrom(s, buf, q, a)
    PROVE  BoundedFrom(s, new, r, a) /\ (OrderedFrom(s, buf, q) => OrderedFrom(s, new, r))
<1>0. Len(buf) \in Nat /\ Len(q) \in Nat /\ i \in DOMAIN q /\ i \in Nat
  OBVIOUS
<1>1. /\ \A j \in DOMAIN buf : buf[j].n \in Nat
      /\ \A j \in DOMAIN q : q[j].n \in Nat
  <2>1. \A d \in Datagrams : d.n \in Nat
    BY DEF Datagrams
  <2>2. (\A j \in DOMAIN buf : buf[j] \in Datagrams) /\ (\A j \in DOMAIN q : q[j] \in Datagrams)
    OBVIOUS
  <2> QED BY <2>1, <2>2, Zenon
<1>2. \A j \in DOMAIN r : j \in Nat /\ i + j \in DOMAIN q /\ r[j] = q[i + j] /\ i <= i + j
  BY <1>0
<1>3. \A j \in DOMAIN new : \/ j \in DOMAIN buf /\ new[j] = buf[j]
                            \/ j = Len(buf) + 1 /\ new[j] = q[i]
  BY <1>0
<1>4. BoundedFrom(s, new, r, a)
  BY <1>0, <1>2, <1>3, Zenon DEF BoundedFrom
<1>5. ASSUME OrderedFrom(s, buf, q) PROVE OrderedFrom(s, new, r)
  <2>1. ASSUME NEW j \in DOMAIN new, NEW m \in DOMAIN new, j <= m, new[j].from = s, new[m].from = s
        PROVE  new[j].n <= new[m].n
    <3>1. CASE m \in DOMAIN buf /\ new[m] = buf[m]
      <4>1. j \in DOMAIN buf /\ new[j] = buf[j]
        BY <1>0, <1>3, <2>1, <3>1
      <4> QED BY <1>5, <2>1, <3>1, <4>1, Zenon DEF OrderedFrom
    <3>2. CASE new[m] = q[i]
      <4>1. CASE j \in DOMAIN buf /\ new[j] = buf[j]
        BY <1>0, <1>5, <2>1, <3>2, <4>1, Zenon DEF OrderedFrom
      <4>2. CASE new[j] = q[i]
        <5>1. q[i].n <= q[i].n
          BY <1>0, <1>1
        <5> QED BY <3>2, <4>2, <5>1, Zenon
      <4> QED BY <1>3, <4>1, <4>2, Zenon
    <3> QED BY <1>3, <3>1, <3>2, Zenon
  <2>2. ASSUME NEW j \in DOMAIN r, NEW m \in DOMAIN r, j <= m
        PROVE  r[j].n <= r[m].n
    <3>1. i + j <= i + m
      BY <1>0, <1>2, <2>2
    <3> QED BY <1>2, <1>5, <3>1, Zenon DEF OrderedFrom
  <2>3. ASSUME NEW j \in DOMAIN new, NEW m \in DOMAIN r, new[j].from = s
        PROVE  new[j].n <= r[m].n
    BY <1>0, <1>2, <1>3, <1>5, <2>3, Zenon DEF OrderedFrom
  <2> QED BY <2>1, <2>2, <2>3, Zenon DEF OrderedFrom
<1> QED BY <1>4, <1>5, Zenon

(* A datagram of another server that arrives does not disturb the order. *)
LEMMA OrderElsewhere ==
    ASSUME NEW s, NEW buf \in Seq(Datagrams), NEW q \in Seq(Datagrams), NEW a \in Nat,
           NEW new \in Seq(Datagrams), NEW d \in Datagrams,
           Len(new) = Len(buf) + 1, new[Len(buf) + 1] = d, d.from # s, Plausible(d, a),
           \A j \in 1..Len(buf) : new[j] = buf[j],
           BoundedFrom(s, buf, q, a)
    PROVE  BoundedFrom(s, new, q, a) /\ (OrderedFrom(s, buf, q) => OrderedFrom(s, new, q))
<1>1. \A j \in DOMAIN new : \/ j \in DOMAIN buf /\ new[j] = buf[j]
                            \/ j = Len(buf) + 1 /\ new[j] = d
  OBVIOUS
<1>2. BoundedFrom(s, new, q, a)
  BY <1>1, Zenon DEF BoundedFrom
<1>3. ASSUME OrderedFrom(s, buf, q) PROVE OrderedFrom(s, new, q)
  BY <1>1, <1>3, Zenon DEF OrderedFrom
<1> QED BY <1>2, <1>3, Zenon

(* After its own SYNC was answered, an attempt finds only its own answers. *)
LEMMA FreshAfter ==
    ASSUME NEW s, NEW buf \in Seq(Datagrams), NEW q \in Seq(Datagrams),
           NEW k \in 1..Len(buf), NEW new \in Seq(Datagrams), Len(new) = Len(buf) - k,
           \A j \in 1..Len(buf) - k : new[j] = buf[k + j],
           buf[k].from = s, OrderedFrom(s, buf, q)
    PROVE  FreshFrom(s, new, q, buf[k].n)
<1>0. /\ k \in DOMAIN buf /\ k \in Nat
      /\ \A j \in DOMAIN buf : buf[j].n \in Nat
      /\ \A j \in DOMAIN q : q[j].n \in Nat
  <2>1. \A d \in Datagrams : d.n \in Nat
    BY DEF Datagrams
  <2>2. (\A j \in DOMAIN buf : buf[j] \in Datagrams) /\ (\A j \in DOMAIN q : q[j] \in Datagrams)
    OBVIOUS
  <2> QED BY <2>1, <2>2
<1>1. \A j \in DOMAIN new : j \in Nat /\ k + j \in DOMAIN buf /\ new[j] = buf[k + j] /\ k <= k + j
  <2>1. DOMAIN new = 1..Len(buf) - k /\ DOMAIN buf = 1..Len(buf) /\ Len(buf) \in Nat
    OBVIOUS
  <2> QED BY <2>1
<1>2. ASSUME NEW j \in DOMAIN new, new[j].from = s PROVE new[j].n >= buf[k].n
  BY <1>0, <1>1, <1>2, Zenon DEF OrderedFrom
<1>3. ASSUME NEW j \in DOMAIN q PROVE q[j].n >= buf[k].n
  BY <1>0, <1>3, Zenon DEF OrderedFrom
<1> QED BY <1>2, <1>3, Zenon DEF FreshFrom

(* That stays so while the attempt reads and asks for more. *)
LEMMA FreshKept ==
    ASSUME NEW s, NEW buf \in Seq(Datagrams), NEW q \in Seq(Datagrams), NEW a \in Nat,
           NEW new \in Seq(Datagrams), NEW r,
           NEW k \in 0..Len(buf), Len(new) = Len(buf) - k,
           \A j \in 1..Len(buf) - k : new[j] = buf[k + j],
           GrownBy(q, r, s, a), FreshFrom(s, buf, q, a)
    PROVE  FreshFrom(s, new, r, a)
<1>0. Len(buf) \in Nat /\ Len(q) \in Nat /\ Len(r) \in Nat /\ r \in Seq(Datagrams)
  BY DEF GrownBy
<1>1. \A j \in DOMAIN new : k + j \in DOMAIN buf /\ new[j] = buf[k + j]
  <2>1. DOMAIN new = 1..Len(buf) - k /\ DOMAIN buf = 1..Len(buf)
    OBVIOUS
  <2> QED BY <1>0, <2>1
<1>2. \A i \in DOMAIN r : (i \in DOMAIN q /\ r[i] = q[i]) \/ r[i].n = a
  <2>1. DOMAIN r = 1..Len(r) /\ DOMAIN q = 1..Len(q)
    BY <1>0
  <2>2. ASSUME NEW i \in 1..Len(r), i <= Len(q) PROVE i \in 1..Len(q) /\ r[i] = q[i]
    BY <1>0, <2>2 DEF GrownBy
  <2>3. ASSUME NEW i \in 1..Len(r), i > Len(q) PROVE r[i].n = a
    <3>1. i \in Len(q) + 1..Len(r)
      BY <1>0, <2>3
    <3> QED BY <3>1, Zenon DEF GrownBy
  <2> QED BY <1>0, <2>1, <2>2, <2>3
<1> QED BY <1>1, <1>2 DEF FreshFrom

(* And while the network delivers. *)
LEMMA FreshDelivered ==
    ASSUME NEW s, NEW buf \in Seq(Datagrams), NEW q \in Seq(Datagrams), NEW a \in Nat,
           NEW new \in Seq(Datagrams), NEW d, Len(new) = Len(buf) + 1, new[Len(buf) + 1] = d,
           \A j \in 1..Len(buf) : new[j] = buf[j],
           d.from = s => d.n >= a, FreshFrom(s, buf, q, a)
    PROVE  FreshFrom(s, new, q, a)
<1>1. \A j \in DOMAIN new : \/ j \in DOMAIN buf /\ new[j] = buf[j]
                            \/ j = Len(buf) + 1 /\ new[j] = d
  OBVIOUS
<1> QED BY <1>1, Zenon DEF FreshFrom

(* The types of the device's queues, as the lemmas above need them. *)
LEMMA DeviceTypes ==
    ASSUME TypeOK
    PROVE  /\ inbox[device] \in Seq(Datagrams) /\ attempt \in Nat /\ device \in Clients
           /\ \A s \in Servers : due[<<device, s>>] \in Seq(Datagrams)
           /\ \A i \in DOMAIN inbox[device] : inbox[device][i].from \in Servers
<1>1. device \in Clients /\ attempt \in Nat
  BY TypeSplit DEF Clients, ControlOK
<1>2. inbox[device] \in Seq(Datagrams)
  BY <1>1, TypeSplit, Zenon DEF NetOK
<1>3. \A s \in Servers : <<device, s>> \in Clients \X Servers
  BY <1>1, Zenon
<1>4. \A s \in Servers : due[<<device, s>>] \in Seq(Datagrams)
  BY <1>3, TypeSplit, Zenon DEF NetOK
<1>5. \A i \in DOMAIN inbox[device] : inbox[device][i].from \in Servers
  <2>1. \A d \in Datagrams : d.from \in Servers
    BY Zenon DEF Datagrams
  <2>2. \A i \in DOMAIN inbox[device] : inbox[device][i] \in Datagrams
    BY <1>2
  <2> QED BY <2>1, <2>2, Zenon
<1> QED BY <1>1, <1>2, <1>4, <1>5, Zenon

(* Every step of the handshake and of the network keeps the order of what  *)
(* each address sends to the device's socket.                              *)
LEMMA OrderPreserved ==
    ASSUME TypeOK, TypeOK', AuthInv, Next
    PROVE  Bounded' /\ InOrder'
<1>0. /\ inbox[device] \in Seq(Datagrams) /\ attempt \in Nat /\ device \in Clients
      /\ \A s \in Servers : due[<<device, s>>] \in Seq(Datagrams)
      /\ inbox'[device] \in Seq(Datagrams) /\ attempt' \in Nat
      /\ \A s \in Servers : due'[<<device, s>>] \in Seq(Datagrams)
      /\ Bounded /\ InOrder /\ AttemptInv
  <2>1. inbox'[device] \in Seq(Datagrams) /\ attempt' \in Nat
    BY DEF TypeOK, Clients
  <2>2. \A s \in Servers : <<device, s>> \in Clients \X Servers
    BY Zenon DEF Clients
  <2>3. \A s \in Servers : due'[<<device, s>>] \in Seq(Datagrams)
    BY <2>2, Zenon DEF TypeOK
  <2> QED BY <2>1, <2>3, DeviceTypes, Zenon DEF AuthInv
<1>1. CASE Cloud \/ Direct
  <2>1. Shifted /\ Asked /\ attempt' >= attempt
    BY <1>0, <1>1, CloudAsks, DirectAsks, Zenon
  <2>2. repeats' = repeats
    BY <1>1, Zenon
       DEF Cloud, OpenMain, ProbeP2psrv, ReadProbe, OnlineP2psrv, ReadP2psrv, OpenP2p, ProbeDevice,
           ReadProbeDevice, InfoDevice, ReadInfo, OnlineRelay, ReadRelay, OpenDevice,
           RequestChannel, RelayAgent, ReadAgent, RelayStart, ReadStart, ReadChannel,
           ReadFinalChannel, RelayChannel, ReadNatInfo, AgentSync, ReadAgentSync, RequestSign,
           ReadSign, NoSign, CloseCloud, Open, Request, Read, netVars,
           Direct, Punch, AwaitPunch, Drain, SendSync, ReadSync, SendAuth, ReadAuth, NoAuth,
           SendFinal, ReadFinal, Settle, Succeed, SendDirect
  <2>3. PICK k \in 0..Len(inbox[device]) :
            /\ Len(inbox'[device]) = Len(inbox[device]) - k
            /\ \A j \in 1..Len(inbox[device]) - k : inbox'[device][j] = inbox[device][k + j]
    BY <2>1, Zenon DEF Shifted
  <2>4. ASSUME NEW s \in Servers
        PROVE  /\ BoundedFrom(s, inbox'[device], due'[<<device, s>>], attempt')
               /\ OrderedFrom(s, inbox[device], due[<<device, s>>])
                      => OrderedFrom(s, inbox'[device], due'[<<device, s>>])
    <3>1. /\ GrownBy(due[<<device, s>>], due'[<<device, s>>], s, attempt)
          /\ \A i \in Len(due[<<device, s>>]) + 1..Len(due'[<<device, s>>]) :
                due'[<<device, s>>][i].re = "authOk" => attempt >= 1
      BY <2>1, Zenon DEF Asked, Grown
    <3>2. BoundedFrom(s, inbox[device], due[<<device, s>>], attempt)
      BY <1>0, Zenon DEF Bounded
    <3> DEFINE buf == inbox[device]
               new == inbox'[device]
               q == due[<<device, s>>]
               r == due'[<<device, s>>]
               b == attempt'
    <3>3. /\ buf \in Seq(Datagrams) /\ q \in Seq(Datagrams) /\ new \in Seq(Datagrams)
          /\ attempt \in Nat /\ b \in Nat /\ b >= attempt
          /\ k \in 0..Len(buf) /\ Len(new) = Len(buf) - k
          /\ \A j \in 1..Len(buf) - k : new[j] = buf[k + j]
          /\ GrownBy(q, r, s, attempt) /\ BoundedFrom(s, buf, q, attempt)
          /\ \A i \in Len(q) + 1..Len(r) : r[i].re = "authOk" => attempt >= 1
      BY <1>0, <2>1, <2>3, <3>1, <3>2, Zenon
    <3> HIDE DEF buf, new, q, r, b
    <3>4. BoundedFrom(s, new, r, b) /\ (OrderedFrom(s, buf, q) => OrderedFrom(s, new, r))
      BY <3>3, OrderKept, Zenon
    <3> QED BY <3>4, Zenon DEF buf, new, q, r, b
  <2> QED BY <1>0, <2>2, <2>4, Zenon DEF Bounded, InOrder
<1>2. CASE Network
  <2> PICK c \in Clients, t \in Servers :
          \E i \in DOMAIN due[<<c, t>>] : Deliver(c, t, i) \/ Repeat(c, t, i)
    BY <1>2, Zenon DEF Network
  <2> PICK i \in DOMAIN due[<<c, t>>] : Deliver(c, t, i) \/ Repeat(c, t, i)
    BY Zenon
  <2>0. due[<<c, t>>] \in Seq(Datagrams) /\ i \in 1..Len(due[<<c, t>>]) /\ attempt' = attempt
        /\ Arrives(c, t, i)
    BY TypeSplit DEF NetOK, Deliver, Repeat
  <2>1. CASE c # device
    <3>0. repeats' >= repeats /\ repeats \in Nat
      BY TypeSplit, HandshakeAssumption DEF Deliver, Repeat, NetOK
    <3>1. inbox'[device] = inbox[device] /\ repeats' >= repeats /\ repeats \in Nat
      BY <1>0, <2>0, <2>1, <3>0, ArrivesAppends, Zenon
    <3>2. ASSUME NEW s \in Servers PROVE due'[<<device, s>>] = due[<<device, s>>]
      BY <1>0, <2>1, TypeSplit, Zenon DEF Deliver, Repeat, NetOK
    <3>3. repeats' = 0 => repeats = 0
      BY <3>1, TypeSplit, HandshakeAssumption DEF Deliver, Repeat, NetOK
    <3> QED BY <1>0, <2>0, <3>1, <3>2, <3>3, Zenon DEF Bounded, InOrder
  <2>2. CASE c = device
    <3> DEFINE buf == inbox[device]
               new == inbox'[device]
               d == due[<<device, t>>][i]
    <3>1. /\ Len(new) = Len(buf) + 1 /\ \A j \in 1..Len(buf) : new[j] = buf[j]
          /\ new[Len(buf) + 1] = d
      BY <2>0, <2>2, ArrivesAppends
    <3>2. d \in Datagrams /\ d.from = t /\ Plausible(d, attempt)
      BY <1>0, <2>0, <2>2 DEF Bounded, BoundedFrom
    <3>3. \A s \in Servers : BoundedFrom(s, buf, due[<<device, s>>], attempt)
      BY <1>0, Zenon DEF Bounded
    <3>4. ASSUME NEW s \in Servers, s # t
          PROVE  /\ due'[<<device, s>>] = due[<<device, s>>]
                 /\ BoundedFrom(s, new, due[<<device, s>>], attempt)
                 /\ OrderedFrom(s, buf, due[<<device, s>>])
                        => OrderedFrom(s, new, due[<<device, s>>])
      <4>1. due'[<<device, s>>] = due[<<device, s>>]
        BY <1>0, <2>2, <3>4, TypeSplit, Zenon DEF Deliver, Repeat, NetOK
      <4>2. d.from # s /\ due[<<device, s>>] \in Seq(Datagrams)
        BY <1>0, <3>2, <3>4, Zenon
      <4> HIDE DEF buf, new, d
      <4> QED BY <1>0, <3>1, <3>2, <3>3, <4>1, <4>2, OrderElsewhere, Zenon DEF buf, new
    <3>5. CASE Deliver(c, t, i)
      <4>1. /\ Len(due'[<<device, t>>]) = Len(due[<<device, t>>]) - i
            /\ \A j \in 1..Len(due[<<device, t>>]) - i :
                  due'[<<device, t>>][j] = due[<<device, t>>][i + j]
            /\ repeats' = repeats
        <5>1. repeats' = repeats
          BY <3>5, Zenon DEF Deliver
        <5>2. /\ Len(due'[<<c, t>>]) = Len(due[<<c, t>>]) - i
              /\ \A j \in 1..Len(due[<<c, t>>]) - i : due'[<<c, t>>][j] = due[<<c, t>>][i + j]
          BY <2>0, <3>5, DeliverLeaves, Zenon
        <5> QED BY <2>2, <5>1, <5>2, Zenon
      <4>2. /\ BoundedFrom(t, new, due'[<<device, t>>], attempt)
            /\ OrderedFrom(t, buf, due[<<device, t>>]) => OrderedFrom(t, new, due'[<<device, t>>])
        <5> DEFINE q == due[<<device, t>>]
                   r == due'[<<device, t>>]
        <5>1. /\ buf \in Seq(Datagrams) /\ q \in Seq(Datagrams) /\ new \in Seq(Datagrams)
              /\ r \in Seq(Datagrams) /\ attempt \in Nat /\ i \in 1..Len(q)
              /\ Len(new) = Len(buf) + 1 /\ new[Len(buf) + 1] = q[i]
              /\ \A j \in 1..Len(buf) : new[j] = buf[j]
              /\ Len(r) = Len(q) - i /\ \A j \in 1..Len(q) - i : r[j] = q[i + j]
              /\ BoundedFrom(t, buf, q, attempt)
          BY <1>0, <2>0, <2>2, <3>1, <3>3, <4>1, Zenon
        <5> HIDE DEF buf, new, q, r
        <5>2. BoundedFrom(t, new, r, attempt) /\ (OrderedFrom(t, buf, q) => OrderedFrom(t, new, r))
          BY <5>1, OrderDelivered, Zenon
        <5> QED BY <5>2, Zenon DEF q, r
      <4> QED BY <1>0, <2>0, <3>4, <4>1, <4>2, Zenon DEF Bounded, InOrder
    <3>6. CASE Repeat(c, t, i)
      <4>1. repeats' # 0
        BY <3>6, TypeSplit, HandshakeAssumption DEF Repeat, NetOK
      <4> DEFINE q == due[<<device, t>>]
      <4>2. due'[<<device, t>>] = SubSeq(q, i, Len(q))
        BY <1>0, <2>2, <3>6, TypeSplit, Zenon DEF Repeat, NetOK
      <4>3. q \in Seq(Datagrams) /\ i \in 1..Len(q) /\ BoundedFrom(t, buf, q, attempt)
        BY <1>0, <2>0, <2>2, <3>3, Zenon
      <4> HIDE DEF q, buf, new, d
      <4>4. \A j \in DOMAIN SubSeq(q, i, Len(q)) : \E m \in DOMAIN q : SubSeq(q, i, Len(q))[j] = q[m]
        <5>1. /\ DOMAIN SubSeq(q, i, Len(q)) = 1..Len(q) - i + 1 /\ DOMAIN q = 1..Len(q)
              /\ Len(q) \in Nat
          BY <4>3
        <5>2. \A j \in 1..Len(q) - i + 1 : SubSeq(q, i, Len(q))[j] = q[i + j - 1]
          BY <4>3
        <5> QED BY <4>3, <5>1, <5>2
      <4>5. \A j \in DOMAIN new : (j \in DOMAIN buf /\ new[j] = buf[j]) \/ new[j] = d
        <5>1. new \in Seq(Datagrams) /\ buf \in Seq(Datagrams)
          BY <1>0, Zenon DEF new, buf
        <5> QED BY <3>1, <5>1
      <4>6. BoundedFrom(t, new, due'[<<device, t>>], attempt)
        <5>1. \A j \in DOMAIN new : Plausible(new[j], attempt)
          BY <3>2, <4>3, <4>5, Zenon DEF BoundedFrom
        <5>2. \A j \in DOMAIN SubSeq(q, i, Len(q)) :
                 /\ Plausible(SubSeq(q, i, Len(q))[j], attempt)
                 /\ SubSeq(q, i, Len(q))[j].from = t
          BY <4>3, <4>4, Zenon DEF BoundedFrom
        <5> QED BY <4>2, <5>1, <5>2, Zenon DEF BoundedFrom
      <4> QED BY <2>0, <3>4, <4>1, <4>6, Zenon DEF Bounded, InOrder, new
    <3> QED BY <3>5, <3>6, Zenon
  <2> QED BY <2>1, <2>2, Zenon
<1> QED BY <1>1, <1>2, Zenon DEF Next

(* The number of the attempt follows the label. *)
LEMMA AttemptPreserved ==
    ASSUME TypeOK, AttemptInv, Next
    PROVE  AttemptInv'
<1>0. attempt \in Nat
  BY TypeSplit DEF ControlOK
<1>1. CASE Direct
  <2>1. attempt >= 1 /\ pc' \in DirectLabels \cup {"returned"} /\ attempt' >= attempt
    BY <1>0, <1>1
       DEF Direct, Punch, AwaitPunch, Drain, SendSync, ReadSync, SendAuth, ReadAuth, NoAuth,
           SendFinal, ReadFinal, Settle, Succeed, SendDirect, Enter, Reads, AttemptFails, Fail,
           AttemptInv, DirectLabels
  <2>2. attempt' \in Int
    BY <1>0, <1>1
       DEF Direct, Punch, AwaitPunch, Drain, SendSync, ReadSync, SendAuth, ReadAuth, NoAuth,
           SendFinal, ReadFinal, Settle, Succeed, SendDirect, Enter, Reads, AttemptFails, Fail
  <2>3. (DirectLabels \cup {"returned"}) \cap CloudLabels = {}
    BY DEF DirectLabels, CloudLabels
  <2> QED BY <1>0, <2>1, <2>2, <2>3 DEF AttemptInv
<1>2. CASE Cloud
  <2>1. /\ attempt = 0
        /\ \/ attempt' = attempt /\ pc' \in CloudLabels \cup {"returned"}
           \/ attempt' = 1 /\ pc' = "punch"
    BY <1>2, Zenon
       DEF Cloud, OpenMain, ProbeP2psrv, ReadProbe, OnlineP2psrv, ReadP2psrv, OpenP2p, ProbeDevice,
           ReadProbeDevice, InfoDevice, ReadInfo, OnlineRelay, ReadRelay, OpenDevice,
           RequestChannel, RelayAgent, ReadAgent, RelayStart, ReadStart, ReadChannel,
           ReadFinalChannel, RelayChannel, ReadNatInfo, AgentSync, ReadAgentSync, RequestSign,
           ReadSign, NoSign, CloseCloud, Open, Request, Read, UseChannel, Goto, Fail, Reads,
           AttemptInv, CloudLabels
  <2>2. DirectLabels \cap (CloudLabels \cup {"returned"}) = {} /\ "punch" \notin CloudLabels
    BY DEF DirectLabels, CloudLabels
  <2> QED BY <2>1, <2>2 DEF AttemptInv
<1>3. CASE Network
  BY <1>3, Zenon DEF Network, Deliver, Repeat, AttemptInv
<1> QED BY <1>1, <1>2, <1>3, Zenon DEF Next

(* What the network does to the device's queues, seen from the peer. *)
LEMMA NetworkKeepsFresh ==
    ASSUME TypeOK, TypeOK', Bounded, Network, repeats' = 0, NEW s \in Servers,
           FreshFrom(s, inbox[device], due[<<device, s>>], attempt)
    PROVE  FreshFrom(s, inbox'[device], due'[<<device, s>>], attempt)
<1>0. /\ inbox[device] \in Seq(Datagrams) /\ attempt \in Nat /\ device \in Clients
      /\ due[<<device, s>>] \in Seq(Datagrams) /\ inbox'[device] \in Seq(Datagrams)
  <2>1. inbox'[device] \in Seq(Datagrams)
    BY Zenon DEF TypeOK, Clients
  <2> QED BY <2>1, DeviceTypes, Zenon
<1> PICK c \in Clients, t \in Servers :
        \E i \in DOMAIN due[<<c, t>>] : Deliver(c, t, i) \/ Repeat(c, t, i)
  BY Zenon DEF Network
<1> PICK i \in DOMAIN due[<<c, t>>] : Deliver(c, t, i) \/ Repeat(c, t, i)
  BY Zenon
<1>1. /\ Deliver(c, t, i) /\ Arrives(c, t, i)
      /\ due[<<c, t>>] \in Seq(Datagrams) /\ i \in 1..Len(due[<<c, t>>])
  <2>1. ~Repeat(c, t, i)
    BY TypeSplit, HandshakeAssumption DEF NetOK, Repeat
  <2>2. due[<<c, t>>] \in Seq(Datagrams)
    BY TypeSplit, Zenon DEF NetOK
  <2>3. DOMAIN due[<<c, t>>] = 1..Len(due[<<c, t>>])
    BY <2>2
  <2> QED BY <2>1, <2>2, <2>3, Zenon DEF Deliver
<1>2. CASE c # device
  <2>1. inbox'[device] = inbox[device]
    BY <1>0, <1>1, <1>2, ArrivesAppends, Zenon
  <2>2. due'[<<device, s>>] = due[<<device, s>>]
    BY <1>0, <1>1, <1>2, TypeSplit, Zenon DEF Deliver, NetOK
  <2> QED BY <2>1, <2>2, Zenon
<1>3. CASE c = device
  <2> DEFINE buf == inbox[device]
             new == inbox'[device]
             q == due[<<device, s>>]
             r == due'[<<device, s>>]
             d == due[<<device, t>>][i]
  <2>1. /\ Len(new) = Len(buf) + 1 /\ new[Len(buf) + 1] = d
        /\ \A j \in 1..Len(buf) : new[j] = buf[j]
    BY <1>1, <1>3, ArrivesAppends
  <2>2. d.from = t
    BY <1>1, <1>3, Zenon DEF Bounded, BoundedFrom
  <2>3. s = t => d.n >= attempt
    BY <1>1, <1>3, Zenon DEF FreshFrom
  <2>4. FreshFrom(s, buf, q, attempt)
    BY Zenon
  <2>5. \A j \in DOMAIN r : \E m \in DOMAIN q : r[j] = q[m]
    <3>1. CASE s # t
      <4>1. r = q
        BY <1>0, <1>1, <1>3, <3>1, TypeSplit, Zenon DEF Deliver, NetOK
      <4> QED BY <4>1, Zenon
    <3>2. CASE s = t
      <4>1. /\ Len(due'[<<c, t>>]) = Len(due[<<c, t>>]) - i
            /\ \A j \in 1..Len(due[<<c, t>>]) - i : due'[<<c, t>>][j] = due[<<c, t>>][i + j]
            /\ due'[<<c, t>>] \in Seq(Datagrams)
        BY <1>1, DeliverLeaves, Zenon
      <4>2. /\ Len(r) = Len(q) - i /\ \A j \in 1..Len(q) - i : r[j] = q[i + j]
            /\ r \in Seq(Datagrams) /\ q \in Seq(Datagrams) /\ i \in 1..Len(q)
        BY <1>0, <1>1, <1>3, <3>2, <4>1, Zenon
      <4> HIDE DEF r, q
      <4>3. DOMAIN r = 1..Len(q) - i /\ DOMAIN q = 1..Len(q) /\ Len(q) \in Nat
        BY <4>2
      <4> QED BY <4>2, <4>3
    <3> QED BY <3>1, <3>2, Zenon
  <2> HIDE DEF buf, new, q, r, d
  <2>6. FreshFrom(s, new, q, attempt)
    <3>1. buf \in Seq(Datagrams) /\ new \in Seq(Datagrams) /\ q \in Seq(Datagrams)
      BY <1>0, Zenon DEF buf, new, q
    <3>2. (d.from = s => d.n >= attempt) /\ attempt \in Nat
      BY <1>0, <2>2, <2>3, Zenon
    <3> QED BY <2>1, <2>4, <3>1, <3>2, FreshDelivered, Zenon
  <2>7. FreshFrom(s, new, r, attempt)
    BY <2>5, <2>6, Zenon DEF FreshFrom
  <2> QED BY <2>7, Zenon DEF new, r
<1> QED BY <1>2, <1>3, Zenon

(* An attempt that took its own SYNC's answer is left with its own answers. *)
LEMMA AfterSyncPreserved ==
    ASSUME TypeOK, TypeOK', AuthInv, Next
    PROVE  AfterSync'
<1> SUFFICES ASSUME pc' \in {"auth", "readAuth"}, repeats' = 0, syncOf' = attempt', peer' \in Servers
             PROVE  FreshFrom(peer', inbox'[device], due'[<<device, peer'>>], attempt')
  BY Zenon DEF AfterSync
<1>0. /\ inbox[device] \in Seq(Datagrams) /\ attempt \in Nat /\ device \in Clients
      /\ \A s \in Servers : due[<<device, s>>] \in Seq(Datagrams)
      /\ inbox'[device] \in Seq(Datagrams)
      /\ Bounded /\ InOrder /\ AfterSync /\ AttemptInv
  <2>1. inbox'[device] \in Seq(Datagrams)
    BY Zenon DEF TypeOK, Clients
  <2> QED BY <2>1, DeviceTypes, Zenon DEF AuthInv
<1>1. CASE Network
  <2>1. /\ pc \in {"auth", "readAuth"} /\ syncOf = attempt /\ attempt' = attempt
        /\ peer \in Servers /\ peer' = peer
    BY <1>1, Zenon DEF Network, Deliver, Repeat, authVars, peer
  <2>2. repeats = 0
    BY <1>1, TypeSplit, HandshakeAssumption DEF Network, Deliver, Repeat, NetOK
  <2>3. FreshFrom(peer, inbox[device], due[<<device, peer>>], attempt)
    BY <1>0, <2>1, <2>2, Zenon DEF AfterSync
  <2> HIDE DEF peer
  <2> QED BY <1>0, <1>1, <2>1, <2>3, NetworkKeepsFresh, Zenon
<1>2. CASE ReadSync
  <2>1. /\ Received(device) /\ syncOf' = Arrival(device).n /\ attempt' = attempt /\ repeats = 0
        /\ peer' = peer /\ due' = due
    BY <1>2, Zenon DEF ReadSync, AttemptFails, Fail, peer
  <2>2. PICK k \in 1..Len(inbox[device]) :
            /\ Arrival(device) = inbox[device][k] /\ inbox[device][k].from = peer
            /\ Taken(device, k)
    BY <1>0, <2>1, ReceivedTakes, Zenon DEF peer
  <2>3. peer \in Servers /\ inbox[device][k].n = attempt
    BY <2>1, <2>2, Zenon
  <2> HIDE DEF peer
  <2>4. OrderedFrom(peer, inbox[device], due[<<device, peer>>])
    BY <1>0, <2>1, <2>3, Zenon DEF InOrder
  <2> DEFINE buf == inbox[device]
             new == inbox'[device]
             q == due[<<device, peer>>]
  <2>5. /\ buf \in Seq(Datagrams) /\ q \in Seq(Datagrams) /\ new \in Seq(Datagrams)
        /\ k \in 1..Len(buf) /\ Len(new) = Len(buf) - k
        /\ \A j \in 1..Len(buf) - k : new[j] = buf[k + j]
        /\ buf[k].from = peer /\ buf[k].n = attempt /\ OrderedFrom(peer, buf, q)
    BY <1>0, <2>2, <2>3, <2>4, Zenon DEF Taken
  <2> HIDE DEF buf, new, q
  <2>6. FreshFrom(peer, new, q, attempt)
    BY <2>5, FreshAfter, Zenon
  <2> QED BY <2>1, <2>6, Zenon DEF new, q
<1>3. CASE SendAuth \/ ReadAuth
  <2>1. /\ pc \in {"auth", "readAuth"} /\ syncOf = attempt /\ attempt' = attempt /\ repeats = 0
        /\ peer' = peer
    BY <1>3, Zenon DEF SendAuth, ReadAuth, SendDirect, AttemptFails, Fail, Enter, Reads, authVars,
       peer
  <2>2. FreshFrom(peer, inbox[device], due[<<device, peer>>], attempt) /\ peer \in Servers
    BY <1>0, <2>1, Zenon DEF AfterSync
  <2>3. Shifted /\ Asked
    BY <1>0, <1>3, DirectAsks, Zenon DEF Direct
  <2> HIDE DEF peer
  <2>4. PICK k \in 0..Len(inbox[device]) :
            /\ Len(inbox'[device]) = Len(inbox[device]) - k
            /\ \A j \in 1..Len(inbox[device]) - k : inbox'[device][j] = inbox[device][k + j]
    BY <2>3, Zenon DEF Shifted
  <2>5. GrownBy(due[<<device, peer>>], due'[<<device, peer>>], peer, attempt)
    BY <2>2, <2>3, Zenon DEF Asked, Grown
  <2> DEFINE buf == inbox[device]
             new == inbox'[device]
             q == due[<<device, peer>>]
             r == due'[<<device, peer>>]
  <2>6. /\ buf \in Seq(Datagrams) /\ q \in Seq(Datagrams) /\ new \in Seq(Datagrams)
        /\ k \in 0..Len(buf) /\ Len(new) = Len(buf) - k
        /\ \A j \in 1..Len(buf) - k : new[j] = buf[k + j]
        /\ GrownBy(q, r, peer, attempt) /\ FreshFrom(peer, buf, q, attempt)
    BY <1>0, <2>2, <2>4, <2>5, Zenon
  <2> HIDE DEF buf, new, q, r
  <2>7. FreshFrom(peer, new, r, attempt)
    BY <1>0, <2>6, FreshKept, Zenon
  <2> QED BY <2>1, <2>7, Zenon DEF new, r
<1>4. CASE Direct /\ ~(ReadSync \/ SendAuth \/ ReadAuth)
  BY <1>4, Zenon
     DEF Direct, Punch, AwaitPunch, Drain, SendSync, NoAuth, SendFinal, ReadFinal, Settle, Succeed,
         SendDirect, Enter, Reads, AttemptFails, Fail
<1>5. CASE Cloud
  <2>1. pc' \in CloudLabels \cup {"returned", "punch"}
    BY <1>5, Zenon
       DEF Cloud, OpenMain, ProbeP2psrv, ReadProbe, OnlineP2psrv, ReadP2psrv, OpenP2p, ProbeDevice,
           ReadProbeDevice, InfoDevice, ReadInfo, OnlineRelay, ReadRelay, OpenDevice,
           RequestChannel, RelayAgent, ReadAgent, RelayStart, ReadStart, ReadChannel,
           ReadFinalChannel, RelayChannel, ReadNatInfo, AgentSync, ReadAgentSync, RequestSign,
           ReadSign, NoSign, CloseCloud, Open, Request, Read, UseChannel, Goto, Fail, Reads,
           CloudLabels
  <2> QED BY <2>1, Zenon DEF CloudLabels
<1> QED BY <1>1, <1>2, <1>3, <1>4, <1>5, Zenon DEF Next

(* ReadAuth records an auth of this attempt, or of an earlier one, and the *)
(* rest of the attempt leaves the record alone.                            *)
LEMMA RecordPreserved ==
    ASSUME TypeOK, SocketInv, AuthInv, Next
    PROVE  AuthRecorded'
<1> SUFFICES ASSUME pc' \in {"final", "readFinal", "settle"} \/ result' = "ok"
             PROVE  /\ authOf' \in 1..attempt'
                    /\ repeats' = 0 /\ syncOf' = attempt' => authOf' = attempt'
  BY Zenon DEF AuthRecorded
<1>0. /\ Bounded /\ AfterSync /\ AuthRecorded
      /\ inbox[device] \in Seq(Datagrams) /\ attempt \in Nat /\ device \in Clients
      /\ \A i \in DOMAIN inbox[device] : inbox[device][i].from \in Servers
      /\ result = "running" \/ pc = "returned"
  BY DeviceTypes, Zenon DEF AuthInv, SocketInv
<1>1. CASE /\ pc \in {"final", "readFinal", "settle"} \/ result = "ok"
           /\ UNCHANGED <<authOf, syncOf, attempt>> /\ (repeats' = 0 => repeats = 0)
  BY <1>0, <1>1, Zenon DEF AuthRecorded
<1>2. CASE Network
  <2>1. /\ UNCHANGED <<pc, result, authOf, syncOf, attempt>> /\ (repeats' = 0 => repeats = 0)
    BY <1>2, TypeSplit, HandshakeAssumption DEF Network, Deliver, Repeat, NetOK, authVars
  <2> QED BY <1>1, <2>1, Zenon
<1>3. CASE SendFinal \/ ReadFinal \/ Settle \/ Succeed
  <2>1. /\ pc \in {"final", "readFinal", "settle"} /\ result = "running"
        /\ UNCHANGED <<authOf, syncOf, attempt, repeats>>
    BY <1>0, <1>3, Zenon
       DEF SendFinal, ReadFinal, Settle, Succeed, SendDirect, AttemptFails, Fail, Enter, Reads,
           authVars, sockVars, netVars
  <2> QED BY <1>1, <2>1, Zenon
<1>4. CASE ReadAuth
  <2>1. /\ pc = "readAuth" /\ Received(device) /\ Arrival(device).re = "authOk"
        /\ authOf' = Arrival(device).n /\ UNCHANGED <<syncOf, attempt, repeats>>
    BY <1>0, <1>4, Zenon DEF ReadAuth, Reads
  <2>2. PICK k \in 1..Len(inbox[device]) :
            Arrival(device) = inbox[device][k] /\ inbox[device][k].from = peer
    BY <1>0, <2>1, ReceivedTakes, Zenon DEF peer
  <2>3. k \in DOMAIN inbox[device] /\ inbox[device][k].n \in Nat /\ peer \in Servers
    <3>1. k \in DOMAIN inbox[device] /\ inbox[device][k] \in Datagrams
      BY <1>0
    <3> QED BY <1>0, <2>2, <3>1 DEF Datagrams
  <2> HIDE DEF peer
  <2>4. Plausible(inbox[device][k], attempt)
    BY <1>0, <2>3, Zenon DEF Bounded, BoundedFrom
  <2>5. authOf' \in 1..attempt
    BY <1>0, <2>1, <2>2, <2>3, <2>4 DEF Plausible
  <2>6. ASSUME repeats = 0, syncOf = attempt PROVE authOf' = attempt
    <3>1. inbox[device][k].n >= attempt
      BY <1>0, <2>1, <2>2, <2>3, <2>6, Zenon DEF AfterSync, FreshFrom
    <3> QED BY <1>0, <2>1, <2>2, <2>3, <2>4, <3>1 DEF Plausible
  <2> QED BY <2>1, <2>5, <2>6, Zenon
<1>5. CASE Direct /\ ~(SendFinal \/ ReadFinal \/ Settle \/ Succeed \/ ReadAuth)
  BY <1>0, <1>5, Zenon
     DEF Direct, Punch, AwaitPunch, Drain, SendSync, ReadSync, SendAuth, NoAuth, SendDirect, Enter,
         Reads, AttemptFails, Fail
<1>6. CASE Cloud
  <2>1. pc' \in CloudLabels \cup {"returned", "punch"} /\ result' \in {result, "failed"}
        /\ pc \in CloudLabels
    BY <1>6, Zenon
       DEF Cloud, OpenMain, ProbeP2psrv, ReadProbe, OnlineP2psrv, ReadP2psrv, OpenP2p, ProbeDevice,
           ReadProbeDevice, InfoDevice, ReadInfo, OnlineRelay, ReadRelay, OpenDevice,
           RequestChannel, RelayAgent, ReadAgent, RelayStart, ReadStart, ReadChannel,
           ReadFinalChannel, RelayChannel, ReadNatInfo, AgentSync, ReadAgentSync, RequestSign,
           ReadSign, NoSign, CloseCloud, Open, Request, Read, UseChannel, Goto, Fail, Reads,
           CloudLabels
  <2> QED BY <1>0, <2>1, Zenon DEF CloudLabels
<1> QED BY <1>2, <1>3, <1>4, <1>5, <1>6, Zenon DEF Next

(* For any number of attempts, reads and late answers: Handshake succeeds  *)
(* only if the device acknowledged an auth, and, unless the network        *)
(* repeats datagrams, the auth of the attempt that succeeds whenever that  *)
(* attempt took the answer to its own SYNC.                                *)
THEOREM AuthFresh == Spec => []AuthIsFresh
<1>1. Init => AuthInv
  <2> SUFFICES ASSUME Init PROVE AuthInv
    BY Zenon
  <2>1. inbox[device] = <<>> /\ \A s \in Servers : due[<<device, s>>] = <<>>
    BY Zenon DEF Init, Clients
  <2>2. DOMAIN <<>> = {}
    OBVIOUS
  <2>3. Bounded /\ InOrder
    BY <2>1, <2>2, Zenon DEF Bounded, InOrder, BoundedFrom, OrderedFrom
  <2> QED BY <2>3, Zenon DEF Init, AuthInv, AttemptInv, AfterSync, AuthRecorded, DirectLabels
<1>2. TypeOK /\ TypeOK' /\ SocketInv /\ AuthInv /\ [Next]_vars => AuthInv'
  <2> SUFFICES ASSUME TypeOK, TypeOK', SocketInv, AuthInv, [Next]_vars PROVE AuthInv'
    BY Zenon
  <2>1. CASE Next
    BY <2>1, AttemptPreserved, OrderPreserved, AfterSyncPreserved, RecordPreserved, Zenon
       DEF AuthInv
  <2>2. CASE UNCHANGED vars
    BY <2>2, Zenon
    DEF vars, netVars, authVars, AuthInv, AttemptInv, Bounded, InOrder, AfterSync, AuthRecorded, peer
  <2> QED BY <2>1, <2>2, Zenon
<1>3. AuthInv => AuthIsFresh
  BY Zenon DEF AuthInv, AuthRecorded, AuthIsFresh
<1> QED BY <1>1, <1>2, <1>3, TypeCorrect, SocketsInductive, PTL DEF Spec
=============================================================================
