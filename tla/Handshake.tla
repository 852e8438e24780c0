------------------------------ MODULE Handshake ------------------------------
(***************************************************************************)
(* dh/handshake.go over the UDP clients of dh/protocol.go: the exchanges   *)
(* with the cloud that find the device's addresses and obtain the sign,    *)
(* then up to DirectRetries attempts to reach the device directly.         *)
(*                                                                         *)
(* A datagram is what it answers (re), where it comes from, and the direct *)
(* attempt that asked for it (n, 0 for the cloud); whether it is well      *)
(* formed, with the fields its reader looks for, is chosen when it is      *)
(* read.  The servers and the device answer late, never, or twice; the     *)
(* network does not reorder what one of them sends to one socket.          *)
(***************************************************************************)
EXTENDS Integers, Sequences

CONSTANTS
    SignReads,     \* reads for the sign (5)
    DirectRetries, \* directRetries (3)
    StunDrain,     \* reads that drain STUN packets (5)
    AuthReads,     \* reads for the auth response (5)
    FinalDrain,    \* reads that drain the end of the handshake (3)
    MaxRepeats,    \* bound: datagrams the network repeats
    Repeatable,    \* bound: the clients it repeats them to
    None           \* no local address

ASSUME HandshakeAssumption ==
    /\ {SignReads, DirectRetries, StunDrain, AuthReads, FinalDrain, MaxRepeats} \subseteq Nat
    /\ DirectRetries > 0 /\ Repeatable \subseteq {"main", "p2p", "device"}
    /\ None # "lan"

Clients == {"main", "p2p", "device"}
Servers == {"main", "p2psrv", "relay", "agent", "pub", "lan"}

(* What is answered: DH requests, and what the agent and the device send. *)
DhAnswers == {"probe", "p2psrv", "probeDevice", "info", "relay", "agent", "start",
              "continue", "channel", "relayChannel"}
PtcpAnswers == {"sync", "ack", "sign", "authOk"}
Datagrams == [from : Servers, re : DhAnswers \cup PtcpAnswers \cup {"natInfo", "stun"},
              n : 0..DirectRetries]

VARIABLES
    pc, reads, attempt,
    result,     \* "running", "ok" or "failed"
    handles,    \* the client variables that are not nil
    sockets,    \* the sockets that are open
    raddr,      \* UDPClient.raddr
    localAddr,  \* the device's LAN address, once known
    inbox,      \* datagrams in the receive buffer of a socket
    due,        \* what a server has yet to send to a client
    repeats,
    closedTwice, \* a socket was closed that was not open
    mismatched,  \* a read before the direct attempts used the answer to something else
    syncOf,      \* the attempt whose SYNC was answered by the SYNC this attempt took
    authOf       \* the attempt whose auth the device acknowledged

sockVars == <<handles, sockets, closedTwice>>
netVars == <<inbox, due, repeats>>
authVars == <<syncOf, authOf>>
vars == <<pc, reads, attempt, result, sockVars, raddr, localAddr, netVars, mismatched, authVars>>

DirectLabels == {"punch", "await", "drain", "readSync", "auth", "readAuth", "final", "readFinal",
                 "settle"}
CloudLabels == {"openMain", "probe", "readProbe", "p2psrv", "readP2psrv", "openP2p", "probeDevice",
                "readProbeDevice", "info", "readInfo", "relay", "readRelay", "openDevice",
                "channel", "agent", "readAgent", "start", "readStart", "readChannel",
                "readFinalChannel", "relayChannel", "readNatInfo", "agentSync", "readAgentSync",
                "sign", "readSign", "closeCloud"}

TypeOK ==
    /\ pc \in CloudLabels \cup DirectLabels \cup {"returned"}
    /\ reads \in Nat /\ attempt \in 0..DirectRetries
    /\ result \in {"running", "ok", "failed"}
    /\ handles \subseteq Clients /\ sockets \subseteq Clients
    /\ raddr \in [Clients -> Servers \cup {None}]
    /\ localAddr \in {"lan", None}
    /\ inbox \in [Clients -> Seq(Datagrams)]
    /\ due \in [Clients \X Servers -> Seq(Datagrams)]
    /\ repeats \in 0..MaxRepeats
    /\ closedTwice \in BOOLEAN /\ mismatched \in BOOLEAN
    /\ syncOf \in 0..DirectRetries /\ authOf \in 0..DirectRetries

Init ==
    /\ pc = "openMain" /\ reads = 0 /\ attempt = 0
    /\ result = "running"
    /\ handles = {} /\ sockets = {}
    /\ raddr = [c \in Clients |-> None]
    /\ localAddr = None
    /\ inbox = [c \in Clients |-> <<>>]
    /\ due = [link \in Clients \X Servers |-> <<>>]
    /\ repeats = 0
    /\ closedTwice = FALSE /\ mismatched = FALSE
    /\ syncOf = 0 /\ authOf = 0

-----------------------------------------------------------------------------
(* UDPClient *)

(* What server s has yet to send to client c, with the answers to a new    *)
(* datagram of c.                                                          *)
Owed(c, s, answers) ==
    due[<<c, s>>] \o [i \in DOMAIN answers |->
                        [from |-> s, re |-> answers[i], n |-> attempt]]
Owing(c, s, answers) == [due EXCEPT ![<<c, s>>] = Owed(c, s, answers)]

SameUDPAddrIgnored(a, b) == TRUE
SameUDPAddr(a, b) == a = b

(* Recv discards what does not come from raddr. *)
FromPeer(c) == {i \in DOMAIN inbox[c] : SameUDPAddr(inbox[c][i].from, raddr[c])}

(* The first of a set of places, which exists unless the set is empty. *)
HasFirst(set) == \E i \in set : \A j \in set : i <= j
First(set) == CHOOSE i \in set : \A j \in set : i <= j

(* The buffer of c without its first i datagrams. *)
After(c, i) == [inbox EXCEPT ![c] = SubSeq(@, i + 1, Len(@))]

(* The datagram Recv returns, and the receipt of it. *)
Arrival(c) == inbox[c][First(FromPeer(c))]
Received(c) == HasFirst(FromPeer(c)) /\ inbox' = After(c, First(FromPeer(c)))

TimedOut(c) ==
    /\ FromPeer(c) = {}
    /\ inbox' = [inbox EXCEPT ![c] = <<>>]

-----------------------------------------------------------------------------
(* Handshake: errors and the deferred cleanup *)

Close(closing) ==
    /\ sockets' = sockets \ closing
    /\ closedTwice' = (closedTwice \/ ~(closing \subseteq sockets))

Fail ==
    /\ result' = "failed" /\ pc' = "returned"
    /\ Close(handles)
    /\ UNCHANGED <<handles, reads, attempt, localAddr, authVars>>

Goto(label) == pc' = label /\ UNCHANGED <<result, sockVars, reads, attempt, localAddr, authVars>>

(* NewUDPClientPort and Connect: either may fail, the second with the      *)
(* socket open.                                                            *)
Open(label, c, s, next) ==
    /\ pc = label
    /\ \/ /\ handles' = handles \cup {c} /\ sockets' = sockets \cup {c}
          /\ raddr' = [raddr EXCEPT ![c] = s]
          /\ pc' = next
          /\ UNCHANGED <<result, closedTwice, reads, attempt, localAddr, authVars>>
       \/ /\ handles' = handles \cup {c}
          /\ result' = "failed" /\ pc' = "returned"
          /\ sockets' = (sockets \cup {c}) \ handles'
          /\ UNCHANGED <<closedTwice, reads, attempt, raddr, localAddr, authVars>>
       \/ Fail /\ UNCHANGED raddr
    /\ UNCHANGED <<netVars, mismatched>>

(* Connect and Request, or Send *)
Request(label, c, s, answers, next) ==
    /\ pc = label
    /\ raddr' = [raddr EXCEPT ![c] = s]
    /\ \/ due' = Owing(c, s, answers) /\ Goto(next)
       \/ UNCHANGED due /\ Fail
    /\ UNCHANGED <<inbox, repeats, mismatched>>

(* Read and ReadRaw: the handshake goes on if the datagram is well formed  *)
(* and one of those that serve (DH responses are not matched by CSeq).     *)
Read(label, c, serving, expected, next) ==
    /\ pc = label
    /\ \/ /\ Received(c)
          /\ mismatched' = (mismatched \/ Arrival(c).re # expected)
          /\ \/ Arrival(c).re \in serving /\ Goto(next)
             \/ Fail
       \/ TimedOut(c) /\ Fail /\ UNCHANGED mismatched
    /\ UNCHANGED <<raddr, due, repeats>>

-----------------------------------------------------------------------------
(* Handshake, steps 1 to 11: the cloud *)

OpenMain == Open("openMain", "main", "main", "probe")

ProbeP2psrv == Request("probe", "main", "main", <<"probe">>, "readProbe")
ReadProbe == Read("readProbe", "main", DhAnswers, "probe", "p2psrv")

OnlineP2psrv == Request("p2psrv", "main", "main", <<"p2psrv">>, "readP2psrv")
ReadP2psrv == Read("readP2psrv", "main", {"p2psrv"}, "p2psrv", "openP2p")

OpenP2p == Open("openP2p", "p2p", "p2psrv", "probeDevice")

ProbeDevice == Request("probeDevice", "p2p", "p2psrv", <<"probeDevice">>, "readProbeDevice")
ReadProbeDevice == Read("readProbeDevice", "p2p", DhAnswers, "probeDevice", "info")

(* A response without Info, or one that cannot be decrypted, is tolerated. *)
InfoDevice == Request("info", "p2p", "p2psrv", <<"info">>, "readInfo")
ReadInfo == Read("readInfo", "p2p", DhAnswers, "info", "relay")

OnlineRelay == Request("relay", "main", "main", <<"relay">>, "readRelay")
ReadRelay == Read("readRelay", "main", {"relay"}, "relay", "openDevice")

OpenDevice == Open("openDevice", "device", "main", "channel")

(* The p2p-channel request is answered on the device's socket, perhaps by  *)
(* a 100 Continue first.                                                   *)
RequestChannel ==
    \E answers \in {<<"channel">>, <<"continue", "channel">>} :
        Request("channel", "device", "main", answers, "agent")

RelayAgent == Request("agent", "p2p", "relay", <<"agent">>, "readAgent")
ReadAgent == Read("readAgent", "p2p", {"agent"}, "agent", "start")

RelayStart == Request("start", "p2p", "agent", <<"start">>, "readStart")
ReadStart == Read("readStart", "p2p", DhAnswers, "start", "readChannel")

(* LocalAddr may be the public address, or one that does not resolve. *)
UseChannel(d) ==
    /\ mismatched' = (mismatched \/ d.re \notin {"continue", "channel"})
    /\ \/ /\ d.re = "channel"
          /\ localAddr' \in {"lan", None}
          /\ raddr' = [raddr EXCEPT !["device"] = "pub"]
          /\ pc' = "relayChannel"
          /\ UNCHANGED <<result, sockVars, reads, attempt, authVars>>
       \/ Fail /\ UNCHANGED raddr

ReadChannel ==
    /\ pc = "readChannel"
    /\ \/ /\ Received("device")
          /\ \/ /\ Arrival("device").re = "continue"
                /\ Goto("readFinalChannel") /\ UNCHANGED <<raddr, mismatched>>
             \/ UseChannel(Arrival("device"))
       \/ TimedOut("device") /\ Fail /\ UNCHANGED <<raddr, mismatched>>
    /\ UNCHANGED <<due, repeats>>

ReadFinalChannel ==
    /\ pc = "readFinalChannel"
    /\ \/ Received("device") /\ UseChannel(Arrival("device"))
       \/ TimedOut("device") /\ Fail /\ UNCHANGED <<raddr, mismatched>>
    /\ UNCHANGED <<due, repeats>>

(* Nobody reads the main server's answer; the request makes the agent send *)
(* its NAT info, which the client reads after it has turned to the agent.  *)
RelayChannel ==
    /\ pc = "relayChannel"
    /\ \/ /\ raddr' = [raddr EXCEPT !["p2p"] = "agent"]
          /\ due' = [due EXCEPT
                ![<<"p2p", "main">>] = Owed("p2p", "main", <<"relayChannel">>),
                ![<<"p2p", "agent">>] = Owed("p2p", "agent", <<"natInfo">>)]
          /\ Goto("readNatInfo")
       \/ Fail /\ UNCHANGED <<raddr, due>>
    /\ UNCHANGED <<inbox, repeats, mismatched>>

(* ReadRaw accepts anything from the agent, well formed or not. *)
ReadNatInfo ==
    /\ pc = "readNatInfo"
    /\ \/ /\ Received("p2p")
          /\ mismatched' = (mismatched \/ Arrival("p2p").re # "natInfo")
          /\ Goto("agentSync")
       \/ TimedOut("p2p") /\ Fail /\ UNCHANGED mismatched
    /\ UNCHANGED <<raddr, due, repeats>>

AgentSync == Request("agentSync", "p2p", "agent", <<"sync">>, "readAgentSync")
ReadAgentSync == Read("readAgentSync", "p2p", PtcpAnswers, "sync", "sign")

RequestSign == Request("sign", "p2p", "agent", <<"ack", "sign">>, "readSign")

Reads(n) == reads' = n /\ UNCHANGED <<pc, result, sockVars, attempt, localAddr, authVars>>

(* A timeout sends the request again, if that works. *)
ReadSign ==
    /\ pc = "readSign"
    /\ reads < SignReads
    /\ \/ /\ Received("p2p")
          /\ \/ Arrival("p2p").re = "sign" /\ Goto("closeCloud")
             \/ Reads(reads + 1)
          /\ UNCHANGED due
       \/ /\ TimedOut("p2p")
          /\ due' \in {due, Owing("p2p", raddr["p2p"], <<"ack", "sign">>)}
          /\ Reads(reads + 1)
    /\ UNCHANGED <<raddr, repeats, mismatched>>

NoSign ==
    /\ pc = "readSign"
    /\ reads = SignReads
    /\ Fail
    /\ UNCHANGED <<raddr, netVars, mismatched>>

HandlesKept == handles
HandlesAfterSign == handles \ {"main", "p2p"}

(* Step 12: the cloud's sockets are closed, with what they had received or *)
(* would have, and their handles forgotten.                                *)
CloseCloud ==
    /\ pc = "closeCloud"
    /\ Close({"main", "p2p"})
    /\ handles' = HandlesAfterSign
    /\ inbox' = [inbox EXCEPT !["main"] = <<>>, !["p2p"] = <<>>]
    /\ due' = [link \in Clients \X Servers |->
                  IF link[1] = "device" THEN due[link] ELSE <<>>]
    /\ attempt' = 1
    /\ pc' = "punch"
    /\ UNCHANGED <<reads, result, raddr, localAddr, repeats, mismatched, authVars>>

-----------------------------------------------------------------------------
(* performDirectHandshake *)

device == "device"
peer == raddr[device]

(* The next attempt, or the error of the last one. *)
AttemptFails ==
    IF attempt < DirectRetries
    THEN /\ attempt' = attempt + 1
         /\ pc' = "punch"
         /\ UNCHANGED <<result, sockVars, reads, localAddr, authVars>>
    ELSE Fail

(* The next label of this attempt, its read loop at the first read. *)
Enter(label) ==
    /\ pc' = label /\ reads' = 0
    /\ UNCHANGED <<result, sockVars, attempt, localAddr, authVars>>

(* Send in a direct attempt *)
SendDirect(label, answers, next) ==
    /\ pc = label
    /\ \/ due' = Owing(device, peer, answers) /\ Enter(next)
       \/ UNCHANGED due /\ AttemptFails
    /\ UNCHANGED <<raddr, inbox, repeats, mismatched>>

(* The STUN request goes to raddr, and to the LAN address if there is one. *)
Punch ==
    /\ pc = "punch"
    /\ \/ /\ LET sent == Owing(device, peer, <<"stun">>)
             IN  due' = IF localAddr = None THEN sent
                        ELSE [sent EXCEPT ![<<device, localAddr>>] =
                                Append(@, [from |-> localAddr, re |-> "stun", n |-> attempt])]
          /\ Enter("await")
       \/ UNCHANGED due /\ AttemptFails
    /\ UNCHANGED <<raddr, inbox, repeats, mismatched>>

Answering == {i \in DOMAIN inbox[device] :
                 \/ SameUDPAddr(inbox[device][i].from, peer)
                 \/ localAddr # None /\ SameUDPAddr(inbox[device][i].from, localAddr)}

(* The first datagram from either address, whatever it is, makes its       *)
(* sender the peer; unless it is too short it is confirmed.                *)
AwaitPunch ==
    /\ pc = "await"
    /\ \/ /\ HasFirst(Answering)
          /\ inbox' = After(device, First(Answering))
          /\ LET d == inbox[device][First(Answering)]
             IN  /\ raddr' = [raddr EXCEPT ![device] = d.from]
                 /\ \/ due' = Owing(device, d.from, <<"stun">>) /\ Enter("drain")
                    \/ UNCHANGED due /\ AttemptFails
       \/ /\ Answering = {}
          /\ inbox' = [inbox EXCEPT ![device] = <<>>]
          /\ AttemptFails
          /\ UNCHANGED <<raddr, due>>
    /\ UNCHANGED <<repeats, mismatched>>

(* Drain what is left of STUN; then a new session sends SYNC. *)
Drain ==
    /\ pc = "drain"
    /\ \/ /\ reads < StunDrain
          /\ Received(device)
          /\ Reads(reads + 1) /\ UNCHANGED due
       \/ /\ reads < StunDrain
          /\ TimedOut(device)
          /\ Reads(StunDrain) /\ UNCHANGED due
    /\ UNCHANGED <<raddr, repeats, mismatched>>

SendSync ==
    /\ reads = StunDrain
    /\ SendDirect("drain", <<"sync">>, "readSync")

ReadSync ==
    /\ pc = "readSync"
    /\ \/ /\ Received(device)
          /\ \/ /\ Arrival(device).re = "sync"
                /\ syncOf' = Arrival(device).n
                /\ pc' = "auth" /\ reads' = 0
                /\ UNCHANGED <<result, sockVars, attempt, localAddr, authOf>>
             \/ AttemptFails
       \/ TimedOut(device) /\ AttemptFails
    /\ UNCHANGED <<raddr, due, repeats, mismatched>>

SendAuth == SendDirect("auth", <<"ack", "authOk">>, "readAuth")

ReadsAfterTimeoutSame == reads
ReadsAfterTimeout == reads + 1

(* Command 0x1A ends the loop; anything else, and a timeout, counts. *)
ReadAuth ==
    /\ pc = "readAuth"
    /\ reads < AuthReads
    /\ \/ /\ Received(device)
          /\ \/ /\ Arrival(device).re = "authOk"
                /\ authOf' = Arrival(device).n
                /\ pc' = "final"
                /\ UNCHANGED <<result, sockVars, reads, attempt, localAddr, syncOf>>
             \/ Reads(reads + 1)
       \/ TimedOut(device) /\ Reads(ReadsAfterTimeout)
    /\ UNCHANGED <<raddr, due, repeats, mismatched>>

NoAuthIgnored ==
    /\ pc = "readAuth"
    /\ reads = AuthReads
    /\ Goto("final")
    /\ UNCHANGED <<raddr, netVars, mismatched>>
NoAuth ==
    /\ pc = "readAuth"
    /\ reads = AuthReads
    /\ AttemptFails
    /\ UNCHANGED <<raddr, netVars, mismatched>>

SendFinal == SendDirect("final", <<"ack">>, "readFinal")

ReadFinal ==
    /\ pc = "readFinal"
    /\ Received(device) \/ TimedOut(device)
    /\ Enter("settle")
    /\ UNCHANGED <<raddr, due, repeats, mismatched>>

Settle ==
    /\ pc = "settle"
    /\ reads < FinalDrain
    /\ \/ Received(device) /\ Reads(reads + 1)
       \/ TimedOut(device) /\ Reads(FinalDrain)
    /\ UNCHANGED <<raddr, due, repeats, mismatched>>

(* The device's socket now belongs to the caller. *)
Succeed ==
    /\ pc = "settle"
    /\ reads = FinalDrain
    /\ result' = "ok" /\ pc' = "returned"
    /\ handles' = handles \ {device}
    /\ UNCHANGED <<sockets, closedTwice, reads, attempt, raddr, localAddr, netVars, mismatched,
                   authVars>>

-----------------------------------------------------------------------------
(* The servers, the device and the network *)

Arrives(c, s, i) ==
    /\ result = "running" /\ c \in sockets
    /\ i \in DOMAIN due[<<c, s>>]
    /\ inbox' = [inbox EXCEPT ![c] = Append(@, due[<<c, s>>][i])]

(* Datagram i arrives and those before it are lost. *)
Deliver(c, s, i) ==
    /\ Arrives(c, s, i)
    /\ due' = [due EXCEPT ![<<c, s>>] = SubSeq(@, i + 1, Len(@))]
    /\ UNCHANGED <<pc, reads, attempt, result, sockVars, raddr, localAddr, repeats, mismatched,
                   authVars>>

(* It will arrive again. *)
Repeat(c, s, i) ==
    /\ Arrives(c, s, i)
    /\ c \in Repeatable /\ repeats < MaxRepeats
    /\ due' = [due EXCEPT ![<<c, s>>] = SubSeq(@, i, Len(@))]
    /\ repeats' = repeats + 1
    /\ UNCHANGED <<pc, reads, attempt, result, sockVars, raddr, localAddr, mismatched, authVars>>

-----------------------------------------------------------------------------
Cloud ==
    \/ OpenMain \/ ProbeP2psrv \/ ReadProbe \/ OnlineP2psrv \/ ReadP2psrv
    \/ OpenP2p \/ ProbeDevice \/ ReadProbeDevice \/ InfoDevice \/ ReadInfo
    \/ OnlineRelay \/ ReadRelay \/ OpenDevice \/ RequestChannel
    \/ RelayAgent \/ ReadAgent \/ RelayStart \/ ReadStart
    \/ ReadChannel \/ ReadFinalChannel \/ RelayChannel \/ ReadNatInfo
    \/ AgentSync \/ ReadAgentSync \/ RequestSign \/ ReadSign \/ NoSign \/ CloseCloud

Direct ==
    \/ Punch \/ AwaitPunch \/ Drain \/ SendSync \/ ReadSync \/ SendAuth \/ ReadAuth \/ NoAuth
    \/ SendFinal \/ ReadFinal \/ Settle \/ Succeed

Network ==
    \E c \in Clients, s \in Servers : \E i \in DOMAIN due[<<c, s>>] :
        Deliver(c, s, i) \/ Repeat(c, s, i)

Next == Cloud \/ Direct \/ Network

Spec == Init /\ [][Next]_vars

(* Every read has a timeout and nothing else waits. *)
FairSpec == Spec /\ WF_vars(Cloud \/ Direct)

-----------------------------------------------------------------------------
(* Properties *)

(* No socket outlives the handshake that opened it: a failed handshake     *)
(* leaves none open, a successful one the device's, and none is closed     *)
(* twice, wherever the error occurs.                                       *)
SocketsAccounted ==
    /\ result = "failed" => sockets = {}
    /\ result = "ok" => sockets = {device}
    /\ ~closedTwice

(* Responses are matched with requests by order alone.  Unless the network *)
(* repeats a datagram, every read before the direct attempts uses the      *)
(* answer to its own request, although three requests share the main       *)
(* server, the p2p client turns to four servers, and one answer is never   *)
(* read.                                                                   *)
AnswersMatch == repeats = 0 => ~mismatched

(* Each attempt starts a session of its own on the same socket, and the    *)
(* device may answer late.  A handshake succeeds only if the device        *)
(* acknowledged an auth; and while the network repeats nothing, it was the *)
(* auth of the attempt that succeeds whenever that attempt took the SYNC   *)
(* answer that is its own.                                                 *)
AuthIsFresh ==
    result = "ok" =>
        /\ authOf \in 1..attempt
        /\ repeats = 0 /\ syncOf = attempt => authOf = attempt

(* Handshake returns, whoever does not answer. *)
HandshakeReturns == <>(result # "running")
=============================================================================
