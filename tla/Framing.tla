------------------------------- MODULE Framing -------------------------------
(***************************************************************************)
(* ptcp/types.go: PTCP bodies, the bytes they are sent as, and what is     *)
(* read back.  A byte is 0..255; realm ids and ports are words of four     *)
(* bytes.  Lengths stay far below the 24 bits of the length field, as a    *)
(* datagram does.                                                          *)
(***************************************************************************)
EXTENDS Integers, Sequences

TypeSync == 0
TypePayload == 16
TypeBind == 17
TypeStatus == 18
TypeHeartbeat == 19

Bytes == 0..255
Words == {w \in Seq(Bytes) : Len(w) = 4}
Zero == <<0, 0, 0, 0>>

(* Realm, Port, and Data, Status or Command, whichever the type has. *)
NewBody(type, realm, port, data) ==
    [type |-> type, realm |-> realm, port |-> port, data |-> data]
NewEmptyBody == NewBody("empty", Zero, Zero, <<>>)
NewSyncBody == NewBody("sync", Zero, Zero, <<>>)
NewHeartbeatBody == NewBody("heartbeat", Zero, Zero, <<>>)
NewPayloadBody(realm, data) == NewBody("payload", realm, Zero, data)
NewBindBody(realm, port) == NewBody("bind", realm, port, <<>>)
NewStatusBody(realm, status) == NewBody("status", realm, Zero, status)
NewCommandBody(command) == NewBody("command", Zero, Zero, command)

(* The bodies the program sends, each within a datagram: a status is DISC, *)
(* which does not end in a NUL, and a command starts with 0x17, 0x19 or    *)
(* 0x1B.                                                                   *)
Sendable(b) ==
    /\ b = NewBody(b.type, b.realm, b.port, b.data)
    /\ b.realm \in Words /\ b.port \in Words
    /\ b.data \in Seq(Bytes) /\ Len(b.data) < 65536
    /\ \/ b \in {NewEmptyBody, NewSyncBody, NewHeartbeatBody}
       \/ b = NewPayloadBody(b.realm, b.data)
       \/ b = NewBindBody(b.realm, b.port)
       \/ /\ b = NewStatusBody(b.realm, b.data)
          /\ b.data # <<>> /\ b.data[Len(b.data)] # 0
       \/ /\ b = NewCommandBody(b.data)
          /\ Len(b.data) >= 4
          /\ b.data[1] \notin {TypeSync, TypePayload, TypeBind, TypeStatus, TypeHeartbeat}

Invalid == [type |-> "invalid"]

(* Body.Len: what the session counts. *)
BodyLen(b) ==
    CASE b.type = "empty" -> 0
      [] b.type = "sync" -> 4
      [] b.type = "command" -> Len(b.data)
      [] b.type \in {"payload", "status"} -> Len(b.data) + 12
      [] b.type = "bind" -> 20
      [] b.type = "heartbeat" -> 12

LengthField(first, n) == <<first, n \div 65536, (n \div 256) % 256, n % 256>>

DataLenWithHeader(b) == Len(b.data) + 12
DataLen(b) == IF b.type = "bind" THEN 8 ELSE Len(b.data)

Serialize(b) ==
    CASE b.type = "empty" -> <<>>
      [] b.type = "sync" -> <<0, 3, 1, 0>>
      [] b.type = "command" -> b.data
      [] b.type = "payload" -> LengthField(TypePayload, DataLen(b)) \o b.realm \o Zero \o b.data
      [] b.type = "bind" ->
            LengthField(TypeBind, DataLen(b)) \o b.realm \o Zero \o b.port \o <<127, 0, 0, 1>>
      [] b.type = "status" -> LengthField(TypeStatus, DataLen(b)) \o b.realm \o Zero \o b.data
      [] b.type = "heartbeat" -> LengthField(TypeHeartbeat, 0) \o Zero \o Zero

From(w, i) == SubSeq(w, i, Len(w))
Word(w, i) == SubSeq(w, i, i + 3)

(* strings.TrimRight(s, "\x00") *)
TrimNul(s) ==
    SubSeq(s, 1, CHOOSE n \in 0..Len(s) :
                    /\ n = 0 \/ s[n] # 0
                    /\ \A i \in n + 1..Len(s) : s[i] = 0)

(* A payload's length is checked; other bodies may be longer than they say. *)
ParsePayload(w) ==
    IF /\ Len(w) >= 12
       /\ Word(w, 9) = Zero
       /\ LengthField(w[1], Len(w) - 12) = Word(w, 1)
    THEN NewPayloadBody(Word(w, 5), From(w, 13)) ELSE Invalid

ParseBody(w) ==
    IF w = <<>> THEN NewEmptyBody
    ELSE IF Len(w) < 4 THEN Invalid
    ELSE CASE w[1] = TypeSync -> NewSyncBody
           [] w[1] = TypePayload -> ParsePayload(w)
           [] w[1] = TypeBind ->
                IF Len(w) < 16 THEN Invalid ELSE NewBindBody(Word(w, 5), Word(w, 13))
           [] w[1] = TypeStatus ->
                IF Len(w) < 12 THEN Invalid
                ELSE NewStatusBody(Word(w, 5), TrimNul(From(w, 13)))
           [] w[1] = TypeHeartbeat -> NewHeartbeatBody
           [] OTHER -> NewCommandBody(w)
=============================================================================
