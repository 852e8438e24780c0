--------------------------- MODULE MCPtcpSession ---------------------------
(* Instances of PtcpSession for TLC. *)
EXTENDS PtcpSession

realm == <<255, 0, 18, 0>>
data == <<16, 0, 0, 0>>
DISC == <<68, 73, 83, 67>>

(* Every kind of body the program sends; the data looks like framing. *)
MCBodies ==
    {NewEmptyBody, NewSyncBody, NewHeartbeatBody, NewPayloadBody(realm, data),
     NewBindBody(realm, <<0, 0, 2, 42>>), NewStatusBody(realm, DISC),
     NewCommandBody(<<27>> \o Zero \o Zero \o <<0, 0, 0>>)}

(* What the device sends: an ACK, a payload, one that is cut short, and a  *)
(* status with and without padding.                                        *)
MCWires ==
    {<<>>, Serialize(NewPayloadBody(realm, data)),
     LengthField(TypePayload, 5) \o realm \o Zero \o data,
     Serialize(NewStatusBody(realm, DISC)), Serialize(NewStatusBody(realm, DISC \o <<0, 0>>))}
=============================================================================
