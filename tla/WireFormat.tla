----------------------------- MODULE WireFormat -----------------------------
(***************************************************************************)
(* The messages of the WSS control plane and how their receiver tells them *)
(* apart: internal/protocol/wss/protocol.go over the schema of             *)
(* internal/protocol/pb/control.proto.                                     *)
(*                                                                         *)
(* A message carries no type tag.  SendMessage frames the protobuf bytes   *)
(* with their length, and UnmarshalMessage tries one schema after another  *)
(* until the fields it finds look right.                                   *)
(*                                                                         *)
(* A protobuf message is modelled as its five numbered fields.  A field    *)
(* that is absent, or that the schema tried gives another wire type, reads *)
(* as the zero value of proto3, so every field value has both readings:    *)
(* text and all (the last and all length-delimited occurrences) and num    *)
(* (the varint).  Text that is not UTF-8 is the single value Binary.  It   *)
(* makes Unmarshal fail; where the code ignores the error the field has    *)
(* been left empty.                                                        *)
(***************************************************************************)
EXTENDS Naturals, Sequences

CONSTANTS
    Id,         \* device ids and connection ids
    Location,   \* locations a device may be configured with, "" for none
    TagList,    \* tag lists a device may be configured with
    Address,    \* QUIC addresses sent by the server
    Target,     \* target addresses of the commands
    LongTarget, \* those of 128 bytes or more
    Reason,     \* error texts of a command response, "" for none
    Number,     \* values of the numeric fields
    Binary      \* bytes that are not valid UTF-8

Status == {"ok", "error"}

ASSUME IdAssumption == "" \notin Id /\ Binary \notin Id
ASSUME LocationAssumption == Binary \notin Location
ASSUME TagAssumption ==
    \A tags \in TagList : tags \in Seq(STRING) /\ \A i \in DOMAIN tags : tags[i] # Binary
ASSUME AddressAssumption == "" \notin Address /\ Binary \notin Address
ASSUME TargetAssumption == LongTarget \subseteq Target
ASSUME ReasonAssumption == Binary \notin Reason
ASSUME NumberAssumption == Number \subseteq Nat
ASSUME BinaryAssumption == Binary \notin Status \cup {""}

-----------------------------------------------------------------------------
(* The messages of control.proto, as the senders in this code fill them.   *)

RegisterRequest ==      \* wss/client.go Register: capacity is never set
    [kind : {"RegisterRequest"}, device_id : Id, location : Location,
     capacity : {0}, tags : TagList]
RegisterResponse ==     \* an address comes with status "ok" only
    [kind : {"RegisterResponse"}, status : Status, device_id : Id,
     quic_address : Address \cup {""}]
HeartbeatRequest ==     \* the timestamp is the Unix time
    [kind : {"HeartbeatRequest"}, device_id : Id, timestamp : Number \ {0}]
HeartbeatResponse ==
    [kind : {"HeartbeatResponse"}, status : Status]
LoadReport ==
    [kind : {"LoadReport"}, device_id : Id, timestamp : Number \ {0},
     active_conns : Number, bytes_sent : Number, bytes_received : Number]
Command ==
    [kind : {"Command"}, conn_id : Id, command : {"open_tcp", "open_udp"},
     target_address : Target]
    \cup
    [kind : {"Command"}, conn_id : Id, command : {"close"}, target_address : {""}]
CommandResponse ==      \* sent only to report a failure
    [kind : {"CommandResponse"}, conn_id : Id, success : {FALSE}, error : Reason]

ServerBound == RegisterRequest \cup HeartbeatRequest \cup LoadReport \cup CommandResponse
DeviceBound == RegisterResponse \cup HeartbeatResponse \cup Command

-----------------------------------------------------------------------------
(* Encoding: a proto3 field with the zero value is not sent.               *)

Field == [text : STRING, all : Seq(STRING), num : Nat]

Absent == [text |-> "", all |-> <<>>, num |-> 0]
Text(t) == IF t = "" THEN Absent ELSE [Absent EXCEPT !.text = t, !.all = <<t>>]
Varint(n) == [Absent EXCEPT !.num = n]
Repeated(ts) ==
    IF ts = <<>> THEN Absent ELSE [Absent EXCEPT !.text = ts[Len(ts)], !.all = ts]

(* A nested message is length-delimited like a string, and sent even when  *)
(* it is empty.  The payload of OpenTCP and OpenUDP starts with a tag and  *)
(* a length byte; a length of 128 or more is not UTF-8.                    *)
Nested(t) == [Absent EXCEPT !.text = t, !.all = <<t>>]
OpenPayload(target) == IF target \in LongTarget THEN Binary ELSE target

Encode(m) ==
    CASE m.kind = "RegisterRequest" ->
            <<Text(m.device_id), Text(m.location), Varint(m.capacity),
              Repeated(m.tags), Absent>>
      [] m.kind = "RegisterResponse" ->
            <<Text(m.status), Text(m.device_id), Text(m.quic_address), Absent, Absent>>
      [] m.kind = "HeartbeatRequest" ->
            <<Text(m.device_id), Varint(m.timestamp), Absent, Absent, Absent>>
      [] m.kind = "HeartbeatResponse" ->
            <<Text(m.status), Absent, Absent, Absent, Absent>>
      [] m.kind = "LoadReport" ->
            <<Text(m.device_id), Varint(m.timestamp), Varint(m.active_conns),
              Varint(m.bytes_sent), Varint(m.bytes_received)>>
      [] m.kind = "Command" ->
            <<Text(m.conn_id),
              IF m.command = "open_tcp" THEN Nested(OpenPayload(m.target_address)) ELSE Absent,
              IF m.command = "open_udp" THEN Nested(OpenPayload(m.target_address)) ELSE Absent,
              IF m.command = "close" THEN Nested("") ELSE Absent, Absent>>
      [] m.kind = "CommandResponse" ->
            <<Text(m.conn_id), Varint(IF m.success THEN 1 ELSE 0), Text(m.error),
              Absent, Absent>>

-----------------------------------------------------------------------------
(* proto.Unmarshal for each schema that UnmarshalMessage tries.            *)

IsUTF8(f) == f.text # Binary
Str(f) == IF IsUTF8(f) THEN f.text ELSE ""

AsRegisterRequest(w) ==
    [kind |-> "RegisterRequest", device_id |-> Str(w[1]), location |-> Str(w[2]),
     capacity |-> w[3].num, tags |-> w[4].all]
AsRegisterResponse(w) ==
    [kind |-> "RegisterResponse", status |-> Str(w[1]), device_id |-> Str(w[2]),
     quic_address |-> Str(w[3])]
AsHeartbeatRequest(w) ==
    [kind |-> "HeartbeatRequest", device_id |-> Str(w[1]), timestamp |-> w[2].num]
AsHeartbeatResponse(w) ==
    [kind |-> "HeartbeatResponse", status |-> Str(w[1])]
AsLoadReport(w) ==
    [kind |-> "LoadReport", device_id |-> Str(w[1]), timestamp |-> w[2].num,
     active_conns |-> w[3].num, bytes_sent |-> w[4].num, bytes_received |-> w[5].num]
AsCommand(w) ==     \* the oneof holds the nested message that came last
    [kind |-> "Command", conn_id |-> Str(w[1]),
     command |-> CASE w[4].all # <<>> -> "close"
                   [] w[4].all = <<>> /\ w[3].all # <<>> -> "open_udp"
                   [] w[4].all = <<>> /\ w[3].all = <<>> -> "open_tcp",
     target_address |-> IF w[3].all # <<>> THEN w[3].text ELSE w[2].text]
AsCommandResponse(w) ==
    [kind |-> "CommandResponse", conn_id |-> Str(w[1]), success |-> w[2].num # 0,
     error |-> Str(w[3])]

(* The tests of UnmarshalMessage, in its order.  DeviceId of a request and *)
(* Status of a response are the same field on the wire.                    *)

(* Mutants of IsRegisterRequest: any message with an id will do; a device  *)
(* is told by its tags alone.                                              *)
IsAnyRequest(w) ==
    /\ IsUTF8(w[1]) /\ IsUTF8(w[2])
    /\ AsRegisterRequest(w).device_id # ""
    /\ AsRegisterResponse(w).quic_address = ""

IsTaggedRequest(w) ==
    IsAnyRequest(w) /\ AsRegisterRequest(w).tags # <<>>

IsRegisterRequest(w) ==
    LET req == AsRegisterRequest(w)
        resp == AsRegisterResponse(w)
    IN  /\ IsUTF8(w[1]) /\ IsUTF8(w[2]) /\ \A i \in DOMAIN w[4].all : w[4].all[i] # Binary
        /\ req.device_id # ""
        /\ resp.status \notin Status
        /\ resp.quic_address = ""
        /\ \/ req.location # "" \/ req.tags # <<>>
           \/ resp.quic_address = "" /\ resp.status = ""

IsHeartbeatRequest(w) ==
    /\ IsUTF8(w[1])
    /\ AsHeartbeatRequest(w).device_id # ""
    /\ AsHeartbeatRequest(w).timestamp > 0

IsRegisterResponse(w) ==
    LET resp == AsRegisterResponse(w)
        req == AsRegisterRequest(w)
    IN  /\ IsUTF8(w[1]) /\ IsUTF8(w[2]) /\ IsUTF8(w[3])
        /\ \/ resp.status \in Status
           \/ resp.quic_address # "" /\ req.location = "" /\ req.tags = <<>>

IsHeartbeatResponse(w) ==
    /\ IsUTF8(w[1])
    /\ AsHeartbeatResponse(w).status # ""
    /\ AsHeartbeatRequest(w).timestamp = 0

IsLoadReport(w) ==
    IsUTF8(w[1]) /\ AsLoadReport(w).device_id # "" /\ AsLoadReport(w).timestamp > 0

IsCommand(w) ==
    /\ IsUTF8(w[1])
    /\ AsCommand(w).conn_id # ""
    /\ \E f \in 2 .. 4 : w[f].all # <<>>

IsCommandResponse(w) ==
    IsUTF8(w[1]) /\ IsUTF8(w[3]) /\ AsCommandResponse(w).conn_id # ""

UnknownMessage == [kind |-> "unknown"]

(* Mutants of UnmarshalMessage: the responses are tried before the         *)
(* requests; HeartbeatResponse is tried before RegisterResponse.           *)
UnmarshalResponsesFirst(w) ==
    IF IsRegisterResponse(w) THEN AsRegisterResponse(w)
    ELSE IF IsRegisterRequest(w) THEN AsRegisterRequest(w)
    ELSE IF IsHeartbeatRequest(w) THEN AsHeartbeatRequest(w)
    ELSE UnknownMessage

UnmarshalHeartbeatFirst(w) ==
    IF IsHeartbeatResponse(w) THEN AsHeartbeatResponse(w)
    ELSE IF IsRegisterResponse(w) THEN AsRegisterResponse(w)
    ELSE UnknownMessage

UnmarshalMessage(w) ==
    IF IsRegisterRequest(w) THEN AsRegisterRequest(w)
    ELSE IF IsHeartbeatRequest(w) THEN AsHeartbeatRequest(w)
    ELSE IF IsRegisterResponse(w) THEN AsRegisterResponse(w)
    ELSE IF IsHeartbeatResponse(w) THEN AsHeartbeatResponse(w)
    ELSE IF IsLoadReport(w) THEN AsLoadReport(w)
    ELSE IF IsCommand(w) THEN AsCommand(w)
    ELSE IF IsCommandResponse(w) THEN AsCommandResponse(w)
    ELSE UnknownMessage

Received(m) == UnmarshalMessage(Encode(m))

=============================================================================
