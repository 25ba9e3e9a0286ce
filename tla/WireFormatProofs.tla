-------------------------- MODULE WireFormatProofs --------------------------
(***************************************************************************)
(* What UnmarshalMessage makes of each message, for every id, location,    *)
(* tag list and address; and what the readers of QUIC streams make of the  *)
(* line at their head, whatever its octets and the pieces it arrives in.   *)
(***************************************************************************)
EXTENDS ControlMessages, SequenceTheorems, WellFoundedInduction, TLAPS

(* The wire fields a heartbeat request travels as. *)
LEMMA HeartbeatRequestWire ==
  ASSUME NEW m \in HeartbeatRequest
  PROVE  Encode(m) = <<Text(m.device_id), Varint(m.timestamp), Absent, Absent, Absent>>
<1>1. m.kind = "HeartbeatRequest"
  BY DEF HeartbeatRequest
<1> QED BY <1>1, Zenon DEF Encode

(* Every heartbeat request is received as it was sent. *)
THEOREM HeartbeatRoundTrip ==
  ASSUME NEW m \in HeartbeatRequest
  PROVE  Received(m) = m
<1> DEFINE w == Encode(m)
<1>1. /\ m.device_id \in Id /\ m.timestamp \in Nat /\ m.timestamp > 0
      /\ m = [kind |-> "HeartbeatRequest", device_id |-> m.device_id,
              timestamp |-> m.timestamp]
  <2>1. m.device_id \in Id /\ m.timestamp \in Number \ {0} /\ m.kind = "HeartbeatRequest"
    BY DEF HeartbeatRequest
  <2>2. m.timestamp \in Nat /\ m.timestamp > 0
    <3> DEFINE t == m.timestamp
    <3>1. t \in Number /\ t # 0
      BY <2>1
    <3> HIDE DEF t
    <3>2. t \in Nat
      BY <3>1, NumberAssumption DEF NumberAssumption
    <3>3. t > 0
      BY <3>1, <3>2
    <3> QED BY <3>2, <3>3 DEF t
  <2>3. m = [kind |-> "HeartbeatRequest", device_id |-> m.device_id,
             timestamp |-> m.timestamp]
    BY <2>1 DEF HeartbeatRequest
  <2> QED BY <2>1, <2>2, <2>3
<1>2. /\ w[1].text = m.device_id /\ w[2].text = "" /\ w[3].text = ""
      /\ w[4].all = <<>> /\ w[2].num = m.timestamp
  <2>1. /\ w[1] = Text(m.device_id) /\ w[2] = Varint(m.timestamp)
        /\ w[3] = Absent /\ w[4] = Absent
    BY HeartbeatRequestWire
  <2>2. Text(m.device_id).text = m.device_id
    BY <1>1, IdAssumption DEF Text, Absent
  <2>3. Varint(m.timestamp).num = m.timestamp /\ Varint(m.timestamp).text = ""
    BY DEF Varint, Absent
  <2>4. Absent.text = "" /\ Absent.all = <<>>
    BY DEF Absent
  <2> QED BY <2>1, <2>2, <2>3, <2>4
<1>3. Str(w[1]) = m.device_id /\ Str(w[2]) = "" /\ Str(w[3]) = "" /\ IsUTF8(w[1])
  BY <1>1, <1>2, IdAssumption, BinaryAssumption DEF Str, IsUTF8
<1> HIDE DEF w
<1>4. ~IsRegisterRequest(w)
  BY <1>1, <1>2, <1>3, IdAssumption
     DEF IsRegisterRequest, AsRegisterRequest, AsRegisterResponse
<1>5. IsHeartbeatRequest(w)
  BY <1>1, <1>2, <1>3, IdAssumption DEF IsHeartbeatRequest, AsHeartbeatRequest
<1>6. AsHeartbeatRequest(w) = m
  BY <1>1, <1>2, <1>3 DEF AsHeartbeatRequest
<1> QED BY <1>4, <1>5, <1>6 DEF UnmarshalMessage, Received, w

(* A message without text in field 2 and without tags in field 4 never     *)
(* passes for a registration request: its status field is its id.          *)
LEMMA NotRegisterRequest ==
  ASSUME NEW w, Str(w[2]) = "", w[4].all = <<>>
  PROVE  ~IsRegisterRequest(w)
  BY DEF IsRegisterRequest, AsRegisterRequest, AsRegisterResponse

LEMMA OtherKind ==
  ASSUME NEW w, ~IsRegisterRequest(w)
  PROVE  UnmarshalMessage(w).kind # "RegisterRequest"
  BY DEF UnmarshalMessage, AsHeartbeatRequest, AsRegisterResponse,
     AsHeartbeatResponse, AsLoadReport, AsCommand, AsCommandResponse, UnknownMessage

LEMMA KnownKind ==
  ASSUME NEW w
  PROVE  UnmarshalMessage(w).kind \in
            {"RegisterRequest", "HeartbeatRequest", "RegisterResponse",
             "HeartbeatResponse", "LoadReport", "Command", "CommandResponse", "unknown"}
  BY DEF UnmarshalMessage, AsRegisterRequest, AsHeartbeatRequest, AsRegisterResponse,
     AsHeartbeatResponse, AsLoadReport, AsCommand, AsCommandResponse, UnknownMessage

LEMMA NumbersOnly ==
  ASSUME NEW m \in LoadReport \cup CommandResponse \cup HeartbeatRequest
  PROVE  Str(Encode(m)[2]) = "" /\ Encode(m)[4].all = <<>>
<1>1. \A n : Str(Varint(n)) = "" /\ Varint(n).all = <<>>
  BY DEF Varint, Absent, Str
<1>2. Absent.all = <<>>
  BY DEF Absent
<1>3. CASE m \in LoadReport
  <2>1. m.kind = "LoadReport"
    BY <1>3 DEF LoadReport
  <2>2. Encode(m) = <<Text(m.device_id), Varint(m.timestamp), Varint(m.active_conns),
                      Varint(m.bytes_sent), Varint(m.bytes_received)>>
    BY <2>1, Zenon DEF Encode
  <2>3. Encode(m)[2] = Varint(m.timestamp) /\ Encode(m)[4] = Varint(m.bytes_sent)
    BY <2>2
  <2> QED BY <2>3, <1>1
<1>4. CASE m \in CommandResponse
  <2>1. m.kind = "CommandResponse"
    BY <1>4 DEF CommandResponse
  <2>2. Encode(m) = <<Text(m.conn_id), Varint(IF m.success THEN 1 ELSE 0),
                      Text(m.error), Absent, Absent>>
    BY <2>1, Zenon DEF Encode
  <2>3. Encode(m)[2] = Varint(IF m.success THEN 1 ELSE 0) /\ Encode(m)[4] = Absent
    BY <2>2
  <2> QED BY <2>3, <1>1, <1>2
<1>5. CASE m \in HeartbeatRequest
  <2>1. Encode(m)[2] = Varint(m.timestamp) /\ Encode(m)[4] = Absent
    BY <1>5, HeartbeatRequestWire
  <2> QED BY <2>1, <1>1, <1>2
<1> QED BY <1>3, <1>4, <1>5

LEMMA RegisterRequestWire ==
  ASSUME NEW m \in RegisterRequest
  PROVE  AsRegisterRequest(Encode(m)) = m
<1>1. /\ m.kind = "RegisterRequest" /\ m.device_id \in Id /\ m.location \in Location
      /\ m.capacity = 0 /\ m.tags \in TagList
      /\ m = [kind |-> "RegisterRequest", device_id |-> m.device_id,
              location |-> m.location, capacity |-> m.capacity, tags |-> m.tags]
  BY DEF RegisterRequest
<1>2. Encode(m) = <<Text(m.device_id), Text(m.location), Varint(m.capacity),
                    Repeated(m.tags), Absent>>
  BY <1>1, Zenon DEF Encode
<1>3. \A t : t # Binary => Str(Text(t)) = t
  <2>1. \A t : Text(t).text = t
    BY DEF Text, Absent
  <2> QED BY <2>1, BinaryAssumption DEF Str, IsUTF8
<1>4. Str(Text(m.device_id)) = m.device_id /\ Str(Text(m.location)) = m.location
  BY <1>1, <1>3, IdAssumption, LocationAssumption
<1>5. Varint(m.capacity).num = m.capacity
  BY DEF Varint, Absent
<1>6. Repeated(m.tags).all = m.tags
  BY DEF Repeated, Absent
<1> QED BY <1>1, <1>2, <1>4, <1>5, <1>6 DEF AsRegisterRequest

(* What the server takes for a registration request is one, as it was      *)
(* sent: a heartbeat, a load report or the answer to a command never       *)
(* creates a device or replaces its connection.                            *)
THEOREM OnlyRegistrationsRegister ==
  ASSUME NEW m \in ServerBound, Received(m).kind = "RegisterRequest"
  PROVE  m \in RegisterRequest /\ Received(m) = m
<1>1. m \in RegisterRequest
  <2>1. SUFFICES ASSUME m \in LoadReport \cup CommandResponse \cup HeartbeatRequest
                 PROVE  FALSE
    BY DEF ServerBound
  <2> QED BY <2>1, NumbersOnly, NotRegisterRequest, OtherKind DEF Received
<1>2. IsRegisterRequest(Encode(m))
  BY OtherKind DEF Received
<1> QED BY <1>1, <1>2, RegisterRequestWire DEF Received, UnmarshalMessage

(* While streams are read no message is, and conversely.                   *)
LEMMA MessagesStep == [Next]_vars => [Messages]_messages
BY DEF Next, vars, messages

(* NoSpuriousRegistration holds in every state of every exchange.          *)
THEOREM NoSpuriousRegistrationEver == Spec => []NoSpuriousRegistration
<1>1. Init => NoSpuriousRegistration
  BY DEF Init, NoSpuriousRegistration
<1>2. ASSUME [Messages]_messages, NoSpuriousRegistration
      PROVE  NoSpuriousRegistration'
  <2>1. ASSUME NEW m \in ServerBound, ServerReads(m), handledBy' = "handleRegister"
        PROVE  sent' = m /\ received' = m /\ m.kind = "RegisterRequest"
    <3>1. sent' = m /\ received' = Received(m) /\ HandleMessage(Received(m)) = "handleRegister"
      BY <2>1 DEF ServerReads, Deliver
    <3>2. Received(m).kind = "RegisterRequest"
      BY <3>1, KnownKind DEF HandleMessage, Handler, Received
    <3> QED BY <3>1, <3>2, OnlyRegistrationsRegister DEF RegisterRequest
  <2>2. ASSUME NEW m,
               RegisterReads(m) \/ SendHeartbeatReads(m) \/ HandleMessagesReads(m)
        PROVE  handledBy' # "handleRegister"
    BY <2>2 DEF RegisterReads, SendHeartbeatReads, HandleMessagesReads, Deliver
  <2>3. CASE UNCHANGED messages
    BY <1>2, <2>3 DEF messages, NoSpuriousRegistration
  <2> QED BY <1>2, <2>1, <2>2, <2>3 DEF Messages, NoSpuriousRegistration
<1> QED BY <1>1, <1>2, MessagesStep, PTL DEF Spec
(* The first field of every message is an id or a status word.             *)
LEMMA FirstField ==
  ASSUME NEW t, t \in Id \cup Status
  PROVE  /\ IsUTF8(Text(t)) /\ Str(Text(t)) = t /\ t # ""
         /\ Text(t).num = 0
<1>1. t # "" /\ t # Binary
  BY IdAssumption, BinaryAssumption DEF Status
<1>2. Text(t).text = t /\ Text(t).num = 0
  BY <1>1 DEF Text, Absent
<1> QED BY <1>1, <1>2 DEF IsUTF8, Str

(* Each of these three schemas is enough for a message not to be unknown.  *)
LEMMA NotUnknown ==
  ASSUME NEW w, IsHeartbeatRequest(w) \/ IsHeartbeatResponse(w) \/ IsCommandResponse(w)
  PROVE  UnmarshalMessage(w).kind # "unknown"
  BY DEF UnmarshalMessage, AsRegisterRequest, AsHeartbeatRequest, AsRegisterResponse,
     AsHeartbeatResponse, AsLoadReport, AsCommand, AsCommandResponse, UnknownMessage

(* What has a word in its first field and no number in its second passes   *)
(* for the answer to a heartbeat.                                          *)
LEMMA PassesForAnswer ==
  ASSUME NEW t \in Id \cup Status, NEW f, f.num = 0, NEW g, NEW h, NEW i
  PROVE  IsHeartbeatResponse(<<Text(t), f, g, h, i>>)
<1> DEFINE w == <<Text(t), f, g, h, i>>
<1>1. w[1] = Text(t) /\ w[2] = f
  OBVIOUS
<1> HIDE DEF w
<1>2. IsUTF8(w[1]) /\ Str(w[1]) # "" /\ w[2].num = 0
  BY <1>1, FirstField
<1>3. IsHeartbeatResponse(w)
  BY <1>2 DEF IsHeartbeatResponse, AsHeartbeatResponse, AsHeartbeatRequest
<1> QED BY <1>3 DEF w

(* What has a word in its first field and the time in its second passes    *)
(* for a heartbeat.                                                        *)
LEMMA PassesForHeartbeat ==
  ASSUME NEW t \in Id, NEW n \in Number \ {0}, NEW g, NEW h, NEW i
  PROVE  IsHeartbeatRequest(<<Text(t), Varint(n), g, h, i>>)
<1> DEFINE w == <<Text(t), Varint(n), g, h, i>>
<1>1. w[1] = Text(t) /\ w[2] = Varint(n)
  OBVIOUS
<1> HIDE DEF w
<1>2. IsUTF8(w[1]) /\ Str(w[1]) # ""
  BY <1>1, FirstField
<1>3. w[2].num > 0
  <2>1. w[2].num = n
    BY <1>1 DEF Varint, Absent
  <2>2. n \in Nat /\ n # 0
    BY NumberAssumption
  <2> QED BY <2>1, <2>2
<1>4. IsHeartbeatRequest(w)
  BY <1>2, <1>3 DEF IsHeartbeatRequest, AsHeartbeatRequest
<1> QED BY <1>4 DEF w

(* Every message that either side sends passes the tests of some schema.   *)
LEMMA AlwaysKnown ==
  ASSUME NEW m \in ServerBound \cup DeviceBound, m \notin RegisterResponse
  PROVE  Received(m).kind # "unknown"
<1>1. CASE m \in RegisterRequest
  <2>1. m.kind = "RegisterRequest" /\ m.device_id \in Id
    BY <1>1 DEF RegisterRequest
  <2>2. Encode(m) = <<Text(m.device_id), Text(m.location), Varint(m.capacity),
                      Repeated(m.tags), Absent>>
    BY <2>1, Zenon DEF Encode
  <2>3. Text(m.location).num = 0
    BY DEF Text, Absent
  <2>4. IsHeartbeatResponse(Encode(m))
    BY <2>1, <2>2, <2>3, PassesForAnswer
  <2> QED BY <2>4, NotUnknown DEF Received
<1>2. CASE m \in HeartbeatRequest
  <2>1. m.device_id \in Id /\ m.timestamp \in Number \ {0}
    BY <1>2 DEF HeartbeatRequest
  <2>2. IsHeartbeatRequest(Encode(m))
    BY <1>2, <2>1, HeartbeatRequestWire, PassesForHeartbeat
  <2> QED BY <2>2, NotUnknown DEF Received
<1>3. CASE m \in LoadReport
  <2>1. m.kind = "LoadReport" /\ m.device_id \in Id /\ m.timestamp \in Number \ {0}
    BY <1>3 DEF LoadReport
  <2>2. Encode(m) = <<Text(m.device_id), Varint(m.timestamp), Varint(m.active_conns),
                      Varint(m.bytes_sent), Varint(m.bytes_received)>>
    BY <2>1, Zenon DEF Encode
  <2>3. IsHeartbeatRequest(Encode(m))
    BY <2>1, <2>2, PassesForHeartbeat
  <2> QED BY <2>3, NotUnknown DEF Received
<1>4. CASE m \in CommandResponse
  <2> DEFINE w == Encode(m)
  <2>1. m.kind = "CommandResponse" /\ m.conn_id \in Id /\ m.error \in Reason
    BY <1>4 DEF CommandResponse
  <2>2. w = <<Text(m.conn_id), Varint(IF m.success THEN 1 ELSE 0), Text(m.error),
              Absent, Absent>>
    BY <2>1, Zenon DEF Encode
  <2>3. w[1] = Text(m.conn_id) /\ w[3] = Text(m.error)
    BY <2>2
  <2> HIDE DEF w
  <2>4. IsUTF8(w[1]) /\ Str(w[1]) # ""
    BY <2>1, <2>3, FirstField
  <2>5. IsUTF8(w[3])
    <3>1. Text(m.error).text = m.error
      BY DEF Text, Absent
    <3> QED BY <2>1, <2>3, <3>1, ReasonAssumption DEF IsUTF8
  <2>6. IsCommandResponse(w)
    BY <2>4, <2>5 DEF IsCommandResponse, AsCommandResponse
  <2> QED BY <2>6, NotUnknown DEF Received, w
<1>5. CASE m \in HeartbeatResponse
  <2>1. m.kind = "HeartbeatResponse" /\ m.status \in Status
    BY <1>5 DEF HeartbeatResponse
  <2>2. Encode(m) = <<Text(m.status), Absent, Absent, Absent, Absent>>
    BY <2>1, Zenon DEF Encode
  <2>3. Absent.num = 0
    BY DEF Absent
  <2>4. IsHeartbeatResponse(Encode(m))
    BY <2>1, <2>2, <2>3, PassesForAnswer
  <2> QED BY <2>4, NotUnknown DEF Received
<1>6. CASE m \in Command
  <2> DEFINE f == IF m.command = "open_tcp" THEN Nested(OpenPayload(m.target_address)) ELSE Absent
             g == IF m.command = "open_udp" THEN Nested(OpenPayload(m.target_address)) ELSE Absent
             h == IF m.command = "close" THEN Nested("") ELSE Absent
  <2>1. m.kind = "Command" /\ m.conn_id \in Id
    BY <1>6 DEF Command
  <2>2. Encode(m) = <<Text(m.conn_id), f, g, h, Absent>>
    BY <2>1, Zenon DEF Encode
  <2>3. f.num = 0
    <3>1. \A t : Nested(t).num = 0
      BY DEF Nested, Absent
    <3>2. Absent.num = 0
      BY DEF Absent
    <3> QED BY <3>1, <3>2
  <2> HIDE DEF f, g, h
  <2>4. IsHeartbeatResponse(Encode(m))
    BY <2>1, <2>2, <2>3, PassesForAnswer
  <2> QED BY <2>4, NotUnknown DEF Received
<1> QED BY <1>1, <1>2, <1>3, <1>4, <1>5, <1>6 DEF ServerBound, DeviceBound

(* No message that either side sends stops the loop that reads it          *)
(* (wss/handler.go HandleConnection, client/wss/client.go HandleMessages): *)
(* whatever the ids, the addresses and the tags, one of the schemas that   *)
(* UnmarshalMessage tries fits.                                            *)
THEOREM ReadersNeverStop == Spec => []NothingStopsTheReader
<1>1. Init => NothingStopsTheReader
  BY DEF Init, NothingStopsTheReader
<1>2. ASSUME [Messages]_messages, NothingStopsTheReader
      PROVE  NothingStopsTheReader'
  <2>1. ASSUME NEW m \in ServerBound, ServerReads(m)
        PROVE  handledBy' # "stopped"
    <3>1. handledBy' = HandleMessage(Received(m))
      BY <2>1 DEF ServerReads, Deliver
    <3>2. Received(m).kind # "unknown"
      <4>1. m \notin RegisterResponse
        BY DEF ServerBound, RegisterRequest, HeartbeatRequest, LoadReport, CommandResponse,
               RegisterResponse
      <4> QED BY <4>1, AlwaysKnown
    <3> QED BY <3>1, <3>2, KnownKind DEF HandleMessage, Handler, Received
  <2>2. ASSUME NEW m \in DeviceBound, HandleMessagesReads(m)
        PROVE  handledBy' # "stopped"
    <3> DEFINE k == Received(m).kind
    <3>1. m \in HeartbeatResponse \cup Command
      BY <2>2 DEF HandleMessagesReads
    <3>2. k # "unknown"
      <4>1. m \notin RegisterResponse
        BY <3>1 DEF HeartbeatResponse, Command, RegisterResponse
      <4> QED BY <4>1, AlwaysKnown
    <3>3. handledBy' = CASE k = "Command" -> "HandleCommand"
                         [] k = "unknown" -> "stopped"
                         [] k \notin {"Command", "unknown"} -> "ignored"
      BY <2>2 DEF HandleMessagesReads, Deliver
    <3> HIDE DEF k
    <3>4. "Command" # "unknown" /\ "HandleCommand" # "stopped" /\ "ignored" # "stopped"
      OBVIOUS
    <3>5. ASSUME k = "Command" PROVE handledBy' = "HandleCommand"
      BY <3>3, <3>4, <3>5, Zenon
    <3>6. ASSUME k # "Command" PROVE handledBy' = "ignored"
      BY <3>2, <3>3, <3>6, Zenon
    <3> QED BY <3>4, <3>5, <3>6
  <2>3. ASSUME NEW m, RegisterReads(m) \/ SendHeartbeatReads(m)
        PROVE  handledBy' # "stopped"
    BY <2>3 DEF RegisterReads, SendHeartbeatReads, Deliver
  <2>4. CASE UNCHANGED messages
    BY <1>2, <2>4 DEF messages, NothingStopsTheReader
  <2> QED BY <1>2, <2>1, <2>2, <2>3, <2>4 DEF Messages, NothingStopsTheReader
<1> QED BY <1>1, <1>2, MessagesStep, PTL DEF Spec

(* Every answer to a registration is received as it was sent: its device   *)
(* id reads as no number, and its status as no id of a device.             *)
THEOREM AnswerRoundTrip ==
  ASSUME NEW m \in RegisterResponse
  PROVE  Received(m) = m
<1> DEFINE w == Encode(m)
<1>1. /\ m.kind = "RegisterResponse" /\ m.status \in Status /\ m.device_id \in Id
      /\ m.quic_address \in Address \cup {""}
      /\ m = [kind |-> "RegisterResponse", status |-> m.status, device_id |-> m.device_id,
              quic_address |-> m.quic_address]
  BY DEF RegisterResponse
<1>2. w = <<Text(m.status), Text(m.device_id), Text(m.quic_address), Absent, Absent>>
  BY <1>1, Zenon DEF Encode
<1>3. w[1] = Text(m.status) /\ w[2] = Text(m.device_id) /\ w[3] = Text(m.quic_address)
  BY <1>2
<1> HIDE DEF w
<1>4. /\ IsUTF8(w[1]) /\ Str(w[1]) = m.status
      /\ IsUTF8(w[2]) /\ Str(w[2]) = m.device_id /\ w[2].num = 0
  BY <1>1, <1>3, FirstField
<1>5. IsUTF8(w[3]) /\ Str(w[3]) = m.quic_address
  <2>1. Text(m.quic_address).text = m.quic_address
    BY DEF Text, Absent
  <2>2. m.quic_address # Binary
    BY <1>1, AddressAssumption, BinaryAssumption
  <2> QED BY <1>3, <2>1, <2>2 DEF IsUTF8, Str
<1>6. ~IsRegisterRequest(w)
  BY <1>1, <1>4 DEF IsRegisterRequest, AsRegisterResponse
<1>7. ~IsHeartbeatRequest(w)
  BY <1>4 DEF IsHeartbeatRequest, AsHeartbeatRequest
<1>8. IsRegisterResponse(w)
  BY <1>1, <1>4, <1>5 DEF IsRegisterResponse, AsRegisterResponse
<1>9. AsRegisterResponse(w) = m
  BY <1>1, <1>4, <1>5 DEF AsRegisterResponse
<1> QED BY <1>6, <1>7, <1>8, <1>9 DEF UnmarshalMessage, Received, w

(* A registration request that names a location or a tag is received as it *)
(* was sent, unless its device is called like a status.                    *)
THEOREM PlacedRegistrationRoundTrip ==
  ASSUME NEW m \in RegisterRequest, m.location # "" \/ m.tags # <<>>,
         m.device_id \notin Status
  PROVE  Received(m) = m
<1> DEFINE w == Encode(m)
<1>1. /\ m.kind = "RegisterRequest" /\ m.device_id \in Id /\ m.location \in Location
      /\ m.tags \in TagList
  BY DEF RegisterRequest
<1>2. w = <<Text(m.device_id), Text(m.location), Varint(m.capacity),
            Repeated(m.tags), Absent>>
  BY <1>1, Zenon DEF Encode
<1>3. AsRegisterRequest(w) = m
  BY RegisterRequestWire
<1> HIDE DEF w
<1>4. /\ w[1] = Text(m.device_id) /\ w[2] = Text(m.location) /\ w[3] = Varint(m.capacity)
      /\ w[4] = Repeated(m.tags)
  BY <1>2
<1>5. IsUTF8(w[1]) /\ Str(w[1]) = m.device_id /\ m.device_id # ""
  BY <1>1, <1>4, FirstField
<1>6. IsUTF8(w[2])
  <2>1. Text(m.location).text = m.location
    BY DEF Text, Absent
  <2> QED BY <1>1, <1>4, <2>1, LocationAssumption DEF IsUTF8
<1>7. \A i \in DOMAIN w[4].all : w[4].all[i] # Binary
  <2>1. Repeated(m.tags).all = m.tags
    BY DEF Repeated, Absent
  <2> QED BY <1>1, <1>4, <2>1, TagAssumption
<1>8. Str(w[3]) = ""
  <2>1. Varint(m.capacity).text = ""
    BY DEF Varint, Absent
  <2> QED BY <1>4, <2>1 DEF Str
<1>9. IsRegisterRequest(w)
  <2>1. /\ AsRegisterRequest(w).device_id # ""
        /\ AsRegisterRequest(w).location # "" \/ AsRegisterRequest(w).tags # <<>>
    BY <1>3, <1>5
  <2>2. AsRegisterResponse(w).status = m.device_id /\ AsRegisterResponse(w).quic_address = ""
    BY <1>5, <1>8 DEF AsRegisterResponse
  <2> QED BY <1>5, <1>6, <1>7, <2>1, <2>2 DEF IsRegisterRequest
<1> QED BY <1>3, <1>9 DEF UnmarshalMessage, Received, w

(* The exchange of registrations and heartbeats goes as it should, though  *)
(* UnmarshalMessage guesses the kind of a message from its fields: no      *)
(* heartbeat is taken for something else, the device reads the answer to   *)
(* its registration, and a registration with a place arrives.              *)
THEOREM KindsArriveEver == Spec => []KindsArrive
<1> USE DEF KindsArrive, HeartbeatsArrive, AnswersToRegisterArrive, PlacedRegistrationsArrive
<1>1. Init => KindsArrive
  BY DEF Init, None
<1>2. ASSUME [Messages]_messages, KindsArrive
      PROVE  KindsArrive'
  <2>1. ASSUME NEW m \in ServerBound, ServerReads(m)
        PROVE  KindsArrive'
    <3>1. sent' = m /\ received' = Received(m) /\ handledBy' = HandleMessage(Received(m))
      BY <2>1 DEF ServerReads, Deliver
    <3>2. CASE m \in RegisterRequest
      <4>1. m.kind = "RegisterRequest"
        BY <3>2 DEF RegisterRequest
      <4> QED BY <3>1, <3>2, <4>1, PlacedRegistrationRoundTrip
    <3>3. CASE m \in HeartbeatRequest
      <4>1. m.kind = "HeartbeatRequest" /\ Received(m) = m
        BY <3>3, HeartbeatRoundTrip DEF HeartbeatRequest
      <4>2. HandleMessage(m) = "handleHeartbeat"
        BY <4>1 DEF HandleMessage, Handler
      <4> QED BY <3>1, <4>1, <4>2
    <3>4. CASE m \in LoadReport \cup CommandResponse
      <4>1. m.kind \in {"LoadReport", "CommandResponse"}
        BY <3>4 DEF LoadReport, CommandResponse
      <4> QED BY <3>1, <4>1
    <3> QED BY <3>2, <3>3, <3>4 DEF ServerBound
  <2>2. ASSUME NEW m, RegisterReads(m)
        PROVE  KindsArrive'
    <3>1. /\ m \in RegisterResponse /\ sent' = m /\ received' = Received(m)
          /\ handledBy' = IF Received(m).kind = "RegisterResponse" /\ Received(m).status = "ok"
                          THEN "Register" ELSE "error"
      BY <2>2 DEF RegisterReads, Deliver
    <3>2. Received(m) = m /\ m.kind = "RegisterResponse"
      BY <3>1, AnswerRoundTrip DEF RegisterResponse
    <3> QED BY <3>1, <3>2
  <2>3. ASSUME NEW m, SendHeartbeatReads(m) \/ HandleMessagesReads(m)
        PROVE  KindsArrive'
    <3>1. m \in HeartbeatResponse \cup Command /\ sent' = m
      BY <2>3 DEF SendHeartbeatReads, HandleMessagesReads, Deliver
    <3>2. m.kind \in {"HeartbeatResponse", "Command"}
      BY <3>1 DEF HeartbeatResponse, Command
    <3> QED BY <3>1, <3>2
  <2>4. CASE UNCHANGED messages
    BY <1>2, <2>4 DEF messages
  <2> QED BY <1>2, <2>1, <2>2, <2>3, <2>4 DEF Messages
<1> QED BY <1>1, <1>2, MessagesStep, PTL DEF Spec

LEMMA MessagesTypeCorrect == Spec => []MessagesTypeOK
<1>1. Init => MessagesTypeOK
  BY DEF Init, MessagesTypeOK, None
<1>2. ASSUME [Messages]_messages, MessagesTypeOK
      PROVE  MessagesTypeOK'
  <2> DEFINE Sendable == ServerBound \cup DeviceBound \cup {None}
             Acts == {"none", "handleRegister", "handleHeartbeat", "handleLoadReport",
                      "handleCommandResponse", "Register", "SendHeartbeat", "HandleCommand",
                      "ignored", "error", "stopped"}
  <2>0. \A m : Received(m).kind \in
            {"none", "unknown", "RegisterRequest", "RegisterResponse",
             "HeartbeatRequest", "HeartbeatResponse", "LoadReport", "Command",
             "CommandResponse"}
    BY KnownKind DEF Received
  <2>1. ASSUME NEW m \in ServerBound, ServerReads(m)
        PROVE  MessagesTypeOK'
    <3>1. sent' = m /\ received' = Received(m) /\ handledBy' = HandleMessage(Received(m))
      BY <2>1 DEF ServerReads, Deliver
    <3>2. HandleMessage(Received(m)) \in Acts
      BY KnownKind DEF HandleMessage, Handler, Received
    <3> QED BY <3>1, <3>2, <2>0 DEF MessagesTypeOK
  <2>2. ASSUME NEW m \in DeviceBound, RegisterReads(m) \/ SendHeartbeatReads(m)
        PROVE  MessagesTypeOK'
    <3>1. sent' = m /\ received' = Received(m) /\ handledBy' \in Acts
      BY <2>2 DEF RegisterReads, SendHeartbeatReads, Deliver
    <3> QED BY <3>1, <2>0 DEF MessagesTypeOK
  <2>3. ASSUME NEW m \in DeviceBound, HandleMessagesReads(m)
        PROVE  MessagesTypeOK'
    <3> DEFINE k == Received(m).kind
    <3>1. /\ sent' = m /\ received' = Received(m)
          /\ handledBy' = CASE k = "Command" -> "HandleCommand"
                            [] k = "unknown" -> "stopped"
                            [] k \notin {"Command", "unknown"} -> "ignored"
      BY <2>3 DEF HandleMessagesReads, Deliver
    <3>2. handledBy' \in {"HandleCommand", "stopped", "ignored"}
      <4> HIDE DEF k
      <4>1. "Command" # "unknown" /\ "unknown" # "Command"
        OBVIOUS
      <4>2. ASSUME k = "Command" PROVE handledBy' = "HandleCommand"
        BY <3>1, <4>1, <4>2, Zenon
      <4>3. ASSUME k = "unknown" PROVE handledBy' = "stopped"
        BY <3>1, <4>1, <4>3, Zenon
      <4>4. ASSUME k # "Command", k # "unknown" PROVE handledBy' = "ignored"
        BY <3>1, <4>4, Zenon
      <4> QED BY <4>2, <4>3, <4>4
    <3> QED BY <3>1, <3>2, <2>0 DEF MessagesTypeOK
  <2>4. CASE UNCHANGED messages
    BY <1>2, <2>4 DEF messages, MessagesTypeOK
  <2> QED BY <1>2, <2>1, <2>2, <2>3, <2>4 DEF Messages
<1> QED BY <1>1, <1>2, MessagesStep, PTL DEF Spec

-----------------------------------------------------------------------------
(* The lines at the head of streams *)

(* Every set of natural numbers has a least one.                           *)
LEMMA MinNat ==
  ASSUME NEW T, T \subseteq Nat, T # {}
  PROVE  Min(T) \in T /\ \A x \in T : Min(T) =< x
<1>1. PICK x \in T : \A y \in T : ~ (<<y, x>> \in OpToRel(<, Nat))
  BY NatLessThanWellFounded, WFMin
<1>2. ASSUME NEW y \in T PROVE x =< y
  <2>1. y \in Nat /\ x \in Nat
    OBVIOUS
  <2>2. ~ (y < x)
    BY <1>1, <2>1 DEF OpToRel
  <2> QED BY <2>1, <2>2
<1>3. \E z \in T : \A y \in T : z =< y
  BY <1>2
<1> QED BY <1>3 DEF Min

(* And a greatest one, when it has a bound.                                *)
LEMMA MaxNat ==
  ASSUME NEW n \in Nat, NEW T, T \subseteq 0 .. n, T # {}
  PROVE  Max(T) \in T /\ \A x \in T : x =< Max(T)
<1> DEFINE R == {n - x : x \in T}
<1>1. R \subseteq Nat /\ R # {}
  <2>1. \A x \in T : n - x \in Nat
    <3>1. \A x \in 0 .. n : n - x \in Nat
      OBVIOUS
    <3> QED BY <3>1
  <2>2. PICK x \in T : TRUE
    OBVIOUS
  <2>3. n - x \in R
    OBVIOUS
  <2> QED BY <2>1, <2>3
<1>2. Min(R) \in R /\ \A x \in R : Min(R) =< x
  BY <1>1, MinNat
<1>3. PICK m \in T : Min(R) = n - m
  BY <1>2
<1>4. ASSUME NEW x \in T PROVE m >= x
  <2>1. n - x \in R
    OBVIOUS
  <2>2. n - m =< n - x
    BY <2>1, <1>2, <1>3
  <2>3. m \in 0 .. n /\ x \in 0 .. n
    OBVIOUS
  <2> QED BY <2>2, <2>3
<1>5. \E z \in T : \A y \in T : z >= y
  BY <1>4
<1>6. Max(T) \in T /\ \A y \in T : Max(T) >= y
  BY <1>5 DEF Max
<1> QED BY <1>6

(* Without spaces around it, a sequence of octets is one.                  *)
LEMMA TrimSpaceType ==
  ASSUME NEW s \in Seq(Octet)
  PROVE  TrimSpace(s) \in Seq(Octet)
<1> DEFINE kept == {i \in DOMAIN s : s[i] \notin {Space, Newline}}
<1>1. kept \subseteq 1 .. Len(s) /\ Len(s) \in Nat
  BY LenProperties
<1>2. CASE kept = {}
  <2>1. TrimSpace(s) = <<>>
    BY <1>2 DEF TrimSpace
  <2> QED BY <2>1
<1>3. CASE kept # {}
  <2>1. kept \subseteq Nat /\ kept \subseteq 0 .. Len(s)
    BY <1>1
  <2>2. TrimSpace(s) = SubSeq(s, Min(kept), Max(kept))
    BY <1>3 DEF TrimSpace
  <2> HIDE DEF kept
  <2>3. Min(kept) \in kept
    BY <2>1, <1>3, MinNat
  <2>4. Max(kept) \in kept
    BY <2>1, <1>1, <1>3, MaxNat
  <2>5. Min(kept) \in 1 .. Len(s) /\ Max(kept) \in 1 .. Len(s)
    BY <2>3, <2>4, <1>1
  <2>6. SubSeq(s, Min(kept), Max(kept)) \in Seq(Octet)
    BY <2>5, SubSeqProperties
  <2> QED BY <2>2, <2>6
<1> QED BY <1>2, <1>3

(* A line is not empty, and has no newline in it.                          *)
LEMMA LineFacts ==
  ASSUME NEW l \in Line
  PROVE  /\ l \in Seq(Octet) /\ Len(l) \in Nat /\ Len(l) >= 1
         /\ \A i \in 1 .. Len(l) : l[i] # Newline
<1>1. l \in Seq(Octet \ {Newline}) /\ l # <<>>
  BY LineAssumption
<1>2. \A i \in 1 .. Len(l) : l[i] \in Octet \ {Newline}
  BY <1>1
<1>3. l \in Seq(Octet) /\ Len(l) \in Nat
  BY <1>1, <1>2
<1> QED BY <1>1, <1>2, <1>3, EmptySeq

(* What has no newline is not cut.                                         *)
LEMMA NotCut ==
  ASSUME NEW s, \A i \in DOMAIN s : s[i] # Newline
  PROVE  UpToNewline(s) = s
BY DEF UpToNewline, Newlines

(* A line is cut off the newline that ends it.                             *)
LEMMA LineCut ==
  ASSUME NEW l \in Line
  PROVE  UpToNewline(Append(l, Newline)) = l
<1> DEFINE s == Append(l, Newline)
<1>1. l \in Seq(Octet) /\ \A i \in 1 .. Len(l) : l[i] # Newline
  BY LineFacts
<1>2. /\ s \in Seq(Octet) /\ Len(s) = Len(l) + 1
      /\ \A i \in 1 .. Len(l) : s[i] = l[i]
      /\ s[Len(l) + 1] = Newline
  <2>1. Newline \in Octet
    BY OctetAssumption
  <2> QED BY <1>1, <2>1
<1>3. Len(l) \in Nat /\ DOMAIN s = 1 .. Len(l) + 1
  BY <1>1, <1>2, LenProperties
<1> HIDE DEF s
<1>4. Newlines(s) = {Len(l) + 1}
  <2>1. ASSUME NEW i \in Newlines(s) PROVE i = Len(l) + 1
    BY <1>1, <1>2, <1>3 DEF Newlines
  <2>2. Len(l) + 1 \in Newlines(s)
    BY <1>2, <1>3 DEF Newlines
  <2> QED BY <2>1, <2>2
<1>5. Min(Newlines(s)) = Len(l) + 1
  BY <1>3, <1>4, MinNat
<1>6. UpToNewline(s) = SubSeq(s, 1, Len(l))
  <2>1. Newlines(s) # {}
    BY <1>4
  <2>2. Min(Newlines(s)) - 1 = Len(l)
    BY <1>3, <1>5
  <2> QED BY <2>1, <2>2 DEF UpToNewline
<1>7. SubSeq(s, 1, Len(l)) = l
  <2> DEFINE r == SubSeq(s, 1, Len(l))
  <2>1. Len(r) = Len(l) /\ r \in Seq(Octet) /\ \A i \in 1 .. Len(l) : r[i] = s[i]
    BY <1>2, <1>3
  <2> HIDE DEF r
  <2>2. r = l
    BY <1>1, <1>2, <2>1, SeqEqual
  <2> QED BY <2>2 DEF r
<1> QED BY <1>6, <1>7 DEF s
-----------------------------------------------------------------------------
(* The two readers *)

(* While handleConnection reads, what it has and what is left are together *)
(* the line with its newline, until the newline was read and cut off; what *)
(* ReadTargetAddress has is the beginning of the line, not too long.       *)
DeviceIDInv ==
    reader = "handleConnection" =>
        /\ line \in Line
        /\ \/ unread # <<>> /\ bytes \o unread = Append(line, Newline)
           \/ unread = <<>> /\ bytes = line

TargetInv ==
    reader = "ReadTargetAddress" =>
        /\ line \in Line
        /\ Len(bytes) =< Len(line) /\ Len(bytes) =< MaxTargetAddressLen
        /\ bytes \o unread = Append(line, Newline) \o data

HeadersInv == HeadersTypeOK /\ DeviceIDInv /\ TargetInv /\ HeadersArrive

LEMMA HeadersInitInv == HeadersInit => HeadersInv
<1> <<>> \in Seq(Octet)
  OBVIOUS
<1> QED BY DEF HeadersInit, HeadersInv, HeadersTypeOK, DeviceIDInv, TargetInv, HeadersArrive

(* What follows a line is made of octets too.                              *)
LEMMA PayloadFacts ==
  ASSUME NEW d \in Payload \cup {<<>>}
  PROVE  d \in Seq(Octet)
<1>1. <<>> \in Seq(Octet)
  OBVIOUS
<1>2. d \in Payload => d \in Seq(Octet)
  BY PayloadAssumption
<1> QED BY <1>1, <1>2

(* The order in which pieces of a stream are put together does not matter. *)
LEMMA Pieces ==
  ASSUME NEW a \in Seq(Octet), NEW b \in Seq(Octet), NEW c \in Seq(Octet)
  PROVE  (a \o b) \o c = a \o (b \o c)
BY ConcatAssociative

(* A stream is its first octet and the rest.                               *)
LEMMA FirstOctet ==
  ASSUME NEW x \in Seq(Octet), x # <<>>
  PROVE  /\ Head(x) \in Octet /\ Tail(x) \in Seq(Octet) /\ <<Head(x)>> \in Seq(Octet)
         /\ Head(x) = x[1] /\ Len(x) \in Nat /\ Len(x) >= 1
         /\ x = <<Head(x)>> \o Tail(x)
<1>1. /\ Head(x) \in Octet /\ Tail(x) \in Seq(Octet) /\ Head(x) = x[1]
      /\ Len(x) \in Nat /\ Len(x) >= 1 /\ Len(Tail(x)) = Len(x) - 1
  BY HeadTailProperties, EmptySeq
<1>2. \A i \in 1 .. Len(x) - 1 : Tail(x)[i] = x[i + 1]
  BY HeadTailProperties, <1>1
<1> DEFINE a == <<Head(x)>>
           b == Tail(x)
           r == a \o b
<1>3. a \in Seq(Octet) /\ Len(a) = 1 /\ a[1] = x[1]
  BY <1>1
<1> HIDE DEF a
<1>4. /\ r \in Seq(Octet) /\ Len(r) = Len(x)
      /\ \A i \in 1 .. Len(x) : r[i] = IF i =< 1 THEN a[i] ELSE b[i - 1]
  <2>1. b \in Seq(Octet) /\ Len(b) = Len(x) - 1
    BY <1>1
  <2> HIDE DEF b
  <2>2. /\ r \in Seq(Octet) /\ Len(r) = Len(a) + Len(b)
        /\ \A i \in 1 .. Len(a) + Len(b) : r[i] = IF i =< Len(a) THEN a[i] ELSE b[i - Len(a)]
    BY <2>1, <1>3, ConcatProperties
  <2>3. Len(a) + Len(b) = Len(x)
    BY <1>1, <1>3, <2>1
  <2> QED BY <1>3, <2>2, <2>3
<1> HIDE DEF r
<1>5. ASSUME NEW i \in 1 .. Len(x) PROVE r[i] = x[i]
  <2>1. CASE i = 1
    BY <2>1, <1>3, <1>4
  <2>2. CASE i # 1
    <3>1. i - 1 \in 1 .. Len(x) - 1 /\ ~ (i =< 1) /\ (i - 1) + 1 = i
      BY <2>2, <1>1
    <3>2. b[i - 1] = x[i]
      BY <3>1, <1>2
    <3> QED BY <3>1, <3>2, <1>4
  <2> QED BY <2>1, <2>2
<1>6. r = x
  BY <1>4, <1>5, SeqEqual
<1> QED BY <1>1, <1>3, <1>6 DEF r, a

(* A line with its newline is a sequence of octets, the last a newline.    *)
LEMMA LineAndNewline ==
  ASSUME NEW l \in Line
  PROVE  /\ Append(l, Newline) \in Seq(Octet) /\ Len(Append(l, Newline)) = Len(l) + 1
         /\ \A i \in 1 .. Len(l) : Append(l, Newline)[i] = l[i]
         /\ Append(l, Newline)[Len(l) + 1] = Newline
<1>1. l \in Seq(Octet) /\ Newline \in Octet
  BY LineFacts, OctetAssumption
<1> QED BY <1>1

LEMMA OpenStreamInv ==
  ASSUME HeadersInv, NEW loop \in Reading, NEW l \in Line, NEW d \in Payload \cup {<<>>},
         OpenStream(loop, l, d), loop = "handleConnection" => d = <<>>
  PROVE  HeadersInv'
<1> DEFINE s == Append(l, Newline)
<1>1. /\ line' = l /\ data' = d /\ unread' = s \o d /\ bytes' = <<>> /\ reader' = loop
  BY DEF OpenStream
<1>2. s \in Seq(Octet) /\ Len(s) = Len(l) + 1
  BY LineAndNewline
<1>3. d \in Seq(Octet) /\ <<>> \in Seq(Octet)
  BY PayloadFacts
<1>4. Len(l) \in Nat /\ Len(<<>>) = 0
  BY LineFacts
<1> HIDE DEF s
<1>5. s \o d \in Seq(Octet) /\ <<>> \o (s \o d) = s \o d /\ s \o <<>> = s
  BY <1>2, <1>3, ConcatProperties, ConcatEmptySeq
<1>6. HeadersTypeOK'
  BY <1>1, <1>3, <1>5 DEF HeadersTypeOK
<1>7. DeviceIDInv'
  <2>1. ASSUME loop = "handleConnection" PROVE s \o d # <<>>
    BY <2>1, <1>2, <1>4, <1>5, EmptySeq
  <2>2. ASSUME loop = "handleConnection" PROVE s \o d = s
    BY <2>2, <1>5
  <2> QED BY <1>1, <1>5, <2>1, <2>2 DEF DeviceIDInv, s
<1>8. TargetInv'
  BY <1>1, <1>4, <1>5, LengthAssumption DEF TargetInv, s
<1>9. HeadersArrive'
  BY <1>1 DEF HeadersArrive, Reading
<1> QED BY <1>6, <1>7, <1>8, <1>9 DEF HeadersInv

LEMMA ReadPieceInv ==
  ASSUME HeadersInv, ReadPiece
  PROVE  HeadersInv'
<1>1. PICK n \in 1 .. Len(unread) :
         /\ bytes' = UpToNewline(bytes \o SubSeq(unread, 1, n))
         /\ unread' = SubSeq(unread, n + 1, Len(unread))
  BY DEF ReadPiece
<1>2. /\ reader = "handleConnection" /\ line' = line /\ data' = data
      /\ reader' = IF bytes' = <<>> THEN "RegisterQUICConnection" ELSE reader
  BY DEF ReadPiece
<1>3. /\ line \in Line /\ data \in Payload \cup {<<>>}
      /\ unread \in Seq(Octet) /\ bytes \in Seq(Octet)
  BY <1>2 DEF HeadersInv, HeadersTypeOK, DeviceIDInv
<1> DEFINE s == Append(line, Newline)
           p == SubSeq(unread, 1, n)
           q == SubSeq(unread, n + 1, Len(unread))
           b == bytes \o p
<1>4. n \in Nat /\ Len(unread) \in Nat /\ n >= 1 /\ n =< Len(unread) /\ Len(bytes) \in Nat
  BY <1>3
<1>5. bytes \o unread = s
  <2>1. unread # <<>>
    BY <1>3, <1>4, EmptySeq
  <2> QED BY <2>1, <1>2 DEF HeadersInv, DeviceIDInv
<1>6. /\ s \in Seq(Octet) /\ Len(s) = Len(line) + 1 /\ Len(line) \in Nat /\ Len(line) >= 1
      /\ \A i \in 1 .. Len(line) : s[i] = line[i] /\ line[i] # Newline
      /\ UpToNewline(s) = line
  BY <1>3, LineAndNewline, LineFacts, LineCut
<1>7. p \in Seq(Octet) /\ Len(p) = n
  BY <1>3, <1>4
<1>8. q \in Seq(Octet) /\ Len(q) = Len(unread) - n
  BY <1>3, <1>4
<1>9. p \o q = unread
  <2>1. SubSeq(unread, 1, Len(unread)) = unread
    BY <1>3, SubSeqFull
  <2>2. p \o q = SubSeq(unread, 1, Len(unread))
    BY <1>3, <1>4, ConcatAdjacentSubSeq
  <2> QED BY <2>1, <2>2
<1> HIDE DEF s, p, q
<1>10. b \in Seq(Octet) /\ Len(b) = Len(bytes) + n
  BY <1>3, <1>7, ConcatProperties
<1>11. b \o q = s
  <2>1. (bytes \o p) \o q = bytes \o (p \o q)
    BY <1>3, <1>7, <1>8, Pieces
  <2> QED BY <2>1, <1>5, <1>9
<1> HIDE DEF b
<1>12. Len(s) = Len(b) + Len(q) /\ \A i \in 1 .. Len(b) : s[i] = b[i]
  <2>1. Len(b) \in Nat /\ Len(q) \in Nat
    BY <1>10, <1>8
  <2>2. /\ Len(b \o q) = Len(b) + Len(q)
        /\ \A i \in 1 .. Len(b) + Len(q) : (b \o q)[i] = IF i =< Len(b) THEN b[i] ELSE q[i - Len(b)]
    BY <1>8, <1>10, ConcatProperties
  <2> QED BY <2>1, <2>2, <1>11
<1>13. bytes' = UpToNewline(b) /\ unread' = q
  BY <1>1 DEF b, p, q
<1>14. /\ bytes' \in Seq(Octet) /\ bytes' # <<>>
       /\ \/ q # <<>> /\ bytes' \o q = s
          \/ q = <<>> /\ bytes' = line
  <2>1. CASE q = <<>>
    <3>1. b \o <<>> = b
      BY <1>10, ConcatEmptySeq
    <3>2. bytes' = line
      BY <3>1, <2>1, <1>6, <1>11, <1>13
    <3> QED BY <2>1, <3>2, <1>3, <1>6, LineFacts, EmptySeq
  <2>2. CASE q # <<>>
    <3>1. Len(q) >= 1
      BY <2>2, <1>8, EmptySeq
    <3>2. Len(b) \in Nat /\ Len(b) =< Len(line) /\ DOMAIN b = 1 .. Len(b)
      BY <3>1, <1>6, <1>8, <1>10, <1>12, LenProperties
    <3>3. ASSUME NEW i \in 1 .. Len(b) PROVE b[i] # Newline
      <4>1. i \in 1 .. Len(line)
        BY <3>2, <1>6
      <4> QED BY <4>1, <1>6, <1>12
    <3>4. bytes' = b
      BY <3>2, <3>3, <1>13, NotCut
    <3> QED BY <2>2, <3>4, <1>4, <1>10, <1>11, EmptySeq
  <2> QED BY <2>1, <2>2
<1>15. reader' = "handleConnection"
  BY <1>2, <1>14
<1>16. HeadersTypeOK'
  BY <1>2, <1>3, <1>8, <1>13, <1>14, <1>15 DEF HeadersTypeOK, Reading
<1>17. DeviceIDInv'
  BY <1>2, <1>3, <1>13, <1>14, <1>15 DEF DeviceIDInv, s
<1>18. TargetInv' /\ HeadersArrive'
  BY <1>15 DEF TargetInv, HeadersArrive
<1> QED BY <1>16, <1>17, <1>18 DEF HeadersInv

LEMMA ReadEOFInv ==
  ASSUME HeadersInv, ReadEOF
  PROVE  HeadersInv'
<1>1. /\ reader = "handleConnection" /\ unread = <<>> /\ bytes' = TrimSpace(bytes)
      /\ reader' = "RegisterQUICConnection" /\ line' = line /\ data' = data /\ unread' = unread
  BY DEF ReadEOF
<1>2. bytes = line
  BY <1>1 DEF HeadersInv, DeviceIDInv
<1>3. bytes' \in Seq(Octet)
  BY <1>1, TrimSpaceType DEF HeadersInv, HeadersTypeOK
<1>4. HeadersTypeOK'
  BY <1>1, <1>3 DEF HeadersInv, HeadersTypeOK
<1> QED BY <1>1, <1>2, <1>4 DEF HeadersInv, DeviceIDInv, TargetInv, HeadersArrive

LEMMA ReadOctetInv ==
  ASSUME HeadersInv, ReadOctet
  PROVE  HeadersInv'
<1> DEFINE s == Append(line, Newline)
           t == s \o data
           h == Head(unread)
           u == Tail(unread)
<1>1. /\ reader = "ReadTargetAddress" /\ unread # <<>> /\ unread' = u
      /\ line' = line /\ data' = data
      /\ \/ h = Newline /\ bytes' = TrimSpace(bytes) /\ reader' = "ProxyTCP"
         \/ /\ h # Newline /\ bytes' = Append(bytes, h)
            /\ reader' = IF Len(bytes') > MaxTargetAddressLen THEN "too long" ELSE reader
  BY DEF ReadOctet
<1>2. /\ line \in Line /\ data \in Payload \cup {<<>>}
      /\ unread \in Seq(Octet) /\ bytes \in Seq(Octet)
      /\ Len(bytes) =< Len(line) /\ Len(bytes) =< MaxTargetAddressLen
      /\ bytes \o unread = t
  BY <1>1 DEF HeadersInv, HeadersTypeOK, TargetInv
<1>3. h \in Octet /\ u \in Seq(Octet) /\ data \in Seq(Octet)
  BY <1>1, <1>2, PayloadFacts, FirstOctet
<1>4. /\ s \in Seq(Octet) /\ Len(s) = Len(line) + 1 /\ Len(line) \in Nat
      /\ \A i \in 1 .. Len(line) : s[i] = line[i] /\ line[i] # Newline
      /\ s[Len(line) + 1] = Newline /\ line \in Seq(Octet)
  BY <1>2, LineAndNewline, LineFacts
<1>5. Len(bytes) \in Nat /\ MaxTargetAddressLen \in Nat
  BY <1>2, LengthAssumption
<1>6. unread = <<h>> \o u /\ <<h>> \in Seq(Octet) /\ unread[1] = h /\ Len(unread) >= 1
  BY <1>1, <1>2, FirstOctet
<1> HIDE DEF h, u
<1>11. Append(bytes, h) = bytes \o <<h>> /\ Append(bytes, h) \in Seq(Octet)
       /\ Len(Append(bytes, h)) = Len(bytes) + 1
  BY <1>2, <1>3, AppendIsConcat
<1> DEFINE k == Len(bytes) + 1
<1>7. t[k] = h
  <2>1. /\ (bytes \o unread)[k] = unread[k - Len(bytes)]
    <3>1. k \in 1 .. Len(bytes) + Len(unread) /\ ~ (k =< Len(bytes))
      BY <1>5, <1>6, <1>2
    <3> HIDE DEF k
    <3> QED BY <3>1, <1>2, ConcatProperties
  <2>2. k - Len(bytes) = 1 /\ unread[1] = h
    BY <1>5, <1>6
  <2> QED BY <2>1, <2>2, <1>2
<1>8. t[k] = s[k]
  <2>1. k \in 1 .. Len(s) + Len(data) /\ k =< Len(s)
    BY <1>2, <1>3, <1>4, <1>5
  <2> HIDE DEF k, s
  <2> QED BY <2>1, <1>3, <1>4, ConcatProperties
<1>9. CASE h = Newline
  <2>1. ~ (k \in 1 .. Len(line))
    BY <1>4, <1>7, <1>8, <1>9
  <2>2. Len(bytes) = Len(line)
    BY <2>1, <1>2, <1>4, <1>5
  <2>3. bytes = line /\ u = data
    <3>1. ASSUME NEW i \in 1 .. Len(bytes) PROVE bytes[i] = line[i]
      <4>1. (bytes \o unread)[i] = bytes[i]
        BY <1>2, <1>5, ConcatProperties
      <4>2. i \in 1 .. Len(s) + Len(data) /\ i =< Len(s) /\ i \in 1 .. Len(line)
        BY <2>2, <1>3, <1>4, <1>5
      <4>3. t[i] = s[i]
        <5> HIDE DEF s
        <5> QED BY <4>2, <1>3, <1>4, ConcatProperties
      <4> QED BY <4>1, <4>2, <4>3, <1>2, <1>4
    <3>2. bytes = line
      BY <3>1, <2>2, <1>2, <1>4, SeqEqual
    <3>3. Append(bytes, h) = s
      BY <3>2, <1>9
    <3>4. (bytes \o <<h>>) \o u = bytes \o (<<h>> \o u)
      BY <1>2, <1>3, <1>6, Pieces
    <3>5. s \o u = s \o data
      BY <3>3, <3>4, <1>2, <1>6, <1>11
    <3> HIDE DEF s
    <3>6. u = data
      BY <3>5, <1>3, <1>4, ConcatSimplifications
    <3> QED BY <3>2, <3>6
  <2>4. bytes' = TrimSpace(line) /\ reader' = "ProxyTCP" /\ unread' = data
    BY <2>3, <1>1, <1>9
  <2>5. bytes' \in Seq(Octet)
    BY <2>3, <2>4, <1>2, TrimSpaceType
  <2>6. HeadersTypeOK'
    BY <2>4, <2>5, <1>1, <1>2, <1>3 DEF HeadersTypeOK
  <2> QED BY <2>2, <2>4, <2>6, <1>1, <1>2
          DEF HeadersInv, DeviceIDInv, TargetInv, HeadersArrive
<1>10. CASE h # Newline
  <2>1. k # Len(line) + 1
    BY <1>4, <1>7, <1>8, <1>10
  <2>2. k =< Len(line)
    BY <2>1, <1>2, <1>4, <1>5
  <2>3. /\ bytes' = Append(bytes, h) /\ bytes' \in Seq(Octet) /\ Len(bytes') = k
        /\ reader' = IF Len(bytes') > MaxTargetAddressLen THEN "too long" ELSE reader
    BY <1>1, <1>10, <1>11
  <2>4. bytes' \o unread' = t
    <3>1. (bytes \o <<h>>) \o u = bytes \o (<<h>> \o u)
      BY <1>2, <1>3, <1>6, Pieces
    <3> QED BY <3>1, <2>3, <1>1, <1>2, <1>6, <1>11
  <2>5. HeadersTypeOK'
    BY <2>3, <1>1, <1>2, <1>3 DEF HeadersTypeOK, Reading
  <2>6. CASE k > MaxTargetAddressLen
    <3>1. reader' = "too long"
      BY <2>3, <2>6
    <3>2. Len(line) > MaxTargetAddressLen
      BY <2>2, <2>6, <1>4, <1>5
    <3> QED BY <3>1, <3>2, <2>5, <1>1
            DEF HeadersInv, DeviceIDInv, TargetInv, HeadersArrive
  <2>7. CASE ~ (k > MaxTargetAddressLen)
    <3>1. reader' = "ReadTargetAddress"
      BY <2>3, <2>7, <1>1
    <3>2. k =< MaxTargetAddressLen
      BY <2>7, <1>5
    <3> HIDE DEF k
    <3>3. TargetInv'
      BY <3>1, <3>2, <2>2, <2>3, <2>4, <1>1, <1>2 DEF TargetInv
    <3> QED BY <3>1, <3>3, <2>5 DEF HeadersInv, DeviceIDInv, HeadersArrive
  <2> QED BY <2>6, <2>7
<1> QED BY <1>9, <1>10

LEMMA HeadersStep == HeadersInv /\ [Headers]_headers => HeadersInv'
<1> SUFFICES ASSUME HeadersInv, [Headers]_headers PROVE HeadersInv'
  OBVIOUS
<1>1. ASSUME NEW l \in Line, Connect(l) PROVE HeadersInv'
  <2>1. OpenStream("handleConnection", l, <<>>) /\ "handleConnection" \in Reading
    BY <1>1 DEF Connect, Reading
  <2> QED BY <2>1, OpenStreamInv
<1>2. ASSUME NEW l \in Line, NEW d \in Payload, WriteTargetAddress(l, d) PROVE HeadersInv'
  <2>1. OpenStream("ReadTargetAddress", l, d) /\ "ReadTargetAddress" \in Reading
    BY <1>2 DEF WriteTargetAddress, Reading
  <2> QED BY <2>1, OpenStreamInv
<1>3. CASE ReadFails
  BY <1>3 DEF ReadFails, HeadersInv, HeadersTypeOK, DeviceIDInv, TargetInv, HeadersArrive
<1>4. CASE UNCHANGED headers
  BY <1>4 DEF headers, HeadersInv, HeadersTypeOK, DeviceIDInv, TargetInv, HeadersArrive
<1> QED BY <1>1, <1>2, <1>3, <1>4, ReadPieceInv, ReadEOFInv, ReadOctetInv DEF Headers

LEMMA HeadersInvariant == Spec => []HeadersInv
<1>1. Init => HeadersInv
  BY HeadersInitInv DEF Init
<1>2. [Next]_vars => [Headers]_headers
  BY DEF Next, vars, headers
<1> QED BY <1>1, <1>2, HeadersStep, PTL DEF Spec

(* However a line is cut into pieces, the server knows the device by its   *)
(* id (Server.handleConnection), and the device dials the address that the *)
(* server wrote, or refuses it for its length, and leaves the client's     *)
(* data in the stream (ReadTargetAddress).                                 *)
THEOREM HeadersArriveEver == Spec => []HeadersArrive
<1>1. HeadersInv => HeadersArrive
  BY DEF HeadersInv
<1> QED BY <1>1, HeadersInvariant, PTL

(* What a reader may make of a message: a kind of the schema, or nothing   *)
(* it knows, or a refusal; and the code that acts on it is one that the    *)
(* connection has; and what is read of a stream is octets.                 *)
THEOREM TypeCorrect == Spec => []TypeOK
<1>1. HeadersInv /\ MessagesTypeOK => TypeOK
  BY DEF HeadersInv, TypeOK
<1> QED BY <1>1, HeadersInvariant, MessagesTypeCorrect, PTL

=============================================================================
