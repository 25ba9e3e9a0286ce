--------------------------- MODULE ControlMessages ---------------------------
(***************************************************************************)
(* What becomes of a control message at its receiver: the message as       *)
(* WireFormat decodes it, handed to the code that was waiting for it.      *)
(* On the server that is Handler.handleMessage (wss/handler.go); on the    *)
(* device it is one of three readers of client/wss/client.go: Register,    *)
(* SendHeartbeat, or the loop of HandleMessages.  Meanwhile the lines at   *)
(* the head of QUIC streams are read, as StreamHeaders has it.             *)
(***************************************************************************)
EXTENDS WireFormat, StreamHeaders

VARIABLES
    sent,       \* the message sent last
    received,   \* the message its receiver decoded
    handledBy   \* the code that acted on it, or how it was dismissed

messages == <<sent, received, handledBy>>
vars == <<messages, headers>>

None == [kind |-> "none"]

MessagesTypeOK ==
    /\ sent \in ServerBound \cup DeviceBound \cup {None}
    /\ received.kind \in {"none", "unknown", "RegisterRequest", "RegisterResponse",
         "HeartbeatRequest", "HeartbeatResponse", "LoadReport", "Command", "CommandResponse"}
    /\ handledBy \in {"none", "handleRegister", "handleHeartbeat", "handleLoadReport",
         "handleCommandResponse", "Register", "SendHeartbeat", "HandleCommand",
         "ignored", "error", "stopped"}

TypeOK == MessagesTypeOK /\ HeadersTypeOK

Init == HeadersInit /\ sent = None /\ received = None /\ handledBy = "none"

(* Mutants of Handler: one entry names a handler that does not exist; a    *)
(* response ends the loop.                                                 *)
HandlerMisnamed ==
    [k \in {"RegisterRequest", "RegisterResponse", "HeartbeatRequest",
            "HeartbeatResponse", "LoadReport", "Command", "CommandResponse", "unknown"}
        |-> IF k = "HeartbeatRequest" THEN "handleBeat" ELSE "ignored"]

HandlerStrict ==
    [k \in {"RegisterRequest", "RegisterResponse", "HeartbeatRequest",
            "HeartbeatResponse", "LoadReport", "Command", "CommandResponse", "unknown"}
        |-> IF k = "HeartbeatResponse" THEN "stopped" ELSE "ignored"]

(* The dispatch of handleMessage: responses are ignored, a command is an   *)
(* error the loop survives.  On an unknown message ReadMessage fails and   *)
(* the loop of HandleConnection stops, and with it the connection.         *)
Handler ==
    [RegisterRequest   |-> "handleRegister",
     HeartbeatRequest  |-> "handleHeartbeat",
     LoadReport        |-> "handleLoadReport",
     CommandResponse   |-> "handleCommandResponse",
     RegisterResponse  |-> "ignored",
     HeartbeatResponse |-> "ignored",
     Command           |-> "error",
     unknown           |-> "stopped"]

HandleMessage(m) == Handler[m.kind]

Deliver(m, handler) ==
    /\ sent' = m
    /\ received' = Received(m)
    /\ handledBy' = handler

ServerReads(m) ==
    /\ m \in ServerBound
    /\ Deliver(m, HandleMessage(Received(m)))

(* Register waits for the answer to its request. *)
RegisterReads(m) ==
    /\ m \in RegisterResponse
    /\ Deliver(m, IF Received(m).kind = "RegisterResponse" /\ Received(m).status = "ok"
                  THEN "Register" ELSE "error")

(* SendHeartbeat takes the next message for the answer to its request. *)
SendHeartbeatReads(m) ==
    /\ m \in HeartbeatResponse \cup Command
    /\ Deliver(m, IF Received(m).kind = "HeartbeatResponse" /\ Received(m).status = "ok"
                  THEN "SendHeartbeat" ELSE "error")

(* HandleMessages ignores the responses and acts on commands alone. *)
HandleMessagesReads(m) ==
    /\ m \in HeartbeatResponse \cup Command
    /\ Deliver(m, CASE Received(m).kind = "Command" -> "HandleCommand"
                    [] Received(m).kind = "unknown" -> "stopped"
                    [] Received(m).kind \notin {"Command", "unknown"} -> "ignored")

Messages ==
    \/ \E m \in ServerBound : ServerReads(m)
    \/ \E m \in DeviceBound :
          RegisterReads(m) \/ SendHeartbeatReads(m) \/ HandleMessagesReads(m)

Next ==
    \/ Messages /\ UNCHANGED headers
    \/ Headers /\ UNCHANGED messages

Spec == Init /\ [][Next]_vars

-----------------------------------------------------------------------------
(* Properties *)

(* A device is registered only by a registration request, and under the    *)
(* id it gave: no other message the server can be sent passes the tests    *)
(* for RegisterRequest, though UnmarshalMessage tries that schema first.   *)
NoSpuriousRegistration ==
    handledBy = "handleRegister" => sent.kind = "RegisterRequest" /\ received = sent

(* A heartbeat is always taken for a heartbeat of its device, even when    *)
(* the device id is one of the words a response uses as status.            *)
HeartbeatsArrive ==
    sent.kind = "HeartbeatRequest" => received = sent /\ handledBy = "handleHeartbeat"

(* The answer to a registration is read back field by field, and a device  *)
(* goes on only if the server accepted it.                                 *)
AnswersToRegisterArrive ==
    sent.kind = "RegisterResponse" =>
        /\ received = sent
        /\ handledBy = "Register" <=> sent.status = "ok"

(* No message that either side sends stops the loop that reads it: there   *)
(* is a schema whose tests it passes, if not always its own.               *)
NothingStopsTheReader == handledBy # "stopped"

(* A registration request that names a location or a tag arrives as sent,  *)
(* unless the device is called "ok" or "error".                            *)
PlacedRegistrationsArrive ==
    (/\ sent.kind = "RegisterRequest"
     /\ sent.location # "" \/ sent.tags # <<>>
     /\ sent.device_id \notin Status)
        => received = sent

(* What the exchange of registrations and heartbeats rests on, although no *)
(* message says of which kind it is: UnmarshalMessage guesses these right. *)
KindsArrive ==
    /\ HeartbeatsArrive
    /\ AnswersToRegisterArrive
    /\ PlacedRegistrationsArrive

(* "UnmarshalMessage determines the type of the message" (protocol.go): a  *)
(* message is decoded as the kind its sender made it.  Most kinds are not: *)
(* DeviceId, Status and ConnId are the same field on the wire.             *)
KindDetermined == received.kind = sent.kind

=============================================================================
