---------------------------- MODULE DeviceClient ----------------------------
(***************************************************************************)
(* The device program: Client.Start and Stop (internal/device/client), and *)
(* the goroutines they start - the heartbeat, HandleMessages, which reads  *)
(* the same WSS connection under the same mutex readMu, and HandleStreams, *)
(* which accepts QUIC streams.  At the other end are the handlers of the   *)
(* server (internal/device/wss/handler.go), which answer each request.     *)
(*                                                                         *)
(* A message is its kind.  What is in flight when a connection breaks is   *)
(* lost.  The server sends no commands: CommandSender is used nowhere.     *)
(* Of names only the spaces around them matter, which the server keeps on  *)
(* WSS and trims on QUIC.  No other client uses the id of this one, but a  *)
(* device that is called like its trimmed id may be registered.            *)
(* The websocket library may close a connection on which a read timed out  *)
(* or leave it open: both are allowed here.                                *)
(***************************************************************************)
EXTENDS Naturals, Sequences

Name == {"dev", " dev "}

(* strings.TrimSpace *)
TrimSpace(name) == "dev"

VARIABLES
    deviceID,   \* Client.deviceID
    recognised, \* the server takes this device's RegisterRequest for one
    beats,      \* heartbeatInterval > 0
    start,      \* progress of Start
    stop,       \* progress of Stop
    wssOpen,    \* the WSS connection is open
    quicOpen,   \* the QUIC connection is open
    udpOpen,    \* the UDP socket under it is open
    requests,   \* in flight to the server
    answers,    \* in flight to the device
    known,      \* the device ids the server has registered
    verdict,    \* what the server made of the QUIC connection
    readMu,     \* the goroutine that holds Client.readMu
    handler,    \* the goroutine of HandleMessages
    heartbeat,  \* the goroutine of startHeartbeat
    streams     \* the goroutine of HandleStreams

config == <<deviceID, recognised, beats>>
connections == <<wssOpen, quicOpen, udpOpen>>
channels == <<requests, answers>>
server == <<known, verdict>>
routines == <<readMu, handler, heartbeat, streams>>
vars == <<config, start, stop, connections, channels, server, routines>>

TypeOK ==
    /\ deviceID \in Name /\ recognised \in BOOLEAN /\ beats \in BOOLEAN
    /\ start \in {"new", "connected", "registering", "registered", "dialed",
                  "running", "failed"}
    /\ stop \in {"no", "signalled", "wssClosed", "done"}
    /\ wssOpen \in BOOLEAN /\ quicOpen \in BOOLEAN /\ udpOpen \in BOOLEAN
    /\ requests \in Seq({"register", "heartbeat"})
    /\ answers \in Seq({"registered", "heartbeat"})
    /\ known \in SUBSET Name
    /\ verdict \in {"none", "accepted", "refused"}
    /\ readMu \in {"free", "handler", "heartbeat"}
    /\ handler \in {"off", "locking", "reading", "exited"}
    /\ heartbeat \in {"off", "idle", "locking", "reading", "exited"}
    /\ streams \in {"off", "accepting", "exited"}

(* A registration is recognised if it names a location or a tag, and the   *)
(* id is not a status word (see ControlMessages).                          *)
Init ==
    /\ deviceID \in Name /\ recognised \in BOOLEAN /\ beats \in BOOLEAN
    /\ start = "new" /\ stop = "no"
    /\ wssOpen = FALSE /\ quicOpen = FALSE /\ udpOpen = FALSE
    /\ requests = <<>> /\ answers = <<>>
    /\ known \in SUBSET ({TrimSpace(deviceID)} \ {deviceID})
    /\ verdict = "none"
    /\ readMu = "free"
    /\ handler = "off" /\ heartbeat = "off" /\ streams = "off"

(* Closing a connection, or its loss, and the messages lost with it. *)
CloseWSS ==
    /\ wssOpen' = FALSE
    /\ requests' = <<>> /\ answers' = <<>>

-----------------------------------------------------------------------------
(* Start *)

Connect(ok) ==
    /\ start = "new"
    /\ start' = IF ok THEN "connected" ELSE "failed"
    /\ wssOpen' = ok
    /\ UNCHANGED <<config, stop, quicOpen, udpOpen, channels, server, routines>>

SendRegister ==
    /\ start = "connected"
    /\ wssOpen
    /\ start' = "registering"
    /\ requests' = Append(requests, "register")
    /\ UNCHANGED <<config, stop, connections, answers, server, routines>>

(* Mutant of ReadRegistered: the answer is not waited for. *)
ReadNothing ==
    /\ start = "registering"
    /\ start' = "registered"
    /\ UNCHANGED <<config, stop, connections, channels, server, routines>>

(* Register waits for the answer with no deadline. *)
ReadRegistered ==
    /\ start = "registering"
    /\ answers # <<>>
    /\ start' = "registered"
    /\ answers' = Tail(answers)
    /\ UNCHANGED <<config, stop, connections, requests, server, routines>>

(* Mutant of FailToRegister: an error of the read is not an error of Start. *)
FailToSendRegister ==
    /\ start = "connected"
    /\ ~wssOpen
    /\ start' = "failed"
    /\ UNCHANGED <<config, stop, connections, channels, server, routines>>

FailToRegister ==
    /\ start \in {"connected", "registering"}
    /\ ~wssOpen
    /\ start' = "failed"
    /\ UNCHANGED <<config, stop, connections, channels, server, routines>>

(* How Connect of the QUIC client ends: the id of the device is written to *)
(* the first stream; the dial is refused, and the UDP socket closed again; *)
(* or the id could not be sent, and only the QUIC connection is closed.    *)
DialQUICOutcome(outcome) ==
    /\ quicOpen' = (outcome = "sent")
    /\ udpOpen' = (outcome # "refused")
    /\ start' = IF outcome = "sent" THEN "dialed" ELSE "failed"

(* Mutant of DialQUIC: Start returns the error and leaves WSS connected. *)
DialQUICLeaky(outcome) ==
    /\ start = "registered"
    /\ DialQUICOutcome(outcome)
    /\ UNCHANGED <<config, stop, wssOpen, channels, server, routines>>

(* When it fails Start closes the WSS connection again. *)
DialQUIC(outcome) ==
    /\ start = "registered"
    /\ DialQUICOutcome(outcome)
    /\ IF outcome = "sent" THEN UNCHANGED <<wssOpen, channels>> ELSE CloseWSS
    /\ UNCHANGED <<config, stop, server, routines>>

(* The goroutines are started and Start returns.  Without an interval no   *)
(* heartbeats are sent.                                                    *)
Launch ==
    /\ start = "dialed"
    /\ start' = "running"
    /\ streams' = "accepting"
    /\ handler' = "locking"
    /\ heartbeat' = IF beats THEN "idle" ELSE "off"
    /\ UNCHANGED <<config, stop, connections, channels, server, readMu>>

-----------------------------------------------------------------------------
(* The server *)

(* Mutant of ServerReads: the request is sent back. *)
ServerEchoes ==
    /\ wssOpen
    /\ requests # <<>>
    /\ requests' = Tail(requests)
    /\ answers' = Append(answers, Head(requests))
    /\ UNCHANGED <<config, start, stop, connections, server, routines>>

(* A registration that is not recognised is not answered; a heartbeat is,  *)
(* whatever the registry makes of it.                                      *)
ServerReads ==
    /\ wssOpen
    /\ requests # <<>>
    /\ requests' = Tail(requests)
    /\ \/ /\ Head(requests) = "heartbeat"
          /\ answers' = Append(answers, "heartbeat")
          /\ UNCHANGED known
       \/ /\ Head(requests) = "register" /\ recognised
          /\ answers' = Append(answers, "registered")
          /\ known' = known \cup {deviceID}
       \/ /\ Head(requests) = "register" /\ ~recognised
          /\ UNCHANGED <<answers, known>>
    /\ UNCHANGED <<config, start, stop, connections, verdict, routines>>

(* handleConnection has read the id and trims it; RegisterQUICConnection   *)
(* refuses an id that is not registered, and closes the connection.        *)
ServerIdentifies ==
    /\ quicOpen
    /\ verdict = "none"
    /\ verdict' = IF TrimSpace(deviceID) \in known THEN "accepted" ELSE "refused"
    /\ quicOpen' = (verdict' = "accepted")
    /\ UNCHANGED <<config, start, stop, wssOpen, udpOpen, channels, known, routines>>

(* No heartbeat reaches the server, and none will before the device gets   *)
(* an answer or an error.                                                  *)
Silent == requests = <<>> /\ heartbeat # "idle"

(* Mutant of ServerMarksOffline: the WSS connection is left open. *)
ServerMarksOfflineHalf ==
    /\ wssOpen
    /\ deviceID \in known
    /\ quicOpen' = (quicOpen /\ ~(verdict = "accepted" /\ TrimSpace(deviceID) = deviceID))
    /\ UNCHANGED <<config, start, stop, wssOpen, udpOpen, channels, server, routines>>

(* The checker of the registry found the heartbeats late: MarkOffline      *)
(* closes the connections of the device, but not a QUIC connection that    *)
(* was registered under another name.                                      *)
ServerMarksOffline ==
    /\ wssOpen
    /\ deviceID \in known
    /\ CloseWSS
    /\ quicOpen' = (quicOpen /\ ~(verdict = "accepted" /\ TrimSpace(deviceID) = deviceID))
    /\ UNCHANGED <<config, start, stop, udpOpen, server, routines>>

(* The network breaks a connection, or the server ends. *)
LoseWSS ==
    /\ wssOpen
    /\ CloseWSS
    /\ UNCHANGED <<config, start, stop, quicOpen, udpOpen, server, routines>>

LoseQUIC ==
    /\ quicOpen
    /\ quicOpen' = FALSE
    /\ UNCHANGED <<config, start, stop, wssOpen, udpOpen, channels, server, routines>>

-----------------------------------------------------------------------------
(* HandleMessages *)

HandlerLocks ==
    /\ handler = "locking"
    /\ readMu = "free"
    /\ readMu' = "handler"
    /\ handler' = "reading"
    /\ UNCHANGED <<config, start, stop, connections, channels, server, heartbeat, streams>>

(* Every answer is ignored here: it is meant for another reader. *)
HandlerReads ==
    /\ handler = "reading"
    /\ answers # <<>>
    /\ answers' = Tail(answers)
    /\ readMu' = "free"
    /\ handler' = "locking"
    /\ UNCHANGED <<config, start, stop, connections, requests, server, heartbeat, streams>>

HandlerFails ==
    /\ handler = "reading"
    /\ ~wssOpen
    /\ readMu' = "free"
    /\ handler' = "exited"
    /\ UNCHANGED <<config, start, stop, connections, channels, server, heartbeat, streams>>

(* Mutant of HandlerTimesOut: readMu is not unlocked on the timeout path. *)
HandlerTimesOutLocked ==
    /\ handler = "reading"
    /\ handler' = "exited"
    /\ CloseWSS \/ UNCHANGED <<wssOpen, channels>>
    /\ UNCHANGED <<config, start, stop, quicOpen, udpOpen, server, readMu, heartbeat, streams>>

(* The 30 s of a read are over, some of them perhaps spent waiting for     *)
(* readMu.  The error of ReadMessage wraps DeadlineExceeded and is not     *)
(* equal to it: the loop ends instead of going round.                      *)
HandlerTimesOut ==
    /\ handler = "reading"
    /\ readMu' = "free"
    /\ handler' = "exited"
    /\ CloseWSS \/ UNCHANGED <<wssOpen, channels>>
    /\ UNCHANGED <<config, start, stop, quicOpen, udpOpen, server, heartbeat, streams>>

-----------------------------------------------------------------------------
(* startHeartbeat and SendHeartbeat *)

(* Mutant of SendHeartbeat: the next one does not wait for the answer. *)
SendHeartbeatAhead ==
    /\ heartbeat \in {"idle", "locking"}
    /\ wssOpen
    /\ Len(requests) < 3
    /\ requests' = Append(requests, "heartbeat")
    /\ heartbeat' = "locking"
    /\ UNCHANGED <<config, start, stop, connections, answers, server, readMu,
                   handler, streams>>

(* The ticker fires; the request is written under writeMu. *)
SendHeartbeat ==
    /\ heartbeat = "idle"
    /\ wssOpen
    /\ requests' = Append(requests, "heartbeat")
    /\ heartbeat' = "locking"
    /\ UNCHANGED <<config, start, stop, connections, answers, server, readMu,
                   handler, streams>>

(* The loop ends on an error whose text says the connection is closed, and *)
(* goes on after any other.                                                *)
HeartbeatGivesUp ==
    /\ heartbeat = "idle"
    /\ ~wssOpen
    /\ heartbeat' = "exited"
    /\ UNCHANGED <<config, start, stop, connections, channels, server, readMu,
                   handler, streams>>

HeartbeatLocks ==
    /\ heartbeat = "locking"
    /\ readMu = "free"
    /\ readMu' = "heartbeat"
    /\ heartbeat' = "reading"
    /\ UNCHANGED <<config, start, stop, connections, channels, server, handler, streams>>

(* The read has no deadline.  Whatever the message is decoded as, the loop *)
(* goes on.                                                                *)
HeartbeatReads ==
    /\ heartbeat = "reading"
    /\ answers # <<>>
    /\ answers' = Tail(answers)
    /\ readMu' = "free"
    /\ heartbeat' = "idle"
    /\ UNCHANGED <<config, start, stop, connections, requests, server, handler, streams>>

HeartbeatReadFails ==
    /\ heartbeat = "reading"
    /\ ~wssOpen
    /\ readMu' = "free"
    /\ heartbeat' \in {"idle", "exited"}
    /\ UNCHANGED <<config, start, stop, connections, channels, server, handler, streams>>

(* stopChan and heartbeatStop are looked at between heartbeats only. *)
HeartbeatStops ==
    /\ heartbeat = "idle"
    /\ stop # "no"
    /\ heartbeat' = "exited"
    /\ UNCHANGED <<config, start, stop, connections, channels, server, readMu,
                   handler, streams>>

-----------------------------------------------------------------------------
(* HandleStreams goes round when no stream comes for 30 s. *)
StreamsFail ==
    /\ streams = "accepting"
    /\ ~quicOpen
    /\ streams' = "exited"
    /\ UNCHANGED <<config, start, stop, connections, channels, server, readMu,
                   handler, heartbeat>>

-----------------------------------------------------------------------------
(* Stop, which main calls only when Start returned no error *)

SignalStop ==
    /\ start = "running"
    /\ stop = "no"
    /\ stop' = "signalled"
    /\ UNCHANGED <<config, start, connections, channels, server, routines>>

(* Mutant of StopWSS: the goroutines are signalled and not disconnected. *)
StopWSSOpen ==
    /\ stop = "signalled"
    /\ stop' = "wssClosed"
    /\ UNCHANGED <<config, start, connections, channels, server, routines>>

StopWSS ==
    /\ stop = "signalled"
    /\ stop' = "wssClosed"
    /\ CloseWSS
    /\ UNCHANGED <<config, start, quicOpen, udpOpen, server, routines>>

(* Close of the QUIC client leaves the UDP socket that it opened itself. *)
StopQUIC ==
    /\ stop = "wssClosed"
    /\ stop' = "done"
    /\ quicOpen' = FALSE
    /\ UNCHANGED <<config, start, wssOpen, udpOpen, channels, server, routines>>

-----------------------------------------------------------------------------
Start ==
    \/ \E ok \in BOOLEAN : Connect(ok)
    \/ \E outcome \in {"sent", "refused", "unsent"} : DialQUIC(outcome)
    \/ SendRegister \/ ReadRegistered \/ FailToRegister \/ Launch

HandleMessages == HandlerLocks \/ HandlerReads \/ HandlerFails \/ HandlerTimesOut

Heartbeat ==
    \/ SendHeartbeat \/ HeartbeatGivesUp
    \/ HeartbeatLocks \/ HeartbeatReads \/ HeartbeatReadFails
    \/ HeartbeatStops

Stop == SignalStop \/ StopWSS \/ StopQUIC

Next ==
    \/ Start \/ Stop
    \/ HandleMessages \/ Heartbeat \/ StreamsFail
    \/ ServerReads \/ ServerIdentifies \/ ServerMarksOffline
    \/ LoseWSS \/ LoseQUIC

Spec == Init /\ [][Next]_vars

(* The runtime runs every goroutine that can run; sync.Mutex lets a waiter *)
(* in eventually, though a newcomer may overtake it; the server reads what *)
(* it was sent, and its checker marks a device offline that stays silent   *)
(* (SilentGoesOffline of ServerLifecycle).  Nothing obliges the device to  *)
(* stop, the network to fail, or a read to time out.                       *)
FairSpec ==
    /\ Spec
    /\ WF_vars(Start)
    /\ WF_vars(StopWSS \/ StopQUIC)
    /\ WF_vars(ServerReads)
    /\ WF_vars(Silent /\ ServerMarksOffline)
    /\ WF_vars(HandlerReads \/ HandlerFails)
    /\ SF_vars(HandlerLocks)
    /\ WF_vars(SendHeartbeat)
    /\ SF_vars(HeartbeatLocks)
    /\ WF_vars(HeartbeatReads \/ HeartbeatReadFails)
    /\ WF_vars(HeartbeatStops)
    /\ WF_vars(StreamsFail)

-----------------------------------------------------------------------------
(* Properties *)

(* readMu is held exactly while one of its two users reads, on every path  *)
(* out of a read: answer, error and timeout (readMessage).                 *)
ReadMuHeldByReader ==
    /\ readMu = "handler" <=> handler = "reading"
    /\ readMu = "heartbeat" <=> heartbeat = "reading"

(* Requests and answers never pile up: one message is in flight at most,   *)
(* and only while its sender waits, so that no heartbeat is mistaken for   *)
(* answered by the answer to an earlier one, and HandleMessages does not   *)
(* meet the answer that Register waits for.                                *)
OneInFlight ==
    /\ Len(requests) + Len(answers) =< 1
    /\ requests # <<>> \/ answers # <<>> =>
          start = "registering" \/ heartbeat \in {"locking", "reading"}

(* The device shows its QUIC connection, and starts to read messages, only *)
(* when the server has registered it.  So the server refuses the QUIC      *)
(* connection of a registered device (quic/server.go) in one case: the     *)
(* name it registered under is not the trimmed one it is looked up by.     *)
KnownBeforeUse ==
    /\ quicOpen \/ handler # "off" \/ streams # "off" => deviceID \in known
    /\ verdict = "refused" => TrimSpace(deviceID) # deviceID

(* A Start that failed and a Stop that is done leave no connection open,   *)
(* whichever step failed and whatever the server closed before.  What they *)
(* leave is the UDP socket, which no path closes once QUIC was dialed      *)
(* (client/quic/client.go, Connect and Close).                             *)
OnlySocketLeft ==
    /\ start = "failed" \/ stop = "done" => ~wssOpen /\ ~quicOpen
    /\ udpOpen => start \in {"dialed", "running", "failed"}
    /\ quicOpen \/ stop = "done" => udpOpen

(* Stop ends every goroutine of the client, even one that waits for readMu *)
(* or for an answer that was given to another.                             *)
StopEndsAll ==
    (stop = "signalled") ~>
        (stop = "done" /\ handler = "exited" /\ heartbeat \in {"exited", "off"}
           /\ streams = "exited")

(* A call that waits for an answer returns while it is the only reader of  *)
(* the WSS connection, with the answer or with an error: Start of a device *)
(* whose registration is recognised, and a heartbeat whose request is      *)
(* still on its way when HandleMessages has ended.                         *)
LoneReaderReturns ==
    /\ (recognised /\ start = "connected") ~> (start \in {"running", "failed"})
    /\ (handler = "exited" /\ requests # <<>>) ~> (heartbeat \in {"idle", "exited"})

(* SendHeartbeat returns, even when HandleMessages has read its answer and *)
(* it waits for another with readMu held: no more heartbeats are sent, and *)
(* the server closes the connections of the device as those of a silent    *)
(* one.  The lost answer costs the device its connections.                 *)
HeartbeatReturns ==
    (heartbeat = "locking") ~> (heartbeat \in {"idle", "exited"})

(* client/wss/client.go, in HandleMessages: answers are ignored because    *)
(* "they are handled in other places".  So while a heartbeat waits, its    *)
(* request or its answer should be on its way.  But the answer that        *)
(* HandleMessages has read is handled nowhere.                             *)
AnswerOnItsWay ==
    wssOpen /\ heartbeat \in {"locking", "reading"} => requests # <<>> \/ answers # <<>>

=============================================================================
