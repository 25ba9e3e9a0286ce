------------------------- MODULE DeviceClientProofs -------------------------
(***************************************************************************)
(* Proofs about DeviceClient.  Nothing in the module bounds the number of  *)
(* messages in flight: that one is enough is what is proved.               *)
(***************************************************************************)
EXTENDS DeviceClient, SequenceTheorems, TLAPS

(* How far Start and Stop are decides what can be open, running or known;  *)
(* the last part is what the server made of a device it knows.             *)
StartInv ==
    /\ start \in {"new", "failed"} => ~wssOpen
    /\ start \notin {"dialed", "running"} => ~quicOpen
    /\ start # "running" =>
          stop = "no" /\ handler = "off" /\ heartbeat = "off" /\ streams = "off"
    /\ start \in {"registered", "dialed", "running"} => deviceID \in known
    /\ stop \in {"wssClosed", "done"} => ~wssOpen
    /\ stop = "done" => ~quicOpen
    /\ udpOpen => start \in {"dialed", "running", "failed"}
    /\ start \in {"dialed", "running"} => udpOpen
    /\ verdict = "refused" => TrimSpace(deviceID) # deviceID

(* Nothing is in flight on a closed connection, nor more than the one      *)
(* message somebody waits for; during the registration that is the request *)
(* to register, or the answer of a server that now knows the device.       *)
ChannelInv ==
    /\ ~wssOpen => requests = <<>> /\ answers = <<>>
    /\ start = "registering" =>
          /\ requests # <<>> => Head(requests) = "register"
          /\ answers # <<>> => deviceID \in known

IInv ==
    /\ TypeOK
    /\ StartInv
    /\ ChannelInv
    /\ ReadMuHeldByReader
    /\ OneInFlight

-----------------------------------------------------------------------------
(* What the actions do to a channel: a message is put at its end, and the  *)
(* first is taken.                                                         *)
LEMMA Put ==
  ASSUME NEW S, NEW s \in Seq(S), NEW e \in S
  PROVE  /\ Append(s, e) \in Seq(S)
         /\ Len(Append(s, e)) = Len(s) + 1
         /\ Append(s, e) # <<>>
         /\ s = <<>> => Head(Append(s, e)) = e
  OBVIOUS

LEMMA Count ==
  ASSUME NEW S, NEW s \in Seq(S)
  PROVE  Len(s) \in Nat /\ (Len(s) = 0 <=> s = <<>>)
  OBVIOUS

LEMMA Take ==
  ASSUME NEW S, NEW s \in Seq(S), s # <<>>
  PROVE  /\ Tail(s) \in Seq(S)
         /\ Head(s) \in S
         /\ Len(Tail(s)) = Len(s) - 1
         /\ Len(s) = 1 => Tail(s) = <<>>
<1>1. Tail(s) \in Seq(S) /\ Head(s) \in S /\ Len(Tail(s)) = Len(s) - 1
  BY HeadTailProperties
<1>2. Len(s) = 1 => Tail(s) = <<>>
  <2> DEFINE t == Tail(s)
  <2>1. t \in Seq(S) /\ (Len(s) = 1 => Len(t) = 0)
    BY <1>1
  <2> HIDE DEF t
  <2>2. Len(t) = 0 => t = <<>>
    BY <2>1, EmptySeq
  <2>3. Len(s) = 1 => t = <<>>
    BY <2>1, <2>2
  <2> QED BY <2>3 DEF t
<1> QED BY <1>1, <1>2

(* Both channels at once: how many messages they hold, and what is in the  *)
(* one that can be read when the other is empty.                           *)
LEMMA Channels ==
  ASSUME TypeOK, OneInFlight
  PROVE  /\ Len(requests) \in Nat /\ Len(answers) \in Nat
         /\ Len(requests) = 0 <=> requests = <<>>
         /\ Len(answers) = 0 <=> answers = <<>>
         /\ requests # <<>> => Len(requests) = 1 /\ answers = <<>>
         /\ answers # <<>> => Len(answers) = 1 /\ requests = <<>>
<1>1. Len(requests) \in Nat /\ (Len(requests) = 0 <=> requests = <<>>)
  BY Count DEF TypeOK
<1>2. Len(answers) \in Nat /\ (Len(answers) = 0 <=> answers = <<>>)
  BY Count DEF TypeOK
<1>3. Len(requests) + Len(answers) =< 1
  BY DEF OneInFlight
<1> DEFINE m == Len(requests)
           n == Len(answers)
<1>4. m \in Nat /\ n \in Nat /\ m + n =< 1
  BY <1>1, <1>2, <1>3
<1> HIDE DEF m, n
<1>5. (m # 0 => m = 1 /\ n = 0) /\ (n # 0 => n = 1 /\ m = 0)
  BY <1>4
<1> QED BY <1>1, <1>2, <1>5 DEF m, n

-----------------------------------------------------------------------------
(* The invariant holds when main creates the client. *)
LEMMA InitInv == Init => IInv
<1> SUFFICES ASSUME Init PROVE IInv
  OBVIOUS
<1>1. requests \in Seq({"register", "heartbeat"}) /\ answers \in Seq({"registered", "heartbeat"})
  BY EmptySeq DEF Init
<1>2. Len(requests) + Len(answers) = 0
  BY DEF Init
<1>3. TypeOK
  BY <1>1 DEF Init, TypeOK, Name, TrimSpace
<1>4. OneInFlight
  BY <1>2 DEF Init, OneInFlight
<1>5. StartInv /\ ChannelInv /\ ReadMuHeldByReader
  BY DEF Init, StartInv, ChannelInv, ReadMuHeldByReader
<1> QED BY <1>3, <1>4, <1>5 DEF IInv

(* A connection that closes takes what was in flight with it. *)
LEMMA ClosedWSS ==
  ASSUME CloseWSS
  PROVE  /\ wssOpen' = FALSE
         /\ requests' \in Seq({"register", "heartbeat"})
         /\ answers' \in Seq({"registered", "heartbeat"})
         /\ ChannelInv'
         /\ OneInFlight'
<1>1. requests' = <<>> /\ answers' = <<>> /\ wssOpen' = FALSE
  BY DEF CloseWSS
<1>2. Len(requests') + Len(answers') =< 1
  BY <1>1
<1>3. OneInFlight'
  BY <1>1, <1>2, Zenon DEF OneInFlight
<1>4. ChannelInv'
  BY <1>1 DEF ChannelInv
<1>5. requests' \in Seq({"register", "heartbeat"}) /\ answers' \in Seq({"registered", "heartbeat"})
  BY <1>1, EmptySeq
<1> QED BY <1>1, <1>3, <1>4, <1>5

(* Every step of Start, Stop and the network keeps it: they empty the      *)
(* channels or put the one request to register in.                         *)
LEMMA StartStep == ASSUME IInv, Start PROVE IInv'
<1> USE DEF IInv, config, connections, channels, server, routines
<1>1. ASSUME NEW ok \in BOOLEAN, Connect(ok) PROVE IInv'
  BY <1>1 DEF Connect, TypeOK, StartInv, ChannelInv, ReadMuHeldByReader, OneInFlight
<1>2. ASSUME NEW outcome \in {"sent", "refused", "unsent"}, DialQUIC(outcome) PROVE IInv'
  <2> USE DEF DialQUIC, DialQUICOutcome
  <2>1. CASE outcome = "sent"
    BY <1>2, <2>1 DEF TypeOK, StartInv, ChannelInv, ReadMuHeldByReader, OneInFlight
  <2>2. CASE outcome # "sent"
    <3>1. CloseWSS
      BY <1>2, <2>2
    <3> QED BY <1>2, <2>2, <3>1, ClosedWSS DEF TypeOK, StartInv, ReadMuHeldByReader
  <2> QED BY <2>1, <2>2
<1>3. ASSUME SendRegister PROVE IInv'
  <2>1. requests = <<>> /\ answers = <<>>
    BY <1>3, Channels DEF SendRegister, OneInFlight, StartInv
  <2>2. /\ requests' \in Seq({"register", "heartbeat"})
        /\ Len(requests') = 1 /\ Head(requests') = "register"
    BY <1>3, <2>1, Put, Channels DEF SendRegister, TypeOK
  <2> QED BY <1>3, <2>1, <2>2
          DEF SendRegister, TypeOK, StartInv, ChannelInv, ReadMuHeldByReader, OneInFlight
<1>4. ASSUME ReadRegistered PROVE IInv'
  <2>1. answers' \in Seq({"registered", "heartbeat"}) /\ answers' = <<>> /\ requests' = <<>>
    BY <1>4, Take, Channels DEF ReadRegistered, TypeOK
  <2>2. Len(requests') + Len(answers') = 0
    BY <2>1
  <2> QED BY <1>4, <2>1, <2>2
          DEF ReadRegistered, TypeOK, StartInv, ChannelInv, ReadMuHeldByReader, OneInFlight
<1>5. ASSUME FailToRegister PROVE IInv'
  BY <1>5 DEF FailToRegister, TypeOK, StartInv, ChannelInv, ReadMuHeldByReader, OneInFlight
<1>6. ASSUME Launch PROVE IInv'
  BY <1>6 DEF Launch, TypeOK, StartInv, ChannelInv, ReadMuHeldByReader, OneInFlight
<1> QED BY <1>1, <1>2, <1>3, <1>4, <1>5, <1>6 DEF Start

LEMMA StopStep ==
  ASSUME IInv, Stop \/ ServerMarksOffline \/ LoseWSS \/ LoseQUIC \/ StreamsFail
  PROVE  IInv'
<1> USE DEF IInv, config, connections, channels, server, routines
<1>1. ASSUME SignalStop PROVE IInv'
  BY <1>1 DEF SignalStop, TypeOK, StartInv, ChannelInv, ReadMuHeldByReader, OneInFlight
<1>2. ASSUME StopWSS PROVE IInv'
  BY <1>2, ClosedWSS DEF StopWSS, TypeOK, StartInv, ReadMuHeldByReader
<1>3. ASSUME StopQUIC PROVE IInv'
  BY <1>3 DEF StopQUIC, TypeOK, StartInv, ChannelInv, ReadMuHeldByReader, OneInFlight
<1>4. ASSUME LoseWSS PROVE IInv'
  BY <1>4, ClosedWSS DEF LoseWSS, TypeOK, StartInv, ReadMuHeldByReader
<1>5. ASSUME LoseQUIC PROVE IInv'
  <2>1. /\ UNCHANGED <<deviceID, recognised, beats, start, stop, wssOpen, udpOpen>>
        /\ UNCHANGED <<known, verdict, readMu, handler, heartbeat, streams>>
        /\ requests' = requests /\ answers' = answers
        /\ quicOpen' = FALSE
    BY <1>5 DEF LoseQUIC
  <2>2. TypeOK'
    <3>1. requests' \in Seq({"register", "heartbeat"}) /\ answers' \in Seq({"registered", "heartbeat"})
      BY <2>1 DEF TypeOK
    <3>2. /\ deviceID' \in Name /\ recognised' \in BOOLEAN /\ beats' \in BOOLEAN
          /\ wssOpen' \in BOOLEAN /\ udpOpen' \in BOOLEAN /\ known' \in SUBSET Name
      BY <2>1, Zenon DEF TypeOK
    <3>3. quicOpen' \in BOOLEAN
      BY <2>1, Zenon
    <3>4. (/\ start \in {"new", "connected", "registering", "registered", "dialed",
                        "running", "failed"}
           /\ stop \in {"no", "signalled", "wssClosed", "done"}
           /\ verdict \in {"none", "accepted", "refused"}
           /\ readMu \in {"free", "handler", "heartbeat"}
           /\ handler \in {"off", "locking", "reading", "exited"}
           /\ heartbeat \in {"off", "idle", "locking", "reading", "exited"}
           /\ streams \in {"off", "accepting", "exited"})'
      BY <2>1 DEF TypeOK
    <3> QED BY <3>1, <3>2, <3>3, <3>4, Zenon DEF TypeOK
  <2>3. ChannelInv' /\ OneInFlight'
    BY <2>1 DEF ChannelInv, OneInFlight
  <2>4. StartInv' /\ ReadMuHeldByReader'
    BY <2>1 DEF StartInv, ReadMuHeldByReader
  <2> QED BY <2>2, <2>3, <2>4
<1>6. ASSUME StreamsFail PROVE IInv'
  BY <1>6 DEF StreamsFail, TypeOK, StartInv, ChannelInv, ReadMuHeldByReader, OneInFlight
<1>7. ASSUME ServerMarksOffline PROVE IInv'
  BY <1>7, ClosedWSS DEF ServerMarksOffline, TypeOK, StartInv, ReadMuHeldByReader
<1> QED BY <1>1, <1>2, <1>3, <1>4, <1>5, <1>6, <1>7 DEF Stop

(* The server looks for the device under its trimmed name; it knows it by  *)
(* the name it registered under.                                           *)
LEMMA IdentifyStep == ASSUME IInv, ServerIdentifies PROVE IInv'
<1>1. start \in {"dialed", "running"} /\ deviceID \in known
  BY DEF IInv, StartInv, TypeOK, ServerIdentifies
<1>2. verdict' = "refused" => TrimSpace(deviceID) # deviceID
  BY <1>1 DEF ServerIdentifies
<1> QED BY <1>1, <1>2 DEF ServerIdentifies, IInv, config, channels, routines,
           TypeOK, StartInv, ChannelInv, ReadMuHeldByReader, OneInFlight

(* The server turns the one request into at most one answer. *)
LEMMA ServerStep == ASSUME IInv, ServerReads PROVE IInv'
<1> USE DEF IInv, config, connections, channels, server, routines
<1>1. requests' = <<>> /\ requests' \in Seq({"register", "heartbeat"}) /\ answers = <<>>
  BY Take, Channels DEF ServerReads, TypeOK
<1>2. Len(requests') = 0 /\ Len(answers) = 0
  BY <1>1
<1>3. CASE Head(requests) = "heartbeat"
  <2>0. answers' = Append(answers, "heartbeat") /\ UNCHANGED known
    BY <1>3 DEF ServerReads
  <2>1. answers' \in Seq({"registered", "heartbeat"}) /\ Len(answers') = 1 /\ answers' # <<>>
    BY <1>1, <1>2, <2>0, Put DEF TypeOK
  <2>2. start # "registering"
    BY <1>3 DEF ChannelInv, ServerReads
  <2> QED BY <1>1, <1>2, <1>3, <2>0, <2>1, <2>2
          DEF ServerReads, TypeOK, StartInv, ChannelInv, ReadMuHeldByReader, OneInFlight
<1>4. CASE Head(requests) = "register" /\ recognised
  <2>0. answers' = Append(answers, "registered") /\ known' = known \cup {deviceID}
    BY <1>4 DEF ServerReads
  <2>1. answers' \in Seq({"registered", "heartbeat"}) /\ Len(answers') = 1 /\ answers' # <<>>
    BY <1>1, <1>2, <2>0, Put DEF TypeOK
  <2> QED BY <1>1, <1>2, <1>4, <2>0, <2>1
          DEF ServerReads, TypeOK, StartInv, ChannelInv, ReadMuHeldByReader, OneInFlight
<1>5. CASE Head(requests) = "register" /\ ~recognised
  <2>1. UNCHANGED <<answers, known>>
    BY <1>5 DEF ServerReads
  <2> QED BY <1>1, <1>2, <1>5, <2>1
          DEF ServerReads, TypeOK, StartInv, ChannelInv, ReadMuHeldByReader, OneInFlight
<1> QED BY <1>3, <1>4, <1>5 DEF ServerReads

(* HandleMessages gives readMu back on every path, and leaves the channels *)
(* empty when it takes an answer.                                          *)
LEMMA HandlerStep == ASSUME IInv, HandleMessages PROVE IInv'
<1> USE DEF IInv, config, connections, channels, server, routines
<1>1. ASSUME HandlerLocks PROVE IInv'
  BY <1>1 DEF HandlerLocks, TypeOK, StartInv, ChannelInv, ReadMuHeldByReader, OneInFlight
<1>2. ASSUME HandlerReads PROVE IInv'
  <2>1. answers' \in Seq({"registered", "heartbeat"}) /\ answers' = <<>> /\ requests' = <<>>
    BY <1>2, Take, Channels DEF HandlerReads, TypeOK
  <2>2. Len(requests') + Len(answers') = 0
    BY <2>1
  <2> QED BY <1>2, <2>1, <2>2
          DEF HandlerReads, TypeOK, StartInv, ChannelInv, ReadMuHeldByReader, OneInFlight
<1>3. ASSUME HandlerFails PROVE IInv'
  BY <1>3 DEF HandlerFails, TypeOK, StartInv, ChannelInv, ReadMuHeldByReader, OneInFlight
<1>4. ASSUME HandlerTimesOut PROVE IInv'
  <2>1. CASE CloseWSS
    BY <1>4, <2>1, ClosedWSS DEF HandlerTimesOut, TypeOK, StartInv, ReadMuHeldByReader
  <2>2. CASE UNCHANGED <<wssOpen, channels>>
    BY <1>4, <2>2
       DEF HandlerTimesOut, TypeOK, StartInv, ChannelInv, ReadMuHeldByReader, OneInFlight
  <2> QED BY <1>4, <2>1, <2>2 DEF HandlerTimesOut
<1> QED BY <1>1, <1>2, <1>3, <1>4 DEF HandleMessages

(* A heartbeat is sent into empty channels: whoever took the answer to the *)
(* last one, the goroutine did not go on before it had one.                *)
LEMMA HeartbeatStep == ASSUME IInv, Heartbeat PROVE IInv'
<1> USE DEF IInv, config, connections, channels, server, routines
<1>1. ASSUME SendHeartbeat PROVE IInv'
  <2>1. requests = <<>> /\ answers = <<>> /\ start = "running"
    BY <1>1, Channels DEF SendHeartbeat, OneInFlight, StartInv
  <2>2. requests' \in Seq({"register", "heartbeat"}) /\ Len(requests') = 1
    BY <1>1, <2>1, Put, Channels DEF SendHeartbeat, TypeOK
  <2> QED BY <1>1, <2>1, <2>2
          DEF SendHeartbeat, TypeOK, StartInv, ChannelInv, ReadMuHeldByReader, OneInFlight
<1>2. ASSUME HeartbeatGivesUp PROVE IInv'
  BY <1>2 DEF HeartbeatGivesUp, TypeOK, StartInv, ChannelInv, ReadMuHeldByReader, OneInFlight
<1>3. ASSUME HeartbeatLocks PROVE IInv'
  BY <1>3 DEF HeartbeatLocks, TypeOK, StartInv, ChannelInv, ReadMuHeldByReader, OneInFlight
<1>4. ASSUME HeartbeatReads PROVE IInv'
  <2>1. answers' \in Seq({"registered", "heartbeat"}) /\ answers' = <<>> /\ requests' = <<>>
    BY <1>4, Take, Channels DEF HeartbeatReads, TypeOK
  <2>2. Len(requests') + Len(answers') = 0
    BY <2>1
  <2> QED BY <1>4, <2>1, <2>2
          DEF HeartbeatReads, TypeOK, StartInv, ChannelInv, ReadMuHeldByReader, OneInFlight
<1>5. ASSUME HeartbeatReadFails PROVE IInv'
  BY <1>5 DEF HeartbeatReadFails, TypeOK, StartInv, ChannelInv, ReadMuHeldByReader, OneInFlight
<1>6. ASSUME HeartbeatStops PROVE IInv'
  BY <1>6 DEF HeartbeatStops, TypeOK, StartInv, ChannelInv, ReadMuHeldByReader, OneInFlight
<1> QED BY <1>1, <1>2, <1>3, <1>4, <1>5, <1>6 DEF Heartbeat

-----------------------------------------------------------------------------
(* The invariant of the device program, whatever the interleaving of its   *)
(* goroutines with the server, the network and Stop.                       *)
THEOREM Invariant == Spec => []IInv
<1>1. IInv /\ [Next]_vars => IInv'
  <2> SUFFICES ASSUME IInv, [Next]_vars PROVE IInv'
    OBVIOUS
  <2>1. CASE Next
    BY <2>1, StartStep, StopStep, ServerStep, IdentifyStep, HandlerStep, HeartbeatStep DEF Next
  <2>2. CASE UNCHANGED vars
    BY <2>2 DEF vars, config, connections, channels, server, routines, IInv, TypeOK, StartInv, ChannelInv,
                ReadMuHeldByReader, OneInFlight
  <2> QED BY <2>1, <2>2
<1> QED BY InitInv, <1>1, PTL DEF Spec

(* readMu is never kept by a goroutine that has stopped reading, and never *)
(* taken from one that has not.                                            *)
THEOREM ReadMuReleased == Spec => []ReadMuHeldByReader
BY Invariant, PTL DEF IInv

(* At most one message is in flight, and only while its sender waits.      *)
THEOREM NoPipelining == Spec => []OneInFlight
BY Invariant, PTL DEF IInv

(* The server knows the device before it can see its QUIC connection, and  *)
(* refuses that connection only when trimming changes the id (quic/        *)
(* server.go, handleConnection).                                           *)
THEOREM RegisteredFirst == Spec => []KnownBeforeUse
<1>1. IInv => KnownBeforeUse
  BY DEF IInv, StartInv, KnownBeforeUse
<1> QED BY <1>1, Invariant, PTL

(* A failed Start and a finished Stop leave no connection open, and the    *)
(* UDP socket of a QUIC connection that was dialed is never closed.        *)
THEOREM SocketIsLeft == Spec => []OnlySocketLeft
<1>1. IInv => OnlySocketLeft
  BY DEF IInv, TypeOK, StartInv, OnlySocketLeft
<1> QED BY <1>1, Invariant, PTL

(* Type correctness: in every interleaving of Start, Stop, the heartbeats  *)
(* and the reader, each goroutine and connection is in a state it knows.   *)
THEOREM TypeCorrect == Spec => []TypeOK
<1>1. IInv => TypeOK
  BY DEF IInv
<1> QED BY <1>1, Invariant, PTL

=============================================================================
