------------------------------- MODULE Tunnel -------------------------------
(***************************************************************************)
(* One proxied connection through a device: a client at one end, a target  *)
(* at the other, and two relays in between.  The server copies between the *)
(* client's connection and a QUIC stream (proxy/core.go,                   *)
(* CopyDataWithCounting); the device copies between the stream and its     *)
(* connection to the target (client/quic/stream_handler.go).  Each relay   *)
(* is a goroutine that waits twice on a channel, and two that copy.        *)
(*                                                                         *)
(*   client --up1-> server --up2-> device --up3-> target                   *)
(*          <-down1-       <-down2-       <-down3-                         *)
(*                                                                         *)
(* Data is counted in chunks.  fin[c] says that the writing end of c is    *)
(* closed.  A TCP connection is closed in both directions at once by its   *)
(* owner, while Close of a QUIC stream ends the direction it writes and    *)
(* leaves the other one readable (quicStreamConn.Close).  Flow control is  *)
(* left out: a write never waits.                                          *)
(***************************************************************************)
EXTENDS Naturals

CONSTANTS
    MaxUp,      \* bound: chunks the client sends at most
    MaxDown     \* bound: chunks the target sends at most

ASSUME BoundsAssumption == MaxUp \in Nat /\ MaxDown \in Nat

VARIABLES
    queued,     \* chunks on each channel that its reader has not taken
    fin,        \* the channels whose writer has closed them
    copier,     \* what each copying goroutine does
    phase,      \* what the goroutine that waits for the copiers does
    quic,       \* the QUIC connection works
    expired,    \* the deadline of the device's connection to the target
    gone,       \* peers that closed their connection altogether
    sent        \* chunks each peer has sent

vars == <<queued, fin, copier, phase, quic, expired, gone, sent>>

Channel == {"up1", "up2", "up3", "down3", "down2", "down1"}
Stream == {"up2", "down2"}
Copier == {"serverUp", "serverDown", "deviceUp", "deviceDown"}
Relay == {"server", "device"}
Peer == {"client", "target"}

From == [serverUp |-> "up1", serverDown |-> "down2", deviceUp |-> "up2", deviceDown |-> "down3"]
To == [serverUp |-> "up2", serverDown |-> "down1", deviceUp |-> "up3", deviceDown |-> "down2"]
Copiers == [server |-> {"serverUp", "serverDown"}, device |-> {"deviceUp", "deviceDown"}]
HostOf(g) == IF g \in Copiers["server"] THEN "server" ELSE "device"
Writes == [client |-> "up1", target |-> "down3"]    \* the channel a peer writes
Bound == [client |-> MaxUp, target |-> MaxDown]
Reads == [client |-> "down1", target |-> "up3"]     \* and the one it reads

(* What was written to the connection of a peer.  Since a write never waits *)
(* the peers need not read: these two channels only fill.                  *)
given(p) == queued[Reads[p]]

TypeOK ==
    /\ queued \in [Channel -> Nat]
    /\ fin \in [Channel -> BOOLEAN]
    /\ copier \in [Copier -> {"reading", "writing", "done"}]
    /\ phase \in [Relay -> {"dialing", "relaying", "closing", "over"}]
    /\ quic \in BOOLEAN /\ expired \in BOOLEAN
    /\ gone \in SUBSET Peer
    /\ sent \in [Peer -> Nat]
    /\ \A p \in Peer : sent[p] =< Bound[p]

(* Dial has written the target address to the stream, and the device has   *)
(* read it and dials the target.                                           *)
Init ==
    /\ queued = [c \in Channel |-> 0]
    /\ fin = [c \in Channel |-> FALSE]
    /\ copier = [g \in Copier |-> "reading"]
    /\ phase = [server |-> "relaying", device |-> "dialing"]
    /\ quic = TRUE /\ expired = FALSE
    /\ gone = {}
    /\ sent = [p \in Peer |-> 0]

-----------------------------------------------------------------------------
(* The copying goroutines (io.Copy) *)

(* The connection g reads from was closed at this end, by the relay.       *)
ReadSideClosed(g) ==
    \/ g = "serverUp" /\ fin["down1"]
    \/ g = "deviceDown" /\ fin["up3"]

ReadFails(g) ==
    \/ ReadSideClosed(g)
    \/ From[g] \in Stream /\ ~quic
    \/ g = "deviceDown" /\ expired

WriteFails(g) ==
    \/ fin[To[g]]
    \/ To[g] \in Stream /\ ~quic
    \/ g = "deviceUp" /\ expired

(* A write to a peer that is gone may succeed for a while. *)
WriteMayFail(g) ==
    \/ WriteFails(g)
    \/ \E p \in gone : To[g] = Reads[p]

Active(g) == phase[HostOf(g)] \in {"relaying", "closing"}

(* Mutant of CopyRead: a chunk that was read is not passed on. *)
CopyReadDrops(g) ==
    /\ Active(g)
    /\ copier[g] = "reading"
    /\ ~ReadFails(g)
    /\ queued[From[g]] > 0
    /\ queued' = [queued EXCEPT ![From[g]] = @ - 1]
    /\ copier' = [copier EXCEPT ![g] = "reading"]
    /\ UNCHANGED <<fin, phase, quic, expired, gone, sent>>

(* Mutant of CopyRead: a read returns data though none has arrived. *)
CopyReadEmpty(g) ==
    /\ Active(g)
    /\ copier[g] = "reading"
    /\ ~ReadFails(g)
    /\ queued' = [queued EXCEPT ![From[g]] = @ - 1]
    /\ copier' = [copier EXCEPT ![g] = "writing"]
    /\ UNCHANGED <<fin, phase, quic, expired, gone, sent>>

CopyRead(g) ==
    /\ Active(g)
    /\ copier[g] = "reading"
    /\ ~ReadFails(g)
    /\ queued[From[g]] > 0
    /\ queued' = [queued EXCEPT ![From[g]] = @ - 1]
    /\ copier' = [copier EXCEPT ![g] = "writing"]
    /\ UNCHANGED <<fin, phase, quic, expired, gone, sent>>

(* Mutant of CopyEnd: the end of a channel is seen before its last chunks. *)
CopyEndEarly(g) ==
    /\ Active(g)
    /\ copier[g] = "reading"
    /\ ReadFails(g) \/ fin[From[g]]
    /\ copier' = [copier EXCEPT ![g] = "done"]
    /\ UNCHANGED <<queued, fin, phase, quic, expired, gone, sent>>

(* End of file, or an error. *)
CopyEnd(g) ==
    /\ Active(g)
    /\ copier[g] = "reading"
    /\ ReadFails(g) \/ (fin[From[g]] /\ queued[From[g]] = 0)
    /\ copier' = [copier EXCEPT ![g] = "done"]
    /\ UNCHANGED <<queued, fin, phase, quic, expired, gone, sent>>

(* Mutant of CopyWrite: a chunk is written again after it was written. *)
CopyWriteTwice(g) ==
    /\ Active(g)
    /\ copier[g] = "writing"
    /\ ~WriteFails(g)
    /\ queued' = [queued EXCEPT ![To[g]] = @ + 1]
    /\ copier' = [copier EXCEPT ![g] = "writing"]
    /\ UNCHANGED <<fin, phase, quic, expired, gone, sent>>

CopyWrite(g) ==
    /\ Active(g)
    /\ copier[g] = "writing"
    /\ ~WriteFails(g)
    /\ queued' = [queued EXCEPT ![To[g]] = @ + 1]
    /\ copier' = [copier EXCEPT ![g] = "reading"]
    /\ UNCHANGED <<fin, phase, quic, expired, gone, sent>>

CopyWriteError(g) ==
    /\ Active(g)
    /\ copier[g] = "writing"
    /\ WriteMayFail(g)
    /\ copier' = [copier EXCEPT ![g] = "done"]
    /\ UNCHANGED <<queued, fin, phase, quic, expired, gone, sent>>

-----------------------------------------------------------------------------
(* The waiting goroutines *)

(* ProxyTCP dials the target, with a timeout.  When it fails HandleStream  *)
(* closes its direction of the stream.                                     *)
DialTarget(ok) ==
    /\ phase["device"] = "dialing"
    /\ phase' = [phase EXCEPT !["device"] = IF ok THEN "relaying" ELSE "over"]
    /\ fin' = IF ok THEN fin ELSE [fin EXCEPT !["down2"] = TRUE]
    /\ UNCHANGED <<queued, copier, quic, expired, gone, sent>>

OneDone(r) == \E g \in Copiers[r] : copier[g] = "done"
BothDone(r) == \A g \in Copiers[r] : copier[g] = "done"


(* CopyDataWithCounting: when one side is done both connections are closed. *)
CloseServer ==
    /\ phase["server"] = "relaying"
    /\ OneDone("server")
    /\ fin' = [fin EXCEPT !["up2"] = TRUE, !["down1"] = TRUE]
    /\ phase' = [phase EXCEPT !["server"] = "closing"]
    /\ UNCHANGED <<queued, copier, quic, expired, gone, sent>>

(* Mutant of CloseDevice: both connections are left to the deferred calls. *)
CloseDeviceNothing ==
    /\ phase["device"] = "relaying"
    /\ OneDone("device")
    /\ phase' = [phase EXCEPT !["device"] = "closing"]
    /\ UNCHANGED <<queued, fin, copier, quic, expired, gone, sent>>

(* ProxyTCP: only the connection to the target is closed. *)
CloseDevice ==
    /\ phase["device"] = "relaying"
    /\ OneDone("device")
    /\ fin' = [fin EXCEPT !["up3"] = TRUE]
    /\ phase' = [phase EXCEPT !["device"] = "closing"]
    /\ UNCHANGED <<queued, copier, quic, expired, gone, sent>>

EndServer ==
    /\ phase["server"] = "closing"
    /\ BothDone("server")
    /\ phase' = [phase EXCEPT !["server"] = "over"]
    /\ UNCHANGED <<queued, fin, copier, quic, expired, gone, sent>>

(* HandleStream closes its direction of the stream when ProxyTCP returns.  *)
EndDevice ==
    /\ phase["device"] = "closing"
    /\ BothDone("device")
    /\ phase' = [phase EXCEPT !["device"] = "over"]
    /\ fin' = [fin EXCEPT !["down2"] = TRUE]
    /\ UNCHANGED <<queued, copier, quic, expired, gone, sent>>

-----------------------------------------------------------------------------
(* The peers and the network *)

Connected(p) == p = "client" \/ phase["device"] \in {"relaying", "closing"}

Send(p) ==
    /\ Connected(p)
    /\ ~fin[Writes[p]]
    /\ sent[p] < Bound[p]
    /\ sent' = [sent EXCEPT ![p] = @ + 1]
    /\ queued' = [queued EXCEPT ![Writes[p]] = @ + 1]
    /\ UNCHANGED <<fin, copier, phase, quic, expired, gone>>

(* The peer ends its direction and goes on reading ... *)
Shut(p) ==
    /\ Connected(p)
    /\ ~fin[Writes[p]]
    /\ fin' = [fin EXCEPT ![Writes[p]] = TRUE]
    /\ UNCHANGED <<queued, copier, phase, quic, expired, gone, sent>>

(* ... or closes its connection. *)
Leave(p) ==
    /\ Connected(p)
    /\ p \notin gone
    /\ gone' = gone \cup {p}
    /\ fin' = [fin EXCEPT ![Writes[p]] = TRUE]
    /\ UNCHANGED <<queued, copier, phase, quic, expired, sent>>

(* The device is marked offline or the network breaks. *)
LoseQUIC ==
    /\ quic
    /\ quic' = FALSE
    /\ UNCHANGED <<queued, fin, copier, phase, expired, gone, sent>>

(* Five minutes after the target was dialed. *)
Expire ==
    /\ phase["device"] \in {"relaying", "closing"}
    /\ ~expired
    /\ expired' = TRUE
    /\ UNCHANGED <<queued, fin, copier, phase, quic, gone, sent>>

-----------------------------------------------------------------------------
Copy(g) == CopyRead(g) \/ CopyEnd(g) \/ CopyWrite(g) \/ CopyWriteError(g)

ProxyTCP == (\E ok \in BOOLEAN : DialTarget(ok)) \/ CloseDevice \/ EndDevice

CopyDataWithCounting == CloseServer \/ EndServer

Environment ==
    \/ \E p \in Peer : Send(p) \/ Shut(p) \/ Leave(p)
    \/ LoseQUIC \/ Expire

Next ==
    \/ \E g \in Copier : Copy(g)
    \/ ProxyTCP \/ CopyDataWithCounting
    \/ Environment

Spec == Init /\ [][Next]_vars

(* Goroutines that can run do, and dialing the target ends.  The peers may *)
(* stay silent for ever; the deadline of the target connection passes.     *)
FairSpec ==
    /\ Spec
    /\ \A g \in Copier : WF_vars(Copy(g))
    /\ WF_vars(ProxyTCP)
    /\ WF_vars(CopyDataWithCounting)
    /\ WF_vars(Expire)

-----------------------------------------------------------------------------
(* Properties *)

Over == phase["server"] = "over" /\ phase["device"] = "over"

(* The two pipes the peers see: what was given to each, who has ended its  *)
(* direction, and whose connection the relays have closed.                 *)
Pipes == INSTANCE RelayedConnection
    WITH got <- [p \in Peer |-> given(p)],
         ended <- {p \in Peer : fin[Writes[p]]},
         closed <- {p \in Peer : fin[Reads[p]]}

(* Through two relays, whatever fails: each chunk a peer is given was sent *)
(* by the other and is given once, and nothing is written to a connection  *)
(* that a relay has closed (CopyDataWithCounting, ProxyTCP).               *)
ImplementsPipes == Pipes!Spec

(* A client that sends its data and ends its direction has all of it       *)
(* written to the target before the device hangs up, unless the target     *)
(* ended first, its deadline passed, or the QUIC connection was lost.      *)
UploadComplete ==
    (/\ phase["device"] = "over" /\ fin["up3"]
     /\ "client" \notin gone /\ ~fin["down3"] /\ ~expired /\ quic)
        => given("target") = sent["client"]

(* The other way round: a target that ends its direction and goes on       *)
(* reading has all it sent written to the client, if the client has not    *)
(* ended its own direction by then.                                        *)
DownloadComplete ==
    (/\ phase["server"] = "over" /\ fin["up3"]
     /\ ~fin["up1"] /\ "target" \notin gone /\ ~expired /\ quic)
        => given("client") = sent["target"]


(* A device that waits for its second copier is freed by whatever the      *)
(* client sends next: the write to the closed target connection fails.     *)
TrafficFreesDevice ==
    (phase["device"] = "closing" /\ queued["up2"] > 0) ~> (phase["device"] = "over")

(* stream_handler.go: "we close only the TCP connection, the stream will   *)
(* be closed in the defer of HandleStream".  It is not while the other     *)
(* copier waits for the stream, which the server keeps open until the      *)
(* device closes its direction.                                            *)
StreamClosedInTheEnd == (phase["device"] = "closing") ~> fin["down2"]

=============================================================================
