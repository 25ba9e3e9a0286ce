---------------------------- MODULE TunnelProofs ----------------------------
(***************************************************************************)
(* Proofs about Tunnel for any number of chunks: types, and that the two   *)
(* relays implement RelayedConnection.                                     *)
(***************************************************************************)
EXTENDS Tunnel, TLAPS

USE BoundsAssumption

(* A copier that is about to write has one chunk in its buffer.            *)
Held(g) == IF copier[g] = "writing" THEN 1 ELSE 0

(* No chunk comes into being on the way: those on the channels, those in   *)
(* the hands of copiers and those given to the receiver were all sent.     *)
UpInv ==
    queued["up1"] + Held("serverUp") + queued["up2"] + Held("deviceUp") + queued["up3"]
        =< sent["client"]

DownInv ==
    queued["down3"] + Held("deviceDown") + queued["down2"] + Held("serverDown") + queued["down1"]
        =< sent["target"]

IInv == TypeOK /\ UpInv /\ DownInv

-----------------------------------------------------------------------------
(* What copiers and peers are connected to.                                *)
LEMMA Ends ==
    /\ Channel = {"up1", "up2", "up3", "down3", "down2", "down1"}
    /\ From["serverUp"] = "up1" /\ To["serverUp"] = "up2"
    /\ From["deviceUp"] = "up2" /\ To["deviceUp"] = "up3"
    /\ From["deviceDown"] = "down3" /\ To["deviceDown"] = "down2"
    /\ From["serverDown"] = "down2" /\ To["serverDown"] = "down1"
    /\ Writes["client"] = "up1" /\ Reads["client"] = "down1"
    /\ Writes["target"] = "down3" /\ Reads["target"] = "up3"
  BY DEF Channel, From, To, Writes, Reads

LEMMA EndsInChannel ==
    /\ \A g \in Copier : From[g] \in Channel /\ To[g] \in Channel
    /\ \A p \in Peer : Writes[p] \in Channel /\ Reads[p] \in Channel
  BY Ends DEF Copier, Peer

-----------------------------------------------------------------------------
(* Types *)

LEMMA CopyType == ASSUME TypeOK, NEW g \in Copier, Copy(g) PROVE TypeOK'
<1>1. CASE CopyRead(g)
  <2> DEFINE c == From[g]
  <2>1. c \in Channel /\ queued[c] \in Nat /\ queued[c] > 0
    BY <1>1, EndsInChannel DEF CopyRead, TypeOK
  <2>2. queued' = [queued EXCEPT ![c] = @ - 1]
    BY <1>1 DEF CopyRead
  <2> HIDE DEF c
  <2>3. queued' \in [Channel -> Nat]
    BY <2>1, <2>2 DEF TypeOK
  <2>4. copier' \in [Copier -> {"reading", "writing", "done"}]
    BY <1>1 DEF CopyRead, TypeOK
  <2> QED BY <1>1, <2>3, <2>4 DEF CopyRead, TypeOK
<1>2. CASE CopyWrite(g)
  <2> DEFINE c == To[g]
  <2>1. c \in Channel /\ queued' = [queued EXCEPT ![c] = @ + 1]
    BY <1>2, EndsInChannel DEF CopyWrite
  <2> HIDE DEF c
  <2>3. queued' \in [Channel -> Nat]
    BY <2>1 DEF TypeOK
  <2>4. copier' \in [Copier -> {"reading", "writing", "done"}]
    BY <1>2 DEF CopyWrite, TypeOK
  <2> QED BY <1>2, <2>3, <2>4 DEF CopyWrite, TypeOK
<1>3. CASE CopyEnd(g)
  BY <1>3 DEF CopyEnd, TypeOK
<1>4. CASE CopyWriteError(g)
  BY <1>4 DEF CopyWriteError, TypeOK
<1> QED BY <1>1, <1>2, <1>3, <1>4 DEF Copy

LEMMA RelayType == ASSUME TypeOK, ProxyTCP \/ CopyDataWithCounting PROVE TypeOK'
<1>1. ASSUME NEW ok \in BOOLEAN, DialTarget(ok) PROVE TypeOK'
  BY <1>1 DEF DialTarget, TypeOK, Channel
<1>2. CASE CloseDevice
  BY <1>2 DEF CloseDevice, TypeOK, Channel
<1>3. CASE EndDevice
  BY <1>3 DEF EndDevice, TypeOK, Channel
<1>4. CASE CloseServer
  BY <1>4 DEF CloseServer, TypeOK, Channel
<1>5. CASE EndServer
  BY <1>5 DEF EndServer, TypeOK
<1> QED BY <1>1, <1>2, <1>3, <1>4, <1>5 DEF ProxyTCP, CopyDataWithCounting

LEMMA EnvironmentType == ASSUME TypeOK, Environment PROVE TypeOK'
<1>1. ASSUME NEW p \in Peer, Send(p) PROVE TypeOK'
  <2> DEFINE c == Writes[p]
  <2>1. c \in Channel /\ queued' = [queued EXCEPT ![c] = @ + 1]
    BY <1>1, EndsInChannel DEF Send
  <2> HIDE DEF c
  <2>2. queued' \in [Channel -> Nat]
    BY <2>1 DEF TypeOK
  <2>3. /\ sent' \in [Peer -> Nat]
        /\ \A r \in Peer : sent'[r] =< Bound[r]
    <3>1. Bound["client"] \in Nat /\ Bound["target"] \in Nat
      BY DEF Bound
    <3> QED BY <1>1, <3>1 DEF Send, TypeOK, Peer
  <2> QED BY <1>1, <2>2, <2>3 DEF Send, TypeOK
<1>2. ASSUME NEW p \in Peer, Shut(p) PROVE TypeOK'
  BY <1>2 DEF Shut, TypeOK
<1>3. ASSUME NEW p \in Peer, Leave(p) PROVE TypeOK'
  BY <1>3 DEF Leave, TypeOK
<1>4. CASE LoseQUIC \/ Expire
  BY <1>4 DEF LoseQUIC, Expire, TypeOK
<1> QED BY <1>1, <1>2, <1>3, <1>4 DEF Environment

LEMMA InitType == ASSUME Init PROVE TypeOK
<1>1. \A p \in Peer : sent[p] = 0 /\ 0 =< Bound[p]
  BY DEF Init, Peer, Bound
<1>2. phase \in [Relay -> {"dialing", "relaying", "closing", "over"}]
  BY DEF Init, Relay
<1> QED BY <1>1, <1>2 DEF Init, TypeOK

LEMMA StepType == TypeOK /\ [Next]_vars => TypeOK'
<1>1. TypeOK /\ UNCHANGED vars => TypeOK'
  BY DEF TypeOK, vars
<1> QED BY <1>1, CopyType, RelayType, EnvironmentType DEF Next

(* Type correctness: chunks are counted by natural numbers, so no copier   *)
(* takes one from an empty channel, and nobody sends more than its bound.  *)
THEOREM TypeCorrect == Spec => []TypeOK
  BY InitType, StepType, PTL DEF Spec

-----------------------------------------------------------------------------
(* No chunk comes into being *)

LEMMA HeldRange == \A g \in Copier : Held(g) \in {0, 1}
  BY DEF Held

(* A copier moves a chunk from its channel to its buffer, or on from there.*)
LEMMA CopyConserves ==
  ASSUME IInv, NEW g \in Copier, Copy(g) PROVE UpInv' /\ DownInv'
<1> USE Ends DEF IInv, TypeOK, UpInv, DownInv, Held
<1>1. CASE CopyRead(g)
  <2>1. CASE g = "serverUp"
    BY <1>1, <2>1 DEF CopyRead, Copier
  <2>2. CASE g = "serverDown"
    BY <1>1, <2>2 DEF CopyRead, Copier
  <2>3. CASE g = "deviceUp"
    BY <1>1, <2>3 DEF CopyRead, Copier
  <2>4. CASE g = "deviceDown"
    BY <1>1, <2>4 DEF CopyRead, Copier
  <2> QED BY <2>1, <2>2, <2>3, <2>4 DEF Copier
<1>2. CASE CopyWrite(g)
  <2>1. CASE g = "serverUp"
    BY <1>2, <2>1 DEF CopyWrite, Copier
  <2>2. CASE g = "serverDown"
    BY <1>2, <2>2 DEF CopyWrite, Copier
  <2>3. CASE g = "deviceUp"
    BY <1>2, <2>3 DEF CopyWrite, Copier
  <2>4. CASE g = "deviceDown"
    BY <1>2, <2>4 DEF CopyWrite, Copier
  <2> QED BY <2>1, <2>2, <2>3, <2>4 DEF Copier
<1>3. CASE CopyEnd(g)
  BY <1>3 DEF CopyEnd, Copier
<1>4. CASE CopyWriteError(g)
  <2>1. queued' = queued /\ sent' = sent
    BY <1>4 DEF CopyWriteError
  <2>2. /\ queued["up1"] \in Nat /\ queued["up2"] \in Nat /\ queued["up3"] \in Nat
        /\ queued["down1"] \in Nat /\ queued["down2"] \in Nat /\ queued["down3"] \in Nat
    BY DEF Channel
  <2>3. sent["client"] \in Nat /\ sent["target"] \in Nat
    BY DEF Peer
  <2>4. \A x \in Copier : copier'[x] = "writing" => copier[x] = "writing"
    BY <1>4 DEF CopyWriteError
  <2>5. /\ Held("serverUp")' =< Held("serverUp") /\ Held("serverDown")' =< Held("serverDown")
        /\ Held("deviceUp")' =< Held("deviceUp") /\ Held("deviceDown")' =< Held("deviceDown")
    BY <2>4 DEF Copier
  <2> HIDE DEF TypeOK
  <2>6. UpInv'
    BY <2>1, <2>2, <2>3, <2>5
  <2>7. DownInv'
    BY <2>1, <2>2, <2>3, <2>5
  <2> QED BY <2>6, <2>7
<1> QED BY <1>1, <1>2, <1>3, <1>4 DEF Copy

LEMMA OthersConserve ==
  ASSUME IInv, ProxyTCP \/ CopyDataWithCounting \/ Environment PROVE UpInv' /\ DownInv'
<1> USE Ends DEF IInv, TypeOK, UpInv, DownInv, Held
<1>1. CASE ProxyTCP \/ CopyDataWithCounting
  BY <1>1 DEF ProxyTCP, DialTarget, CloseDevice, EndDevice,
              CopyDataWithCounting, CloseServer, EndServer
<1>2. ASSUME Send("client") PROVE UpInv' /\ DownInv'
  BY <1>2 DEF Send, Peer
<1>3. ASSUME Send("target") PROVE UpInv' /\ DownInv'
  BY <1>3 DEF Send, Peer
<1>4. ASSUME LoseQUIC \/ Expire \/ \E p \in Peer : Shut(p) \/ Leave(p)
      PROVE  UpInv' /\ DownInv'
  BY <1>4 DEF Shut, Leave, LoseQUIC, Expire
<1> QED BY <1>1, <1>2, <1>3, <1>4 DEF Environment, Peer

(* In both directions the chunks given, held and on the way are never more *)
(* than those sent, whatever the copiers of both relays do.                *)
THEOREM Invariant == Spec => []IInv
<1>1. ASSUME Init PROVE IInv
  <2>1. \A c \in Channel : queued[c] = 0
    BY <1>1 DEF Init
  <2>2. \A g \in Copier : Held(g) = 0
    BY <1>1 DEF Init, Held
  <2>3. \A p \in Peer : sent[p] = 0
    BY <1>1 DEF Init
  <2> QED BY <1>1, <2>1, <2>2, <2>3, InitType DEF IInv, UpInv, DownInv, Channel, Copier, Peer
<1>2. IInv /\ UNCHANGED vars => IInv'
  BY StepType DEF vars, IInv, UpInv, DownInv, Held
<1>3. IInv /\ [Next]_vars => IInv'
  BY <1>2, StepType, CopyConserves, OthersConserve DEF Next, IInv
<1> QED BY <1>1, <1>3, PTL DEF Spec

-----------------------------------------------------------------------------
(* The refinement *)

got == [p \in Peer |-> given(p)]
ended == {p \in Peer : fin[Writes[p]]}
closed == {p \in Peer : fin[Reads[p]]}

(* A step that touches none of the channels' ends is not seen by the peers.*)
LEMMA Unseen ==
  ASSUME UNCHANGED sent,
         \A p \in Peer : /\ queued'[Reads[p]] = queued[Reads[p]]
                         /\ fin'[Writes[p]] = fin[Writes[p]]
                         /\ fin'[Reads[p]] = fin[Reads[p]]
  PROVE  UNCHANGED Pipes!vars
<1>1. got' = got
  BY DEF got, given
<1>2. ended' = ended /\ closed' = closed
  BY DEF ended, closed
<1> QED BY <1>1, <1>2 DEF Pipes!vars, got, ended, closed

(* Only the last copier of each direction gives a chunk to a peer, and it  *)
(* holds that chunk, so there is one that was sent and not given.          *)
LEMMA CopyImplements ==
  ASSUME IInv, NEW g \in Copier, Copy(g) PROVE [Pipes!Next]_(Pipes!vars)
<1> USE Ends
<1>1. CASE CopyRead(g)
  <2>1. From[g] \in Channel /\ \A p \in Peer : Reads[p] \in Channel /\ From[g] # Reads[p]
    BY DEF Copier, Peer
  <2>2. \A p \in Peer : queued'[Reads[p]] = queued[Reads[p]]
    BY <1>1, <2>1 DEF CopyRead, IInv, TypeOK
  <2> QED BY <1>1, <2>2, Unseen DEF CopyRead
<1>2. CASE CopyWrite(g) /\ g \in {"serverUp", "deviceDown"}
  <2>1. To[g] \in Channel /\ \A p \in Peer : Reads[p] \in Channel /\ To[g] # Reads[p]
    BY <1>2 DEF Peer
  <2>2. \A p \in Peer : queued'[Reads[p]] = queued[Reads[p]]
    BY <1>2, <2>1 DEF CopyWrite, IInv, TypeOK
  <2> QED BY <1>2, <2>2, Unseen DEF CopyWrite
<1>3. ASSUME NEW p \in Peer, NEW q \in Peer, p # q, CopyWrite(g), To[g] = Reads[p],
             given(p) < sent[q]
      PROVE  Pipes!Give(p, q)
  <2>1. got' = [got EXCEPT ![p] = @ + 1]
    <3>1. queued' = [queued EXCEPT ![Reads[p]] = @ + 1]
      BY <1>3 DEF CopyWrite
    <3>2. queued'["down1"] = IF p = "client" THEN queued["down1"] + 1 ELSE queued["down1"]
      BY <1>3, <3>1 DEF IInv, TypeOK, Peer
    <3>3. queued'["up3"] = IF p = "target" THEN queued["up3"] + 1 ELSE queued["up3"]
      BY <1>3, <3>1 DEF IInv, TypeOK, Peer
    <3> QED BY <3>2, <3>3 DEF got, given, Peer
  <2>2. ended' = ended /\ closed' = closed /\ sent' = sent
    BY <1>3 DEF CopyWrite, ended, closed
  <2>3. p \notin closed
    BY <1>3 DEF CopyWrite, WriteFails, closed
  <2>4. got[p] < sent[q]
    BY <1>3 DEF got
  <2> QED BY <1>3, <2>1, <2>2, <2>3, <2>4 DEF Pipes!Give, got, ended, closed
<1>4. CASE CopyWrite("serverDown") /\ g = "serverDown"
  <2>1. given("client") < sent["target"]
    BY <1>4 DEF CopyWrite, IInv, DownInv, Held, TypeOK, given, Channel, Peer
  <2>2. "client" \in Peer /\ "target" \in Peer /\ To[g] = Reads["client"]
    BY <1>4 DEF Peer
  <2> QED BY <1>3, <1>4, <2>1, <2>2 DEF Pipes!Next
<1>5. CASE CopyWrite("deviceUp") /\ g = "deviceUp"
  <2>1. given("target") < sent["client"]
    BY <1>5 DEF CopyWrite, IInv, UpInv, Held, TypeOK, given, Channel, Peer
  <2>2. "client" \in Peer /\ "target" \in Peer /\ To[g] = Reads["target"]
    BY <1>5 DEF Peer
  <2> QED BY <1>3, <1>5, <2>1, <2>2 DEF Pipes!Next
<1>6. CASE CopyEnd(g) \/ CopyWriteError(g)
  BY <1>6, Unseen DEF CopyEnd, CopyWriteError
<1> QED BY <1>1, <1>2, <1>4, <1>5, <1>6 DEF Copy, Copier

(* Closing the last channel of a direction is the hang-up its peer sees.   *)
LEMMA RelayImplements ==
  ASSUME IInv, ProxyTCP \/ CopyDataWithCounting PROVE [Pipes!Next]_(Pipes!vars)
<1> USE Ends DEF IInv, TypeOK
<1>1. ASSUME NEW p \in Peer, UNCHANGED <<queued, sent>>,
             \A c \in Channel :
                 fin'[c] = (fin[c] \/ c = Reads[p] \/ (c = "up2" /\ fin'[c]))
      PROVE  Pipes!HangUp(p)
  <2>1. \A r \in Peer : /\ fin'[Writes[r]] = fin[Writes[r]]
                         /\ fin'[Reads[r]] = (fin[Reads[r]] \/ r = p)
    BY <1>1 DEF Peer
  <2>2. ended' = ended
    BY <2>1 DEF ended
  <2>3. closed' = closed \cup {p}
    BY <1>1, <2>1 DEF closed
  <2> QED BY <1>1, <2>2, <2>3 DEF Pipes!HangUp, got, given, ended, closed
<1>2. CASE CloseServer
  <2>1. "client" \in Peer
    BY DEF Peer
  <2>2. \A c \in Channel : fin'[c] = (fin[c] \/ c = "down1" \/ (c = "up2" /\ fin'[c]))
    BY <1>2 DEF CloseServer
  <2> QED BY <1>1, <1>2, <2>1, <2>2 DEF CloseServer, Pipes!Next
<1>3. CASE CloseDevice
  <2>1. "target" \in Peer
    BY DEF Peer
  <2>2. \A c \in Channel : fin'[c] = (fin[c] \/ c = "up3" \/ (c = "up2" /\ fin'[c]))
    BY <1>3 DEF CloseDevice
  <2> QED BY <1>1, <1>3, <2>1, <2>2 DEF CloseDevice, Pipes!Next
<1>4. CASE EndServer
  BY <1>4, Unseen DEF EndServer
<1>5. ASSUME EndDevice \/ \E ok \in BOOLEAN : DialTarget(ok)
      PROVE  UNCHANGED Pipes!vars
  <2>1. UNCHANGED <<queued, sent>>
    BY <1>5 DEF EndDevice, DialTarget
  <2>2. \A c \in Channel : c # "down2" => fin'[c] = fin[c]
    BY <1>5 DEF EndDevice, DialTarget
  <2> QED BY <2>1, <2>2, Unseen DEF Peer
<1> QED BY <1>2, <1>3, <1>4, <1>5 DEF ProxyTCP, CopyDataWithCounting

LEMMA EnvironmentImplements ==
  ASSUME IInv, Environment PROVE [Pipes!Next]_(Pipes!vars)
<1> USE Ends DEF IInv, TypeOK
<1>1. ASSUME NEW p \in Peer, Send(p) PROVE Pipes!Send(p)
  <2>1. queued'["down1"] = queued["down1"] /\ queued'["up3"] = queued["up3"]
    BY <1>1 DEF Send, Peer
  <2>2. got' = got
    BY <2>1 DEF got, given, Peer
  <2>3. ended' = ended /\ closed' = closed /\ p \notin ended
    BY <1>1 DEF Send, ended, closed
  <2> QED BY <1>1, <2>2, <2>3 DEF Send, Pipes!Send, got, ended, closed
<1>2. ASSUME NEW p \in Peer, Shut(p) \/ Leave(p) PROVE Pipes!End(p)
  <2>1. fin' = [fin EXCEPT ![Writes[p]] = TRUE] /\ UNCHANGED <<queued, sent>>
    BY <1>2 DEF Shut, Leave
  <2>2. \A c \in Channel : fin'[c] = (fin[c] \/ c = Writes[p])
    BY <2>1
  <2>3. \A r \in Peer : /\ fin'[Writes[r]] = (fin[Writes[r]] \/ r = p)
                         /\ fin'[Reads[r]] = fin[Reads[r]]
    BY <2>2 DEF Peer
  <2>4. ended' = ended \cup {p}
    BY <1>2, <2>3 DEF ended
  <2>5. closed' = closed
    BY <2>3 DEF closed
  <2> QED BY <2>1, <2>4, <2>5 DEF Pipes!End, got, given, ended, closed
<1>3. CASE LoseQUIC \/ Expire
  BY <1>3, Unseen DEF LoseQUIC, Expire
<1> QED BY <1>1, <1>2, <1>3 DEF Environment, Pipes!Next

(* The two relays are two pipes: whatever fails on the way, no chunk is    *)
(* given that was not sent, none twice, and none after the connection was  *)
(* closed (CopyDataWithCounting and ProxyTCP).                             *)
THEOREM RelaysArePipes == Spec => ImplementsPipes
<1>1. Init => Pipes!Init
  BY Ends DEF Init, Pipes!Init, given, Channel, Peer
<1>2. IInv /\ [Next]_vars => [Pipes!Next]_(Pipes!vars)
  <2>1. UNCHANGED vars => UNCHANGED Pipes!vars
    BY Unseen DEF vars
  <2> QED BY <2>1, CopyImplements, RelayImplements, EnvironmentImplements DEF Next
<1> QED BY <1>1, <1>2, Invariant, PTL DEF Spec, ImplementsPipes, Pipes!Spec

-----------------------------------------------------------------------------
(* Completeness.  A transfer is calm while nothing has happened that may   *)
(* cut it short: the receiver's end of the other direction is open, the    *)
(* sender has not left, the deadline has not passed, the QUIC connection   *)
(* works and the device got through to the target.                         *)

Dialed == phase["device"] = "over" => fin["up3"]
UpCalm == ~fin["down3"] /\ "client" \notin gone /\ ~expired /\ quic /\ Dialed
DownCalm == ~fin["up1"] /\ "target" \notin gone /\ ~expired /\ quic /\ Dialed

(* Which connections the relays have closed is known from how far they are.*)
EndsAgree ==
    /\ fin["down2"] <=> phase["device"] = "over"
    /\ fin["up2"] <=> phase["server"] \in {"closing", "over"}
    /\ fin["down1"] <=> phase["server"] \in {"closing", "over"}
    /\ fin["up3"] => phase["device"] \in {"closing", "over"}
    /\ phase["device"] = "closing" => fin["up3"]
    /\ \A p \in gone : fin[Writes[p]]

(* While an upload is calm no relay closes before its copier of that       *)
(* direction is done, which is when the channel it reads has ended and is  *)
(* empty; the copiers of the other direction end only because of a relay   *)
(* that closed.  No chunk has been lost.                                   *)
UpDone ==
    /\ copier["serverUp"] = "done" => fin["up1"] /\ queued["up1"] = 0
    /\ fin["up2"] => copier["serverUp"] = "done"
    /\ copier["deviceUp"] = "done" => fin["up2"] /\ queued["up2"] = 0
    /\ fin["up3"] => copier["deviceUp"] = "done"
    /\ copier["deviceDown"] = "done" => fin["up3"]
    /\ copier["serverDown"] = "done" => fin["down1"] \/ fin["down2"]

UpKept ==
    queued["up1"] + Held("serverUp") + queued["up2"] + Held("deviceUp") + queued["up3"]
        = sent["client"]

DownDone ==
    /\ copier["deviceDown"] = "done" => fin["down3"] /\ queued["down3"] = 0
    /\ fin["up3"] => copier["deviceDown"] = "done"
    /\ copier["serverDown"] = "done" => fin["down2"] /\ queued["down2"] = 0
    /\ fin["down1"] => copier["serverDown"] = "done"
    /\ copier["deviceUp"] = "done" => fin["up3"]
    /\ copier["serverUp"] = "done" => fin["down1"]

DownKept ==
    queued["down3"] + Held("deviceDown") + queued["down2"] + Held("serverDown") + queued["down1"]
        = sent["target"]

CompleteInv ==
    /\ TypeOK /\ EndsAgree
    /\ UpCalm => UpDone /\ UpKept
    /\ DownCalm => DownDone /\ DownKept

LEMMA AgreeStep == ASSUME TypeOK, EndsAgree, Next PROVE EndsAgree'
<1> USE Ends DEF TypeOK, EndsAgree, Channel, Relay
<1>1. ASSUME NEW g \in Copier, Copy(g) PROVE EndsAgree'
  BY <1>1 DEF Copy, CopyRead, CopyEnd, CopyWrite, CopyWriteError
<1>2. ASSUME NEW ok \in BOOLEAN, DialTarget(ok) PROVE EndsAgree'
  BY <1>2 DEF DialTarget, Peer
<1>3. CASE CloseDevice
  BY <1>3 DEF CloseDevice, Peer
<1>4. CASE EndDevice
  BY <1>4 DEF EndDevice, Peer
<1>5. CASE CloseServer
  BY <1>5 DEF CloseServer, Peer
<1>6. CASE EndServer
  BY <1>6 DEF EndServer, Peer
<1>7. ASSUME NEW p \in Peer, Shut(p) \/ Leave(p) PROVE EndsAgree'
  <2>1. fin' = [fin EXCEPT ![Writes[p]] = TRUE] /\ gone' \subseteq gone \cup {p}
    BY <1>7 DEF Shut, Leave
  <2>2. \A r \in gone' : fin'[Writes[r]]
    BY <2>1 DEF Peer
  <2>3. \A c \in Channel \ {"up1", "down3"} : fin'[c] = fin[c]
    BY <2>1 DEF Peer
  <2> QED BY <1>7, <2>2, <2>3 DEF Shut, Leave
<1>8. CASE LoseQUIC \/ Expire \/ \E p \in Peer : Send(p)
  BY <1>8 DEF LoseQUIC, Expire, Send
<1> QED BY <1>1, <1>2, <1>3, <1>4, <1>5, <1>6, <1>7, <1>8
        DEF Next, ProxyTCP, CopyDataWithCounting, Environment

(* What cuts a transfer short is never undone. *)
LEMMA CalmBefore ==
  ASSUME TypeOK, EndsAgree, Next PROVE (UpCalm' => UpCalm) /\ (DownCalm' => DownCalm)
<1> USE Ends DEF TypeOK, EndsAgree, Channel, Relay, UpCalm, DownCalm, Dialed
<1>1. ASSUME NEW g \in Copier, Copy(g) PROVE UNCHANGED <<UpCalm, DownCalm>>
  BY <1>1 DEF Copy, CopyRead, CopyEnd, CopyWrite, CopyWriteError
<1>2. ASSUME NEW ok \in BOOLEAN, DialTarget(ok)
      PROVE  (UpCalm' => UpCalm) /\ (DownCalm' => DownCalm)
  BY <1>2 DEF DialTarget
<1>3. ASSUME CloseDevice \/ EndDevice \/ CloseServer \/ EndServer
      PROVE  (UpCalm' => UpCalm) /\ (DownCalm' => DownCalm)
  BY <1>3 DEF CloseDevice, EndDevice, CloseServer, EndServer
<1>4. ASSUME NEW p \in Peer, Shut(p) \/ Leave(p)
      PROVE  (UpCalm' => UpCalm) /\ (DownCalm' => DownCalm)
  BY <1>4 DEF Shut, Leave, Peer
<1>5. ASSUME LoseQUIC \/ Expire \/ \E p \in Peer : Send(p)
      PROVE  (UpCalm' => UpCalm) /\ (DownCalm' => DownCalm)
  BY <1>5 DEF LoseQUIC, Expire, Send
<1> QED BY <1>1, <1>2, <1>3, <1>4, <1>5
        DEF Next, ProxyTCP, CopyDataWithCounting, Environment

(* Nobody writes to a channel that has ended, and the order of the ends is *)
(* that of the data: a relay closes the next channel when its copier of    *)
(* this one is done.                                                       *)
LEMMA CopyUpload ==
  ASSUME TypeOK, EndsAgree, UpCalm, UpDone, NEW g \in Copier, Copy(g) PROVE UpDone'
<1> USE Ends DEF TypeOK, EndsAgree, UpCalm, UpDone, Dialed, Copier, Channel
<1>1. CASE CopyRead(g)
  BY <1>1 DEF CopyRead
<1>2. CASE CopyWrite(g)
  BY <1>2 DEF CopyWrite, WriteFails
<1>3. CASE CopyEnd(g)
  BY <1>3 DEF CopyEnd, ReadFails, ReadSideClosed
<1>4. CASE CopyWriteError(g)
  BY <1>4 DEF CopyWriteError, WriteMayFail, WriteFails, Peer
<1> QED BY <1>1, <1>2, <1>3, <1>4 DEF Copy

LEMMA CopyDownload ==
  ASSUME TypeOK, EndsAgree, DownCalm, DownDone, NEW g \in Copier, Copy(g) PROVE DownDone'
<1> USE Ends DEF TypeOK, EndsAgree, DownCalm, DownDone, Dialed, Copier, Channel
<1>1. CASE CopyRead(g)
  BY <1>1 DEF CopyRead
<1>2. CASE CopyWrite(g)
  BY <1>2 DEF CopyWrite, WriteFails
<1>3. CASE CopyEnd(g)
  BY <1>3 DEF CopyEnd, ReadFails, ReadSideClosed
<1>4. CASE CopyWriteError(g)
  BY <1>4 DEF CopyWriteError, WriteMayFail, WriteFails, Peer
<1> QED BY <1>1, <1>2, <1>3, <1>4 DEF Copy

LEMMA OthersUpload ==
  ASSUME TypeOK, EndsAgree, UpCalm, UpDone, UpCalm',
         ProxyTCP \/ CopyDataWithCounting \/ Environment
  PROVE  UpDone'
<1> USE Ends DEF TypeOK, EndsAgree, UpCalm, UpDone, Dialed, Copier, Channel, Relay
<1>1. ASSUME NEW ok \in BOOLEAN, DialTarget(ok) PROVE UpDone'
  BY <1>1 DEF DialTarget
<1>2. CASE CloseDevice
  BY <1>2 DEF CloseDevice, OneDone, Copiers
<1>3. CASE EndDevice
  BY <1>3 DEF EndDevice
<1>4. CASE CloseServer
  BY <1>4 DEF CloseServer, OneDone, Copiers
<1>5. CASE EndServer
  BY <1>5 DEF EndServer
<1>6. ASSUME NEW p \in Peer, Send(p) PROVE UpDone'
  BY <1>6 DEF Send, Peer
<1>7. ASSUME NEW p \in Peer, Shut(p) \/ Leave(p) PROVE UpDone'
  BY <1>7 DEF Shut, Leave, Peer
<1>8. CASE LoseQUIC \/ Expire
  BY <1>8 DEF LoseQUIC, Expire
<1> QED BY <1>1, <1>2, <1>3, <1>4, <1>5, <1>6, <1>7, <1>8
        DEF ProxyTCP, CopyDataWithCounting, Environment

LEMMA OthersDownload ==
  ASSUME TypeOK, EndsAgree, DownCalm, DownDone, DownCalm',
         ProxyTCP \/ CopyDataWithCounting \/ Environment
  PROVE  DownDone'
<1> USE Ends DEF TypeOK, EndsAgree, DownCalm, DownDone, Dialed, Copier, Channel, Relay
<1>1. ASSUME NEW ok \in BOOLEAN, DialTarget(ok) PROVE DownDone'
  BY <1>1 DEF DialTarget
<1>2. CASE CloseDevice
  BY <1>2 DEF CloseDevice, OneDone, Copiers
<1>3. CASE EndDevice
  BY <1>3 DEF EndDevice
<1>4. CASE CloseServer
  BY <1>4 DEF CloseServer, OneDone, Copiers
<1>5. CASE EndServer
  BY <1>5 DEF EndServer
<1>6. ASSUME NEW p \in Peer, Send(p) PROVE DownDone'
  BY <1>6 DEF Send, Peer
<1>7. ASSUME NEW p \in Peer, Shut(p) \/ Leave(p) PROVE DownDone'
  BY <1>7 DEF Shut, Leave, Peer
<1>8. CASE LoseQUIC \/ Expire
  BY <1>8 DEF LoseQUIC, Expire
<1> QED BY <1>1, <1>2, <1>3, <1>4, <1>5, <1>6, <1>7, <1>8
        DEF ProxyTCP, CopyDataWithCounting, Environment

(* A chunk is lost only by a write that fails, which ends a copier in the  *)
(* middle of its direction: in a calm transfer it is the other direction's.*)
LEMMA CopyKeeps ==
  ASSUME TypeOK, EndsAgree, NEW g \in Copier, Copy(g)
  PROVE  /\ UpCalm /\ UpDone /\ UpKept => UpKept'
         /\ DownCalm /\ DownDone /\ DownKept => DownKept'
<1> USE Ends DEF TypeOK, Channel, Copier, Peer, UpKept, DownKept, Held
<1>1. CASE CopyRead(g)
  <2>1. CASE g = "serverUp"
    BY <1>1, <2>1 DEF CopyRead
  <2>2. CASE g = "serverDown"
    BY <1>1, <2>2 DEF CopyRead
  <2>3. CASE g = "deviceUp"
    BY <1>1, <2>3 DEF CopyRead
  <2>4. CASE g = "deviceDown"
    BY <1>1, <2>4 DEF CopyRead
  <2> QED BY <2>1, <2>2, <2>3, <2>4
<1>2. CASE CopyWrite(g)
  <2>1. CASE g = "serverUp"
    BY <1>2, <2>1 DEF CopyWrite
  <2>2. CASE g = "serverDown"
    BY <1>2, <2>2 DEF CopyWrite
  <2>3. CASE g = "deviceUp"
    BY <1>2, <2>3 DEF CopyWrite
  <2>4. CASE g = "deviceDown"
    BY <1>2, <2>4 DEF CopyWrite
  <2> QED BY <2>1, <2>2, <2>3, <2>4
<1>3. CASE CopyEnd(g)
  BY <1>3 DEF CopyEnd
<1>4. CASE CopyWriteError(g)
  <2>1. UpCalm /\ UpDone => g \notin {"serverUp", "deviceUp"}
    BY <1>4 DEF CopyWriteError, WriteMayFail, WriteFails, EndsAgree, UpCalm, UpDone
  <2>2. DownCalm /\ DownDone => g \notin {"serverDown", "deviceDown"}
    BY <1>4 DEF CopyWriteError, WriteMayFail, WriteFails, EndsAgree, DownCalm, DownDone,
                Dialed, Active, HostOf, Copiers
  <2>3. UNCHANGED <<queued, sent>> /\ \A x \in Copier \ {g} : copier'[x] = copier[x]
    BY <1>4 DEF CopyWriteError
  <2>4. g \notin {"serverUp", "deviceUp"} => UNCHANGED UpKept
    BY <2>3
  <2>5. g \notin {"serverDown", "deviceDown"} => UNCHANGED DownKept
    BY <2>3
  <2> QED BY <2>1, <2>2, <2>4, <2>5
<1> QED BY <1>1, <1>2, <1>3, <1>4 DEF Copy

LEMMA OthersKeep ==
  ASSUME TypeOK, ProxyTCP \/ CopyDataWithCounting \/ Environment
  PROVE  (UpKept => UpKept') /\ (DownKept => DownKept')
<1> USE Ends DEF TypeOK, Channel, Copier, Peer, UpKept, DownKept, Held
<1>1. CASE ProxyTCP \/ CopyDataWithCounting
  BY <1>1 DEF ProxyTCP, DialTarget, CloseDevice, EndDevice,
              CopyDataWithCounting, CloseServer, EndServer
<1>2. CASE Send("client")
  BY <1>2 DEF Send
<1>3. CASE Send("target")
  BY <1>3 DEF Send
<1>4. CASE LoseQUIC \/ Expire \/ \E p \in Peer : Shut(p) \/ Leave(p)
  BY <1>4 DEF Shut, Leave, LoseQUIC, Expire
<1> QED BY <1>1, <1>2, <1>3, <1>4 DEF Environment

LEMMA InitComplete == ASSUME Init PROVE CompleteInv
<1>1. /\ \A c \in Channel : queued[c] = 0 /\ fin[c] = FALSE
      /\ \A g \in Copier : copier[g] = "reading" /\ Held(g) = 0
      /\ \A p \in Peer : sent[p] = 0
      /\ phase["server"] = "relaying" /\ phase["device"] = "dialing"
  BY DEF Init, Held
<1>2. EndsAgree
  BY <1>1 DEF Init, EndsAgree, Channel
<1>3. UpDone /\ DownDone
  BY <1>1 DEF UpDone, DownDone, Channel, Copier
<1>4. UpKept /\ DownKept
  BY <1>1 DEF UpKept, DownKept, Channel, Copier, Peer
<1> QED BY <1>2, <1>3, <1>4, InitType DEF CompleteInv

LEMMA Complete == Spec => []CompleteInv
<1>1. ASSUME CompleteInv, Next PROVE CompleteInv'
  <2>1. TypeOK' /\ EndsAgree'
    BY <1>1, StepType, AgreeStep DEF CompleteInv
  <2>2. UpCalm' => UpCalm /\ UpDone' /\ UpKept'
    BY <1>1, CalmBefore, CopyUpload, OthersUpload, CopyKeeps, OthersKeep
       DEF CompleteInv, Next
  <2>3. DownCalm' => DownCalm /\ DownDone' /\ DownKept'
    BY <1>1, CalmBefore, CopyDownload, OthersDownload, CopyKeeps, OthersKeep
       DEF CompleteInv, Next
  <2> QED BY <2>1, <2>2, <2>3 DEF CompleteInv
<1>2. CompleteInv /\ UNCHANGED vars => CompleteInv'
  BY StepType DEF vars, CompleteInv, EndsAgree, UpCalm, DownCalm, Dialed, UpDone, DownDone,
                  UpKept, DownKept, Held
<1> QED BY <1>1, <1>2, InitComplete, PTL DEF Spec

(* What a client sends before it ends its direction is all written to the  *)
(* target before the device hangs up, unless the transfer was cut short.   *)
THEOREM UploadsComplete == Spec => []UploadComplete
<1>1. CompleteInv => UploadComplete
  <2> SUFFICES ASSUME CompleteInv, phase["device"] = "over", fin["up3"], UpCalm
               PROVE  given("target") = sent["client"]
    BY DEF UploadComplete, UpCalm, Dialed
  <2>1. /\ copier["deviceUp"] = "done" /\ copier["serverUp"] = "done"
        /\ queued["up1"] = 0 /\ queued["up2"] = 0
    BY DEF CompleteInv, UpDone
  <2>2. Held("deviceUp") = 0 /\ Held("serverUp") = 0
    BY <2>1 DEF Held
  <2> QED BY <2>1, <2>2, Ends DEF CompleteInv, UpKept, given, TypeOK, Channel
<1> QED BY <1>1, Complete, PTL

(* What a target sends before it ends its direction is all written to the  *)
(* client before the server hangs up, unless the transfer was cut short.   *)
THEOREM DownloadsComplete == Spec => []DownloadComplete
<1>1. CompleteInv => DownloadComplete
  <2> SUFFICES ASSUME CompleteInv, phase["server"] = "over", fin["up3"], DownCalm
               PROVE  given("client") = sent["target"]
    BY DEF DownloadComplete, DownCalm, Dialed
  <2>1. /\ copier["deviceDown"] = "done" /\ copier["serverDown"] = "done"
        /\ queued["down3"] = 0 /\ queued["down2"] = 0
    BY DEF CompleteInv, DownDone, EndsAgree
  <2>2. Held("deviceDown") = 0 /\ Held("serverDown") = 0
    BY <2>1 DEF Held
  <2> QED BY <2>1, <2>2, Ends DEF CompleteInv, DownKept, given, TypeOK, Channel
<1> QED BY <1>1, Complete, PTL

=============================================================================
