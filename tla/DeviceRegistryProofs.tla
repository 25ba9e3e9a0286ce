------------------------ MODULE DeviceRegistryProofs ------------------------
(***************************************************************************)
(* Proofs about DeviceRegistry for any sets of devices and connections and *)
(* any timeout: types, the safety invariants, and that the registry        *)
(* implements DevicePresence.                                              *)
(***************************************************************************)
EXTENDS DeviceRegistry, TLAPS

USE TimeoutAssumption, ConnAssumption, DeviceAssumption

(* What holds of a scan and of Close while they own r.mu.  A device the    *)
(* scan has condemned is online and registered; the devices it may still   *)
(* condemn are past the timeout now, not only when the scan began.         *)
ScanInv ==
    /\ todo \subseteq devices
    /\ \A d \in stale : d \in devices /\ age[d] > Timeout
    /\ lock = "closer" => closing = "marking"
    /\ condemned # NoDevice =>
          /\ lock = "checker"
          /\ condemned \in devices
          /\ status[condemned] = "Online"

IInv ==
    /\ TypeOK
    /\ ScanInv
    /\ OfflineReleases
    /\ NoOrphanQUIC
    /\ ConnectionsBelong

-----------------------------------------------------------------------------
(* The initial state has the types of the program's state.                 *)
LEMMA InitType == Init => TypeOK
  BY DEF Init, TypeOK

(* A step of a WSS handler keeps the types. *)
LEMMA WSSType == ASSUME TypeOK, NEW w \in WSS, WSSHandler(w) PROVE TypeOK'
<1>1. CASE AcceptWSS(w)
  BY <1>1 DEF TypeOK, AcceptWSS, deviceVars, quicVars, scanVars
<1>2. ASSUME NEW d \in Device, ReadRegister(w, d) PROVE TypeOK'
  BY <1>2 DEF TypeOK, ReadRegister, deviceVars, quicVars, scanVars
<1>3. ASSUME NEW d \in Device, LookupForHeartbeat(w, d) PROVE TypeOK'
  BY <1>3 DEF TypeOK, LookupForHeartbeat, deviceVars, quicVars, scanVars
<1>4. CASE RegisterWithWSS(w) \/ UpdateHeartbeat(w)
  <2> DEFINE p == reqId[w]
  <2>0. Beat(p) /\ p \in Device /\ task[w] # "idle"
    BY <1>4 DEF TypeOK, RegisterWithWSS, UpdateHeartbeat
  <2>1. age' \in [Device -> 0 .. Timeout + 1]
    BY <2>0 DEF TypeOK, Beat
  <2>2. status' \in [Device -> {"Online", "Offline"}] /\ stale' \in SUBSET Device
    BY <2>0 DEF TypeOK, Beat
  <2>3. /\ task' \in [WSS -> {"idle", "register", "beat"}]
        /\ reqId' \in [WSS -> Device \cup {NoDevice}]
        /\ \A v \in WSS : task'[v] = "idle" <=> reqId'[v] = NoDevice
        /\ \A v \in WSS : task'[v] = "beat" => task[v] = "beat" /\ reqId'[v] = reqId[v]
    BY <1>4 DEF TypeOK, RegisterWithWSS, UpdateHeartbeat, Done
  <2>4. /\ devices \subseteq devices' /\ devices' \in SUBSET Device
        /\ wssConn' \in [Device -> WSS \cup {NoConn}]
    BY <1>4, <2>0 DEF TypeOK, RegisterWithWSS, UpdateHeartbeat
  <2>5. \A v \in WSS : task'[v] = "beat" => reqId'[v] \in devices'
    BY <2>3, <2>4 DEF TypeOK
  <2> QED BY <1>4, <2>1, <2>2, <2>3, <2>4, <2>5
             DEF TypeOK, RegisterWithWSS, UpdateHeartbeat, quicVars
<1> QED BY <1>1, <1>2, <1>3, <1>4 DEF WSSHandler

(* A step of a QUIC connection handler keeps the types. *)
LEMMA QUICType == ASSUME TypeOK, NEW q \in QUIC, QUICHandler(q) PROVE TypeOK'
<1> USE DEF TypeOK, deviceVars, wssVars, scanVars
<1>1. ASSUME NEW d \in Device, AcceptQUIC(q, d) PROVE TypeOK'
  BY <1>1 DEF AcceptQUIC, UnusedQUIC
<1>2. ASSUME FailRegistration(q) PROVE TypeOK'
  BY <1>2 DEF FailRegistration
<1>3. ASSUME RejectUnknownDevice(q) PROVE TypeOK'
  BY <1>3 DEF RejectUnknownDevice
<1>4. ASSUME RegisterQUICConnection(q) PROVE TypeOK'
  BY <1>4 DEF RegisterQUICConnection, Beat
<1> QED BY <1>1, <1>2, <1>3, <1>4 DEF QUICHandler

(* The loss of a connection keeps the types. *)
LEMMA NetworkType == ASSUME TypeOK, Network PROVE TypeOK'
  BY DEF TypeOK, Network, LoseWSS, LoseQUIC, deviceVars, wssVars, quicVars, scanVars

(* A step of the checker keeps the types, the passing of time included. *)
LEMMA ScanType == ASSUME TypeOK, Scan \/ Tick PROVE TypeOK'
<1> USE DEF TypeOK, deviceVars, wssVars, quicVars, scanVars
<1>1. CASE Tick
  <2>1. \A d \in Device : age'[d] \in 0 .. Timeout + 1
    BY <1>1 DEF Tick
  <2> QED BY <1>1, <2>1 DEF Tick
<1>2. CASE StartScan
  BY <1>2 DEF StartScan
<1>3. ASSUME NEW d \in Device, PassDevice(d) PROVE TypeOK'
  BY <1>3 DEF PassDevice
<1>4. ASSUME NEW d \in Device, CondemnDevice(d) PROVE TypeOK'
  BY <1>4 DEF CondemnDevice
<1>5. ASSUME NEW d \in Device, MarkCondemned(d) PROVE TypeOK'
  BY <1>5 DEF MarkCondemned, MarkOffline
<1>6. CASE EndScan
  BY <1>6 DEF EndScan
<1> QED BY <1>1, <1>2, <1>3, <1>4, <1>5, <1>6 DEF Scan

(* A step of Close, or the exit of the checker, keeps the types. *)
LEMMA CloseType == ASSUME TypeOK, Close \/ ExitChecker PROVE TypeOK'
<1> USE DEF TypeOK, deviceVars, wssVars, quicVars, scanVars
<1>1. CASE SignalStop
  BY <1>1 DEF SignalStop
<1>2. CASE StartClose
  BY <1>2 DEF StartClose
<1>3. ASSUME NEW d \in Device, CloseDevice(d) PROVE TypeOK'
  BY <1>3 DEF CloseDevice, MarkOffline
<1>4. CASE EndClose
  BY <1>4 DEF EndClose
<1>5. CASE ExitChecker
  BY <1>5 DEF ExitChecker
<1> QED BY <1>1, <1>2, <1>3, <1>4, <1>5 DEF Close

LEMMA StutterType == ASSUME TypeOK, UNCHANGED vars PROVE TypeOK'
  BY DEF TypeOK, vars, deviceVars, wssVars, quicVars, scanVars

(* Type correctness: every variable keeps to the values the code can give  *)
(* it, and the silence of a device is counted no further than one tick     *)
(* past the timeout.                                                       *)
THEOREM TypeCorrect == Spec => []TypeOK
<1>1. TypeOK /\ [Next]_vars => TypeOK'
  BY WSSType, QUICType, NetworkType, ScanType, CloseType, StutterType DEF Next
<1> QED BY <1>1, InitType, PTL DEF Spec

-----------------------------------------------------------------------------
(* The four parts of the invariant beyond the types. *)
Safe == ScanInv /\ OfflineReleases /\ NoOrphanQUIC /\ ConnectionsBelong

LEMMA InitSafe == Init => Safe
  BY DEF Init, Safe, ScanInv, OfflineReleases, NoOrphanQUIC, ConnectionsBelong

(* Reading a message and looking a device up change nothing the rest of    *)
(* the invariant is about.                                                 *)
LEMMA WaitingWSSSafe ==
  ASSUME IInv, NEW w \in WSS,
         \/ AcceptWSS(w)
         \/ \E d \in Device : ReadRegister(w, d) \/ LookupForHeartbeat(w, d)
  PROVE  Safe'
<1>1. UNCHANGED <<deviceVars, quicVars, scanVars, closing>>
  BY DEF AcceptWSS, LookupForHeartbeat, ReadRegister
<1> QED BY <1>1 DEF IInv, deviceVars, quicVars, scanVars, Safe, ScanInv,
           OfflineReleases, NoOrphanQUIC, ConnectionsBelong

LEMMA BeatingWSSSafe ==
  ASSUME IInv, NEW w \in WSS, RegisterWithWSS(w) \/ UpdateHeartbeat(w)
  PROVE  Safe'
<1> DEFINE p == reqId[w]
<1>1. /\ p \in Device /\ Beat(p)
      /\ devices \subseteq devices' /\ p \in devices'
      /\ wssConn' \in {wssConn, [wssConn EXCEPT ![p] = w]}
      /\ UNCHANGED <<quicConn, quicOpen, quicPeer, quicPhase>>
      /\ UNCHANGED <<lock, todo, condemned, closing, checker>>
  BY DEF IInv, TypeOK, RegisterWithWSS, UpdateHeartbeat, quicVars
<1> HIDE DEF p
<1> USE <1>1 DEF IInv, TypeOK, Beat
<1>3. ScanInv'
  BY DEF ScanInv
<1>4. OfflineReleases'
  BY DEF OfflineReleases
<1>5. NoOrphanQUIC'
  BY DEF NoOrphanQUIC
<1>6. ConnectionsBelong'
  BY DEF ConnectionsBelong
<1> QED BY <1>3, <1>4, <1>5, <1>6 DEF Safe

LEMMA AcceptQUICSafe ==
  ASSUME IInv, NEW q \in QUIC, NEW d \in Device, AcceptQUIC(q, d)
  PROVE  Safe'
  BY DEF IInv, TypeOK, AcceptQUIC, UnusedQUIC, deviceVars, wssVars, scanVars,
         Safe, ScanInv, OfflineReleases, NoOrphanQUIC, ConnectionsBelong

LEMMA DropPendingSafe ==
  ASSUME IInv, NEW q \in QUIC, FailRegistration(q) \/ RejectUnknownDevice(q)
  PROVE  Safe'
  BY DEF IInv, TypeOK, FailRegistration, RejectUnknownDevice, deviceVars,
         wssVars, scanVars,
         Safe, ScanInv, OfflineReleases, NoOrphanQUIC, ConnectionsBelong

(* The one step that replaces a QUIC connection: the old one is closed, so *)
(* every other registered open connection keeps the device it had.         *)
LEMMA RegisterQUICSafe ==
  ASSUME IInv, NEW q \in QUIC, RegisterQUICConnection(q)
  PROVE  Safe'
<1> DEFINE p == quicPeer[q]
<1>1. /\ p \in Device /\ p \in devices /\ Beat(p)
      /\ quicPhase[q] = "pending" /\ lock = "free"
      /\ quicOpen' = quicOpen \ {quicConn[p]}
      /\ quicConn' = [quicConn EXCEPT ![p] = q]
      /\ quicPhase' = [quicPhase EXCEPT ![q] = "registered"]
      /\ UNCHANGED <<devices, wssConn, quicPeer, lock, todo, condemned,
                     closing, checker>>
      /\ UNCHANGED <<wssOpen, task, reqId>>
      /\ quicPeer[q] = p
  BY DEF IInv, TypeOK, RegisterQUICConnection, wssVars
<1> HIDE DEF p
<1> USE <1>1 DEF IInv, TypeOK
<1>3. ScanInv'
  BY DEF ScanInv, Beat
<1>4. OfflineReleases'
  BY DEF OfflineReleases, Beat
<1>5. NoOrphanQUIC'
  BY DEF NoOrphanQUIC
<1>6. ConnectionsBelong'
  BY DEF ConnectionsBelong
<1> QED BY <1>3, <1>4, <1>5, <1>6 DEF Safe

LEMMA NetworkSafe == ASSUME IInv, Network PROVE Safe'
  BY DEF IInv, TypeOK, Network, LoseWSS, LoseQUIC, deviceVars, wssVars, quicVars,
         scanVars, Safe, ScanInv, OfflineReleases, NoOrphanQUIC, ConnectionsBelong

LEMMA TickSafe == ASSUME IInv, Tick PROVE Safe'
<1> USE DEF IInv, TypeOK, Tick, wssVars, quicVars, scanVars
<1>1. ScanInv'
  BY DEF ScanInv
<1> QED BY <1>1 DEF Safe, OfflineReleases, NoOrphanQUIC, ConnectionsBelong

(* Marking a device offline closes what it held: no orphan is left.        *)
LEMMA MarkOfflineSafe ==
  ASSUME IInv, NEW d \in Device, MarkOffline(d),
         UNCHANGED <<devices, quicPeer, quicPhase>>
  PROVE  OfflineReleases' /\ NoOrphanQUIC' /\ ConnectionsBelong'
  BY DEF IInv, TypeOK, MarkOffline, OfflineReleases, NoOrphanQUIC, ConnectionsBelong

LEMMA ScanSafe == ASSUME IInv, Scan PROVE Safe'
<1> USE DEF IInv, TypeOK
<1>1. CASE StartScan
  BY <1>1 DEF StartScan, deviceVars, wssVars, quicVars, Safe, ScanInv,
              OfflineReleases, NoOrphanQUIC, ConnectionsBelong
<1>2. ASSUME NEW d \in Device, PassDevice(d) PROVE Safe'
  BY <1>2 DEF PassDevice, deviceVars, wssVars, quicVars, Safe, ScanInv,
              OfflineReleases, NoOrphanQUIC, ConnectionsBelong
<1>3. ASSUME NEW d \in Device, CondemnDevice(d) PROVE Safe'
  BY <1>3 DEF CondemnDevice, deviceVars, wssVars, quicVars, Safe, ScanInv,
              OfflineReleases, NoOrphanQUIC, ConnectionsBelong
<1>4. ASSUME NEW d \in Device, MarkCondemned(d) PROVE Safe'
  <2>1. ScanInv'
    BY <1>4 DEF MarkCondemned, MarkOffline, ScanInv
  <2> QED BY <1>4, <2>1, MarkOfflineSafe DEF MarkCondemned, Safe
<1>5. CASE EndScan
  BY <1>5 DEF EndScan, deviceVars, wssVars, quicVars, Safe, ScanInv,
              OfflineReleases, NoOrphanQUIC, ConnectionsBelong
<1> QED BY <1>1, <1>2, <1>3, <1>4, <1>5 DEF Scan

LEMMA CloseSafe == ASSUME IInv, Close \/ ExitChecker PROVE Safe'
<1> USE DEF IInv, TypeOK
<1>1. CASE SignalStop \/ StartClose \/ EndClose \/ ExitChecker
  BY <1>1 DEF SignalStop, StartClose, EndClose, ExitChecker,
              deviceVars, wssVars, quicVars, scanVars, Safe, ScanInv,
              OfflineReleases, NoOrphanQUIC, ConnectionsBelong
<1>2. ASSUME NEW d \in Device, CloseDevice(d) PROVE Safe'
  <2>1. ScanInv'
    BY <1>2 DEF CloseDevice, MarkOffline, ScanInv
  <2> QED BY <1>2, <2>1, MarkOfflineSafe DEF CloseDevice, Safe
<1> QED BY <1>1, <1>2 DEF Close

LEMMA StutterSafe == ASSUME IInv, UNCHANGED vars PROVE Safe'
  BY DEF IInv, vars, deviceVars, wssVars, quicVars, scanVars, Safe, ScanInv,
         OfflineReleases, NoOrphanQUIC, ConnectionsBelong

LEMMA NextSafe == ASSUME IInv, [Next]_vars PROVE Safe'
<1>1. ASSUME NEW w \in WSS, WSSHandler(w) PROVE Safe'
  BY <1>1, WaitingWSSSafe, BeatingWSSSafe DEF WSSHandler
<1>2. ASSUME NEW q \in QUIC, QUICHandler(q) PROVE Safe'
  BY <1>2, AcceptQUICSafe, DropPendingSafe, RegisterQUICSafe DEF QUICHandler
<1> QED BY <1>1, <1>2, NetworkSafe, TickSafe, ScanSafe, CloseSafe, StutterSafe
        DEF Next

(* The inductive invariant.                                                *)
THEOREM Invariant == Spec => []IInv
<1>1. Init => IInv
  BY InitType, InitSafe DEF IInv, Safe
<1>2. IInv /\ [Next]_vars => IInv'
  <2>1. IInv /\ [Next]_vars => TypeOK'
    BY WSSType, QUICType, NetworkType, ScanType, CloseType, StutterType
       DEF Next, IInv
  <2> QED BY <2>1, NextSafe DEF IInv, Safe
<1> QED BY <1>1, <1>2, PTL DEF Spec

(* An offline device holds no connection, in every state of every run.     *)
THEOREM OfflineHoldsNothing == Spec => []OfflineReleases
<1>1. IInv => OfflineReleases
  BY DEF IInv
<1> QED BY <1>1, Invariant, PTL

(* No registered QUIC connection is left open without a device.            *)
THEOREM NoQUICLeak == Spec => []NoOrphanQUIC
<1>1. IInv => NoOrphanQUIC
  BY DEF IInv
<1> QED BY <1>1, Invariant, PTL

(* No device ever holds a QUIC connection that presented another device's  *)
(* id, whatever WSS connections its registrations and heartbeats come on   *)
(* (registry.go, RegisterQUICConnection and MarkOffline of device.go).     *)
THEOREM NoMixUp == Spec => []ConnectionsBelong
<1>1. IInv => ConnectionsBelong
  BY DEF IInv
<1> QED BY <1>1, Invariant, PTL

-----------------------------------------------------------------------------
(* What Close leaves behind.  A device that is not registered, and one     *)
(* Close has visited while it holds r.mu, has no connection: whatever      *)
(* would give it one waits for the lock.                                   *)
Released(d) == wssConn[d] = NoConn /\ quicConn[d] = NoConn

CloseInv ==
    /\ \A d \in Device \ devices : Released(d)
    /\ lock = "closer" => \A d \in devices \ todo : Released(d)

LEMMA HandlersKeepCloseInv ==
  ASSUME IInv, CloseInv,
         \/ \E w \in WSS : WSSHandler(w)
         \/ \E q \in QUIC : QUICHandler(q)
         \/ Network \/ Tick
  PROVE  CloseInv'
<1> USE DEF CloseInv, Released
<1>1. ASSUME NEW w \in WSS, RegisterWithWSS(w) PROVE CloseInv'
  BY <1>1 DEF RegisterWithWSS, IInv, TypeOK
<1>2. ASSUME NEW w \in WSS,
             \/ AcceptWSS(w) \/ UpdateHeartbeat(w)
             \/ \E d \in Device : ReadRegister(w, d) \/ LookupForHeartbeat(w, d)
      PROVE  CloseInv'
  BY <1>2 DEF AcceptWSS, LookupForHeartbeat, UpdateHeartbeat, ReadRegister,
              deviceVars, scanVars
<1>3. ASSUME NEW q \in QUIC, RegisterQUICConnection(q) PROVE CloseInv'
  BY <1>3 DEF RegisterQUICConnection, IInv, TypeOK
<1>4. ASSUME NEW q \in QUIC,
             FailRegistration(q) \/ RejectUnknownDevice(q)
               \/ \E d \in Device : AcceptQUIC(q, d)
      PROVE  CloseInv'
  BY <1>4 DEF FailRegistration, RejectUnknownDevice, AcceptQUIC, deviceVars, scanVars
<1>5. ASSUME Network \/ Tick PROVE CloseInv'
  BY <1>5 DEF Network, LoseWSS, LoseQUIC, Tick, deviceVars, scanVars
<1> QED BY <1>1, <1>2, <1>3, <1>4, <1>5 DEF WSSHandler, QUICHandler

LEMMA MarkOfflineReleases ==
  ASSUME TypeOK, NEW d \in Device, MarkOffline(d)
  PROVE  \A e \in Device : Released(e)' <=> (e = d \/ Released(e))
  BY DEF TypeOK, MarkOffline, Released

LEMMA LockHoldersKeepCloseInv ==
  ASSUME IInv, CloseInv, Scan \/ ExitChecker \/ Close
  PROVE  CloseInv'
<1>1. CASE StartScan \/ EndScan \/ ExitChecker \/ SignalStop \/ StartClose \/ EndClose
  BY <1>1 DEF StartScan, EndScan, ExitChecker, SignalStop, StartClose, EndClose,
              deviceVars, scanVars, CloseInv, Released
<1>2. ASSUME NEW d \in Device, PassDevice(d) \/ CondemnDevice(d) PROVE CloseInv'
  BY <1>2 DEF PassDevice, CondemnDevice, deviceVars, CloseInv, Released
<1>3. ASSUME NEW d \in Device, MarkCondemned(d) PROVE CloseInv'
  <2>1. lock = "checker" /\ MarkOffline(d) /\ UNCHANGED <<lock, devices>>
    BY <1>3 DEF MarkCondemned, IInv, ScanInv, TypeOK
  <2> QED BY <2>1, MarkOfflineReleases DEF CloseInv, IInv
<1>4. ASSUME NEW d \in Device, CloseDevice(d) PROVE CloseInv'
  <2>1. MarkOffline(d) /\ todo' = todo \ {d} /\ UNCHANGED <<lock, devices>>
    BY <1>4 DEF CloseDevice
  <2>2. devices \subseteq Device
    BY DEF IInv, TypeOK
  <2>3. \A e \in Device \ devices : Released(e)'
    BY <2>1, MarkOfflineReleases DEF CloseInv, IInv
  <2>4. lock' = "closer" => \A e \in devices \ todo' : Released(e)'
    BY <2>1, <2>2, MarkOfflineReleases DEF CloseInv, IInv
  <2> QED BY <2>1, <2>3, <2>4 DEF CloseInv
<1> QED BY <1>1, <1>2, <1>3, <1>4 DEF Scan, Close

(* Whatever registers while the registry is being closed, no device holds  *)
(* a connection at the moment Close gives r.mu back (registry.go, Close).  *)
THEOREM CloseLeavesNothing == Spec => CloseReleasesAll
<1>1. Init => CloseInv
  BY DEF Init, CloseInv, Released
<1>2. IInv /\ CloseInv /\ [Next]_vars => CloseInv'
  <2>1. IInv /\ CloseInv /\ UNCHANGED vars => CloseInv'
    BY DEF vars, deviceVars, scanVars, CloseInv, Released
  <2> QED BY <2>1, HandlersKeepCloseInv, LockHoldersKeepCloseInv DEF Next
<1>3. IInv /\ CloseInv /\ [Next]_vars =>
        [closing # "done" /\ closing' = "done" =>
            \A d \in Device : wssConn'[d] = NoConn /\ quicConn'[d] = NoConn]_vars
  <2> SUFFICES ASSUME IInv, CloseInv, [Next]_vars, closing # "done", closing' = "done"
               PROVE  \A d \in Device : wssConn'[d] = NoConn /\ quicConn'[d] = NoConn
    OBVIOUS
  <2>1. EndClose
    BY DEF Next, vars, WSSHandler, AcceptWSS, ReadRegister, RegisterWithWSS,
           LookupForHeartbeat, UpdateHeartbeat, QUICHandler, AcceptQUIC, FailRegistration,
           RejectUnknownDevice, RegisterQUICConnection, Network, LoseWSS,
           LoseQUIC, Tick, Scan, StartScan, PassDevice, CondemnDevice,
           MarkCondemned, EndScan, ExitChecker, Close, SignalStop, StartClose,
           CloseDevice
  <2> QED BY <2>1 DEF EndClose, deviceVars, CloseInv, Released
<1> QED BY <1>1, <1>2, <1>3, Invariant, PTL DEF Spec, CloseReleasesAll

-----------------------------------------------------------------------------
(* The refinement.  PhaseFun is the abstract phase; a step of the registry *)
(* is matched by a Presence step that changes it the same way.             *)
PhaseFun == [d \in Device |-> PhaseOf(d)]

(* Steps that touch neither the lease nor the verdict leave it alone.      *)
LEMMA SamePhase ==
  ASSUME UNCHANGED <<devices, status, condemned, age>>
  PROVE  PhaseFun' = PhaseFun
  BY DEF PhaseFun, PhaseOf

LEMMA OtherPhase ==
  ASSUME NEW d \in Device, NEW e \in Device,
         e \in devices <=> e \in devices',
         status'[e] = status[e], age'[e] = age[e],
         condemned = e <=> condemned' = e
  PROVE  PhaseOf(e)' = PhaseOf(e)
  BY DEF PhaseOf

(* A heartbeat or a registration is a renewal, or is lost on a condemned   *)
(* device.                                                                 *)
LEMMA BeatRenews ==
  ASSUME IInv, TypeOK', NEW d \in Device, Beat(d),
         devices' = devices \cup {d}, UNCHANGED <<condemned, closing>>
  PROVE  Presence!Renew(d) \/ UNCHANGED <<PhaseFun, closing # "no">>
<1> USE DEF IInv
<1>1. \A e \in Device \ {d} : PhaseOf(e)' = PhaseOf(e)
  BY DEF Beat, PhaseOf, TypeOK
<1>2. CASE condemned = d
  <2>1. PhaseOf(d)' = PhaseOf(d)
    BY <1>2, DeviceAssumption DEF ScanInv, PhaseOf, TypeOK
  <2> QED BY <1>1, <2>1 DEF PhaseFun
<1>3. CASE condemned # d
  <2>1. PhaseOf(d)' = "live"
    BY <1>3, TimeoutAssumption DEF Beat, PhaseOf, TypeOK
  <2>2. PhaseOf(d) # "condemned"
    BY <1>3 DEF PhaseOf, TypeOK
  <2>3. PhaseFun' = [PhaseFun EXCEPT ![d] = "live"]
    BY <1>1, <2>1 DEF PhaseFun
  <2> QED BY <2>2, <2>3 DEF Presence!Renew, PhaseFun
<1> QED BY <1>2, <1>3

(* Taking a device down is one abstract step or none.                      *)
LEMMA MarkOfflinePhase ==
  ASSUME IInv, NEW d \in Device, MarkOffline(d), UNCHANGED <<devices, age>>,
         d \in devices, condemned' = NoDevice, condemned \in {d, NoDevice}
  PROVE  PhaseFun' = [PhaseFun EXCEPT ![d] = "down"]
<1>1. \A e \in Device \ {d} : PhaseOf(e)' = PhaseOf(e)
  BY DeviceAssumption DEF IInv, TypeOK, MarkOffline, PhaseOf
<1>2. PhaseOf(d)' = "down"
  BY DeviceAssumption DEF IInv, TypeOK, MarkOffline, PhaseOf
<1> QED BY <1>1, <1>2 DEF PhaseFun

(* A tick lets any number of leases run out.                               *)
LEMMA TickLapses ==
  ASSUME IInv, Tick
  PROVE  \E D \in SUBSET Device : Presence!Lapse(D)
<1> DEFINE D == {d \in Device : PhaseOf(d) = "live" /\ age[d] = Timeout}
<1>1. ASSUME NEW e \in Device
      PROVE  PhaseOf(e)' = IF e \in D THEN "lapsed" ELSE PhaseOf(e)
  <2>1. /\ age[e] \in Nat /\ age[e] =< Timeout + 1
        /\ status[e] \in {"Online", "Offline"}
    BY DEF IInv, TypeOK
  <2>2. age'[e] = IF e \in devices /\ age[e] =< Timeout THEN age[e] + 1 ELSE age[e]
    BY DEF Tick
  <2>3. UNCHANGED <<devices, status, condemned>>
    BY DEF Tick, scanVars
  <2>4. e \in D <=> /\ e \in devices /\ condemned # e /\ status[e] # "Offline"
                    /\ age[e] = Timeout
    BY <2>1 DEF PhaseOf
  <2> HIDE DEF D
  <2> QED BY <2>1, <2>2, <2>3, <2>4 DEF PhaseOf
<1>2. PhaseFun' = [d \in Device |-> IF d \in D THEN "lapsed" ELSE PhaseFun[d]]
  BY <1>1 DEF PhaseFun
<1>3. \A d \in D : PhaseFun[d] = "live"
  BY DEF PhaseFun
<1>4. UNCHANGED (closing # "no")
  BY DEF Tick
<1>5. Presence!Lapse(D)
  BY <1>2, <1>3, <1>4 DEF Presence!Lapse, PhaseFun
<1> QED BY <1>5

LEMMA ScanPhase ==
  ASSUME IInv, Scan
  PROVE  [Presence!Next]_(Presence!vars)
<1>1. CASE StartScan \/ EndScan \/ (\E d \in Device : PassDevice(d))
  BY <1>1, SamePhase DEF StartScan, EndScan, PassDevice, deviceVars,
     Presence!vars, PhaseFun
<1>2. ASSUME NEW d \in Device, CondemnDevice(d) PROVE Presence!Condemn(d)
  <2>1. \A e \in Device \ {d} : PhaseOf(e)' = PhaseOf(e)
    BY <1>2, DeviceAssumption DEF CondemnDevice, deviceVars, PhaseOf, IInv, TypeOK
  <2>2. PhaseOf(d) = "lapsed"
    BY <1>2, DeviceAssumption DEF CondemnDevice, PhaseOf, IInv, TypeOK, ScanInv
  <2>3. PhaseOf(d)' = "condemned"
    BY <1>2 DEF CondemnDevice, deviceVars, PhaseOf, IInv, TypeOK, ScanInv
  <2>4. PhaseFun' = [PhaseFun EXCEPT ![d] = "condemned"] /\ PhaseFun[d] = "lapsed"
    BY <2>1, <2>2, <2>3 DEF PhaseFun
  <2> QED BY <1>2, <2>4 DEF Presence!Condemn, PhaseFun, CondemnDevice
<1>3. ASSUME NEW d \in Device, MarkCondemned(d) PROVE Presence!Expire(d)
  <2>1. d \in devices
    BY <1>3, DeviceAssumption DEF MarkCondemned, IInv, ScanInv
  <2>2. PhaseFun' = [PhaseFun EXCEPT ![d] = "down"]
    BY <1>3, <2>1, MarkOfflinePhase DEF MarkCondemned
  <2>3. PhaseFun[d] = "condemned"
    BY <1>3, <2>1 DEF PhaseFun, PhaseOf, MarkCondemned
  <2> QED BY <1>3, <2>2, <2>3 DEF Presence!Expire, PhaseFun, MarkCondemned
<1> QED BY <1>1, <1>2, <1>3 DEF Scan, Presence!Next

LEMMA ClosePhase ==
  ASSUME IInv, Close \/ ExitChecker
  PROVE  [Presence!Next]_(Presence!vars)
<1>1. CASE ExitChecker \/ StartClose \/ EndClose
  <2>1. PhaseFun' = PhaseFun
    BY <1>1, SamePhase
       DEF ExitChecker, StartClose, EndClose, deviceVars, scanVars
  <2>2. (closing # "no")' = (closing # "no")
    BY <1>1 DEF ExitChecker, StartClose, EndClose, IInv, ScanInv
  <2> QED BY <2>1, <2>2 DEF Presence!vars, PhaseFun
<1>2. CASE SignalStop
  <2>1. PhaseFun' = PhaseFun
    BY <1>2, SamePhase DEF SignalStop, deviceVars, scanVars
  <2>2. (closing # "no")' = TRUE
    BY <1>2 DEF SignalStop
  <2> QED BY <2>1, <2>2 DEF Presence!Next, Presence!BeginShutdown, PhaseFun
<1>3. ASSUME NEW d \in Device, CloseDevice(d) PROVE Presence!TakeDown(d)
  <2>1. d \in devices /\ condemned = NoDevice /\ closing # "no"
    BY <1>3 DEF CloseDevice, IInv, ScanInv
  <2>2. PhaseFun' = [PhaseFun EXCEPT ![d] = "down"]
    BY <1>3, <2>1, MarkOfflinePhase DEF CloseDevice
  <2>3. PhaseFun[d] # "absent"
    BY <2>1 DEF PhaseFun, PhaseOf, IInv, TypeOK
  <2> QED BY <1>3, <2>1, <2>2, <2>3 DEF Presence!TakeDown, PhaseFun, CloseDevice
<1> QED BY <1>1, <1>2, <1>3 DEF Close, Presence!Next

LEMMA WSSPhase ==
  ASSUME IInv, IInv', NEW w \in WSS, WSSHandler(w)
  PROVE  [Presence!Next]_(Presence!vars)
<1>1. ASSUME RegisterWithWSS(w) \/ UpdateHeartbeat(w)
      PROVE  /\ reqId[w] \in Device
             /\ Presence!Renew(reqId[w]) \/ UNCHANGED <<PhaseFun, closing # "no">>
  <2>1. reqId[w] \in Device /\ devices' = devices \cup {reqId[w]}
    BY <1>1 DEF RegisterWithWSS, UpdateHeartbeat, IInv, TypeOK
  <2>2. Beat(reqId[w]) /\ UNCHANGED <<condemned, closing>>
    BY <1>1 DEF RegisterWithWSS, UpdateHeartbeat
  <2> QED BY <2>1, <2>2, BeatRenews DEF IInv
<1>2. CASE \/ AcceptWSS(w)
           \/ \E d \in Device : ReadRegister(w, d) \/ LookupForHeartbeat(w, d)
  BY <1>2, SamePhase DEF AcceptWSS, LookupForHeartbeat, ReadRegister, deviceVars,
     scanVars, Presence!vars, PhaseFun
<1> QED BY <1>1, <1>2 DEF WSSHandler, Presence!Next, Presence!vars, PhaseFun

LEMMA QUICPhase ==
  ASSUME IInv, IInv', NEW q \in QUIC, QUICHandler(q)
  PROVE  [Presence!Next]_(Presence!vars)
<1>1. CASE \/ \E d \in Device : AcceptQUIC(q, d)
           \/ FailRegistration(q) \/ RejectUnknownDevice(q)
  BY <1>1, SamePhase DEF AcceptQUIC, FailRegistration, RejectUnknownDevice,
     deviceVars, scanVars, Presence!vars, PhaseFun
<1>2. ASSUME RegisterQUICConnection(q)
      PROVE  /\ quicPeer[q] \in Device
             /\ Presence!Renew(quicPeer[q]) \/ UNCHANGED <<PhaseFun, closing # "no">>
  <2>1. quicPeer[q] \in devices /\ quicPeer[q] \in Device
    BY <1>2 DEF RegisterQUICConnection, IInv, TypeOK
  <2>2. devices' = devices \cup {quicPeer[q]}
    BY <1>2, <2>1 DEF RegisterQUICConnection
  <2> QED BY <1>2, <2>1, <2>2, BeatRenews DEF RegisterQUICConnection, IInv
<1> QED BY <1>1, <1>2 DEF QUICHandler, Presence!Next, Presence!vars, PhaseFun

LEMMA NetworkPhase ==
  ASSUME Network \/ UNCHANGED vars
  PROVE  UNCHANGED Presence!vars
  BY SamePhase DEF Network, LoseWSS, LoseQUIC, vars, deviceVars, scanVars,
     Presence!vars, PhaseFun

(* The registry implements the lease.                                      *)
THEOREM Refinement == Spec => ImplementsPresence
<1>1. Init => Presence!Init
  BY DEF Init, Presence!Init, PhaseOf
<1>2. IInv /\ IInv' /\ [Next]_vars => [Presence!Next]_(Presence!vars)
  <2>1. ASSUME IInv, Tick PROVE Presence!Next
    BY <2>1, TickLapses DEF Presence!Next
  <2> QED BY <2>1, WSSPhase, QUICPhase, NetworkPhase, ScanPhase, ClosePhase DEF Next
<1> QED BY <1>1, <1>2, Invariant, PTL DEF Spec, ImplementsPresence, Presence!Spec

=============================================================================
