--------------------------- MODULE DeviceRegistry ---------------------------
(***************************************************************************)
(* The device registry of the POP server: internal/device/registry.go and  *)
(* device.go, driven by the goroutines that share it - one per WSS control *)
(* connection (wss/handler.go), one per accepted QUIC connection           *)
(* (quic/server.go), the heartbeat checker, and Close.                     *)
(*                                                                         *)
(* Atomicity follows the locks.  r.mu (here `lock') is held for writing by *)
(* a registration, by a whole scan of the checker and by Close; d.mu makes *)
(* each operation on one device atomic.  UpdateHeartbeat looks the device  *)
(* up under r.mu, releases it and then changes the device under d.mu only, *)
(* so it is two steps here and the second one can fall inside a scan.      *)
(* A registration changes fields no other goroutine changes before the     *)
(* lock is released, except for a heartbeat that writes the same values:   *)
(* it is one step.                                                         *)
(*                                                                         *)
(* Abstractions.  time.Since(LastHeartbeat) is counted in ticks and        *)
(* saturates one tick past the timeout.  A connection handle is a model    *)
(* value that stands for a new connection each time it is accepted.        *)
(* Metadata, metrics and the stream table of a device are left out.        *)
(***************************************************************************)
EXTENDS Naturals, FiniteSets

CONSTANTS
    Device,     \* device ids
    WSS,        \* WSS control connections
    QUIC,       \* QUIC data connections
    Timeout,    \* heartbeatTimeout, in ticks
    NoConn,     \* a nil connection
    NoDevice    \* no device

ASSUME TimeoutAssumption == Timeout \in Nat
ASSUME ConnAssumption == NoConn \notin WSS \cup QUIC
ASSUME DeviceAssumption == NoDevice \notin Device

VARIABLES
    devices,    \* the keys of r.devices
    status,     \* Device.Status
    wssConn,    \* Device.WSSConn
    quicConn,   \* Device.QUICConn
    age,        \* ticks since Device.LastHeartbeat
    wssOpen,    \* the WSS connections that are open
    task,       \* what the handler of a WSS connection is doing
    reqId,      \* the device id in the message it is handling
    quicOpen,   \* the QUIC connections that are open
    quicPeer,   \* the device id a QUIC connection presents
    quicPhase,  \* where the handler of a QUIC connection is
    lock,       \* the goroutine that holds r.mu for writing across steps
    todo,       \* devices the holder of the lock has still to visit
    stale,      \* devices whose LastHeartbeat is too old for the `now' of the scan
    condemned,  \* the device the scan found stale and is about to mark
    closing,    \* progress of Close
    checker     \* the heartbeat checker goroutine

deviceVars == <<devices, status, wssConn, quicConn, age>>
wssVars    == <<wssOpen, task, reqId>>
quicVars   == <<quicOpen, quicPeer, quicPhase>>
scanVars   == <<lock, todo, stale, condemned>>
vars == <<deviceVars, wssVars, quicVars, scanVars, closing, checker>>

(* The last conjunct: UpdateHeartbeat goes on only with a device the lookup *)
(* found, so it never works on a nil *Device.                              *)
TypeOK ==
    /\ devices \in SUBSET Device
    /\ status \in [Device -> {"Online", "Offline"}]
    /\ wssConn \in [Device -> WSS \cup {NoConn}]
    /\ quicConn \in [Device -> QUIC \cup {NoConn}]
    /\ age \in [Device -> 0 .. Timeout + 1]
    /\ wssOpen \in SUBSET WSS
    /\ task \in [WSS -> {"idle", "register", "beat"}]
    /\ reqId \in [WSS -> Device \cup {NoDevice}]
    /\ \A w \in WSS : task[w] = "idle" <=> reqId[w] = NoDevice
    /\ \A w \in WSS : task[w] = "beat" => reqId[w] \in devices
    /\ quicOpen \in SUBSET QUIC
    /\ quicPeer \in [QUIC -> Device \cup {NoDevice}]
    /\ quicPhase \in [QUIC -> {"idle", "pending", "registered"}]
    /\ lock \in {"free", "checker", "closer"}
    /\ todo \in SUBSET Device
    /\ stale \in SUBSET Device
    /\ condemned \in Device \cup {NoDevice}
    /\ closing \in {"no", "signalled", "marking", "done"}
    /\ checker \in {"running", "exited"}

Init ==
    /\ devices = {}
    /\ status = [d \in Device |-> "Offline"]
    /\ wssConn = [d \in Device |-> NoConn]
    /\ quicConn = [d \in Device |-> NoConn]
    /\ age = [d \in Device |-> 0]
    /\ wssOpen = {}
    /\ task = [w \in WSS |-> "idle"]
    /\ reqId = [w \in WSS |-> NoDevice]
    /\ quicOpen = {}
    /\ quicPeer = [q \in QUIC |-> NoDevice]
    /\ quicPhase = [q \in QUIC |-> "idle"]
    /\ lock = "free"
    /\ todo = {}
    /\ stale = {}
    /\ condemned = NoDevice
    /\ closing = "no"
    /\ checker = "running"

-----------------------------------------------------------------------------
(* Device operations *)

(* Device.UpdateHeartbeat: revives the device whatever its connections are. *)
(* LastHeartbeat is now later than the `now' of a scan in progress.         *)
Beat(d) ==
    /\ age' = [age EXCEPT ![d] = 0]
    /\ status' = [status EXCEPT ![d] = "Online"]
    /\ stale' = stale \ {d}

(* Mutant of MarkOffline: the QUIC connection is closed and not forgotten. *)
MarkOfflineKeepsQUIC(d) ==
    /\ status' = [status EXCEPT ![d] = "Offline"]
    /\ wssOpen' = wssOpen \ {wssConn[d]}
    /\ wssConn' = [wssConn EXCEPT ![d] = NoConn]
    /\ quicOpen' = quicOpen \ {quicConn[d]}
    /\ UNCHANGED quicConn

(* Device.MarkOffline: close and forget both connections. *)
MarkOffline(d) ==
    /\ status' = [status EXCEPT ![d] = "Offline"]
    /\ wssOpen' = wssOpen \ {wssConn[d]}
    /\ wssConn' = [wssConn EXCEPT ![d] = NoConn]
    /\ quicOpen' = quicOpen \ {quicConn[d]}
    /\ quicConn' = [quicConn EXCEPT ![d] = NoConn]

-----------------------------------------------------------------------------
(* WSS control connections *)

(* The handle w can stand for a new connection: the old one is gone.       *)
UnusedWSS(w) ==
    /\ w \notin wssOpen
    /\ task[w] = "idle"
    /\ \A d \in Device : wssConn[d] # w

AcceptWSS(w) ==
    /\ UnusedWSS(w)
    /\ wssOpen' = wssOpen \cup {w}
    /\ UNCHANGED <<deviceVars, task, reqId, quicVars, scanVars, closing, checker>>

(* HandleConnection reads a registration, as any of its messages for       *)
(* whatever device id the message names.                                   *)
ReadRegister(w, d) ==
    /\ w \in wssOpen
    /\ task[w] = "idle"
    /\ task' = [task EXCEPT ![w] = "register"]
    /\ reqId' = [reqId EXCEPT ![w] = d]
    /\ UNCHANGED <<deviceVars, wssOpen, quicVars, scanVars, closing, checker>>

(* The handler goes back to reading. *)
Done(w) ==
    /\ task' = [task EXCEPT ![w] = "idle"]
    /\ reqId' = [reqId EXCEPT ![w] = NoDevice]

(* handleRegister: the device is created if need be and is given this      *)
(* connection.  The connection it had before is replaced and not closed;   *)
(* this one may have been closed since the message was read, and it may be *)
(* the connection of other devices too.                                    *)
RegisterWithWSS(w) ==
    /\ lock = "free"
    /\ task[w] = "register"
    /\ devices' = devices \cup {reqId[w]}
    /\ wssConn' = [wssConn EXCEPT ![reqId[w]] = w]
    /\ Beat(reqId[w])
    /\ Done(w)
    /\ UNCHANGED <<quicConn, wssOpen, quicVars, lock, todo, condemned,
                   closing, checker>>

(* Mutant of LookupForHeartbeat: `exists' is not looked at. *)
LookupUnchecked(w, d) ==
    /\ lock = "free"
    /\ w \in wssOpen
    /\ task[w] = "idle"
    /\ task' = [task EXCEPT ![w] = "beat"]
    /\ reqId' = [reqId EXCEPT ![w] = d]
    /\ UNCHANGED <<deviceVars, wssOpen, quicVars, scanVars, closing, checker>>

(* HandleConnection reads a heartbeat, and Registry.UpdateHeartbeat finds  *)
(* the device under r.mu and releases r.mu.  An unknown device is answered *)
(* with an error and changes nothing.  The read and the lookup are one     *)
(* step: devices are never deleted, so a device found after a wait for the *)
(* lock is found before it.  The one thing this leaves out is a heartbeat  *)
(* whose device another connection registers while this one is lost.       *)
LookupForHeartbeat(w, d) ==
    /\ lock = "free"
    /\ w \in wssOpen
    /\ task[w] = "idle"
    /\ d \in devices
    /\ task' = [task EXCEPT ![w] = "beat"]
    /\ reqId' = [reqId EXCEPT ![w] = d]
    /\ UNCHANGED <<deviceVars, wssOpen, quicVars, scanVars, closing, checker>>

(* ... and then updates it under d.mu.  The connection the heartbeat came  *)
(* on may be closed by now, and r.mu may be held by a scan.                *)
UpdateHeartbeat(w) ==
    /\ task[w] = "beat"
    /\ Beat(reqId[w])
    /\ Done(w)
    /\ UNCHANGED <<devices, wssConn, quicConn, wssOpen, quicVars, lock, todo,
                   condemned, closing, checker>>

(* The peer closes the connection or the network breaks it.  The server's  *)
(* handler returns and the registry is not told.                           *)
LoseWSS(w) ==
    /\ w \in wssOpen
    /\ wssOpen' = wssOpen \ {w}
    /\ UNCHANGED <<deviceVars, task, reqId, quicVars, scanVars, closing, checker>>

-----------------------------------------------------------------------------
(* QUIC data connections *)

UnusedQUIC(q) ==
    /\ q \notin quicOpen
    /\ quicPhase[q] # "pending"
    /\ \A d \in Device : quicConn[d] # q

(* acceptLoop starts handleConnection, which reads a device id. *)
AcceptQUIC(q, d) ==
    /\ UnusedQUIC(q)
    /\ quicOpen' = quicOpen \cup {q}
    /\ quicPeer' = [quicPeer EXCEPT ![q] = d]
    /\ quicPhase' = [quicPhase EXCEPT ![q] = "pending"]
    /\ UNCHANGED <<deviceVars, wssVars, scanVars, closing, checker>>

(* No registration stream or no device id within the deadline. *)
FailRegistration(q) ==
    /\ quicPhase[q] = "pending"
    /\ quicOpen' = quicOpen \ {q}
    /\ quicPhase' = [quicPhase EXCEPT ![q] = "idle"]
    /\ quicPeer' = [quicPeer EXCEPT ![q] = NoDevice]
    /\ UNCHANGED <<deviceVars, wssVars, scanVars, closing, checker>>

RejectUnknownDevice(q) ==
    /\ lock = "free"
    /\ quicPhase[q] = "pending"
    /\ quicPeer[q] \notin devices
    /\ quicOpen' = quicOpen \ {q}
    /\ quicPhase' = [quicPhase EXCEPT ![q] = "idle"]
    /\ quicPeer' = [quicPeer EXCEPT ![q] = NoDevice]
    /\ UNCHANGED <<deviceVars, wssVars, scanVars, closing, checker>>

(* Mutants of RegisterQUICConnection: the old connection is left open; the *)
(* connection is given to whatever device is registered.                   *)
RegisterQUICKeepsOld(q) ==
    /\ lock = "free"
    /\ quicPhase[q] = "pending"
    /\ quicPeer[q] \in devices
    /\ quicConn' = [quicConn EXCEPT ![quicPeer[q]] = q]
    /\ quicPhase' = [quicPhase EXCEPT ![q] = "registered"]
    /\ Beat(quicPeer[q])
    /\ UNCHANGED <<devices, wssConn, wssVars, quicOpen, quicPeer, lock, todo,
                   condemned, closing, checker>>

RegisterQUICAnyDevice(q) ==
    /\ lock = "free"
    /\ quicPhase[q] = "pending"
    /\ \E d \in devices :
          /\ quicOpen' = quicOpen \ {quicConn[d]}
          /\ quicConn' = [quicConn EXCEPT ![d] = q]
          /\ Beat(d)
    /\ quicPhase' = [quicPhase EXCEPT ![q] = "registered"]
    /\ UNCHANGED <<devices, wssConn, wssVars, quicPeer, lock, todo, condemned,
                   closing, checker>>

(* The old QUIC connection of the device is closed and replaced.  The new  *)
(* one may itself have been lost since the id was read.                    *)
RegisterQUICConnection(q) ==
    /\ lock = "free"
    /\ quicPhase[q] = "pending"
    /\ quicPeer[q] \in devices
    /\ quicOpen' = quicOpen \ {quicConn[quicPeer[q]]}
    /\ quicConn' = [quicConn EXCEPT ![quicPeer[q]] = q]
    /\ quicPhase' = [quicPhase EXCEPT ![q] = "registered"]
    /\ Beat(quicPeer[q])
    /\ UNCHANGED <<devices, wssConn, wssVars, quicPeer, lock, todo, condemned,
                   closing, checker>>

LoseQUIC(q) ==
    /\ q \in quicOpen
    /\ quicOpen' = quicOpen \ {q}
    /\ UNCHANGED <<deviceVars, wssVars, quicPeer, quicPhase, scanVars,
                   closing, checker>>

-----------------------------------------------------------------------------
(* The heartbeat checker *)

Tick ==
    /\ age' = [d \in Device |->
                 IF d \in devices /\ age[d] =< Timeout THEN age[d] + 1 ELSE age[d]]
    /\ UNCHANGED <<devices, status, wssConn, quicConn, wssVars, quicVars,
                   scanVars, closing, checker>>

(* Mutants of StartScan: a heartbeat exactly as old as the timeout counts  *)
(* as too old; devices that are not fully connected are passed over.       *)
StartScanEarly ==
    /\ checker = "running"
    /\ lock = "free"
    /\ lock' = "checker"
    /\ todo' = devices
    /\ stale' = {d \in devices : age[d] >= Timeout}
    /\ UNCHANGED <<deviceVars, wssVars, quicVars, condemned, closing, checker>>

StartScanConnected ==
    /\ checker = "running"
    /\ lock = "free"
    /\ lock' = "checker"
    /\ todo' = {d \in devices : wssConn[d] # NoConn /\ quicConn[d] # NoConn}
    /\ stale' = {d \in devices : age[d] > Timeout}
    /\ UNCHANGED <<deviceVars, wssVars, quicVars, condemned, closing, checker>>

(* The ticker fires: take r.mu and read the clock once for the whole scan. *)
StartScan ==
    /\ checker = "running"
    /\ lock = "free"
    /\ lock' = "checker"
    /\ todo' = devices
    /\ stale' = {d \in devices : age[d] > Timeout}
    /\ UNCHANGED <<deviceVars, wssVars, quicVars, condemned, closing, checker>>

(* Status and LastHeartbeat are read without d.mu ... *)
PassDevice(d) ==
    /\ lock = "checker"
    /\ condemned = NoDevice
    /\ d \in todo
    /\ status[d] = "Offline" \/ d \notin stale
    /\ todo' = todo \ {d}
    /\ UNCHANGED <<deviceVars, wssVars, quicVars, lock, stale, condemned,
                   closing, checker>>

CondemnDevice(d) ==
    /\ lock = "checker"
    /\ condemned = NoDevice
    /\ d \in todo
    /\ status[d] = "Online" /\ d \in stale
    /\ condemned' = d
    /\ UNCHANGED <<deviceVars, wssVars, quicVars, lock, todo, stale,
                   closing, checker>>

(* ... and the device is marked in a separate critical section of d.mu.    *)
MarkCondemned(d) ==
    /\ condemned = d
    /\ MarkOffline(d)
    /\ condemned' = NoDevice
    /\ todo' = todo \ {d}
    /\ UNCHANGED <<devices, age, task, reqId, quicPeer, quicPhase,
                   lock, stale, closing, checker>>

(* Mutant of EndScan: a path out of the scan that does not unlock r.mu. *)
EndScanLocked ==
    /\ lock = "checker"
    /\ condemned = NoDevice
    /\ todo = {}
    /\ stale' = {}
    /\ UNCHANGED <<deviceVars, wssVars, quicVars, lock, todo, condemned,
                   closing, checker>>

EndScan ==
    /\ lock = "checker"
    /\ condemned = NoDevice
    /\ todo = {}
    /\ lock' = "free"
    /\ stale' = {}
    /\ UNCHANGED <<deviceVars, wssVars, quicVars, todo, condemned,
                   closing, checker>>

-----------------------------------------------------------------------------
(* Close *)

SignalStop ==
    /\ closing = "no"
    /\ closing' = "signalled"
    /\ UNCHANGED <<deviceVars, wssVars, quicVars, scanVars, checker>>

(* stopChan is closed: the checker leaves its loop, between scans. *)
ExitChecker ==
    /\ checker = "running"
    /\ closing # "no"
    /\ lock # "checker"
    /\ checker' = "exited"
    /\ UNCHANGED <<deviceVars, wssVars, quicVars, scanVars, closing>>

StartClose ==
    /\ closing = "signalled"
    /\ lock = "free"
    /\ lock' = "closer"
    /\ todo' = devices
    /\ closing' = "marking"
    /\ UNCHANGED <<deviceVars, wssVars, quicVars, stale, condemned, checker>>

CloseDevice(d) ==
    /\ lock = "closer"
    /\ d \in todo
    /\ MarkOffline(d)
    /\ todo' = todo \ {d}
    /\ UNCHANGED <<devices, age, task, reqId, quicPeer, quicPhase,
                   lock, stale, condemned, closing, checker>>

(* Mutant of EndClose: a path out of Close before the last device. *)
EndCloseEarly ==
    /\ lock = "closer"
    /\ lock' = "free"
    /\ closing' = "done"
    /\ UNCHANGED <<deviceVars, wssVars, quicVars, todo, stale, condemned, checker>>

EndClose ==
    /\ lock = "closer"
    /\ todo = {}
    /\ lock' = "free"
    /\ closing' = "done"
    /\ UNCHANGED <<deviceVars, wssVars, quicVars, todo, stale, condemned, checker>>

-----------------------------------------------------------------------------
WSSHandler(w) ==
    \/ AcceptWSS(w)
    \/ \E d \in Device : ReadRegister(w, d) \/ LookupForHeartbeat(w, d)
    \/ RegisterWithWSS(w)
    \/ UpdateHeartbeat(w)

QUICHandler(q) ==
    \/ \E d \in Device : AcceptQUIC(q, d)
    \/ FailRegistration(q)
    \/ RejectUnknownDevice(q)
    \/ RegisterQUICConnection(q)

Network ==
    \/ \E w \in WSS : LoseWSS(w)
    \/ \E q \in QUIC : LoseQUIC(q)

Scan ==
    \/ StartScan
    \/ \E d \in Device : PassDevice(d) \/ CondemnDevice(d) \/ MarkCondemned(d)
    \/ EndScan

Close ==
    \/ SignalStop
    \/ StartClose
    \/ \E d \in Device : CloseDevice(d)
    \/ EndClose

Next ==
    \/ \E w \in WSS : WSSHandler(w)
    \/ \E q \in QUIC : QUICHandler(q)
    \/ Network
    \/ Tick
    \/ Scan
    \/ ExitChecker
    \/ Close

Spec == Init /\ [][Next]_vars

-----------------------------------------------------------------------------
(* Properties *)

(* A device that is offline holds no connection: both were closed and      *)
(* forgotten when it was marked, and nothing puts one back without putting *)
(* it online (MarkOffline, SetWSSConn, SetQUICConn).                       *)
OfflineReleases ==
    \A d \in Device :
        status[d] = "Offline" => wssConn[d] = NoConn /\ quicConn[d] = NoConn

(* No QUIC connection leaks: one that was registered and is still open is  *)
(* the current connection of a device, whatever registrations, scans and   *)
(* Close did since (RegisterQUICConnection and MarkOffline close the one   *)
(* they replace).                                                          *)
NoOrphanQUIC ==
    \A q \in quicOpen :
        quicPhase[q] = "registered" => \E d \in Device : quicConn[d] = q

(* The QUIC connection a device holds presented the id of that device and  *)
(* was registered, and the device is known: traffic sent to a device never *)
(* goes to another one, whatever replacements, refusals and scans came     *)
(* between the reading of the id and the registration.  Nothing of the     *)
(* kind holds of WSS connections: one may register any number of ids.      *)
ConnectionsBelong ==
    \A d \in Device :
        quicConn[d] # NoConn =>
            /\ quicPeer[quicConn[d]] = d
            /\ quicPhase[quicConn[d]] = "registered"
            /\ d \in devices

(* When Registry.Close is through no device holds a connection, though     *)
(* devices registered and beat until it took the lock, and a heartbeat     *)
(* that was under way may have put a device back online.                   *)
CloseReleasesAll ==
    [][closing # "done" /\ closing' = "done" =>
          \A d \in Device : wssConn'[d] = NoConn /\ quicConn'[d] = NoConn]_vars

(* Where each device is in its lease, as DevicePresence sees it.           *)
PhaseOf(d) ==
    IF d \notin devices THEN "absent"
    ELSE IF condemned = d THEN "condemned"
    ELSE IF status[d] = "Offline" THEN "down"
    ELSE IF age[d] > Timeout THEN "lapsed"
    ELSE "live"

Presence == INSTANCE DevicePresence
    WITH phase <- [d \in Device |-> PhaseOf(d)], shutdown <- closing # "no"

(* The registry implements the lease: whatever the interleaving, a device  *)
(* is taken down only after the checker saw its lease lapsed, or by Close; *)
(* and the only heartbeat that is lost is one that lands between the read  *)
(* of LastHeartbeat and MarkOffline in checkHeartbeatTimeout.              *)
ImplementsPresence == Presence!Spec

=============================================================================
