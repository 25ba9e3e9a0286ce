------------------------ MODULE ServerLifecycleProofs ------------------------
(***************************************************************************)
(* Proofs about ServerLifecycle: the registry inside the process is the    *)
(* registry of DeviceRegistry, so what is proved of that one holds here;   *)
(* and the process ends only for the reasons ExitExplained gives.          *)
(***************************************************************************)
EXTENDS ServerLifecycle, DeviceRegistryProofs

-----------------------------------------------------------------------------
(* The registry inside the process *)

(* Whatever else a step of the process does, its registry takes a step of  *)
(* its own or none.                                                        *)
LEMMA StepOfRegistry == [LifecycleNext]_lifecycleVars => [Next]_vars
<1>1. ASSUME Main PROVE [Next]_vars
  BY <1>1 DEF Main, Initialize, StartInbound, Notify, StopInbound, Step,
              LaunchServers, AwaitSignal, StopWSS, StopQUIC, StopRegistry,
              Return, Next
<1>2. ASSUME StartWSS \/ (\E ok \in BOOLEAN : ListenQUIC(ok)) \/ Signal
      PROVE  [Next]_vars
  BY <1>2 DEF StartWSS, SetHTTPServer, ListenWSS, ServeReturns, ListenQUIC, Signal
<1>3. ASSUME RegistryStep PROVE [Next]_vars
  BY <1>3 DEF RegistryStep, HandleWSS, HandleQUIC, Check, Next
<1>4. UNCHANGED lifecycleVars => UNCHANGED vars
  BY DEF lifecycleVars
<1> QED BY <1>1, <1>2, <1>3, <1>4 DEF LifecycleNext

(* The process runs the registry of DeviceRegistry.                        *)
THEOREM RegistryInside == LifecycleSpec => Spec
<1>1. LifecycleInit => Init
  BY DEF LifecycleInit
<1> QED BY <1>1, StepOfRegistry, PTL DEF LifecycleSpec, Spec

(* Close of the registry releases every connection also when Stop calls it *)
(* while the servers still run (server.go, Stop).                          *)
THEOREM StopReleasesAll == LifecycleSpec => CloseReleasesAll
  BY RegistryInside, CloseLeavesNothing

-----------------------------------------------------------------------------
(* How the process ends *)

Stopping == {"inbound", "wss", "quic", "registry", "plugins", "over"}

(* What main has established at each step of Stop.  ListenAndServe cannot  *)
(* return for good before Stop has come to the WSS server, and Close of    *)
(* the registry is begun and ended by main.                                *)
ProcessInv ==
    /\ LifecycleTypeOK
    /\ main \in {"initializing", "starting", "launching"} => wssStart = "none"
    /\ main \in Stopping => signalled
    /\ httpServer = "shut" => signalled
    /\ broken => exit = "failed"
    /\ main \in {"plugins", "over"} => closing = "done"
    /\ ExitExplained

LEMMA LifecycleInitInv == LifecycleInit => ProcessInv
  BY InitType DEF LifecycleInit, ProcessInv, LifecycleTypeOK, Stopping, ExitExplained

(* Nothing but Close, which main runs, changes the progress of Close.      *)
LEMMA ClosingIsMains ==
  ASSUME RegistryStep PROVE closing' = closing
  BY DEF RegistryStep, HandleWSS, HandleQUIC, Check, WSSHandler, AcceptWSS,
         ReadRegister, RegisterWithWSS, LookupForHeartbeat, UpdateHeartbeat, QUICHandler, AcceptQUIC,
         FailRegistration, RejectUnknownDevice, RegisterQUICConnection, Network,
         LoseWSS, LoseQUIC, Tick, Scan, StartScan, PassDevice, CondemnDevice,
         MarkCondemned, EndScan, ExitChecker

LEMMA TypeKept == TypeOK /\ [Next]_vars => TypeOK'
  BY WSSType, QUICType, NetworkType, ScanType, CloseType, StutterType DEF Next

LEMMA MainKeepsInv == ASSUME ProcessInv, exit = "running", TypeOK', Main PROVE ProcessInv'
<1> USE DEF ProcessInv, LifecycleTypeOK, Stopping, ExitExplained
<1>1. ASSUME NEW ok \in BOOLEAN, Initialize(ok) \/ StartInbound(ok) PROVE ProcessInv'
  BY <1>1 DEF Initialize, StartInbound, Step, Fatal, vars
<1>2. CASE LaunchServers \/ Notify \/ AwaitSignal \/ StopInbound
  BY <1>2 DEF LaunchServers, Notify, AwaitSignal, StopInbound, Step, Fatal, vars
<1>3. CASE StopWSS
  BY <1>3 DEF StopWSS, vars
<1>4. CASE StopQUIC
  BY <1>4 DEF StopQUIC, vars
<1>5. CASE StopRegistry
  BY <1>5 DEF StopRegistry
<1>6. CASE Return
  BY <1>6 DEF Return, vars
<1> QED BY <1>1, <1>2, <1>3, <1>4, <1>5, <1>6 DEF Main

LEMMA ServersKeepInv ==
  ASSUME ProcessInv, exit = "running", TypeOK',
         StartWSS \/ (\E ok \in BOOLEAN : ListenQUIC(ok)) \/ Signal
  PROVE  ProcessInv'
<1> USE DEF ProcessInv, LifecycleTypeOK, Stopping, ExitExplained
<1>1. CASE SetHTTPServer
  BY <1>1 DEF SetHTTPServer, vars
<1>2. ASSUME NEW ok \in BOOLEAN, ListenWSS(ok) \/ ListenQUIC(ok) PROVE ProcessInv'
  BY <1>2 DEF ListenWSS, ListenQUIC, Fatal, vars
<1>3. CASE ServeReturns
  BY <1>3 DEF ServeReturns, vars
<1>4. CASE Signal
  BY <1>4 DEF Signal, vars
<1> QED BY <1>1, <1>2, <1>3, <1>4 DEF StartWSS

LEMMA ProcessStep ==
  ASSUME ProcessInv, [LifecycleNext]_lifecycleVars PROVE ProcessInv'
<1>1. TypeOK'
  BY StepOfRegistry, TypeKept DEF ProcessInv, LifecycleTypeOK
<1>2. CASE RegistryStep
  BY <1>1, <1>2, ClosingIsMains
     DEF RegistryStep, processVars, ProcessInv, LifecycleTypeOK, ExitExplained
<1>3. CASE UNCHANGED lifecycleVars
  BY <1>1, <1>3 DEF lifecycleVars, vars, processVars, ProcessInv,
                    LifecycleTypeOK, ExitExplained
<1> QED BY <1>1, <1>2, <1>3, MainKeepsInv, ServersKeepInv DEF LifecycleNext

(* A clean exit follows a signal and a closed registry; an exit with an    *)
(* error follows a failure to start, or a WSS server that Stop shut down   *)
(* (server.go, the goroutine around wssServer.Start).                      *)
THEOREM ExitsExplained == LifecycleSpec => []ExitExplained
<1>1. ProcessInv => ExitExplained
  BY DEF ProcessInv
<1>2. ProcessInv /\ [LifecycleNext]_lifecycleVars => ProcessInv'
  BY ProcessStep
<1> QED BY <1>1, <1>2, LifecycleInitInv, PTL DEF LifecycleSpec

(* Types of the process and of the registry in it.                         *)
THEOREM LifecycleTypeCorrect == LifecycleSpec => []LifecycleTypeOK
<1>1. ProcessInv => LifecycleTypeOK
  BY DEF ProcessInv
<1>2. ProcessInv /\ [LifecycleNext]_lifecycleVars => ProcessInv'
  BY ProcessStep
<1> QED BY <1>1, <1>2, LifecycleInitInv, PTL DEF LifecycleSpec

=============================================================================
