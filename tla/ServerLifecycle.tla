--------------------------- MODULE ServerLifecycle ---------------------------
(***************************************************************************)
(* The process of the POP server around its registry: main of              *)
(* cmd/proxy/main.go, Start and Stop of internal/server/server.go, the     *)
(* goroutines of the WSS and of the QUIC server, and a signal that may     *)
(* come at any time.  The registry is the one of DeviceRegistry; it works  *)
(* as long as the process does, and its Close is one step of Stop.         *)
(*                                                                         *)
(* log.Fatalf ends the process with all its goroutines.  It is called when *)
(* Start of a server returns an error, and ListenAndServe returns one      *)
(* (http.ErrServerClosed) when Stop has shut the server down.              *)
(*                                                                         *)
(* The outbound pool is enabled: without it there are no servers and no    *)
(* registry to stop.  Client connections, which Stop leaves alone, are     *)
(* left out, and so is Close of the plugins, which only logs.              *)
(***************************************************************************)
EXTENDS DeviceRegistry

VARIABLES
    main,       \* where the main goroutine is; in Stop, what it stops next
    httpServer, \* the field of wss.Server: nil, set, or shut down
    wssStart,   \* the goroutine that runs wss.Server.Start
    quicStart,  \* quic.Server.Start and the listener it leaves
    signalled,  \* SIGINT or SIGTERM was sent
    broken,     \* something could not be initialised or started
    exit        \* how the process ended

processVars == <<main, httpServer, wssStart, quicStart, signalled, broken, exit>>
lifecycleVars == <<vars, processVars>>

(* The last conjunct: the field is nil exactly until the goroutine of Start *)
(* has set it, so Stop shuts down a server that exists or none.             *)
LifecycleTypeOK ==
    /\ TypeOK
    /\ main \in {"initializing", "starting", "launching", "registering", "waiting",
                 "inbound", "wss", "quic", "registry", "plugins", "over"}
    /\ httpServer \in {"nil", "set", "shut"}
    /\ wssStart \in {"none", "launched", "listening", "serving"}
    /\ quicStart \in {"none", "launched", "listening", "stopped"}
    /\ signalled \in BOOLEAN /\ broken \in BOOLEAN
    /\ exit \in {"running", "clean", "failed", "killed"}
    /\ httpServer = "nil" <=> wssStart \in {"none", "launched"}

LifecycleInit ==
    /\ Init
    /\ main = "initializing"
    /\ httpServer = "nil"
    /\ wssStart = "none"
    /\ quicStart = "none"
    /\ signalled = FALSE
    /\ broken = FALSE
    /\ exit = "running"

-----------------------------------------------------------------------------
(* Start *)

(* log.Fatalf after a failure. *)
Fatal ==
    /\ broken' = TRUE
    /\ exit' = "failed"

(* Configuration and Initialize, then inbound.Start, which listens; either *)
(* may fail.                                                               *)
Step(from, to, ok) ==
    /\ main = from
    /\ IF ok THEN main' = to /\ UNCHANGED <<broken, exit>>
             ELSE Fatal /\ UNCHANGED main
    /\ UNCHANGED <<vars, httpServer, wssStart, quicStart, signalled>>

Initialize(ok) == Step("initializing", "starting", ok)
StartInbound(ok) == Step("starting", "launching", ok)

(* The rest of Server.Start: one goroutine for each server. *)
LaunchServers ==
    /\ main = "launching"
    /\ main' = "registering"
    /\ wssStart' = "launched"
    /\ quicStart' = "launched"
    /\ UNCHANGED <<vars, httpServer, signalled, broken, exit>>

(* signal.Notify: from now on a signal does not kill the process. *)
Notify == Step("registering", "waiting", TRUE)

(* wss.Server.Start: the field is set, and then ListenAndServe is called.  *)
SetHTTPServer ==
    /\ wssStart = "launched"
    /\ wssStart' = "listening"
    /\ httpServer' = "set"
    /\ UNCHANGED <<vars, main, quicStart, signalled, broken, exit>>

ListenWSS(ok) ==
    /\ wssStart = "listening"
    /\ httpServer = "set"
    /\ IF ok THEN wssStart' = "serving" /\ UNCHANGED <<broken, exit>>
             ELSE Fatal /\ UNCHANGED wssStart
    /\ UNCHANGED <<vars, main, httpServer, quicStart, signalled>>

(* The server was shut down: ListenAndServe returns, or does not begin.    *)
ServeReturns ==
    /\ wssStart \in {"listening", "serving"}
    /\ httpServer = "shut"
    /\ exit' = "failed"
    /\ UNCHANGED <<vars, main, httpServer, wssStart, quicStart, signalled, broken>>

(* quic.Server.Start returns when the listener is there. *)
ListenQUIC(ok) ==
    /\ quicStart = "launched"
    /\ IF ok THEN quicStart' = "listening" /\ UNCHANGED <<broken, exit>>
             ELSE Fatal /\ UNCHANGED quicStart
    /\ UNCHANGED <<vars, main, httpServer, wssStart, signalled>>

-----------------------------------------------------------------------------
(* Signals and Stop *)

(* Before signal.Notify the runtime ends the process at once. *)
Signal ==
    /\ ~signalled
    /\ signalled' = TRUE
    /\ exit' = IF main \in {"initializing", "starting", "launching", "registering"}
               THEN "killed" ELSE exit
    /\ UNCHANGED <<vars, main, httpServer, wssStart, quicStart, broken>>

(* Mutant of AwaitSignal: main goes on to Stop without waiting. *)
AwaitNothing ==
    /\ main = "waiting"
    /\ main' = "inbound"
    /\ UNCHANGED <<vars, httpServer, wssStart, quicStart, signalled, broken, exit>>

AwaitSignal ==
    /\ main = "waiting"
    /\ signalled
    /\ main' = "inbound"
    /\ UNCHANGED <<vars, httpServer, wssStart, quicStart, signalled, broken, exit>>

StopInbound == Step("inbound", "wss", TRUE)

(* Mutant of StopWSS: the field is not compared with nil. *)
StopWSSUnchecked ==
    /\ main = "wss"
    /\ main' = "quic"
    /\ httpServer' = "shut"
    /\ UNCHANGED <<vars, wssStart, quicStart, signalled, broken, exit>>

(* Shutdown leaves connections that became WebSockets alone.  A server     *)
(* whose goroutine has not run yet is not stopped.                         *)
StopWSS ==
    /\ main = "wss"
    /\ main' = "quic"
    /\ httpServer' = IF httpServer = "set" THEN "shut" ELSE httpServer
    /\ UNCHANGED <<vars, wssStart, quicStart, signalled, broken, exit>>

(* Nor is a listener that is not there yet. *)
StopQUIC ==
    /\ main = "quic"
    /\ main' = "registry"
    /\ quicStart' = IF quicStart = "listening" THEN "stopped" ELSE quicStart
    /\ UNCHANGED <<vars, httpServer, wssStart, signalled, broken, exit>>

StopRegistry ==
    /\ main = "registry"
    /\ Close
    /\ main' = IF closing' = "done" THEN "plugins" ELSE main
    /\ UNCHANGED <<httpServer, wssStart, quicStart, signalled, broken, exit>>

(* The plugins are closed, Stop returns, and main returns. *)
Return ==
    /\ main = "plugins"
    /\ main' = "over"
    /\ exit' = "clean"
    /\ UNCHANGED <<vars, httpServer, wssStart, quicStart, signalled, broken>>

-----------------------------------------------------------------------------
(* The registry while the process runs.  NewRegistry starts the checker.   *)
(* Connections come from the listeners: those accepted before a listener   *)
(* was closed go on, and the accept queue of QUIC is still served.         *)

HandleWSS(w) == wssStart = "serving" /\ WSSHandler(w)

HandleQUIC(q) == quicStart \in {"listening", "stopped"} /\ QUICHandler(q)

Check == main # "initializing" /\ (Scan \/ ExitChecker)

RegistryStep ==
    /\ \/ \E w \in WSS : HandleWSS(w)
       \/ \E q \in QUIC : HandleQUIC(q)
       \/ Network
       \/ Tick
       \/ Check
    /\ UNCHANGED processVars

Main ==
    \/ \E ok \in BOOLEAN : Initialize(ok) \/ StartInbound(ok)
    \/ LaunchServers \/ Notify \/ AwaitSignal
    \/ StopInbound \/ StopWSS \/ StopQUIC \/ StopRegistry \/ Return

StartWSS == SetHTTPServer \/ (\E ok \in BOOLEAN : ListenWSS(ok)) \/ ServeReturns

LifecycleNext ==
    /\ exit = "running"
    /\ \/ Main
       \/ StartWSS
       \/ \E ok \in BOOLEAN : ListenQUIC(ok)
       \/ Signal
       \/ RegistryStep

LifecycleSpec == LifecycleInit /\ [][LifecycleNext]_lifecycleVars

Running(A) == exit = "running" /\ A

(* The runtime keeps scheduling main and the checker.  r.mu is available   *)
(* to Close only now and then while the checker keeps scanning, but        *)
(* sync.RWMutex does not starve a waiting writer: hence strong fairness.   *)
(* Nobody has to send a signal.                                            *)
LifecycleFairSpec ==
    /\ LifecycleSpec
    /\ WF_lifecycleVars(Running(Main))
    /\ SF_lifecycleVars(Running(StopRegistry))
    /\ WF_lifecycleVars(Running(Check /\ UNCHANGED processVars))

-----------------------------------------------------------------------------
(* Properties *)

(* The process ends for a reason: after a signal with the registry closed; *)
(* with an error if something could not be started - or, and this is not   *)
(* an error of anybody's, because Stop had shut the WSS server down.       *)
ExitExplained ==
    /\ exit = "clean" => signalled /\ ~broken /\ closing = "done"
    /\ exit = "failed" => broken \/ (signalled /\ httpServer = "shut")

(* A signal ends the process: no step of Stop waits for ever, although     *)
(* Close competes for r.mu with the checker and with registrations, which  *)
(* still come.                                                             *)
SignalEndsProcess == signalled ~> (exit # "running")

(* A device that has gone silent does not stay online: unless it is heard  *)
(* of again, the checker takes it down while there is a checker.           *)
SilentGoesOffline ==
    \A d \in Device :
        (status[d] = "Online" /\ age[d] > Timeout)
            ~> (status[d] = "Offline" \/ age[d] = 0 \/ closing = "done" \/ exit # "running")

=============================================================================
