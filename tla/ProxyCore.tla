------------------------------ MODULE ProxyCore ------------------------------
(***************************************************************************)
(* What the server does with one client connection after another:          *)
(* proxy.HandleConnection (proxy/core.go) with the router (router/*.go)    *)
(* that picks the outbound and the traffic plugins that count.             *)
(*                                                                         *)
(* Every connection has a goroutine.  They share the devices, the index of *)
(* the round robin, and the counters, each behind a lock of its own that   *)
(* is held for one call.  Relaying itself is modelled in Tunnel, dialing   *)
(* through a device in OutboundPool: here a relay passes chunks both ways  *)
(* until it ends, and Dial succeeds or fails.                              *)
(*                                                                         *)
(* Left out because no router or plugin of this code uses them: errors of  *)
(* the hooks and of SelectOutbound, and outbounds made from a              *)
(* configuration by the router.                                            *)
(***************************************************************************)
EXTENDS Naturals, Sequences, FiniteSets, SequencesExt

CONSTANTS
    Conn,           \* client connections
    Device,         \* device ids
    Static,         \* the outbound of the configuration
    MaxChunks,      \* bound: chunks relayed per connection and direction
    IndexPeriod     \* bound: the int64 index of the round robin, modulo this

ASSUME StaticAssumption == Static \notin Device
ASSUME MaxChunksAssumption == MaxChunks \in Nat
ASSUME IndexAssumption ==   \* every index into a list of devices stays possible
    IndexPeriod \in Nat \ {0} /\ \A n \in 1 .. Cardinality(Device) : IndexPeriod % n = 0

VARIABLES
    config,     \* the configuration, which does not change
    online,     \* the devices that are online
    index,      \* RoundRobinStrategy.index
    pc,         \* where the goroutine of a connection is
    listed,     \* the devices GetAvailableDevices returned to it
    picked,     \* the device the router picked
    carrier,    \* the outbound that dials and relays
    outboundID, \* ctx.OutboundID
    ctx,        \* ctx.BytesSent and ctx.BytesReceived
    relayed,    \* the chunks really passed on
    inbound,    \* the statistics of InboundCounter for the inbound
    outbound    \* those of OutboundCounter for each outbound

routeVars == <<index, listed, picked>>
vars == <<config, online, routeVars, pc, carrier, outboundID, ctx, relayed, inbound, outbound>>

Direction == {"sent", "received"}
Outbound == Device \cup {Static}
Stats == [conns : Nat, sent : Nat, received : Nat]
NoTraffic == [d \in Direction |-> 0]

(* A plugin counts only what has an id.  That of the inbound and that of   *)
(* the static outbound are optional; a device always has one.              *)
Config ==
    [pool : BOOLEAN,        \* the outbound pool is enabled
     inbound : BOOLEAN,     \* traffic_inbound is enabled and the inbound has an id
     outbound : BOOLEAN,    \* traffic_outbound is enabled
     named : BOOLEAN,       \* the static outbound has an id
     socks5 : BOOLEAN]      \* the static outbound is a SOCKS5 proxy, not direct

TypeOK ==
    /\ config \in Config
    /\ online \in SUBSET Device
    /\ index \in 0 .. IndexPeriod - 1
    /\ pc \in [Conn -> {"new", "routing", "picking", "checking", "getting", "dialing",
                        "relaying", "closed"}]
    /\ listed \in [Conn -> Seq(Device)]
    /\ picked \in [Conn -> Outbound]
    /\ \A c \in Conn : pc[c] = "picking" <=> listed[c] # <<>>  \* or Select divides by zero
    /\ carrier \in [Conn -> Outbound]
    /\ outboundID \in [Conn -> Outbound]
    /\ ctx \in [Conn -> [Direction -> Nat]]
    /\ relayed \in [Conn -> [Direction -> 0 .. MaxChunks]]
    /\ inbound \in Stats
    /\ outbound \in [Outbound -> Stats]

Init ==
    /\ config \in Config
    /\ online = {}
    /\ index = 0
    /\ pc = [c \in Conn |-> "new"]
    /\ listed = [c \in Conn |-> <<>>]
    /\ picked = [c \in Conn |-> Static]
    /\ carrier = [c \in Conn |-> Static]
    /\ outboundID = [c \in Conn |-> Static]
    /\ ctx = [c \in Conn |-> NoTraffic]
    /\ relayed = [c \in Conn |-> NoTraffic]
    /\ inbound = [conns |-> 0, sent |-> 0, received |-> 0]
    /\ outbound = [o \in Outbound |-> [conns |-> 0, sent |-> 0, received |-> 0]]

-----------------------------------------------------------------------------
(* Counters (internal/plugins/traffic) *)

Named(o) == o \in Device \/ config.named

AddConnection(s) == [s EXCEPT !.conns = @ + 1]

(* Mutant of AddBytes: the bytes sent are added to those received. *)
AddBytesPasted(s, t) == [s EXCEPT !.sent = @ + t["sent"], !.received = @ + t["sent"]]

AddBytes(s, t) == [s EXCEPT !.sent = @ + t["sent"], !.received = @ + t["received"]]

(* Whether a plugin counts connection c, and how many do. *)
InboundCounts(c) == config.inbound
OutboundCounts(c) == config.outbound /\ Named(outboundID[c])
Counting(c) ==
    (IF InboundCounts(c) THEN 1 ELSE 0) + (IF OutboundCounts(c) THEN 1 ELSE 0)

(* Both plugins add t for c, each to its own statistics.                   *)
CountBytes(c, t) ==
    /\ inbound' = IF InboundCounts(c) THEN AddBytes(inbound, t) ELSE inbound
    /\ outbound' = IF OutboundCounts(c)
                     THEN [outbound EXCEPT ![outboundID[c]] = AddBytes(@, t)]
                     ELSE outbound

(* Mutant of OnDataTransfer: the outbound counter swaps the directions. *)
OnDataTransferSwapped(c, d) ==
    LET t == [NoTraffic EXCEPT ![d] = 1]
        s == [sent |-> t["received"], received |-> t["sent"]]
    IN  /\ inbound' = IF InboundCounts(c) THEN AddBytes(inbound, t) ELSE inbound
        /\ outbound' = IF OutboundCounts(c)
                         THEN [outbound EXCEPT ![outboundID[c]] = AddBytes(@, s)]
                         ELSE outbound
        /\ ctx' = [ctx EXCEPT ![c][d] = @ + Counting(c)]

(* A chunk was written: each plugin adds it to its statistics, and each    *)
(* adds it to the one context of the connection.                           *)
OnDataTransfer(c, d) ==
    /\ CountBytes(c, [NoTraffic EXCEPT ![d] = 1])
    /\ ctx' = [ctx EXCEPT ![c][d] = @ + Counting(c)]

(* "We update the final statistics": the whole context is added again.     *)
OnConnectionClosed(c) == CountBytes(c, ctx[c])

-----------------------------------------------------------------------------
(* HandleConnection *)

OnInboundConnection(c) ==
    /\ pc[c] = "new"
    /\ inbound' = IF config.inbound THEN AddConnection(inbound) ELSE inbound
    /\ pc' = [pc EXCEPT ![c] = "routing"]
    /\ UNCHANGED <<config, online, routeVars, carrier, outboundID, ctx, relayed, outbound>>

(* Mutant of UseOutbound: the context keeps the outbound the router wanted. *)
UseOutboundPicked(c, o) ==
    /\ carrier' = [carrier EXCEPT ![c] = o]
    /\ outboundID' = [outboundID EXCEPT ![c] = picked[c]]
    /\ outbound' = IF config.outbound /\ Named(picked[c])
                     THEN [outbound EXCEPT ![picked[c]] = AddConnection(@)]
                     ELSE outbound
    /\ pc' = [pc EXCEPT ![c] = "dialing"]

(* The outbound is settled: OnOutboundConnection. *)
UseOutbound(c, o) ==
    /\ carrier' = [carrier EXCEPT ![c] = o]
    /\ outboundID' = [outboundID EXCEPT ![c] = o]
    /\ outbound' = IF config.outbound /\ Named(o)
                     THEN [outbound EXCEPT ![o] = AddConnection(@)]
                     ELSE outbound
    /\ pc' = [pc EXCEPT ![c] = "dialing"]

SelectStatic(c) ==
    /\ pc[c] = "routing"
    /\ ~config.pool
    /\ UseOutbound(c, Static)
    /\ UNCHANGED <<config, online, routeVars, ctx, relayed, inbound>>

(* Mutant of ListDevices: an empty list is handed on. *)
ListDevicesEmpty(c) ==
    /\ pc[c] = "routing"
    /\ config.pool
    /\ \E s \in SetToSeqs(online) : listed' = [listed EXCEPT ![c] = s]
    /\ pc' = [pc EXCEPT ![c] = "picking"]
    /\ UNCHANGED <<config, online, index, picked, carrier, outboundID, ctx, relayed,
                   inbound, outbound>>

(* GetAvailableDevices ranges over a map: the order is a new one each time. *)
ListDevices(c) ==
    /\ pc[c] = "routing"
    /\ config.pool
    /\ online # {}
    /\ \E s \in SetToSeqs(online) : listed' = [listed EXCEPT ![c] = s]
    /\ pc' = [pc EXCEPT ![c] = "picking"]
    /\ UNCHANGED <<config, online, index, picked, carrier, outboundID, ctx, relayed,
                   inbound, outbound>>

FallBackOnEmptyPool(c) ==
    /\ pc[c] = "routing"
    /\ config.pool
    /\ online = {}
    /\ UseOutbound(c, Static)
    /\ UNCHANGED <<config, online, routeVars, ctx, relayed, inbound>>

(* The list was computed before the index was taken. *)
PickDevice(c) ==
    /\ pc[c] = "picking"
    /\ picked' = [picked EXCEPT ![c] = listed[c][(index % Len(listed[c])) + 1]]
    /\ listed' = [listed EXCEPT ![c] = <<>>]
    /\ index' = (index + 1) % IndexPeriod
    /\ pc' = [pc EXCEPT ![c] = "checking"]
    /\ UNCHANGED <<config, online, carrier, outboundID, ctx, relayed, inbound, outbound>>

(* Mutant of CheckPicked: another device is picked instead of falling back. *)
CheckPickedRetry(c) ==
    /\ pc[c] = "checking"
    /\ pc' = [pc EXCEPT ![c] = IF picked[c] \in online THEN "getting" ELSE "routing"]
    /\ UNCHANGED <<config, online, routeVars, carrier, outboundID, ctx, relayed,
                   inbound, outbound>>

(* SelectOutbound checks again that the device is online ... *)
CheckPicked(c) ==
    /\ pc[c] = "checking"
    /\ IF picked[c] \in online
         THEN /\ pc' = [pc EXCEPT ![c] = "getting"]
              /\ UNCHANGED <<carrier, outboundID, outbound>>
         ELSE UseOutbound(c, Static)
    /\ UNCHANGED <<config, online, routeVars, ctx, relayed, inbound>>

(* ... and Pool.GetOutbound a third time.  Either way the connection falls *)
(* back to the static outbound.                                            *)
GetOutbound(c) ==
    /\ pc[c] = "getting"
    /\ UseOutbound(c, IF picked[c] \in online THEN picked[c] ELSE Static)
    /\ UNCHANGED <<config, online, routeVars, ctx, relayed, inbound>>

DialSucceeds(c) ==
    /\ pc[c] = "dialing"
    /\ carrier[c] \in online \cup {Static}
    /\ pc' = [pc EXCEPT ![c] = "relaying"]
    /\ UNCHANGED <<config, online, routeVars, carrier, outboundID, ctx, relayed,
                   inbound, outbound>>

(* There is no fallback any more: the connection is closed. *)
DialFails(c) ==
    /\ pc[c] = "dialing"
    /\ OnConnectionClosed(c)
    /\ pc' = [pc EXCEPT ![c] = "closed"]
    /\ UNCHANGED <<config, online, routeVars, carrier, outboundID, ctx, relayed>>

(* countingWriter.Write *)
Transfer(c, d) ==
    /\ pc[c] = "relaying"
    /\ relayed[c][d] < MaxChunks
    /\ relayed' = [relayed EXCEPT ![c][d] = @ + 1]
    /\ OnDataTransfer(c, d)
    /\ UNCHANGED <<config, online, routeVars, pc, carrier, outboundID>>

(* CopyDataWithCounting has returned: both copiers have ended.             *)
FinishRelay(c) ==
    /\ pc[c] = "relaying"
    /\ OnConnectionClosed(c)
    /\ pc' = [pc EXCEPT ![c] = "closed"]
    /\ UNCHANGED <<config, online, routeVars, carrier, outboundID, ctx, relayed>>

-----------------------------------------------------------------------------
(* The devices come and go, as DeviceRegistry has it. *)
DeviceOnline(d) ==
    /\ config.pool
    /\ d \notin online
    /\ online' = online \cup {d}
    /\ UNCHANGED <<config, routeVars, pc, carrier, outboundID, ctx, relayed, inbound, outbound>>

DeviceOffline(d) ==
    /\ d \in online
    /\ online' = online \ {d}
    /\ UNCHANGED <<config, routeVars, pc, carrier, outboundID, ctx, relayed, inbound, outbound>>

-----------------------------------------------------------------------------
SelectOutbound(c) ==
    \/ SelectStatic(c) \/ ListDevices(c) \/ FallBackOnEmptyPool(c)
    \/ PickDevice(c) \/ CheckPicked(c) \/ GetOutbound(c)

HandleConnection(c) ==
    \/ OnInboundConnection(c)
    \/ SelectOutbound(c)
    \/ DialSucceeds(c) \/ DialFails(c)
    \/ \E d \in Direction : Transfer(c, d)
    \/ FinishRelay(c)

Next ==
    \/ \E c \in Conn : HandleConnection(c)
    \/ \E d \in Device : DeviceOnline(d) \/ DeviceOffline(d)

Spec == Init /\ [][Next]_vars

(* The dial reads the answers of a SOCKS5 proxy, without a deadline.       *)
WaitsForProxy(c) == pc[c] = "dialing" /\ carrier[c] = Static /\ config.socks5

(* Every other dial ends: TCP gives up a connection that is not answered,  *)
(* and for the dial through a device see OutboundPool.                     *)
DialEnds(c) == ~WaitsForProxy(c) /\ (DialSucceeds(c) \/ DialFails(c))

(* A goroutine that waits for no peer goes on.  A relay need not end.      *)
FairSpec ==
    /\ Spec
    /\ \A c \in Conn : WF_vars(SelectOutbound(c)) /\ WF_vars(DialEnds(c))

-----------------------------------------------------------------------------
(* Properties *)

(* What has been added to the statistics for c in direction d: each chunk  *)
(* once as it was written, and once more per counting plugin on closing.   *)
Counted(d) ==
    [c \in Conn |-> relayed[c][d] * (IF pc[c] = "closed" THEN 1 + Counting(c) ELSE 1)]

(* The sum of f over C, as the number of the units it is made of.          *)
Units(C, f) == UNION {{c} \X (1 .. f[c]) : c \in C}
Total(C, f) == Cardinality(Units(C, f))

(* The statistics of the inbound are known from the connections: no chunk  *)
(* is missed or put down to the other direction, with connections opening, *)
(* failing and closing in any order.                                       *)
InboundTotals ==
    config.inbound =>
        /\ inbound.conns = Cardinality({c \in Conn : pc[c] # "new"})
        /\ \A d \in Direction : inbound[d] = Total(Conn, Counted(d))

CarriedBy(o) == {c \in Conn : carrier[c] = o /\ pc[c] \in {"dialing", "relaying", "closed"}}

(* The statistics of an outbound are those of the connections it carried,  *)
(* whichever outbound the router had picked for them.                      *)
OutboundTotals ==
    config.outbound => \A o \in Outbound : Named(o) =>
        /\ outbound[o].conns = Cardinality(CarriedBy(o))
        /\ \A d \in Direction : outbound[o][d] = Total(CarriedBy(o), Counted(d))

(* A connection that was accepted gets through the router, however often   *)
(* the devices come and go meanwhile, and is relayed or closed, unless it  *)
(* ends up waiting for a SOCKS5 proxy.                                     *)
AcceptedIsSettled ==
    \A c \in Conn :
        pc[c] = "routing" ~> pc[c] \in {"relaying", "closed"} \/ WaitsForProxy(c)

(* counter.go: BytesSent and BytesReceived are the bytes sent and received *)
(* in total.                                                               *)
TotalsAreReal ==
    config.inbound =>
        \A d \in Direction :
            inbound[d] = Total(Conn, [c \in Conn |-> relayed[c][d]])

=============================================================================
