---------------------------- MODULE OutboundPool ----------------------------
(***************************************************************************)
(* Outbound connections through one device: the pool of outbound objects   *)
(* (outbound/pool.go), QUICOutbound.Dial and quicStreamConn.Close          *)
(* (outbound/quic.go), and the stream table of the device (device.go).     *)
(*                                                                         *)
(* A worker is a goroutine that serves one client connection: it asks the  *)
(* pool for the outbound of the device, dials, uses the stream and closes  *)
(* it.  Each worker has one stream at a time, so a worker also names its   *)
(* stream.  Two tables map a conn_id to a stream: q.streams, one per       *)
(* outbound object, under q.mu; and Device.Streams, under d.mu.  A conn_id *)
(* is the device id and a number, and the number alone is kept here.       *)
(*                                                                         *)
(* The device is what DeviceRegistry leaves of it: whether it has a WSS    *)
(* and a QUIC connection.  An online device is one that has both; by       *)
(* DeviceRegistry!OfflineReleases no other status needs to be kept.        *)
(***************************************************************************)
EXTENDS Naturals, FiniteSets

CONSTANTS
    Worker,     \* goroutines that serve client connections
    Outbound,   \* identities of QUICOutbound objects
    Conn,       \* identities of QUIC connections
    None        \* nil

ASSUME NoneAssumption == None \notin Worker \cup Outbound \cup Conn

VARIABLES
    wss,        \* the device has a WSS connection
    conn,       \* its QUIC connection, or None
    alive,      \* that connection still works
    cached,     \* the outbound object in the pool for the device, or None
    table,      \* q.streams of each outbound object
    devTable,   \* Device.Streams
    mutex,      \* the worker that holds q.mu across steps, or None
    pc,         \* where each worker is
    outbound,   \* the outbound object a worker works with
    id,         \* the conn_id of its stream
    via         \* the QUIC connection of its stream

deviceVars == <<wss, conn, alive>>
workerVars == <<pc, outbound, id, via>>
vars == <<deviceVars, cached, table, devTable, mutex, workerVars>>

Entry == [id : Nat, stream : Worker]

TypeOK ==
    /\ wss \in BOOLEAN /\ alive \in BOOLEAN
    /\ conn \in Conn \cup {None}
    /\ cached \in Outbound \cup {None}
    /\ table \in [Outbound -> SUBSET Entry]
    /\ devTable \in SUBSET Entry
    /\ mutex \in [Outbound -> Worker \cup {None}]
    /\ pc \in [Worker -> {"idle", "hit", "evict", "miss", "store", "have", "opening",
                          "sending", "failing", "open", "closing", "removing"}]
    /\ outbound \in [Worker -> Outbound \cup {None}]
    /\ id \in [Worker -> Nat]
    /\ via \in [Worker -> Conn \cup {None}]

Init ==
    /\ wss = FALSE /\ conn = None /\ alive = FALSE
    /\ cached = None
    /\ table = [o \in Outbound |-> {}]
    /\ devTable = {}
    /\ mutex = [o \in Outbound |-> None]
    /\ pc = [w \in Worker |-> "idle"]
    /\ outbound = [w \in Worker |-> None]
    /\ id = [w \in Worker |-> 0]
    /\ via = [w \in Worker |-> None]

IsOnline == wss /\ conn # None

(* A map from conn_id to stream: an insertion replaces what was there.     *)
Delete(t, k) == {e \in t : e.id # k}
Insert(t, k, w) == Delete(t, k) \cup {[id |-> k, stream |-> w]}

Goto(w, label) == pc' = [pc EXCEPT ![w] = label]

(* The worker's call has returned an error or is over. *)
Finish(w) ==
    /\ pc' = [pc EXCEPT ![w] = "idle"]
    /\ outbound' = [outbound EXCEPT ![w] = None]
    /\ id' = [id EXCEPT ![w] = 0]
    /\ via' = [via EXCEPT ![w] = None]

-----------------------------------------------------------------------------
(* The device *)

RegisterWSS ==
    /\ wss' = TRUE
    /\ UNCHANGED <<conn, alive, cached, table, devTable, mutex, workerVars>>

(* The connection that is replaced is closed. *)
RegisterQUIC(c) ==
    /\ c # conn
    /\ \A w \in Worker : via[w] # c
    /\ conn' = c
    /\ alive' = TRUE
    /\ UNCHANGED <<wss, cached, table, devTable, mutex, workerVars>>

(* MarkOffline closes both connections and closes and forgets the streams. *)
MarkOffline ==
    /\ wss' = FALSE
    /\ conn' = None
    /\ alive' = FALSE
    /\ devTable' = {}
    /\ UNCHANGED <<cached, table, mutex, workerVars>>

LoseQUIC ==
    /\ alive
    /\ alive' = FALSE
    /\ UNCHANGED <<wss, conn, cached, table, devTable, mutex, workerVars>>

-----------------------------------------------------------------------------
(* Pool.GetOutbound *)

(* The pool is read under p.mu, which is then released.                    *)
LookUp(w) ==
    /\ pc[w] = "idle"
    /\ outbound' = [outbound EXCEPT ![w] = cached]
    /\ Goto(w, IF cached # None THEN "hit" ELSE "miss")
    /\ UNCHANGED <<deviceVars, cached, table, devTable, mutex, id, via>>

(* A cached object is used if the device is online now, else evicted.      *)
CheckCached(w) ==
    /\ pc[w] = "hit"
    /\ Goto(w, IF IsOnline THEN "have" ELSE "evict")
    /\ UNCHANGED <<deviceVars, cached, table, devTable, mutex, outbound, id, via>>

(* The key is deleted, whatever object is in the pool by now.              *)
Evict(w) ==
    /\ pc[w] = "evict"
    /\ cached' = None
    /\ Finish(w)
    /\ UNCHANGED <<deviceVars, table, devTable, mutex>>

RefuseOffline(w) ==
    /\ pc[w] = "miss"
    /\ ~IsOnline
    /\ Finish(w)
    /\ UNCHANGED <<deviceVars, cached, table, devTable, mutex>>

(* No lock is held since LookUp: two workers can both create an object.    *)
Create(w, o) ==
    /\ pc[w] = "miss"
    /\ IsOnline
    /\ cached # o /\ mutex[o] = None /\ \A v \in Worker : outbound[v] # o
    /\ table' = [table EXCEPT ![o] = {}]
    /\ outbound' = [outbound EXCEPT ![w] = o]
    /\ Goto(w, "store")
    /\ UNCHANGED <<deviceVars, cached, devTable, mutex, id, via>>

Store(w) ==
    /\ pc[w] = "store"
    /\ cached' = outbound[w]
    /\ Goto(w, "have")
    /\ UNCHANGED <<deviceVars, table, devTable, mutex, outbound, id, via>>

-----------------------------------------------------------------------------
(* QUICOutbound.Dial, which holds q.mu until it returns *)

DialWithoutConn(w) ==
    /\ pc[w] = "have"
    /\ mutex[outbound[w]] = None
    /\ conn = None
    /\ Finish(w)
    /\ UNCHANGED <<deviceVars, cached, table, devTable, mutex>>

(* Mutant of StartDial: numbered by the index of the last entry. *)
StartDialLastIndex(w) ==
    /\ pc[w] = "have"
    /\ mutex[outbound[w]] = None
    /\ conn # None
    /\ mutex' = [mutex EXCEPT ![outbound[w]] = w]
    /\ id' = [id EXCEPT ![w] = Cardinality(table[outbound[w]]) - 1]
    /\ via' = [via EXCEPT ![w] = conn]
    /\ Goto(w, "opening")
    /\ UNCHANGED <<deviceVars, cached, table, devTable, outbound>>

(* The conn_id is numbered by the length of the table. *)
StartDial(w) ==
    /\ pc[w] = "have"
    /\ mutex[outbound[w]] = None
    /\ conn # None
    /\ mutex' = [mutex EXCEPT ![outbound[w]] = w]
    /\ id' = [id EXCEPT ![w] = Cardinality(table[outbound[w]])]
    /\ via' = [via EXCEPT ![w] = conn]
    /\ Goto(w, "opening")
    /\ UNCHANGED <<deviceVars, cached, table, devTable, outbound>>

(* Mutant of FailToOpen: an error path that does not unlock q.mu. *)
FailToOpenLocked(w) ==
    /\ pc[w] = "opening"
    /\ Finish(w)
    /\ UNCHANGED <<deviceVars, cached, table, devTable, mutex>>

(* OpenStreamSync fails: the connection is gone, or ten seconds passed     *)
(* without a stream being available.                                       *)
FailToOpen(w) ==
    /\ pc[w] = "opening"
    /\ mutex' = [mutex EXCEPT ![outbound[w]] = None]
    /\ Finish(w)
    /\ UNCHANGED <<deviceVars, cached, table, devTable>>

(* A stream is opened and entered in q.streams. *)
OpenStream(w) ==
    /\ pc[w] = "opening"
    /\ via[w] = conn /\ alive
    /\ table' = [table EXCEPT ![outbound[w]] = Insert(@, id[w], w)]
    /\ Goto(w, "sending")
    /\ UNCHANGED <<deviceVars, cached, devTable, mutex, outbound, id, via>>

(* Device.AddStream, under d.mu: the device may have been marked offline,  *)
(* or reconnected, since the stream was opened.  Then WriteTargetAddress   *)
(* succeeds or fails.                                                      *)
SendTarget(w, ok) ==
    /\ pc[w] = "sending"
    /\ devTable' = Insert(devTable, id[w], w)
    /\ IF ok THEN /\ mutex' = [mutex EXCEPT ![outbound[w]] = None]
                  /\ Goto(w, "open")
             ELSE /\ Goto(w, "failing")
                  /\ UNCHANGED mutex
    /\ UNCHANGED <<deviceVars, cached, table, outbound, id, via>>

(* Mutant of UndoDial: the entry stays in q.streams. *)
UndoDialHalf(w) ==
    /\ pc[w] = "failing"
    /\ devTable' = Delete(devTable, id[w])
    /\ mutex' = [mutex EXCEPT ![outbound[w]] = None]
    /\ Finish(w)
    /\ UNCHANGED <<deviceVars, cached, table>>

(* WriteTargetAddress failed: both entries are taken back. *)
UndoDial(w) ==
    /\ pc[w] = "failing"
    /\ table' = [table EXCEPT ![outbound[w]] = Delete(@, id[w])]
    /\ devTable' = Delete(devTable, id[w])
    /\ mutex' = [mutex EXCEPT ![outbound[w]] = None]
    /\ Finish(w)
    /\ UNCHANGED <<deviceVars, cached>>

-----------------------------------------------------------------------------
(* quicStreamConn.Close: the stream is closed, then the entries of its     *)
(* conn_id are deleted, under q.mu and under d.mu in turn.                 *)

Close(w) ==
    /\ pc[w] = "open"
    /\ Goto(w, "closing")
    /\ UNCHANGED <<deviceVars, cached, table, devTable, mutex, outbound, id, via>>

Forget(w) ==
    /\ pc[w] = "closing"
    /\ mutex[outbound[w]] = None
    /\ table' = [table EXCEPT ![outbound[w]] = Delete(@, id[w])]
    /\ Goto(w, "removing")
    /\ UNCHANGED <<deviceVars, cached, devTable, mutex, outbound, id, via>>

(* Mutant of RemoveStream: the device is not told. *)
RemoveStreamForgotten(w) ==
    /\ pc[w] = "removing"
    /\ Finish(w)
    /\ UNCHANGED <<deviceVars, cached, table, devTable, mutex>>

RemoveStream(w) ==
    /\ pc[w] = "removing"
    /\ devTable' = Delete(devTable, id[w])
    /\ Finish(w)
    /\ UNCHANGED <<deviceVars, cached, table, mutex>>

-----------------------------------------------------------------------------
GetOutbound(w) ==
    \/ LookUp(w) \/ CheckCached(w) \/ Evict(w) \/ RefuseOffline(w) \/ Store(w)
    \/ \E o \in Outbound : Create(w, o)

Dial(w) ==
    \/ DialWithoutConn(w) \/ StartDial(w) \/ FailToOpen(w) \/ OpenStream(w)
    \/ \E ok \in BOOLEAN : SendTarget(w, ok)
    \/ UndoDial(w)

CloseStream(w) == Close(w) \/ Forget(w) \/ RemoveStream(w)

DeviceStep ==
    \/ RegisterWSS \/ MarkOffline \/ LoseQUIC
    \/ \E c \in Conn : RegisterQUIC(c)

Next ==
    \/ DeviceStep
    \/ \E w \in Worker : GetOutbound(w) \/ Dial(w) \/ CloseStream(w)

Spec == Init /\ [][Next]_vars

(* sync.Mutex does not starve a waiter, OpenStreamSync and the write of    *)
(* the target address end, and a Close that has begun is carried through.  *)
FairSpec ==
    /\ Spec
    /\ \A w \in Worker :
          /\ WF_vars(FailToOpen(w) \/ OpenStream(w))
          /\ WF_vars(UndoDial(w) \/ \E ok \in BOOLEAN : SendTarget(w, ok))
          /\ SF_vars(Forget(w))
          /\ WF_vars(RemoveStream(w))

-----------------------------------------------------------------------------
(* Properties *)

(* q.streams does not leak: every entry is for a stream whose worker still *)
(* has it open and will delete that very key, though numbers are used      *)
(* again and a Close may delete the entry of another stream.               *)
TableOwned ==
    \A o \in Outbound : \A e \in table[o] :
        /\ pc[e.stream] \in {"sending", "failing", "open", "closing"}
        /\ outbound[e.stream] = o
        /\ id[e.stream] = e.id

(* Nor does Device.Streams, in which the streams of several outbound       *)
(* objects meet and to which a stream may be added after MarkOffline.      *)
DevTableOwned ==
    \A e \in devTable :
        /\ pc[e.stream] \in {"failing", "open", "closing", "removing"}
        /\ id[e.stream] = e.id

(* A worker holds q.mu exactly while it is dialing with that object, on    *)
(* every path out of Dial.                                                 *)
MutexHeldByDial ==
    \A o \in Outbound, w \in Worker :
        mutex[o] = w <=> outbound[w] = o /\ pc[w] \in {"opening", "sending", "failing"}

(* quicStreamConn.Close returns, though it waits for q.mu while another    *)
(* worker's Dial waits for a stream.                                       *)
CloseReturns ==
    \A w \in Worker : pc[w] = "closing" ~> pc[w] = "idle"

=============================================================================
