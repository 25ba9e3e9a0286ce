------------------------- MODULE OutboundPoolProofs -------------------------
(***************************************************************************)
(* Proofs about OutboundPool for any number of workers, outbound objects   *)
(* and connections: types, the use of q.mu, and that neither stream table  *)
(* leaks.                                                                  *)
(***************************************************************************)
EXTENDS OutboundPool, FiniteSetTheorems, TLAPS

USE NoneAssumption

(* The tables are finite, so their length is a number.                     *)
Finite == \A o \in Outbound : IsFiniteSet(table[o])

(* A worker past the pool has an outbound object in hand.                  *)
HasOutbound ==
    \A w \in Worker :
        pc[w] \in {"hit", "evict", "store", "have", "opening", "sending", "failing", "open",
                   "closing", "removing"}
            => outbound[w] \in Outbound

IInv == TypeOK /\ Finite /\ HasOutbound /\ MutexHeldByDial /\ TableOwned /\ DevTableOwned

(* What Insert and Delete leave in a table.                                *)
LEMMA InsertFacts ==
  ASSUME NEW t \in SUBSET Entry, IsFiniteSet(t), NEW k \in Nat, NEW w \in Worker
  PROVE  Insert(t, k, w) \in SUBSET Entry /\ IsFiniteSet(Insert(t, k, w))
<1>1. Delete(t, k) \subseteq t
  BY DEF Delete
<1>2. IsFiniteSet(Delete(t, k))
  BY <1>1, FS_Subset
<1>3. [id |-> k, stream |-> w] \in Entry
  BY DEF Entry
<1> QED BY <1>1, <1>2, <1>3, FS_AddElement DEF Insert

LEMMA DeleteFacts ==
  ASSUME NEW t \in SUBSET Entry, NEW k \in Nat
  PROVE  /\ Delete(t, k) \in SUBSET Entry
         /\ IsFiniteSet(t) => IsFiniteSet(Delete(t, k))
<1>1. Delete(t, k) \subseteq t
  BY DEF Delete
<1> QED BY <1>1, FS_Subset

LEMMA InitInv == Init => IInv
<1> SUFFICES ASSUME Init PROVE IInv
  OBVIOUS
<1> USE DEF Init
<1>1. TypeOK
  BY DEF TypeOK
<1>2. Finite
  BY FS_EmptySet DEF Finite
<1> QED BY <1>1, <1>2 DEF IInv, HasOutbound, MutexHeldByDial, TableOwned, DevTableOwned

(* Only worker w moves.                                                    *)
OnlyMoves(w) ==
    \A v \in Worker \ {w} :
        pc'[v] = pc[v] /\ outbound'[v] = outbound[v] /\ id'[v] = id[v]

(* Goto and Finish move one worker.                                        *)
LEMMA MovesOne ==
  ASSUME TypeOK, NEW w \in Worker,
         \/ Finish(w)
         \/ \E l : Goto(w, l) /\
              \/ UNCHANGED <<outbound, id>>
              \/ UNCHANGED outbound /\ \E n : id' = [id EXCEPT ![w] = n]
              \/ UNCHANGED id /\ \E n : outbound' = [outbound EXCEPT ![w] = n]
  PROVE  OnlyMoves(w)
  BY DEF TypeOK, Finish, Goto, OnlyMoves

(* A worker that has no stream is in no table, so its moves matter to none.*)
LEMMA NoStreamTable ==
  ASSUME IInv, NEW w \in Worker, OnlyMoves(w),
         pc[w] \notin {"sending", "failing", "open", "closing"},
         \A o \in Outbound : table'[o] \subseteq table[o]
  PROVE  TableOwned'
<1> SUFFICES ASSUME NEW o \in Outbound, NEW e \in table'[o]
             PROVE  /\ pc'[e.stream] \in {"sending", "failing", "open", "closing"}
                    /\ outbound'[e.stream] = o
                    /\ id'[e.stream] = e.id
  BY DEF TableOwned
<1>1. e \in table[o] /\ e.stream \in Worker
  BY DEF IInv, TypeOK, Entry
<1>2. e.stream # w
  BY <1>1 DEF IInv, TableOwned
<1> QED BY <1>1, <1>2 DEF IInv, TableOwned, OnlyMoves

LEMMA NoStreamDevTable ==
  ASSUME IInv, NEW w \in Worker, OnlyMoves(w),
         pc[w] \notin {"failing", "open", "closing", "removing"},
         devTable' \subseteq devTable
  PROVE  DevTableOwned'
<1> SUFFICES ASSUME NEW e \in devTable'
             PROVE  /\ pc'[e.stream] \in {"failing", "open", "closing", "removing"}
                    /\ id'[e.stream] = e.id
  BY DEF DevTableOwned
<1>1. e \in devTable /\ e.stream \in Worker
  BY DEF IInv, TypeOK, Entry
<1>2. e.stream # w
  BY <1>1 DEF IInv, DevTableOwned
<1> QED BY <1>1, <1>2 DEF IInv, DevTableOwned, OnlyMoves

(* Steps of the device: they touch Device.Streams only to empty it.        *)
LEMMA DeviceInv == ASSUME IInv, DeviceStep PROVE IInv'
<1>1. /\ UNCHANGED <<table, mutex, pc, outbound, id, via, cached>>
      /\ devTable' \in {devTable, {}}
      /\ wss' \in BOOLEAN /\ alive' \in BOOLEAN /\ conn' \in Conn \cup {None}
  BY DEF IInv, TypeOK, DeviceStep, RegisterWSS, RegisterQUIC, MarkOffline, LoseQUIC,
     workerVars
<1>2. TypeOK'
  BY <1>1 DEF IInv, TypeOK
<1>3. Finite' /\ HasOutbound' /\ MutexHeldByDial' /\ TableOwned'
  BY <1>1 DEF IInv, Finite, HasOutbound, MutexHeldByDial, TableOwned
<1>4. DevTableOwned'
  BY <1>1 DEF IInv, DevTableOwned
<1> QED BY <1>2, <1>3, <1>4 DEF IInv

(* Steps before a stream exists: the worker is in neither table.           *)
LEMMA PoolInv ==
  ASSUME IInv, NEW w \in Worker,
         LookUp(w) \/ CheckCached(w) \/ Evict(w) \/ RefuseOffline(w) \/ Store(w)
  PROVE  IInv'
<1>0. OnlyMoves(w)
  BY MovesOne DEF IInv, LookUp, CheckCached, Evict, RefuseOffline, Store
<1>1. pc[w] \in {"idle", "hit", "evict", "miss", "store"}
      /\ UNCHANGED <<table, devTable, mutex>>
  BY DEF LookUp, CheckCached, Evict, RefuseOffline, Store
<1>2. TypeOK' /\ HasOutbound'
  BY DEF IInv, TypeOK, HasOutbound, LookUp, CheckCached, Evict, RefuseOffline, Store,
     Goto, Finish, deviceVars
<1>3. Finite'
  BY <1>1 DEF IInv, Finite
<1>4. MutexHeldByDial'
  BY DEF IInv, TypeOK, MutexHeldByDial, LookUp, CheckCached, Evict, RefuseOffline, Store,
     Goto, Finish
<1>5. TableOwned' /\ DevTableOwned'
  BY <1>0, <1>1, NoStreamTable, NoStreamDevTable
<1> QED BY <1>2, <1>3, <1>4, <1>5 DEF IInv

LEMMA CreateInv ==
  ASSUME IInv, NEW w \in Worker, NEW o \in Outbound, Create(w, o)
  PROVE  IInv'
<1>0. OnlyMoves(w)
  BY MovesOne DEF IInv, Create
<1>1. TypeOK' /\ HasOutbound'
  BY DEF IInv, TypeOK, HasOutbound, Create, Goto, deviceVars
<1>2. Finite'
  BY FS_EmptySet DEF IInv, TypeOK, Finite, Create
<1>3. MutexHeldByDial'
  BY DEF IInv, TypeOK, MutexHeldByDial, Create, Goto
<1>4. \A p \in Outbound : table'[p] \subseteq table[p]
  BY DEF IInv, TypeOK, Create
<1>5. TableOwned' /\ DevTableOwned'
  BY <1>0, <1>4, NoStreamTable, NoStreamDevTable DEF Create
<1> QED BY <1>1, <1>2, <1>3, <1>5 DEF IInv

(* Dial up to the point where the stream exists.                           *)
LEMMA StartDialInv ==
  ASSUME IInv, NEW w \in Worker, DialWithoutConn(w) \/ StartDial(w) \/ FailToOpen(w)
  PROVE  IInv'
<1>0. OnlyMoves(w)
  BY MovesOne DEF IInv, DialWithoutConn, StartDial, FailToOpen
<1>1. pc[w] \in {"have", "opening"} /\ UNCHANGED <<table, devTable>>
  BY DEF DialWithoutConn, StartDial, FailToOpen
<1>2. outbound[w] \in Outbound
  BY <1>1 DEF IInv, HasOutbound
<1>3. Cardinality(table[outbound[w]]) \in Nat
  BY <1>2, FS_CardinalityType DEF IInv, Finite
<1>4. TypeOK' /\ HasOutbound'
  BY <1>2, <1>3 DEF IInv, TypeOK, HasOutbound, DialWithoutConn, StartDial, FailToOpen,
     Goto, Finish, deviceVars
<1>5. Finite'
  BY <1>1 DEF IInv, Finite
<1>6. MutexHeldByDial'
  BY <1>2 DEF IInv, TypeOK, MutexHeldByDial, HasOutbound, DialWithoutConn, StartDial,
     FailToOpen, Goto, Finish
<1>7. TableOwned' /\ DevTableOwned'
  BY <1>0, <1>1, NoStreamTable, NoStreamDevTable
<1> QED BY <1>4, <1>5, <1>6, <1>7 DEF IInv

(* A stream is entered in q.streams under its worker's number.             *)
LEMMA OpenStreamInv == ASSUME IInv, NEW w \in Worker, OpenStream(w) PROVE IInv'
<1> DEFINE o == outbound[w]
           k == id[w]
<1>0. o \in Outbound /\ k \in Nat /\ pc[w] = "opening"
  BY DEF IInv, HasOutbound, TypeOK, OpenStream
<1>1. /\ table' = [table EXCEPT ![o] = Insert(table[o], k, w)]
      /\ pc' = [pc EXCEPT ![w] = "sending"]
      /\ UNCHANGED <<wss, conn, alive, cached, devTable, mutex, outbound, id, via>>
  BY DEF OpenStream, Goto, deviceVars
<1>2. Insert(table[o], k, w) \in SUBSET Entry /\ IsFiniteSet(Insert(table[o], k, w))
  BY <1>0, InsertFacts DEF IInv, TypeOK, Finite
<1>3. TypeOK'
  BY <1>0, <1>1, <1>2 DEF IInv, TypeOK
<1>4. Finite' /\ HasOutbound' /\ MutexHeldByDial'
  BY <1>0, <1>1, <1>2 DEF IInv, TypeOK, Finite, HasOutbound, MutexHeldByDial
<1>5. TableOwned'
  <2> SUFFICES ASSUME NEW p \in Outbound, NEW e \in table'[p]
               PROVE  /\ pc'[e.stream] \in {"sending", "failing", "open", "closing"}
                      /\ outbound'[e.stream] = p
                      /\ id'[e.stream] = e.id
    BY DEF TableOwned
  <2>1. CASE e \in table[p]
    <3>1. e.stream \in Worker
      BY <2>1 DEF IInv, TypeOK, Entry
    <3> QED BY <1>1, <2>1, <3>1 DEF IInv, TypeOK, TableOwned
  <2>2. CASE p = o /\ e = [id |-> k, stream |-> w]
    BY <1>0, <1>1, <2>2 DEF IInv, TypeOK
  <2>3. e \in table[p] \/ (p = o /\ e = [id |-> k, stream |-> w])
    BY <1>0, <1>1 DEF IInv, TypeOK, Insert, Delete
  <2> QED BY <2>1, <2>2, <2>3
<1>6. DevTableOwned'
  <2>1. OnlyMoves(w)
    BY <1>1 DEF OnlyMoves, IInv, TypeOK
  <2> QED BY <2>1, <1>0, <1>1, NoStreamDevTable
<1> QED BY <1>3, <1>4, <1>5, <1>6 DEF IInv

(* The stream is entered in Device.Streams, and the target is sent.        *)
LEMMA SendTargetInv ==
  ASSUME IInv, NEW w \in Worker, NEW ok \in BOOLEAN, SendTarget(w, ok)
  PROVE  IInv'
<1> DEFINE k == id[w]
<1>0. outbound[w] \in Outbound /\ k \in Nat /\ pc[w] = "sending"
  BY DEF IInv, HasOutbound, TypeOK, SendTarget
<1>1. /\ devTable' = Insert(devTable, k, w)
      /\ UNCHANGED <<wss, conn, alive, cached, table, outbound, id, via>>
      /\ \/ /\ pc' = [pc EXCEPT ![w] = "open"]
            /\ mutex' = [mutex EXCEPT ![outbound[w]] = None]
         \/ pc' = [pc EXCEPT ![w] = "failing"] /\ UNCHANGED mutex
  BY DEF SendTarget, Goto, deviceVars
<1>2. TypeOK'
  <2>1. Insert(devTable, k, w) \in SUBSET Entry
    BY <1>0 DEF IInv, TypeOK, Insert, Delete, Entry
  <2> QED BY <1>0, <1>1, <2>1 DEF IInv, TypeOK
<1>3. Finite' /\ HasOutbound'
  BY <1>0, <1>1 DEF IInv, TypeOK, Finite, HasOutbound
<1>4. MutexHeldByDial'
  BY <1>0, <1>1 DEF IInv, TypeOK, MutexHeldByDial, HasOutbound
<1>5. TableOwned'
  <2> SUFFICES ASSUME NEW p \in Outbound, NEW e \in table[p]
               PROVE  /\ pc'[e.stream] \in {"sending", "failing", "open", "closing"}
                      /\ outbound'[e.stream] = p
                      /\ id'[e.stream] = e.id
    BY <1>1 DEF TableOwned
  <2>1. e.stream \in Worker
    BY DEF IInv, TypeOK, Entry
  <2> QED BY <1>0, <1>1, <2>1 DEF IInv, TypeOK, TableOwned
<1>6. DevTableOwned'
  <2> SUFFICES ASSUME NEW e \in devTable'
               PROVE  /\ pc'[e.stream] \in {"failing", "open", "closing", "removing"}
                      /\ id'[e.stream] = e.id
    BY DEF DevTableOwned
  <2>1. CASE e \in devTable
    <3>1. e.stream \in Worker
      BY <2>1 DEF IInv, TypeOK, Entry
    <3> QED BY <1>1, <2>1, <3>1 DEF IInv, TypeOK, DevTableOwned
  <2>2. CASE e = [id |-> k, stream |-> w]
    BY <1>0, <1>1, <2>2 DEF IInv, TypeOK
  <2> QED BY <1>1, <2>1, <2>2 DEF Insert, Delete
<1> QED BY <1>2, <1>3, <1>4, <1>5, <1>6 DEF IInv

(* Deleting the key of w from its table takes w out of every table, since  *)
(* its entry can be nowhere else.                                          *)
LEMMA ForgetTable ==
  ASSUME IInv, NEW w \in Worker, OnlyMoves(w), outbound[w] \in Outbound,
         table' = [table EXCEPT ![outbound[w]] = Delete(table[outbound[w]], id[w])]
  PROVE  TableOwned' /\ Finite' /\ table' \in [Outbound -> SUBSET Entry]
<1>1. id[w] \in Nat
  BY DEF IInv, TypeOK
<1>2. Finite' /\ table' \in [Outbound -> SUBSET Entry]
  BY <1>1, DeleteFacts DEF IInv, TypeOK, Finite
<1>3. ASSUME NEW p \in Outbound, NEW e \in table'[p]
      PROVE  e \in table[p] /\ e.stream \in Worker \ {w}
  <2>1. e \in table[p]
    BY DEF IInv, TypeOK, Delete
  <2>2. e.stream \in Worker
    BY <2>1 DEF IInv, TypeOK, Entry
  <2>3. e.stream = w => p = outbound[w] /\ e.id = id[w]
    BY <2>1 DEF IInv, TableOwned
  <2>4. p = outbound[w] => e.id # id[w]
    BY DEF IInv, TypeOK, Delete
  <2> QED BY <2>1, <2>2, <2>3, <2>4
<1> QED BY <1>2, <1>3 DEF IInv, TableOwned, OnlyMoves

LEMMA ForgetDevTable ==
  ASSUME IInv, NEW w \in Worker, OnlyMoves(w), devTable' = Delete(devTable, id[w])
  PROVE  DevTableOwned' /\ devTable' \in SUBSET Entry
<1>1. ASSUME NEW e \in devTable'
      PROVE  e \in devTable /\ e.stream \in Worker \ {w}
  <2>1. e \in devTable /\ e.id # id[w]
    BY DEF Delete
  <2> QED BY <2>1 DEF IInv, TypeOK, Entry, DevTableOwned
<1> QED BY <1>1 DEF IInv, TypeOK, DevTableOwned, OnlyMoves

LEMMA UndoDialInv == ASSUME IInv, NEW w \in Worker, UndoDial(w) PROVE IInv'
<1>0. OnlyMoves(w)
  BY MovesOne DEF IInv, UndoDial
<1>1. outbound[w] \in Outbound /\ pc[w] = "failing"
  BY DEF IInv, HasOutbound, UndoDial
<1>2. TableOwned' /\ Finite' /\ table' \in [Outbound -> SUBSET Entry]
  BY <1>0, <1>1, ForgetTable DEF UndoDial
<1>3. DevTableOwned' /\ devTable' \in SUBSET Entry
  BY <1>0, ForgetDevTable DEF UndoDial
<1>4. TypeOK' /\ HasOutbound'
  BY <1>1, <1>2, <1>3 DEF IInv, TypeOK, HasOutbound, UndoDial, Finish, deviceVars
<1>5. MutexHeldByDial'
  BY <1>1 DEF IInv, TypeOK, MutexHeldByDial, HasOutbound, UndoDial, Finish
<1> QED BY <1>2, <1>3, <1>4, <1>5 DEF IInv

LEMMA CloseInv == ASSUME IInv, NEW w \in Worker, Close(w) PROVE IInv'
<1>0. pc[w] = "open" /\ pc' = [pc EXCEPT ![w] = "closing"]
      /\ UNCHANGED <<wss, conn, alive, cached, table, devTable, mutex, outbound, id, via>>
  BY DEF Close, Goto, deviceVars
<1>1. TypeOK' /\ Finite' /\ HasOutbound' /\ MutexHeldByDial'
  BY <1>0 DEF IInv, TypeOK, Finite, HasOutbound, MutexHeldByDial
<1>2. \A v \in Worker :
         /\ pc[v] \in {"sending", "failing", "open", "closing"}
              => pc'[v] \in {"sending", "failing", "open", "closing"}
         /\ pc[v] \in {"failing", "open", "closing", "removing"}
              => pc'[v] \in {"failing", "open", "closing", "removing"}
  BY <1>0 DEF IInv, TypeOK
<1>3. /\ \A o \in Outbound : \A e \in table[o] : e.stream \in Worker
      /\ \A e \in devTable : e.stream \in Worker
  BY DEF IInv, TypeOK, Entry
<1>4. TableOwned' /\ DevTableOwned'
  BY <1>0, <1>2, <1>3 DEF IInv, TableOwned, DevTableOwned
<1> QED BY <1>1, <1>4 DEF IInv

LEMMA ForgetInv == ASSUME IInv, NEW w \in Worker, Forget(w) PROVE IInv'
<1>0. OnlyMoves(w)
  BY MovesOne DEF IInv, Forget
<1>1. outbound[w] \in Outbound /\ pc[w] = "closing"
  BY DEF IInv, HasOutbound, Forget
<1>2. TableOwned' /\ Finite' /\ table' \in [Outbound -> SUBSET Entry]
  BY <1>0, <1>1, ForgetTable DEF Forget
<1>3. TypeOK' /\ HasOutbound'
  BY <1>1, <1>2 DEF IInv, TypeOK, HasOutbound, Forget, Goto, deviceVars
<1>4. MutexHeldByDial'
  BY <1>1 DEF IInv, TypeOK, MutexHeldByDial, Forget, Goto
<1>5. DevTableOwned'
  <2>1. \A e \in devTable : e.stream \in Worker
    BY DEF IInv, TypeOK, Entry
  <2> QED BY <2>1 DEF IInv, TypeOK, DevTableOwned, Forget, Goto
<1> QED BY <1>2, <1>3, <1>4, <1>5 DEF IInv

LEMMA RemoveStreamInv == ASSUME IInv, NEW w \in Worker, RemoveStream(w) PROVE IInv'
<1>0. OnlyMoves(w)
  BY MovesOne DEF IInv, RemoveStream
<1>1. pc[w] = "removing" /\ UNCHANGED table
  BY DEF RemoveStream
<1>2. DevTableOwned' /\ devTable' \in SUBSET Entry
  BY <1>0, ForgetDevTable DEF RemoveStream
<1>3. TypeOK' /\ HasOutbound'
  BY <1>2 DEF IInv, TypeOK, HasOutbound, RemoveStream, Finish, deviceVars
<1>4. MutexHeldByDial' /\ Finite'
  BY <1>1 DEF IInv, TypeOK, MutexHeldByDial, Finite, RemoveStream, Finish
<1>5. TableOwned'
  BY <1>0, <1>1, NoStreamTable
<1> QED BY <1>2, <1>3, <1>4, <1>5 DEF IInv

LEMMA StutterInv == ASSUME IInv, UNCHANGED vars PROVE IInv'
  BY DEF IInv, vars, deviceVars, workerVars, TypeOK, Finite, HasOutbound,
     MutexHeldByDial, TableOwned, DevTableOwned

(* The inductive invariant.                                                *)
THEOREM Invariant == Spec => []IInv
<1>1. ASSUME IInv, [Next]_vars PROVE IInv'
  <2>1. ASSUME NEW w \in Worker, GetOutbound(w) PROVE IInv'
    BY <1>1, <2>1, PoolInv, CreateInv DEF GetOutbound
  <2>2. ASSUME NEW w \in Worker, Dial(w) PROVE IInv'
    BY <1>1, <2>2, StartDialInv, OpenStreamInv, SendTargetInv, UndoDialInv DEF Dial
  <2>3. ASSUME NEW w \in Worker, CloseStream(w) PROVE IInv'
    BY <1>1, <2>3, CloseInv, ForgetInv, RemoveStreamInv DEF CloseStream
  <2> QED BY <1>1, <2>1, <2>2, <2>3, DeviceInv, StutterInv DEF Next
<1> QED BY <1>1, InitInv, PTL DEF Spec

(* Neither stream table leaks, for any number of workers, outbound objects *)
(* and connections.                                                        *)
THEOREM TablesDoNotLeak == Spec => [](TableOwned /\ DevTableOwned)
<1>1. IInv => TableOwned /\ DevTableOwned
  BY DEF IInv
<1> QED BY <1>1, Invariant, PTL

(* q.mu is held exactly while a dial is under way: every way out of Dial   *)
(* gives it back.                                                          *)
THEOREM MutexReleased == Spec => []MutexHeldByDial
<1>1. IInv => MutexHeldByDial
  BY DEF IInv
<1> QED BY <1>1, Invariant, PTL

(* Type correctness: conn_ids are numbers, and what a worker holds of the  *)
(* pool or of a stream is an outbound object or nil.                       *)
THEOREM TypeCorrect == Spec => []TypeOK
<1>1. IInv => TypeOK
  BY DEF IInv
<1> QED BY <1>1, Invariant, PTL

(* Device.Streams, which is keyed by the number of a connection too: each  *)
(* entry belongs to a stream that has yet to remove it.                    *)
THEOREM DevTableDoesNotLeak == Spec => []DevTableOwned
<1>1. IInv => DevTableOwned
  BY DEF IInv
<1> QED BY <1>1, Invariant, PTL

=============================================================================
