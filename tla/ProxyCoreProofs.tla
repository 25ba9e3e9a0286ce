--------------------------- MODULE ProxyCoreProofs ---------------------------
(***************************************************************************)
(* Proofs about ProxyCore for any set of connections and devices: types,   *)
(* and that the statistics of the inbound and of each outbound are known   *)
(* from the connections.                                                   *)
(***************************************************************************)
EXTENDS ProxyCore, FiniteSetTheorems, TLAPS

-----------------------------------------------------------------------------
(* Sums over a set of connections *)

LEMMA InUnits ==
  ASSUME NEW C, NEW f
  PROVE  /\ \A c, n : <<c, n>> \in Units(C, f) <=> c \in C /\ n \in 1 .. f[c]
         /\ \A u \in Units(C, f) : u = <<u[1], u[2]>>
  BY DEF Units

(* Sets of units with the same members are the same. *)
LEMMA UnitsEqual ==
  ASSUME NEW S, NEW T,
         \A u \in S : u = <<u[1], u[2]>>, \A u \in T : u = <<u[1], u[2]>>,
         \A c, n : <<c, n>> \in S <=> <<c, n>> \in T
  PROVE  S = T
<1>1. ASSUME NEW u \in S PROVE u \in T
  <2>1. u = <<u[1], u[2]>>
    OBVIOUS
  <2>2. <<u[1], u[2]>> \in T
    BY <2>1
  <2> QED BY <2>1, <2>2
<1>2. ASSUME NEW u \in T PROVE u \in S
  <2>1. u = <<u[1], u[2]>>
    OBVIOUS
  <2>2. <<u[1], u[2]>> \in S
    BY <2>1
  <2> QED BY <2>1, <2>2
<1> QED BY <1>1, <1>2

LEMMA SameUnits ==
  ASSUME NEW C, NEW f, NEW g, \A c \in C : f[c] = g[c]
  PROVE  Units(C, f) = Units(C, g)
<1>1. \A c, n : <<c, n>> \in Units(C, f) <=> <<c, n>> \in Units(C, g)
  BY InUnits
<1>2. \A u \in Units(C, f) : u = <<u[1], u[2]>>
  BY InUnits
<1>3. \A u \in Units(C, g) : u = <<u[1], u[2]>>
  BY InUnits
<1> QED BY <1>1, <1>2, <1>3, UnitsEqual

(* A connection without units adds nothing to a sum. *)
LEMMA EmptyUnits ==
  ASSUME NEW C, NEW f, NEW c, f[c] = 0
  PROVE  Units(C \cup {c}, f) = Units(C, f)
<1>1. 1 .. f[c] = {}
  OBVIOUS
<1>2. ASSUME NEW x, NEW n
      PROVE  <<x, n>> \in Units(C \cup {c}, f) <=> <<x, n>> \in Units(C, f)
  <2>1. CASE x = c
    BY <1>1, <2>1, InUnits
  <2>2. CASE x # c
    BY <2>2, InUnits
  <2> QED BY <2>1, <2>2
<1>3. \A u \in Units(C, f) : u = <<u[1], u[2]>>
  BY InUnits
<1>4. \A u \in Units(C \cup {c}, f) : u = <<u[1], u[2]>>
  BY InUnits
<1> QED BY <1>2, <1>3, <1>4, UnitsEqual

(* When f grows by k for one connection, so does the sum. *)
LEMMA AddUnits ==
  ASSUME NEW C, NEW f, NEW g, NEW c \in C, NEW k \in Nat,
         f[c] \in Nat, g[c] = f[c] + k, \A x \in C \ {c} : g[x] = f[x],
         IsFiniteSet(Units(C, f))
  PROVE  IsFiniteSet(Units(C, g)) /\ Total(C, g) = Total(C, f) + k
<1> DEFINE a == f[c]
           More == a + 1 .. a + k
           New == {c} \X More
<1>0. a \in Nat
  OBVIOUS
<1>1. IsFiniteSet(New) /\ Cardinality(New) = k
  <2>1. IsFiniteSet({c}) /\ Cardinality({c}) = 1
    BY FS_Singleton
  <2>2. IsFiniteSet(More) /\ Cardinality(More) = k
    <3> DEFINE lo == a + 1
               hi == a + k
    <3>1. lo \in Int /\ hi \in Int /\ (IF lo > hi THEN 0 ELSE hi - lo + 1) = k
      BY <1>0
    <3> HIDE DEF lo, hi
    <3>2. /\ IsFiniteSet(lo .. hi)
          /\ Cardinality(lo .. hi) = IF lo > hi THEN 0 ELSE hi - lo + 1
      BY <3>1, FS_Interval
    <3>3. More = lo .. hi
      BY DEF lo, hi
    <3> QED BY <3>1, <3>2, <3>3
  <2> HIDE DEF More
  <2>3. IsFiniteSet(New) /\ Cardinality(New) = Cardinality({c}) * Cardinality(More)
    BY <2>1, <2>2, FS_Product
  <2> QED BY <2>1, <2>2, <2>3
<1>2. Units(C, g) = Units(C, f) \cup New
  <2>1. \A x, n : <<x, n>> \in New <=> x = c /\ n \in More
    <3> HIDE DEF More
    <3> QED OBVIOUS
  <2>2. \A n : n \in 1 .. g[c] <=> n \in 1 .. f[c] \/ n \in More
    OBVIOUS
  <2>4. \A u \in New : u = <<u[1], u[2]>>
    OBVIOUS
  <2> HIDE DEF New, More
  <2>3. ASSUME NEW x, NEW n
        PROVE  <<x, n>> \in Units(C, g) <=> <<x, n>> \in Units(C, f) \cup New
    <3>1. CASE x = c
      BY <2>1, <2>2, <3>1, InUnits
    <3>2. CASE x # c
      BY <2>1, <3>2, InUnits
    <3> QED BY <3>1, <3>2
  <2>5. \A u \in Units(C, f) \cup New : u = <<u[1], u[2]>>
    BY <2>4, InUnits
  <2>6. \A u \in Units(C, g) : u = <<u[1], u[2]>>
    BY InUnits
  <2> QED BY <2>3, <2>5, <2>6, UnitsEqual
<1>3. Units(C, f) \cap New = {}
  <2>1. SUFFICES ASSUME NEW u \in New, u \in Units(C, f) PROVE FALSE
    OBVIOUS
  <2>2. u = <<u[1], u[2]>> /\ u[1] = c /\ u[2] \in More
    OBVIOUS
  <2>3. u[2] \in 1 .. f[c]
    BY <2>1, <2>2, InUnits
  <2> QED BY <2>2, <2>3
<1> HIDE DEF New
<1>4. Cardinality(Units(C, f)) \in Nat
  BY FS_CardinalityType
<1>5. /\ IsFiniteSet(Units(C, f) \cup New)
      /\ Cardinality(Units(C, f) \cup New)
            = Cardinality(Units(C, f)) + Cardinality(New) - Cardinality(Units(C, f) \cap New)
  BY <1>1, FS_Union
<1>6. Cardinality(Units(C, f) \cap New) = 0
  BY <1>3, FS_EmptySet
<1>7. Cardinality(Units(C, g)) = Cardinality(Units(C, f)) + k
  BY <1>1, <1>2, <1>4, <1>5, <1>6
<1> QED BY <1>2, <1>5, <1>7 DEF Total

-----------------------------------------------------------------------------
(* Types *)

TypeInv == TypeOK /\ IsFiniteSet(online)

LEMMA CountingRange == ASSUME NEW c \in Conn PROVE Counting(c) \in {0, 1, 2}
  BY DEF Counting

LEMMA AddConnectionType == ASSUME NEW s \in Stats PROVE AddConnection(s) \in Stats
  BY DEF AddConnection, Stats

LEMMA AddBytesType ==
  ASSUME NEW s \in Stats, NEW t \in [Direction -> Nat] PROVE AddBytes(s, t) \in Stats
<1> DEFINE x == s.sent + t["sent"]
           y == s.received + t["received"]
<1>1. x \in Nat /\ y \in Nat
  BY DEF Direction, Stats
<1> HIDE DEF x, y
<1>2. AddBytes(s, t) = [s EXCEPT !.sent = x, !.received = y]
  BY DEF AddBytes, x, y
<1> QED BY <1>1, <1>2 DEF Stats

LEMMA NoTrafficType ==
  ASSUME NEW d \in Direction
  PROVE  /\ [NoTraffic EXCEPT ![d] = 1] \in [Direction -> Nat]
         /\ \A e \in Direction : [NoTraffic EXCEPT ![d] = 1][e] = IF e = d THEN 1 ELSE 0
  BY DEF NoTraffic

LEMMA CountBytesType ==
  ASSUME TypeOK, NEW c \in Conn, NEW t \in [Direction -> Nat], CountBytes(c, t)
  PROVE  inbound' \in Stats /\ outbound' \in [Outbound -> Stats]
  BY AddBytesType DEF CountBytes, TypeOK

(* A list of the devices that are online names only devices, and is empty  *)
(* only if none is.                                                        *)
LEMMA ListType ==
  ASSUME IsFiniteSet(online), online \subseteq Device, online # {}, NEW s \in SetToSeqs(online)
  PROVE  s \in Seq(Device) /\ s # <<>>
<1>1. Cardinality(online) \in Nat \ {0}
  BY FS_CardinalityType, FS_EmptySet
<1>2. s \in [1 .. Cardinality(online) -> online]
  BY DEF SetToSeqs
<1> DEFINE n == Cardinality(online)
<1> HIDE DEF n
<1>3. n \in Nat \ {0} /\ s \in [1 .. n -> Device]
  BY <1>1, <1>2 DEF n
<1>4. s \in Seq(Device) /\ Len(s) = n
  BY <1>3
<1> QED BY <1>3, <1>4

LEMMA UseOutboundType ==
  ASSUME TypeOK, NEW c \in Conn, NEW o \in Outbound, UseOutbound(c, o),
         pc[c] \notin {"picking", "closed"}, UNCHANGED listed
  PROVE  /\ pc' \in [Conn -> {"new", "routing", "picking", "checking", "getting", "dialing",
                              "relaying", "closed"}]
         /\ \A x \in Conn : pc'[x] = "picking" <=> listed'[x] # <<>>
         /\ carrier' \in [Conn -> Outbound]
         /\ outboundID' \in [Conn -> Outbound]
         /\ outbound' \in [Outbound -> Stats]
  BY AddConnectionType DEF UseOutbound, TypeOK

LEMMA SelectOutboundType ==
  ASSUME TypeInv, NEW c \in Conn, SelectOutbound(c) PROVE TypeInv'
<1> USE DEF TypeInv
<1>0. Static \in Outbound /\ \A d \in Device : d \in Outbound
  BY DEF Outbound
<1>1. CASE SelectStatic(c) \/ FallBackOnEmptyPool(c)
  BY <1>0, <1>1, UseOutboundType
     DEF SelectStatic, FallBackOnEmptyPool, UseOutbound, TypeOK, routeVars
<1>2. CASE ListDevices(c)
  BY <1>2, ListType DEF ListDevices, TypeOK
<1>3. CASE PickDevice(c)
  <2>1. listed[c] \in Seq(Device) /\ listed[c] # <<>>
    BY <1>3 DEF PickDevice, TypeOK
  <2> DEFINE s == listed[c]
             i == (index % Len(s)) + 1
  <2>2. Len(s) \in Nat \ {0} /\ index \in Nat
    BY <2>1 DEF TypeOK
  <2>3. i \in 1 .. Len(s)
    <3> DEFINE n == Len(s)
    <3>1. \A k \in Nat, m \in Nat \ {0} : (k % m) + 1 \in 1 .. m
      OBVIOUS
    <3> HIDE DEF s
    <3> QED BY <2>2, <3>1
  <2>4. s[i] \in Outbound
    BY <2>1, <2>3 DEF Outbound
  <2>5. (index + 1) % IndexPeriod \in 0 .. IndexPeriod - 1
    BY <2>2, IndexAssumption
  <2> HIDE DEF s, i
  <2>6. picked' = [picked EXCEPT ![c] = s[i]]
    BY <1>3 DEF PickDevice, s, i
  <2> QED BY <1>3, <2>4, <2>5, <2>6 DEF PickDevice, TypeOK
<1>4. CASE CheckPicked(c)
  BY <1>0, <1>4, UseOutboundType DEF CheckPicked, UseOutbound, TypeOK, routeVars
<1>5. CASE GetOutbound(c)
  <2> DEFINE o == IF picked[c] \in online THEN picked[c] ELSE Static
  <2>1. o \in Outbound
    BY <1>0 DEF TypeOK
  <2> HIDE DEF o
  <2>2. UseOutbound(c, o)
    BY <1>5 DEF GetOutbound, o
  <2> QED BY <1>5, <2>1, <2>2, UseOutboundType DEF GetOutbound, TypeOK, routeVars
<1> QED BY <1>1, <1>2, <1>3, <1>4, <1>5 DEF SelectOutbound

LEMMA StepType == TypeInv /\ [Next]_vars => TypeInv'
<1> SUFFICES ASSUME TypeInv, [Next]_vars PROVE TypeInv'
  OBVIOUS
<1>1. ASSUME NEW c \in Conn, OnInboundConnection(c) PROVE TypeInv'
  BY <1>1, AddConnectionType DEF OnInboundConnection, TypeInv, TypeOK, routeVars
<1>2. ASSUME NEW c \in Conn, DialSucceeds(c) PROVE TypeInv'
  BY <1>2 DEF DialSucceeds, TypeInv, TypeOK, routeVars
<1>3. ASSUME NEW c \in Conn, DialFails(c) \/ FinishRelay(c) PROVE TypeInv'
  <2>1. ctx[c] \in [Direction -> Nat] /\ CountBytes(c, ctx[c])
    BY <1>3 DEF DialFails, FinishRelay, OnConnectionClosed, TypeInv, TypeOK
  <2>2. inbound' \in Stats /\ outbound' \in [Outbound -> Stats]
    BY <2>1, CountBytesType DEF TypeInv
  <2> QED BY <1>3, <2>2 DEF DialFails, FinishRelay, TypeInv, TypeOK, routeVars
<1>4. ASSUME NEW c \in Conn, NEW d \in Direction, Transfer(c, d) PROVE TypeInv'
  <2>1. inbound' \in Stats /\ outbound' \in [Outbound -> Stats]
    BY <1>4, CountBytesType, NoTrafficType DEF Transfer, OnDataTransfer, TypeInv
  <2>2. ctx' \in [Conn -> [Direction -> Nat]]
    <3> DEFINE k == Counting(c)
    <3>1. k \in Nat /\ ctx' = [ctx EXCEPT ![c][d] = @ + k]
      BY <1>4, CountingRange DEF Transfer, OnDataTransfer
    <3> HIDE DEF k
    <3> QED BY <3>1 DEF TypeInv, TypeOK
  <2>3. relayed' \in [Conn -> [Direction -> 0 .. MaxChunks]]
    BY <1>4, MaxChunksAssumption DEF Transfer, TypeInv, TypeOK
  <2> QED BY <1>4, <2>1, <2>2, <2>3 DEF Transfer, TypeInv, TypeOK, routeVars
<1>5. ASSUME NEW d \in Device, DeviceOnline(d) \/ DeviceOffline(d) PROVE TypeInv'
  <2>1. IsFiniteSet(online')
    BY <1>5, FS_AddElement, FS_RemoveElement DEF DeviceOnline, DeviceOffline, TypeInv
  <2> QED BY <1>5, <2>1 DEF DeviceOnline, DeviceOffline, TypeInv, TypeOK, routeVars
<1>6. CASE UNCHANGED vars
  BY <1>6 DEF vars, routeVars, TypeInv, TypeOK
<1> QED BY <1>1, <1>2, <1>3, <1>4, <1>5, <1>6, SelectOutboundType DEF Next, HandleConnection

LEMMA InitType == Init => TypeInv
<1> SUFFICES ASSUME Init PROVE TypeInv
  OBVIOUS
<1>1. Static \in Outbound /\ NoTraffic \in [Direction -> 0 .. MaxChunks]
  BY MaxChunksAssumption DEF Outbound, NoTraffic
<1>2. NoTraffic \in [Direction -> Nat]
  BY DEF NoTraffic
<1>3. [conns |-> 0, sent |-> 0, received |-> 0] \in Stats
  BY DEF Stats
<1>4. IsFiniteSet(online)
  BY FS_EmptySet DEF Init
<1>5. index \in 0 .. IndexPeriod - 1
  BY IndexAssumption DEF Init
<1> QED BY <1>1, <1>2, <1>3, <1>4, <1>5 DEF Init, TypeInv, TypeOK

(* Type correctness: a connection that picks a device has a list to pick   *)
(* from (RoundRobinStrategy.Select would divide by zero), and each one is  *)
(* carried by an outbound of this server.                                  *)
THEOREM TypeCorrect == Spec => []TypeOK
<1>1. TypeInv => TypeOK
  BY DEF TypeInv
<1> QED BY <1>1, InitType, StepType, PTL DEF Spec

-----------------------------------------------------------------------------
(* The statistics *)

Started == {c \in Conn : pc[c] # "new"}

(* What the context of a connection holds on the way: the outbound that    *)
(* carries it, and each chunk once per plugin that counts it.              *)
ConnInv ==
    /\ \A c \in Conn :
          pc[c] \in {"dialing", "relaying", "closed"} => outboundID[c] = carrier[c]
    /\ \A c \in Conn, d \in Direction : ctx[c][d] = relayed[c][d] * Counting(c)
    /\ \A c \in Conn, d \in Direction :
          pc[c] \notin {"relaying", "closed"} => relayed[c][d] = 0

(* However many connections there may be, finitely many have been accepted,*)
(* so that the sums over them are numbers.                                 *)
Finite ==
    /\ IsFiniteSet(Started)
    /\ \A d \in Direction : IsFiniteSet(Units(Conn, Counted(d)))

IInv == TypeInv /\ ConnInv /\ Finite /\ InboundTotals /\ OutboundTotals

LEMMA AddFacts ==
  ASSUME NEW s \in Stats
  PROVE  /\ AddConnection(s).conns = s.conns + 1
         /\ \A d \in Direction : AddConnection(s)[d] = s[d]
         /\ \A t \in [Direction -> Nat] :
               /\ AddBytes(s, t).conns = s.conns
               /\ \A d \in Direction : AddBytes(s, t)[d] = s[d] + t[d]
  BY DEF AddConnection, AddBytes, Stats, Direction

LEMMA CountedType ==
  ASSUME TypeInv, NEW d \in Direction
  PROVE  \A c \in Conn :
            /\ relayed[c][d] \in Nat
            /\ Counted(d)[c] \in Nat
            /\ Counted(d)[c] = IF pc[c] = "closed" THEN relayed[c][d] + relayed[c][d] * Counting(c)
                               ELSE relayed[c][d]
<1> SUFFICES ASSUME NEW c \in Conn
             PROVE  /\ relayed[c][d] \in Nat
                    /\ Counted(d)[c] \in Nat
                    /\ Counted(d)[c] = IF pc[c] = "closed"
                                         THEN relayed[c][d] + relayed[c][d] * Counting(c)
                                         ELSE relayed[c][d]
  OBVIOUS
<1>1. relayed[c][d] \in Nat
  BY MaxChunksAssumption DEF TypeInv, TypeOK
<1>2. Counted(d)[c] = relayed[c][d] * (IF pc[c] = "closed" THEN 1 + Counting(c) ELSE 1)
  BY DEF Counted
<1> DEFINE k == Counting(c)
           n == relayed[c][d]
<1>3. k \in {0, 1, 2}
  BY CountingRange
<1>4. n \in Nat /\ Counted(d)[c] = n * (IF pc[c] = "closed" THEN 1 + k ELSE 1)
  BY <1>1, <1>2
<1> HIDE DEF k, n
<1>5. /\ Counted(d)[c] \in Nat
      /\ Counted(d)[c] = IF pc[c] = "closed" THEN n + n * k ELSE n
  <2>1. CASE k = 0
    BY <1>4, <2>1
  <2>2. CASE k = 1
    BY <1>4, <2>2
  <2>3. CASE k = 2
    BY <1>4, <2>3
  <2> QED BY <1>3, <2>1, <2>2, <2>3
<1> QED BY <1>1, <1>5 DEF k, n

LEMMA CarriedFinite ==
  ASSUME Finite, NEW o
  PROVE  /\ IsFiniteSet(CarriedBy(o)) /\ Cardinality(CarriedBy(o)) \in Nat
         /\ \A d \in Direction : IsFiniteSet(Units(CarriedBy(o), Counted(d)))
<1>1. CarriedBy(o) \subseteq Started
  BY DEF CarriedBy, Started
<1>2. IsFiniteSet(CarriedBy(o)) /\ Cardinality(CarriedBy(o)) \in Nat
  BY <1>1, FS_Subset, FS_CardinalityType DEF Finite
<1>3. ASSUME NEW d \in Direction PROVE IsFiniteSet(Units(CarriedBy(o), Counted(d)))
  <2>1. CarriedBy(o) \subseteq Conn
    BY DEF CarriedBy
  <2>2. Units(CarriedBy(o), Counted(d)) \subseteq Units(Conn, Counted(d))
    BY <2>1 DEF Units
  <2> QED BY <2>2, FS_Subset DEF Finite
<1> QED BY <1>2, <1>3

(* Both plugins count t, and t is what the sums grow by. *)
LEMMA BytesCounted ==
  ASSUME IInv, NEW c \in Conn, NEW t \in [Direction -> Nat], CountBytes(c, t),
         UNCHANGED <<config, carrier, outboundID>>,
         pc[c] \in {"dialing", "relaying"}, pc'[c] \in {"relaying", "closed"},
         \A x \in Conn \ {c} : pc'[x] = pc[x],
         \A d \in Direction : /\ Counted(d)'[c] = Counted(d)[c] + t[d]
                               /\ \A x \in Conn \ {c} : Counted(d)'[x] = Counted(d)[x]
  PROVE  Finite' /\ InboundTotals' /\ OutboundTotals'
<1>1. Started' = Started
  BY DEF Started
<1>2. \A o : CarriedBy(o)' = CarriedBy(o)
  BY DEF CarriedBy
<1>3. ASSUME NEW d \in Direction
      PROVE  /\ IsFiniteSet(Units(Conn, Counted(d)'))
             /\ Total(Conn, Counted(d)') = Total(Conn, Counted(d)) + t[d]
  <2> DEFINE f == Counted(d)
             g == Counted(d)'
             k == t[d]
  <2>1. f[c] \in Nat /\ IsFiniteSet(Units(Conn, f)) /\ k \in Nat
    BY CountedType DEF IInv, Finite
  <2>2. g[c] = f[c] + k /\ \A x \in Conn \ {c} : g[x] = f[x]
    OBVIOUS
  <2> HIDE DEF f, g, k
  <2>3. IsFiniteSet(Units(Conn, g)) /\ Total(Conn, g) = Total(Conn, f) + k
    BY <2>1, <2>2, AddUnits
  <2> QED BY <2>3 DEF f, g, k
<1>4. ASSUME NEW d \in Direction, NEW o
      PROVE  Total(CarriedBy(o), Counted(d)') =
                Total(CarriedBy(o), Counted(d)) + (IF o = carrier[c] THEN t[d] ELSE 0)
  <2>1. CarriedBy(o) \subseteq Conn /\ (c \in CarriedBy(o) <=> o = carrier[c])
    BY DEF CarriedBy
  <2>2. CASE o = carrier[c]
    <3> DEFINE f == Counted(d)
               g == Counted(d)'
               k == t[d]
               C == CarriedBy(o)
    <3>1. f[c] \in Nat /\ IsFiniteSet(Units(C, f)) /\ k \in Nat
      BY CountedType, CarriedFinite DEF IInv
    <3>2. g[c] = f[c] + k /\ \A x \in C \ {c} : g[x] = f[x]
      BY <2>1
    <3>3. c \in C
      BY <2>1, <2>2
    <3> HIDE DEF f, g, k, C
    <3>4. Total(C, g) = Total(C, f) + k
      BY <3>1, <3>2, <3>3, AddUnits
    <3> QED BY <2>2, <3>4 DEF f, g, k, C
  <2>3. CASE o # carrier[c]
    <3>1. Units(CarriedBy(o), Counted(d)') = Units(CarriedBy(o), Counted(d))
      BY <2>1, <2>3, SameUnits
    <3>2. Total(CarriedBy(o), Counted(d)) \in Nat
      BY CarriedFinite, FS_CardinalityType DEF Total, IInv
    <3> QED BY <2>3, <3>1, <3>2 DEF Total
  <2> QED BY <2>2, <2>3
<1>5. Finite'
  BY <1>1, <1>3 DEF IInv, Finite
<1>6. InboundTotals'
  <2> SUFFICES ASSUME config.inbound
               PROVE  /\ inbound'.conns = Cardinality(Started)
                      /\ \A d \in Direction : inbound'[d] = Total(Conn, Counted(d)')
    BY <1>1 DEF InboundTotals, Started
  <2>1. /\ inbound.conns = Cardinality(Started)
        /\ \A d \in Direction : inbound[d] = Total(Conn, Counted(d))
    BY DEF IInv, InboundTotals, Started
  <2>2. inbound' = AddBytes(inbound, t) /\ inbound \in Stats
    BY DEF CountBytes, InboundCounts, IInv, TypeInv, TypeOK
  <2> QED BY <1>3, <2>1, <2>2, AddFacts
<1>7. OutboundTotals'
  <2> SUFFICES ASSUME config.outbound, NEW o \in Outbound, Named(o)
               PROVE  /\ outbound'[o].conns = Cardinality(CarriedBy(o))
                      /\ \A d \in Direction :
                            outbound'[o][d] = Total(CarriedBy(o), Counted(d)')
    BY <1>2 DEF OutboundTotals, Named
  <2>1. /\ outbound[o].conns = Cardinality(CarriedBy(o))
        /\ \A d \in Direction : outbound[o][d] = Total(CarriedBy(o), Counted(d))
    BY DEF IInv, OutboundTotals
  <2>2. outbound[o] \in Stats /\ outbound \in [Outbound -> Stats] /\ outboundID[c] = carrier[c]
    BY DEF IInv, ConnInv, TypeInv, TypeOK
  <2>3. outbound'[o] = IF o = carrier[c] THEN AddBytes(outbound[o], t) ELSE outbound[o]
    BY <2>2 DEF CountBytes, OutboundCounts
  <2>4. \A d \in Direction : Total(CarriedBy(o), Counted(d)) \in Nat
    BY CarriedFinite, FS_CardinalityType DEF Total, IInv
  <2> QED BY <1>4, <2>1, <2>2, <2>3, <2>4, AddFacts
<1> QED BY <1>5, <1>6, <1>7

(* Nothing is counted and no connection is closed. *)
Quiet ==
    /\ UNCHANGED <<config, relayed, ctx>>
    /\ \A c \in Conn : /\ pc'[c] = pc[c] \/ (pc'[c] # "closed" /\ pc[c] \notin {"relaying", "closed"})
                       /\ pc[c] \in {"relaying", "closed"} => outboundID'[c] = outboundID[c]

LEMMA QuietCounts ==
  ASSUME TypeInv, ConnInv, Quiet
  PROVE  /\ \A d \in Direction, c \in Conn : ctx'[c][d] = relayed'[c][d] * Counting(c)'
         /\ \A d \in Direction, C \in SUBSET Conn : Units(C, Counted(d)') = Units(C, Counted(d))
<1>1. ASSUME NEW c \in Conn, pc[c] \in {"relaying", "closed"} PROVE Counting(c)' = Counting(c)
  BY <1>1 DEF Quiet, Counting, InboundCounts, OutboundCounts, Named
<1>3. ASSUME NEW d \in Direction, NEW c \in Conn
      PROVE  /\ ctx'[c][d] = relayed'[c][d] * Counting(c)'
             /\ Counted(d)'[c] = Counted(d)[c]
  <2>1. ctx[c][d] = relayed[c][d] * Counting(c) /\ UNCHANGED <<ctx, relayed>>
    BY DEF ConnInv, Quiet
  <2>2. Counted(d)'[c] = relayed'[c][d] * (IF pc'[c] = "closed" THEN 1 + Counting(c)' ELSE 1)
    BY DEF Counted
  <2>3. Counted(d)[c] = relayed[c][d] * (IF pc[c] = "closed" THEN 1 + Counting(c) ELSE 1)
    BY DEF Counted
  <2>4. CASE pc[c] \in {"relaying", "closed"}
    <3>1. pc'[c] = pc[c]
      BY <2>4 DEF Quiet
    <3> QED BY <1>1, <2>1, <2>2, <2>3, <2>4, <3>1
  <2>5. CASE pc[c] \notin {"relaying", "closed"}
    <3>1. relayed[c][d] = 0 /\ pc'[c] # "closed"
      BY <2>5 DEF ConnInv, Quiet
    <3>2. Counting(c)' \in {0, 1, 2} /\ Counting(c) \in {0, 1, 2}
      BY DEF Counting
    <3> QED BY <2>1, <2>2, <2>3, <2>5, <3>1, <3>2
  <2> QED BY <2>4, <2>5
<1>4. ASSUME NEW d \in Direction, NEW C \in SUBSET Conn
      PROVE  Units(C, Counted(d)') = Units(C, Counted(d))
  BY <1>3, SameUnits
<1> QED BY <1>3, <1>4

(* A step of one connection that the statistics do not see. *)
LEMMA QuietInv ==
  ASSUME IInv, Quiet, TypeInv', UNCHANGED <<inbound, outbound, carrier, outboundID>>,
         \A c \in Conn : \/ pc'[c] = pc[c]
                         \/ /\ pc[c] \in {"routing", "picking", "checking", "getting"}
                            /\ pc'[c] \in {"routing", "picking", "checking", "getting"}
                         \/ pc[c] = "dialing" /\ pc'[c] = "relaying"
  PROVE  IInv'
<1>1. Started' = Started
  BY DEF Started
<1>2. \A o : CarriedBy(o)' = CarriedBy(o) /\ CarriedBy(o) \in SUBSET Conn
  BY DEF CarriedBy
<1>3. ConnInv'
  BY QuietCounts DEF IInv, ConnInv, Quiet
<1>4. Finite'
  BY <1>1, QuietCounts DEF IInv, Finite
<1>5. InboundTotals'
  BY <1>1, QuietCounts DEF IInv, InboundTotals, Started, Quiet, Total
<1>6. OutboundTotals'
  BY <1>2, QuietCounts DEF IInv, OutboundTotals, Quiet, Total, Named
<1> QED BY <1>3, <1>4, <1>5, <1>6 DEF IInv

(* A connection is accepted. *)
LEMMA AcceptInv ==
  ASSUME IInv, TypeInv', NEW c \in Conn, OnInboundConnection(c)
  PROVE  IInv'
<1>1. Started' = Started \cup {c} /\ c \notin Started
  BY DEF OnInboundConnection, Started, IInv, TypeInv, TypeOK
<1>2. \A o : CarriedBy(o)' = CarriedBy(o) /\ CarriedBy(o) \in SUBSET Conn
  BY DEF CarriedBy, OnInboundConnection, IInv, TypeInv, TypeOK
<1>3. Quiet
  BY DEF Quiet, OnInboundConnection, IInv, TypeInv, TypeOK
<1>4. ConnInv'
  BY <1>3, QuietCounts DEF IInv, ConnInv, Quiet, OnInboundConnection, TypeInv, TypeOK
<1>5. IsFiniteSet(Started') /\ Cardinality(Started') = Cardinality(Started) + 1
  BY <1>1, FS_AddElement DEF IInv, Finite
<1>6. Finite'
  BY <1>3, <1>5, QuietCounts DEF IInv, Finite
<1>7. InboundTotals'
  <2> SUFFICES ASSUME config.inbound
               PROVE  /\ inbound'.conns = Cardinality(Started')
                      /\ \A d \in Direction : inbound'[d] = Total(Conn, Counted(d)')
    BY <1>3 DEF InboundTotals, Started, Quiet
  <2>1. /\ inbound.conns = Cardinality(Started)
        /\ \A d \in Direction : inbound[d] = Total(Conn, Counted(d))
    BY DEF IInv, InboundTotals, Started
  <2>2. inbound' = AddConnection(inbound) /\ inbound \in Stats
    BY DEF OnInboundConnection, IInv, TypeInv, TypeOK
  <2>3. \A d \in Direction : Total(Conn, Counted(d)') = Total(Conn, Counted(d))
    BY <1>3, QuietCounts DEF IInv, Total
  <2> QED BY <1>5, <2>1, <2>2, <2>3, AddFacts
<1>8. OutboundTotals'
  BY <1>2, <1>3, QuietCounts DEF IInv, OutboundTotals, OnInboundConnection, Total, Named
<1> QED BY <1>4, <1>6, <1>7, <1>8 DEF IInv

(* The outbound of a connection is settled, and counted once. *)
LEMMA UseInv ==
  ASSUME IInv, TypeInv', NEW c \in Conn, NEW o \in Outbound, UseOutbound(c, o),
         pc[c] \in {"routing", "checking", "getting"},
         UNCHANGED <<config, ctx, relayed, inbound>>
  PROVE  IInv'
<1>1. Quiet
  BY DEF Quiet, UseOutbound, IInv, TypeInv, TypeOK
<1>2. Started' = Started
  BY DEF UseOutbound, Started, IInv, TypeInv, TypeOK
<1>3. ConnInv'
  <2>1. \A x \in Conn :
           pc'[x] \in {"dialing", "relaying", "closed"} => outboundID'[x] = carrier'[x]
    BY DEF UseOutbound, IInv, ConnInv, TypeInv, TypeOK
  <2>2. \A x \in Conn, d \in Direction :
           pc'[x] \notin {"relaying", "closed"} => relayed'[x][d] = 0
    BY DEF UseOutbound, IInv, ConnInv, TypeInv, TypeOK
  <2> QED BY <1>1, <2>1, <2>2, QuietCounts DEF IInv, ConnInv
<1>4. Finite'
  BY <1>1, <1>2, QuietCounts DEF IInv, Finite
<1>5. InboundTotals'
  BY <1>1, <1>2, QuietCounts DEF IInv, InboundTotals, Started, Total
<1>6. c \notin CarriedBy(o) /\ CarriedBy(o)' = CarriedBy(o) \cup {c}
  BY DEF CarriedBy, UseOutbound, IInv, TypeInv, TypeOK
<1>7. \A x : x # o => CarriedBy(x)' = CarriedBy(x)
  BY DEF CarriedBy, UseOutbound, IInv, TypeInv, TypeOK
<1>8. \A d \in Direction : Total(CarriedBy(o) \cup {c}, Counted(d)) = Total(CarriedBy(o), Counted(d))
  <2>1. \A d \in Direction : Counted(d)[c] = 0
    BY CountedType DEF IInv, ConnInv
  <2> QED BY <2>1, EmptyUnits DEF Total
<1>9. \A x : \A d \in Direction : Total(CarriedBy(x)', Counted(d)') = Total(CarriedBy(x)', Counted(d))
  <2>1. \A x : CarriedBy(x)' \in SUBSET Conn
    BY DEF CarriedBy
  <2> QED BY <1>1, <2>1, QuietCounts DEF Total, IInv
<1>10. OutboundTotals'
  <2> SUFFICES ASSUME config.outbound, NEW x \in Outbound, Named(x)
               PROVE  /\ outbound'[x].conns = Cardinality(CarriedBy(x)')
                      /\ \A d \in Direction :
                            outbound'[x][d] = Total(CarriedBy(x)', Counted(d)')
    BY DEF OutboundTotals, Named
  <2>1. /\ outbound[x].conns = Cardinality(CarriedBy(x))
        /\ \A d \in Direction : outbound[x][d] = Total(CarriedBy(x), Counted(d))
    BY DEF IInv, OutboundTotals
  <2>2. outbound[x] \in Stats /\ outbound \in [Outbound -> Stats]
    BY DEF IInv, TypeInv, TypeOK
  <2>3. outbound'[x] = IF x = o THEN AddConnection(outbound[x]) ELSE outbound[x]
    BY <2>2 DEF UseOutbound
  <2>4. Cardinality(CarriedBy(o)') = Cardinality(CarriedBy(o)) + 1
    BY <1>6, CarriedFinite, FS_AddElement DEF IInv
  <2>5. CASE x = o
    <3>1. outbound'[x].conns = Cardinality(CarriedBy(x)')
      BY <2>1, <2>2, <2>3, <2>4, <2>5, AddFacts
    <3>2. ASSUME NEW d \in Direction PROVE outbound'[x][d] = Total(CarriedBy(x)', Counted(d)')
      <4>1. outbound'[x][d] = outbound[x][d]
        BY <2>2, <2>3, <2>5, AddFacts
      <4>2. Total(CarriedBy(o)', Counted(d)') = Total(CarriedBy(o) \cup {c}, Counted(d))
        BY <1>6, <1>9
      <4> QED BY <1>8, <2>1, <2>5, <4>1, <4>2
    <3> QED BY <3>1, <3>2
  <2>6. CASE x # o
    BY <1>7, <1>9, <2>1, <2>3, <2>6
  <2> QED BY <2>5, <2>6
<1> QED BY <1>3, <1>4, <1>5, <1>10 DEF IInv

(* A chunk is relayed. *)
LEMMA TransferInv ==
  ASSUME IInv, TypeInv', NEW c \in Conn, NEW e \in Direction, Transfer(c, e)
  PROVE  IInv'
<1> DEFINE t == [NoTraffic EXCEPT ![e] = 1]
<1>1. t \in [Direction -> Nat] /\ \A d \in Direction : t[d] = IF d = e THEN 1 ELSE 0
  BY NoTrafficType
<1>2. CountBytes(c, t) /\ pc[c] = "relaying"
  BY DEF Transfer, OnDataTransfer
<1> HIDE DEF t
<1>3. UNCHANGED <<config, pc, carrier, outboundID>>
  BY DEF Transfer
<1>4. \A x \in Conn : Counting(x)' = Counting(x)
  BY <1>3 DEF Counting, InboundCounts, OutboundCounts, Named
<1>5. \A x \in Conn, d \in Direction :
         relayed'[x][d] = IF x = c /\ d = e THEN relayed[x][d] + 1 ELSE relayed[x][d]
  BY DEF Transfer, IInv, TypeInv, TypeOK
<1>6. \A x \in Conn, d \in Direction :
         ctx'[x][d] = IF x = c /\ d = e THEN ctx[x][d] + Counting(x) ELSE ctx[x][d]
  BY DEF Transfer, OnDataTransfer, IInv, TypeInv, TypeOK
<1>7. ConnInv'
  <2>1. ASSUME NEW x \in Conn, NEW d \in Direction
        PROVE  ctx'[x][d] = relayed'[x][d] * Counting(x)'
    <3> DEFINE k == Counting(x)
               n == relayed[x][d]
    <3>1. k \in {0, 1, 2} /\ n \in Nat /\ ctx[x][d] = n * k
      BY CountingRange, CountedType DEF IInv, ConnInv
    <3>2. /\ relayed'[x][d] = IF x = c /\ d = e THEN n + 1 ELSE n
          /\ ctx'[x][d] = IF x = c /\ d = e THEN ctx[x][d] + k ELSE ctx[x][d]
          /\ Counting(x)' = k
      BY <1>4, <1>5, <1>6
    <3> HIDE DEF k, n
    <3>3. (n + 1) * k = n * k + k
      BY <3>1
    <3> QED BY <3>1, <3>2, <3>3
  <2>2. ASSUME NEW x \in Conn, NEW d \in Direction, pc'[x] \notin {"relaying", "closed"}
        PROVE  relayed'[x][d] = 0
    BY <1>2, <1>3, <1>5, <2>2 DEF IInv, ConnInv
  <2> QED BY <1>3, <2>1, <2>2 DEF IInv, ConnInv
<1>8. ASSUME NEW d \in Direction, NEW x \in Conn
      PROVE  Counted(d)'[x] = IF x = c THEN Counted(d)[x] + t[d] ELSE Counted(d)[x]
  <2>1. Counted(d)'[x] = relayed'[x][d] * (IF pc'[x] = "closed" THEN 1 + Counting(x)' ELSE 1)
    BY DEF Counted
  <2>2. Counted(d)[x] = relayed[x][d] * (IF pc[x] = "closed" THEN 1 + Counting(x) ELSE 1)
    BY DEF Counted
  <2>3. CASE x = c
    <3>1. Counted(d)'[x] = relayed'[x][d] /\ Counted(d)[x] = relayed[x][d]
      BY <1>2, <1>3, <1>5, <2>1, <2>2, <2>3, CountedType DEF IInv
    <3> QED BY <1>1, <1>5, <2>3, <3>1, CountedType DEF IInv
  <2>4. CASE x # c
    BY <1>3, <1>4, <1>5, <2>1, <2>2, <2>4
  <2> QED BY <2>3, <2>4
<1>9. Finite' /\ InboundTotals' /\ OutboundTotals'
  BY <1>1, <1>2, <1>3, <1>8, BytesCounted
<1> QED BY <1>7, <1>9 DEF IInv

(* A connection is closed, and its whole context is added once more.       *)
LEMMA CloseInv ==
  ASSUME IInv, TypeInv', NEW c \in Conn, OnConnectionClosed(c),
         pc[c] \in {"dialing", "relaying"}, pc' = [pc EXCEPT ![c] = "closed"],
         UNCHANGED <<config, carrier, outboundID, ctx, relayed>>
  PROVE  IInv'
<1>1. ctx[c] \in [Direction -> Nat] /\ CountBytes(c, ctx[c])
  BY DEF OnConnectionClosed, IInv, TypeInv, TypeOK
<1>2. pc'[c] = "closed" /\ \A x \in Conn \ {c} : pc'[x] = pc[x]
  BY DEF IInv, TypeInv, TypeOK
<1>3. \A x \in Conn : Counting(x)' = Counting(x)
  BY DEF Counting, InboundCounts, OutboundCounts, Named
<1>4. ConnInv'
  <2>1. \A x \in Conn :
           pc'[x] \in {"dialing", "relaying", "closed"} => outboundID'[x] = carrier'[x]
    BY <1>2 DEF IInv, ConnInv
  <2>2. \A x \in Conn, d \in Direction : ctx'[x][d] = relayed'[x][d] * Counting(x)'
    BY <1>3 DEF IInv, ConnInv
  <2>3. \A x \in Conn, d \in Direction :
           pc'[x] \notin {"relaying", "closed"} => relayed'[x][d] = 0
    BY <1>2 DEF IInv, ConnInv
  <2> QED BY <2>1, <2>2, <2>3 DEF ConnInv
<1>5. ASSUME NEW d \in Direction, NEW x \in Conn
      PROVE  Counted(d)'[x] = IF x = c THEN Counted(d)[x] + ctx[c][d] ELSE Counted(d)[x]
  <2>1. Counted(d)'[x] = relayed'[x][d] * (IF pc'[x] = "closed" THEN 1 + Counting(x)' ELSE 1)
    BY DEF Counted
  <2>2. Counted(d)[x] = relayed[x][d] * (IF pc[x] = "closed" THEN 1 + Counting(x) ELSE 1)
    BY DEF Counted
  <2>3. CASE x = c
    <3> DEFINE k == Counting(x)
               n == relayed[x][d]
    <3>1. k \in {0, 1, 2} /\ n \in Nat /\ ctx[c][d] = n * k
      BY <2>3, CountingRange, CountedType DEF IInv, ConnInv
    <3>2. Counted(d)'[x] = n * (1 + k) /\ Counted(d)[x] = n * 1
      BY <1>2, <1>3, <2>1, <2>2, <2>3
    <3> HIDE DEF k, n
    <3>3. n * (1 + k) = n * 1 + n * k
      BY <3>1
    <3> QED BY <2>3, <3>1, <3>2, <3>3
  <2>4. CASE x # c
    BY <1>2, <1>3, <2>1, <2>2, <2>4
  <2> QED BY <2>3, <2>4
<1>6. Finite' /\ InboundTotals' /\ OutboundTotals'
  BY <1>1, <1>2, <1>5, BytesCounted
<1> QED BY <1>4, <1>6 DEF IInv

LEMMA SelectOutboundInv ==
  ASSUME IInv, TypeInv', NEW c \in Conn, SelectOutbound(c) PROVE IInv'
<1>0. Static \in Outbound /\ \A d \in Device : d \in Outbound
  BY DEF Outbound
<1>1. CASE SelectStatic(c) \/ FallBackOnEmptyPool(c)
  BY <1>0, <1>1, UseInv DEF SelectStatic, FallBackOnEmptyPool
<1>2. ASSUME pc[c] \in {"routing", "picking", "checking"},
             \E l \in {"picking", "checking", "getting"} : pc' = [pc EXCEPT ![c] = l],
             UNCHANGED <<config, relayed, ctx, inbound, outbound, carrier, outboundID>>
      PROVE  IInv'
  BY <1>2, QuietInv DEF Quiet, IInv, TypeInv, TypeOK
<1>3. CASE ListDevices(c) \/ PickDevice(c)
  BY <1>2, <1>3 DEF ListDevices, PickDevice
<1>4. CASE CheckPicked(c)
  <2>1. CASE picked[c] \in online
    BY <1>2, <1>4, <2>1 DEF CheckPicked
  <2>2. CASE picked[c] \notin online
    BY <1>0, <1>4, <2>2, UseInv DEF CheckPicked
  <2> QED BY <2>1, <2>2
<1>5. CASE GetOutbound(c)
  <2> DEFINE o == IF picked[c] \in online THEN picked[c] ELSE Static
  <2>1. o \in Outbound
    BY <1>0 DEF IInv, TypeInv, TypeOK
  <2>2. UseOutbound(c, o) /\ pc[c] = "getting" /\ UNCHANGED <<config, ctx, relayed, inbound>>
    BY <1>5 DEF GetOutbound
  <2> HIDE DEF o
  <2> QED BY <2>1, <2>2, UseInv
<1> QED BY <1>1, <1>3, <1>4, <1>5 DEF SelectOutbound

LEMMA InitInv == Init => IInv
<1> SUFFICES ASSUME Init PROVE IInv
  OBVIOUS
<1>1. Started = {} /\ \A o : CarriedBy(o) = {}
  BY DEF Init, Started, CarriedBy
<1>2. \A c \in Conn, d \in Direction : relayed[c][d] = 0 /\ ctx[c][d] = 0
  BY DEF Init, NoTraffic
<1>3. ASSUME NEW d \in Direction, NEW c \in Conn PROVE Counted(d)[c] = 0
  BY <1>2, <1>3, InitType, CountedType DEF Init
<1>4. ASSUME NEW d \in Direction, NEW C \in SUBSET Conn PROVE Units(C, Counted(d)) = {}
  <2>1. SUFFICES ASSUME NEW u \in Units(C, Counted(d)) PROVE FALSE
    OBVIOUS
  <2>2. u = <<u[1], u[2]>> /\ u[1] \in C /\ u[2] \in 1 .. Counted(d)[u[1]]
    BY <2>1, InUnits
  <2> QED BY <1>3, <2>2
<1>5. Finite
  BY <1>1, <1>4, FS_EmptySet DEF Finite
<1>6. ConnInv
  <2>1. ASSUME NEW c \in Conn, NEW d \in Direction PROVE ctx[c][d] = relayed[c][d] * Counting(c)
    BY <1>2, CountingRange
  <2> QED BY <1>2, <2>1 DEF ConnInv, Init
<1>7. \A d \in Direction : inbound[d] = 0 /\ \A o \in Outbound : outbound[o][d] = 0
  BY DEF Init, Direction
<1>8. InboundTotals
  BY <1>1, <1>4, <1>7, FS_EmptySet DEF Init, InboundTotals, Started, Total
<1>9. OutboundTotals
  BY <1>1, <1>4, <1>7, FS_EmptySet DEF Init, OutboundTotals, Total
<1> QED BY <1>5, <1>6, <1>8, <1>9, InitType DEF IInv

(* Every connection is counted once, where it is carried, from the step    *)
(* that starts it to the one that ends it.                                 *)
THEOREM Invariant == Spec => []IInv
<1>1. ASSUME IInv, [Next]_vars PROVE IInv'
  <2>0. TypeInv'
    BY <1>1, StepType DEF IInv
  <2>1. ASSUME NEW c \in Conn, OnInboundConnection(c) PROVE IInv'
    BY <1>1, <2>0, <2>1, AcceptInv
  <2>2. ASSUME NEW c \in Conn, SelectOutbound(c) PROVE IInv'
    BY <1>1, <2>0, <2>2, SelectOutboundInv
  <2>3. ASSUME NEW c \in Conn, DialSucceeds(c) PROVE IInv'
    BY <1>1, <2>0, <2>3, QuietInv DEF DialSucceeds, Quiet, IInv, TypeInv, TypeOK
  <2>4. ASSUME NEW c \in Conn, DialFails(c) \/ FinishRelay(c) PROVE IInv'
    BY <1>1, <2>0, <2>4, CloseInv DEF DialFails, FinishRelay
  <2>5. ASSUME NEW c \in Conn, NEW d \in Direction, Transfer(c, d) PROVE IInv'
    BY <1>1, <2>0, <2>5, TransferInv
  <2>6. CASE UNCHANGED vars \/ \E d \in Device : DeviceOnline(d) \/ DeviceOffline(d)
    BY <1>1, <2>0, <2>6, QuietInv DEF DeviceOnline, DeviceOffline, vars, Quiet
  <2> QED BY <1>1, <2>1, <2>2, <2>3, <2>4, <2>5, <2>6 DEF Next, HandleConnection
<1> QED BY <1>1, InitInv, PTL DEF Spec

(* InboundCounter: however connections are opened, relayed and closed, its *)
(* totals are those of the connections, in each direction.                 *)
THEOREM InboundTotalsKnown == Spec => []InboundTotals
<1>1. IInv => InboundTotals
  BY DEF IInv
<1> QED BY <1>1, Invariant, PTL

(* OutboundCounter: what is put down to an outbound is what it carried,    *)
(* whichever device the router wanted and whatever became of it.           *)
THEOREM OutboundTotalsKnown == Spec => []OutboundTotals
<1>1. IInv => OutboundTotals
  BY DEF IInv
<1> QED BY <1>1, Invariant, PTL

=============================================================================
