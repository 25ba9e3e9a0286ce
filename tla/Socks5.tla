------------------------------- MODULE Socks5 -------------------------------
(***************************************************************************)
(* One client connection that goes out through another SOCKS5 proxy, the   *)
(* upstream: the server's side of the handshake (inbound/socks5.go), the   *)
(* client's side of a second one (outbound/socks5.go), and the relay.      *)
(*                                                                         *)
(*   client --toInbound--> server --toUpstream--> upstream                 *)
(*          <--toClient--         <--toOutbound--                          *)
(*                                                                         *)
(* The server is one goroutine until it relays.  It tells the client that  *)
(* the connection is established, and only then dials the upstream.  Most  *)
(* of its messages are read with one call of Read, which may return less   *)
(* than was asked for; addresses of clients are read with io.ReadFull.     *)
(*                                                                         *)
(* Abstractions.  Octets are small numbers.  An IPv4 address is one of     *)
(* them, an IPv6 address two, a port one; a name has as many as its length *)
(* octet says.  toInbound and toOutbound hold what the server has not read *)
(* yet; the peers look at all that was written to them.  The hooks and the *)
(* router between the two handshakes are in ProxyCore, and the goroutines  *)
(* of the relay in Tunnel.                                                 *)
(***************************************************************************)
EXTENDS Naturals, Sequences

CONSTANTS
    Request,    \* what clients ask for
    MaxData     \* bound: octets of payload each peer sends at most

ASSUME MaxDataAssumption == MaxData \in Nat
ASSUME RequestAssumption ==     \* what a client sends is made of octets
    \A r \in Request :
        r.version \in Nat /\ r.methods \in Seq(Nat) /\ r.command \in Nat

VARIABLES
    request,    \* what this client asks for
    whole,      \* no message arrives in pieces
    toInbound, toClient, toUpstream, toOutbound,
    left,       \* the peers that have closed their connection
    client,     \* what the client sends next
    handler,    \* what the server does next, or that it has closed both
    count,      \* octets the server is about to read, or the ATYP it has read
    target,     \* targetAddress
    upstream,   \* what the upstream does next
    sent        \* octets of payload each peer has sent

serverVars == <<toClient, toUpstream, handler, count, target>>
vars == <<request, whole, toInbound, toOutbound, left, client, upstream, sent, serverVars>>

Peer == {"client", "upstream"}

-----------------------------------------------------------------------------
(* Addresses *)

V4 == 11                 V4Text == 12
V6 == <<21, 22>>         V6Text == 23
Mapped == <<20, V4>>     \* ::ffff: and an IPv4 address
Name == <<31, 32>>
Port == 8

(* [ATYP, address, port] of what a client may ask for.                     *)
AddressOf(kind) ==
    CASE kind = "ipv4"      -> <<1, V4, Port>>
      [] kind = "ipv6"      -> <<4>> \o V6 \o <<Port>>
      [] kind = "mapped"    -> <<4>> \o Mapped \o <<Port>>
      [] kind = "name"      -> <<3, 2>> \o Name \o <<Port>>
      [] kind = "ipv4 name" -> <<3, 1, V4Text, Port>>
      [] kind = "ipv6 name" -> <<3, 1, V6Text, Port>>
      [] kind = "no name"   -> <<3, 0, Port>>
      [] OTHER              -> <<2, Port>>

(* The host each of them stands for, however it is written.                *)
HostOf(kind) ==
    IF kind \in {"ipv4", "mapped", "ipv4 name"} THEN "four"
    ELSE IF kind \in {"ipv6", "ipv6 name"} THEN "six"
    ELSE IF kind = "name" THEN "name" ELSE "none"

(* The text the inbound makes of an address: IPv6 is put in brackets, and  *)
(* the text of a mapped address is that of the IPv4 address.               *)
TargetAddress(atyp, octets) ==
    CASE atyp = 1 -> [brackets |-> FALSE, host |-> <<V4Text>>]
      [] atyp = 4 -> [brackets |-> TRUE,
                      host |-> IF octets = Mapped \o <<Port>> THEN <<V4Text>> ELSE <<V6Text>>]
      [] atyp = 3 -> [brackets |-> FALSE, host |-> SubSeq(octets, 1, Len(octets) - 1)]

NoTarget == [brackets |-> FALSE, host |-> <<>>]

(* net.SplitHostPort fails on a host with colons that is not in brackets.  *)
Splits(address) == address.brackets \/ address.host # <<V6Text>>

(* Mutant of BuildConnectionRequest: a host in brackets is taken for IPv6. *)
BuildFromBrackets(address) ==
    <<5, 1, 0>> \o (IF address.brackets THEN <<4>> \o V6 \o <<Port>>
                    ELSE IF address.host = <<V4Text>> THEN <<1, V4, Port>>
                    ELSE <<3, Len(address.host)>> \o address.host \o <<Port>>)

BuildConnectionRequest(address) ==
    <<5, 1, 0>> \o (IF address.host = <<V4Text>> THEN <<1, V4, Port>>
                    ELSE IF address.host = <<V6Text>> THEN <<4>> \o V6 \o <<Port>>
                    ELSE <<3, Len(address.host)>> \o address.host \o <<Port>>)

(* Octets that follow ATYP: 4 or 16 and the port, here one or two and one. *)
AddressLength(atyp) == IF atyp = 1 THEN 2 ELSE 3

BuildResponse(reply) == <<5, reply, 0, 1, 0, 0>>
CommandNotSupported == 7
AddressTypeNotSupported == 8

-----------------------------------------------------------------------------
(* Reading and closing *)

(* What one Read of at most n octets may return of what has arrived.       *)
Reads(stream, n) ==
    LET most == IF n < Len(stream) THEN n ELSE Len(stream)
    IN  IF whole \/ most = 0 THEN {most} \ {0} ELSE 1 .. most

Rest(stream, n) == SubSeq(stream, n + 1, Len(stream))

(* A Read into a zeroed buffer of length n that returned k octets. *)
Buffer(stream, k, n) == [i \in 1 .. n |-> IF i =< k THEN stream[i] ELSE 0]

(* The handler returns: the deferred calls close what was opened.          *)
HangUp ==
    /\ handler' = "closed"
    /\ count' = 0
    /\ UNCHANGED <<toUpstream, target>>

HangUpWith(answer) == HangUp /\ toClient' = toClient \o answer
HangUpSilently == HangUpWith(<<>>)

(* The client's connection ended before the octets that are to be read.    *)
ClientEOF == "client" \in left /\ toInbound = <<>>
UpstreamEOF == "upstream" \in left /\ toOutbound = <<>>

Await(step) == handler' = step

TypeOK ==
    /\ request \in Request
    /\ whole \in BOOLEAN
    /\ \A s \in {toInbound, toClient, toUpstream, toOutbound} : s \in Seq(Nat)
    /\ left \in SUBSET Peer
    /\ client \in {"greeting", "request", "data"}
    /\ handler \in {"greeting", "methods", "request", "address", "length", "name",
                    "connect", "method", "reply", "reply length", "reply rest",
                    "relay", "closed"}
    /\ count \in Nat
    /\ handler \in {"methods", "method", "reply", "reply length", "reply rest"} => count > 0
    /\ target.brackets \in BOOLEAN /\ target.host \in Seq(Nat)
    /\ upstream \in {"method", "reply", "data", "refused"}
    /\ sent \in [Peer -> 0 .. MaxData]

Init ==
    /\ request \in Request
    /\ whole \in BOOLEAN
    /\ toInbound = <<>> /\ toClient = <<>> /\ toUpstream = <<>> /\ toOutbound = <<>>
    /\ left = {}
    /\ client = "greeting"
    /\ handler = "greeting"
    /\ count = 0
    /\ target = NoTarget
    /\ upstream = "method"
    /\ sent = [p \in Peer |-> 0]

-----------------------------------------------------------------------------
(* The server's side: SOCKS5Inbound.handleSOCKS5 *)

(* Two octets, then as many methods as the second one says.  A short read  *)
(* is an error, on which the client gets no answer.                        *)
ReadGreeting ==
    /\ handler = "greeting"
    /\ \/ ClientEOF /\ HangUpSilently /\ UNCHANGED toInbound
       \/ \E n \in Reads(toInbound, 2) :
             /\ toInbound' = Rest(toInbound, n)
             /\ IF n = 2 /\ toInbound[1] = 5 /\ toInbound[2] > 0
                THEN /\ Await("methods")
                     /\ count' = toInbound[2]
                     /\ UNCHANGED <<toClient, toUpstream, target>>
                ELSE HangUpSilently
    /\ UNCHANGED <<request, whole, toOutbound, left, client, upstream, sent>>

(* A write may fail when the peer has left. *)
WriteFails(p) == p \in left

ReadMethods ==
    /\ handler = "methods"
    /\ \/ ClientEOF /\ HangUpSilently /\ UNCHANGED toInbound
       \/ \E n \in Reads(toInbound, count) :
             /\ toInbound' = Rest(toInbound, n)
             /\ \/ n < count /\ HangUpSilently
                \/ /\ n = count
                   /\ \A i \in 1 .. n : toInbound[i] # 0
                   /\ HangUpWith(<<5, 255>>)
                \/ /\ n = count
                   /\ \E i \in 1 .. n : toInbound[i] = 0
                   /\ \/ /\ Await("request")
                         /\ toClient' = toClient \o <<5, 0>>
                         /\ count' = 0
                         /\ UNCHANGED <<toUpstream, target>>
                      \/ WriteFails("client") /\ HangUpSilently
    /\ UNCHANGED <<request, whole, toOutbound, left, client, upstream, sent>>

(* The first four octets.  An address type that is not known is refused.   *)
ReadRequest ==
    /\ handler = "request"
    /\ \/ ClientEOF /\ HangUpSilently /\ UNCHANGED toInbound
       \/ \E n \in Reads(toInbound, 4) :
             /\ toInbound' = Rest(toInbound, n)
             /\ IF n < 4 \/ toInbound[1] # 5 THEN HangUpSilently
                ELSE IF toInbound[2] # 1 THEN HangUpWith(BuildResponse(CommandNotSupported))
                ELSE IF toInbound[4] \notin {1, 3, 4}
                THEN HangUpWith(BuildResponse(AddressTypeNotSupported))
                ELSE /\ Await(IF toInbound[4] = 3 THEN "length" ELSE "address")
                     /\ count' = toInbound[4]
                     /\ UNCHANGED <<toClient, toUpstream, target>>
    /\ UNCHANGED <<request, whole, toOutbound, left, client, upstream, sent>>

(* io.ReadFull of n octets: all of them, or an error at the end of file.   *)
ReadFull(n, Use(_)) ==
    \/ /\ Len(toInbound) >= n
       /\ toInbound' = Rest(toInbound, n)
       /\ Use(SubSeq(toInbound, 1, n))
    \/ /\ Len(toInbound) < n /\ "client" \in left
       /\ toInbound' = <<>>
       /\ HangUpWith(BuildResponse(AddressTypeNotSupported))

(* Success is told now; then the handler is called, which will dial.       *)
ReplySuccess(address) ==
    \/ /\ target' = address
       /\ toClient' = toClient \o BuildResponse(0)
       /\ count' = 0
       /\ Await("connect")
       /\ UNCHANGED toUpstream
    \/ WriteFails("client") /\ HangUpSilently

ReadNameLength ==
    /\ handler = "length"
    /\ LET Use(octets) ==
              IF octets[1] = 0 THEN HangUpWith(BuildResponse(AddressTypeNotSupported))
              ELSE /\ count' = octets[1]
                   /\ Await("name")
                   /\ UNCHANGED <<toClient, toUpstream, target>>
       IN  ReadFull(1, Use)
    /\ UNCHANGED <<request, whole, toOutbound, left, client, upstream, sent>>

ReadName ==
    /\ handler = "name"
    /\ LET Use(octets) == ReplySuccess(TargetAddress(3, octets))
       IN  ReadFull(count + 1, Use)
    /\ UNCHANGED <<request, whole, toOutbound, left, client, upstream, sent>>

ReadAddress ==
    /\ handler = "address"
    /\ LET Use(octets) == ReplySuccess(TargetAddress(count, octets))
       IN  ReadFull(AddressLength(count), Use)
    /\ UNCHANGED <<request, whole, toOutbound, left, client, upstream, sent>>

Inbound ==
    \/ ReadGreeting \/ ReadMethods \/ ReadRequest
    \/ ReadNameLength \/ ReadName \/ ReadAddress

-----------------------------------------------------------------------------
(* The client's side: SOCKS5Outbound.Dial, called by HandleConnection.     *)
(* When it fails HandleConnection returns, and both connections close.     *)

Send(octets, next, n) ==
    \/ /\ toUpstream' = toUpstream \o octets
       /\ Await(next)
       /\ count' = n
       /\ UNCHANGED <<toClient, target>>
    \/ WriteFails("upstream") /\ HangUpSilently

(* Connect to the proxy, and greet it. *)
Connect(ok) ==
    /\ handler = "connect"
    /\ IF ok THEN Send(<<5, 1, 0>>, "method", 2) ELSE HangUpSilently
    /\ UNCHANGED <<request, whole, toInbound, toOutbound, left, client, upstream, sent>>

(* One Read for a message of n octets: the length that was read is ignored *)
(* and the rest of the buffer is zero.                                     *)
ReadFromUpstream(step, Use(_)) ==
    /\ handler = step
    /\ \/ UpstreamEOF /\ HangUpSilently /\ UNCHANGED toOutbound
       \/ \E n \in Reads(toOutbound, count) :
             /\ toOutbound' = Rest(toOutbound, n)
             /\ Use(Buffer(toOutbound, n, count))
    /\ UNCHANGED <<request, whole, toInbound, left, client, upstream, sent>>

Continue(step, n) ==
    /\ Await(step)
    /\ count' = n
    /\ UNCHANGED <<toClient, toUpstream, target>>

ReadMethod ==
    LET Use(b) == IF b[1] # 5 \/ b[2] # 0 \/ ~Splits(target) THEN HangUpSilently
                  ELSE Send(BuildConnectionRequest(target), "reply", 4)
    IN  ReadFromUpstream("method", Use)

(* Mutant of ReplyLength: an unknown address type is read as IPv4.         *)
ReplyLengthLenient(atyp) ==
    CASE atyp = 4 -> 3 [] OTHER -> 2

(* Mutant of ReplyLength: the port is not counted behind an IPv6 address.  *)
ReplyLengthNoPort(atyp) ==
    CASE atyp = 1 -> 2 [] atyp = 4 -> 2 [] OTHER -> 0

(* Octets that follow the first four of a reply; 0 for an address type the *)
(* code does not know.                                                     *)
ReplyLength(atyp) ==
    CASE atyp = 1 -> 2 [] atyp = 4 -> 3 [] OTHER -> 0

(* Mutant of ReadReply: an address type the code does not know is passed on. *)
ReadReplyAnyType ==
    LET Use(b) == IF b[1] # 5 \/ b[2] # 0 THEN HangUpSilently
                  ELSE IF b[4] = 3 THEN Continue("reply length", 1)
                  ELSE Continue("reply rest", ReplyLength(b[4]))
    IN  ReadFromUpstream("reply", Use)

ReadReply ==
    LET Use(b) == IF b[1] # 5 \/ b[2] # 0 THEN HangUpSilently
                  ELSE IF b[4] = 3 THEN Continue("reply length", 1)
                  ELSE IF ReplyLength(b[4]) = 0 THEN HangUpSilently
                  ELSE Continue("reply rest", ReplyLength(b[4]))
    IN  ReadFromUpstream("reply", Use)

ReadReplyLength ==
    LET Use(b) == Continue("reply rest", b[1] + 1)
    IN  ReadFromUpstream("reply length", Use)

ReadReplyRest ==
    LET Use(b) == Continue("relay", 0)
    IN  ReadFromUpstream("reply rest", Use)

Outbound ==
    \/ \E ok \in BOOLEAN : Connect(ok)
    \/ ReadMethod \/ ReadReply \/ ReadReplyLength \/ ReadReplyRest

-----------------------------------------------------------------------------
(* The relay *)

RelayUp ==
    /\ handler = "relay"
    /\ toInbound # <<>>
    /\ toUpstream' = Append(toUpstream, Head(toInbound))
    /\ toInbound' = Tail(toInbound)
    /\ UNCHANGED <<request, whole, toClient, toOutbound, left, client, handler,
                   count, target, upstream, sent>>

RelayDown ==
    /\ handler = "relay"
    /\ toOutbound # <<>>
    /\ toClient' = Append(toClient, Head(toOutbound))
    /\ toOutbound' = Tail(toOutbound)
    /\ UNCHANGED <<request, whole, toUpstream, toInbound, left, client, handler,
                   count, target, upstream, sent>>

(* Mutant of EndRelay: only the client's end of the connection ends it. *)
EndRelayByClient ==
    /\ handler = "relay"
    /\ ClientEOF
    /\ HangUpSilently
    /\ UNCHANGED <<request, whole, toInbound, toOutbound, left, client, upstream, sent>>

(* One direction ended, or a write to a peer that left failed. *)
EndRelay ==
    /\ handler = "relay"
    /\ \/ ClientEOF \/ UpstreamEOF
       \/ "client" \in left /\ toOutbound # <<>>
       \/ "upstream" \in left /\ toInbound # <<>>
    /\ HangUpSilently
    /\ UNCHANGED <<request, whole, toInbound, toOutbound, left, client, upstream, sent>>

Relay == RelayUp \/ RelayDown \/ EndRelay

-----------------------------------------------------------------------------
(* The peers *)

Greeting == <<request.version, Len(request.methods)>> \o request.methods

Present(p) == p \notin left /\ handler # "closed"

(* The client waits for the method and asks; its payload need not wait for *)
(* the reply.                                                              *)
ClientSends ==
    /\ Present("client")
    /\ \/ /\ client = "greeting"
          /\ client' = "request"
          /\ toInbound' = toInbound \o Greeting
          /\ UNCHANGED sent
       \/ /\ client = "request" /\ toClient = <<5, 0>>
          /\ client' = "data"
          /\ toInbound' = toInbound \o <<5, request.command, 0>> \o AddressOf(request.kind)
          /\ UNCHANGED sent
       \/ /\ client = "data" /\ sent["client"] < MaxData
          /\ sent' = [sent EXCEPT !["client"] = @ + 1]
          /\ toInbound' = Append(toInbound, 50 + sent'["client"])
          /\ UNCHANGED client
    /\ UNCHANGED <<request, whole, toOutbound, left, upstream, serverVars>>

BoundAddress == {<<1, 41, Port>>, <<4, 41, 42, Port>>, <<3, 1, 41, Port>>}

(* The upstream answers as RFC 1928 has it; it may refuse. *)
UpstreamSends ==
    /\ Present("upstream")
    /\ \/ /\ upstream = "method" /\ Len(toUpstream) >= 3
          /\ \E method \in {0, 255} :
                /\ toOutbound' = toOutbound \o <<5, method>>
                /\ upstream' = IF method = 0 THEN "reply" ELSE "refused"
          /\ UNCHANGED sent
       \/ /\ upstream = "reply" /\ Len(toUpstream) > 3
          /\ \E reply \in {0, 5}, address \in BoundAddress :
                /\ toOutbound' = toOutbound \o <<5, reply, 0>> \o address
                /\ upstream' = IF reply = 0 THEN "data" ELSE "refused"
          /\ UNCHANGED sent
       \/ /\ upstream = "data" /\ sent["upstream"] < MaxData
          /\ sent' = [sent EXCEPT !["upstream"] = @ + 1]
          /\ toOutbound' = Append(toOutbound, 60 + sent'["upstream"])
          /\ UNCHANGED upstream
    /\ UNCHANGED <<request, whole, toInbound, left, client, serverVars>>

Leave(p) ==
    /\ Present(p)
    /\ p = "upstream" => toUpstream # <<>>
    /\ left' = left \cup {p}
    /\ UNCHANGED <<request, whole, toInbound, toOutbound, client, upstream, sent, serverVars>>

-----------------------------------------------------------------------------
Handler == Inbound \/ Outbound \/ Relay

Next ==
    \/ Handler
    \/ ClientSends \/ UpstreamSends
    \/ \E p \in Peer : Leave(p)

Spec == Init /\ [][Next]_vars

(* The goroutine of the connection runs when it can.  The peers owe        *)
(* nothing: no deadline is set on either connection.                       *)
FairSpec == Spec /\ WF_vars(Handler)

-----------------------------------------------------------------------------
(* Properties *)

Data(base, n) == [i \in 1 .. n |-> base + i]
Prefixes(stream) == {SubSeq(stream, 1, n) : n \in 0 .. Len(stream)}

(* The upstream is asked for the host the client asked for, through the    *)
(* text in between, and what follows is what the client sent after its     *)
(* request: neither handshake reads too much or too little of it.          *)
SameTarget ==
    Len(toUpstream) > 3 =>
        \E k \in {"ipv4", "ipv6", "name"} :
            /\ HostOf(k) = HostOf(request.kind)
            /\ \E data \in Prefixes(Data(50, sent["client"])) :
                  toUpstream = <<5, 1, 0, 5, 1, 0>> \o AddressOf(k) \o data

(* The server relays only what the upstream has accepted: octets that a    *)
(* short Read left out are zero, like "no authentication" and "succeeded", *)
(* and still never make a refusal pass.                                    *)
RelayedIsAccepted == handler = "relay" => upstream = "data"

Established == <<5, 0>> \o BuildResponse(0)

(* What a short Read may have left of the address in the upstream's reply. *)
Strays == IF whole THEN {<<>>} ELSE {Rest(a, n) : a \in BoundAddress, n \in 2 .. 4}

(* A client gets the method, one reply, and after a reply that says the    *)
(* connection is established the payload of the upstream from its first    *)
(* octet - if messages arrive whole.  Otherwise the end of the upstream's  *)
(* reply may come first, which the outbound took for payload.              *)
ClientStream ==
    \/ toClient \in {<<>>, <<5, 255>>, <<5, 0>>}
    \/ \E reply \in {CommandNotSupported, AddressTypeNotSupported} :
          toClient = <<5, 0>> \o BuildResponse(reply)
    \/ \E stray \in Strays, data \in Prefixes(Data(60, sent["upstream"])) :
          \E p \in Prefixes(stray \o data) : toClient = Established \o p

(* When the upstream leaves, the connection is closed at every stage.  When*)
(* the client leaves it is too, unless the server waits for an answer of   *)
(* the upstream: nothing watches the client then, and no deadline is set.  *)
WaitsForUpstream ==
    /\ handler \in {"method", "reply", "reply length", "reply rest"}
    /\ toOutbound = <<>>

LeavingIsNoticed ==
    /\ ("upstream" \in left) ~> (handler = "closed")
    /\ ("client" \in left) ~> (handler = "closed" \/ WaitsForUpstream)

=============================================================================
