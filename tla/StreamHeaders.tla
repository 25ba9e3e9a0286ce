---------------------------- MODULE StreamHeaders ----------------------------
(***************************************************************************)
(* The line at the head of a QUIC stream.  On the registration stream it   *)
(* is the id of the device, which quic/server.go (handleConnection) reads  *)
(* in whatever pieces it arrives, up to the end of the stream.  On every   *)
(* other stream it is the target address, which the device reads octet by  *)
(* octet (ReadTargetAddress), and the client's data comes right behind it. *)
(* A line is a sequence of octets, of which newline and space matter.  The *)
(* variables are those of one stream; a new one may follow when it was     *)
(* read.                                                                   *)
(***************************************************************************)
EXTENDS Naturals, Sequences, FiniteSetsExt

CONSTANTS
    Octet,
    Line,                   \* what ids and addresses may be
    Payload,                \* what may follow the address
    MaxTargetAddressLen

VARIABLES
    line,       \* what was written at the head of the stream
    data,       \* what was written behind it
    unread,     \* what of the stream was not read
    bytes,      \* deviceIDBytes or targetAddressBytes
    reader      \* the loop that reads the stream, or what it ended in

headers == <<line, data, unread, bytes, reader>>

Newline == "\n"
Space == " "

ASSUME OctetAssumption == {Newline, Space} \subseteq Octet
ASSUME LineAssumption ==    \* a configuration without a device id is refused
    \A l \in Line : l \in Seq(Octet \ {Newline}) \ {<<>>}
ASSUME PayloadAssumption == Payload \subseteq Seq(Octet)
ASSUME LengthAssumption == MaxTargetAddressLen \in Nat

Reading == {"handleConnection", "ReadTargetAddress"}

HeadersTypeOK ==
    /\ line \in Line \cup {<<>>}
    /\ data \in Payload \cup {<<>>}
    /\ unread \in Seq(Octet)
    /\ bytes \in Seq(Octet)
    /\ reader \in Reading \cup
          {"idle", "RegisterQUICConnection", "ProxyTCP", "too long", "failed"}

HeadersInit ==
    /\ line = <<>> /\ data = <<>> /\ unread = <<>> /\ bytes = <<>>
    /\ reader = "idle"

(* strings.TrimSpace *)
TrimSpace(s) ==
    LET kept == {i \in DOMAIN s : s[i] \notin {Space, Newline}}
    IN  IF kept = {} THEN <<>> ELSE SubSeq(s, Min(kept), Max(kept))

Newlines(s) == {i \in DOMAIN s : s[i] = Newline}

UpToNewline(s) ==
    IF Newlines(s) = {} THEN s ELSE SubSeq(s, 1, Min(Newlines(s)) - 1)

OpenStream(loop, l, d) ==
    /\ reader \notin Reading
    /\ line' = l /\ data' = d
    /\ unread' = Append(l, Newline) \o d
    /\ bytes' = <<>>
    /\ reader' = loop

(* The client of a device sends its id and closes the stream.              *)
Connect(l) == OpenStream("handleConnection", l, <<>>)

(* The server sends the address, and then what its client sends.           *)
WriteTargetAddress(l, d) == OpenStream("ReadTargetAddress", l, d)

(* Mutant of ReadPiece: the first piece that arrives is taken for the id.  *)
ReadFirstPiece ==
    /\ reader = "handleConnection"
    /\ \E n \in 1 .. Len(unread) :
          /\ bytes' = TrimSpace(UpToNewline(SubSeq(unread, 1, n)))
          /\ unread' = SubSeq(unread, n + 1, Len(unread))
    /\ reader' = "RegisterQUICConnection"
    /\ UNCHANGED <<line, data>>

(* One read of handleConnection: what arrived is appended, and cut at a    *)
(* newline.  That ends the loop only if nothing is left; the search for a  *)
(* newline in what was cut finds none.                                     *)
ReadPiece ==
    /\ reader = "handleConnection"
    /\ \E n \in 1 .. Len(unread) :
          /\ bytes' = UpToNewline(bytes \o SubSeq(unread, 1, n))
          /\ unread' = SubSeq(unread, n + 1, Len(unread))
    /\ reader' = IF bytes' = <<>> THEN "RegisterQUICConnection" ELSE reader
    /\ UNCHANGED <<line, data>>

(* The end of the stream ends the loop.                                    *)
ReadEOF ==
    /\ reader = "handleConnection" /\ unread = <<>>
    /\ bytes' = TrimSpace(bytes)
    /\ reader' = "RegisterQUICConnection"
    /\ UNCHANGED <<line, data, unread>>

(* Mutant of ReadOctet: the length is compared before the octet is added.  *)
ReadOctetLate ==
    /\ reader = "ReadTargetAddress" /\ unread # <<>>
    /\ unread' = Tail(unread)
    /\ \/ /\ Head(unread) = Newline
          /\ bytes' = TrimSpace(bytes) /\ reader' = "ProxyTCP"
       \/ /\ Head(unread) # Newline
          /\ bytes' = Append(bytes, Head(unread))
          /\ reader' = IF Len(bytes) > MaxTargetAddressLen THEN "too long" ELSE reader
    /\ UNCHANGED <<line, data>>

(* One read of ReadTargetAddress, of one octet.  The stream never ends     *)
(* before the newline, so the loop's branch for io.EOF is not taken: the   *)
(* write of the line fails, and the server then closes the stream, only    *)
(* when the connection is lost or the device has stopped reading.          *)
ReadOctet ==
    /\ reader = "ReadTargetAddress" /\ unread # <<>>
    /\ unread' = Tail(unread)
    /\ \/ /\ Head(unread) = Newline
          /\ bytes' = TrimSpace(bytes) /\ reader' = "ProxyTCP"
       \/ /\ Head(unread) # Newline
          /\ bytes' = Append(bytes, Head(unread))
          /\ reader' = IF Len(bytes') > MaxTargetAddressLen THEN "too long" ELSE reader
    /\ UNCHANGED <<line, data>>

(* The deadline of handleConnection passes, or the connection is lost: the *)
(* connection of a device is closed, a data stream is.                     *)
ReadFails ==
    /\ reader \in Reading
    /\ reader' = "failed"
    /\ UNCHANGED <<line, data, unread, bytes>>

Headers ==
    \/ \E l \in Line : Connect(l)
    \/ \E l \in Line, d \in Payload : WriteTargetAddress(l, d)
    \/ ReadPiece \/ ReadEOF \/ ReadOctet \/ ReadFails

HeadersSpec == HeadersInit /\ [][Headers]_headers

(* The line at the head of a stream arrives, without the spaces around it, *)
(* however it is cut into pieces, and the client's data behind an address  *)
(* is left for the target.  An address is dialed whole or not at all: that *)
(* happens only when it is too long, and always then.                      *)
HeadersArrive ==
    /\ reader = "RegisterQUICConnection" => bytes = TrimSpace(line)
    /\ reader = "ProxyTCP" =>
          /\ bytes = TrimSpace(line) /\ unread = data
          /\ Len(line) =< MaxTargetAddressLen
    /\ reader = "too long" => Len(line) > MaxTargetAddressLen

=============================================================================
