-------------------------- MODULE MCControlMessages --------------------------
(* A small vocabulary for ControlMessages: ids that are ordinary and ids   *)
(* that collide with a status word, with and without location and tags;    *)
(* and lines with a space, up to one octet longer than an address may be.  *)
EXTENDS ControlMessages

MCId == {"dev", "ok"}
MCPlainId == {"dev"}    \* ids that collide with nothing
MCLocation == {"", "eu"}
MCTagList == {<<>>, <<"a">>, <<"a", "b">>}
MCAddress == {"ip:443"}
MCTarget == {"host:80", "longhost:80"}
MCLongTarget == {"longhost:80"}
MCReason == {"", "failed"}
MCNumber == 0 .. 2
MCBinary == "<not UTF-8>"
MCOctet == {"a", "b", Space, Newline}
MCLine == UNION {[1 .. n -> {"a", Space}] : n \in 1 .. 3}
MCPayload == {<<>>, <<"b", Newline>>}

=============================================================================
