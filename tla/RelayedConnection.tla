-------------------------- MODULE RelayedConnection --------------------------
(***************************************************************************)
(* What a client and a target may expect of the relays between them,       *)
(* whatever those are: two pipes.  What one peer sends is given to the     *)
(* other, each chunk once and none before it was sent; and a peer whose    *)
(* connection the relays have closed is given nothing more.  Not all that  *)
(* is sent need arrive.                                                    *)
(***************************************************************************)
EXTENDS Naturals

CONSTANT Peer

VARIABLES
    sent,       \* chunks each peer has sent
    got,        \* chunks of the other peer that each has been given
    ended,      \* the peers that have ended their direction
    closed      \* the peers whose connection the relays have closed

vars == <<sent, got, ended, closed>>

Init ==
    /\ sent = [p \in Peer |-> 0]
    /\ got = [p \in Peer |-> 0]
    /\ ended = {}
    /\ closed = {}

Send(p) ==
    /\ p \notin ended
    /\ sent' = [sent EXCEPT ![p] = @ + 1]
    /\ UNCHANGED <<got, ended, closed>>

Give(p, q) ==
    /\ p # q /\ p \notin closed
    /\ got[p] < sent[q]
    /\ got' = [got EXCEPT ![p] = @ + 1]
    /\ UNCHANGED <<sent, ended, closed>>

End(p) ==
    /\ ended' = ended \cup {p}
    /\ UNCHANGED <<sent, got, closed>>

HangUp(p) ==
    /\ closed' = closed \cup {p}
    /\ UNCHANGED <<sent, got, ended>>

Next ==
    \/ \E p \in Peer : Send(p) \/ End(p) \/ HangUp(p)
    \/ \E p \in Peer, q \in Peer : Give(p, q)

Spec == Init /\ [][Next]_vars

=============================================================================
