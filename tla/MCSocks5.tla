------------------------------ MODULE MCSocks5 ------------------------------
(* Requests for Socks5: every kind of address in an acceptable request, and *)
(* one request for each other way to be refused.                           *)
EXTENDS Socks5

Kinds == {"ipv4", "ipv6", "mapped", "name", "ipv4 name", "ipv6 name", "no name", "unknown"}

Plain(k) == [version |-> 5, methods |-> <<2, 0>>, command |-> 1, kind |-> k]

MCRequest ==
    {Plain(k) : k \in Kinds}
      \cup {[Plain("ipv4") EXCEPT !.version = 4],
            [Plain("ipv4") EXCEPT !.methods = <<>>],
            [Plain("ipv4") EXCEPT !.methods = <<2>>],
            [Plain("ipv4") EXCEPT !.command = 2]}

=============================================================================
