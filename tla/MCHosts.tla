------------------------------ MODULE MCHosts ------------------------------
(***************************************************************************)
(* Every header of up to MaxHeader symbols against origins with a name, a  *)
(* longer name that begins with it, and an IPv6 address.                   *)
(***************************************************************************)
EXTENDS Hosts

CONSTANT MaxHeader   \* bound on the length of a header

MCSymbols == {"a", "A", "1", ":", "[", "]", " "}

MCHeaders == UNION {[1..n -> MCSymbols] : n \in 0..MaxHeader}

short == [host |-> <<"A">>, port |-> <<>>]
long == [host |-> <<"a", "1">>, port |-> <<"1">>]
address == [host |-> <<"[", ":", ":", "]">>, port |-> <<"1">>]
unparsable == [host |-> <<>>, port |-> <<>>]

MCOrigins == {{short}, {long, unparsable}, {address}, {short, address}}
============================================================================
