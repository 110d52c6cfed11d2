--------------------------- MODULE MCWebEidAuth ---------------------------
(***************************************************************************)
(* The authentication endpoints on small instances: cards and CAs, and the *)
(* instance in which requests contend for nonces.                          *)
(***************************************************************************)
EXTENDS WebEidAuth, TLC

Key(k, last) == [key |-> k, notBefore |-> 0, notAfter |-> last]

Card ==
  [issuer |-> "k1", notBefore |-> 0, notAfter |-> 99, digitalSignature |-> TRUE,
   extKeyUsage |-> {"clientAuth"}, policies |-> {}, cn |-> TRUE, idCode |-> TRUE,
   ocspURL |-> "cache"]

MCCAs == {Key("k1", 99), Key("k2", 99)}

(* One good card and a path that never changes. *)
OneCard == {Card}
StaticTrust == {[certs |-> {Key("k1", 99)}, garbage |-> FALSE]}

(* Cards of two CAs, one of which expires early, and a path that changes.  *)
ExpiringCards == {[Card EXCEPT !.notAfter = 2], [Card EXCEPT !.issuer = "k2"]}
ChangingTrust ==
  {[certs |-> cas, garbage |-> FALSE] : cas \in {{Key("k1", 99)}, {Key("k2", 99)}, MCCAs}}

(* A path that may also be empty or hold a file that does not parse. *)
AnyTrust ==
  [certs : SUBSET MCCAs, garbage : {FALSE}] \cup {[certs |-> {}, garbage |-> TRUE]}

SymmetryBoth == Permutations(Requests) \cup Permutations(Browsers)
============================================================================
