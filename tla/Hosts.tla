------------------------------- MODULE Hosts -------------------------------
(***************************************************************************)
(* The Host check of EnsureSession.  The header is a sequence of symbols,  *)
(* for hostMatches works on its colons and brackets; letters stand for     *)
(* whatever else a host name is made of.  An origin is the host and port   *)
(* of its URL, as net/url splits them; one that does not parse has no      *)
(* host.                                                                   *)
(***************************************************************************)
EXTENDS Integers, Sequences, FiniteSetsExt

CONSTANTS
  Symbols,             \* of a host or a header
  OriginLists,         \* values of Configuration.Origins, as sets
  Headers,             \* values of the Host header
  EnforceHostHeader    \* BOOLEAN

ASSUME HostsAssumption ==
  /\ EnforceHostHeader \in BOOLEAN
  /\ "a" \in Symbols
  /\ Headers \subseteq Seq(Symbols)
  /\ \A list \in OriginLists : list \subseteq [host : Seq(Symbols), port : Seq(Symbols)]

VARIABLES
  origins,   \* Configuration.Origins
  header,    \* the Host header of the request that is served
  verdict    \* of EnsureSession: "passed", "refused", or "none" before it

hostVars == <<origins, header, verdict>>

ToLower(s) == [i \in DOMAIN s |-> IF s[i] = "A" THEN "a" ELSE s[i]]

TrimSpace(s) ==
  LET kept == {i \in DOMAIN s : s[i] # " "}
  IN IF kept = {} THEN <<>> ELSE SubSeq(s, Min(kept), Max(kept))

TrimPrefix(s, c) == IF s # <<>> /\ Head(s) = c THEN Tail(s) ELSE s

HasSuffix(s, c) == s # <<>> /\ s[Len(s)] = c

TrimSuffix(s, c) == IF HasSuffix(s, c) THEN SubSeq(s, 1, Len(s) - 1) ELSE s

HasPrefix(s, prefix) == Len(prefix) <= Len(s) /\ SubSeq(s, 1, Len(prefix)) = prefix

(* The position of the last c, or 0 where strings.LastIndex returns -1. *)
LastIndex(s, c) ==
  LET at == {i \in DOMAIN s : s[i] = c} IN IF at = {} THEN 0 ELSE Max(at)

unbracketed(s) == TrimSuffix(TrimPrefix(s, "["), "]")

originHostnames(list) == {ToLower(unbracketed(o.host)) : o \in {p \in list : p.host # <<>>}}

MutantFirstColon(h) ==
  LET colons == {i \in DOMAIN h : h[i] = ":"}
  IN IF colons # {} /\ ~HasSuffix(h, "]") THEN SubSeq(h, 1, Min(colons) - 1) ELSE h

(* The last colon is before a port unless a bracket closes behind it. *)
withoutPort(h) ==
  LET i == LastIndex(h, ":")
  IN IF i > 0 /\ ~HasSuffix(h, "]") /\ "]" \notin Range(SubSeq(h, i + 1, Len(h)))
     THEN SubSeq(h, 1, i - 1) ELSE h

MutantPrefixMatches(requestHost, originHost) ==
  HasPrefix(TrimPrefix(ToLower(TrimSpace(requestHost)), "["), originHost)

hostMatches(requestHost, originHost) ==
  LET h == ToLower(TrimSpace(requestHost))
  IN h # <<>> /\ unbracketed(withoutPort(h)) = unbracketed(originHost)

hostMatchesAny(requestHost, originHosts) == \E o \in originHosts : hostMatches(requestHost, o)

HostsInit ==
  /\ origins \in OriginLists
  /\ header = <<>>
  /\ verdict = "none"

EnsureSession(h) ==
  LET originHosts == originHostnames(origins)
      enforceHost == EnforceHostHeader /\ originHosts # {}
  IN /\ header' = h
     /\ verdict' = IF enforceHost /\ ~hostMatchesAny(h, originHosts) THEN "refused" ELSE "passed"
     /\ UNCHANGED origins

(* The handler behind the middleware, or the error, ends the request. *)
EndRequest ==
  /\ verdict # "none"
  /\ header' = <<>> /\ verdict' = "none"
  /\ UNCHANGED origins

HostsNext ==
  \/ verdict = "none" /\ \E h \in Headers : EnsureSession(h)
  \/ EndRequest

HostsSpec == HostsInit /\ [][HostsNext]_hostVars

(***************************************************************************)
(* The reference: how a client writes the host of a URL, a name or an IPv6 *)
(* address in brackets, and the port behind it.                            *)
(***************************************************************************)
isName(s) == s # <<>> /\ Range(s) \cap {":", "[", "]", " "} = {}

isAddress(s) ==
  /\ Len(s) > 2 /\ Head(s) = "[" /\ HasSuffix(s, "]")
  /\ LET inner == Range(SubSeq(s, 2, Len(s) - 1))
     IN ":" \in inner /\ inner \cap {"[", "]", " "} = {}

isPort(s) == s = <<>> \/ (Head(s) = ":" /\ Range(Tail(s)) \subseteq {"1"})

(* Host parts of a header: a single one if it is written as it should be. *)
hostParts(h) ==
  {part \in {SubSeq(h, 1, k) : k \in DOMAIN h} :
     (isName(part) \/ isAddress(part)) /\ isPort(SubSeq(h, Len(part) + 1, Len(h)))}

(***************************************************************************)
(* hostMatches compares "ignoring case and any port": a header that is     *)
(* written as it should be passes exactly if its host is that of an        *)
(* origin, for names and for IPv6 addresses, with and without a port.      *)
(***************************************************************************)
HostCheckIsExact ==
  verdict # "none" /\ EnforceHostHeader =>
    \A part \in hostParts(ToLower(header)) :
      (verdict = "passed")
        <=> \E o \in origins : o.host # <<>> /\ part = ToLower(o.host)

(***************************************************************************)
(* Whatever else is sent, a header that passes begins with the host of an  *)
(* origin and has nothing but a bracket and a port behind it: one that     *)
(* only begins like an origin is refused.                                  *)
(***************************************************************************)
PassedNamesAnOrigin ==
  verdict = "passed" /\ EnforceHostHeader =>
    LET h == TrimPrefix(ToLower(TrimSpace(header)), "[")
    IN \E name \in originHostnames(origins) :
         /\ HasPrefix(h, name)
         /\ LET rest == TrimPrefix(SubSeq(h, Len(name) + 1, Len(h)), "]")
            IN rest = <<>> \/ (Head(rest) = ":" /\ Range(Tail(rest)) \cap {":", "]"} = {})
============================================================================
