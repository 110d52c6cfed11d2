------------------------- MODULE MCHandlerOptions -------------------------
(***************************************************************************)
(* Every option, with and without a value, and configurations that differ  *)
(* from a usual one in each of the ways that New tells apart.              *)
(***************************************************************************)
EXTENDS HandlerOptions

https == [scheme |-> "https", loopback |-> FALSE, bare |-> TRUE]
httpsPath == [https EXCEPT !.bare = FALSE]
http == [https EXCEPT !.scheme = "http"]
httpLocalhost == [http EXCEPT !.loopback = TRUE]

Usual ==
  [origins |-> {https}, allowInsecureLocalhost |-> FALSE, source |-> "certificates",
   ocspEnabled |-> TRUE, timeout |-> 3, designated |-> "", nonceDisabled |-> {},
   allowed |-> {"aia"}, disallowed |-> <<>>, accepted |-> <<>>,
   hashPreference |-> <<"SHA-256">>]

MCConfigurations ==
  UNION { {[Usual EXCEPT !.origins = o, !.allowInsecureLocalhost = a] :
             o \in {{}, {https, httpLocalhost}, {http}, {httpsPath}}, a \in BOOLEAN},
          {[Usual EXCEPT !.source = s] : s \in {"certificates", "empty", "broken"}},
          {[Usual EXCEPT !.ocspEnabled = FALSE],
           [Usual EXCEPT !.nonceDisabled = {"aia"}, !.allowed = {}]},
          {[Usual EXCEPT !.timeout = t, !.designated = d] : t \in {0, 3}, d \in {"", "designated"}},
          {[Usual EXCEPT !.disallowed = p] : p \in {<<"malformed">>, <<"blank", "other">>}},
          {[Usual EXCEPT !.accepted = p] : p \in {<<"malformed">>, <<"blank", "qscd">>}},
          {[Usual EXCEPT !.hashPreference = p] : p \in {<<>>, <<"unsupported">>}} }

opt(name, values) == {[name |-> name, value |-> v] : v \in values}

MCOptions ==
  UNION { opt("WithNonceStore", {{}, {"redis"}, {"other"}}),
          opt("WithAssertionIssuer", {{}, {1}, {2}}),
          opt("WithPublishedJWKS", {{}, {{1}}, {{1, 2}}}),
          opt("WithRuntimeTrust", {{}}),
          opt("WithOCSPTransport", {{}, {"traced"}}) }
===========================================================================
