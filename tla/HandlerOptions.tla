-------------------------- MODULE HandlerOptions --------------------------
(***************************************************************************)
(* The construction of a handler: New applies its options one by one, then *)
(* loads trust material and builds the validator, the signer and the nonce *)
(* generator, each through a builder of its own.  Any of the stages after  *)
(* the options may fail.                                                   *)
(*                                                                         *)
(* A pointer or an interface is the empty set when it is nil and else the  *)
(* set of what it refers to.  Signing keys are numbers, an OID is a        *)
(* string, and of an origin count its scheme, whether its host is the      *)
(* local loopback and whether it is bare, with nothing behind the host.    *)
(* Durations are in seconds.                                               *)
(***************************************************************************)
EXTENDS Integers, Sequences, Functions

CONSTANTS
  Configurations,   \* the configurations New may be called with
  Options,          \* the options New may be called with
  MaxOptions        \* bound on their number

ASSUME OptionsAssumption ==
  /\ MaxOptions \in Nat
  /\ \A c \in Configurations : c.timeout \in Int

VARIABLES
  cfg,     \* the configuration
  given,   \* the options applied so far
  stage,   \* "options", "trust", "validator", "signer", "generator",
           \* "built" or "failed"
  h        \* the handler

optionsVars == <<cfg, given, stage, h>>

(* The default store of New, NewSessionStore. *)
SessionStore == "session"

NewHandler == [store |-> SessionStore, issuer |-> {}, published |-> {},
               runtimeTrust |-> FALSE, transport |-> {},
               validator |-> {}, signer |-> {}, generator |-> {}]

OptionsInit ==
  /\ cfg \in Configurations
  /\ given = <<>>
  /\ stage = "options"
  /\ h = NewHandler

(***************************************************************************)
(* The options.  Each carries a pointer, value, that may be nil.           *)
(***************************************************************************)
WithNonceStore(store) ==
  h' = [h EXCEPT !.store = IF store = {} THEN @ ELSE CHOOSE s \in store : TRUE]

MutantIssuerNotPublished(iss) == h' = [h EXCEPT !.issuer = iss]

(* KeySet of an issuer has its key alone. *)
WithAssertionIssuer(iss) ==
  h' = [h EXCEPT !.issuer = iss,
                 !.published = IF iss # {} /\ @ = {} THEN {iss} ELSE @]

WithPublishedJWKS(keys) ==
  h' = [h EXCEPT !.published = IF keys = {} THEN @ ELSE keys]

WithRuntimeTrust == h' = [h EXCEPT !.runtimeTrust = TRUE]

WithOCSPTransport(rt) == h' = [h EXCEPT !.transport = rt]

ApplyOption(o) ==
  /\ stage = "options" /\ Len(given) < MaxOptions
  /\ \/ o.name = "WithNonceStore" /\ WithNonceStore(o.value)
     \/ o.name = "WithAssertionIssuer" /\ WithAssertionIssuer(o.value)
     \/ o.name = "WithPublishedJWKS" /\ WithPublishedJWKS(o.value)
     \/ o.name = "WithRuntimeTrust" /\ WithRuntimeTrust
     \/ o.name = "WithOCSPTransport" /\ WithOCSPTransport(o.value)
  /\ given' = Append(given, o)
  /\ UNCHANGED <<cfg, stage>>

EndOptions ==
  /\ stage = "options"
  /\ stage' = "trust"
  /\ UNCHANGED <<cfg, given, h>>

FailNew ==
  /\ stage' = "failed"
  /\ UNCHANGED <<cfg, given, h>>

(* The trust material is there, missing or empty, or broken: see module    *)
(* TrustDirectory.                                                         *)
LoadMaterial ==
  /\ stage = "trust"
  /\ IF cfg.source = "certificates" \/ (cfg.source = "empty" /\ h.runtimeTrust)
     THEN stage' = "validator" /\ UNCHANGED <<cfg, given, h>>
     ELSE FailNew

(* ParseOIDs leaves blanks out and fails on an entry that is no OID. *)
parsesAsOIDs(values) == "malformed" \notin Range(values)

ParseOIDs(values) == SelectSeq(values, LAMBDA v : v # "blank")

(***************************************************************************)
(* ocsp.NewChecker fills in what the options leave at zero.                *)
(***************************************************************************)
orDefault(d, default) == IF d <= 0 THEN default ELSE d

NewChecker(o) ==
  [o EXCEPT !.client = IF @ = {} THEN {"HTTPClient"} ELSE @,
            !.timeout = orDefault(@, 5),
            !.skew = orDefault(@, 15 * 60),
            !.age = orDefault(@, 2 * 60)]

DefaultDisallowedPolicies == <<"mobile-id">>

NewAuthTokenValidatorBuilder ==
  [client |-> {}, timeout |-> 5, skew |-> 15 * 60, age |-> 2 * 60,
   disallowed |-> DefaultDisallowedPolicies]

normalizes(origin) ==
  /\ \/ origin.scheme = "https"
     \/ cfg.allowInsecureLocalhost /\ origin.scheme = "http" /\ origin.loopback
  /\ origin.bare

designatedConfig == IF cfg.designated = "" THEN {} ELSE {cfg.designated}

(* The builder as buildValidator leaves it. *)
builder ==
  [NewAuthTokenValidatorBuilder EXCEPT
     !.timeout = IF cfg.timeout > 0 THEN cfg.timeout ELSE @,
     !.disallowed = IF cfg.disallowed = <<>> THEN @ ELSE ParseOIDs(cfg.disallowed)]

(* buildValidator and Build: an error in a list of OIDs, no origin or one  *)
(* that is refused fail New.                                               *)
BuildValidator ==
  /\ stage = "validator"
  /\ IF parsesAsOIDs(cfg.disallowed) /\ cfg.origins # {} /\ \A o \in cfg.origins : normalizes(o)
     THEN /\ h' = [h EXCEPT !.validator =
               {[disallowed |-> builder.disallowed,
                 checker |-> IF cfg.ocspEnabled
                             THEN {NewChecker([client |-> builder.client,
                                     timeout |-> builder.timeout,
                                     designated |-> designatedConfig,
                                     nonceDisabled |-> cfg.nonceDisabled,
                                     allowed |-> cfg.allowed,
                                     skew |-> builder.skew, age |-> builder.age])}
                             ELSE {}]}]
          /\ stage' = "signer"
          /\ UNCHANGED <<cfg, given>>
     ELSE FailNew

MutantOcspOptionsOmitAllowlist ==
  [client |-> h.transport, timeout |-> cfg.timeout, designated |-> designatedConfig,
   nonceDisabled |-> cfg.nonceDisabled, allowed |-> {}, skew |-> 0, age |-> 0]

(* The options of the signer's checker, which leave skew and age at zero. *)
ocspOpts ==
  [client |-> h.transport, timeout |-> cfg.timeout, designated |-> designatedConfig,
   nonceDisabled |-> cfg.nonceDisabled, allowed |-> cfg.allowed, skew |-> 0, age |-> 0]

(* NewSigner wants a preference, of supported hash functions only. *)
BuildSigner ==
  /\ stage = "signer"
  /\ IF /\ parsesAsOIDs(cfg.accepted)
        /\ cfg.hashPreference # <<>> /\ "unsupported" \notin Range(cfg.hashPreference)
     THEN /\ h' = [h EXCEPT !.signer =
               {[accepted |-> ParseOIDs(cfg.accepted),
                 checker |-> IF cfg.ocspEnabled THEN {NewChecker(ocspOpts)} ELSE {}]}]
          /\ stage' = "generator"
          /\ UNCHANGED <<cfg, given>>
     ELSE FailNew

MutantGeneratorOfDefaultStore ==
  /\ stage = "generator"
  /\ h' = [h EXCEPT !.generator = {[store |-> SessionStore]}]
  /\ stage' = "built"
  /\ UNCHANGED <<cfg, given>>

(* The generator binds to the store; its builder has one, and cannot fail. *)
BuildGenerator ==
  /\ stage = "generator"
  /\ h' = [h EXCEPT !.generator = {[store |-> h.store]}]
  /\ stage' = "built"
  /\ UNCHANGED <<cfg, given>>

OptionsNext ==
  \/ \E o \in Options : ApplyOption(o)
  \/ EndOptions \/ LoadMaterial \/ BuildValidator \/ BuildSigner \/ BuildGenerator

OptionsSpec == OptionsInit /\ [][OptionsNext]_optionsVars

(***************************************************************************)
(* Properties of the handler that New returns                              *)
(***************************************************************************)
theValidator == CHOOSE v \in h.validator : TRUE
theSigner == CHOOSE s \in h.signer : TRUE

(* The checkers of the validator and of the signer treat responders alike, *)
(* although one is configured through the builder and its defaults and the *)
(* other through ocsp.Options and the defaults of NewChecker.              *)
CheckersAgree ==
  stage = "built" =>
    {[c EXCEPT !.client = {}] : c \in theValidator.checker}
      = {[c EXCEPT !.client = {}] : c \in theSigner.checker}

(* The generator puts nonces into the store from which login takes them,   *)
(* the one of the last WithNonceStore that was given a store.              *)
OneNonceStore ==
  LET stores == {i \in DOMAIN given : given[i].name = "WithNonceStore" /\ given[i].value # {}}
  IN stage = "built" =>
       /\ h.generator = {[store |-> h.store]}
       /\ IF stores = {} THEN h.store = SessionStore
          ELSE \E i \in stores : h.store \in given[i].value /\ \A j \in stores : j <= i

(* A handler that signs assertions publishes the key it signs with, in     *)
(* whatever order the options come: as long as they name one issuer, or    *)
(* key sets that have the keys of all issuers.  Only then, because the     *)
(* first issuer's keys stay published when a second one signs.             *)
SigningKeyIsPublished ==
  LET issuers == UNION {o.value : o \in {p \in Range(given) : p.name = "WithAssertionIssuer"}}
      keySets == UNION {o.value : o \in {p \in Range(given) : p.name = "WithPublishedJWKS"}}
  IN stage = "built" /\ (\A keys \in keySets : issuers \subseteq keys)
       /\ (keySets # {} \/ \A j, k \in issuers : j = k)
     => \A k \in h.issuer : \E keys \in h.published : k \in keys

(* Where OCSP is on, both sides of a handler check revocation, and with a  *)
(* bound on the exchange, on the skew of clocks and on the age of a        *)
(* response, also if the configuration leaves the timeout out or sets it   *)
(* below zero.                                                             *)
RevocationIsBounded ==
  stage = "built" =>
    /\ cfg.ocspEnabled => theValidator.checker # {} /\ theSigner.checker # {}
    /\ \A c \in theValidator.checker \cup theSigner.checker :
         c.timeout > 0 /\ c.skew > 0 /\ c.age > 0
===========================================================================
