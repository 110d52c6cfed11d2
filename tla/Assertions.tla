---------------------------- MODULE Assertions ----------------------------
(***************************************************************************)
(* The identity assertions of package assertion: the service signs them,   *)
(* publishes its keys at the jwks endpoint and rotates its signing key;    *)
(* the Auth service fetches the keys, verifies assertions offline and      *)
(* remembers the jti of those it has consumed.                             *)
(*                                                                         *)
(* Keys are numbered in the order in which they come into use.  Each has a *)
(* key id of its own, so a key set is the set of its keys; assertions are  *)
(* numbered as well, and the number is the jti.  The clock counts ticks    *)
(* and starts well after the Unix epoch, anywhere within a second.  Claims *)
(* carry whole seconds, and the clock of the Auth service is off by skew.  *)
(* The Auth service and its memory are external.                           *)
(***************************************************************************)
EXTENDS Integers, Sequences

CONSTANTS
  TicksPerSecond,
  TTL,             \* Issuer.ttl, in ticks
  Leeway,          \* Verifier.leeway, in ticks
  MaxSkew,         \* how far the clock of the Auth service may be off
  RememberFor,     \* how long after exp the Auth service remembers a jti
  KeepPrevious,    \* BOOLEAN: a rotation publishes the previous keys as well
  Damages,         \* what may be wrong with a presented token, see Verify
  MaxKeys, MaxAssertions, MaxPresented, MaxTicks   \* bounds

ASSUME AssertionsAssumption ==
  /\ TicksPerSecond \in Nat \ {0}
  /\ {TTL, Leeway, MaxSkew, RememberFor} \subseteq Nat
  /\ KeepPrevious \in BOOLEAN
  /\ {MaxKeys, MaxAssertions, MaxPresented, MaxTicks} \subseteq Nat

VARIABLES
  time,        \* the clock of the service
  skew,        \* the clock of the Auth service reads time + skew
  active,      \* the key of the running issuer
  published,   \* the key set of the jwks endpoint
  fetch,       \* the request to the jwks endpoint: [pc, doc, covers]
  minted,      \* assertions issued: [key, iat, exp, at]
  trusted,     \* the key set of the verifier
  covers,      \* history: how many assertions were issued when it was served
  seen,        \* what the Auth service remembers: [jti, until]
  presented    \* history: every call of Verify, [jti, damage, result, at]

serviceVars == <<active, published, minted>>
consumerVars == <<trusted, covers, seen, presented>>
assertionVars == <<time, skew, serviceVars, fetch, consumerVars>>

Verdicts ==
  {"ok", "replayed", "invalidToken", "algorithm", "unknownKey", "signature",
   "issuer", "audience", "expired", "notYetValid"}

Assertion == [key : Nat, iat : Int, exp : Int, at : Int]

JWK == [kty : {"EC"}, crv : {"P-256"}, kid : Nat]

NoFetch == [pc |-> "idle", doc |-> {}, covers |-> 0]

AssertionsTypeOK ==
  /\ time \in Nat /\ skew \in Int
  /\ active \in Nat /\ published \subseteq Nat
  /\ fetch \in [pc : {"idle", "iterating", "answered"}, doc : SUBSET JWK, covers : Nat]
  /\ minted \in Seq(Assertion)
  /\ trusted \subseteq Nat /\ covers \in Nat
  /\ seen \subseteq [jti : Nat, until : Int]
  /\ presented \in Seq([jti : Nat, damage : Damages, result : Verdicts, at : Nat])

(***************************************************************************)
(* The key set and its two conversions.  JWKS writes every key as an EC    *)
(* P-256 key; KeySetFromJWKS keeps the entries that are labelled so.       *)
(***************************************************************************)
Add(keys, kid) == keys \cup {kid}

KeySet(key) == Add({}, key)

JWKS(keys) == {[kty |-> "EC", crv |-> "P-256", kid |-> k] : k \in keys}

KeySetFromJWKS(doc) ==
  {j.kid : j \in {i \in doc : i.kty = "EC" /\ i.crv = "P-256"}}

(* time.Time.Unix, and time.Unix back to ticks. *)
Unix(t) == t \div TicksPerSecond

FromUnix(s) == s * TicksPerSecond

Epoch == FromUnix(100)

AssertionsInit ==
  /\ time \in Epoch..Epoch + TicksPerSecond - 1
  /\ skew \in -MaxSkew..MaxSkew
  /\ active = 1
  /\ published = KeySet(1)
  /\ fetch = NoFetch
  /\ minted = <<>>
  /\ trusted = {}
  /\ covers = 0
  /\ seen = {}
  /\ presented = <<>>

(* The claims that Issue signs, with the time of issue for the properties. *)
Claims == [key |-> active, iat |-> Unix(time), exp |-> Unix(time + TTL), at |-> time]

(* Issue, for a subject with a national id and with entropy for the jti. *)
IssueAssertion ==
  /\ Len(minted) < MaxAssertions
  /\ minted' = Append(minted, Claims)
  /\ UNCHANGED <<time, skew, active, published, fetch, consumerVars>>

MutantRotatedForgets(key) == KeySet(key)

(***************************************************************************)
(* The set that the operator gives to WithPublishedJWKS: the KeySet of the *)
(* new issuer to which the previous keys are added.  Without that option   *)
(* WithAssertionIssuer publishes the KeySet of the issuer alone.           *)
(***************************************************************************)
RotatedKeys(key) == IF KeepPrevious THEN KeySet(key) \cup 1..key - 1 ELSE KeySet(key)

(* The service restarts with a new issuer; a request it serves is lost. *)
Rotate ==
  /\ active < MaxKeys
  /\ active' = active + 1
  /\ published' = RotatedKeys(active + 1)
  /\ fetch' = IF fetch.pc = "iterating" THEN NoFetch ELSE fetch
  /\ UNCHANGED <<time, skew, minted, consumerVars>>

(***************************************************************************)
(* GET /.well-known/jwks.json, which iterates over the map of the key set. *)
(***************************************************************************)
ServeJWKS ==
  /\ fetch.pc = "idle"
  /\ fetch' = [pc |-> "iterating", doc |-> JWKS(published), covers |-> Len(minted)]
  /\ UNCHANGED <<time, skew, serviceVars, consumerVars>>

AnswerJWKS ==
  /\ fetch.pc = "iterating"
  /\ fetch' = [fetch EXCEPT !.pc = "answered"]
  /\ UNCHANGED <<time, skew, serviceVars, consumerVars>>

(***************************************************************************)
(* The operator announces the next key with Add while the endpoint serves. *)
(* Nothing locks the map.  Beside an iteration the runtime may notice and  *)
(* end the process, which then starts again with the keys it is configured *)
(* with, or the iteration meets the new key or misses it.                  *)
(***************************************************************************)
Announce ==
  /\ active < MaxKeys /\ active + 1 \notin published
  /\ \/ /\ published' = Add(published, active + 1)
        /\ \/ UNCHANGED fetch
           \/ /\ fetch.pc = "iterating"
              /\ fetch' = [fetch EXCEPT !.doc = @ \cup JWKS({active + 1})]
     \/ /\ fetch.pc = "iterating"
        /\ published' = RotatedKeys(active)
        /\ fetch' = NoFetch
  /\ UNCHANGED <<time, skew, active, minted, consumerVars>>

(* The document arrives and a verifier is built from it, or it is lost. *)
Install ==
  /\ fetch.pc = "answered"
  /\ trusted' = KeySetFromJWKS(fetch.doc)
  /\ covers' = fetch.covers
  /\ fetch' = NoFetch
  /\ UNCHANGED <<time, skew, serviceVars, seen, presented>>

LoseJWKS ==
  /\ fetch.pc = "answered"
  /\ fetch' = NoFetch
  /\ UNCHANGED <<time, skew, serviceVars, consumerVars>>

MutantLeewayOnce(a, now) ==
  IF now > FromUnix(a.exp) THEN "expired"
  ELSE IF now + Leeway < FromUnix(a.iat) THEN "notYetValid" ELSE "ok"

MutantLeewayTwice(a, now) ==
  IF now > FromUnix(a.exp) + 2 * Leeway THEN "expired"
  ELSE IF now + Leeway < FromUnix(a.iat) THEN "notYetValid" ELSE "ok"

(* A zero exp or iat is one that the claims do not carry. *)
TimeClaims(a, now) ==
  IF a.exp # 0 /\ now > FromUnix(a.exp) + Leeway THEN "expired"
  ELSE IF a.iat # 0 /\ now + Leeway < FromUnix(a.iat) THEN "notYetValid" ELSE "ok"

(***************************************************************************)
(* Verify.  A token may arrive damaged; damage is the verdict of the check *)
(* that notices, or "none".  The checks before the lookup of the key, and  *)
(* those between it and the times, come in this order.                     *)
(***************************************************************************)
Verify(a, damage, now) ==
  IF damage \in {"invalidToken", "algorithm"} THEN damage
  ELSE IF a.key \notin trusted THEN "unknownKey"
  ELSE IF damage \in {"signature", "issuer", "audience"} THEN damage
  ELSE TimeClaims(a, now)

Remembers(j, now) == \E e \in seen : e.jti = j /\ now < e.until

(***************************************************************************)
(* A token reaches the Auth service, for the first time or again: Verify,  *)
(* and then the jti, which is looked up and recorded in one step.          *)
(***************************************************************************)
Present(j, damage) ==
  LET now == time + skew
      verdict == Verify(minted[j], damage, now)
      result == IF verdict = "ok" /\ Remembers(j, now) THEN "replayed" ELSE verdict
  IN /\ Len(presented) < MaxPresented
     /\ presented' = Append(presented,
          [jti |-> j, damage |-> damage, result |-> result, at |-> time])
     /\ seen' = IF result = "ok"
                THEN seen \cup {[jti |-> j, until |-> FromUnix(minted[j].exp) + RememberFor]}
                ELSE seen
     /\ UNCHANGED <<time, skew, serviceVars, fetch, trusted, covers>>

(* Time passes; the memory drops what has ended. *)
TickAssertions ==
  /\ time < Epoch + MaxTicks
  /\ time' = time + 1
  /\ seen' = {e \in seen : time + 1 + skew < e.until}
  /\ UNCHANGED <<skew, serviceVars, fetch, trusted, covers, presented>>

AssertionsNext ==
  \/ IssueAssertion \/ Rotate \/ Announce
  \/ ServeJWKS \/ AnswerJWKS \/ Install \/ LoseJWKS
  \/ \E j \in 1..Len(minted), damage \in Damages : Present(j, damage)
  \/ TickAssertions

AssertionsSpec == AssertionsInit /\ [][AssertionsNext]_assertionVars

(***************************************************************************)
(* Properties                                                              *)
(***************************************************************************)

(* No jti is accepted twice, whoever presents the assertion and however    *)
(* often: what assertion.go asks of the consumer of Verify, which keeps no *)
(* state itself.                                                           *)
AcceptedOnce ==
  \A i, k \in DOMAIN presented :
    presented[i].result = "ok" /\ presented[k].result = "ok"
      /\ presented[i].jti = presented[k].jti => i = k

(* A verifier built from a JWKS document knows the key of every assertion  *)
(* that was issued before the document was served, whatever rotations,     *)
(* announcements and crashes lay between: "so in-flight assertions remain  *)
(* verifiable".                                                            *)
InFlightRemainVerifiable == \A j \in 1..covers : minted[j].key \in trusted

(* What Verify accepts was issued at most the lifetime, the leeway and the *)
(* skew of the clocks ago.                                                 *)
AcceptedIsFresh ==
  \A i \in DOMAIN presented :
    presented[i].result = "ok" =>
      presented[i].at - minted[presented[i].jti].at <= TTL + Leeway + MaxSkew

(* While the clocks are no further apart than the leeway, an assertion is  *)
(* never refused as issued in the future, nor as expired in its lifetime,  *)
(* less the fraction of a second that exp loses when it is truncated.      *)
FreshIsNotRefused ==
  MaxSkew <= Leeway =>
    \A i \in DOMAIN presented :
      /\ presented[i].result = "expired" =>
           presented[i].at - minted[presented[i].jti].at > TTL - (TicksPerSecond - 1)
      /\ presented[i].result # "notYetValid"
============================================================================
