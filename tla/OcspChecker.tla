---------------------------- MODULE OcspChecker ----------------------------
(***************************************************************************)
(* The decisions of ocsp.Checker.Check: which responder is asked, whether  *)
(* a nonce is sent, and what a response is taken to mean.                  *)
(*                                                                         *)
(* A response is a record [status, thisUpdate, nextUpdate, nonce]: the     *)
(* nonce is "echo" (the one sent), "other" or "absent"; nextUpdate 0 is    *)
(* the zero time, which means that the responder gave none.                *)
(***************************************************************************)
EXTENDS Integers

CONSTANTS
  AllowedResponderURLs,      \* allowlist of AIA responders, {} = all
  NonceDisabledURLs,         \* responders that are asked without a nonce
  DesignatedIssuers,         \* issuers the designated responder supports
  AllowedResponseTimeSkew,   \* ticks
  MaxResponseThisUpdateAge   \* ticks

ASSUME OcspAssumption ==
  /\ AllowedResponseTimeSkew \in Nat
  /\ MaxResponseThisUpdateAge \in Nat

Statuses == {"good", "revoked", "unknown"}

Supports(issuer) == issuer \in DesignatedIssuers

(***************************************************************************)
(* resolveResponder: the designated responder, which bypasses the          *)
(* allowlist, or else the first AIA URL if there is one and the allowlist  *)
(* admits it.  The handler sets its designated responder up with a nonce.  *)
(***************************************************************************)
responderOf(cert, issuer) ==
  IF Supports(issuer) THEN "designated" ELSE cert.ocspURL

isResponderAllowed(url) ==
  \/ url = "designated"
  \/ url # "none" /\ (AllowedResponderURLs = {} \/ url \in AllowedResponderURLs)

sendsNonce(url) == url \notin NonceDisabledURLs

MutantNonceNotCompared(url, resp) == TRUE

nonceMatches(url, resp) == sendsNonce(url) => resp.nonce # "other"

MutantFreshnessIgnoresAge(resp, t) ==
  /\ resp.thisUpdate <= t + AllowedResponseTimeSkew
  /\ resp.nextUpdate # 0 => resp.nextUpdate >= t - AllowedResponseTimeSkew

checkFreshness(resp, t) ==
  /\ resp.thisUpdate <= t + AllowedResponseTimeSkew
  /\ resp.nextUpdate # 0 => resp.nextUpdate >= t - AllowedResponseTimeSkew
  /\ t - resp.thisUpdate <= MaxResponseThisUpdateAge + AllowedResponseTimeSkew

(***************************************************************************)
(* The outcome of Check for a parsed and verified response read at time t: *)
(* "good" is the nil error.                                                *)
(***************************************************************************)
CheckResponse(url, resp, t) ==
  IF ~nonceMatches(url, resp) \/ ~checkFreshness(resp, t) \/ resp.status = "unknown"
  THEN "ocspFailed" ELSE resp.status
============================================================================
