--------------------------- MODULE CheckProofs -----------------------------
(***************************************************************************)
(* The checks of the validator in the composed system, for any number of   *)
(* requests, certificates, deliveries and restarts, with or without OCSP.  *)
(*                                                                         *)
(* CheckInv is the inductive invariant: a request that has passed a step   *)
(* of Validate keeps what that step established about its token, and       *)
(* relates the set that vouched and the answer of the responder to the     *)
(* clock.                                                                  *)
(***************************************************************************)
EXTENDS RequestProofs

(***************************************************************************)
(* A check of the validator is behind request q once q waits at a later    *)
(* step or has been accepted.                                              *)
(***************************************************************************)
Passed(q, steps) ==
  q.pc \in steps \/ (q.pc = "reply" /\ q.result = "ok" /\ q.kind # "challenge")

(* The certificate was checked at the time the validator noted. *)
Examined(q) ==
  /\ q.token \in Token /\ CertificateChecks(q.token, q.now)
  /\ q.issuedAt <= q.now /\ q.now <= clock

Checked(q) ==
  /\ q.issuedAt <= clock
  /\ q.pc = "put" => q.kind = "challenge"
  /\ Passed(q, {"trust", "issuer", "ocsp", "finish"}) => Examined(q)

(* A set in force since q arrived held the issuer, valid when q was checked. *)
Anchored(q) ==
  \E k \in 1..Len(delivered) :
    /\ k >= q.from
    /\ \E ca \in delivered[k].certs :
         ca.key = q.token.cert.issuer /\ CheckValidity(ca, q.now)

(* Verify found the issuer in a set that was in force since q arrived. *)
Vouched(q) ==
  OneReloader =>
    /\ q.pc \in {"take", "expiry", "checks", "trust"} => q.from <= snapFrom
    /\ Passed(q, {"issuer", "ocsp", "finish"}) => Anchored(q)

(* The responder asked was allowed, and its answer fresh when it was read. *)
Fresh(q) ==
  /\ q.ocspAt <= clock
  /\ revokedAt[q.token.cert] # 0 =>
       /\ q.ocspAt - revokedAt[q.token.cert] <=
            MaxResponseThisUpdateAge + AllowedResponseTimeSkew + ResponderSkew
       /\ q.url \in EchoingURLs /\ sendsNonce(q.url) => revokedAt[q.token.cert] >= q.now

NotRevoked(q) ==
  OCSPEnabled =>
    /\ Passed(q, {"ocsp", "finish"}) => isResponderAllowed(q.url)
    /\ Passed(q, {"finish"}) => Fresh(q)

(* The signature, the subject and the assertion were in order. *)
Finished(q) == Passed(q, {}) => "ok" \in Outcomes(q.token, q.nonce)

CheckOK(q) == Checked(q) /\ Vouched(q) /\ NotRevoked(q) /\ Finished(q)

(***************************************************************************)
(* The inductive invariant of the validator: what each request that has    *)
(* come past a check can still rely on, whatever the clock, the CAs and    *)
(* the trust reload did in the meantime.                                   *)
(***************************************************************************)
CheckInv ==
  /\ TypeInv /\ TrustInv
  /\ \A e \in entries : e.issuedAt <= clock
  /\ \A r \in Requests : CheckOK(req[r])

(***************************************************************************)
(* The bounds of checkFreshness and of the responders' clocks.             *)
(***************************************************************************)
LEMMA Spans ==
  /\ ResponderSkew \in Nat
  /\ MaxResponseThisUpdateAge \in Nat
  /\ AllowedResponseTimeSkew \in Nat
<1>1. ResponderSkew \in Nat
  BY AuthAssumption, Zenon
<1>2. MaxResponseThisUpdateAge \in Nat /\ AllowedResponseTimeSkew \in Nat
  BY OcspAssumption
<1> QED BY <1>1, <1>2

(***************************************************************************)
(* A request that has come past no check of Validate obeys CheckOK.        *)
(***************************************************************************)
LEMMA NothingPassed ==
  ASSUME NEW q, ~Passed(q, {"trust", "issuer", "ocsp", "finish"}), q.issuedAt <= clock,
         q.pc = "put" => q.kind = "challenge",
         OneReloader /\ q.pc \in {"take", "expiry", "checks"} => q.from <= snapFrom
  PROVE  CheckOK(q)
<1>1. Checked(q)
  BY DEF Checked
<1>2. Vouched(q)
  BY DEF Vouched, Passed
<1>3. NotRevoked(q) /\ Finished(q)
  BY DEF NotRevoked, Finished, Passed
<1> QED BY <1>1, <1>2, <1>3 DEF CheckOK

(***************************************************************************)
(* What the checks of the certificate and of the signature established     *)
(* depends on the clock alone.                                             *)
(***************************************************************************)
LEMMA ChecksKept ==
  ASSUME NEW q, CheckOK(q), clock' = clock
  PROVE  (Checked(q) /\ Finished(q))'
<1>1. Examined(q) => Examined(q)'
  BY DEF Examined
<1>2. Checked(q)'
  BY <1>1 DEF CheckOK, Checked, Passed
<1>3. Finished(q)'
  BY DEF CheckOK, Finished, Passed
<1> QED BY <1>2, <1>3

(***************************************************************************)
(* What the responder answered depends on the clock and the revocations.   *)
(***************************************************************************)
LEMMA AnswerKept ==
  ASSUME NEW q, CheckOK(q), UNCHANGED <<clock, revokedAt>>
  PROVE  NotRevoked(q)'
<1>1. Fresh(q) => Fresh(q)'
  BY DEF Fresh
<1> QED BY <1>1 DEF CheckOK, NotRevoked, Passed

(***************************************************************************)
(* An anchor stays one while deliveries are only added.                    *)
(***************************************************************************)
LEMMA AnchorKept ==
  ASSUME NEW q, Anchored(q),
         \A n \in 1..Len(delivered) : n \in 1..Len(delivered') /\ delivered'[n] = delivered[n]
  PROVE  Anchored(q)'
<1>1. PICK k \in 1..Len(delivered) :
        /\ k >= q.from
        /\ \E ca \in delivered[k].certs :
             ca.key = q.token.cert.issuer /\ CheckValidity(ca, q.now)
  BY DEF Anchored
<1>2. k \in 1..Len(delivered') /\ delivered'[k] = delivered[k]
  OBVIOUS
<1> QED BY <1>1, <1>2, ZenonT(30) DEF Anchored

(***************************************************************************)
(* A request vouched for stays so while the trust store stands still.      *)
(***************************************************************************)
LEMMA VouchedKept ==
  ASSUME NEW q, CheckOK(q), UNCHANGED <<snapFrom, delivered>>
  PROVE  Vouched(q)'
<1>1. Anchored(q) => Anchored(q)'
  BY DEF Anchored
<1> QED BY <1>1 DEF CheckOK, Vouched, Passed

(* The fields that the checks of Validate set or read are the same. *)
SameToken(p, q) ==
  /\ q.token = p.token /\ q.now = p.now /\ q.from = p.from /\ q.issuedAt = p.issuedAt

(***************************************************************************)
(* A request that goes on after Verify carries on what it had.             *)
(***************************************************************************)
LEMMA CarriedOn ==
  ASSUME NEW p, NEW q, CheckOK(p), SameToken(p, q), p.pc \in {"issuer", "ocsp", "finish"},
         q.pc \in {"ocsp", "finish", "reply"}
  PROVE  Checked(q) /\ Vouched(q)
<1>1. Examined(p) => Examined(q)
  BY DEF Examined, SameToken
<1>2. Anchored(p) => Anchored(q)
  BY DEF Anchored, SameToken
<1>3. Checked(q)
  BY <1>1 DEF CheckOK, Checked, Passed, SameToken
<1>4. Vouched(q)
  BY <1>2 DEF CheckOK, Vouched, Passed
<1> QED BY <1>3, <1>4

(***************************************************************************)
(* A step that replaces one request keeps CheckInv if the new record obeys *)
(* it and nothing that the other requests rely on changes.                 *)
(***************************************************************************)
LEMMA RequestStep ==
  ASSUME CheckInv, TypeInv', NEW r \in Requests, NEW q, Become(r, q), CheckOK(q),
         UNCHANGED <<clock, revokedAt, trustVars>>,
         \A e \in entries' : e.issuedAt <= clock
  PROVE  CheckInv'
<1>1. TrustInv'
  BY TrustInvNext DEF CheckInv
<1>2. \A x \in Requests : CheckOK(req'[x])
  BY DEF CheckInv, TypeInv, TypeOK, Become
<1>3. UNCHANGED <<snapFrom, delivered, clock, revokedAt>>
  BY DEF trustVars
<1>4. ASSUME NEW x \in Requests PROVE CheckOK(req[x])'
  <2>1. PICK p : p = req'[x] /\ CheckOK(p)
    BY <1>2
  <2>2. CheckOK(p)'
    BY <1>3, <2>1, ChecksKept, AnswerKept, VouchedKept DEF CheckOK
  <2> QED BY <2>1, <2>2
<1> QED BY <1>1, <1>4 DEF CheckInv

(***************************************************************************)
(* A request that is refused owes nothing to the validator.                *)
(***************************************************************************)
LEMMA RefusedOK ==
  ASSUME NEW p \in Request, p.issuedAt <= clock, NEW result \in Results \ {"ok"}
  PROVE  CheckOK(Answered(p, result))
<1>1. PICK q : q = Answered(p, result)
  OBVIOUS
<1>2. q.pc = "reply" /\ q.result = result /\ q.issuedAt = p.issuedAt
  BY <1>1 DEF Answered, Request
<1>3. CheckOK(q)
  BY <1>2, NothingPassed DEF Passed
<1> QED BY <1>1, <1>3

(***************************************************************************)
(* So a handler that answers with an error keeps CheckInv.                 *)
(***************************************************************************)
LEMMA RefusalKeeps ==
  ASSUME CheckInv, TypeInv', NEW r \in Requests, NEW result \in Results \ {"ok"},
         Answer(r, result), UNCHANGED <<clock, revokedAt, trustVars>>, entries' \subseteq entries
  PROVE  CheckInv'
<1>1. req[r] \in Request /\ req[r].issuedAt <= clock
  BY DEF CheckInv, TypeInv, TypeOK, CheckOK, Checked, Examined
<1>2. CheckOK(Answered(req[r], result))
  BY <1>1, RefusedOK
<1>3. \A e \in entries' : e.issuedAt <= clock
  BY DEF CheckInv
<1> QED BY <1>2, <1>3, RequestStep DEF Answer

(***************************************************************************)
(* A free slot obeys CheckOK.                                              *)
(***************************************************************************)
LEMMA IdleOK ==
  ASSUME clock \in Nat
  PROVE  CheckOK(Idle)
<1>1. Idle.pc = "idle" /\ Idle.issuedAt = 0
  BY DEF Idle
<1> QED BY <1>1, NothingPassed DEF Passed

(***************************************************************************)
(* What a request is when it arrives.                                      *)
(***************************************************************************)
LEMMA Arrives ==
  ASSUME TypeOK, NEW b \in Browsers, NEW kind \in Kinds, NEW token \in Token \cup {None},
         NEW p, p = Serve(b, kind, token) \/ p = InSession(Serve(b, kind, token))
  PROVE  /\ p \in Request /\ p.kind = kind /\ p.token = token /\ p.issuedAt = 0
         /\ p.from = snapFrom
<1> DEFINE q == Serve(b, kind, token)
<1>1. /\ q \in Request /\ q.kind = kind /\ q.token = token /\ q.issuedAt = 0
      /\ q.from = snapFrom
  BY ServeType, ZenonT(30) DEF Serve, Idle
<1>2. InSession(q) \in Request
  BY InSessionType
<1>3. PICK sid, fresh : InSession(q) = [q EXCEPT !.sid = sid, !.fresh = fresh]
  BY Zenon DEF InSession
<1> HIDE DEF q
<1>4. /\ InSession(q).kind = q.kind /\ InSession(q).token = q.token
      /\ InSession(q).issuedAt = q.issuedAt /\ InSession(q).from = q.from
  BY <1>1, <1>3, ZenonT(30) DEF Request
<1> QED BY <1>1, <1>2, <1>4 DEF q

(***************************************************************************)
(* Every arrival of a request keeps CheckInv: it notes which set is in     *)
(* force and has passed no check.                                          *)
(***************************************************************************)
LEMMA ClientStepChecks ==
  ASSUME CheckInv, NEW r \in Requests, NEW b \in Browsers, ClientStep(r, b)
  PROVE  CheckInv'
<1>1. TypeInv' /\ TypeOK /\ clock \in Nat /\ snapFrom \in Nat
  BY ClientStepType DEF CheckInv, TypeInv, TypeOK, TrustTypeOK
<1>2. UNCHANGED <<clock, revokedAt, trustVars>> /\ entries' = entries
  BY ZenonT(60) DEF ClientStep, Challenge, ChallengeFails, LoginBadBody, SessionFails, SendLogin,
     SendValidate, storeVars, outsideVars
<1>3. ASSUME NEW q, Become(r, q), CheckOK(q) PROVE CheckInv'
  BY <1>1, <1>2, <1>3, RequestStep DEF CheckInv
<1>4. /\ {"randomFailed", "badRequest", "hostMismatch"} \subseteq Results \ {"ok"}
      /\ None \in Token \cup {None}
  BY DEF Results
<1>5. ASSUME NEW kind \in Kinds, NEW p, NEW result \in Results \ {"ok"},
             p = Serve(b, kind, None) \/ p = InSession(Serve(b, kind, None)),
             Become(r, Answered(p, result))
      PROVE  CheckInv'
  <2>1. p \in Request /\ p.issuedAt <= clock
    BY <1>1, <1>4, <1>5, Arrives
  <2> QED BY <1>3, <1>5, <2>1, RefusedOK
<1>6. ASSUME NEW site \in Sites, Challenge(r, b, site) PROVE CheckInv'
  <2>1. PICK p : p = InSession(Serve(b, "challenge", None))
    OBVIOUS
  <2>2. p \in Request /\ p.kind = "challenge"
    BY <1>1, <1>4, <1>6, <2>1, Arrives DEF Challenge
  <2>3. PICK q : /\ q = [p EXCEPT !.pc = "put", !.nonce = Len(issued) + 1, !.issuedAt = clock]
                 /\ Become(r, q)
    BY <1>6, <2>1 DEF Challenge
  <2>4. q.pc = "put" /\ q.kind = "challenge" /\ q.issuedAt = clock
    BY <2>2, <2>3 DEF Request
  <2>5. CheckOK(q)
    BY <1>1, <2>4, NothingPassed DEF Passed
  <2> QED BY <1>3, <2>3, <2>5
<1>7. ASSUME NEW site \in Sites, ChallengeFails(r, b, site) PROVE CheckInv'
  BY <1>4, <1>5, <1>7 DEF ChallengeFails
<1>8. ASSUME NEW site \in Sites, LoginBadBody(r, b, site) PROVE CheckInv'
  BY <1>4, <1>5, <1>8 DEF LoginBadBody
<1>9. ASSUME NEW site \in Sites, NEW kind \in Kinds, SessionFails(r, b, kind, site)
      PROVE  CheckInv'
  BY <1>4, <1>5, <1>9 DEF SessionFails
<1>10. ASSUME NEW p \in Request, p.issuedAt = 0 /\ p.from = snapFrom, NEW q, Become(r, q),
              \/ q = [p EXCEPT !.pc = "take"]
              \/ \E n : q = [p EXCEPT !.pc = "checks", !.nonce = n]
       PROVE  CheckInv'
  <2>1. q.pc \in {"take", "checks"} /\ q.issuedAt = 0 /\ q.from = snapFrom
    BY <1>10 DEF Request
  <2>2. CheckOK(q)
    BY <1>1, <2>1, NothingPassed DEF Passed
  <2> QED BY <1>3, <1>10, <2>2
<1>11. ASSUME NEW site \in Sites, NEW token \in Token, SendLogin(r, b, site, token)
       PROVE  CheckInv'
  <2>1. PICK p : p = InSession(Serve(b, "login", token))
    OBVIOUS
  <2>2. p \in Request /\ p.issuedAt = 0 /\ p.from = snapFrom
    BY <1>1, <1>11, <2>1, Arrives DEF SendLogin
  <2> QED BY <1>10, <1>11, <2>1, <2>2 DEF SendLogin
<1>12. ASSUME NEW n \in Nat, NEW token \in Token, SendValidate(r, b, n, token)
       PROVE  CheckInv'
  <2>1. PICK p : p = Serve(b, "validate", token)
    OBVIOUS
  <2>2. "validate" \in Kinds
    BY <1>12 DEF SendValidate
  <2>3. p \in Request /\ p.issuedAt = 0 /\ p.from = snapFrom
    BY <1>1, <2>1, <2>2, Arrives
  <2>4. \/ Become(r, [p EXCEPT !.pc = "checks", !.nonce = n])
        \/ Become(r, Answered(Serve(b, "validate", None), "badRequest"))
    BY <1>12, <2>1 DEF SendValidate
  <2> QED BY <1>4, <1>5, <1>10, <2>2, <2>3, <2>4
<1>13. \A cert \in Certs, n \in Nat, origin \in Sites, format \in Formats, defect \in Defects :
         [cert |-> cert, nonce |-> n, origin |-> origin, format |-> format,
          defect |-> defect] \in Token
  BY DEF Token
<1>14. 0..MaxNonces \subseteq Nat /\ 1..MaxNonces \subseteq Nat /\ held[b] \subseteq Nat
  BY <1>1, AuthAssumption DEF TypeOK
<1> QED BY <1>6, <1>7, <1>8, <1>9, <1>11, <1>12, <1>13, <1>14, Zenon DEF ClientStep

(***************************************************************************)
(* The steps of the challenge and login handlers before the validator.     *)
(***************************************************************************)
LEMMA StoreStepKeeps ==
  ASSUME CheckInv, TypeInv', NEW r \in Requests,
         PutNonce(r) \/ NonceMissing(r) \/ TakeNonce(r) \/ CheckExpired(r)
  PROVE  CheckInv'
<1>1. PICK p \in Request : p = req[r] /\ CheckOK(p)
  BY DEF CheckInv, TypeInv, TypeOK
<1>2. clock \in Nat /\ {"nonceNotFound", "nonceExpired"} \subseteq Results \ {"ok"}
  BY DEF CheckInv, TypeInv, TypeOK, Results
<1>3. CASE PutNonce(r)
  <2>1. PICK q : q = Answered(p, "ok") /\ Become(r, q)
    BY <1>1, <1>3 DEF PutNonce, Answer
  <2>2. q.pc = "reply" /\ q.kind = p.kind /\ q.issuedAt = p.issuedAt
    BY <2>1 DEF Answered, Request
  <2>3. p.kind = "challenge" /\ p.issuedAt <= clock
    BY <1>1, <1>3 DEF PutNonce, At, CheckOK, Checked, Examined
  <2>4. CheckOK(q)
    BY <2>2, <2>3, NothingPassed DEF Passed
  <2>5. UNCHANGED <<clock, revokedAt, trustVars>>
    BY <1>3 DEF PutNonce, outsideVars
  <2>6. \A e \in entries' : e.issuedAt <= clock
    BY <1>1, <1>3, <2>3 DEF PutNonce, Put, sweepLocked, CheckInv
  <2> QED BY <2>1, <2>4, <2>5, <2>6, RequestStep
<1>4. CASE NonceMissing(r)
  BY <1>2, <1>4, RefusalKeeps DEF NonceMissing, GetNotFound, outsideVars
<1>5. CASE TakeNonce(r)
  <2>1. PICK e \in entries :
          /\ GetAndRemove(p.sid, e)
          /\ Become(r, [p EXCEPT !.pc = "expiry", !.nonce = e.value, !.issuedAt = e.issuedAt])
    BY <1>1, <1>5, Zenon DEF TakeNonce
  <2>2. PICK q : /\ q = [p EXCEPT !.pc = "expiry", !.nonce = e.value, !.issuedAt = e.issuedAt]
                 /\ Become(r, q)
    BY <2>1
  <2>3. q.pc = "expiry" /\ q.issuedAt = e.issuedAt /\ q.from = p.from
    BY <2>2 DEF Request
  <2>4. e.issuedAt <= clock /\ (OneReloader => q.from <= snapFrom)
    BY <1>1, <1>5, <2>3 DEF CheckInv, CheckOK, Vouched, TakeNonce, At
  <2>5. CheckOK(q)
    BY <2>3, <2>4, NothingPassed DEF Passed
  <2>6. UNCHANGED <<clock, revokedAt, trustVars>> /\ \A x \in entries' : x.issuedAt <= clock
    BY <1>5, <2>1 DEF TakeNonce, GetAndRemove, outsideVars, CheckInv
  <2> QED BY <2>2, <2>5, <2>6, RequestStep
<1>6. CASE CheckExpired(r)
  <2>1. UNCHANGED <<clock, revokedAt, trustVars>> /\ entries' = entries
    BY <1>6 DEF CheckExpired, storeVars, outsideVars
  <2>2. CASE Answer(r, "nonceExpired")
    BY <1>2, <2>1, <2>2, RefusalKeeps
  <2>3. CASE Become(r, [p EXCEPT !.pc = "checks", !.checkedAt = clock])
    <3>1. PICK q : q = [p EXCEPT !.pc = "checks", !.checkedAt = clock] /\ Become(r, q)
      BY <2>3
    <3>2. q.pc = "checks" /\ q.issuedAt = p.issuedAt /\ q.from = p.from /\ p.pc = "expiry"
      BY <1>1, <1>6, <3>1 DEF Request, CheckExpired, At
    <3>3. q.issuedAt <= clock /\ (OneReloader => q.from <= snapFrom)
      BY <1>1, <3>2 DEF CheckOK, Checked, Vouched
    <3>4. CheckOK(q)
      BY <3>2, <3>3, NothingPassed DEF Passed
    <3> QED BY <2>1, <3>1, <3>4, RequestStep DEF CheckInv
  <2> QED BY <1>1, <1>6, <2>2, <2>3 DEF CheckExpired
<1> QED BY <1>3, <1>4, <1>5, <1>6

(***************************************************************************)
(* A response that Check accepts was made before any revocation, by no     *)
(* more than checkFreshness and the clock of the responder allow; if it    *)
(* had to carry the nonce, it was made after the validation began.         *)
(***************************************************************************)
LEMMA GoodAnswer ==
  ASSUME clock \in Nat, NEW q, q.now \in Nat, revokedAt[q.token.cert] \in Nat,
         NEW p \in 1..clock, NEW d \in -ResponderSkew..ResponderSkew,
         NEW nonce \in {"echo", "other", "absent"}, NEW known \in BOOLEAN, NEW dated \in BOOLEAN,
         MayAnswer(q, p, nonce), NEW resp, resp = Response(q, p, d, nonce, known, dated),
         CheckResponse(q.url, resp, clock) = "good", revokedAt[q.token.cert] # 0
  PROVE  /\ clock - revokedAt[q.token.cert] <=
              MaxResponseThisUpdateAge + AllowedResponseTimeSkew + ResponderSkew
         /\ q.url \in EchoingURLs /\ sendsNonce(q.url) => revokedAt[q.token.cert] >= q.now
<1>1. /\ ResponderSkew \in Nat /\ MaxResponseThisUpdateAge \in Nat
      /\ AllowedResponseTimeSkew \in Nat /\ p \in Nat /\ d \in Int /\ d <= ResponderSkew
  BY Spans
<1>2. /\ resp.thisUpdate = p + d /\ resp.nonce = nonce
      /\ revokedAt[q.token.cert] <= p => resp.status # "good"
  BY DEF Response, StatusAt
<1>3. checkFreshness(resp, clock) /\ nonceMatches(q.url, resp) /\ resp.status = "good"
  BY DEF CheckResponse
<1>4. clock - (p + d) <= MaxResponseThisUpdateAge + AllowedResponseTimeSkew
  BY <1>2, <1>3 DEF checkFreshness
<1>5. revokedAt[q.token.cert] > p
  BY <1>1, <1>2, <1>3
<1>6. q.url \in EchoingURLs /\ sendsNonce(q.url) => nonce = "echo" /\ p >= q.now
  BY <1>2, <1>3 DEF nonceMatches, MayAnswer
<1> QED BY <1>1, <1>4, <1>5, <1>6

(***************************************************************************)
(* Validate up to the responder: the certificate, the chain and the issuer.*)
(***************************************************************************)
LEMMA ChainStepKeeps ==
  ASSUME CheckInv, TypeInv', NEW r \in Requests,
         CheckCertificate(r) \/ VerifyTrust(r) \/ IssuerGone(r) \/ AskResponder(r)
  PROVE  CheckInv'
<1>1. PICK p \in Request : p = req[r] /\ CheckOK(p) /\ (p.pc \in Validating => p.token \in Token)
  BY DEF CheckInv, TypeInv, TypeOK, TypedRequest
<1>2. clock \in Nat /\ {"badCertificate", "notTrusted", "ocspFailed"} \subseteq Results \ {"ok"}
  BY DEF CheckInv, TypeInv, TypeOK, Results
<1>3. UNCHANGED <<clock, revokedAt, trustVars>> /\ entries' = entries
  BY DEF CheckCertificate, VerifyTrust, IssuerGone, AskResponder, storeVars, outsideVars
<1>4. ASSUME NEW q, Become(r, q), CheckOK(q) PROVE CheckInv'
  BY <1>3, <1>4, RequestStep DEF CheckInv
<1>5. ASSUME NEW result \in {"badCertificate", "notTrusted", "ocspFailed"}, Answer(r, result)
      PROVE  CheckInv'
  BY <1>2, <1>3, <1>5, RefusalKeeps
<1>6. CASE CheckCertificate(r)
  <2>1. CASE Answer(r, "badCertificate")
    BY <1>5, <2>1
  <2>2. CASE /\ CertificateChecks(p.token, clock)
             /\ Become(r, [p EXCEPT !.pc = "trust", !.now = clock])
    <3>1. PICK q : q = [p EXCEPT !.pc = "trust", !.now = clock] /\ Become(r, q)
      BY <2>2
    <3>2. /\ q.pc = "trust" /\ q.now = clock /\ q.token = p.token /\ q.from = p.from
          /\ q.issuedAt = p.issuedAt
      BY <3>1 DEF Request
    <3>3. p.pc = "checks" /\ p.token \in Token
      BY <1>1, <1>6 DEF CheckCertificate, At, Validating
    <3>4. Checked(q)
      BY <1>1, <1>2, <2>2, <3>2, <3>3 DEF CheckOK, Checked, Examined
    <3>5. Vouched(q)
      BY <1>1, <3>2, <3>3 DEF CheckOK, Vouched, Passed
    <3>6. NotRevoked(q) /\ Finished(q)
      BY <3>2 DEF NotRevoked, Finished, Passed
    <3> QED BY <1>4, <3>1, <3>4, <3>5, <3>6 DEF CheckOK
  <2> QED BY <1>1, <1>6, <2>1, <2>2 DEF CheckCertificate
<1>7. CASE VerifyTrust(r)
  <2>1. CASE Answer(r, "notTrusted")
    BY <1>5, <2>1
  <2>2. CASE /\ VerifyChain(p.token.cert, p.now, snap)
             /\ Become(r, [p EXCEPT !.pc = IF OCSPEnabled THEN "issuer" ELSE "finish"])
    <3>1. PICK q : /\ q = [p EXCEPT !.pc = IF OCSPEnabled THEN "issuer" ELSE "finish"]
                   /\ Become(r, q)
      BY <2>2
    <3>2. /\ q.pc = (IF OCSPEnabled THEN "issuer" ELSE "finish") /\ q.now = p.now
          /\ q.token = p.token /\ q.from = p.from /\ q.issuedAt = p.issuedAt
      BY <3>1 DEF Request
    <3>3. p.pc = "trust"
      BY <1>1, <1>7 DEF VerifyTrust, At
    <3>4. PICK ca \in snap : ca.key = p.token.cert.issuer /\ CheckValidity(ca, p.now)
      BY <2>2 DEF VerifyChain
    <3>5. PICK k \in 1..Len(delivered) : k = snapFrom /\ snap = delivered[k].certs
      BY <3>4, SnapshotDelivered DEF CheckInv
    <3>6. Vouched(q)
      <4>1. OneReloader => k >= q.from
        BY <1>1, <1>2, <3>2, <3>3, <3>5 DEF CheckOK, Vouched, Request
      <4>2. OneReloader => Anchored(q)
        BY <3>2, <3>4, <3>5, <4>1 DEF Anchored
      <4> QED BY <3>2, <4>2 DEF Vouched
    <3>7. Checked(q)
      BY <1>1, <3>2, <3>3 DEF CheckOK, Checked, Examined, Passed
    <3>8. NotRevoked(q) /\ Finished(q)
      BY <3>2 DEF NotRevoked, Finished, Passed
    <3> QED BY <1>4, <3>1, <3>6, <3>7, <3>8 DEF CheckOK
  <2> QED BY <1>1, <1>7, <2>1, <2>2 DEF VerifyTrust
<1>8. CASE IssuerGone(r)
  BY <1>5, <1>8 DEF IssuerGone
<1>9. CASE AskResponder(r)
  <2>1. CASE Answer(r, "ocspFailed")
    BY <1>5, <2>1
  <2>2. ASSUME NEW url, isResponderAllowed(url),
               Become(r, [p EXCEPT !.pc = "ocsp", !.url = url])
        PROVE  CheckInv'
    <3>1. PICK q : q = [p EXCEPT !.pc = "ocsp", !.url = url] /\ Become(r, q)
      BY <2>2
    <3>2. q.pc = "ocsp" /\ q.url = url /\ SameToken(p, q)
      BY <3>1 DEF Request, SameToken
    <3>3. p.pc = "issuer"
      BY <1>1, <1>9 DEF AskResponder, At
    <3>4. Checked(q) /\ Vouched(q)
      BY <1>1, <3>2, <3>3, CarriedOn
    <3>5. NotRevoked(q) /\ Finished(q)
      BY <2>2, <3>2 DEF NotRevoked, Finished, Passed
    <3> QED BY <1>4, <3>1, <3>4, <3>5 DEF CheckOK
  <2> QED BY <1>1, <1>9, <2>1, <2>2 DEF AskResponder
<1> QED BY <1>6, <1>7, <1>8, <1>9

(***************************************************************************)
(* The answer of the responder, the rest of Validate, and the reply.       *)
(***************************************************************************)
LEMMA AnswerStepKeeps ==
  ASSUME CheckInv, TypeInv', NEW r \in Requests,
         \/ OcspAnswer(r) \/ OcspFails(r) \/ FinishValidation(r) \/ Reply(r) \/ LoseReply(r)
  PROVE  CheckInv'
<1>1. PICK p \in Request : p = req[r] /\ CheckOK(p)
  BY DEF CheckInv, TypeInv, TypeOK
<1>2. /\ clock \in Nat /\ revokedAt \in [Certs -> Nat]
      /\ {"ocspFailed", "revoked", "badSignature", "noSubject", "noNationalID", "randomFailed"}
           \subseteq Results \ {"ok"}
  BY DEF CheckInv, TypeInv, TypeOK, Results
<1>3. UNCHANGED <<clock, revokedAt, trustVars>> /\ entries' = entries
  BY DEF OcspAnswer, OcspFails, FinishValidation, Reply, LoseReply, storeVars, outsideVars
<1>4. ASSUME NEW q, Become(r, q), CheckOK(q) PROVE CheckInv'
  BY <1>3, <1>4, RequestStep DEF CheckInv
<1>5. ASSUME NEW result \in Results \ {"ok"}, Answer(r, result) PROVE CheckInv'
  BY <1>3, <1>5, RefusalKeeps
<1>6. CASE OcspAnswer(r)
  <2>1. PICK t \in 1..clock, d \in -ResponderSkew..ResponderSkew,
             nonce \in {"echo", "other", "absent"}, known, dated \in BOOLEAN :
          /\ MayAnswer(req[r], t, nonce)
          /\ LET resp == Response(req[r], t, d, nonce, known, dated)
                 verdict == CheckResponse(req[r].url, resp, clock)
             IN IF verdict = "good"
                THEN Become(r, [req[r] EXCEPT !.pc = "finish", !.ocspAt = clock])
                ELSE Answer(r, verdict)
    BY <1>6, Zenon DEF OcspAnswer
  <2>2. PICK resp : resp = Response(p, t, d, nonce, known, dated)
    OBVIOUS
  <2>3. ASSUME CheckResponse(p.url, resp, clock) # "good" PROVE CheckInv'
    <3>1. CheckResponse(p.url, resp, clock) \in {"ocspFailed", "revoked"}
      BY <2>2, <2>3, OcspVerdict
    <3>2. Answer(r, CheckResponse(p.url, resp, clock))
      BY <1>1, <2>1, <2>2, <2>3
    <3> QED BY <1>2, <1>5, <3>1, <3>2
  <2>4. ASSUME CheckResponse(p.url, resp, clock) = "good" PROVE CheckInv'
    <3>1. PICK q : q = [p EXCEPT !.pc = "finish", !.ocspAt = clock] /\ Become(r, q)
      BY <1>1, <2>1, <2>2, <2>4
    <3>2. /\ q.pc = "finish" /\ q.ocspAt = clock /\ q.url = p.url /\ q.now = p.now
          /\ q.token = p.token /\ SameToken(p, q)
      BY <3>1 DEF Request, SameToken
    <3>3. p.pc = "ocsp" /\ p.now \in Nat /\ p.token \in Token
      BY <1>1, <1>6 DEF OcspAnswer, At, Request, CheckOK, Checked, Examined, Passed
    <3>4. revokedAt[p.token.cert] \in Nat
      BY <1>2, <3>3 DEF Token
    <3>5. revokedAt[p.token.cert] # 0 =>
            /\ clock - revokedAt[p.token.cert] <=
                 MaxResponseThisUpdateAge + AllowedResponseTimeSkew + ResponderSkew
            /\ p.url \in EchoingURLs /\ sendsNonce(p.url) => revokedAt[p.token.cert] >= p.now
      BY <1>1, <1>2, <2>1, <2>2, <2>4, <3>3, <3>4, GoodAnswer
    <3>6. NotRevoked(q)
      <4>1. Fresh(q)
        BY <1>2, <3>2, <3>5 DEF Fresh
      <4>2. OCSPEnabled => isResponderAllowed(q.url)
        BY <1>1, <3>2, <3>3 DEF CheckOK, NotRevoked, Passed
      <4> QED BY <4>1, <4>2 DEF NotRevoked
    <3>7. Checked(q) /\ Vouched(q)
      BY <1>1, <3>2, <3>3, CarriedOn
    <3>8. Finished(q)
      BY <3>2 DEF Finished, Passed
    <3> QED BY <1>4, <3>1, <3>6, <3>7, <3>8 DEF CheckOK
  <2> QED BY <2>3, <2>4
<1>7. CASE OcspFails(r)
  BY <1>2, <1>5, <1>7 DEF OcspFails
<1>8. CASE FinishValidation(r)
  <2>1. PICK result \in Outcomes(p.token, p.nonce) : Answer(r, result)
    BY <1>1, <1>8, Zenon DEF FinishValidation
  <2>2. CASE result # "ok"
    <3>1. result \in Results \ {"ok"}
      BY <1>2, <2>1, <2>2 DEF Outcomes, Issue
    <3> QED BY <1>5, <2>1, <3>1
  <2>3. CASE result = "ok"
    <3>1. PICK q : q = Answered(p, "ok") /\ Become(r, q)
      BY <1>1, <2>1, <2>3 DEF Answer
    <3>2. /\ q.pc = "reply" /\ q.result = "ok" /\ q.ocspAt = p.ocspAt /\ q.url = p.url
          /\ q.now = p.now /\ q.token = p.token /\ q.nonce = p.nonce /\ SameToken(p, q)
      BY <3>1 DEF Answered, Request, SameToken
    <3>3. p.pc = "finish"
      BY <1>1, <1>8 DEF FinishValidation, At
    <3>4. Checked(q) /\ Vouched(q)
      BY <1>1, <3>2, <3>3, CarriedOn
    <3>5. NotRevoked(q)
      <4>1. Fresh(p) => Fresh(q)
        BY <3>2 DEF Fresh
      <4> QED BY <1>1, <3>2, <3>3, <4>1 DEF CheckOK, NotRevoked, Passed
    <3>6. Finished(q)
      BY <2>1, <2>3, <3>2 DEF Finished
    <3> QED BY <1>4, <3>1, <3>4, <3>5, <3>6 DEF CheckOK
  <2> QED BY <2>2, <2>3
<1>9. CASE Reply(r) \/ LoseReply(r)
  BY <1>2, <1>4, <1>9, IdleOK DEF Reply, LoseReply
<1> QED BY <1>6, <1>7, <1>8, <1>9

(***************************************************************************)
(* Seen from the trust store, the handlers and the validator only read.    *)
(***************************************************************************)
LEMMA NextIsTrustStep == [Next]_vars => [TrustNext]_trustVars
<1> SUFFICES ASSUME [Next]_vars, ~UNCHANGED trustVars PROVE TrustNext
  OBVIOUS
<1>1. ASSUME NEW r \in Requests, ServerStep(r) \/ OcspAnswer(r) \/ Reply(r) PROVE FALSE
  BY <1>1 DEF ServerStep, PutNonce, NonceMissing, TakeNonce, CheckExpired, CheckCertificate,
     VerifyTrust, IssuerGone, AskResponder, OcspFails, FinishValidation, LoseReply, OcspAnswer,
     Reply
<1>2. ASSUME NEW r \in Requests, NEW b \in Browsers, ClientStep(r, b) PROVE FALSE
  BY <1>2, ZenonT(60) DEF ClientStep, Challenge, ChallengeFails, LoginBadBody, SessionFails,
     SendLogin, SendValidate
<1>3. ASSUME Tick \/ \E cert \in Revocable : Revoke(cert) PROVE FALSE
  BY <1>3 DEF Tick, Revoke
<1>4. TrustStep \/ Restart
  BY <1>1, <1>2, <1>3, Zenon DEF Next, vars
<1> QED BY <1>4 DEF TrustStep, Restart, TrustNext

(***************************************************************************)
(* Time, revocation, trust reload and restart: what a request has passed   *)
(* stays behind it.                                                        *)
(***************************************************************************)
LEMMA EnvironmentKeeps ==
  ASSUME CheckInv, TypeInv',
         \/ Tick \/ (\E cert \in Revocable : Revoke(cert)) \/ TrustStep \/ Restart
         \/ UNCHANGED vars
  PROVE  CheckInv'
<1>1. /\ [TrustNext]_trustVars /\ TrustInv /\ TrustInv'
      /\ \A r \in Requests : req[r] \in Request /\ CheckOK(req[r])
  BY NextIsTrustStep, TrustInvNext DEF Next, CheckInv, TypeInv, TypeOK
<1>2. /\ ResponderSkew \in Nat /\ MaxResponseThisUpdateAge \in Nat
      /\ AllowedResponseTimeSkew \in Nat
  BY Spans
<1>3. /\ clock \in Nat /\ revokedAt \in [Certs -> Nat]
      /\ \A e \in entries : e.issuedAt \in Nat /\ e.issuedAt <= clock
  BY DEF CheckInv, TypeInv, TypeOK
<1>4. ASSUME NEW cert \in Revocable, Revoke(cert) PROVE CheckInv'
  <2>1. /\ revokedAt' = [revokedAt EXCEPT ![cert] = clock]
        /\ UNCHANGED <<clock, entries, req, snapFrom, delivered>>
    BY <1>4 DEF Revoke, storeVars, trustVars
  <2>2. ASSUME NEW r \in Requests PROVE CheckOK(req[r])'
    <3>1. PICK q \in Request : q = req[r] /\ q = req'[r] /\ CheckOK(q)
      BY <1>1, <2>1
    <3>2. q.ocspAt \in Nat /\ q.now \in Nat
      BY DEF Request
    <3>3. Passed(q, {"finish"}) => q.token.cert \in Certs /\ q.now <= clock
      BY <3>1 DEF CheckOK, Checked, Examined, Passed, Token
    <3>4. Passed(q, {"finish"}) =>
            \/ revokedAt'[q.token.cert] = revokedAt[q.token.cert]
            \/ revokedAt'[q.token.cert] = clock
      BY <1>3, <2>1, <3>3
    <3>5. NotRevoked(q)'
      <4>1. Passed(q, {"finish"}) /\ Fresh(q) => Fresh(q)'
        BY <1>2, <1>3, <2>1, <3>2, <3>3, <3>4 DEF Fresh
      <4> QED BY <3>1, <4>1 DEF CheckOK, NotRevoked, Passed
    <3>6. Checked(q)' /\ Vouched(q)' /\ Finished(q)'
      BY <2>1, <3>1, ChecksKept, VouchedKept
    <3> QED BY <3>1, <3>5, <3>6 DEF CheckOK
  <2> QED BY <1>1, <1>3, <2>1, <2>2 DEF CheckInv
<1>5. CASE Tick
  <2>1. clock' = clock + 1 /\ UNCHANGED <<revokedAt, entries, req, snapFrom, delivered>>
    BY <1>5 DEF Tick, trustVars, authVars, outsideVars
  <2>2. ASSUME NEW r \in Requests PROVE CheckOK(req[r])'
    <3>1. PICK q \in Request : q = req[r] /\ q = req'[r] /\ CheckOK(q)
      BY <1>1, <2>1
    <3>2. q.ocspAt \in Nat /\ q.now \in Nat /\ q.issuedAt \in Nat
      BY DEF Request
    <3>3. Checked(q)'
      <4>1. Examined(q) => Examined(q)'
        BY <1>3, <2>1, <3>2 DEF Examined
      <4>2. q.issuedAt <= clock'
        <5>1. q.issuedAt <= clock
          BY <3>1, ZenonT(30) DEF CheckOK, Checked
        <5> QED BY <1>3, <2>1, <3>2, <5>1
      <4> QED BY <3>1, <4>1, <4>2, ZenonT(30) DEF CheckOK, Checked, Passed
    <3>4. NotRevoked(q)'
      <4>1. Fresh(q) => Fresh(q)'
        BY <1>3, <2>1, <3>2 DEF Fresh
      <4> QED BY <3>1, <4>1 DEF CheckOK, NotRevoked, Passed
    <3>5. Vouched(q)'
      BY <2>1, <3>1, VouchedKept
    <3>6. Finished(q)'
      BY <3>1 DEF CheckOK, Finished, Passed
    <3> QED BY <3>1, <3>3, <3>4, <3>5, <3>6 DEF CheckOK
  <2>3. \A e \in entries' : e.issuedAt <= clock'
    BY <1>3, <2>1
  <2> QED BY <1>1, <2>2, <2>3 DEF CheckInv
<1>6. CASE TrustStep
  <2>1. UNCHANGED <<clock, revokedAt, entries, req>>
    BY <1>6 DEF TrustStep, storeVars, authVars, outsideVars
  <2>2. \A n \in 1..Len(delivered) : n \in 1..Len(delivered') /\ delivered'[n] = delivered[n]
    BY <1>1, TrustStepGrows
  <2>3. OneReloader => snapFrom <= snapFrom' /\ snapFrom' \in Nat /\ snapFrom \in Nat
    BY <1>1, <1>6, ReloadsMoveForward, SnapshotDelivered DEF TrustStep
  <2>4. ASSUME NEW r \in Requests PROVE CheckOK(req[r])'
    <3>1. PICK q \in Request : q = req[r] /\ q = req'[r] /\ CheckOK(q)
      BY <1>1, <2>1
    <3>2. q.from \in Nat
      BY DEF Request
    <3>3. OneReloader /\ q.from <= snapFrom => q.from <= snapFrom'
      BY <2>3, <3>2
    <3>4. Anchored(q) => Anchored(q)'
      BY <2>2, AnchorKept
    <3>5. Vouched(q)'
      BY <3>1, <3>3, <3>4, ZenonT(30) DEF CheckOK, Vouched, Passed
    <3>6. Checked(q)' /\ NotRevoked(q)' /\ Finished(q)'
      BY <2>1, <3>1, ChecksKept, AnswerKept
    <3> QED BY <3>1, <3>5, <3>6 DEF CheckOK
  <2> QED BY <1>1, <1>3, <2>1, <2>4 DEF CheckInv
<1>7. CASE Restart
  <2>1. clock' = clock /\ entries' = {} /\ \A r \in Requests : req'[r] = Idle
    BY <1>7 DEF Restart
  <2>2. CheckOK(Idle)'
    <3>0. Idle.pc = "idle" /\ Idle.issuedAt = 0
      BY DEF Idle
    <3>1. PICK q : q = Idle /\ q.pc = "idle" /\ q.issuedAt = 0
      BY <3>0
    <3>2. Checked(q)'
      BY <1>3, <2>1, <3>1 DEF Checked, Passed
    <3>3. Vouched(q)'
      BY <3>1 DEF Vouched, Passed
    <3>4. NotRevoked(q)' /\ Finished(q)'
      BY <3>1 DEF NotRevoked, Finished, Passed
    <3> QED BY <3>1, <3>2, <3>3, <3>4 DEF CheckOK
  <2>3. ASSUME NEW r \in Requests PROVE CheckOK(req[r])'
    BY <2>1, <2>2
  <2> QED BY <1>1, <2>1, <2>3 DEF CheckInv
<1>8. CASE UNCHANGED vars
  <2>1. UNCHANGED <<clock, revokedAt, entries, req, snapFrom, delivered>>
    BY <1>8 DEF vars, storeVars, trustVars, authVars, outsideVars
  <2>2. ASSUME NEW r \in Requests PROVE CheckOK(req[r])'
    <3>1. PICK q : q = req'[r] /\ CheckOK(q)
      BY <1>1, <2>1
    <3>2. CheckOK(q)'
      BY <2>1, <3>1, ChecksKept, AnswerKept, VouchedKept DEF CheckOK
    <3> QED BY <3>1, <3>2
  <2> QED BY <1>1, <1>3, <2>1, <2>2 DEF CheckInv
<1> QED BY <1>4, <1>5, <1>6, <1>7, <1>8

(***************************************************************************)
(* CheckInv is an invariant of the composed system.                        *)
(***************************************************************************)
LEMMA ChecksHold == Spec => []CheckInv
<1>1. Init => CheckInv
  <2> SUFFICES ASSUME Init PROVE CheckInv
    OBVIOUS
  <2>1. TypeInv /\ TrustInv /\ clock \in Nat
    BY InitType, TrustInvInit DEF Init
  <2> QED BY <2>1, IdleOK DEF Init, CheckInv
<1>2. CheckInv /\ [Next]_vars => CheckInv'
  <2> SUFFICES ASSUME CheckInv, [Next]_vars PROVE CheckInv'
    OBVIOUS
  <2>1. TypeInv'
    BY NextType DEF CheckInv
  <2>2. ASSUME NEW r \in Requests, ServerStep(r) \/ OcspAnswer(r) \/ Reply(r) PROVE CheckInv'
    BY <2>1, <2>2, StoreStepKeeps, ChainStepKeeps, AnswerStepKeeps DEF ServerStep
  <2> QED BY <2>1, <2>2, ClientStepChecks, EnvironmentKeeps DEF Next
<1> QED BY <1>1, <1>2, PTL DEF Spec

(***************************************************************************)
(* The certificate of an accepted login was valid at some time between the *)
(* issue of the nonce and the answer, however long the responder took.     *)
(***************************************************************************)
THEOREM CertificateValidWhileServed == Spec => []ValidWhileServed
<1>1. CheckInv => ValidWhileServed
  <2> SUFFICES ASSUME CheckInv, NEW r \in Requests, LoggedIn(r)
               PROVE  \E t \in req[r].issuedAt..clock :
                        req[r].token.cert.notBefore <= t /\ t <= req[r].token.cert.notAfter
    BY DEF ValidWhileServed
  <2>1. PICK q \in Request : q = req[r] /\ CheckOK(q)
    BY DEF CheckInv, TypeInv, TypeOK
  <2>2. q.issuedAt <= q.now /\ q.now <= clock /\ CertificateChecks(q.token, q.now)
    BY <2>1 DEF CheckOK, Checked, Examined, Passed, LoggedIn, Accepted, At
  <2>3. q.now \in q.issuedAt..clock
    BY <2>2 DEF CheckInv, TypeInv, TypeOK, Request
  <2> QED BY <2>1, <2>2, <2>3 DEF CertificateChecks, CheckValidity
<1> QED BY <1>1, ChecksHold, PTL

(***************************************************************************)
(* A revocation goes unnoticed no longer than the age that checkFreshness  *)
(* admits, the two skews included, even if every answer comes from a cache.*)
(***************************************************************************)
THEOREM RevocationLagBounded == Spec => []RevocationLag
<1>1. CheckInv => RevocationLag
  BY DEF CheckInv, CheckOK, NotRevoked, Fresh, Passed, RevocationLag, Accepted, At
<1> QED BY <1>1, ChecksHold, PTL

(***************************************************************************)
(* A certificate revoked before the validation began is not accepted when  *)
(* the responder echoes the nonce of Checker.Check.                        *)
(***************************************************************************)
THEOREM EchoSeesRevocation == Spec => []RevocationSeen
<1>1. CheckInv => RevocationSeen
  BY DEF CheckInv, CheckOK, NotRevoked, Fresh, Passed, RevocationSeen, Accepted, At
<1> QED BY <1>1, ChecksHold, PTL

(***************************************************************************)
(* Whatever is accepted has passed every check of Validate, in whichever   *)
(* order the requests, the reloads and the responders interleave.          *)
(***************************************************************************)
THEOREM AcceptedIsSound == Spec => []AcceptedTokenIsSound
<1>1. CheckInv => AcceptedTokenIsSound
  <2> SUFFICES ASSUME CheckInv, NEW r \in Requests, Accepted(r)
               PROVE  LET token == req[r].token
                          cert == token.cert
                      IN /\ token.defect = "none" /\ token.nonce = req[r].nonce
                         /\ token.origin \in Origins
                         /\ cert.digitalSignature
                         /\ cert.extKeyUsage \cap {"clientAuth", "any"} # {}
                         /\ \A p \in DisallowedPolicies : {p, "unparsable"} \cap cert.policies = {}
                         /\ cert.cn /\ (AssertionsEnabled => cert.idCode)
                         /\ OCSPEnabled /\ AllowedResponderURLs # {} =>
                              req[r].url \in AllowedResponderURLs \cup {"designated"}
    BY Zenon DEF AcceptedTokenIsSound
  <2>1. PICK q : q = req[r] /\ CheckOK(q) /\ Passed(q, {})
    BY DEF CheckInv, Passed, Accepted, At
  <2>2. /\ q.token \in Token /\ CertificateChecks(q.token, q.now)
        /\ "ok" \in Outcomes(q.token, q.nonce)
        /\ OCSPEnabled => isResponderAllowed(q.url)
    BY <2>1 DEF CheckOK, Checked, Examined, NotRevoked, Fresh, Finished, Passed
  <2>3. PICK token : token = q.token
    OBVIOUS
  <2>4. token.defect = "none" /\ token.nonce = q.nonce /\ token.origin \in Origins
    BY <2>2, <2>3, AuthAssumption
    DEF Token, CertificateChecks, decodes, Outcomes, verifySignature, Verify
  <2>5. token.cert.cn /\ (AssertionsEnabled => token.cert.idCode)
    BY <2>2, <2>3 DEF Outcomes, Issue
  <2>6. /\ token.cert.digitalSignature
        /\ token.cert.extKeyUsage \cap {"clientAuth", "any"} # {}
    BY <2>2, <2>3 DEF CertificateChecks, CheckKeyUsageForAuthentication, hasExtKeyUsage
  <2>7. \A p \in DisallowedPolicies : {p, "unparsable"} \cap token.cert.policies = {}
    BY <2>2, <2>3 DEF CertificateChecks, CheckDisallowedPolicies
  <2>8. OCSPEnabled /\ AllowedResponderURLs # {} =>
          q.url \in AllowedResponderURLs \cup {"designated"}
    BY <2>2 DEF isResponderAllowed
  <2> QED BY <2>1, <2>3, <2>4, <2>5, <2>6, <2>7, <2>8, Zenon
<1> QED BY <1>1, ChecksHold, PTL

(***************************************************************************)
(* If reloads do not overlap, a CA that was gone when a request arrived    *)
(* does not vouch for its certificate, nor does one that was not valid at  *)
(* the time of the checks.                                                 *)
(***************************************************************************)
THEOREM AnchorCurrent ==
  ASSUME OneReloader
  PROVE  Spec => []RemovedAnchorNotUsed
<1>1. CheckInv => RemovedAnchorNotUsed
  BY DEF CheckInv, CheckOK, Vouched, Anchored, Passed, RemovedAnchorNotUsed, Accepted, At
<1> QED BY <1>1, ChecksHold, PTL

(***************************************************************************)
(* Beside the requests the trust store takes only its own steps: the       *)
(* composed system implements TrustSpec, so what TrustProofs shows of it   *)
(* holds while the handlers serve.                                         *)
(***************************************************************************)
THEOREM TrustInServing == Spec => TrustSpec
<1>1. Init => TrustInit
  BY DEF Init
<1> QED BY <1>1, NextIsTrustStep, PTL DEF Spec, TrustSpec

(***************************************************************************)
(* While requests are served, the set in force is one delivery as a whole, *)
(* and no reload empties it.                                               *)
(***************************************************************************)
THEOREM ServedFromOneDelivery == Spec => []SnapshotIsOneDelivery /\ NeverEmptied
BY TrustInServing, SnapshotWhole, AnchorsNeverLost, PTL

(***************************************************************************)
(* While requests are served and reloads do not overlap, the set in force  *)
(* only gets newer, and it has the size that ReloadTrust last returned.    *)
(***************************************************************************)
THEOREM ServedFromTheLatest ==
  ASSUME OneReloader
  PROVE  Spec => TrustNeverGoesBack /\ []ReportedCountIsTrusted
BY TrustInServing, TrustMovesForward, CountIsTrusted, PTL
============================================================================
