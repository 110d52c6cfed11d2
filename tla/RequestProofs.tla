-------------------------- MODULE RequestProofs ----------------------------
(***************************************************************************)
(* The requests of the composed system: their types, and what owns a nonce *)
(* while it is on its way into the store.                                  *)
(*                                                                         *)
(* TypeOK alone is not inductive: a request between the login handler and  *)
(* its answer dereferences its token, so TypeInv adds that such a request  *)
(* has one.  NonceInv adds OneOwner; here are the steps of a request that  *)
(* leave the store alone.                                                  *)
(***************************************************************************)
EXTENDS WebEidAuth, TrustProofs

(***************************************************************************)
(* An answered request is a request (ctx.Error, ctx.JSON).                 *)
(***************************************************************************)
LEMMA AnsweredType ==
  ASSUME NEW q \in Request, NEW result \in Results
  PROVE  Answered(q, result) \in Request
BY Zenon DEF Answered, Request, Steps

(***************************************************************************)
(* A free slot is a request.                                               *)
(***************************************************************************)
LEMMA IdleType == Idle \in Request
BY DEF Idle, Request, Steps, Results, URLs

(***************************************************************************)
(* A request as it arrives at the router is a request.                     *)
(***************************************************************************)
LEMMA ServeType ==
  ASSUME TypeOK, NEW b \in Browsers, NEW kind \in Kinds, NEW token \in Token \cup {None}
  PROVE  Serve(b, kind, token) \in Request
BY ZenonT(60) DEF Serve, Idle, Request, Steps, Results, URLs, TypeOK, TrustTypeOK

(***************************************************************************)
(* The session EnsureSession finds or draws is a number.                   *)
(***************************************************************************)
LEMMA SessionOfType ==
  ASSUME TypeOK, NEW b \in Browsers
  PROVE  Cookie(b) \in Nat /\ SessionOf(b) \in Nat
BY DEF Cookie, SessionOf, TypeOK

(***************************************************************************)
(* A request that has passed EnsureSession is a request.                   *)
(***************************************************************************)
LEMMA InSessionType ==
  ASSUME TypeOK, NEW b \in Browsers, NEW kind \in Kinds, NEW token \in Token \cup {None}
  PROVE  InSession(Serve(b, kind, token)) \in Request
<1> DEFINE q == Serve(b, kind, token)
<1>1. q \in Request /\ q.browser = b
  BY ServeType, ZenonT(30) DEF Serve, Idle
<1>2. SessionOf(q.browser) \in Nat
  BY <1>1, SessionOfType
<1>3. PICK fresh \in BOOLEAN : fresh = (Cookie(q.browser) = 0)
  OBVIOUS
<1>4. InSession(q) = [q EXCEPT !.sid = SessionOf(q.browser), !.fresh = fresh]
  BY <1>3, Zenon DEF InSession
<1> HIDE DEF q
<1>5. InSession(q) \in Request
  BY <1>1, <1>2, <1>4, ZenonT(30) DEF Request
<1> QED BY <1>5 DEF q

(***************************************************************************)
(* The steps at which a request has parsed a token.                        *)
(***************************************************************************)
Validating == {"take", "expiry", "checks", "trust", "issuer", "ocsp", "finish"}

(***************************************************************************)
(* A request that has a token where the code dereferences it.              *)
(***************************************************************************)
TypedRequest == {q \in Request : q.pc \in Validating => q.token \in Token}

(***************************************************************************)
(* The inductive type invariant.                                           *)
(***************************************************************************)
TypeInv == TypeOK /\ req \in [Requests -> TypedRequest]

(***************************************************************************)
(* An answered request no longer needs a token.                            *)
(***************************************************************************)
LEMMA AnsweredTyped ==
  ASSUME NEW q \in Request, NEW result \in Results
  PROVE  Answered(q, result) \in TypedRequest
<1>1. Answered(q, result) \in Request /\ Answered(q, result).pc = "reply"
  BY AnsweredType, Zenon DEF Answered, Request
<1> QED BY <1>1 DEF TypedRequest, Validating

(***************************************************************************)
(* A free slot needs no token.                                             *)
(***************************************************************************)
LEMMA IdleTyped == Idle \in TypedRequest
BY IdleType DEF Idle, TypedRequest, Validating

(***************************************************************************)
(* Checker.Check accepts a response or fails in one of two ways.           *)
(***************************************************************************)
LEMMA OcspVerdict ==
  ASSUME NEW q, NEW p, NEW d, NEW nonce, NEW known, NEW dated, NEW url, NEW t
  PROVE  CheckResponse(url, Response(q, p, d, nonce, known, dated), t)
           \in {"good", "ocspFailed", "revoked"}
BY DEF CheckResponse, Response, StatusAt

(***************************************************************************)
(* Replacing the record of one goroutine by a typed one keeps the types.   *)
(***************************************************************************)
LEMMA BecomeType ==
  ASSUME TypeInv, NEW r \in Requests, NEW q \in TypedRequest, Become(r, q)
  PROVE  req' \in [Requests -> Request] /\ req' \in [Requests -> TypedRequest]
BY DEF TypeInv, Become, TypedRequest

(***************************************************************************)
(* Answering a request keeps the types.                                    *)
(***************************************************************************)
LEMMA AnswerType ==
  ASSUME TypeInv, NEW r \in Requests, NEW result \in Results, Answer(r, result)
  PROVE  req' \in [Requests -> Request] /\ req' \in [Requests -> TypedRequest]
<1>1. req[r] \in Request
  BY DEF TypeInv, TypeOK
<1> QED BY <1>1, AnsweredTyped, BecomeType DEF Answer

(***************************************************************************)
(* EnsureSession draws at most one session, for the browser it serves.     *)
(***************************************************************************)
LEMMA EnsureSessionType ==
  ASSUME TypeOK, NEW b \in Browsers, EnsureSession(b)
  PROVE  sessions' \in Seq(Browsers)
<1>1. sessions \in Seq(Browsers)
  BY DEF TypeOK
<1>2. sessions' = sessions \/ sessions' = Append(sessions, b)
  BY Zenon DEF EnsureSession
<1> QED BY <1>1, <1>2

(***************************************************************************)
(* Every arrival of a request keeps the types.                             *)
(***************************************************************************)
LEMMA ClientStepType ==
  ASSUME TypeInv, NEW r \in Requests, NEW b \in Browsers, ClientStep(r, b)
  PROVE  TypeInv'
<1> USE DEF TypeInv
<1>k. {"randomFailed", "badRequest", "hostMismatch"} \subseteq Results
  BY DEF Results
<1>n. None \in Token \cup {None}
  OBVIOUS
<1>1. ASSUME NEW site \in Sites, Challenge(r, b, site) PROVE TypeInv'
  <2> DEFINE p == InSession(Serve(b, "challenge", None))
             q == [p EXCEPT !.pc = "put", !.nonce = Len(issued) + 1, !.issuedAt = clock]
  <2>1. p \in Request
    BY <1>1, <1>n, InSessionType DEF Challenge
  <2>2. Len(issued) + 1 \in Nat /\ clock \in Nat /\ SessionOf(b) \in Nat
    BY SessionOfType DEF TypeOK
  <2>3. Become(r, q)
    BY <1>1 DEF Challenge
  <2> HIDE DEF p
  <2>4. q \in TypedRequest
    BY <2>1, <2>2, ZenonT(30) DEF Request, Steps, TypedRequest, Validating
  <2> HIDE DEF q
  <2>5. req' \in [Requests -> Request] /\ req' \in [Requests -> TypedRequest]
    BY <2>3, <2>4, BecomeType
  <2>6. sessions' \in Seq(Browsers)
    BY <1>1, EnsureSessionType DEF Challenge
  <2>7. issued' \in Seq([sid : Nat, at : Nat])
    <3>1. issued \in Seq([sid : Nat, at : Nat])
      BY DEF TypeOK
    <3>2. issued' = Append(issued, [sid |-> SessionOf(b), at |-> clock])
      BY <1>1 DEF Challenge
    <3> QED BY <2>2, <3>1, <3>2
  <2> QED BY <1>1, <2>5, <2>6, <2>7, Zenon DEF Challenge, TypeOK, TrustTypeOK, storeVars,
            trustVars, outsideVars, historyVars
<1>2. ASSUME NEW site \in Sites, ChallengeFails(r, b, site) PROVE TypeInv'
  <2>1. InSession(Serve(b, "challenge", None)) \in Request
    BY <1>2, <1>n, InSessionType DEF ChallengeFails
  <2>2. req' \in [Requests -> Request] /\ req' \in [Requests -> TypedRequest]
    BY <1>2, <1>k, <2>1, AnsweredTyped, BecomeType DEF ChallengeFails
  <2>3. sessions' \in Seq(Browsers)
    BY <1>2, EnsureSessionType DEF ChallengeFails
  <2> QED BY <1>2, <2>2, <2>3, ZenonT(30) DEF ChallengeFails, TypeOK, TrustTypeOK, storeVars,
            trustVars, outsideVars, historyVars
<1>3. ASSUME NEW site \in Sites, LoginBadBody(r, b, site) PROVE TypeInv'
  <2>1. InSession(Serve(b, "login", None)) \in Request
    BY <1>3, <1>n, InSessionType DEF LoginBadBody
  <2>2. req' \in [Requests -> Request] /\ req' \in [Requests -> TypedRequest]
    BY <1>3, <1>k, <2>1, AnsweredTyped, BecomeType DEF LoginBadBody
  <2>3. sessions' \in Seq(Browsers)
    BY <1>3, EnsureSessionType DEF LoginBadBody
  <2> QED BY <1>3, <2>2, <2>3, ZenonT(30) DEF LoginBadBody, TypeOK, TrustTypeOK, storeVars,
            trustVars, outsideVars, historyVars
<1>4. ASSUME NEW site \in Sites, NEW kind \in Kinds, SessionFails(r, b, kind, site)
      PROVE  TypeInv'
  <2>1. Serve(b, kind, None) \in Request
    BY <1>n, ServeType
  <2>2. PICK why \in {"hostMismatch", "randomFailed"} :
          Become(r, Answered(Serve(b, kind, None), why))
    BY <1>4 DEF SessionFails
  <2>3. req' \in [Requests -> Request] /\ req' \in [Requests -> TypedRequest]
    BY <1>k, <2>1, <2>2, AnsweredTyped, BecomeType
  <2> QED BY <1>4, <2>3, ZenonT(30) DEF SessionFails, TypeOK, TrustTypeOK, storeVars,
            trustVars, drawnVars, outsideVars, historyVars
<1>5. ASSUME NEW site \in Sites, NEW token \in Token, SendLogin(r, b, site, token)
      PROVE  TypeInv'
  <2> DEFINE p == InSession(Serve(b, "login", token))
             q == [p EXCEPT !.pc = "take"]
  <2>1. p \in Request /\ p.token = token
    BY <1>5, InSessionType, ZenonT(60) DEF SendLogin, InSession, Serve, Idle
  <2>2. Become(r, q)
    BY <1>5 DEF SendLogin
  <2> HIDE DEF p
  <2>3. q \in TypedRequest
    BY <2>1 DEF Request, Steps, TypedRequest
  <2> HIDE DEF q
  <2>4. req' \in [Requests -> Request] /\ req' \in [Requests -> TypedRequest]
    BY <2>2, <2>3, BecomeType
  <2>5. sessions' \in Seq(Browsers)
    BY <1>5, EnsureSessionType DEF SendLogin
  <2> QED BY <1>5, <2>4, <2>5, Zenon DEF SendLogin, TypeOK, TrustTypeOK, storeVars,
            trustVars, outsideVars, historyVars
<1>6. ASSUME NEW n \in Nat, NEW token \in Token, SendValidate(r, b, n, token)
      PROVE  TypeInv'
  <2> DEFINE p == Serve(b, "validate", token)
             q == [p EXCEPT !.pc = "checks", !.nonce = n]
  <2>1. p \in Request /\ p.token = token
    BY <1>6, ServeType, ZenonT(30) DEF SendValidate, Serve, Idle
  <2>2. Answered(Serve(b, "validate", None), "badRequest") \in TypedRequest
    BY <1>6, <1>n, <1>k, ServeType, AnsweredTyped DEF SendValidate
  <2>3. Become(r, q) \/ Become(r, Answered(Serve(b, "validate", None), "badRequest"))
    BY <1>6 DEF SendValidate
  <2> HIDE DEF p
  <2>4. q \in TypedRequest
    BY <2>1, ZenonT(60) DEF Request, Steps, TypedRequest
  <2> HIDE DEF q
  <2>5. req' \in [Requests -> Request] /\ req' \in [Requests -> TypedRequest]
    BY <2>2, <2>3, <2>4, BecomeType
  <2> QED BY <1>6, <2>5, ZenonT(30) DEF SendValidate, TypeOK, TrustTypeOK, storeVars,
            trustVars, drawnVars, outsideVars, historyVars
<1>7. \A cert \in Certs, n \in Nat, origin \in Sites, format \in Formats, defect \in Defects :
        [cert |-> cert, nonce |-> n, origin |-> origin, format |-> format,
         defect |-> defect] \in Token
  BY DEF Token
<1>8. 0..MaxNonces \subseteq Nat /\ 1..MaxNonces \subseteq Nat /\ held[b] \subseteq Nat
  BY AuthAssumption DEF TypeOK
<1> QED BY <1>1, <1>2, <1>3, <1>4, <1>5, <1>6, <1>7, <1>8, Zenon DEF ClientStep

(***************************************************************************)
(* Every step of a handler keeps the types.                                *)
(***************************************************************************)
LEMMA ServerStepType ==
  ASSUME TypeInv, NEW r \in Requests, ServerStep(r) \/ OcspAnswer(r) \/ Reply(r)
  PROVE  TypeInv'
<1> USE DEF TypeInv
<1> DEFINE ReqTyped == req \in [Requests -> Request] /\ req \in [Requests -> TypedRequest]
<1>q. /\ req[r] \in Request
      /\ req[r].pc \in Validating => req[r].token \in Token
  BY DEF TypedRequest
<1>k. {"ok", "randomFailed", "nonceNotFound", "nonceExpired", "badCertificate", "notTrusted", "ocspFailed",
       "revoked", "badSignature", "noSubject", "noNationalID"} \subseteq Results
  BY DEF Results
<1>1. ASSUME PutNonce(r) PROVE TypeInv'
  <2>1. ReqTyped'
    BY <1>1, <1>k, AnswerType DEF PutNonce
  <2>2. entries' \subseteq [key : Nat, value : Nat, issuedAt : Nat]
    BY <1>1, <1>q DEF PutNonce, Put, sweepLocked, TypeOK, Request
  <2> QED BY <1>1, <2>1, <2>2, ZenonT(30) DEF PutNonce, TypeOK, TrustTypeOK,
            storeVars, trustVars, drawnVars, outsideVars, historyVars
<1>2. ASSUME NonceMissing(r) PROVE TypeInv'
  <2>1. ReqTyped'
    BY <1>2, <1>k, AnswerType DEF NonceMissing
  <2> QED BY <1>2, <2>1, ZenonT(30) DEF NonceMissing, GetNotFound, TypeOK, TrustTypeOK,
            storeVars, trustVars, drawnVars, outsideVars, historyVars
<1>3. ASSUME TakeNonce(r) PROVE TypeInv'
  <2>1. PICK e \in entries :
          /\ GetAndRemove(req[r].sid, e)
          /\ taken' = taken \cup {[key |-> e.key, value |-> e.value]}
          /\ Become(r, [req[r] EXCEPT !.pc = "expiry", !.nonce = e.value,
                                      !.issuedAt = e.issuedAt])
    BY <1>3, Zenon DEF TakeNonce
  <2>2. e.key \in Nat /\ e.value \in Nat /\ e.issuedAt \in Nat
    BY DEF TypeOK
  <2>3. req[r].token \in Token
    BY <1>3, <1>q DEF TakeNonce, At, Validating
  <2>4. [req[r] EXCEPT !.pc = "expiry", !.nonce = e.value, !.issuedAt = e.issuedAt]
          \in TypedRequest
    BY <1>q, <2>2, <2>3, Zenon DEF TypedRequest, Request, Steps
  <2>5. ReqTyped'
    BY <2>1, <2>4, BecomeType
  <2>6. entries' \subseteq entries /\ taken' \subseteq [key : Nat, value : Nat]
    BY <2>1, <2>2 DEF GetAndRemove, TypeOK
  <2> QED BY <1>3, <2>5, <2>6, ZenonT(30) DEF TakeNonce, TypeOK, TrustTypeOK,
            storeVars, trustVars, drawnVars, outsideVars, historyVars
<1>4. ASSUME CheckExpired(r) PROVE TypeInv'
  <2>1. [req[r] EXCEPT !.pc = "checks", !.checkedAt = clock] \in TypedRequest
    BY <1>4, <1>q, ZenonT(30) DEF CheckExpired, At, TypedRequest, Request, Steps,
       Validating, TypeOK
  <2>2. \/ Answer(r, "nonceExpired")
        \/ Become(r, [req[r] EXCEPT !.pc = "checks", !.checkedAt = clock])
    BY <1>4 DEF CheckExpired
  <2>3. ReqTyped'
    BY <1>k, <2>1, <2>2, AnswerType, BecomeType
  <2> QED BY <1>4, <2>3, ZenonT(30) DEF CheckExpired, TypeOK, TrustTypeOK,
            storeVars, trustVars, drawnVars, outsideVars, historyVars
<1>5. ASSUME CheckCertificate(r) PROVE TypeInv'
  <2>1. [req[r] EXCEPT !.pc = "trust", !.now = clock] \in TypedRequest
    BY <1>5, <1>q, ZenonT(60) DEF CheckCertificate, At, TypedRequest, Request, Steps,
       Validating, TypeOK
  <2>2. \/ Answer(r, "badCertificate")
        \/ Become(r, [req[r] EXCEPT !.pc = "trust", !.now = clock])
    BY <1>5 DEF CheckCertificate
  <2>3. ReqTyped'
    BY <1>k, <2>1, <2>2, AnswerType, BecomeType
  <2> QED BY <1>5, <2>3, ZenonT(30) DEF CheckCertificate, TypeOK, TrustTypeOK,
            storeVars, trustVars, drawnVars, outsideVars, historyVars
<1>6. ASSUME VerifyTrust(r) PROVE TypeInv'
  <2>1. \A step \in {"issuer", "finish"} : [req[r] EXCEPT !.pc = step] \in TypedRequest
    BY <1>6, <1>q DEF VerifyTrust, At, TypedRequest, Request, Steps, Validating
  <2>2. \/ Answer(r, "notTrusted")
        \/ \E step \in {"issuer", "finish"} : Become(r, [req[r] EXCEPT !.pc = step])
    BY <1>6 DEF VerifyTrust
  <2>3. ReqTyped'
    BY <1>k, <2>1, <2>2, AnswerType, BecomeType
  <2> QED BY <1>6, <2>3, ZenonT(30) DEF VerifyTrust, TypeOK, TrustTypeOK,
            storeVars, trustVars, drawnVars, outsideVars, historyVars
<1>7. ASSUME IssuerGone(r) PROVE TypeInv'
  <2>1. ReqTyped'
    BY <1>7, <1>k, AnswerType DEF IssuerGone
  <2> QED BY <1>7, <2>1, ZenonT(30) DEF IssuerGone, TypeOK, TrustTypeOK,
            storeVars, trustVars, drawnVars, outsideVars, historyVars
<1>8. ASSUME AskResponder(r) PROVE TypeInv'
  <2>1. req[r].token \in Token
    BY <1>8, <1>q DEF AskResponder, At, Validating
  <2>2. \A url \in URLs : [req[r] EXCEPT !.pc = "ocsp", !.url = url] \in TypedRequest
    BY <1>q, <2>1, ZenonT(60) DEF TypedRequest, Request, Steps
  <2>3. \A issuer : responderOf(req[r].token.cert, issuer) \in URLs
    BY <2>1 DEF responderOf, URLs, Token
  <2>4. \/ Answer(r, "ocspFailed")
        \/ \E url \in URLs : Become(r, [req[r] EXCEPT !.pc = "ocsp", !.url = url])
    BY <1>8, <2>3, ZenonT(60) DEF AskResponder
  <2>5. ReqTyped'
    BY <1>k, <2>2, <2>4, AnswerType, BecomeType, ZenonT(60)
  <2> QED BY <1>8, <2>5, ZenonT(30) DEF AskResponder, TypeOK, TrustTypeOK,
            storeVars, trustVars, drawnVars, outsideVars, historyVars
<1>9. ASSUME OcspAnswer(r) PROVE TypeInv'
  <2>1. [req[r] EXCEPT !.pc = "finish", !.ocspAt = clock] \in TypedRequest
    BY <1>9, <1>q, ZenonT(60) DEF OcspAnswer, At, TypedRequest, Request, Steps, Validating,
       TypeOK
  <2>2. \/ Become(r, [req[r] EXCEPT !.pc = "finish", !.ocspAt = clock])
        \/ \E verdict \in {"ocspFailed", "revoked"} : Answer(r, verdict)
    BY <1>9, OcspVerdict DEF OcspAnswer
  <2>3. ReqTyped'
    BY <1>k, <2>1, <2>2, AnswerType, BecomeType
  <2> QED BY <1>9, <2>3, Zenon DEF OcspAnswer, TypeOK, TrustTypeOK,
            storeVars, trustVars, drawnVars, outsideVars, historyVars
<1>10. ASSUME OcspFails(r) PROVE TypeInv'
  <2>1. ReqTyped'
    BY <1>10, <1>k, AnswerType DEF OcspFails
  <2> QED BY <1>10, <2>1, ZenonT(30) DEF OcspFails, TypeOK, TrustTypeOK,
            storeVars, trustVars, drawnVars, outsideVars, historyVars
<1>11. ASSUME FinishValidation(r) PROVE TypeInv'
  <2>1. \E result \in Results : Answer(r, result)
    BY <1>11, <1>k DEF FinishValidation, Outcomes, Issue
  <2>2. ReqTyped'
    BY <2>1, AnswerType
  <2>3. accepted' \in Seq(Nat)
    <3>1. accepted \in Seq(Nat) /\ req[r].nonce \in Nat
      BY <1>q DEF TypeOK, Request
    <3>2. accepted' = accepted \/ accepted' = Append(accepted, req[r].nonce)
      BY <1>11, Zenon DEF FinishValidation
    <3>3. \A s \in Seq(Nat), n \in Nat : Append(s, n) \in Seq(Nat)
      OBVIOUS
    <3> QED BY <3>1, <3>2, <3>3, ZenonT(30)
  <2> QED BY <1>11, <2>2, <2>3, ZenonT(30) DEF FinishValidation, TypeOK, TrustTypeOK,
            storeVars, trustVars, drawnVars, outsideVars, historyVars
<1>12. ASSUME Reply(r) PROVE TypeInv'
  <2>1. ReqTyped'
    BY <1>12, IdleTyped, BecomeType DEF Reply
  <2>2. jar' \in [Browsers -> [sid : Nat, expires : Nat]]
    <3>1. [sid |-> req[r].sid, expires |-> clock + NonceTTL] \in [sid : Nat, expires : Nat]
      BY <1>q, NonceTTLAssumption DEF TypeOK, Request
    <3> QED BY <1>12, <3>1, Zenon DEF Reply, TypeOK
  <2>3. held' \in [Browsers -> SUBSET Nat]
    <3>1. req[r].nonce \in Nat
      BY <1>q DEF Request
    <3> QED BY <1>12, <3>1, ZenonT(30) DEF Reply, TypeOK
  <2> QED BY <1>12, <2>1, <2>2, <2>3, ZenonT(30) DEF Reply, TypeOK, TrustTypeOK,
            storeVars, trustVars, drawnVars, outsideVars, historyVars
<1>13. ASSUME LoseReply(r) PROVE TypeInv'
  <2>1. ReqTyped'
    BY <1>13, IdleTyped, BecomeType DEF LoseReply
  <2> QED BY <1>13, <2>1, ZenonT(30) DEF LoseReply, TypeOK, TrustTypeOK,
            storeVars, trustVars, drawnVars, outsideVars, historyVars
<1> QED BY <1>1, <1>2, <1>3, <1>4, <1>5, <1>6, <1>7, <1>8, <1>9, <1>10, <1>11, <1>12, <1>13
        DEF ServerStep

(***************************************************************************)
(* Time, revocation, trust reload and restart keep the types.              *)
(***************************************************************************)
LEMMA EnvironmentStepType ==
  ASSUME TypeInv,
         Tick \/ (\E cert \in Revocable : Revoke(cert)) \/ TrustStep \/ Restart
  PROVE  TypeInv'
<1> USE DEF TypeInv
<1>1. CASE Tick
  <2>1. clock' \in Nat
    BY <1>1 DEF Tick, TypeOK
  <2> QED BY <1>1, <2>1, ZenonT(30) DEF Tick, TypeOK, TrustTypeOK, trustVars, authVars, drawnVars,
            outsideVars, historyVars
<1>2. ASSUME NEW cert \in Revocable, Revoke(cert) PROVE TypeInv'
  BY <1>2, ZenonT(30) DEF Revoke, TypeOK, TrustTypeOK, storeVars, trustVars, drawnVars,
     historyVars
<1>3. CASE TrustStep
  <2>1. TrustTypeOK'
    BY <1>3, TrustStepType DEF TrustStep, TrustNext, TypeOK
  <2> QED BY <1>3, <2>1 DEF TrustStep, TypeOK, storeVars, authVars, drawnVars, outsideVars,
                            historyVars
<1>4. CASE Restart
  <2>1. TrustTypeOK'
    BY <1>4, TrustStepType DEF Restart, TrustNext, TypeOK
  <2> QED BY <1>4, <2>1, IdleType, IdleTyped DEF Restart, TypeOK, drawnVars, historyVars
<1> QED BY <1>1, <1>2, <1>3, <1>4

(***************************************************************************)
(* The initial state is typed.                                             *)
(***************************************************************************)
LEMMA InitType == Init => TypeInv
<1> SUFFICES ASSUME Init PROVE TypeInv
  OBVIOUS
<1>1. TrustTypeOK
  BY TrustInitType DEF Init
<1>2. req \in [Requests -> Request] /\ req \in [Requests -> TypedRequest]
  BY IdleType, IdleTyped DEF Init
<1> QED BY <1>1, <1>2 DEF Init, TypeInv, TypeOK

(***************************************************************************)
(* TypeInv is inductive.                                                   *)
(***************************************************************************)
LEMMA NextType == TypeInv /\ [Next]_vars => TypeInv'
<1> SUFFICES ASSUME TypeInv, [Next]_vars PROVE TypeInv'
  OBVIOUS
<1>1. CASE Next
  BY <1>1, ServerStepType, ClientStepType, EnvironmentStepType DEF Next
<1>2. CASE UNCHANGED vars
  BY <1>2, ZenonT(30) DEF TypeInv, TypeOK, TrustTypeOK, vars, storeVars, trustVars, authVars, drawnVars,
              outsideVars, historyVars
<1> QED BY <1>1, <1>2

(***************************************************************************)
(* The state of the sessions, the nonce store, the trust store and every   *)
(* request being served is always well typed.                              *)
(***************************************************************************)
THEOREM TypeCorrect == Spec => []TypeOK
<1>1. TypeInv => TypeOK
  BY DEF TypeInv
<1> QED BY <1>1, InitType, NextType, PTL DEF Spec

(***************************************************************************)
(* The inductive invariant: types and ownership.                           *)
(***************************************************************************)
NonceInv == TypeInv /\ OneOwner

(***************************************************************************)
(* Everything that OneOwner speaks of besides the requests.                *)
(***************************************************************************)
nonceVars == <<clock, entries, taken, accepted, sessions, issued, jar>>

(***************************************************************************)
(* A request that waits for its answer owns nothing, and unless it is an   *)
(* accepted login it only has to be in the session of its browser.         *)
(***************************************************************************)
LEMMA AnswerOwnsNothing ==
  ASSUME NEW q, q.pc = "reply", ~Succeeded(q), q.sid # 0 => SessionFor(q.sid, q.browser)
  PROVE  RequestInv(q) /\ ~Owns(q)
<1>1. ~Working(q) /\ ~Owns(q)
  BY DEF Working, Owns
<1> QED BY <1>1, Zenon DEF RequestInv

(***************************************************************************)
(* A step of one request that touches neither store nor history keeps      *)
(* OneOwner if it gives the request no new nonce.                          *)
(***************************************************************************)
LEMMA QuietStep ==
  ASSUME NonceInv, NEW r \in Requests, NEW q \in Request, Become(r, q),
         RequestInv(q), Owns(q) => Owns(req[r]) /\ q.nonce = req[r].nonce,
         UNCHANGED nonceVars
  PROVE  OneOwner'
<1>1. req' = [req EXCEPT ![r] = q] /\ DOMAIN req = Requests
  BY DEF Become, NonceInv, TypeInv, TypeOK
<1>2. req'[r] = q /\ \A x \in Requests : x # r => req'[x] = req[x]
  BY <1>1, SMTT(30)
<1>3. \A x \in Requests : RequestInv(req[x])'
  <2> TAKE x \in Requests
  <2>1. RequestInv(req'[x])
    BY <1>2 DEF NonceInv, OneOwner
  <2> QED BY <2>1 DEF nonceVars, RequestInv, SessionFor, IssuedAs, Stored, Taken, Used,
                      Owns, Working, Succeeded
<1>4. \A x, y \in Requests :
        x # y /\ Owns(req'[x]) /\ Owns(req'[y]) => req'[x].nonce # req'[y].nonce
  BY <1>2 DEF NonceInv, OneOwner
<1>5. UNCHANGED <<clock, entries, taken, accepted, sessions, issued, jar>>
  BY DEF nonceVars
<1>6. /\ (\A e \in entries : IssuedAs(e.value, e.key, e.issuedAt) /\ ~Taken(e.value))'
      /\ (\A e \in taken : e.value \in 1..Len(issued))'
      /\ (\A i \in 1..Len(accepted) : Taken(accepted[i]))'
      /\ (\A n \in 1..Len(issued) : issued[n].at <= clock)'
      /\ (\A b \in Browsers : jar[b].sid # 0 => SessionFor(jar[b].sid, b))'
      /\ AtMostOneLogin'
  BY <1>5, ZenonT(30) DEF NonceInv, OneOwner, SessionFor, IssuedAs, Taken, AtMostOneLogin
<1> QED BY <1>3, <1>4, <1>6, ZenonT(30) DEF OneOwner, Owns, Working

(***************************************************************************)
(* Refusing a request gives up its nonce, and so keeps OneOwner.           *)
(***************************************************************************)
LEMMA FailingAnswer ==
  ASSUME NonceInv, NEW r \in Requests, NEW result \in Results \ {"ok"}, Answer(r, result),
         UNCHANGED nonceVars
  PROVE  OneOwner'
<1> DEFINE q == Answered(req[r], result)
<1>1. req[r] \in Request /\ RequestInv(req[r])
  BY ZenonT(30) DEF NonceInv, TypeInv, TypeOK, OneOwner
<1>2. /\ q \in Request /\ q.pc = "reply" /\ q.result = result
      /\ q.sid = req[r].sid /\ q.browser = req[r].browser
  BY <1>1, AnsweredType, ZenonT(60) DEF Answered, Request
<1>3. Become(r, q)
  BY DEF Answer
<1> HIDE DEF q
<1>4. RequestInv(q) /\ ~Owns(q)
  BY <1>1, <1>2 DEF RequestInv, Owns, Working, Succeeded
<1> QED BY <1>2, <1>3, <1>4, QuietStep

(***************************************************************************)
(* The steps of the validator, after the expiry check.                     *)
(***************************************************************************)
Late == {"checks", "trust", "issuer", "ocsp", "finish"}

(***************************************************************************)
(* A step within Validate keeps OneOwner.                                  *)
(***************************************************************************)
LEMMA LateStep ==
  ASSUME NonceInv, NEW r \in Requests, NEW q \in Request, Become(r, q),
         req[r].pc \in Late, q.pc \in Late, UNCHANGED nonceVars,
         q.kind = req[r].kind, q.browser = req[r].browser, q.sid = req[r].sid,
         q.nonce = req[r].nonce, q.issuedAt = req[r].issuedAt,
         q.checkedAt = req[r].checkedAt
  PROVE  OneOwner'
<1>1. RequestInv(req[r])
  BY SMTT(30) DEF NonceInv, OneOwner
<1>2. RequestInv(q)
  BY <1>1 DEF RequestInv, Owns, Working, Succeeded, Late
<1>3. Owns(q) => Owns(req[r])
  BY DEF Owns, Working, Late
<1> QED BY <1>2, <1>3, QuietStep

(***************************************************************************)
(* EnsureSession leaves the request in a session of its own browser, and   *)
(* earlier sessions where they are.                                        *)
(***************************************************************************)
LEMMA SessionsGrow ==
  ASSUME NonceInv, NEW b \in Browsers, EnsureSession(b)
  PROVE  /\ SessionOf(b) \in 1..Len(sessions') /\ sessions'[SessionOf(b)] = b
         /\ SessionOf(b) # 0
         /\ \A s \in 1..Len(sessions) : s \in 1..Len(sessions') /\ sessions'[s] = sessions[s]
<1>1. sessions \in Seq(Browsers) /\ jar[b].sid \in Nat
  BY DEF NonceInv, TypeInv, TypeOK
<1>0. SessionOf(b) # 0
  BY <1>1 DEF SessionOf
<1>2. jar[b].sid # 0 => jar[b].sid \in 1..Len(sessions) /\ sessions[jar[b].sid] = b
  BY DEF NonceInv, OneOwner, SessionFor
<1>3. CASE Cookie(b) # 0
  <2>1. sessions' = sessions
    BY <1>3 DEF EnsureSession
  <2> QED BY <1>0, <1>2, <1>3, <2>1 DEF SessionOf, Cookie
<1>4. CASE Cookie(b) = 0
  <2>1. sessions' = Append(sessions, b)
    BY <1>4, SMTT(30) DEF EnsureSession
  <2> QED BY <1>0, <1>1, <1>4, <2>1 DEF SessionOf
<1> QED BY <1>3, <1>4

(***************************************************************************)
(* A login or a refused request that passes EnsureSession owns no nonce    *)
(* yet.                                                                    *)
(***************************************************************************)
LEMMA Arrival ==
  ASSUME NonceInv, NEW r \in Requests, NEW b \in Browsers, NEW q \in Request, Become(r, q),
         EnsureSession(b), q.sid = SessionOf(b), q.browser = b,
         q.pc \in {"take", "reply"}, q.pc = "take" => q.kind = "login",
         ~Succeeded(q),
         UNCHANGED <<clock, entries, taken, accepted, issued, jar>>
  PROVE  OneOwner'
<1>1. req' = [req EXCEPT ![r] = q] /\ DOMAIN req = Requests
  BY DEF Become, NonceInv, TypeInv, TypeOK
<1>2. req'[r] = q /\ \A x \in Requests : x # r => req'[x] = req[x]
  BY <1>1, SMTT(30)
<1>3. /\ SessionOf(b) \in 1..Len(sessions') /\ sessions'[SessionOf(b)] = b
      /\ \A s \in 1..Len(sessions) : s \in 1..Len(sessions') /\ sessions'[s] = sessions[s]
  BY SessionsGrow
<1>4. \A x \in Requests : RequestInv(req[x])'
  <2> TAKE x \in Requests
  <2>1. CASE x = r
    <3>0. SessionOf(b) # 0
      BY SessionsGrow
    <3>1. SessionFor(q.sid, q.browser)' /\ q.sid # 0
      BY <1>3, <3>0, ZenonT(30) DEF SessionFor
    <3>2. ~Owns(q) /\ q.pc # "expiry"
      BY DEF Owns, Working
    <3> QED BY <1>2, <2>1, <3>1, <3>2, ZenonT(30) DEF RequestInv, Owns, Working, Succeeded
  <2>2. CASE x # r
    <3>1. req'[x] = req[x] /\ RequestInv(req[x])
      BY <1>2, <2>2, ZenonT(60) DEF NonceInv, OneOwner
    <3> QED BY <1>3, <3>1, ZenonT(60) DEF RequestInv, SessionFor, IssuedAs, Stored, Taken,
               Used, Owns, Working, Succeeded
  <2> QED BY <2>1, <2>2
<1>5. \A x, y \in Requests :
        x # y /\ Owns(req'[x]) /\ Owns(req'[y]) => req'[x].nonce # req'[y].nonce
  <2>1. ~Owns(q)
    BY DEF Owns, Working
  <2> QED BY <1>2, <2>1, ZenonT(30) DEF NonceInv, OneOwner
<1>6. \A c \in Browsers : jar'[c].sid # 0 => SessionFor(jar[c].sid, c)'
  BY <1>3, ZenonT(30) DEF NonceInv, OneOwner, SessionFor
<1> QED BY <1>4, <1>5, <1>6, ZenonT(30) DEF NonceInv, OneOwner, IssuedAs, Stored, Taken, Used, Owns,
          Working, AtMostOneLogin

(***************************************************************************)
(* A request arrives without a session.                                    *)
(***************************************************************************)
LEMMA ServeFields ==
  ASSUME NEW b, NEW kind, NEW token
  PROVE  LET q == Serve(b, kind, token) IN q.kind = kind /\ q.browser = b /\ q.sid = 0
BY DEF Serve, Idle

(***************************************************************************)
(* A request that has passed EnsureSession is in that session.             *)
(***************************************************************************)
LEMMA InSessionFields ==
  ASSUME NonceInv, NEW b \in Browsers, NEW kind \in Kinds, NEW token \in Token \cup {None}
  PROVE  LET q == InSession(Serve(b, kind, token)) IN
         q \in Request /\ q.kind = kind /\ q.browser = b /\ q.sid = SessionOf(b)
<1> DEFINE p == Serve(b, kind, token)
<1>1. p \in Request /\ p.kind = kind /\ p.browser = b
  BY ServeType, ServeFields DEF NonceInv, TypeInv
<1>2. InSession(p) \in Request
  BY InSessionType DEF NonceInv, TypeInv
<1> HIDE DEF p
<1>3. InSession(p).kind = kind /\ InSession(p).browser = b /\ InSession(p).sid = SessionOf(b)
  BY <1>1, SMTT(30) DEF InSession, Request
<1> QED BY <1>2, <1>3 DEF p

(***************************************************************************)
(* The nonce of a challenge is fresh: it is neither stored nor taken, and  *)
(* no other request has it.                                                *)
(***************************************************************************)
LEMMA ChallengeKeeps ==
  ASSUME NonceInv, NEW r \in Requests, NEW b \in Browsers, NEW site, Challenge(r, b, site)
  PROVE  OneOwner'
<1> DEFINE p == InSession(Serve(b, "challenge", None))
           q == [p EXCEPT !.pc = "put", !.nonce = Len(issued) + 1, !.issuedAt = clock]
<1>0. issued \in Seq([sid : Nat, at : Nat]) /\ clock \in Nat /\ SessionOf(b) \in Nat
  BY SessionOfType DEF NonceInv, TypeInv, TypeOK
<1>1. p \in Request /\ p.kind = "challenge" /\ p.browser = b /\ p.sid = SessionOf(b)
  BY InSessionFields DEF Challenge
<1>2. req' = [req EXCEPT ![r] = q] /\ DOMAIN req = Requests
  BY DEF Challenge, Become, NonceInv, TypeInv, TypeOK
<1> HIDE DEF p
<1>3. /\ q.pc = "put" /\ q.kind = "challenge" /\ q.browser = b /\ q.sid = SessionOf(b)
      /\ q.nonce = Len(issued) + 1 /\ q.issuedAt = clock
  BY <1>0, <1>1 DEF Request
<1> HIDE DEF q
<1>4. req'[r] = q /\ \A x \in Requests : x # r => req'[x] = req[x]
  BY <1>2
<1>5. /\ SessionOf(b) \in 1..Len(sessions') /\ sessions'[SessionOf(b)] = b
      /\ \A s \in 1..Len(sessions) : s \in 1..Len(sessions') /\ sessions'[s] = sessions[s]
  BY SessionsGrow DEF Challenge
<1>6. /\ Len(issued') = Len(issued) + 1
      /\ issued'[Len(issued) + 1] = [sid |-> SessionOf(b), at |-> clock]
      /\ \A n \in 1..Len(issued) : n \in 1..Len(issued') /\ issued'[n] = issued[n]
  BY <1>0, SMTT(30) DEF Challenge
<1>7. /\ \A e \in entries : e.value \in 1..Len(issued)
      /\ \A e \in taken : e.value \in 1..Len(issued)
      /\ Len(issued) \in Nat
  <2>1. Len(issued) \in Nat
    BY <1>0
  <2> QED BY <2>1, Zenon DEF NonceInv, OneOwner, IssuedAs
<1>u. UNCHANGED <<clock, entries, taken, accepted, jar>>
  BY DEF Challenge, storeVars, outsideVars, historyVars
<1>8. \A x \in Requests : RequestInv(req[x])'
  <2> TAKE x \in Requests
  <2>1. CASE x = r
    <3>1. ~Stored(Len(issued) + 1) /\ ~Taken(Len(issued) + 1)
      BY <1>7, SMTT(30) DEF Stored, Taken
    <3>2. SessionFor(req[r].sid, req[r].browser)' /\ req'[r].sid # 0
      BY <1>3, <1>4, <1>5 DEF SessionFor
    <3>3. IssuedAs(req[r].nonce, req[r].sid, req[r].issuedAt)'
      BY <1>3, <1>4, <1>6, <1>7 DEF IssuedAs
    <3>4. ~Stored(req[r].nonce)' /\ ~Taken(req[r].nonce)'
      BY <1>3, <1>4, <1>u, <3>1, Zenon DEF Stored, Taken
    <3>5. /\ req'[r].pc = "put" /\ req'[r].kind = "challenge"
          /\ ~Working(req[r])' /\ ~Succeeded(req[r])'
      BY <1>3, <1>4 DEF Working, Succeeded
    <3> QED BY <2>1, <3>2, <3>3, <3>4, <3>5, ZenonT(30) DEF RequestInv
  <2>2. CASE x # r
    <3>1. req'[x] = req[x] /\ RequestInv(req[x])
      BY <1>4, <2>2, ZenonT(30) DEF NonceInv, OneOwner
    <3> QED BY <1>5, <1>6, <1>u, <3>1, ZenonT(60) DEF RequestInv, SessionFor, IssuedAs,
               Stored, Taken, Used, Owns, Working, Succeeded
  <2> QED BY <2>1, <2>2
<1>9. \A x, y \in Requests :
        x # y /\ Owns(req'[x]) /\ Owns(req'[y]) => req'[x].nonce # req'[y].nonce
  <2>1. \A x \in Requests : Owns(req[x]) => req[x].nonce \in 1..Len(issued)
    BY ZenonT(60) DEF NonceInv, OneOwner, RequestInv, IssuedAs
  <2>2. Len(issued) + 1 \notin 1..Len(issued)
    BY <1>7
  <2>3. \A x \in Requests : x # r /\ Owns(req'[x]) => req'[x].nonce # req'[r].nonce
    BY <1>3, <1>4, <2>1, <2>2, ZenonT(30)
  <2>4. \A x, y \in Requests : x # y /\ x # r /\ y # r /\ Owns(req'[x]) /\ Owns(req'[y])
                               => req'[x].nonce # req'[y].nonce
    BY <1>4, ZenonT(30) DEF NonceInv, OneOwner
  <2> QED BY <2>3, <2>4, ZenonT(30)
<1>10. \A c \in Browsers : jar'[c].sid # 0 => SessionFor(jar[c].sid, c)'
  BY <1>5, <1>u DEF NonceInv, OneOwner, SessionFor
<1>11. \A n \in 1..Len(issued') : issued'[n].at <= clock'
  <2>1. \A n \in 1..Len(issued) : issued'[n].at <= clock
    BY <1>6, ZenonT(30) DEF NonceInv, OneOwner
  <2>2. issued'[Len(issued) + 1].at = clock
    BY <1>6
  <2>3. 1..Len(issued') = 1..Len(issued) \cup {Len(issued) + 1}
    BY <1>6, <1>7, SMTT(30)
  <2> QED BY <1>0, <1>u, <2>1, <2>2, <2>3, SMTT(30)
<1>12. \A e \in entries' : IssuedAs(e.value, e.key, e.issuedAt)' /\ ~Taken(e.value)'
  BY <1>6, <1>u, ZenonT(60) DEF NonceInv, OneOwner, IssuedAs, Taken
<1>13. (\A e \in taken : e.value \in 1..Len(issued))'
  <2>1. \A e \in taken : e.value \in 1..Len(issued')
    BY <1>6, <1>7, ZenonT(30)
  <2> QED BY <1>u, <2>1
<1>14. (\A i \in 1..Len(accepted) : Taken(accepted[i]))' /\ AtMostOneLogin'
  BY <1>u, ZenonT(30) DEF NonceInv, OneOwner, Taken, AtMostOneLogin
<1> QED BY <1>8, <1>9, <1>10, <1>11, <1>12, <1>13, <1>14, ZenonT(30) DEF OneOwner, Owns, Working

(***************************************************************************)
(* Every arrival of a request keeps OneOwner.                              *)
(***************************************************************************)
LEMMA ClientStepKeeps ==
  ASSUME NonceInv, NEW r \in Requests, NEW b \in Browsers, ClientStep(r, b)
  PROVE  OneOwner'
<1>k. {"randomFailed", "badRequest", "hostMismatch"} \subseteq Results \ {"ok"}
  BY DEF Results
<1>n. None \in Token \cup {None} /\ TypeOK
  BY DEF NonceInv, TypeInv
<1>a. ASSUME NEW kind \in Kinds, NEW result \in Results \ {"ok"}, EnsureSession(b),
             Become(r, Answered(InSession(Serve(b, kind, None)), result)),
             UNCHANGED <<clock, entries, taken, accepted, issued, jar>>
      PROVE  OneOwner'
  <2> DEFINE p == InSession(Serve(b, kind, None))
             q == Answered(p, result)
  <2>1. p \in Request /\ p.browser = b /\ p.sid = SessionOf(b)
    BY <1>n, InSessionFields
  <2> HIDE DEF p
  <2>2. /\ q \in Request /\ q.pc = "reply" /\ q.result = result
        /\ q.browser = b /\ q.sid = SessionOf(b)
    BY <2>1, AnsweredType, ZenonT(30) DEF Answered, Request
  <2>3. Become(r, q)
    BY <1>a DEF p
  <2> HIDE DEF q
  <2>4. ~Succeeded(q)
    BY <2>2, SMTT(30) DEF Succeeded
  <2> QED BY <1>a, <2>2, <2>3, <2>4, Arrival
<1>b. ASSUME NEW kind \in Kinds, NEW result \in Results \ {"ok"},
             Become(r, Answered(Serve(b, kind, None), result)), UNCHANGED nonceVars
      PROVE  OneOwner'
  <2> DEFINE p == Serve(b, kind, None)
             q == Answered(p, result)
  <2>1. p \in Request /\ p.sid = 0
    BY <1>n, ServeType, ServeFields, SMTT(30)
  <2> HIDE DEF p
  <2>2. q \in Request /\ q.pc = "reply" /\ q.result = result /\ q.sid = 0
    BY <2>1, AnsweredType, ZenonT(30) DEF Answered, Request
  <2>3. Become(r, q)
    BY <1>b DEF p
  <2> HIDE DEF q
  <2>4. RequestInv(q) /\ ~Owns(q)
    BY <2>2, AnswerOwnsNothing DEF Succeeded
  <2> QED BY <1>b, <2>2, <2>3, <2>4, QuietStep, ZenonT(30)
<1>1. ASSUME NEW site \in Sites, ChallengeFails(r, b, site) PROVE OneOwner'
  BY <1>1, <1>k, <1>a, SMTT(30) DEF ChallengeFails, storeVars, outsideVars, historyVars
<1>2. ASSUME NEW site \in Sites, LoginBadBody(r, b, site) PROVE OneOwner'
  BY <1>2, <1>k, <1>a DEF LoginBadBody, storeVars, outsideVars, historyVars
<1>3. ASSUME NEW site \in Sites, NEW kind \in Kinds, SessionFails(r, b, kind, site)
      PROVE  OneOwner'
  <2>1. PICK why \in {"hostMismatch", "randomFailed"} :
          Become(r, Answered(Serve(b, kind, None), why))
    BY <1>3 DEF SessionFails
  <2>2. UNCHANGED nonceVars
    BY <1>3 DEF SessionFails, nonceVars, storeVars, drawnVars, outsideVars, historyVars
  <2> QED BY <1>k, <1>b, <2>1, <2>2, SMTT(30)
<1>4. ASSUME NEW site \in Sites, NEW token \in Token, SendLogin(r, b, site, token)
      PROVE  OneOwner'
  <2> DEFINE p == InSession(Serve(b, "login", token))
             q == [p EXCEPT !.pc = "take"]
  <2>1. p \in Request /\ p.kind = "login" /\ p.browser = b /\ p.sid = SessionOf(b)
    BY <1>4, InSessionFields DEF SendLogin
  <2>2. Become(r, q) /\ EnsureSession(b) /\ UNCHANGED <<clock, entries, taken, accepted, issued, jar>>
    BY <1>4 DEF SendLogin, storeVars, outsideVars, historyVars
  <2> HIDE DEF p
  <2>3. q \in Request /\ q.pc = "take" /\ q.kind = "login" /\ q.browser = b /\ q.sid = SessionOf(b)
    BY <2>1 DEF Request, Steps
  <2> HIDE DEF q
  <2>4. ~Succeeded(q)
    BY <2>3 DEF Succeeded
  <2> QED BY <2>2, <2>3, <2>4, Arrival
<1>5. ASSUME NEW n \in Nat, NEW token \in Token, SendValidate(r, b, n, token)
      PROVE  OneOwner'
  <2> DEFINE p == Serve(b, "validate", token)
             q == [p EXCEPT !.pc = "checks", !.nonce = n]
  <2>1. p \in Request /\ p.kind = "validate" /\ p.sid = 0
    BY <1>5, <1>n, ServeType, ServeFields DEF SendValidate
  <2>2. UNCHANGED nonceVars
    BY <1>5 DEF SendValidate, nonceVars, storeVars, drawnVars, outsideVars, historyVars
  <2>3. CASE n = 0
    BY <1>5, <1>k, <1>b, <2>2, <2>3, SMTT(30) DEF SendValidate
  <2>4. CASE n # 0
    <3>1. Become(r, q)
      BY <1>5, <2>4 DEF SendValidate
    <3> HIDE DEF p
    <3>2. q \in Request /\ q.pc = "checks" /\ q.kind = "validate" /\ q.sid = 0
      BY <2>1, Zenon DEF Request, Steps
    <3> HIDE DEF q
    <3>3. RequestInv(q) /\ ~Owns(q)
      BY <3>2 DEF RequestInv, Owns, Working, Succeeded
    <3> QED BY <2>2, <3>1, <3>2, <3>3, QuietStep
  <2> QED BY <2>3, <2>4
<1>6. \A cert \in Certs, n \in Nat, origin \in Sites, format \in Formats, defect \in Defects :
        [cert |-> cert, nonce |-> n, origin |-> origin, format |-> format,
         defect |-> defect] \in Token
  BY DEF Token
<1>7. 0..MaxNonces \subseteq Nat /\ 1..MaxNonces \subseteq Nat /\ held[b] \subseteq Nat
  BY <1>n, AuthAssumption DEF TypeOK
<1> QED BY <1>1, <1>2, <1>3, <1>4, <1>5, <1>6, <1>7, ChallengeKeeps, ZenonT(60) DEF ClientStep
============================================================================
