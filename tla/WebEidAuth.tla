---------------------------- MODULE WebEidAuth ----------------------------
(***************************************************************************)
(* The authentication endpoints of package webeidazugo: the challenge, the *)
(* login and the stateless validation, with the session cookie, the nonce  *)
(* store, the token validator, the OCSP exchange and the trust reload that *)
(* runs beside them.                                                       *)
(*                                                                         *)
(* Every request is served by a goroutine of its own; one step of a        *)
(* request is the code between two accesses to state that others share:    *)
(* the store, the clock, the trust snapshot, the network.  Random values   *)
(* (session identifiers, nonces) are never drawn twice: they are numbered  *)
(* in the order in which they are drawn, and 0 stands for none.            *)
(***************************************************************************)
EXTENDS NonceStore, TrustStore, OcspChecker

CONSTANTS
  Browsers, Requests,
  Kinds,           \* request kinds that are sent: "challenge", "login", "validate"
  Sites,           \* origins a browser may be at
  Origins,         \* the configured origins
  EnforceHost,     \* BOOLEAN: Configuration.EnforceHostHeader
  Formats,         \* token formats in use; "web-eid:1" is the supported one
  Defects,         \* what may be broken in a token, see Token
  OCSPEnabled, AssertionsEnabled,
  Revocable,       \* certificates whose CA may revoke them
  EchoingURLs,     \* responders that answer with the nonce they were sent
  ResponderSkew,   \* how far a responder's clock may be off
  NextUpdateIn,    \* lifetime of a response that carries nextUpdate
  MaxTime, MaxNonces, MaxSessions, MaxRestarts,   \* bounds
  None

ASSUME AuthAssumption ==
  /\ Kinds \subseteq {"challenge", "login", "validate"}
  /\ Origins \subseteq Sites /\ Origins # {}
  /\ Defects \subseteq {"none", "certificate", "signature"}
  /\ Revocable \subseteq Certs
  /\ {EnforceHost, OCSPEnabled, AssertionsEnabled} \subseteq BOOLEAN
  /\ ResponderSkew \in Nat /\ NextUpdateIn \in Nat /\ NextUpdateIn > ResponderSkew
  /\ {MaxTime, MaxNonces, MaxSessions, MaxRestarts} \subseteq Nat

VARIABLES
  sessions,    \* session identifiers drawn: sessions[s] is the browser served
  issued,      \* nonces drawn: issued[n] = [sid, at]
  jar,         \* per browser, its cookie: [sid, expires]
  held,        \* per browser, the nonces it has received
  req,         \* per request slot, the goroutine serving it
  revokedAt,   \* per certificate, when its CA revoked it, 0 = not revoked
  restarts,    \* how often the process has restarted
  taken,       \* history: [key, value] handed out by the store
  accepted     \* history: nonces of the logins accepted, in order

drawnVars == <<sessions, issued>>
outsideVars == <<jar, held, revokedAt, restarts>>
historyVars == <<taken, accepted>>
authVars == <<drawnVars, outsideVars, historyVars, req>>
storeVars == <<clock, entries>>
vars == <<storeVars, trustVars, authVars>>

(***************************************************************************)
(* A token as web-eid.js produces it: signed with the key of cert over     *)
(* origin and nonce.  defect says which part, if any, does not decode.     *)
(***************************************************************************)
Token == [cert : Certs, nonce : Nat, origin : Sites, format : Formats, defect : Defects]

Steps == {"idle", "put", "take", "expiry", "checks", "trust", "issuer", "ocsp",
          "finish", "reply"}

Results ==
  {"none", "ok", "hostMismatch", "badRequest", "randomFailed", "nonceNotFound",
   "nonceExpired", "badCertificate", "notTrusted", "ocspFailed", "revoked",
   "badSignature", "noSubject", "noNationalID"}

URLs == {cert.ocspURL : cert \in Certs} \cup {"none", "designated"}

Request ==
  [pc : Steps, kind : Kinds \cup {"none"}, browser : Browsers \cup {None},
   sid : Nat, fresh : BOOLEAN, token : Token \cup {None}, nonce : Nat,
   issuedAt : Nat, checkedAt : Nat, now : Nat, from : Nat, url : URLs,
   ocspAt : Nat, result : Results]

Idle ==
  [pc |-> "idle", kind |-> "none", browser |-> None, sid |-> 0, fresh |-> FALSE,
   token |-> None, nonce |-> 0, issuedAt |-> 0, checkedAt |-> 0, now |-> 0,
   from |-> 0, url |-> "none", ocspAt |-> 0, result |-> "none"]

(***************************************************************************)
(* Type invariant of the composed system.                                  *)
(***************************************************************************)
TypeOK ==
  /\ clock \in Nat
  /\ entries \subseteq [key : Nat, value : Nat, issuedAt : Nat]
  /\ TrustTypeOK
  /\ sessions \in Seq(Browsers)
  /\ issued \in Seq([sid : Nat, at : Nat])
  /\ jar \in [Browsers -> [sid : Nat, expires : Nat]]
  /\ held \in [Browsers -> SUBSET Nat]
  /\ req \in [Requests -> Request]
  /\ revokedAt \in [Certs -> Nat]
  /\ restarts \in Nat
  /\ taken \subseteq [key : Nat, value : Nat]
  /\ accepted \in Seq(Nat)

Init ==
  /\ clock = 1
  /\ entries = {}
  /\ TrustInit
  /\ sessions = <<>>
  /\ issued = <<>>
  /\ jar = [b \in Browsers |-> [sid |-> 0, expires |-> 0]]
  /\ held = [b \in Browsers |-> {}]
  /\ req = [r \in Requests |-> Idle]
  /\ revokedAt = [c \in Certs |-> 0]
  /\ restarts = 0
  /\ taken = {}
  /\ accepted = <<>>

(***************************************************************************)
(* Sessions (EnsureSession).  The cookie is written once, with Max-Age set *)
(* to the nonce lifetime, and not renewed by later requests.               *)
(***************************************************************************)
Cookie(b) == IF clock < jar[b].expires THEN jar[b].sid ELSE 0

SessionOf(b) == IF Cookie(b) # 0 THEN Cookie(b) ELSE Len(sessions) + 1

EnsureSession(b) ==
  IF Cookie(b) # 0
  THEN UNCHANGED sessions
  ELSE Len(sessions) < MaxSessions /\ sessions' = Append(sessions, b)

HostAccepted(site) == EnforceHost => site \in Origins

(***************************************************************************)
(* Bookkeeping of the goroutine that serves request r.                     *)
(***************************************************************************)
Serve(b, kind, token) ==
  [Idle EXCEPT !.kind = kind, !.browser = b, !.token = token, !.from = snapFrom]

InSession(q) ==
  [q EXCEPT !.sid = SessionOf(q.browser), !.fresh = Cookie(q.browser) = 0]

At(r, step) == req[r].pc = step

Become(r, q) == req' = [req EXCEPT ![r] = q]

Answered(q, result) == [q EXCEPT !.pc = "reply", !.result = result]

Answer(r, result) == Become(r, Answered(req[r], result))

(***************************************************************************)
(* GET /auth/challenge: draw a nonce and note the time, then store it.     *)
(***************************************************************************)
Challenge(r, b, site) ==
  /\ At(r, "idle") /\ "challenge" \in Kinds
  /\ HostAccepted(site)
  /\ EnsureSession(b)
  /\ Len(issued) < MaxNonces
  /\ issued' = Append(issued, [sid |-> SessionOf(b), at |-> clock])
  /\ Become(r, [InSession(Serve(b, "challenge", None)) EXCEPT
                  !.pc = "put", !.nonce = Len(issued) + 1, !.issuedAt = clock])
  /\ UNCHANGED <<storeVars, trustVars, outsideVars, historyVars>>

PutNonce(r) ==
  /\ At(r, "put")
  /\ Put(req[r].sid, req[r].nonce, req[r].issuedAt)
  /\ Answer(r, "ok")
  /\ UNCHANGED <<clock, trustVars, drawnVars, outsideVars, historyVars>>

(* The entropy source fails while the nonce is drawn. *)
ChallengeFails(r, b, site) ==
  /\ At(r, "idle") /\ "challenge" \in Kinds
  /\ HostAccepted(site)
  /\ EnsureSession(b)
  /\ Become(r, Answered(InSession(Serve(b, "challenge", None)), "randomFailed"))
  /\ UNCHANGED <<storeVars, trustVars, issued, outsideVars, historyVars>>

(* EnsureSession refuses the Host header, or cannot draw an identifier. *)
SessionFails(r, b, kind, site) ==
  /\ At(r, "idle") /\ kind \in Kinds \ {"validate"}
  /\ \E why \in {"hostMismatch", "randomFailed"} :
       /\ IF why = "hostMismatch" THEN ~HostAccepted(site)
                                  ELSE HostAccepted(site) /\ Cookie(b) = 0
       /\ Become(r, Answered(Serve(b, kind, None), why))
  /\ UNCHANGED <<storeVars, trustVars, drawnVars, outsideVars, historyVars>>

(***************************************************************************)
(* POST /auth/login up to the validator.  A browser signs a nonce it has   *)
(* received; it may sign an old one, or send a token again.                *)
(***************************************************************************)
SendLogin(r, b, site, token) ==
  /\ At(r, "idle") /\ "login" \in Kinds
  /\ HostAccepted(site)
  /\ token.nonce \in held[b]
  /\ EnsureSession(b)
  /\ Become(r, [InSession(Serve(b, "login", token)) EXCEPT !.pc = "take"])
  /\ UNCHANGED <<storeVars, trustVars, issued, outsideVars, historyVars>>

(* The body is not JSON: refused before the store is touched. *)
LoginBadBody(r, b, site) ==
  /\ At(r, "idle") /\ "login" \in Kinds
  /\ HostAccepted(site)
  /\ EnsureSession(b)
  /\ Become(r, Answered(InSession(Serve(b, "login", None)), "badRequest"))
  /\ UNCHANGED <<storeVars, trustVars, issued, outsideVars, historyVars>>

NonceMissing(r) ==
  /\ At(r, "take")
  /\ GetNotFound(req[r].sid)
  /\ Answer(r, "nonceNotFound")
  /\ UNCHANGED <<clock, trustVars, drawnVars, outsideVars, historyVars>>

TakeNonce(r) ==
  /\ At(r, "take")
  /\ \E e \in entries :
       /\ GetAndRemove(req[r].sid, e)
       /\ taken' = taken \cup {[key |-> e.key, value |-> e.value]}
       /\ Become(r, [req[r] EXCEPT !.pc = "expiry", !.nonce = e.value,
                                   !.issuedAt = e.issuedAt])
  /\ UNCHANGED <<clock, trustVars, drawnVars, outsideVars, accepted>>

CheckExpired(r) ==
  /\ At(r, "expiry")
  /\ IF Expired(req[r].issuedAt, clock)
     THEN Answer(r, "nonceExpired")
     ELSE Become(r, [req[r] EXCEPT !.pc = "checks", !.checkedAt = clock])
  /\ UNCHANGED <<storeVars, trustVars, drawnVars, outsideVars, historyVars>>

(***************************************************************************)
(* POST /auth/validate: no session and no store, the nonce n comes with    *)
(* the body.  The service that calls it draws its own nonces, so any       *)
(* number may come; 0 is the empty nonce that ValidateRequest refuses.     *)
(***************************************************************************)
SendValidate(r, b, n, token) ==
  /\ At(r, "idle") /\ "validate" \in Kinds
  /\ Become(r, IF n = 0 THEN Answered(Serve(b, "validate", None), "badRequest")
               ELSE [Serve(b, "validate", token) EXCEPT !.pc = "checks", !.nonce = n])
  /\ UNCHANGED <<storeVars, trustVars, drawnVars, outsideVars, historyVars>>

(***************************************************************************)
(* AuthTokenValidator.Validate, in the order of the code.  The clock is    *)
(* read once, before the certificate checks; the snapshot is loaded by     *)
(* Verify and loaded again by IssuerOf.                                    *)
(***************************************************************************)
decodes(token, part) == token.defect # part

CertificateChecks(token, t) ==
  /\ decodes(token, "certificate")
  /\ CheckValidity(token.cert, t)
  /\ CheckKeyUsageForAuthentication(token.cert)
  /\ CheckDisallowedPolicies(token.cert)

CheckCertificate(r) ==
  /\ At(r, "checks")
  /\ IF CertificateChecks(req[r].token, clock)
     THEN Become(r, [req[r] EXCEPT !.pc = "trust", !.now = clock])
     ELSE Answer(r, "badCertificate")
  /\ UNCHANGED <<storeVars, trustVars, drawnVars, outsideVars, historyVars>>

VerifyTrust(r) ==
  /\ At(r, "trust")
  /\ IF VerifyChain(req[r].token.cert, req[r].now, snap)
     THEN Become(r, [req[r] EXCEPT !.pc = IF OCSPEnabled THEN "issuer" ELSE "finish"])
     ELSE Answer(r, "notTrusted")
  /\ UNCHANGED <<storeVars, trustVars, drawnVars, outsideVars, historyVars>>

IssuerGone(r) ==
  /\ At(r, "issuer")
  /\ IssuersOf(req[r].token.cert, snap) = {}
  /\ Answer(r, "notTrusted")
  /\ UNCHANGED <<storeVars, trustVars, drawnVars, outsideVars, historyVars>>

(* Checker.Check up to Client.Do: find the responder and send the request. *)
AskResponder(r) ==
  /\ At(r, "issuer")
  /\ \E issuer \in IssuersOf(req[r].token.cert, snap) :
       LET url == responderOf(req[r].token.cert, issuer) IN
       IF isResponderAllowed(url)
       THEN Become(r, [req[r] EXCEPT !.pc = "ocsp", !.url = url])
       ELSE Answer(r, "ocspFailed")
  /\ UNCHANGED <<storeVars, trustVars, drawnVars, outsideVars, historyVars>>

(***************************************************************************)
(* What a responder or a cache before it may answer (external): the status *)
(* the certificate had when the answer was produced, at time p, stamped by *)
(* a clock that is off by d.  Only an answer to this very request echoes   *)
(* its nonce.                                                              *)
(***************************************************************************)
StatusAt(cert, p) ==
  IF revokedAt[cert] # 0 /\ revokedAt[cert] <= p THEN "revoked" ELSE "good"

Response(q, p, d, nonce, known, dated) ==
  [status |-> IF known THEN StatusAt(q.token.cert, p) ELSE "unknown",
   thisUpdate |-> p + d,
   nextUpdate |-> IF dated THEN p + d + NextUpdateIn ELSE 0,
   nonce |-> nonce]

MayAnswer(q, p, nonce) ==
  /\ nonce = "echo" => sendsNonce(q.url) /\ p >= q.now
  /\ nonce = "absent" => q.url \notin EchoingURLs \/ ~sendsNonce(q.url)

OcspAnswer(r) ==
  /\ At(r, "ocsp")
  /\ \E p \in 1..clock, d \in -ResponderSkew..ResponderSkew,
        nonce \in {"echo", "other", "absent"}, known, dated \in BOOLEAN :
       /\ MayAnswer(req[r], p, nonce)
       /\ LET resp == Response(req[r], p, d, nonce, known, dated)
              verdict == CheckResponse(req[r].url, resp, clock)
          IN IF verdict = "good"
             THEN Become(r, [req[r] EXCEPT !.pc = "finish", !.ocspAt = clock])
             ELSE Answer(r, verdict)
  /\ UNCHANGED <<storeVars, trustVars, drawnVars, outsideVars, historyVars>>

MutantNoTimeout(r) == FALSE

(* No usable answer: timeout, transport error, HTTP status, bad signature. *)
OcspFails(r) ==
  /\ At(r, "ocsp")
  /\ Answer(r, "ocspFailed")
  /\ UNCHANGED <<storeVars, trustVars, drawnVars, outsideVars, historyVars>>

(***************************************************************************)
(* The rest of Validate and of the handler: the signature over origin and  *)
(* nonce, the subject and, when an issuer is configured, the assertion.    *)
(***************************************************************************)
Verify(token, origin, nonce) == token.origin = origin /\ token.nonce = nonce

MutantAnyOrigin(token, nonce) ==
  decodes(token, "signature") /\ \E origin \in Sites : Verify(token, origin, nonce)

verifySignature(token, nonce) ==
  decodes(token, "signature") /\ \E origin \in Origins : Verify(token, origin, nonce)

(* Issue needs the identity code, and entropy for the assertion. *)
Issue(cert) == IF cert.idCode THEN {"ok", "randomFailed"} ELSE {"noNationalID"}

Outcomes(token, nonce) ==
  IF ~verifySignature(token, nonce) THEN {"badSignature"}
  ELSE IF ~token.cert.cn THEN {"noSubject"}
  ELSE IF AssertionsEnabled THEN Issue(token.cert) ELSE {"ok"}

FinishValidation(r) ==
  LET q == req[r] IN
  /\ At(r, "finish")
  /\ \E result \in Outcomes(q.token, q.nonce) :
       /\ Answer(r, result)
       /\ accepted' = IF result = "ok" /\ q.kind = "login"
                      THEN Append(accepted, q.nonce) ELSE accepted
  /\ UNCHANGED <<storeVars, trustVars, drawnVars, outsideVars, taken>>

(***************************************************************************)
(* The answer reaches the browser, which keeps the cookie and the nonce it *)
(* carries, or is lost on the way.                                         *)
(***************************************************************************)
Reply(r) ==
  LET q == req[r] IN
  /\ At(r, "reply")
  /\ jar' = IF q.fresh
            THEN [jar EXCEPT ![q.browser] = [sid |-> q.sid, expires |-> clock + NonceTTL]]
            ELSE jar
  /\ held' = IF q.kind = "challenge" /\ q.result = "ok"
             THEN [held EXCEPT ![q.browser] = @ \cup {q.nonce}] ELSE held
  /\ Become(r, Idle)
  /\ UNCHANGED <<storeVars, trustVars, drawnVars, revokedAt, restarts, historyVars>>

LoseReply(r) ==
  /\ At(r, "reply")
  /\ Become(r, Idle)
  /\ UNCHANGED <<storeVars, trustVars, drawnVars, outsideVars, historyVars>>

(***************************************************************************)
(* Time, revocation by the CA, trust reload and restart of the process.    *)
(***************************************************************************)
Tick ==
  /\ clock < MaxTime
  /\ clock' = clock + 1
  /\ UNCHANGED <<entries, trustVars, authVars>>

Revoke(cert) ==
  /\ revokedAt[cert] = 0
  /\ revokedAt' = [revokedAt EXCEPT ![cert] = clock]
  /\ UNCHANGED <<storeVars, trustVars, drawnVars, jar, held, restarts, historyVars, req>>

TrustStep ==
  /\ \/ \E d \in Deliveries : Deliver(d)
     \/ \E x \in Reloaders : ReloadStep(x)
  /\ UNCHANGED <<storeVars, authVars>>

(* The in-memory store and every request being served go with the process. *)
Restart ==
  /\ restarts < MaxRestarts
  /\ restarts' = restarts + 1
  /\ RestartTrust
  /\ entries' = {}
  /\ req' = [r \in Requests |-> Idle]
  /\ UNCHANGED <<clock, drawnVars, jar, held, revokedAt, historyVars>>

(* The code that runs for request r, without what waits for a responder. *)
ServerStep(r) ==
  \/ PutNonce(r) \/ NonceMissing(r) \/ TakeNonce(r) \/ CheckExpired(r)
  \/ CheckCertificate(r) \/ VerifyTrust(r) \/ IssuerGone(r) \/ AskResponder(r)
  \/ OcspFails(r) \/ FinishValidation(r) \/ LoseReply(r)

ClientStep(r, b) ==
  \/ \E site \in Sites :
       \/ Challenge(r, b, site)
       \/ ChallengeFails(r, b, site)
       \/ LoginBadBody(r, b, site)
       \/ \E kind \in Kinds : SessionFails(r, b, kind, site)
       \/ \E cert \in Certs, n \in held[b], format \in Formats, defect \in Defects,
             origin \in Sites :
            SendLogin(r, b, site, [cert |-> cert, nonce |-> n, origin |-> origin,
                                   format |-> format, defect |-> defect])
  \/ \E n \in 0..MaxNonces, signed \in 1..MaxNonces, cert \in Certs,
        format \in Formats, defect \in Defects, origin \in Sites :
       SendValidate(r, b, n, [cert |-> cert, nonce |-> signed, origin |-> origin,
                              format |-> format, defect |-> defect])

Next ==
  \/ \E r \in Requests : ServerStep(r) \/ OcspAnswer(r) \/ Reply(r)
  \/ \E r \in Requests, b \in Browsers : ClientStep(r, b)
  \/ Tick
  \/ \E cert \in Revocable : Revoke(cert)
  \/ TrustStep
  \/ Restart

(***************************************************************************)
(* Go's scheduler runs every goroutine that is ready, and HTTPClient.Do    *)
(* gives up at its timeout: each request's own steps are weakly fair.      *)
(* Nothing is assumed of responders, browsers or the synchronizer.         *)
(***************************************************************************)
Spec == Init /\ [][Next]_vars

FairSpec == Spec /\ \A r \in Requests : WF_vars(ServerStep(r))

(***************************************************************************)
(* The login or validation r has been accepted and is being answered.      *)
(***************************************************************************)
Accepted(r) == At(r, "reply") /\ req[r].result = "ok" /\ req[r].kind # "challenge"

LoggedIn(r) == Accepted(r) /\ req[r].kind = "login"

(***************************************************************************)
(* A nonce logs in at most once, however many requests race for it, retry  *)
(* it or repeat it after a restart: GetAndRemove is the only way from the  *)
(* store to the validator.                                                 *)
(***************************************************************************)
AtMostOneLogin ==
  \A i, j \in DOMAIN accepted : accepted[i] = accepted[j] => i = j

(***************************************************************************)
(* An accepted login came in the session its nonce was issued in, and that *)
(* session belongs to the browser that sent it, also when the browser has  *)
(* changed sessions in between.                                            *)
(***************************************************************************)
SessionBinding ==
  \A r \in Requests : LoggedIn(r) =>
    /\ issued[req[r].nonce].sid = req[r].sid
    /\ sessions[req[r].sid] = req[r].browser

(***************************************************************************)
(* An accepted login used its nonce within the nonce lifetime, counted     *)
(* from the moment it was drawn and not from when it was stored.  The      *)
(* store does not check, so this rests on the login handler alone.         *)
(***************************************************************************)
WithinTTL ==
  \A r \in Requests : LoggedIn(r) =>
    req[r].checkedAt \in issued[req[r].nonce].at..issued[req[r].nonce].at + NonceTTL

(***************************************************************************)
(* Where a nonce can be.  Between its draw and the answer it belongs to    *)
(* one place only: the challenge that is about to store it, the store, or  *)
(* the login that took it out.                                             *)
(***************************************************************************)
IssuedAs(n, sid, at) == n \in 1..Len(issued) /\ issued[n] = [sid |-> sid, at |-> at]

SessionFor(s, b) == s \in 1..Len(sessions) /\ sessions[s] = b

Stored(n) == \E e \in entries : e.value = n

Taken(n) == \E e \in taken : e.value = n

Used(n) == \E i \in 1..Len(accepted) : accepted[i] = n

Working(q) ==
  q.kind = "login" /\ q.pc \in {"expiry", "checks", "trust", "issuer", "ocsp", "finish"}

Succeeded(q) == q.kind = "login" /\ q.pc = "reply" /\ q.result = "ok"

Owns(q) == q.pc = "put" \/ Working(q)

(* What the code relies on about one request q. *)
RequestInv(q) ==
  /\ q.sid # 0 => SessionFor(q.sid, q.browser)
  /\ q.pc \in {"put", "take"} \/ Working(q) \/ Succeeded(q) => q.sid # 0
  /\ q.pc = "put" => q.kind = "challenge"
  /\ q.pc \in {"take", "expiry"} => q.kind = "login"
  /\ Owns(q) \/ Succeeded(q) => IssuedAs(q.nonce, q.sid, q.issuedAt)
  /\ q.pc = "put" => ~Stored(q.nonce) /\ ~Taken(q.nonce)
  /\ Working(q) \/ Succeeded(q) => Taken(q.nonce)
  /\ Working(q) => ~Used(q.nonce)
  /\ (Working(q) /\ q.pc # "expiry") \/ Succeeded(q) =>
       q.checkedAt \in q.issuedAt..q.issuedAt + NonceTTL

(***************************************************************************)
(* Every nonce has one owner: no two requests work on the same one, none   *)
(* works on one that is still stored or already used, and all of them      *)
(* agree with what was drawn for the session.  This is the inductive       *)
(* invariant behind the properties above.                                  *)
(***************************************************************************)
OneOwner ==
  /\ \A e \in entries : IssuedAs(e.value, e.key, e.issuedAt) /\ ~Taken(e.value)
  /\ \A e \in taken : e.value \in 1..Len(issued)
  /\ \A i \in 1..Len(accepted) : Taken(accepted[i])
  /\ \A n \in 1..Len(issued) : issued[n].at <= clock
  /\ \A b \in Browsers : jar[b].sid # 0 => SessionFor(jar[b].sid, b)
  /\ \A r \in Requests : RequestInv(req[r])
  /\ \A r1, r2 \in Requests :
       r1 # r2 /\ Owns(req[r1]) /\ Owns(req[r2]) => req[r1].nonce # req[r2].nonce
  /\ AtMostOneLogin

(***************************************************************************)
(* The store drops a nonce that has not expired only by handing it out, by *)
(* replacing it in its own session, or with the process.                   *)
(***************************************************************************)
LiveNonceKept ==
  [][\A e \in entries \ entries' :
       \/ Expired(e.issuedAt, clock)
       \/ [key |-> e.key, value |-> e.value] \in taken' \ taken
       \/ \E f \in entries' \ entries : f.key = e.key
       \/ restarts' # restarts]_vars

(***************************************************************************)
(* When a nonce is stored, the lazy sweep leaves no expired one behind, so *)
(* the map does not grow with abandoned challenges as long as new ones     *)
(* come.                                                                   *)
(***************************************************************************)
ExpiredSwept ==
  [][entries' \ entries # {} =>
       \A e \in entries \cap entries' : clock - e.issuedAt <= NonceTTL]_vars

(***************************************************************************)
(* The in-memory store, used by the handlers as they do, keeps the promise *)
(* of ChallengeNonceStore.                                                 *)
(***************************************************************************)
Contract == INSTANCE NonceContract WITH
  Keys <- 1..MaxSessions, Values <- 1..MaxNonces,
  pending <- {[key |-> e.key, value |-> e.value] : e \in entries}, taken <- taken

StoreKeepsContract == Contract!Spec

(***************************************************************************)
(* A CA that was already gone from the trusted set when a request arrived  *)
(* does not vouch for its certificate: some set in force since then held   *)
(* the issuer, itself valid at the time of the checks.  It is about        *)
(* overlapping reloads and requests.                                       *)
(***************************************************************************)
RemovedAnchorNotUsed ==
  \A r \in Requests : Accepted(r) =>
    \E k \in 1..Len(delivered) :
      /\ k >= req[r].from
      /\ \E ca \in delivered[k].certs :
           ca.key = req[r].token.cert.issuer /\ CheckValidity(ca, req[r].now)

(***************************************************************************)
(* The certificate of an accepted login was within its validity period at  *)
(* some time between the issue of the nonce and the answer, although the   *)
(* OCSP exchange takes time.                                               *)
(***************************************************************************)
ValidWhileServed ==
  \A r \in Requests : LoggedIn(r) =>
    \E t \in req[r].issuedAt..clock :
      req[r].token.cert.notBefore <= t /\ t <= req[r].token.cert.notAfter

(***************************************************************************)
(* A revocation is noticed after a bounded delay, even when the answers    *)
(* come from a cache without a nonce: an accepted certificate had not been *)
(* revoked by the oldest time a response may speak for.                    *)
(***************************************************************************)
RevocationLag ==
  \A r \in Requests : Accepted(r) /\ OCSPEnabled =>
    LET revoked == revokedAt[req[r].token.cert] IN
    revoked # 0 => req[r].ocspAt - revoked <=
      MaxResponseThisUpdateAge + AllowedResponseTimeSkew + ResponderSkew

(***************************************************************************)
(* With a responder that echoes the nonce there is no such delay: a        *)
(* certificate revoked before the validation began is not accepted, for a  *)
(* repeated answer carries another nonce.                                  *)
(***************************************************************************)
RevocationSeen ==
  \A r \in Requests :
    Accepted(r) /\ OCSPEnabled /\ req[r].url \in EchoingURLs /\ sendsNonce(req[r].url) =>
      LET revoked == revokedAt[req[r].token.cert] IN revoked # 0 => revoked >= req[r].now

(***************************************************************************)
(* Whatever is accepted was signed for a configured origin over the nonce  *)
(* the session or the caller supplied, by a card certificate for client    *)
(* authentication without a disallowed policy and with a subject that the  *)
(* answer can carry.  No order of the checks lets one be skipped.          *)
(***************************************************************************)
AcceptedTokenIsSound ==
  \A r \in Requests : Accepted(r) =>
    LET token == req[r].token
        cert == token.cert
    IN /\ token.defect = "none" /\ token.nonce = req[r].nonce /\ token.origin \in Origins
       /\ cert.digitalSignature /\ cert.extKeyUsage \cap {"clientAuth", "any"} # {}
       /\ \A p \in DisallowedPolicies : {p, "unparsable"} \cap cert.policies = {}
       /\ cert.cn /\ (AssertionsEnabled => cert.idCode)
       /\ OCSPEnabled /\ AllowedResponderURLs # {} =>
            req[r].url \in AllowedResponderURLs \cup {"designated"}

(***************************************************************************)
(* "a check that already started finishes against the set it started with" *)
(* (ReloadTrust): a certificate that Verify has found trusted is not       *)
(* refused as untrusted by a later step of the same check.                 *)
(***************************************************************************)
StartedCheckKeepsItsSet ==
  [][\A r \in Requests : At(r, "issuer") => req'[r].result # "notTrusted"]_vars

(***************************************************************************)
(* Every request is answered: no handler waits for ever, whatever the      *)
(* responder, the store and the trust reload do.                           *)
(***************************************************************************)
EveryRequestAnswered ==
  \A r \in Requests : ~At(r, "idle") ~> At(r, "idle")
============================================================================
