------------------------------ MODULE Signing ------------------------------
(***************************************************************************)
(* The signing endpoints: POST /sign/certificate, which checks a signing   *)
(* certificate beside trust reloads and negotiates an algorithm with the   *)
(* card, the signature that the card then makes, and POST /sign/finalize.  *)
(*                                                                         *)
(* A hash function is its name; the card may spell it in lower case.  An   *)
(* algorithm is a record [crypto, hash, padding].  A digest is a document  *)
(* and the hash function that made it.  A signature is the certificate of  *)
(* the key that made it, the digest and the algorithm, or None when empty. *)
(***************************************************************************)
EXTENDS TrustStore, OcspChecker, FiniteSetsExt

CONSTANTS
  None,
  Signers,            \* concurrent signing flows
  SigningCerts,       \* signing certificates, see SigningFields
  Offers,             \* what cards report: sequences of algorithms
  HashPreference,     \* Configuration.SigningHashPreference
  AcceptedPolicies,   \* Configuration.SigningAcceptedPolicyOIDs, parsed
  OCSPEnabled,        \* BOOLEAN
  Documents,          \* what is signed
  AuthSerials,        \* serial numbers of authentication certificates
  Revocable,          \* signing certificates that may be revoked
  ResponderSkew,      \* how far the clock of a responder may be off
  MaxTime             \* bound on the clock

SigningFields ==
  {"issuer", "notBefore", "notAfter", "contentCommitment", "policies", "serial",
   "keyType", "ocspURL"}

SHA2 == {"SHA-224", "SHA-256", "SHA-384", "SHA-512"}

SupportedHashFunctions == SHA2 \cup {"SHA3-224", "SHA3-256", "SHA3-384", "SHA3-512"}

Algorithms == [crypto : STRING, hash : STRING, padding : STRING]

(* NewSigner checks the preference; validation of the request, the offer. *)
ASSUME SigningAssumption ==
  /\ \A c \in SigningCerts : DOMAIN c = SigningFields
  /\ HashPreference \in Seq(SupportedHashFunctions) \ {<<>>}
  /\ Offers \subseteq Seq(Algorithms) \ {<<>>}
  /\ OCSPEnabled \in BOOLEAN
  /\ {ResponderSkew, MaxTime} \subseteq Nat

VARIABLES
  clock,
  revoked,   \* when each signing certificate was revoked, 0 = it is not
  sign       \* per signing flow: its request, its signature and then the
             \* call of finalize: its body and its answer

signingVars == <<clock, revoked, sign, trustVars>>

IdleFlow ==
  [pc |-> "idle", cert |-> None, offered |-> <<>>, arrived |-> 0, from |-> 0, now |-> 0,
   url |-> "none", ocspAt |-> 0, result |-> "none", algo |-> None, hash |-> "none",
   signature |-> None, body |-> None, answer |-> None]

SigningInit ==
  /\ TrustInit
  /\ clock = 1
  /\ revoked = [c \in SigningCerts |-> 0]
  /\ sign = [r \in Signers |-> IdleFlow]

At(r, pc) == sign[r].pc = pc

Become(r, q) ==
  sign' = [sign EXCEPT ![r] = q] /\ UNCHANGED <<clock, revoked, trustVars>>

Answer(r, result) == Become(r, [sign[r] EXCEPT !.pc = "reply", !.result = result])

(***************************************************************************)
(* The hash functions.  SelectHashFunction takes the first of the          *)
(* preference that the card offers, pickAlgorithmForHash the first         *)
(* algorithm of the card with that hash function.                          *)
(***************************************************************************)
ToUpper(name) ==
  CASE name = "sha-256" -> "SHA-256" [] name = "sha3-256" -> "SHA3-256" [] OTHER -> name

offers(offered, want) == \E a \in Range(offered) : ToUpper(a.hash) = ToUpper(want)

MutantSelectLast(offered) ==
  LET fitting == {i \in DOMAIN HashPreference : offers(offered, HashPreference[i])}
  IN IF fitting = {} THEN "none" ELSE HashPreference[Max(fitting)]

SelectHashFunction(offered) ==
  LET fitting == {i \in DOMAIN HashPreference : offers(offered, HashPreference[i])}
  IN IF fitting = {} THEN "none" ELSE HashPreference[Min(fitting)]

pickAlgorithmForHash(hash, offered) ==
  LET fitting == {i \in DOMAIN offered : ToUpper(offered[i].hash) = ToUpper(hash)}
  IN IF fitting = {} THEN [crypto |-> "", hash |-> hash, padding |-> ""] ELSE offered[Min(fitting)]

(***************************************************************************)
(* PrepareSigning.  The clock is read once; the snapshot is loaded by      *)
(* Verify and again by IssuerOf, as in the authentication path.            *)
(***************************************************************************)
SendCertificate(r, cert, offered) ==
  /\ At(r, "idle")
  /\ Become(r, [IdleFlow EXCEPT !.pc = "checks", !.cert = cert, !.offered = offered,
                                !.arrived = clock, !.from = snapFrom])

(* A body of either endpoint, a base64 string in it or a certificate that  *)
(* does not decode.                                                        *)
SendMalformed(r) ==
  /\ At(r, "idle")
  /\ Become(r, [IdleFlow EXCEPT !.pc = "reply", !.result = "badRequest"])

CheckKeyUsageForSigning(cert) == cert.contentCommitment

CheckAcceptedPolicies(cert) ==
  \/ AcceptedPolicies = {}
  \/ "unparsable" \notin cert.policies /\ cert.policies \cap AcceptedPolicies # {}

SigningChecks(cert, t) ==
  CheckValidity(cert, t) /\ CheckKeyUsageForSigning(cert) /\ CheckAcceptedPolicies(cert)

CheckSigningCertificate(r) ==
  /\ At(r, "checks")
  /\ IF SigningChecks(sign[r].cert, clock)
     THEN Become(r, [sign[r] EXCEPT !.pc = "trust", !.now = clock])
     ELSE Answer(r, "invalid")

VerifySigningTrust(r) ==
  /\ At(r, "trust")
  /\ IF VerifyChain(sign[r].cert, sign[r].now, snap)
     THEN Become(r, [sign[r] EXCEPT !.pc = IF OCSPEnabled THEN "issuer" ELSE "negotiate"])
     ELSE Answer(r, "invalid")

(* IssuerOf, and Check up to the request to the responder. *)
AskSigningResponder(r) ==
  /\ At(r, "issuer")
  /\ \/ IssuersOf(sign[r].cert, snap) = {} /\ Answer(r, "invalid")
     \/ \E issuer \in IssuersOf(sign[r].cert, snap) :
          LET url == responderOf(sign[r].cert, issuer) IN
          IF isResponderAllowed(url)
          THEN Become(r, [sign[r] EXCEPT !.pc = "ocsp", !.url = url])
          ELSE Answer(r, "ocspFailed")

(* A response made at time p by a clock that is off by d (external); only  *)
(* one made for this request can carry its nonce.                          *)
SigningResponse(q, p, d, nonce) ==
  [status |-> IF revoked[q.cert] # 0 /\ revoked[q.cert] <= p THEN "revoked" ELSE "good",
   thisUpdate |-> p + d, nextUpdate |-> 0, nonce |-> nonce]

ReadSigningResponse(r) ==
  /\ At(r, "ocsp")
  /\ \E p \in 1..clock, d \in -ResponderSkew..ResponderSkew,
        nonce \in {"echo", "other", "absent"} :
       /\ nonce = "echo" => sendsNonce(sign[r].url) /\ p >= sign[r].now
       /\ LET verdict ==
                CheckResponse(sign[r].url, SigningResponse(sign[r], p, d, nonce), clock)
          IN IF verdict = "good"
             THEN Become(r, [sign[r] EXCEPT !.pc = "negotiate", !.ocspAt = clock])
             ELSE Answer(r, verdict)

MutantWaitsForResponder(r) == FALSE

SigningResponderFails(r) == At(r, "ocsp") /\ Answer(r, "ocspFailed")

Negotiate(r) ==
  LET q == sign[r]
      hash == SelectHashFunction(q.offered)
  IN /\ At(r, "negotiate")
     /\ IF hash = "none" THEN Answer(r, "noSupportedHash")
        ELSE Become(r, [q EXCEPT !.pc = "reply", !.result = "ok", !.hash = hash,
                                 !.algo = pickAlgorithmForHash(hash, q.offered)])

(* The answer is sent: a refused flow ends, a prepared one goes on to the  *)
(* card.                                                                   *)
SigningReply(r) ==
  /\ At(r, "reply")
  /\ Become(r, IF sign[r].result = "ok" THEN [sign[r] EXCEPT !.pc = "prepared"] ELSE IdleFlow)

(***************************************************************************)
(* The card signs the digest that was made with the negotiated hash        *)
(* function, by one of its algorithms for it (external).  It may not get   *)
(* to it.                                                                  *)
(***************************************************************************)
CardRefuses(r) == At(r, "prepared") /\ Become(r, IdleFlow)

CardSigns(r, doc) ==
  /\ At(r, "prepared")
  /\ \E a \in {b \in Range(sign[r].offered) :
               b.crypto = sign[r].cert.keyType /\ ToUpper(b.hash) = ToUpper(sign[r].hash)} :
       Become(r, [sign[r] EXCEPT !.pc = "signed", !.signature =
         [by |-> sign[r].cert, algo |-> a,
          digest |-> [doc |-> doc, hash |-> ToUpper(sign[r].hash)]]])

(***************************************************************************)
(* VerifySignatureValue.  ECDSA takes the digest as it is.  RSA needs the  *)
(* hash function by name, and knows the SHA-2 family only; the signature   *)
(* names its hash function and has its padding.                            *)
(***************************************************************************)
MutantDigestNotCompared(cert, algo, digest, sig) == sig.by = cert

MutantHashNameAsSpelt(cert, algo, digest, sig) ==
  /\ sig.by = cert /\ sig.digest = digest
  /\ cert.keyType = "ECC" \/ (cert.keyType = "RSA" /\ algo.hash \in SHA2)

VerifySignatureValue(cert, algo, digest, sig) ==
  /\ sig.by = cert /\ sig.digest = digest
  /\ \/ cert.keyType = "ECC"
     \/ /\ cert.keyType = "RSA"
        /\ ToUpper(algo.hash) \in SHA2
        /\ ToUpper(algo.hash) = ToUpper(sig.algo.hash)
        /\ (algo.padding = "PSS") = (sig.algo.padding = "PSS")

isNaturalPerson(serial) == serial.semantics = "PNO"

(* CheckSameNaturalPerson: whether it applies, and its error. *)
personChecked(a, b) == isNaturalPerson(a) /\ isNaturalPerson(b)

personMismatch(a, b) == personChecked(a, b) /\ a # b

(* What finalize answers to a body that decodes. *)
FinalizeAnswer(body) ==
  LET refused(why) == [status |-> why, verified |-> FALSE, bound |-> FALSE]
      ok(verified, bound) == [status |-> "ok", verified |-> verified, bound |-> bound]
  IN IF body.signature = None THEN refused("emptySignature")
     ELSE IF body.digest = None /\ body.signingCert = None THEN ok(FALSE, FALSE)
     ELSE IF body.digest = None \/ body.signingCert = None THEN refused("needsBoth")
     ELSE IF ~VerifySignatureValue(body.signingCert, body.algo, body.digest, body.signature)
          THEN refused("signatureInvalid")
     ELSE IF personMismatch(body.auth, body.signingCert.serial) THEN refused("otherPerson")
     ELSE ok(TRUE, personChecked(body.auth, body.signingCert.serial))

(***************************************************************************)
(* finalize, called with the signature of flow r and whatever digest,      *)
(* algorithm, certificates and signature value the caller sends along.     *)
(***************************************************************************)
Finalize(r, auth, algo, doc, cert, empty) ==
  LET sig == sign[r].signature
      body == [signature |-> IF empty THEN None ELSE sig, algo |-> algo, auth |-> auth,
               digest |-> IF doc = None THEN None ELSE [sig.digest EXCEPT !.doc = doc],
               signingCert |-> cert]
  IN /\ At(r, "signed")
     /\ Become(r, [IdleFlow EXCEPT !.pc = "finalized", !.body = body,
                                   !.answer = FinalizeAnswer(body)])

FinalReply(r) == At(r, "finalized") /\ Become(r, IdleFlow)

RevokeSigning(cert) ==
  /\ revoked[cert] = 0
  /\ revoked' = [revoked EXCEPT ![cert] = clock]
  /\ UNCHANGED <<clock, sign, trustVars>>

TickSigning ==
  /\ clock < MaxTime
  /\ clock' = clock + 1
  /\ UNCHANGED <<revoked, sign, trustVars>>

SigningTrustStep ==
  /\ \/ \E d \in Deliveries : Deliver(d)
     \/ \E x \in Reloaders : ReloadStep(x)
  /\ UNCHANGED <<clock, revoked, sign>>

(* The process restarts.  Requests it serves are lost; a flow that is with *)
(* the card goes on, for the service keeps nothing of it.                  *)
RestartSigning ==
  /\ RestartTrust
  /\ sign' = [r \in Signers |->
       IF sign[r].pc \in {"prepared", "signed"} THEN sign[r] ELSE IdleFlow]
  /\ UNCHANGED <<clock, revoked>>

SigningStep(r) ==
  \/ CheckSigningCertificate(r) \/ VerifySigningTrust(r) \/ AskSigningResponder(r)
  \/ SigningResponderFails(r) \/ Negotiate(r) \/ SigningReply(r) \/ FinalReply(r)

SigningNext ==
  \/ \E r \in Signers :
       \/ \E cert \in SigningCerts, offered \in Offers : SendCertificate(r, cert, offered)
       \/ SendMalformed(r)
       \/ SigningStep(r)
       \/ ReadSigningResponse(r)
       \/ CardRefuses(r)
       \/ \E doc \in Documents : CardSigns(r, doc)
       \/ \E auth \in AuthSerials, algo \in Range(sign[r].offered),
             doc \in Documents \cup {None}, cert \in SigningCerts \cup {None},
             empty \in BOOLEAN :
            Finalize(r, auth, algo, doc, cert, empty)
  \/ \E cert \in Revocable : RevokeSigning(cert)
  \/ TickSigning
  \/ SigningTrustStep
  \/ RestartSigning

(***************************************************************************)
(* The steps of a request are weakly fair, as in module WebEidAuth: the    *)
(* scheduler runs them and HTTPClient.Do ends at its timeout.              *)
(***************************************************************************)
SigningSpec ==
  /\ SigningInit
  /\ [][SigningNext]_signingVars
  /\ \A r \in Signers : WF_signingVars(SigningStep(r))

(***************************************************************************)
(* Properties                                                              *)
(***************************************************************************)
Prepared(r) == At(r, "reply") /\ sign[r].result = "ok"

(* What PrepareSigning returns fits together: a certificate for content    *)
(* commitment that was valid while it was served and passes the policy     *)
(* gate, the hash function that the preference ranks first among those the *)
(* card offers, and an algorithm of the card's own with that function.     *)
PreparedIsSound ==
  \A r \in Signers : Prepared(r) =>
    LET q == sign[r] IN
    /\ q.cert.contentCommitment
    /\ \E t \in q.arrived..clock : q.cert.notBefore <= t /\ t <= q.cert.notAfter
    /\ AcceptedPolicies # {} => q.cert.policies \cap AcceptedPolicies # {}
    /\ q.algo \in Range(q.offered) /\ ToUpper(q.algo.hash) = q.hash
    /\ \E i \in DOMAIN HashPreference :
         /\ q.hash = HashPreference[i]
         /\ \A k \in 1..i - 1, a \in Range(q.offered) : ToUpper(a.hash) # HashPreference[k]

(* A CA that was gone from the trusted set when the request arrived does   *)
(* not vouch for a signing certificate, nor does one outside its validity  *)
(* period at the time of the checks, although the snapshot is loaded twice *)
(* while calls of ReloadTrust follow one another.                          *)
SigningAnchorNotRemoved ==
  \A r \in Signers : Prepared(r) =>
    \E k \in 1..Len(delivered) :
      /\ k >= sign[r].from
      /\ \E ca \in delivered[k].certs :
           ca.key = sign[r].cert.issuer /\ CheckValidity(ca, sign[r].now)

(* A revoked signing certificate is noticed within the age and the skews   *)
(* that checkFreshness allows.                                             *)
SigningRevocationLag ==
  \A r \in Signers : Prepared(r) /\ OCSPEnabled /\ revoked[sign[r].cert] # 0 =>
    sign[r].ocspAt - revoked[sign[r].cert] <=
      MaxResponseThisUpdateAge + AllowedResponseTimeSkew + ResponderSkew

(* What finalize confirms is so: a verified signature was made with the    *)
(* key of the given certificate over the given digest, a bound identity is *)
(* one natural person, and two different natural persons get no answer     *)
(* that confirms anything.                                                 *)
FinalizeIsSound ==
  \A r \in Signers : At(r, "finalized") =>
    LET body == sign[r].body
        answer == sign[r].answer
    IN /\ answer.verified =>
            /\ body.digest # None /\ body.signingCert # None
            /\ body.signature.by = body.signingCert /\ body.signature.digest = body.digest
            /\ \/ answer.bound
               \/ \E s \in {body.auth, body.signingCert.serial} : s.semantics # "PNO"
       /\ answer.bound => answer.verified /\ body.auth = body.signingCert.serial
       /\ answer.status = "ok" /\ ~answer.verified =>
            body.digest = None /\ body.signingCert = None

(* The caller sends the digest, the algorithm and the certificate that the *)
(* signature was made with.                                                *)
Honest(body) ==
  /\ body.signature # None
  /\ body.algo = body.signature.algo
  /\ body.digest = body.signature.digest
  /\ body.signingCert = body.signature.by

(* "algo is the SignatureAlgorithm negotiated at the prepare step": a      *)
(* signature that the card made with the negotiated hash function is not   *)
(* refused by VerifySignatureValue.                                        *)
NegotiatedSignatureVerifies ==
  \A r \in Signers : At(r, "finalized") /\ Honest(sign[r].body) =>
    sign[r].answer.status # "signatureInvalid"

(* Every call of /sign/certificate is answered, whatever the responder and *)
(* the reloads do.                                                         *)
SigningAnswered ==
  \A r \in Signers : At(r, "checks") ~> sign[r].pc \in {"idle", "prepared"}
============================================================================
