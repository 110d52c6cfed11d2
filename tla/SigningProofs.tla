--------------------------- MODULE SigningProofs ---------------------------
(***************************************************************************)
(* Proofs about the signing endpoints, for any number of flows, cards,     *)
(* documents and deliveries, any preference of hash functions and either   *)
(* setting of OCSP.                                                        *)
(*                                                                         *)
(* SigningInv is the inductive invariant: it follows a flow through the    *)
(* steps of PrepareSigning, the card and finalize, and keeps what each     *)
(* step has established, together with the invariant of the trust store.   *)
(***************************************************************************)
EXTENDS Signing, TrustProofs, WellFoundedInduction

(***************************************************************************)
(* A non-empty set of naturals has a least element.                        *)
(***************************************************************************)
LEMMA LeastNatural ==
  ASSUME NEW S, S \subseteq Nat, S # {}
  PROVE  \E x \in S : \A y \in S : x <= y
<1>1. PICK x \in S : \A y \in S : ~(<<y, x>> \in OpToRel(<, Nat))
  BY NatLessThanWellFounded, WFMin
<1>2. \A y \in S : ~(y < x)
  BY <1>1 DEF OpToRel
<1> QED BY <1>2

(***************************************************************************)
(* Min returns that element.                                               *)
(***************************************************************************)
LEMMA MinIsLeast ==
  ASSUME NEW S, S \subseteq Nat, S # {}
  PROVE  Min(S) \in S /\ \A y \in S : Min(S) <= y
BY LeastNatural DEF Min

(***************************************************************************)
(* SelectHashFunction returns the first function of the preference that    *)
(* the card offers, or none when it offers none of them.                   *)
(***************************************************************************)
LEMMA SelectsFirst ==
  ASSUME NEW offered
  PROVE  \/ SelectHashFunction(offered) = "none"
         \/ \E i \in DOMAIN HashPreference :
              /\ SelectHashFunction(offered) = HashPreference[i]
              /\ offers(offered, HashPreference[i])
              /\ \A k \in 1..i - 1 : ~offers(offered, HashPreference[k])
<1>1. Len(HashPreference) \in Nat /\ DOMAIN HashPreference = 1..Len(HashPreference)
  BY SigningAssumption
<1>2. PICK fitting : fitting = {i \in DOMAIN HashPreference : offers(offered, HashPreference[i])}
  OBVIOUS
<1>3. SelectHashFunction(offered) = IF fitting = {} THEN "none" ELSE HashPreference[Min(fitting)]
  BY <1>2 DEF SelectHashFunction
<1>4. CASE fitting # {}
  <2>1. fitting \subseteq Nat
    BY <1>1, <1>2
  <2>2. PICK m : m = Min(fitting)
    OBVIOUS
  <2>3. m \in fitting /\ \A y \in fitting : m <= y
    BY <1>4, <2>1, <2>2, MinIsLeast
  <2>4. m \in DOMAIN HashPreference /\ offers(offered, HashPreference[m])
    BY <1>2, <2>3
  <2>5. ASSUME NEW k \in 1..m - 1 PROVE ~offers(offered, HashPreference[k])
    <3>1. k \in DOMAIN HashPreference /\ ~(m <= k)
      BY <1>1, <2>4
    <3> QED BY <1>2, <2>3, <3>1
  <2> QED BY <1>3, <1>4, <2>2, <2>4, <2>5
<1> QED BY <1>3, <1>4

(***************************************************************************)
(* pickAlgorithmForHash returns an algorithm of the card for a function    *)
(* that the card offers.                                                   *)
(***************************************************************************)
LEMMA PicksOffered ==
  ASSUME NEW offered \in Seq(Algorithms), NEW hash, offers(offered, hash)
  PROVE  LET a == pickAlgorithmForHash(hash, offered)
         IN a \in Range(offered) /\ ToUpper(a.hash) = ToUpper(hash)
<1>1. Len(offered) \in Nat /\ DOMAIN offered = 1..Len(offered)
  OBVIOUS
<1>2. PICK fitting : fitting = {i \in DOMAIN offered : ToUpper(offered[i].hash) = ToUpper(hash)}
  OBVIOUS
<1>3. fitting \subseteq Nat /\ fitting # {}
  BY <1>1, <1>2 DEF offers, Range
<1>4. PICK m : m = Min(fitting)
  OBVIOUS
<1>5. m \in fitting
  BY <1>3, <1>4, MinIsLeast
<1>6. m \in DOMAIN offered /\ ToUpper(offered[m].hash) = ToUpper(hash)
  BY <1>2, <1>5
<1>7. pickAlgorithmForHash(hash, offered) = offered[m]
  BY <1>2, <1>3, <1>4 DEF pickAlgorithmForHash
<1> QED BY <1>6, <1>7 DEF Range

(***************************************************************************)
(* The types of a flow.                                                    *)
(***************************************************************************)
Steps ==
  {"idle", "checks", "trust", "issuer", "ocsp", "negotiate", "reply", "prepared", "signed",
   "finalized"}

Results ==
  {"none", "badRequest", "invalid", "ocspFailed", "revoked", "noSupportedHash", "ok"}

URLs == {c.ocspURL : c \in SigningCerts} \cup {"none", "designated"}

Digests == [doc : Documents, hash : SupportedHashFunctions]

Signatures == [by : SigningCerts, algo : Algorithms, digest : Digests]

Bodies ==
  [signature : Signatures \cup {None}, algo : Algorithms, auth : AuthSerials,
   digest : Digests \cup {None}, signingCert : SigningCerts \cup {None}]

Answers == {FinalizeAnswer(body) : body \in Bodies}

(* A field that a flow may not have filled in yet. *)
MaybeCert == SigningCerts \cup {None}
MaybeOffer == Offers \cup {<<>>}
MaybeAlgo == Algorithms \cup {None}
MaybeHash == SupportedHashFunctions \cup {"none"}
MaybeSignature == Signatures \cup {None}
MaybeBody == Bodies \cup {None}
MaybeAnswer == Answers \cup {None}

Flow ==
  [pc : Steps, cert : MaybeCert, offered : MaybeOffer, arrived : Nat, from : Nat, now : Nat,
   url : URLs, ocspAt : Nat, result : Results, algo : MaybeAlgo, hash : MaybeHash,
   signature : MaybeSignature, body : MaybeBody, answer : MaybeAnswer]

SigningTypeOK ==
  /\ clock \in Nat
  /\ revoked \in [SigningCerts -> Nat]
  /\ sign \in [Signers -> Flow]

(***************************************************************************)
(* What a flow q has established: it has got to one of the steps, or       *)
(* through all of them.                                                    *)
(***************************************************************************)
Passed(q, steps) == q.pc \in steps \/ q.result = "ok"

Received(q) ==
  /\ q.pc \in {"prepared", "signed"} => q.result = "ok"
  /\ q.result = "ok" => q.pc \in {"reply", "prepared", "signed"}
  /\ Passed(q, {"checks", "trust", "issuer", "ocsp", "negotiate"}) =>
       q.cert \in SigningCerts /\ q.offered \in Offers /\ q.arrived <= clock

Checked(q) ==
  Passed(q, {"trust", "issuer", "ocsp", "negotiate"}) =>
    SigningChecks(q.cert, q.now) /\ q.arrived <= q.now /\ q.now <= clock

NotRevoked(q) ==
  OCSPEnabled /\ Passed(q, {"negotiate"}) =>
    /\ q.ocspAt <= clock
    /\ revoked[q.cert] # 0 => q.ocspAt - revoked[q.cert] <=
         MaxResponseThisUpdateAge + AllowedResponseTimeSkew + ResponderSkew

FirstChoice(hash, offered) ==
  \E i \in DOMAIN HashPreference :
    /\ hash = HashPreference[i]
    /\ \A k \in 1..i - 1, a \in Range(offered) : ToUpper(a.hash) # HashPreference[k]

Negotiated(q) ==
  q.result = "ok" =>
    /\ FirstChoice(q.hash, q.offered)
    /\ q.algo \in Range(q.offered) /\ ToUpper(q.algo.hash) = q.hash

(* An algorithm that a card offers, for its key and a preferred function. *)
Fits(algo, cert) ==
  /\ \E o \in Offers : algo \in Range(o)
  /\ algo.crypto = cert.keyType
  /\ ToUpper(algo.hash) \in Range(HashPreference)

CardSigned(q) ==
  q.pc = "signed" => q.signature \in Signatures /\ Fits(q.signature.algo, q.signature.by)

Finalized(q) ==
  q.pc = "finalized" =>
    /\ q.body \in Bodies /\ q.answer = FinalizeAnswer(q.body)
    /\ q.body.signature # None => Fits(q.body.signature.algo, q.body.signature.by)

(* A delivery at least as new as the one in force at the arrival of the    *)
(* request has the CA of the certificate, valid when that was checked.     *)
Anchored(q) ==
  \E k \in 1..Len(delivered) :
    /\ k >= q.from
    /\ \E ca \in delivered[k].certs : ca.key = q.cert.issuer /\ CheckValidity(ca, q.now)

(* When reloads do not overlap: until Verify has run, the set in force is  *)
(* no older than the one at the arrival of the request; from then on the   *)
(* certificate is anchored.                                                *)
Vouched(q) ==
  OneReloader =>
    /\ q.pc \in {"checks", "trust"} => q.from <= snapFrom
    /\ Passed(q, {"issuer", "ocsp", "negotiate"}) => Anchored(q)

FlowOK(q) ==
  /\ Received(q) /\ Checked(q) /\ NotRevoked(q) /\ Vouched(q) /\ Negotiated(q)
  /\ CardSigned(q) /\ Finalized(q)

(* The inductive invariant. *)
SigningInv == TrustInv /\ SigningTypeOK /\ \A r \in Signers : FlowOK(sign[r])

(***************************************************************************)
(* What only a prepared flow owes, one that is not prepared does not.      *)
(***************************************************************************)
LEMMA NotYetPrepared ==
  ASSUME NEW q, q.result # "ok", q.pc \notin {"signed", "finalized"},
         Received(q), Checked(q), NotRevoked(q), Vouched(q)
  PROVE  FlowOK(q)
BY DEF FlowOK, Negotiated, CardSigned, Finalized

(***************************************************************************)
(* A flow that is idle or refused has established nothing.                 *)
(***************************************************************************)
LEMMA NothingEstablished ==
  ASSUME NEW q, q.result # "ok", q.pc \in {"idle", "reply"}
  PROVE  FlowOK(q)
<1>1. Received(q) /\ Checked(q)
  BY DEF Received, Checked, Passed
<1>2. NotRevoked(q) /\ Vouched(q)
  BY DEF NotRevoked, Vouched, Passed
<1> QED BY <1>1, <1>2, NotYetPrepared

(***************************************************************************)
(* Each field may be filled in, or not.                                    *)
(***************************************************************************)
LEMMA MaybeFilled ==
  /\ SigningCerts \subseteq MaybeCert /\ Offers \subseteq MaybeOffer
  /\ Algorithms \subseteq MaybeAlgo /\ SupportedHashFunctions \subseteq MaybeHash
  /\ Signatures \subseteq MaybeSignature /\ Bodies \subseteq MaybeBody
  /\ Answers \subseteq MaybeAnswer
BY ZenonT(30) DEF MaybeCert, MaybeOffer, MaybeAlgo, MaybeHash, MaybeSignature, MaybeBody, MaybeAnswer

(***************************************************************************)
(* New starts with idle flows.                                             *)
(***************************************************************************)
LEMMA IdleIsOK == IdleFlow \in Flow /\ FlowOK(IdleFlow)
<1>1. IdleFlow \in Flow
  <2>1. "idle" \in Steps /\ "none" \in URLs /\ "none" \in Results
    BY DEF Steps, URLs, Results
  <2>2. None \in MaybeCert /\ <<>> \in MaybeOffer /\ None \in MaybeAlgo /\ "none" \in MaybeHash
    BY ZenonT(30) DEF MaybeCert, MaybeOffer, MaybeAlgo, MaybeHash
  <2>3. None \in MaybeSignature /\ None \in MaybeBody /\ None \in MaybeAnswer
    BY ZenonT(30) DEF MaybeSignature, MaybeBody, MaybeAnswer
  <2> QED BY <2>1, <2>2, <2>3 DEF IdleFlow, Flow
<1>2. IdleFlow.pc = "idle" /\ IdleFlow.result = "none"
  BY DEF IdleFlow
<1> QED BY <1>1, <1>2, NothingEstablished

(***************************************************************************)
(* So the invariant holds initially.                                       *)
(***************************************************************************)
LEMMA SigningInitInv == SigningInit => SigningInv
BY IdleIsOK, TrustInvInit DEF SigningInit, SigningInv, SigningTypeOK

(***************************************************************************)
(* What the checks established depends on the clock alone, what the card   *)
(* and finalize did on nothing outside the flow.                           *)
(***************************************************************************)
LEMMA ChecksKept ==
  ASSUME NEW q, FlowOK(q), clock' = clock
  PROVE  (Received(q) /\ Checked(q) /\ Negotiated(q) /\ CardSigned(q) /\ Finalized(q))'
<1>1. Received(q)' /\ Checked(q)'
  BY DEF FlowOK, Received, Checked, Passed
<1>2. Negotiated(q)' /\ CardSigned(q)' /\ Finalized(q)'
  BY DEF FlowOK, Negotiated, CardSigned, Finalized
<1> QED BY <1>1, <1>2

(***************************************************************************)
(* An anchor stays one while deliveries are only added.                    *)
(***************************************************************************)
LEMMA AnchorKept ==
  ASSUME NEW q, Anchored(q),
         \A n \in 1..Len(delivered) : n \in 1..Len(delivered') /\ delivered'[n] = delivered[n]
  PROVE  Anchored(q)'
<1>1. PICK k \in 1..Len(delivered) :
        /\ k >= q.from
        /\ \E ca \in delivered[k].certs : ca.key = q.cert.issuer /\ CheckValidity(ca, q.now)
  BY DEF Anchored
<1>2. k \in 1..Len(delivered') /\ delivered'[k] = delivered[k]
  OBVIOUS
<1> QED BY <1>1, <1>2, ZenonT(30) DEF Anchored

(***************************************************************************)
(* A flow keeps what it has while nothing outside it changes.              *)
(***************************************************************************)
LEMMA FlowKept ==
  ASSUME NEW q, FlowOK(q), UNCHANGED <<clock, revoked, snapFrom, delivered>>
  PROVE  FlowOK(q)'
<1>1. NotRevoked(q)'
  BY DEF FlowOK, NotRevoked
<1>2. Vouched(q)'
  BY DEF FlowOK, Vouched, Anchored
<1> QED BY <1>1, <1>2, ChecksKept DEF FlowOK

(***************************************************************************)
(* A step of one flow leaves the others alone.                             *)
(***************************************************************************)
LEMMA FlowStep ==
  ASSUME SigningInv, NEW r \in Signers, NEW q \in Flow, Become(r, q), FlowOK(q)
  PROVE  SigningInv'
<1>1. /\ sign' = [sign EXCEPT ![r] = q] /\ UNCHANGED <<clock, revoked, trustVars>>
      /\ SigningTypeOK
  BY DEF Become, SigningInv
<1>2. SigningTypeOK'
  BY <1>1 DEF SigningTypeOK
<1>3. TrustInv'
  BY <1>1, TrustInvNext DEF SigningInv
<1>4. ASSUME NEW x \in Signers PROVE FlowOK(sign[x])'
  <2>1. PICK f : f = sign'[x] /\ FlowOK(f)
    BY <1>1 DEF SigningInv, SigningTypeOK
  <2>2. FlowOK(f)'
    BY <1>1, <2>1, FlowKept DEF trustVars
  <2> QED BY <2>1, <2>2
<1> QED BY <1>2, <1>3, <1>4 DEF SigningInv

(***************************************************************************)
(* A refusal is always safe: the flow answers and has established nothing. *)
(***************************************************************************)
LEMMA Refuses ==
  ASSUME SigningInv, NEW r \in Signers, NEW result \in Results \ {"ok"}, Answer(r, result)
  PROVE  SigningInv'
<1>1. PICK f \in Flow : f = sign[r]
  BY DEF SigningInv, SigningTypeOK
<1>2. PICK q : q = [f EXCEPT !.pc = "reply", !.result = result] /\ Become(r, q)
  BY <1>1 DEF Answer
<1>3. "reply" \in Steps
  BY DEF Steps
<1>4. q \in Flow /\ q.pc = "reply" /\ q.result = result
  BY <1>2, <1>3 DEF Flow
<1>5. FlowOK(q)
  BY <1>4, NothingEstablished
<1> QED BY <1>2, <1>4, <1>5, FlowStep

(***************************************************************************)
(* A certificate arrives, or a body that does not decode.                  *)
(***************************************************************************)
LEMMA SendKeeps ==
  ASSUME SigningInv, NEW r \in Signers
  PROVE  /\ \A cert \in SigningCerts, offered \in Offers :
              SendCertificate(r, cert, offered) => SigningInv'
         /\ SendMalformed(r) => SigningInv'
<1>1. IdleFlow \in Flow /\ IdleFlow.result = "none" /\ clock \in Nat /\ snapFrom \in Nat
  BY IdleIsOK, SnapshotDelivered DEF IdleFlow, SigningInv, SigningTypeOK
<1>2. {"checks", "reply"} \subseteq Steps /\ "badRequest" \in Results
  BY DEF Steps, Results
<1>3. ASSUME NEW cert \in SigningCerts, NEW offered \in Offers,
             SendCertificate(r, cert, offered)
      PROVE  SigningInv'
  <2>1. PICK q : /\ q = [IdleFlow EXCEPT !.pc = "checks", !.cert = cert, !.offered = offered,
                                         !.arrived = clock, !.from = snapFrom]
                 /\ Become(r, q)
    BY <1>3 DEF SendCertificate
  <2>2. /\ q \in Flow /\ q.pc = "checks" /\ q.result = "none"
        /\ q.cert = cert /\ q.offered = offered /\ q.arrived = clock /\ q.from = snapFrom
    <3>1. cert \in MaybeCert /\ offered \in MaybeOffer /\ "checks" \in Steps
      BY <1>2, MaybeFilled, ZenonT(30)
    <3> QED BY <1>1, <2>1, <3>1 DEF Flow
  <2>3. Received(q) /\ Checked(q)
    BY <1>1, <2>2 DEF Received, Checked, Passed
  <2>4. NotRevoked(q) /\ Vouched(q)
    BY <1>1, <2>2 DEF NotRevoked, Vouched, Passed
  <2>5. FlowOK(q)
    BY <2>2, <2>3, <2>4, NotYetPrepared
  <2> QED BY <2>1, <2>2, <2>5, FlowStep
<1>4. ASSUME SendMalformed(r) PROVE SigningInv'
  <2>1. PICK q : /\ q = [IdleFlow EXCEPT !.pc = "reply", !.result = "badRequest"]
                 /\ Become(r, q)
    BY <1>4 DEF SendMalformed
  <2>2. q \in Flow /\ q.pc = "reply" /\ q.result = "badRequest"
    BY <1>1, <1>2, <2>1 DEF Flow
  <2>3. FlowOK(q)
    BY <2>2, NothingEstablished
  <2> QED BY <2>1, <2>2, <2>3, FlowStep
<1> QED BY <1>3, <1>4

(***************************************************************************)
(* The checks of the certificate itself establish what they check, at the  *)
(* time that is read for them.                                             *)
(***************************************************************************)
LEMMA CheckKeeps ==
  ASSUME SigningInv, NEW r \in Signers, CheckSigningCertificate(r)
  PROVE  SigningInv'
<1>1. PICK f \in Flow : f = sign[r] /\ FlowOK(f) /\ f.pc = "checks"
  BY DEF SigningInv, SigningTypeOK, CheckSigningCertificate, At
<1>2. "trust" \in Steps /\ "invalid" \in Results /\ clock \in Nat
  BY DEF Steps, Results, SigningInv, SigningTypeOK
<1>3. CASE SigningChecks(f.cert, clock)
  <2>1. PICK q : q = [f EXCEPT !.pc = "trust", !.now = clock] /\ Become(r, q)
    BY <1>1, <1>3 DEF CheckSigningCertificate
  <2>2. /\ q \in Flow /\ q.pc = "trust" /\ q.now = clock /\ q.result = f.result
        /\ q.cert = f.cert /\ q.offered = f.offered /\ q.arrived = f.arrived
        /\ q.from = f.from
    BY <1>2, <2>1 DEF Flow
  <2>3. f.result # "ok" /\ f.cert \in SigningCerts /\ f.offered \in Offers /\ f.arrived <= clock
    BY <1>1 DEF FlowOK, Received, Passed
  <2>4. Received(q) /\ NotRevoked(q)
    BY <2>2, <2>3 DEF Received, NotRevoked, Passed
  <2>5. Checked(q)
    BY <1>2, <1>3, <2>2, <2>3 DEF Checked
  <2>6. Vouched(q)
    BY <1>1, <2>2, <2>3 DEF FlowOK, Vouched, Passed
  <2>7. FlowOK(q)
    BY <2>2, <2>3, <2>4, <2>5, <2>6, NotYetPrepared
  <2> QED BY <2>1, <2>2, <2>7, FlowStep
<1>4. CASE ~SigningChecks(f.cert, clock)
  <2>1. Answer(r, "invalid")
    BY <1>1, <1>4 DEF CheckSigningCertificate
  <2> QED BY <1>2, <2>1, Refuses
<1> QED BY <1>3, <1>4

(***************************************************************************)
(* The two loads of the snapshot, in Verify and in IssuerOf, keep what the *)
(* checks established.                                                     *)
(***************************************************************************)
LEMMA TrustStepsKeep ==
  ASSUME SigningInv, NEW r \in Signers, VerifySigningTrust(r) \/ AskSigningResponder(r)
  PROVE  SigningInv'
<1>1. PICK f \in Flow : f = sign[r] /\ FlowOK(f) /\ f.pc \in {"trust", "issuer"}
  BY DEF SigningInv, SigningTypeOK, VerifySigningTrust, AskSigningResponder, At
<1>2. /\ {"issuer", "negotiate", "ocsp"} \subseteq Steps
      /\ {"invalid", "ocspFailed"} \subseteq Results \ {"ok"}
  BY DEF Steps, Results
<1>3. /\ f.result # "ok" /\ f.cert \in SigningCerts /\ f.offered \in Offers
      /\ f.arrived <= clock
  BY <1>1 DEF FlowOK, Received, Passed
<1>4. ASSUME NEW q \in Flow, Become(r, q), Vouched(q),
             q.pc \in {"issuer", "ocsp"} \/ (q.pc = "negotiate" /\ ~OCSPEnabled),
             q.cert = f.cert, q.offered = f.offered, q.arrived = f.arrived, q.now = f.now,
             q.result = f.result
      PROVE  SigningInv'
  <2>1. Received(q) /\ NotRevoked(q)
    BY <1>3, <1>4 DEF Received, NotRevoked, Passed
  <2>2. Checked(q)
    BY <1>1, <1>4 DEF FlowOK, Checked, Passed
  <2>3. FlowOK(q)
    BY <1>3, <1>4, <2>1, <2>2, NotYetPrepared
  <2> QED BY <1>4, <2>3, FlowStep
<1>5. CASE VerifySigningTrust(r)
  <2>1. ASSUME NEW q, NEW p \in {"issuer", "negotiate"}, q = [f EXCEPT !.pc = p]
        PROVE  /\ q \in Flow /\ q.pc = p /\ q.cert = f.cert /\ q.offered = f.offered
               /\ q.arrived = f.arrived /\ q.now = f.now /\ q.result = f.result
               /\ q.from = f.from
    <3>1. p \in Steps
      BY <1>2
    <3> QED BY <2>1, <3>1 DEF Flow
  <2>2. \/ Answer(r, "invalid")
        \/ /\ VerifyChain(f.cert, f.now, snap)
           /\ Become(r, [f EXCEPT !.pc = IF OCSPEnabled THEN "issuer" ELSE "negotiate"])
    BY <1>1, <1>5 DEF VerifySigningTrust
  <2>3. CASE Answer(r, "invalid")
    BY <1>2, <2>3, Refuses
  <2>4. ASSUME VerifyChain(f.cert, f.now, snap),
               Become(r, [f EXCEPT !.pc = IF OCSPEnabled THEN "issuer" ELSE "negotiate"])
        PROVE  SigningInv'
    <3>1. PICK q, p : /\ p = IF OCSPEnabled THEN "issuer" ELSE "negotiate"
                      /\ q = [f EXCEPT !.pc = p] /\ Become(r, q)
      BY <2>4
    <3>2. p = "issuer" \/ (p = "negotiate" /\ ~OCSPEnabled)
      BY <3>1
    <3>3. f.from \in Nat /\ (OneReloader => f.from <= snapFrom)
      BY <1>1, <1>5 DEF Flow, FlowOK, Vouched, VerifySigningTrust, At
    <3>4. PICK ca \in snap : ca.key = f.cert.issuer /\ CheckValidity(ca, f.now)
      BY <2>4 DEF VerifyChain
    <3>5. PICK k \in 1..Len(delivered) : k = snapFrom /\ snap = delivered[k].certs
      BY <3>4, SnapshotDelivered DEF SigningInv
    <3>6. /\ q \in Flow /\ q.pc = p /\ q.cert = f.cert /\ q.offered = f.offered
          /\ q.arrived = f.arrived /\ q.now = f.now /\ q.result = f.result /\ q.from = f.from
      BY <2>1, <3>1, <3>2
    <3>7. OneReloader => Anchored(q)
      BY <3>3, <3>4, <3>5, <3>6 DEF Anchored
    <3>8. Vouched(q)
      BY <3>2, <3>6, <3>7 DEF Vouched
    <3> QED BY <1>4, <3>1, <3>2, <3>6, <3>8
  <2> QED BY <2>2, <2>3, <2>4
<1>6. CASE AskSigningResponder(r)
  <2>1. CASE Answer(r, "invalid")
    BY <1>2, <2>1, Refuses
  <2>2. CASE Answer(r, "ocspFailed")
    BY <1>2, <2>2, Refuses
  <2>3. ASSUME NEW issuer,
               Become(r, [f EXCEPT !.pc = "ocsp", !.url = responderOf(f.cert, issuer)])
        PROVE  SigningInv'
    <3>1. PICK q, url : /\ url = responderOf(f.cert, issuer)
                        /\ q = [f EXCEPT !.pc = "ocsp", !.url = url] /\ Become(r, q)
      BY <2>3
    <3>2. url \in URLs
      BY <1>3, <3>1 DEF URLs, responderOf
    <3>3. /\ q \in Flow /\ q.pc = "ocsp" /\ q.cert = f.cert /\ q.offered = f.offered
          /\ q.arrived = f.arrived /\ q.now = f.now /\ q.result = f.result /\ q.from = f.from
      <4>1. q \in Flow
        BY <1>2, <3>1, <3>2 DEF Flow
      <4> QED BY <3>1, <4>1 DEF Flow
    <3>4. f.pc = "issuer"
      BY <1>1, <1>6 DEF AskSigningResponder, At
    <3>5. Vouched(q)
      BY <1>1, <3>3, <3>4 DEF FlowOK, Vouched, Passed, Anchored
    <3> QED BY <1>4, <3>1, <3>3, <3>5
  <2> QED BY <1>1, <1>6, <2>1, <2>2, <2>3 DEF AskSigningResponder
<1> QED BY <1>5, <1>6

(***************************************************************************)
(* A response that CheckResponse calls good was made before any revocation *)
(* by no more than checkFreshness and the clock of the responder allow.    *)
(***************************************************************************)
LEMMA GoodResponseIsFresh ==
  ASSUME NEW revokedAt \in Nat, NEW t \in Nat, NEW p \in 1..t,
         NEW d \in -ResponderSkew..ResponderSkew, NEW url, NEW nonce, NEW resp,
         resp = [status |-> IF revokedAt # 0 /\ revokedAt <= p THEN "revoked" ELSE "good",
                 thisUpdate |-> p + d, nextUpdate |-> 0, nonce |-> nonce],
         CheckResponse(url, resp, t) = "good"
  PROVE  revokedAt # 0 =>
           t - revokedAt <= MaxResponseThisUpdateAge + AllowedResponseTimeSkew + ResponderSkew
<1>1. /\ ResponderSkew \in Nat /\ MaxResponseThisUpdateAge \in Nat
      /\ AllowedResponseTimeSkew \in Nat /\ p \in Nat /\ d \in Int /\ d <= ResponderSkew
  BY SigningAssumption, OcspAssumption
<1>2. resp.thisUpdate = p + d /\ (revokedAt # 0 /\ revokedAt <= p => resp.status = "revoked")
  OBVIOUS
<1>3. checkFreshness(resp, t) /\ resp.status = "good"
  BY DEF CheckResponse
<1>4. t - (p + d) <= MaxResponseThisUpdateAge + AllowedResponseTimeSkew
  BY <1>2, <1>3 DEF checkFreshness
<1>5. revokedAt # 0 => revokedAt > p
  BY <1>1, <1>2, <1>3
<1> QED BY <1>1, <1>4, <1>5

(***************************************************************************)
(* The response is read, or none comes.                                    *)
(***************************************************************************)
LEMMA ResponseKeeps ==
  ASSUME SigningInv, NEW r \in Signers, ReadSigningResponse(r) \/ SigningResponderFails(r)
  PROVE  SigningInv'
<1>1. PICK f \in Flow : f = sign[r] /\ FlowOK(f) /\ f.pc = "ocsp"
  BY DEF SigningInv, SigningTypeOK, ReadSigningResponse, SigningResponderFails, At
<1>2. /\ "negotiate" \in Steps /\ {"ocspFailed", "revoked"} \subseteq Results \ {"ok"}
      /\ clock \in Nat /\ revoked \in [SigningCerts -> Nat]
  BY DEF Steps, Results, SigningInv, SigningTypeOK
<1>3. f.result # "ok" /\ f.cert \in SigningCerts /\ f.offered \in Offers /\ f.arrived <= clock
  BY <1>1 DEF FlowOK, Received, Passed
<1>4. CASE SigningResponderFails(r)
  BY <1>2, <1>4, Refuses DEF SigningResponderFails
<1>5. CASE ReadSigningResponse(r)
  <2>1. PICK p \in 1..clock, d \in -ResponderSkew..ResponderSkew,
             nonce \in {"echo", "other", "absent"} :
          LET verdict == CheckResponse(f.url, SigningResponse(f, p, d, nonce), clock)
          IN IF verdict = "good"
             THEN Become(r, [f EXCEPT !.pc = "negotiate", !.ocspAt = clock])
             ELSE Answer(r, verdict)
    BY <1>1, <1>5 DEF ReadSigningResponse
  <2>2. PICK resp : resp = SigningResponse(f, p, d, nonce)
    OBVIOUS
  <2>3. CASE CheckResponse(f.url, resp, clock) # "good"
    <3>1. resp.status \in {"good", "revoked"}
      BY <2>2 DEF SigningResponse
    <3>2. CheckResponse(f.url, resp, clock) \in {"ocspFailed", "revoked"}
      BY <2>3, <3>1 DEF CheckResponse
    <3>3. Answer(r, CheckResponse(f.url, resp, clock))
      BY <2>1, <2>2, <2>3
    <3> QED BY <1>2, <3>2, <3>3, Refuses
  <2>4. CASE CheckResponse(f.url, resp, clock) = "good"
    <3>1. PICK q : q = [f EXCEPT !.pc = "negotiate", !.ocspAt = clock] /\ Become(r, q)
      BY <2>1, <2>2, <2>4
    <3>2. /\ q \in Flow /\ q.pc = "negotiate" /\ q.ocspAt = clock /\ q.cert = f.cert
          /\ q.offered = f.offered /\ q.arrived = f.arrived /\ q.now = f.now
          /\ q.result = f.result /\ q.from = f.from
      BY <1>2, <3>1 DEF Flow
    <3>3. revoked[f.cert] # 0 => clock - revoked[f.cert] <=
            MaxResponseThisUpdateAge + AllowedResponseTimeSkew + ResponderSkew
      BY <1>2, <1>3, <2>2, <2>4, GoodResponseIsFresh DEF SigningResponse
    <3>4. NotRevoked(q)
      BY <1>2, <3>2, <3>3 DEF NotRevoked
    <3>5. Received(q)
      BY <1>3, <3>2 DEF Received, Passed
    <3>6. Checked(q)
      BY <1>1, <3>2 DEF FlowOK, Checked, Passed
    <3>7. Vouched(q)
      BY <1>1, <3>2 DEF FlowOK, Vouched, Passed, Anchored
    <3>8. FlowOK(q)
      BY <1>3, <3>2, <3>4, <3>5, <3>6, <3>7, NotYetPrepared
    <3> QED BY <3>1, <3>2, <3>8, FlowStep
  <2> QED BY <2>3, <2>4
<1> QED BY <1>4, <1>5

(***************************************************************************)
(* The names of the supported functions are spelt in upper case.           *)
(***************************************************************************)
LEMMA SupportedIsUpper == \A h \in SupportedHashFunctions : ToUpper(h) = h
BY DEF SupportedHashFunctions, SHA2, ToUpper

(***************************************************************************)
(* What the negotiation returns: the function that the preference ranks    *)
(* first among those offered, and an algorithm of the card with it.        *)
(***************************************************************************)
LEMMA NegotiationFits ==
  ASSUME NEW offered \in Offers, SelectHashFunction(offered) # "none"
  PROVE  LET hash == SelectHashFunction(offered)
             algo == pickAlgorithmForHash(hash, offered)
         IN /\ hash \in SupportedHashFunctions /\ FirstChoice(hash, offered)
            /\ algo \in Algorithms /\ algo \in Range(offered) /\ ToUpper(algo.hash) = hash
<1>1. PICK hash : hash = SelectHashFunction(offered)
  OBVIOUS
<1>2. PICK i \in DOMAIN HashPreference :
        /\ hash = HashPreference[i] /\ offers(offered, hash)
        /\ \A k \in 1..i - 1 : ~offers(offered, HashPreference[k])
  BY <1>1, SelectsFirst
<1>3. /\ offered \in Seq(Algorithms) /\ Len(HashPreference) \in Nat
      /\ DOMAIN HashPreference = 1..Len(HashPreference)
      /\ \A k \in DOMAIN HashPreference : HashPreference[k] \in SupportedHashFunctions
  BY SigningAssumption
<1>4. hash \in SupportedHashFunctions /\ ToUpper(hash) = hash
  BY <1>2, <1>3, SupportedIsUpper
<1>5. FirstChoice(hash, offered)
  <2>1. ASSUME NEW k \in 1..i - 1, NEW a \in Range(offered) PROVE ToUpper(a.hash) # HashPreference[k]
    <3>1. k \in DOMAIN HashPreference
      BY <1>3
    <3>2. ToUpper(HashPreference[k]) = HashPreference[k]
      BY <1>3, <3>1, SupportedIsUpper
    <3> QED BY <1>2, <3>2 DEF offers
  <2> QED BY <1>2, <2>1 DEF FirstChoice
<1>6. PICK algo : algo = pickAlgorithmForHash(hash, offered)
  OBVIOUS
<1>7. algo \in Range(offered) /\ ToUpper(algo.hash) = hash
  BY <1>2, <1>3, <1>4, <1>6, PicksOffered
<1>8. algo \in Algorithms
  BY <1>3, <1>7 DEF Range
<1> QED BY <1>1, <1>4, <1>5, <1>6, <1>7, <1>8

(* The fields that PrepareSigning reads are the same in p and in q. *)
SameRequest(p, q) ==
  /\ q.cert = p.cert /\ q.offered = p.offered /\ q.arrived = p.arrived
  /\ q.from = p.from /\ q.now = p.now /\ q.ocspAt = p.ocspAt

(***************************************************************************)
(* A flow that is prepared carries on what it had before the negotiation.  *)
(***************************************************************************)
LEMMA CarriedOn ==
  ASSUME NEW p, NEW q, SameRequest(p, q), FlowOK(p), Passed(p, {"negotiate"}),
         q.result = "ok", q.pc \in {"reply", "prepared", "signed"}
  PROVE  Received(q) /\ Checked(q) /\ NotRevoked(q) /\ Vouched(q)
<1>1. Received(q)
  BY DEF SameRequest, FlowOK, Received, Passed
<1>2. Checked(q)
  BY DEF SameRequest, FlowOK, Checked, Passed
<1>3. NotRevoked(q)
  BY DEF SameRequest, FlowOK, NotRevoked, Passed
<1>4. Vouched(q)
  BY DEF SameRequest, FlowOK, Vouched, Anchored, Passed
<1> QED BY <1>1, <1>2, <1>3, <1>4

(***************************************************************************)
(* PrepareSigning ends with the negotiation.                               *)
(***************************************************************************)
LEMMA NegotiateKeeps ==
  ASSUME SigningInv, NEW r \in Signers, Negotiate(r)
  PROVE  SigningInv'
<1>1. PICK f \in Flow : f = sign[r] /\ FlowOK(f) /\ f.pc = "negotiate"
  BY DEF SigningInv, SigningTypeOK, Negotiate, At
<1>2. "reply" \in Steps /\ "ok" \in Results /\ "noSupportedHash" \in Results \ {"ok"}
  BY DEF Steps, Results
<1>3. f.result # "ok" /\ f.cert \in SigningCerts /\ f.offered \in Offers /\ f.arrived <= clock
  BY <1>1 DEF FlowOK, Received, Passed
<1>4. PICK hash, algo : /\ hash = SelectHashFunction(f.offered)
                        /\ algo = pickAlgorithmForHash(hash, f.offered)
  OBVIOUS
<1>5. CASE hash = "none"
  <2>1. Answer(r, "noSupportedHash")
    BY <1>1, <1>4, <1>5 DEF Negotiate
  <2> QED BY <1>2, <2>1, Refuses
<1>6. CASE hash # "none"
  <2>1. PICK q : /\ q = [f EXCEPT !.pc = "reply", !.result = "ok", !.hash = hash, !.algo = algo]
                 /\ Become(r, q)
    BY <1>1, <1>4, <1>6 DEF Negotiate
  <2>2. /\ hash \in SupportedHashFunctions /\ FirstChoice(hash, f.offered)
        /\ algo \in Algorithms /\ algo \in Range(f.offered) /\ ToUpper(algo.hash) = hash
    BY <1>3, <1>4, <1>6, NegotiationFits
  <2>3. q \in Flow
    <3>1. hash \in MaybeHash /\ algo \in MaybeAlgo
      BY <2>2, MaybeFilled, ZenonT(30)
    <3> QED BY <1>2, <2>1, <3>1 DEF Flow
  <2>4. /\ q.pc = "reply" /\ q.result = "ok" /\ q.hash = hash /\ q.algo = algo
        /\ q.offered = f.offered /\ SameRequest(f, q)
    BY <2>1 DEF Flow, SameRequest
  <2>5. Received(q) /\ Checked(q) /\ NotRevoked(q) /\ Vouched(q)
    BY <1>1, <2>4, CarriedOn DEF Passed
  <2>6. Negotiated(q) /\ CardSigned(q) /\ Finalized(q)
    BY <2>2, <2>4 DEF Negotiated, CardSigned, Finalized
  <2> QED BY <2>1, <2>3, <2>5, <2>6, FlowStep DEF FlowOK
<1> QED BY <1>5, <1>6

(***************************************************************************)
(* An answer is sent, or the card does not sign: the flow ends, or it goes *)
(* on to the card with what it has.                                        *)
(***************************************************************************)
LEMMA ReplyKeeps ==
  ASSUME SigningInv, NEW r \in Signers, SigningReply(r) \/ FinalReply(r) \/ CardRefuses(r)
  PROVE  SigningInv'
<1>1. CASE Become(r, IdleFlow)
  BY <1>1, IdleIsOK, FlowStep
<1>2. ASSUME SigningReply(r), sign[r].result = "ok" PROVE SigningInv'
  <2>1. PICK f \in Flow : f = sign[r] /\ FlowOK(f) /\ f.pc = "reply" /\ f.result = "ok"
    BY <1>2 DEF SigningInv, SigningTypeOK, SigningReply, At
  <2>2. PICK q : q = [f EXCEPT !.pc = "prepared"] /\ Become(r, q)
    BY <1>2, <2>1 DEF SigningReply
  <2>3. "prepared" \in Steps
    BY DEF Steps
  <2>4. q \in Flow
    BY <2>1, <2>2, <2>3 DEF Flow
  <2>5. /\ q.pc = "prepared" /\ q.result = "ok" /\ q.hash = f.hash /\ q.algo = f.algo
        /\ q.offered = f.offered /\ SameRequest(f, q)
    BY <2>1, <2>2 DEF Flow, SameRequest
  <2>6. Received(q) /\ Checked(q) /\ NotRevoked(q) /\ Vouched(q)
    BY <2>1, <2>5, CarriedOn DEF Passed
  <2>7. Negotiated(q) /\ CardSigned(q) /\ Finalized(q)
    BY <2>1, <2>5 DEF FlowOK, Negotiated, CardSigned, Finalized
  <2> QED BY <2>2, <2>4, <2>6, <2>7, FlowStep DEF FlowOK
<1> QED BY <1>1, <1>2 DEF SigningReply, FinalReply, CardRefuses

(***************************************************************************)
(* The card signs with an algorithm that it offered for its key and the    *)
(* negotiated function.                                                    *)
(***************************************************************************)
LEMMA CardKeeps ==
  ASSUME SigningInv, NEW r \in Signers, NEW doc \in Documents, CardSigns(r, doc)
  PROVE  SigningInv'
<1>1. PICK f \in Flow : f = sign[r] /\ FlowOK(f) /\ f.pc = "prepared"
  BY DEF SigningInv, SigningTypeOK, CardSigns, At
<1>2. "signed" \in Steps
  BY DEF Steps
<1>3. /\ f.result = "ok" /\ f.cert \in SigningCerts /\ f.offered \in Offers
      /\ FirstChoice(f.hash, f.offered)
  BY <1>1 DEF FlowOK, Received, Negotiated, Passed
<1>4. f.hash \in Range(HashPreference) /\ f.hash \in SupportedHashFunctions
  <2>1. PICK i \in DOMAIN HashPreference : f.hash = HashPreference[i]
    BY <1>3 DEF FirstChoice
  <2> QED BY <2>1, SigningAssumption DEF Range
<1>5. ToUpper(f.hash) = f.hash
  BY <1>4, SupportedIsUpper
<1>6. PICK a \in Range(f.offered) :
        /\ a.crypto = f.cert.keyType /\ ToUpper(a.hash) = ToUpper(f.hash)
        /\ Become(r, [f EXCEPT !.pc = "signed", !.signature =
             [by |-> f.cert, algo |-> a, digest |-> [doc |-> doc, hash |-> ToUpper(f.hash)]]])
  BY <1>1 DEF CardSigns
<1>7. a \in Algorithms
  BY <1>3, <1>6, SigningAssumption DEF Range
<1>8. PICK sig : sig = [by |-> f.cert, algo |-> a, digest |-> [doc |-> doc, hash |-> f.hash]]
  OBVIOUS
<1>9. sig \in Signatures /\ sig.algo = a /\ sig.by = f.cert
  BY <1>3, <1>4, <1>7, <1>8 DEF Signatures, Digests
<1>10. PICK q : q = [f EXCEPT !.pc = "signed", !.signature = sig] /\ Become(r, q)
  BY <1>5, <1>6, <1>8
<1>11. q \in Flow
  <2>1. sig \in MaybeSignature
    BY <1>9, MaybeFilled, ZenonT(30)
  <2> QED BY <1>2, <1>10, <2>1 DEF Flow
<1>12. Fits(sig.algo, sig.by)
  BY <1>3, <1>4, <1>5, <1>6, <1>9 DEF Fits
<1>13. /\ q.pc = "signed" /\ q.result = f.result /\ q.hash = f.hash /\ q.algo = f.algo
       /\ q.offered = f.offered /\ q.signature = sig /\ SameRequest(f, q)
  BY <1>10 DEF Flow, SameRequest
<1>14. Received(q) /\ Checked(q) /\ NotRevoked(q) /\ Vouched(q)
  BY <1>1, <1>3, <1>13, CarriedOn DEF Passed
<1>15. Negotiated(q)
  BY <1>1, <1>13 DEF FlowOK, Negotiated
<1>16. CardSigned(q) /\ Finalized(q)
  BY <1>9, <1>12, <1>13 DEF CardSigned, Finalized
<1> QED BY <1>10, <1>11, <1>14, <1>15, <1>16, FlowStep DEF FlowOK

(***************************************************************************)
(* finalize answers what FinalizeAnswer says, of whatever body is sent.    *)
(***************************************************************************)
LEMMA FinalizeKeeps ==
  ASSUME SigningInv, NEW r \in Signers, NEW auth \in AuthSerials,
         NEW algo \in Range(sign[r].offered), NEW doc \in Documents \cup {None},
         NEW cert \in SigningCerts \cup {None}, NEW empty \in BOOLEAN,
         Finalize(r, auth, algo, doc, cert, empty)
  PROVE  SigningInv'
<1>1. PICK f \in Flow : f = sign[r] /\ FlowOK(f) /\ f.pc = "signed"
  BY DEF SigningInv, SigningTypeOK, Finalize, At
<1>2. "finalized" \in Steps /\ IdleFlow \in Flow /\ IdleFlow.result = "none"
  BY IdleIsOK DEF Steps, IdleFlow
<1>3. f.result = "ok" /\ f.offered \in Offers
  BY <1>1 DEF FlowOK, Received, Passed
<1>4. algo \in Algorithms
  BY <1>1, <1>3, SigningAssumption DEF Range
<1>5. PICK sig \in Signatures : sig = f.signature /\ Fits(sig.algo, sig.by)
  BY <1>1 DEF FlowOK, CardSigned
<1>6. PICK given, digest :
        /\ given = IF empty THEN None ELSE sig
        /\ digest = IF doc = None THEN None ELSE [sig.digest EXCEPT !.doc = doc]
  OBVIOUS
<1>7. given \in Signatures \cup {None} /\ (given # None => given = sig)
  BY <1>6
<1>8. digest \in Digests \cup {None}
  <2>1. sig.digest \in Digests
    BY DEF Signatures
  <2> QED BY <1>6, <2>1 DEF Digests
<1>9. PICK body : body = [signature |-> given, algo |-> algo, auth |-> auth,
                          digest |-> digest, signingCert |-> cert]
  OBVIOUS
<1>10. body \in Bodies /\ body.signature = given
  BY <1>4, <1>7, <1>8, <1>9 DEF Bodies
<1>11. PICK q : /\ q = [IdleFlow EXCEPT !.pc = "finalized", !.body = body,
                                        !.answer = FinalizeAnswer(body)]
                /\ Become(r, q)
  BY <1>1, <1>5, <1>6, <1>9 DEF Finalize
<1>12. FinalizeAnswer(body) \in Answers
  BY <1>10 DEF Answers
<1>13. /\ q \in Flow /\ q.pc = "finalized" /\ q.result = "none" /\ q.body = body
       /\ q.answer = FinalizeAnswer(body)
  <2>1. PICK answer : answer = FinalizeAnswer(body)
    OBVIOUS
  <2>2. body \in MaybeBody /\ answer \in MaybeAnswer
    BY <1>10, <1>12, <2>1, MaybeFilled, ZenonT(30)
  <2>3. q = [IdleFlow EXCEPT !.pc = "finalized", !.body = body, !.answer = answer]
    BY <1>11, <2>1
  <2>4. q \in Flow /\ q.pc = "finalized" /\ q.result = "none" /\ q.body = body /\ q.answer = answer
    BY <1>2, <2>2, <2>3 DEF Flow
  <2> QED BY <2>1, <2>4
<1>14. Finalized(q)
  BY <1>5, <1>7, <1>10, <1>13 DEF Finalized
<1>15. Received(q) /\ Checked(q) /\ NotRevoked(q) /\ Vouched(q)
  BY <1>13 DEF Received, Checked, NotRevoked, Vouched, Passed
<1>16. Negotiated(q) /\ CardSigned(q)
  BY <1>13 DEF Negotiated, CardSigned
<1> QED BY <1>11, <1>13, <1>14, <1>15, <1>16, FlowStep DEF FlowOK

(***************************************************************************)
(* What a flow does leaves the trust store alone: a step of the signing    *)
(* endpoints is a step of the trust store or none.                         *)
(***************************************************************************)
LEMMA SigningIsTrustStep == [SigningNext]_signingVars => [TrustNext]_trustVars
<1> SUFFICES ASSUME [SigningNext]_signingVars, ~UNCHANGED trustVars PROVE TrustNext
  OBVIOUS
<1>1. ASSUME NEW r \in Signers, NEW q, Become(r, q) PROVE FALSE
  BY <1>1 DEF Become
<1>2. ASSUME NEW r \in Signers, SigningStep(r) PROVE FALSE
  BY <1>1, <1>2 DEF SigningStep, CheckSigningCertificate, VerifySigningTrust,
     AskSigningResponder, SigningResponderFails, Negotiate, SigningReply, FinalReply, Answer
<1>3. ASSUME NEW r \in Signers,
             \/ \E cert \in SigningCerts, offered \in Offers : SendCertificate(r, cert, offered)
             \/ SendMalformed(r) \/ ReadSigningResponse(r) \/ CardRefuses(r)
             \/ \E doc \in Documents : CardSigns(r, doc)
      PROVE  FALSE
  BY <1>1, <1>3 DEF SendCertificate, SendMalformed, ReadSigningResponse, CardRefuses,
     CardSigns, Answer
<1>4. ASSUME NEW r \in Signers, NEW auth, NEW algo, NEW doc, NEW cert, NEW empty,
             Finalize(r, auth, algo, doc, cert, empty)
      PROVE  FALSE
  BY <1>1, <1>4 DEF Finalize
<1>5. ASSUME \E cert \in Revocable : RevokeSigning(cert) PROVE FALSE
  BY <1>5 DEF RevokeSigning
<1>6. ASSUME TickSigning PROVE FALSE
  BY <1>6 DEF TickSigning
<1>7. SigningTrustStep \/ RestartSigning
  BY <1>2, <1>3, <1>4, <1>5, <1>6, Zenon DEF SigningNext, signingVars
<1> QED BY <1>7 DEF SigningTrustStep, RestartSigning, TrustNext

(***************************************************************************)
(* A revocation, the clock, the trust store and a restart.                 *)
(***************************************************************************)
LEMMA SurroundingsKeep ==
  ASSUME SigningInv,
         \/ \E cert \in Revocable : RevokeSigning(cert)
         \/ TickSigning \/ SigningTrustStep \/ RestartSigning \/ UNCHANGED signingVars
  PROVE  SigningInv'
<1>0. [TrustNext]_trustVars
  BY Zenon DEF RevokeSigning, TickSigning, SigningTrustStep, RestartSigning, TrustNext, signingVars
<1>1. /\ SigningTypeOK /\ TrustInv /\ TrustInv'
      /\ \A r \in Signers : sign[r] \in Flow /\ FlowOK(sign[r])
  BY <1>0, TrustInvNext DEF SigningInv, SigningTypeOK
<1>2. /\ ResponderSkew \in Nat /\ MaxResponseThisUpdateAge \in Nat
      /\ AllowedResponseTimeSkew \in Nat
  BY SigningAssumption, OcspAssumption
<1>3. ASSUME NEW cert \in Revocable, RevokeSigning(cert) PROVE SigningInv'
  <2>1. /\ revoked' = [revoked EXCEPT ![cert] = clock] /\ UNCHANGED <<clock, sign, trustVars>>
        /\ clock \in Nat /\ revoked \in [SigningCerts -> Nat]
    BY <1>1, <1>3 DEF RevokeSigning, SigningTypeOK
  <2>2. SigningTypeOK'
    BY <1>1, <2>1 DEF SigningTypeOK
  <2>3. ASSUME NEW r \in Signers PROVE FlowOK(sign[r])'
    <3>1. PICK f \in Flow : f = sign'[r] /\ FlowOK(f)
      BY <1>1, <2>1
    <3>2. f.ocspAt \in Nat /\ (Passed(f, {"negotiate"}) => f.cert \in SigningCerts)
      BY <3>1 DEF Flow, FlowOK, Received, Passed
    <3>3. NotRevoked(f)'
      <4> SUFFICES ASSUME OCSPEnabled, Passed(f, {"negotiate"})
                   PROVE  /\ f.ocspAt <= clock
                          /\ revoked'[f.cert] # 0 => f.ocspAt - revoked'[f.cert] <=
                               MaxResponseThisUpdateAge + AllowedResponseTimeSkew + ResponderSkew
        BY <2>1, <3>1 DEF NotRevoked, Passed
      <4>1. f.ocspAt <= clock /\ (revoked[f.cert] # 0 => f.ocspAt - revoked[f.cert] <=
              MaxResponseThisUpdateAge + AllowedResponseTimeSkew + ResponderSkew)
        BY <3>1 DEF FlowOK, NotRevoked
      <4>2. CASE f.cert = cert
        BY <1>2, <2>1, <3>2, <4>1, <4>2
      <4>3. CASE f.cert # cert
        BY <2>1, <3>2, <4>1, <4>3
      <4> QED BY <4>2, <4>3
    <3>4. Vouched(f)'
      BY <2>1, <3>1 DEF FlowOK, Vouched, Anchored, trustVars
    <3>5. (Received(f) /\ Checked(f) /\ Negotiated(f) /\ CardSigned(f) /\ Finalized(f))'
      BY <2>1, <3>1, ChecksKept
    <3> QED BY <3>1, <3>3, <3>4, <3>5 DEF FlowOK
  <2> QED BY <1>1, <2>2, <2>3 DEF SigningInv
<1>4. CASE TickSigning
  <2>1. clock' = clock + 1 /\ UNCHANGED <<revoked, sign, trustVars>> /\ clock \in Nat
    BY <1>1, <1>4 DEF TickSigning, SigningTypeOK
  <2>2. SigningTypeOK'
    BY <1>1, <2>1 DEF SigningTypeOK
  <2>3. ASSUME NEW r \in Signers PROVE FlowOK(sign[r])'
    <3>1. PICK f \in Flow : f = sign[r] /\ f = sign'[r] /\ FlowOK(f)
      BY <1>1, <2>1
    <3>2. f.ocspAt \in Nat /\ f.now \in Nat /\ f.arrived \in Nat
      BY DEF Flow
    <3>3. /\ f.arrived <= clock => f.arrived <= clock'
          /\ f.now <= clock => f.now <= clock'
          /\ f.ocspAt <= clock => f.ocspAt <= clock'
      BY <2>1, <3>2
    <3>4. Received(f)'
      BY <3>1, <3>3, ZenonT(30) DEF FlowOK, Received, Passed
    <3>5. Checked(f)'
      BY <3>1, <3>3, ZenonT(30) DEF FlowOK, Checked, Passed
    <3>6. NotRevoked(f)'
      BY <2>1, <3>1, <3>3, ZenonT(30) DEF FlowOK, NotRevoked, Passed
    <3>7. Vouched(f)'
      BY <2>1, <3>1 DEF FlowOK, Vouched, Anchored, trustVars
    <3>8. Negotiated(f)' /\ CardSigned(f)' /\ Finalized(f)'
      BY <3>1 DEF FlowOK, Negotiated, CardSigned, Finalized
    <3> QED BY <3>1, <3>4, <3>5, <3>6, <3>7, <3>8 DEF FlowOK
  <2> QED BY <1>1, <2>2, <2>3 DEF SigningInv
<1>5. CASE UNCHANGED signingVars
  <2>1. UNCHANGED <<clock, revoked, sign, snapFrom, delivered>>
    BY <1>5 DEF signingVars, trustVars
  <2>2. SigningTypeOK'
    BY <1>1, <2>1 DEF SigningTypeOK
  <2>3. ASSUME NEW r \in Signers PROVE FlowOK(sign[r])'
    <3>1. PICK f : f = sign'[r] /\ FlowOK(f)
      BY <1>1, <2>1
    <3>2. FlowOK(f)'
      BY <2>1, <3>1, FlowKept
    <3> QED BY <3>1, <3>2
  <2> QED BY <1>1, <2>2, <2>3 DEF SigningInv
<1>6. CASE SigningTrustStep
  <2>1. UNCHANGED <<clock, revoked, sign>>
    BY <1>6 DEF SigningTrustStep
  <2>2. SigningTypeOK'
    BY <1>1, <2>1 DEF SigningTypeOK
  <2>3. \A n \in 1..Len(delivered) : n \in 1..Len(delivered') /\ delivered'[n] = delivered[n]
    BY <1>0, <1>1, TrustStepGrows
  <2>4. OneReloader => snapFrom \in Nat /\ snapFrom' \in Nat /\ snapFrom <= snapFrom'
    BY <1>1, <1>6, ReloadsMoveForward, SnapshotDelivered DEF SigningTrustStep
  <2>5. ASSUME NEW r \in Signers PROVE FlowOK(sign[r])'
    <3>1. PICK f \in Flow : f = sign'[r] /\ FlowOK(f)
      BY <1>1, <2>1
    <3>2. (Received(f) /\ Checked(f) /\ Negotiated(f) /\ CardSigned(f) /\ Finalized(f))'
      BY <2>1, <3>1, ChecksKept
    <3>3. NotRevoked(f)'
      BY <2>1, <3>1 DEF FlowOK, NotRevoked
    <3>4. OneReloader /\ f.from <= snapFrom => f.from <= snapFrom'
      <4>1. f.from \in Nat
        BY DEF Flow
      <4> QED BY <2>4, <4>1
    <3>5. Anchored(f) => Anchored(f)'
      BY <2>3, AnchorKept
    <3>6. Vouched(f)'
      BY <3>1, <3>4, <3>5, ZenonT(30) DEF FlowOK, Vouched, Passed
    <3> QED BY <3>1, <3>2, <3>3, <3>6 DEF FlowOK
  <2> QED BY <1>1, <2>2, <2>5 DEF SigningInv
<1>7. CASE RestartSigning
  <2>1. /\ UNCHANGED <<clock, revoked, delivered>> /\ sign' \in [Signers -> Flow]
        /\ \A r \in Signers : \/ sign'[r] = sign[r] /\ sign[r].pc \in {"prepared", "signed"}
                              \/ sign'[r] = IdleFlow
    BY <1>1, <1>7, IdleIsOK DEF RestartSigning, RestartTrust
  <2>2. SigningTypeOK'
    BY <1>1, <2>1 DEF SigningTypeOK
  <2>3. ASSUME NEW r \in Signers PROVE FlowOK(sign[r])'
    <3>1. PICK f : f = sign'[r] /\ FlowOK(f) /\ f.pc \in {"idle", "prepared", "signed"}
      <4>1. \/ sign'[r] = sign[r] /\ sign[r].pc \in {"prepared", "signed"}
            \/ sign'[r] = IdleFlow
        BY <2>1, ZenonT(30)
      <4>2. FlowOK(sign[r])
        BY <1>1, ZenonT(30)
      <4>3. IdleFlow.pc = "idle"
        BY DEF IdleFlow
      <4> QED BY <4>1, <4>2, <4>3, IdleIsOK, ZenonT(30)
    <3>2. (Received(f) /\ Checked(f) /\ Negotiated(f) /\ CardSigned(f) /\ Finalized(f))'
      BY <2>1, <3>1, ChecksKept
    <3>3. NotRevoked(f)'
      BY <2>1, <3>1 DEF FlowOK, NotRevoked
    <3>4. Vouched(f)'
      BY <2>1, <3>1 DEF FlowOK, Vouched, Anchored
    <3> QED BY <3>1, <3>2, <3>3, <3>4 DEF FlowOK
  <2> QED BY <1>1, <2>2, <2>3 DEF SigningInv
<1> QED BY <1>3, <1>4, <1>5, <1>6, <1>7

(***************************************************************************)
(* Every step of the signing endpoints keeps the invariant.                *)
(***************************************************************************)
LEMMA SigningStepInv == SigningInv /\ [SigningNext]_signingVars => SigningInv'
<1> SUFFICES ASSUME SigningInv, [SigningNext]_signingVars PROVE SigningInv'
  OBVIOUS
<1>1. ASSUME NEW r \in Signers, SigningStep(r) PROVE SigningInv'
  BY <1>1, CheckKeeps, TrustStepsKeep, ResponseKeeps, NegotiateKeeps, ReplyKeeps
     DEF SigningStep
<1>2. ASSUME NEW r \in Signers,
             \/ \E cert \in SigningCerts, offered \in Offers : SendCertificate(r, cert, offered)
             \/ SendMalformed(r) \/ ReadSigningResponse(r) \/ CardRefuses(r)
             \/ \E doc \in Documents : CardSigns(r, doc)
      PROVE  SigningInv'
  BY <1>2, SendKeeps, ResponseKeeps, ReplyKeeps, CardKeeps
<1>3. ASSUME NEW r \in Signers, NEW auth \in AuthSerials, NEW algo \in Range(sign[r].offered),
             NEW doc \in Documents \cup {None}, NEW cert \in SigningCerts \cup {None},
             NEW empty \in BOOLEAN, Finalize(r, auth, algo, doc, cert, empty)
      PROVE  SigningInv'
  BY <1>3, FinalizeKeeps
<1>4. ASSUME \/ \E cert \in Revocable : RevokeSigning(cert)
             \/ TickSigning \/ SigningTrustStep \/ RestartSigning \/ UNCHANGED signingVars
      PROVE  SigningInv'
  BY <1>4, SurroundingsKeep
<1> QED BY <1>1, <1>2, <1>3, <1>4, Zenon DEF SigningNext

(***************************************************************************)
(* The invariant holds throughout.                                         *)
(***************************************************************************)
LEMMA SigningInvariant == SigningSpec => []SigningInv
BY SigningInitInv, SigningStepInv, PTL DEF SigningSpec

(***************************************************************************)
(* Everything that PrepareSigning returns fits together: the certificate   *)
(* passed its checks at a time while it was served, and the algorithm is   *)
(* one the card offers, with the function the preference ranks first.      *)
(***************************************************************************)
THEOREM PreparationSound == SigningSpec => []PreparedIsSound
<1>1. SigningInv => PreparedIsSound
  <2> SUFFICES ASSUME SigningInv, NEW r \in Signers, Prepared(r)
               PROVE  LET q == sign[r] IN
                      /\ q.cert.contentCommitment
                      /\ \E t \in q.arrived..clock : q.cert.notBefore <= t /\ t <= q.cert.notAfter
                      /\ AcceptedPolicies # {} => q.cert.policies \cap AcceptedPolicies # {}
                      /\ q.algo \in Range(q.offered) /\ ToUpper(q.algo.hash) = q.hash
                      /\ FirstChoice(q.hash, q.offered)
    BY DEF PreparedIsSound, FirstChoice
  <2>1. PICK f \in Flow : f = sign[r] /\ FlowOK(f) /\ f.result = "ok"
    BY DEF SigningInv, SigningTypeOK, Prepared
  <2>2. f.arrived \in Nat /\ f.now \in Nat /\ clock \in Nat
    BY DEF Flow, SigningInv, SigningTypeOK
  <2>3. SigningChecks(f.cert, f.now) /\ f.arrived <= f.now /\ f.now <= clock
    BY <2>1 DEF FlowOK, Checked, Passed
  <2>4. f.now \in f.arrived..clock /\ f.cert.notBefore <= f.now /\ f.now <= f.cert.notAfter
    BY <2>2, <2>3 DEF SigningChecks, CheckValidity
  <2>5. /\ f.cert.contentCommitment
        /\ AcceptedPolicies # {} => f.cert.policies \cap AcceptedPolicies # {}
    BY <2>3 DEF SigningChecks, CheckKeyUsageForSigning, CheckAcceptedPolicies
  <2>6. f.algo \in Range(f.offered) /\ ToUpper(f.algo.hash) = f.hash /\ FirstChoice(f.hash, f.offered)
    BY <2>1 DEF FlowOK, Negotiated
  <2> QED BY <2>1, <2>4, <2>5, <2>6
<1> QED BY <1>1, SigningInvariant, PTL

(***************************************************************************)
(* Whatever responses are read and however late, a certificate that was    *)
(* revoked longer ago than checkFreshness and the clock of the responder   *)
(* allow is not prepared.                                                  *)
(***************************************************************************)
THEOREM SigningLagBounded == SigningSpec => []SigningRevocationLag
<1>1. SigningInv => SigningRevocationLag
  BY DEF SigningInv, SigningRevocationLag, FlowOK, NotRevoked, Prepared, Passed
<1> QED BY <1>1, SigningInvariant, PTL

(***************************************************************************)
(* The answer of finalize says no more than the body shows, for every body *)
(* a caller can send.                                                      *)
(***************************************************************************)
THEOREM FinalizeSound == SigningSpec => []FinalizeIsSound
<1>1. ASSUME NEW body, NEW answer, answer = FinalizeAnswer(body)
      PROVE  /\ answer.verified =>
                  /\ body.digest # None /\ body.signingCert # None
                  /\ body.signature.by = body.signingCert
                  /\ body.signature.digest = body.digest
                  /\ \/ answer.bound
                     \/ \E s \in {body.auth, body.signingCert.serial} : s.semantics # "PNO"
             /\ answer.bound => answer.verified /\ body.auth = body.signingCert.serial
             /\ answer.status = "ok" /\ ~answer.verified =>
                  body.digest = None /\ body.signingCert = None
  <2>1. CASE answer.status # "ok" /\ ~answer.verified /\ ~answer.bound
    BY <2>1
  <2>2. CASE body.signature # None /\ body.digest = None /\ body.signingCert = None
    <3>1. ~answer.verified /\ ~answer.bound
      BY <1>1, <2>2 DEF FinalizeAnswer
    <3> QED BY <2>2, <3>1
  <2>3. CASE /\ body.signature # None /\ body.digest # None /\ body.signingCert # None
             /\ VerifySignatureValue(body.signingCert, body.algo, body.digest, body.signature)
             /\ ~personMismatch(body.auth, body.signingCert.serial)
    <3>1. answer.verified /\ answer.bound = personChecked(body.auth, body.signingCert.serial)
      BY <1>1, <2>3 DEF FinalizeAnswer
    <3>2. answer.bound => body.auth = body.signingCert.serial
      BY <2>3, <3>1 DEF personMismatch
    <3>3. ~answer.bound =>
            \E s \in {body.auth, body.signingCert.serial} : s.semantics # "PNO"
      BY <3>1 DEF personChecked, isNaturalPerson
    <3> QED BY <2>3, <3>1, <3>2, <3>3 DEF VerifySignatureValue
  <2> QED BY <1>1, <2>1, <2>2, <2>3 DEF FinalizeAnswer
<1>2. SigningInv => FinalizeIsSound
  BY <1>1 DEF SigningInv, FlowOK, Finalized, FinalizeIsSound, At
<1> QED BY <1>2, SigningInvariant, PTL

(***************************************************************************)
(* A signature that the card made at the end of a negotiation is accepted  *)
(* by VerifySignatureValue, if the preference names functions of the SHA-2 *)
(* family only and cards offer algorithms for EC and RSA keys.             *)
(***************************************************************************)
THEOREM NegotiatedVerifies ==
  ASSUME Range(HashPreference) \subseteq SHA2,
         \A offered \in Offers : \A a \in Range(offered) : a.crypto \in {"ECC", "RSA"}
  PROVE  SigningSpec => []NegotiatedSignatureVerifies
<1>1. ASSUME NEW body, body \in Bodies, Honest(body), Fits(body.signature.algo, body.signature.by)
      PROVE  FinalizeAnswer(body).status # "signatureInvalid"
  <2>1. /\ body.signature # None /\ body.algo = body.signature.algo
        /\ body.digest = body.signature.digest /\ body.signingCert = body.signature.by
    BY <1>1 DEF Honest
  <2>2. /\ body.signingCert.keyType \in {"ECC", "RSA"}
        /\ ToUpper(body.algo.hash) \in SHA2
    BY <1>1, <2>1 DEF Fits
  <2>3. VerifySignatureValue(body.signingCert, body.algo, body.digest, body.signature)
    BY <2>1, <2>2 DEF VerifySignatureValue
  <2> QED BY <2>1, <2>3 DEF FinalizeAnswer
<1>2. SigningInv => NegotiatedSignatureVerifies
  BY <1>1 DEF SigningInv, FlowOK, Finalized, NegotiatedSignatureVerifies, At, Honest
<1> QED BY <1>2, SigningInvariant, PTL

(***************************************************************************)
(* When calls of ReloadTrust do not overlap, a CA that was gone from the   *)
(* trusted set at the arrival of a request does not vouch for its          *)
(* certificate, nor does one outside its validity period at the time of    *)
(* the checks, whatever reloads run between the two loads of the snapshot. *)
(***************************************************************************)
THEOREM SigningAnchorCurrent ==
  ASSUME OneReloader
  PROVE  SigningSpec => []SigningAnchorNotRemoved
<1>1. SigningInv => SigningAnchorNotRemoved
  BY DEF SigningInv, FlowOK, Vouched, Anchored, Passed, Prepared, SigningAnchorNotRemoved
<1> QED BY <1>1, SigningInvariant, PTL

(***************************************************************************)
(* Beside the signing endpoints, too, the trust store takes only its own   *)
(* steps, so what TrustProofs shows of it holds while they serve.          *)
(***************************************************************************)
THEOREM TrustInSigning == SigningSpec => TrustSpec
<1>1. SigningInit => TrustInit
  BY DEF SigningInit
<1> QED BY <1>1, SigningIsTrustStep, PTL DEF SigningSpec, TrustSpec

(***************************************************************************)
(* While signing requests are served, the set in force is one delivery as  *)
(* a whole, and no reload empties it.                                      *)
(***************************************************************************)
THEOREM SignedFromOneDelivery == SigningSpec => []SnapshotIsOneDelivery /\ NeverEmptied
BY TrustInSigning, SnapshotWhole, AnchorsNeverLost, PTL

(***************************************************************************)
(* While signing requests are served and reloads do not overlap, the set   *)
(* in force only gets newer, and it has the size that ReloadTrust last     *)
(* returned.                                                               *)
(***************************************************************************)
THEOREM SignedFromTheLatest ==
  ASSUME OneReloader
  PROVE  SigningSpec => TrustNeverGoesBack /\ []ReportedCountIsTrusted
BY TrustInSigning, TrustMovesForward, CountIsTrusted, PTL
============================================================================
