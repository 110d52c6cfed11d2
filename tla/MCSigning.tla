----------------------------- MODULE MCSigning -----------------------------
(***************************************************************************)
(* The signing endpoints in three scenes.  The initial state picks the     *)
(* scene, which bounds the cards, the clock and the changes of the path.   *)
(***************************************************************************)
EXTENDS Signing

Key(k) == [key |-> k, notBefore |-> 0, notAfter |-> 99]
MCCAs == {Key("k1"), Key("k2")}
ChangingTrust ==
  {[certs |-> cas, garbage |-> FALSE] : cas \in {{Key("k1")}, {Key("k2")}, MCCAs}}

PNO(n) == [semantics |-> "PNO", id |-> n]
NTR(n) == [semantics |-> "NTR", id |-> n]
Serials == {PNO(1), PNO(2), NTR(1)}

Card ==
  [issuer |-> "k1", notBefore |-> 0, notAfter |-> 99, contentCommitment |-> TRUE,
   policies |-> {"qscd"}, serial |-> PNO(1), keyType |-> "ECC", ocspURL |-> "aia"]

(* A card of either kind of key, a seal, and certificates that each fail   *)
(* one of the checks.                                                      *)
SigningCards ==
  {Card,
   [Card EXCEPT !.keyType = "RSA"],
   [Card EXCEPT !.serial = NTR(1)],
   [Card EXCEPT !.contentCommitment = FALSE],
   [Card EXCEPT !.policies = {"other"}],
   [Card EXCEPT !.policies = {"qscd", "unparsable"}],
   [Card EXCEPT !.notAfter = 0],
   [Card EXCEPT !.issuer = "k2"],
   [Card EXCEPT !.ocspURL = "none"],
   [Card EXCEPT !.keyType = "other"]}

alg(crypto, hash, padding) == [crypto |-> crypto, hash |-> hash, padding |-> padding]

MCOffers ==
  {<<alg("ECC", "SHA-384", "NONE"), alg("ECC", "sha-256", "NONE")>>,
   <<alg("RSA", "sha-256", "PKCS1.5"), alg("RSA", "SHA-256", "PSS"),
     alg("RSA", "SHA3-256", "PSS")>>,
   <<alg("ECC", "SHA-224", "NONE")>>}

(* The default preference, without its last entry. *)
SHA2Preference == <<"SHA-256", "SHA-384">>

(* Cards of two CAs, one of which expires while it is served. *)
TwoCards == {[Card EXCEPT !.notAfter = 2], [Card EXCEPT !.issuer = "k2"]}
OneCard == {Card}
OneOffer == {<<alg("ECC", "SHA-256", "NONE")>>}

AllCards == SigningCards \cup TwoCards
AllOffers == MCOffers \cup OneOffer

(* Every card and every offer, up to the answer of finalize. *)
Flows ==
  [cards |-> SigningCards, offers |-> MCOffers, documents |-> Documents, lastTime |-> 2,
   deliveries |-> 1, revocations |-> FALSE]

(* A card that expires, beside a change of the path. *)
Reloads ==
  [cards |-> TwoCards, offers |-> OneOffer, documents |-> {}, lastTime |-> 3,
   deliveries |-> 3, revocations |-> FALSE]

(* A card that its CA revokes. *)
Revocations ==
  [cards |-> OneCard, offers |-> OneOffer, documents |-> {}, lastTime |-> 6,
   deliveries |-> 1, revocations |-> TRUE]

Scenes == [flows |-> Flows, reloads |-> Reloads, revocations |-> Revocations]

VARIABLE scene

bounds == Scenes[scene]

ScenesInit ==
  /\ scene \in DOMAIN Scenes
  /\ SigningInit
  /\ bounds.deliveries = 1 => snap = {Key("k1")}

(* SigningNext, for the cards, offers and documents of the scene. *)
SceneStep ==
  \/ \E r \in Signers :
       \/ \E cert \in bounds.cards, offered \in bounds.offers :
            SendCertificate(r, cert, offered)
       \/ SendMalformed(r)
       \/ SigningStep(r)
       \/ ReadSigningResponse(r)
       \/ CardRefuses(r)
       \/ \E doc \in bounds.documents : CardSigns(r, doc)
       \/ \E auth \in AuthSerials, algo \in Range(sign[r].offered),
             doc \in bounds.documents \cup {None}, cert \in bounds.cards \cup {None},
             empty \in BOOLEAN :
            Finalize(r, auth, algo, doc, cert, empty)
  \/ bounds.revocations /\ \E cert \in Revocable : RevokeSigning(cert)
  \/ TickSigning
  \/ bounds.deliveries > 1 /\ SigningTrustStep
  \/ RestartSigning

ScenesNext ==
  /\ SceneStep
  /\ clock' <= bounds.lastTime
  /\ Len(delivered') <= bounds.deliveries
  /\ UNCHANGED scene

ScenesSpec ==
  /\ ScenesInit
  /\ [][ScenesNext]_<<signingVars, scene>>
  /\ \A r \in Signers : WF_signingVars(SigningStep(r))
============================================================================
