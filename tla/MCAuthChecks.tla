--------------------------- MODULE MCAuthChecks ---------------------------
(***************************************************************************)
(* The checks of the validator in three scenes.  The initial state picks   *)
(* the scene, which bounds what may happen in it: which cards and kinds of *)
(* requests are used, how far the clock runs, how often the path changes.  *)
(***************************************************************************)
EXTENDS MCWebEidAuth

LiveCard == [Card EXCEPT !.ocspURL = "live"]

(* A card whose responder answers from a cache and one whose responder     *)
(* echoes the nonce.                                                       *)
TwoCards == {Card, LiveCard}

(* Cards that each fail one of the checks, and two that pass: one with the *)
(* any-usage wildcard, one of a CA served by the designated responder.     *)
AllSortsOfCards ==
  {Card,
   [Card EXCEPT !.extKeyUsage = {"any"}],
   [Card EXCEPT !.extKeyUsage = {"emailProtection"}],
   [Card EXCEPT !.digitalSignature = FALSE],
   [Card EXCEPT !.policies = {"mobileID"}],
   [Card EXCEPT !.policies = {"unparsable"}],
   [Card EXCEPT !.notBefore = 9],
   [Card EXCEPT !.issuer = "k2", !.ocspURL = "none"],
   [Card EXCEPT !.issuer = "k3"],
   [Card EXCEPT !.ocspURL = "none"],
   [Card EXCEPT !.ocspURL = "elsewhere"],
   [Card EXCEPT !.cn = FALSE],
   [Card EXCEPT !.idCode = FALSE]}

AllCards == AllSortsOfCards \cup TwoCards \cup ExpiringCards
SecondCA == {Key("k2", 99)}

(* One request that runs beside a change of the path and past the expiry   *)
(* of a card.                                                              *)
Reloads ==
  [cards |-> ExpiringCards, kinds |-> {"challenge", "login"}, defects |-> {"none"},
   sites |-> {"site"}, lastTime |-> 3, nonces |-> 1, deliveries |-> 3, revocations |-> FALSE]

(* Validations while the CA revokes cards. *)
Revocations ==
  [Reloads EXCEPT !.cards = TwoCards, !.kinds = {"validate"}, !.lastTime = 6,
                  !.deliveries = 1, !.revocations = TRUE]

(* Every card, with tokens that do not decode, for either site. *)
Tokens ==
  [Reloads EXCEPT !.cards = AllSortsOfCards, !.kinds = {"challenge", "login", "validate"},
                  !.defects = Defects, !.sites = Sites, !.lastTime = 1, !.nonces = 2,
                  !.deliveries = 1]

Scenes == [reloads |-> Reloads, revocations |-> Revocations, tokens |-> Tokens]

VARIABLE scene

bounds == Scenes[scene]

ScenesInit ==
  /\ scene \in DOMAIN Scenes
  /\ Init
  /\ bounds.deliveries = 1 => snap = MCCAs

(* ClientStep, for the sites, the cards and the defects of the scene. *)
SceneTokens(nonces) ==
  [cert : bounds.cards, nonce : nonces, origin : bounds.sites, format : Formats,
   defect : bounds.defects]

SceneClientStep(r, b) ==
  \/ /\ "login" \in bounds.kinds
     /\ \E site \in bounds.sites :
          \/ Challenge(r, b, site)
          \/ ChallengeFails(r, b, site)
          \/ LoginBadBody(r, b, site)
          \/ \E kind \in bounds.kinds : SessionFails(r, b, kind, site)
          \/ \E token \in SceneTokens(held[b]) : SendLogin(r, b, site, token)
  \/ /\ "validate" \in bounds.kinds
     /\ \E n \in 0..bounds.nonces, token \in SceneTokens(1..bounds.nonces) :
          SendValidate(r, b, n, token)

SceneStep ==
  \/ \E r \in Requests :
       \/ ServerStep(r) \/ OcspAnswer(r) \/ Reply(r)
       \/ At(r, "idle") /\ \E b \in Browsers : SceneClientStep(r, b)
  \/ Tick
  \/ bounds.revocations /\ \E cert \in Revocable : Revoke(cert)
  \/ bounds.deliveries > 1 /\ TrustStep

ScenesNext ==
  /\ SceneStep
  /\ clock' <= bounds.lastTime
  /\ Len(issued') <= bounds.nonces
  /\ Len(delivered') <= bounds.deliveries
  /\ UNCHANGED scene

ScenesSpec == ScenesInit /\ [][ScenesNext]_<<vars, scene>>
============================================================================
