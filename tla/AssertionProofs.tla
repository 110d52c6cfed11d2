-------------------------- MODULE AssertionProofs --------------------------
(***************************************************************************)
(* Proofs about identity assertions, for every lifetime, leeway and skew   *)
(* of the clocks, any number of keys, of assertions and of presentations.  *)
(*                                                                         *)
(* The times rest on what Issue puts into the claims, which later steps do *)
(* not change: iat and exp are at most a second to the left of the times   *)
(* they stand for.  Single use rests on the memory of the consumer being   *)
(* longer than Verify accepts.  The keys rest on published having every    *)
(* key that ever signed.                                                   *)
(***************************************************************************)
EXTENDS Assertions, TLAPS

(* Append adds one element at the end. *)
LEMMA Appended ==
  ASSUME NEW S, NEW s \in Seq(S), NEW e \in S, NEW t, t = Append(s, e)
  PROVE  /\ t \in Seq(S) /\ Len(t) = Len(s) + 1 /\ t[Len(s) + 1] = e
         /\ DOMAIN t = DOMAIN s \cup {Len(s) + 1} /\ Len(s) + 1 \notin DOMAIN s
         /\ \A i \in DOMAIN s : t[i] = s[i]
OBVIOUS

(* Truncation to seconds moves a time to the left, by less than a second. *)
LEMMA Truncated ==
  ASSUME NEW t \in Nat
  PROVE  /\ Unix(t) \in Int /\ FromUnix(Unix(t)) \in Int
         /\ FromUnix(Unix(t)) <= t /\ t - TicksPerSecond < FromUnix(Unix(t))
         /\ t >= Epoch => Unix(t) # 0
<1>1. TicksPerSecond \in Nat \ {0}
  BY AssertionsAssumption
<1>2. t \div TicksPerSecond \in Int
  BY <1>1, SMT
<1>3. (t \div TicksPerSecond) * TicksPerSecond <= t
  BY <1>1, SMT
<1>4. t - TicksPerSecond < (t \div TicksPerSecond) * TicksPerSecond
  BY <1>1, SMT
<1>5. (t \div TicksPerSecond) * TicksPerSecond \in Int
  BY <1>1, <1>2, SMT
<1>6. t >= 100 * TicksPerSecond => t \div TicksPerSecond # 0
  BY <1>1, SMT
<1> QED
  BY <1>2, <1>3, <1>4, <1>5, <1>6 DEF Unix, FromUnix, Epoch

MintedAt(a) ==
  /\ a.at \in Nat /\ a.at <= time /\ a.exp # 0
  /\ FromUnix(a.iat) \in Int /\ FromUnix(a.iat) <= a.at
  /\ FromUnix(a.exp) \in Int /\ FromUnix(a.exp) <= a.at + TTL
  /\ a.at + TTL - TicksPerSecond < FromUnix(a.exp)

Minted == \A j \in DOMAIN minted : MintedAt(minted[j])

HeardOf == \A i \in DOMAIN presented : presented[i].jti \in DOMAIN minted

ClockInv == /\ time \in Nat /\ Epoch \in Nat /\ time >= Epoch
            /\ skew \in Int /\ -MaxSkew <= skew /\ skew <= MaxSkew

AssertionsInv == AssertionsTypeOK /\ ClockInv /\ Minted /\ HeardOf

(* The first state, with no assertion. *)
LEMMA AssertionsInitInv == AssertionsInit => AssertionsInv
<1> SUFFICES ASSUME AssertionsInit PROVE AssertionsInv
  OBVIOUS
<1>1. TicksPerSecond \in Nat \ {0} /\ MaxSkew \in Nat
  BY AssertionsAssumption
<1>2. Epoch \in Nat
  BY <1>1 DEF Epoch, FromUnix
<1>3. ClockInv
  BY <1>1, <1>2 DEF AssertionsInit, ClockInv
<1>4. AssertionsTypeOK
  BY <1>3 DEF AssertionsInit, AssertionsTypeOK, ClockInv, NoFetch, KeySet, Add
<1> QED
  BY <1>3, <1>4 DEF AssertionsInit, AssertionsInv, Minted, HeardOf

(* The documents of the jwks endpoint, and what is read from them. *)
LEMMA JWKSType == ASSUME NEW K \in SUBSET Nat PROVE JWKS(K) \subseteq JWK
BY DEF JWKS, JWK

(* And the keys are numbers again. *)
LEMMA KeySetType == ASSUME NEW d \in SUBSET JWK PROVE KeySetFromJWKS(d) \subseteq Nat
BY DEF KeySetFromJWKS, JWK

(* The steps that concern keys alone. *)
LEMMA KeyStepType ==
  ASSUME AssertionsInv, Rotate \/ Announce \/ ServeJWKS \/ AnswerJWKS \/ Install \/ LoseJWKS
  PROVE  AssertionsInv'
<1>1. /\ active \in Nat /\ published \subseteq Nat /\ Len(minted) \in Nat
      /\ fetch \in [pc : {"idle", "iterating", "answered"}, doc : SUBSET JWK, covers : Nat]
      /\ trusted \subseteq Nat /\ covers \in Nat
  BY DEF AssertionsInv, AssertionsTypeOK
<1>2. UNCHANGED <<time, skew, minted, seen, presented>>
  BY DEF Rotate, Announce, ServeJWKS, AnswerJWKS, Install, LoseJWKS, serviceVars, consumerVars
<1>3. active + 1 \in Nat
  BY <1>1
<1>4. \A k \in Nat : RotatedKeys(k) \subseteq Nat
  BY DEF RotatedKeys, KeySet, Add
<1>5. JWKS({active + 1}) \subseteq JWK /\ JWKS(published) \subseteq JWK
  BY <1>1, <1>3, JWKSType
<1>6. KeySetFromJWKS(fetch.doc) \subseteq Nat
  BY <1>1, KeySetType
<1>7. /\ active' \in Nat /\ published' \subseteq Nat /\ trusted' \subseteq Nat /\ covers' \in Nat
      /\ fetch' \in [pc : {"idle", "iterating", "answered"}, doc : SUBSET JWK, covers : Nat]
  <2>1. CASE Rotate
    BY <1>1, <1>3, <1>4, <2>1 DEF Rotate, NoFetch, consumerVars
  <2>2. CASE Announce
    <3>1. active' = active /\ trusted' = trusted /\ covers' = covers
      BY <2>2 DEF Announce, consumerVars
    <3>2. published' \subseteq Nat
      BY <1>1, <1>3, <1>4, <2>2 DEF Announce, Add
    <3>3. \/ fetch' = fetch
          \/ fetch' = [fetch EXCEPT !.doc = @ \cup JWKS({active + 1})]
          \/ fetch' = NoFetch
      BY <2>2 DEF Announce
    <3>4. fetch' \in [pc : {"idle", "iterating", "answered"}, doc : SUBSET JWK, covers : Nat]
      <4>1. CASE fetch' \in {fetch, NoFetch}
        BY <1>1, <4>1 DEF NoFetch
      <4>2. CASE fetch' = [fetch EXCEPT !.doc = @ \cup JWKS({active + 1})]
        <5>1. fetch.doc \cup JWKS({active + 1}) \in SUBSET JWK
          BY <1>1, <1>5
        <5> QED
          BY <1>1, <4>2, <5>1
      <4> QED
        BY <3>3, <4>1, <4>2
    <3> QED
      BY <1>1, <3>1, <3>2, <3>4
  <2>3. CASE ServeJWKS
    BY <1>1, <1>5, <2>3 DEF ServeJWKS, serviceVars, consumerVars
  <2>4. CASE AnswerJWKS
    BY <1>1, <2>4 DEF AnswerJWKS, serviceVars, consumerVars
  <2>5. CASE Install \/ LoseJWKS
    <3>1. fetch' = NoFetch /\ active' = active /\ published' = published
      BY <2>5 DEF Install, LoseJWKS, serviceVars
    <3>2. trusted' \subseteq Nat /\ covers' \in Nat
      BY <1>1, <1>6, <2>5 DEF Install, LoseJWKS, consumerVars
    <3> QED
      BY <1>1, <3>1, <3>2 DEF NoFetch
  <2> QED
    BY <2>1, <2>2, <2>3, <2>4, <2>5
<1>8. AssertionsTypeOK'
  BY <1>2, <1>7, ZenonT(30) DEF AssertionsInv, AssertionsTypeOK
<1>9. ClockInv' /\ Minted' /\ HeardOf'
  BY <1>2, ZenonT(30) DEF AssertionsInv, ClockInv, Minted, MintedAt, HeardOf
<1> QED
  BY <1>8, <1>9 DEF AssertionsInv

(* An assertion is issued. *)
LEMMA IssueKeeps ==
  ASSUME AssertionsInv, IssueAssertion
  PROVE  AssertionsInv'
<1>1. /\ time \in Nat /\ time >= Epoch /\ Epoch \in Nat /\ TTL \in Nat /\ active \in Nat
      /\ TicksPerSecond \in Nat /\ minted \in Seq(Assertion) /\ Minted /\ HeardOf
      /\ UNCHANGED <<time, skew, active, published, fetch, consumerVars>>
  BY AssertionsAssumption DEF AssertionsInv, AssertionsTypeOK, ClockInv, IssueAssertion
<1>2. time + TTL \in Nat /\ time + TTL >= Epoch
  BY <1>1
<1>3. /\ Unix(time) \in Int /\ FromUnix(Unix(time)) \in Int /\ FromUnix(Unix(time)) <= time
      /\ Unix(time + TTL) \in Int /\ FromUnix(Unix(time + TTL)) \in Int
      /\ FromUnix(Unix(time + TTL)) <= time + TTL
      /\ time + TTL - TicksPerSecond < FromUnix(Unix(time + TTL))
      /\ Unix(time + TTL) # 0
  BY <1>1, <1>2, Truncated
<1>4. Claims \in Assertion /\ MintedAt(Claims)
  BY <1>1, <1>3 DEF Claims, Assertion, MintedAt
<1>5. minted' = Append(minted, Claims)
  BY DEF IssueAssertion
<1>6. /\ minted' \in Seq(Assertion) /\ DOMAIN minted' = DOMAIN minted \cup {Len(minted) + 1}
      /\ minted'[Len(minted) + 1] = Claims
      /\ \A j \in DOMAIN minted : minted'[j] = minted[j]
  BY <1>1, <1>4, <1>5, Appended
<1>7. Minted'
  BY <1>1, <1>4, <1>6 DEF Minted, MintedAt
<1>8. AssertionsTypeOK'
  BY <1>1, <1>6, ZenonT(30) DEF AssertionsInv, AssertionsTypeOK, consumerVars
<1>9. ClockInv'
  BY <1>1, ZenonT(30) DEF AssertionsInv, ClockInv
<1>10. HeardOf'
  BY <1>1, <1>6, ZenonT(30) DEF HeardOf, consumerVars
<1> QED
  BY <1>7, <1>8, <1>9, <1>10 DEF AssertionsInv

(* A token is presented: what Verify says is a verdict, and is remembered. *)
LEMMA PresentKeeps ==
  ASSUME AssertionsInv, NEW j \in DOMAIN minted, NEW damage \in Damages, Present(j, damage)
  PROVE  AssertionsInv'
<1> DEFINE verdict == Verify(minted[j], damage, time + skew)
           result == IF verdict = "ok" /\ Remembers(j, time + skew) THEN "replayed" ELSE verdict
           p == [jti |-> j, damage |-> damage, result |-> result, at |-> time]
           m == [jti |-> j, until |-> FromUnix(minted[j].exp) + RememberFor]
<1>1. /\ time \in Nat /\ minted \in Seq(Assertion) /\ Minted /\ HeardOf /\ RememberFor \in Nat
      /\ presented \in Seq([jti : Nat, damage : Damages, result : Verdicts, at : Nat])
      /\ UNCHANGED <<time, skew, serviceVars, fetch, trusted, covers>>
  BY AssertionsAssumption DEF AssertionsInv, AssertionsTypeOK, Present
<1>2. result \in Verdicts
  BY DEF Verify, TimeClaims, Verdicts
<1>3. presented' = Append(presented, p) /\ (seen' = seen \/ seen' = seen \cup {m})
  BY DEF Present
<1> HIDE DEF result
<1>4. p \in [jti : Nat, damage : Damages, result : Verdicts, at : Nat] /\ p.jti = j
  BY <1>1, <1>2
<1>5. m \in [jti : Nat, until : Int]
  <2>1. FromUnix(minted[j].exp) \in Int
    BY <1>1 DEF Minted, MintedAt
  <2>2. FromUnix(minted[j].exp) + RememberFor \in Int
    BY <1>1, <2>1
  <2> QED
    BY <1>1, <2>2
<1> HIDE DEF p, m
<1>6. /\ presented' \in Seq([jti : Nat, damage : Damages, result : Verdicts, at : Nat])
      /\ DOMAIN presented' = DOMAIN presented \cup {Len(presented) + 1}
      /\ presented'[Len(presented) + 1] = p
      /\ \A i \in DOMAIN presented : presented'[i] = presented[i]
  <2>1. PICK S : S = [jti : Nat, damage : Damages, result : Verdicts, at : Nat]
    OBVIOUS
  <2>2. presented \in Seq(S) /\ p \in S /\ presented' = Append(presented, p)
    BY <1>1, <1>3, <1>4, <2>1, Zenon
  <2>3. /\ presented' \in Seq(S) /\ DOMAIN presented' = DOMAIN presented \cup {Len(presented) + 1}
        /\ presented'[Len(presented) + 1] = p
        /\ \A i \in DOMAIN presented : presented'[i] = presented[i]
    BY <2>2, Appended
  <2> QED
    BY <2>1, <2>3, Zenon
<1>7. HeardOf'
  BY <1>1, <1>4, <1>6, ZenonT(30) DEF HeardOf, serviceVars
<1>8. AssertionsTypeOK'
  <2>1. seen' \subseteq [jti : Nat, until : Int]
    BY <1>3, <1>5 DEF AssertionsInv, AssertionsTypeOK
  <2> QED
    BY <1>1, <1>6, <2>1, ZenonT(30) DEF AssertionsInv, AssertionsTypeOK, serviceVars
<1>9. ClockInv' /\ Minted'
  BY <1>1, ZenonT(30) DEF AssertionsInv, ClockInv, Minted, MintedAt, serviceVars
<1> QED
  BY <1>7, <1>8, <1>9 DEF AssertionsInv

(* Time passes. *)
LEMMA TickKeeps ==
  ASSUME AssertionsInv, TickAssertions
  PROVE  AssertionsInv'
<1>1. /\ time' = time + 1 /\ time \in Nat /\ Epoch \in Nat /\ time >= Epoch
      /\ seen' \subseteq seen /\ UNCHANGED <<skew, serviceVars, fetch, trusted, covers, presented>>
  BY DEF AssertionsInv, ClockInv, TickAssertions
<1>2. ClockInv'
  BY <1>1 DEF AssertionsInv, ClockInv
<1>3. Minted'
  BY <1>1 DEF AssertionsInv, Minted, MintedAt, serviceVars
<1> QED
  BY <1>1, <1>2, <1>3 DEF AssertionsInv, AssertionsTypeOK, ClockInv, HeardOf, serviceVars

(* Every step keeps the times of the assertions and the types. *)
LEMMA AssertionsNextInv ==
  AssertionsInv /\ [AssertionsNext]_assertionVars => AssertionsInv'
<1> SUFFICES ASSUME AssertionsInv, [AssertionsNext]_assertionVars PROVE AssertionsInv'
  OBVIOUS
<1>1. CASE UNCHANGED assertionVars
  BY <1>1 DEF assertionVars, serviceVars, consumerVars, AssertionsInv, AssertionsTypeOK,
              ClockInv, Minted, MintedAt, HeardOf
<1>2. 1..Len(minted) = DOMAIN minted
  BY DEF AssertionsInv, AssertionsTypeOK
<1>3. ASSUME NEW j \in 1..Len(minted), NEW damage \in Damages, Present(j, damage)
      PROVE  AssertionsInv'
  BY <1>2, <1>3, PresentKeeps
<1> QED
  BY <1>1, <1>3, KeyStepType, IssueKeeps, TickKeeps DEF AssertionsNext

(* What one step adds to the history of Verify, and that it changes nothing *)
(* that is in it. *)
LEMMA HistoryStep ==
  ASSUME AssertionsInv, [AssertionsNext]_assertionVars
  PROVE  /\ \A j \in DOMAIN minted : j \in DOMAIN minted' /\ minted'[j] = minted[j]
         /\ \A i \in DOMAIN presented' :
              \/ i \in DOMAIN presented /\ presented'[i] = presented[i]
              \/ /\ i = Len(presented) + 1 /\ i \notin DOMAIN presented
                 /\ \E j \in DOMAIN minted, damage \in Damages :
                      /\ Present(j, damage) /\ presented'[i].jti = j
                      /\ presented'[i].at = time
                      /\ presented'[i].result \in {Verify(minted[j], damage, time + skew), "replayed"}
                      /\ presented'[i].result = "ok" => ~Remembers(j, time + skew)
<1>1. minted \in Seq(Assertion) /\ 1..Len(minted) = DOMAIN minted
      /\ presented \in Seq([jti : Nat, damage : Damages, result : Verdicts, at : Nat])
  BY DEF AssertionsInv, AssertionsTypeOK
<1>2. CASE IssueAssertion
  <2>1. \A j \in DOMAIN minted : j \in DOMAIN minted' /\ minted'[j] = minted[j]
    BY <1>1, <1>2 DEF IssueAssertion
  <2>2. presented' = presented
    BY <1>2 DEF IssueAssertion, consumerVars
  <2> QED
    BY <2>1, <2>2
<1>3. ASSUME NEW j \in DOMAIN minted, NEW damage \in Damages, Present(j, damage)
      PROVE  /\ minted' = minted
             /\ \A i \in DOMAIN presented' :
                  \/ i \in DOMAIN presented /\ presented'[i] = presented[i]
                  \/ /\ i = Len(presented) + 1 /\ i \notin DOMAIN presented
                     /\ presented'[i].jti = j /\ presented'[i].at = time
                     /\ presented'[i].result \in {Verify(minted[j], damage, time + skew), "replayed"}
                     /\ presented'[i].result = "ok" => ~Remembers(j, time + skew)
  <2> DEFINE verdict == Verify(minted[j], damage, time + skew)
             result == IF verdict = "ok" /\ Remembers(j, time + skew) THEN "replayed" ELSE verdict
             p == [jti |-> j, damage |-> damage, result |-> result, at |-> time]
  <2>1. presented' = Append(presented, p) /\ minted' = minted
    BY <1>3 DEF Present, serviceVars
  <2>2. result \in {verdict, "replayed"} /\ (result = "ok" => ~Remembers(j, time + skew))
    OBVIOUS
  <2>3. p.jti = j /\ p.at = time /\ p.result = result
    OBVIOUS
  <2> HIDE DEF p
  <2>4. \A i \in DOMAIN presented' :
          \/ i \in DOMAIN presented /\ presented'[i] = presented[i]
          \/ i = Len(presented) + 1 /\ i \notin DOMAIN presented /\ presented'[i] = p
    BY <1>1, <2>1
  <2> QED
    BY <2>1, <2>2, <2>3, <2>4
<1>4. ASSUME UNCHANGED <<minted, presented>>
      PROVE  /\ \A j \in DOMAIN minted : j \in DOMAIN minted' /\ minted'[j] = minted[j]
             /\ \A i \in DOMAIN presented' : i \in DOMAIN presented /\ presented'[i] = presented[i]
  BY <1>4
<1>5. Rotate \/ Announce \/ ServeJWKS \/ AnswerJWKS \/ Install \/ LoseJWKS
        => UNCHANGED <<minted, presented>>
  BY DEF Rotate, Announce, ServeJWKS, AnswerJWKS, Install, LoseJWKS, serviceVars, consumerVars
<1>6. TickAssertions \/ UNCHANGED assertionVars => UNCHANGED <<minted, presented>>
  BY DEF TickAssertions, assertionVars, serviceVars, consumerVars
<1>7. CASE \E j \in DOMAIN minted, damage \in Damages : Present(j, damage)
  BY <1>3, <1>7
<1> QED
  BY <1>1, <1>2, <1>4, <1>5, <1>6, <1>7 DEF AssertionsNext
(***************************************************************************)
(* What Verify accepts is young, for every lifetime, leeway and skew.      *)
(***************************************************************************)
THEOREM AssertionsFresh == AssertionsSpec => []AcceptedIsFresh
<1>1. AssertionsInit => AcceptedIsFresh
  BY DEF AssertionsInit, AcceptedIsFresh
<1>2. AssertionsInv /\ AcceptedIsFresh /\ [AssertionsNext]_assertionVars => AcceptedIsFresh'
  <2> SUFFICES ASSUME AssertionsInv, AcceptedIsFresh, [AssertionsNext]_assertionVars,
                      NEW i \in DOMAIN presented', presented'[i].result = "ok"
               PROVE  presented'[i].at - minted'[presented'[i].jti].at
                        <= TTL + Leeway + MaxSkew
    BY DEF AcceptedIsFresh
  <2>1. CASE i \in DOMAIN presented /\ presented'[i] = presented[i]
    BY <2>1, HistoryStep DEF AcceptedIsFresh, AssertionsInv, HeardOf
  <2>2. ASSUME NEW j \in DOMAIN minted, NEW damage \in Damages, presented'[i].jti = j,
               presented'[i].at = time, Verify(minted[j], damage, time + skew) = "ok"
        PROVE  presented'[i].at - minted'[presented'[i].jti].at <= TTL + Leeway + MaxSkew
    <3>1. minted'[j] = minted[j] /\ MintedAt(minted[j])
      BY HistoryStep DEF AssertionsInv, Minted
    <3>2. TimeClaims(minted[j], time + skew) = "ok"
      BY <2>2 DEF Verify
    <3>3. ~(time + skew > FromUnix(minted[j].exp) + Leeway)
      BY <3>1, <3>2 DEF TimeClaims, MintedAt
    <3>4. /\ TTL \in Nat /\ Leeway \in Nat /\ MaxSkew \in Nat /\ time \in Nat /\ skew \in Int
          /\ -MaxSkew <= skew
      BY AssertionsAssumption DEF AssertionsInv, ClockInv
    <3>5. /\ minted[j].at \in Nat /\ FromUnix(minted[j].exp) \in Int
          /\ FromUnix(minted[j].exp) <= minted[j].at + TTL
      BY <3>1 DEF MintedAt
    <3>6. time - minted[j].at <= TTL + Leeway + MaxSkew
      BY <3>3, <3>4, <3>5
    <3> QED
      BY <2>2, <3>1, <3>6
  <2> QED
    BY <2>1, <2>2, HistoryStep
<1> QED
  BY <1>1, <1>2, AssertionsInitInv, AssertionsNextInv, PTL DEF AssertionsSpec

(***************************************************************************)
(* Verify does not refuse what is young: a leeway that covers the skew of  *)
(* the clocks is enough.                                                   *)
(***************************************************************************)
THEOREM FreshAccepted == AssertionsSpec => []FreshIsNotRefused
<1>1. AssertionsInit => FreshIsNotRefused
  BY DEF AssertionsInit, FreshIsNotRefused
<1>2. AssertionsInv /\ FreshIsNotRefused /\ [AssertionsNext]_assertionVars => FreshIsNotRefused'
  <2> SUFFICES ASSUME AssertionsInv, FreshIsNotRefused, [AssertionsNext]_assertionVars,
                      MaxSkew <= Leeway, NEW i \in DOMAIN presented'
               PROVE  /\ presented'[i].result = "expired" =>
                           presented'[i].at - minted'[presented'[i].jti].at
                             > TTL - (TicksPerSecond - 1)
                      /\ presented'[i].result # "notYetValid"
    BY DEF FreshIsNotRefused
  <2>1. CASE i \in DOMAIN presented /\ presented'[i] = presented[i]
    BY <2>1, HistoryStep DEF FreshIsNotRefused, AssertionsInv, HeardOf
  <2>2. ASSUME NEW j \in DOMAIN minted, NEW damage \in Damages, presented'[i].jti = j,
               presented'[i].at = time,
               presented'[i].result \in {Verify(minted[j], damage, time + skew), "replayed"}
        PROVE  /\ presented'[i].result = "expired" =>
                    presented'[i].at - minted'[presented'[i].jti].at
                      > TTL - (TicksPerSecond - 1)
               /\ presented'[i].result # "notYetValid"
    <3>1. minted'[j] = minted[j] /\ MintedAt(minted[j])
      BY HistoryStep DEF AssertionsInv, Minted
    <3>2. presented'[i].result \in {"expired", "notYetValid"}
            => presented'[i].result = TimeClaims(minted[j], time + skew)
      BY <2>2 DEF Verify
    <3>3. /\ TTL \in Nat /\ Leeway \in Nat /\ MaxSkew \in Nat /\ time \in Nat /\ skew \in Int
          /\ TicksPerSecond \in Nat /\ -MaxSkew <= skew /\ skew <= MaxSkew
      BY AssertionsAssumption DEF AssertionsInv, ClockInv
    <3>4. /\ minted[j].at \in Nat /\ minted[j].at <= time
          /\ FromUnix(minted[j].iat) \in Int /\ FromUnix(minted[j].iat) <= minted[j].at
          /\ FromUnix(minted[j].exp) \in Int
          /\ minted[j].at + TTL - TicksPerSecond < FromUnix(minted[j].exp)
      BY <3>1 DEF MintedAt
    <3>5. time + skew > FromUnix(minted[j].exp) + Leeway
            => time - minted[j].at > TTL - (TicksPerSecond - 1)
      BY <3>3, <3>4
    <3>6. ~(time + skew + Leeway < FromUnix(minted[j].iat))
      BY <3>3, <3>4
    <3>7. /\ TimeClaims(minted[j], time + skew) # "notYetValid"
          /\ TimeClaims(minted[j], time + skew) = "expired"
               => time + skew > FromUnix(minted[j].exp) + Leeway
      BY <3>6 DEF TimeClaims
    <3> QED
      BY <2>2, <3>1, <3>2, <3>5, <3>7
  <2> QED
    BY <2>1, <2>2, HistoryStep
<1> QED
  BY <1>1, <1>2, AssertionsInitInv, AssertionsNextInv, PTL DEF AssertionsSpec

(***************************************************************************)
(* An accepted assertion is remembered until Verify refuses it as expired. *)
(***************************************************************************)
Until(j) == FromUnix(minted[j].exp) + RememberFor

RememberedInv ==
  \A i \in DOMAIN presented : presented[i].result = "ok" =>
    \/ \E e \in seen : e.jti = presented[i].jti /\ e.until = Until(presented[i].jti)
    \/ time + skew >= Until(presented[i].jti)

(***************************************************************************)
(* A consumer that remembers a jti for longer than the leeway after exp    *)
(* accepts no assertion twice, however the clocks are set.                 *)
(***************************************************************************)
THEOREM AssertionSingleUse ==
  ASSUME RememberFor > Leeway
  PROVE  AssertionsSpec => []AcceptedOnce
<1>1. AssertionsInit => AcceptedOnce /\ RememberedInv
  BY DEF AssertionsInit, AcceptedOnce, RememberedInv
<1>2. AssertionsInv /\ RememberedInv /\ [AssertionsNext]_assertionVars => RememberedInv'
  <2> SUFFICES ASSUME AssertionsInv, RememberedInv, [AssertionsNext]_assertionVars,
                      NEW i \in DOMAIN presented', presented'[i].result = "ok",
                      NEW j, j = presented'[i].jti
               PROVE  \/ \E e \in seen' : e.jti = j /\ e.until = Until(j)'
                      \/ time' + skew' >= Until(j)'
    BY DEF RememberedInv
  <2>1. CASE i \in DOMAIN presented /\ presented'[i] = presented[i]
    <3>1. j \in DOMAIN minted /\ minted'[j] = minted[j]
      BY <2>1, HistoryStep DEF AssertionsInv, HeardOf
    <3>2. Until(j)' = Until(j) /\ Until(j) \in Int
      BY <3>1, AssertionsAssumption DEF Until, AssertionsInv, Minted, MintedAt
    <3>3. time' \in {time, time + 1} /\ skew' = skew /\ time \in Nat /\ skew \in Int
      BY DEF AssertionsInv, ClockInv, AssertionsNext, IssueAssertion, Rotate, Announce, ServeJWKS,
             AnswerJWKS, Install, LoseJWKS, Present, TickAssertions, assertionVars
    <3>4. \A e \in seen : e \in seen' \/ time' + skew' >= e.until
      <4>1. CASE TickAssertions
        BY <3>3, <4>1 DEF TickAssertions, AssertionsInv, AssertionsTypeOK
      <4>2. CASE ~TickAssertions
        BY <4>2 DEF AssertionsNext, IssueAssertion, Rotate, Announce, ServeJWKS,
             AnswerJWKS, Install, LoseJWKS, Present, assertionVars, consumerVars
      <4> QED
        BY <4>1, <4>2
    <3>5. time + skew >= Until(j) => time' + skew' >= Until(j)'
      BY <3>2, <3>3
    <3> QED
      BY <2>1, <3>2, <3>4, <3>5 DEF RememberedInv
  <2>2. ASSUME NEW damage \in Damages, j \in DOMAIN minted, Present(j, damage),
               i \notin DOMAIN presented, i = Len(presented) + 1
        PROVE  \E e \in seen' : e.jti = j /\ e.until = Until(j)'
    <3> DEFINE e == [jti |-> j, until |-> FromUnix(minted[j].exp) + RememberFor]
    <3>1. e \in seen'
      <4> DEFINE verdict == Verify(minted[j], damage, time + skew)
                 result == IF verdict = "ok" /\ Remembers(j, time + skew)
                           THEN "replayed" ELSE verdict
                 p == [jti |-> j, damage |-> damage, result |-> result, at |-> time]
      <4>1. presented' = Append(presented, p) /\ (result = "ok" => e \in seen')
        BY <2>2 DEF Present
      <4>2. p.result = result
        OBVIOUS
      <4> HIDE DEF p, result, e
      <4>3. presented'[i] = p
        BY <2>2, <4>1 DEF AssertionsInv, AssertionsTypeOK
      <4> QED
        BY <4>1, <4>2, <4>3
    <3>2. minted' = minted
      BY <2>2 DEF Present, serviceVars
    <3> QED
      BY <3>1, <3>2 DEF Until
  <2> QED
    BY <2>1, <2>2, HistoryStep
<1>3. /\ AssertionsInv /\ RememberedInv /\ AcceptedOnce /\ [AssertionsNext]_assertionVars
      => AcceptedOnce'
  <2> SUFFICES ASSUME AssertionsInv, RememberedInv, AcceptedOnce,
                      [AssertionsNext]_assertionVars
               PROVE  AcceptedOnce'
    OBVIOUS
  <2>1. ASSUME NEW i \in DOMAIN presented, presented[i].result = "ok",
               NEW damage \in Damages, NEW j \in DOMAIN minted, j = presented[i].jti,
               Verify(minted[j], damage, time + skew) = "ok", ~Remembers(j, time + skew)
        PROVE  FALSE
    <3>1. TimeClaims(minted[j], time + skew) = "ok" /\ MintedAt(minted[j])
      BY <2>1 DEF Verify, AssertionsInv, Minted
    <3>2. ~(time + skew > FromUnix(minted[j].exp) + Leeway)
      BY <3>1 DEF TimeClaims, MintedAt
    <3>3. /\ time \in Nat /\ skew \in Int /\ Leeway \in Nat /\ RememberFor \in Nat
          /\ FromUnix(minted[j].exp) \in Int
      BY <3>1, AssertionsAssumption DEF AssertionsInv, ClockInv, MintedAt
    <3>4. time + skew < Until(j) /\ Until(j) \in Int
      BY <3>2, <3>3 DEF Until
    <3>5. ~(time + skew >= Until(j))
      BY <3>3, <3>4
    <3>6. \E e \in seen : e.jti = j /\ e.until = Until(j)
      BY <2>1, <3>5 DEF RememberedInv
    <3> QED
      BY <2>1, <3>4, <3>6 DEF Remembers
  <2>2. \A i \in DOMAIN presented' : presented'[i].result = "ok" =>
          \/ i \in DOMAIN presented /\ presented'[i] = presented[i]
          \/ /\ i = Len(presented) + 1
             /\ \A k \in DOMAIN presented :
                  presented[k].result = "ok" => presented[k].jti # presented'[i].jti
    BY <2>1, HistoryStep
  <2> QED
    BY <2>2 DEF AcceptedOnce
<1> QED
  BY <1>1, <1>2, <1>3, AssertionsInitInv, AssertionsNextInv, PTL DEF AssertionsSpec
(* KeySetFromJWKS finds every key of JWKS, and more in a longer document. *)
LEMMA RoundTrip ==
  /\ \A K : K \subseteq KeySetFromJWKS(JWKS(K))
  /\ \A d, K : KeySetFromJWKS(d) \subseteq KeySetFromJWKS(d \cup JWKS(K))
<1>1. ASSUME NEW K, NEW k \in K PROVE k \in KeySetFromJWKS(JWKS(K))
  <2>1. [kty |-> "EC", crv |-> "P-256", kid |-> k] \in JWKS(K)
    BY DEF JWKS
  <2> QED
    BY <2>1 DEF KeySetFromJWKS
<1>2. \A d, K : KeySetFromJWKS(d) \subseteq KeySetFromJWKS(d \cup JWKS(K))
  BY DEF KeySetFromJWKS
<1> QED
  BY <1>1, <1>2

(***************************************************************************)
(* Every key that ever signed is published, and every document that is on  *)
(* its way has the keys of what was issued before it was served.           *)
(***************************************************************************)
KeysInv ==
  /\ active \in Nat \ {0} /\ 1..active \subseteq published
  /\ \A j \in DOMAIN minted : minted[j].key \in 1..active
  /\ fetch.covers \in 0..Len(minted) /\ covers \in 0..Len(minted)
  /\ \A j \in 1..fetch.covers : minted[j].key \in KeySetFromJWKS(fetch.doc)

(***************************************************************************)
(* A service that publishes its previous keys at every start keeps what it *)
(* has signed verifiable, though Add changes the key set under the handler *)
(* of the endpoint and documents arrive late or never.                     *)
(***************************************************************************)
THEOREM InFlightVerifiable ==
  ASSUME KeepPrevious
  PROVE  AssertionsSpec => []InFlightRemainVerifiable
<1>1. AssertionsInit => KeysInv /\ InFlightRemainVerifiable
  BY DEF AssertionsInit, KeysInv, InFlightRemainVerifiable, KeySet, Add, NoFetch
<1>2. /\ AssertionsInv /\ KeysInv /\ InFlightRemainVerifiable
      /\ [AssertionsNext]_assertionVars
      => KeysInv' /\ InFlightRemainVerifiable'
  <2> SUFFICES ASSUME AssertionsInv, KeysInv, InFlightRemainVerifiable,
                      [AssertionsNext]_assertionVars
               PROVE  KeysInv' /\ InFlightRemainVerifiable'
    OBVIOUS
  <2>1. /\ active \in Nat \ {0} /\ minted \in Seq(Assertion) /\ Len(minted) \in Nat
        /\ DOMAIN minted = 1..Len(minted)
        /\ fetch \in [pc : {"idle", "iterating", "answered"}, doc : SUBSET JWK, covers : Nat]
    BY DEF KeysInv, AssertionsInv, AssertionsTypeOK
  <2>2. \A k \in Nat \ {0} : 1..k \subseteq RotatedKeys(k)
    BY DEF RotatedKeys, KeySet, Add
  <2>3. NoFetch.covers = 0 /\ 0 \in 0..Len(minted)
    BY <2>1 DEF NoFetch
  <2>4. CASE IssueAssertion
    <3>1. /\ minted' = Append(minted, Claims) /\ Claims.key = active
          /\ UNCHANGED <<active, published, fetch, trusted, covers>>
      BY <2>4 DEF IssueAssertion, Claims, consumerVars
    <3>2. /\ DOMAIN minted' = DOMAIN minted \cup {Len(minted) + 1}
          /\ Len(minted') = Len(minted) + 1 /\ minted'[Len(minted) + 1] = Claims
          /\ \A j \in DOMAIN minted : minted'[j] = minted[j]
      BY <2>1, <3>1
    <3>3. \A j \in DOMAIN minted' : minted'[j].key \in 1..active
      BY <2>1, <3>1, <3>2 DEF KeysInv
    <3>4. 1..fetch.covers \subseteq DOMAIN minted /\ 1..covers \subseteq DOMAIN minted
      BY <2>1 DEF KeysInv
    <3>5. fetch.covers \in 0..Len(minted') /\ covers \in 0..Len(minted')
      BY <2>1, <3>2 DEF KeysInv
    <3>6. KeysInv'
      BY <3>1, <3>2, <3>3, <3>4, <3>5 DEF KeysInv
    <3>7. InFlightRemainVerifiable'
      BY <3>1, <3>2, <3>4 DEF InFlightRemainVerifiable
    <3> QED
      BY <3>6, <3>7
  <2>5. CASE Rotate
    <3>1. /\ active' = active + 1 /\ published' = RotatedKeys(active + 1)
          /\ fetch' \in {fetch, NoFetch} /\ UNCHANGED <<minted, trusted, covers>>
      BY <2>5 DEF Rotate, consumerVars
    <3>2. 1..active + 1 \subseteq published' /\ active + 1 \in Nat \ {0}
      BY <2>1, <2>2, <3>1
    <3>3. \A j \in DOMAIN minted : minted[j].key \in 1..active + 1
      BY <2>1 DEF KeysInv
    <3>4. KeysInv'
      BY <2>3, <3>1, <3>2, <3>3 DEF KeysInv
    <3> QED
      BY <3>1, <3>4 DEF InFlightRemainVerifiable
  <2>6. CASE Announce
    <3>1. UNCHANGED <<active, minted, trusted, covers>>
      BY <2>6 DEF Announce, consumerVars
    <3>2. 1..active \subseteq published'
      BY <2>1, <2>2, <2>6 DEF Announce, Add, KeysInv
    <3>3. \/ fetch' = fetch \/ fetch' = NoFetch
          \/ /\ fetch'.covers = fetch.covers
             /\ KeySetFromJWKS(fetch.doc) \subseteq KeySetFromJWKS(fetch'.doc)
      <4>1. \/ fetch' = fetch \/ fetch' = NoFetch
            \/ fetch' = [fetch EXCEPT !.doc = @ \cup JWKS({active + 1})]
        BY <2>6 DEF Announce
      <4>2. CASE fetch' = [fetch EXCEPT !.doc = @ \cup JWKS({active + 1})]
        <5>1. fetch'.covers = fetch.covers /\ fetch'.doc = fetch.doc \cup JWKS({active + 1})
          BY <2>1, <4>2
        <5> QED
          BY <5>1, RoundTrip
      <4> QED
        BY <4>1, <4>2
    <3>4. KeysInv'
      BY <2>3, <3>1, <3>2, <3>3 DEF KeysInv
    <3> QED
      BY <3>1, <3>4 DEF InFlightRemainVerifiable
  <2>7. CASE ServeJWKS
    <3>1. /\ fetch'.doc = JWKS(published) /\ fetch'.covers = Len(minted)
          /\ UNCHANGED <<active, published, minted, trusted, covers>>
      BY <2>7 DEF ServeJWKS, serviceVars, consumerVars
    <3>2. published \subseteq KeySetFromJWKS(fetch'.doc)
      BY <3>1, RoundTrip
    <3>3. \A j \in 1..Len(minted) : minted[j].key \in published
      BY <2>1 DEF KeysInv
    <3>4. Len(minted) \in 0..Len(minted)
      BY <2>1
    <3>5. KeysInv'
      BY <3>1, <3>2, <3>3, <3>4 DEF KeysInv
    <3> QED
      BY <3>1, <3>5 DEF InFlightRemainVerifiable
  <2>8. CASE Install
    <3>1. /\ trusted' = KeySetFromJWKS(fetch.doc) /\ covers' = fetch.covers /\ fetch' = NoFetch
          /\ UNCHANGED <<active, published, minted>>
      BY <2>8 DEF Install, serviceVars
    <3>2. KeysInv'
      BY <2>3, <3>1 DEF KeysInv
    <3> QED
      BY <3>1, <3>2 DEF InFlightRemainVerifiable, KeysInv
  <2>9. CASE AnswerJWKS \/ LoseJWKS \/ TickAssertions \/ UNCHANGED assertionVars
             \/ \E j \in 1..Len(minted), damage \in Damages : Present(j, damage)
    <3>1. UNCHANGED <<active, published, minted, trusted, covers>>
      BY <2>9 DEF AnswerJWKS, LoseJWKS, TickAssertions, Present, assertionVars,
                  serviceVars, consumerVars
    <3>2. fetch' = NoFetch \/ (fetch'.covers = fetch.covers /\ fetch'.doc = fetch.doc)
      BY <2>1, <2>9, ZenonT(30) DEF AnswerJWKS, LoseJWKS, TickAssertions, Present, assertionVars
    <3>3. KeysInv'
      BY <2>3, <3>1, <3>2 DEF KeysInv
    <3> QED
      BY <3>1, <3>3 DEF InFlightRemainVerifiable
  <2> QED
    BY <2>4, <2>5, <2>6, <2>7, <2>8, <2>9 DEF AssertionsNext
<1> QED
  BY <1>1, <1>2, AssertionsInitInv, AssertionsNextInv, PTL DEF AssertionsSpec
===========================================================================
