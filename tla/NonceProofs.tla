--------------------------- MODULE NonceProofs -----------------------------
(***************************************************************************)
(* The life of a nonce, for any number of browsers, requests, nonces and   *)
(* restarts. OneOwner is inductive together with the types; single use,    *)
(* the binding to the session and the lifetime follow from it.             *)
(*                                                                         *)
(* RequestProofs holds the lemmas on the steps that leave the store alone. *)
(* Here are the steps that hand a nonce on, in the order of its life (Put  *)
(* gives it to the store, GetAndRemove to a login, the expiry check to the *)
(* validator, the login to the history), then the end of a request and the *)
(* environment, and the theorems: also that the in-memory store, as the    *)
(* handlers use it, implements NonceContract, and what its sweep keeps and *)
(* drops.                                                                  *)
(***************************************************************************)
EXTENDS RequestProofs

(***************************************************************************)
(* Put moves a nonce from the challenge that drew it to the store.         *)
(***************************************************************************)
LEMMA PutKeeps ==
  ASSUME NonceInv, NEW r \in Requests, PutNonce(r)
  PROVE  OneOwner'
<1> DEFINE p == req[r]
           q == Answered(p, "ok")
<1>1. p \in Request /\ RequestInv(p) /\ p.pc = "put"
  BY DEF NonceInv, TypeInv, TypeOK, OneOwner, PutNonce, At
<1>2. req' = [req EXCEPT ![r] = q] /\ DOMAIN req = Requests
  BY DEF PutNonce, Answer, Become, NonceInv, TypeInv, TypeOK
<1>3. /\ \A e \in entries' : e \in entries
                             \/ e = [key |-> p.sid, value |-> p.nonce, issuedAt |-> p.issuedAt]
      /\ UNCHANGED <<clock, taken, accepted, sessions, issued, jar>>
  BY DEF PutNonce, Put, sweepLocked, drawnVars, outsideVars, historyVars
<1>4. \A x \in Requests : x # r /\ Owns(req[x]) => req[x].nonce # p.nonce
  BY <1>1 DEF NonceInv, OneOwner, Owns
<1>5. \A x \in Requests : x # r => RequestInv(req[x])
  BY DEF NonceInv, OneOwner
<1> HIDE DEF p
<1>6. /\ q.pc = "reply" /\ q.kind = "challenge" /\ q.sid = p.sid /\ q.browser = p.browser
  BY <1>1 DEF Answered, Request, RequestInv
<1> HIDE DEF q
<1>7. req'[r] = q /\ \A x \in Requests : x # r => req'[x] = req[x]
  BY <1>2
<1>8. \A x \in Requests : RequestInv(req[x])'
  <2> TAKE x \in Requests
  <2>1. CASE x = r
    <3>1. p.sid # 0 => SessionFor(p.sid, p.browser)
      BY <1>1 DEF RequestInv
    <3>2. req'[r].sid # 0 => SessionFor(req[r].sid, req[r].browser)'
      BY <1>3, <1>6, <1>7, <3>1, ZenonT(30) DEF SessionFor
    <3>3. /\ req'[r].pc = "reply" /\ ~Owns(req[r])' /\ ~Working(req[r])'
          /\ ~Succeeded(req[r])'
      BY <1>6, <1>7 DEF Owns, Working, Succeeded
    <3> QED BY <2>1, <3>2, <3>3, ZenonT(30) DEF RequestInv
  <2>2. CASE x # r
    <3>1. req'[x] = req[x] /\ RequestInv(req[x])
      BY <1>5, <1>7, <2>2, SMTT(30)
    <3>2. req[x].pc = "put" => ~Stored(req[x].nonce)'
      <4>1. \A e \in entries' : e \in entries \/ e.value = p.nonce
        BY <1>3
      <4> QED BY <1>4, <2>2, <3>1, <4>1, ZenonT(30) DEF RequestInv, Stored, Owns
    <3> QED BY <1>3, <3>1, <3>2, ZenonT(60) DEF RequestInv, SessionFor, IssuedAs, Stored,
               Taken, Used, Owns, Working, Succeeded
  <2> QED BY <2>1, <2>2
<1>9. \A x, y \in Requests :
        x # y /\ Owns(req'[x]) /\ Owns(req'[y]) => req'[x].nonce # req'[y].nonce
  BY <1>6, <1>7 DEF NonceInv, OneOwner, Owns, Working
<1>10. \A e \in entries' : IssuedAs(e.value, e.key, e.issuedAt)' /\ ~Taken(e.value)'
  <2> TAKE e \in entries'
  <2>1. CASE e \in entries
    BY <1>3, <2>1 DEF NonceInv, OneOwner, IssuedAs, Taken
  <2>2. CASE e = [key |-> p.sid, value |-> p.nonce, issuedAt |-> p.issuedAt]
    <3>1. e.key = p.sid /\ e.value = p.nonce /\ e.issuedAt = p.issuedAt
      BY <2>2
    <3>2. IssuedAs(p.nonce, p.sid, p.issuedAt) /\ ~Taken(p.nonce)
      BY <1>1 DEF RequestInv, Owns
    <3>3. IssuedAs(e.value, e.key, e.issuedAt) /\ ~Taken(e.value)
      BY <3>1, <3>2, SMTT(30)
    <3> QED BY <1>3, <3>3 DEF IssuedAs, Taken
  <2> QED BY <1>3, <2>1, <2>2
<1> QED BY <1>3, <1>8, <1>9, <1>10, SMTT(30) DEF NonceInv, OneOwner, SessionFor, Taken,
          Owns, Working, AtMostOneLogin

(***************************************************************************)
(* GetAndRemove moves a nonce from the store to the login that asked;      *)
(* whoever asks later does not find it.                                    *)
(***************************************************************************)
LEMMA TakeKeeps ==
  ASSUME NonceInv, NEW r \in Requests, TakeNonce(r)
  PROVE  OneOwner'
<1> DEFINE p == req[r]
<1>1. p \in Request /\ RequestInv(p) /\ p.pc = "take"
  BY SMTT(30) DEF NonceInv, TypeInv, TypeOK, OneOwner, TakeNonce, At
<1>2. PICK e \in entries :
        /\ GetAndRemove(p.sid, e)
        /\ taken' = taken \cup {[key |-> e.key, value |-> e.value]}
        /\ Become(r, [p EXCEPT !.pc = "expiry", !.nonce = e.value, !.issuedAt = e.issuedAt])
  BY Zenon DEF TakeNonce
<1> DEFINE q == [p EXCEPT !.pc = "expiry", !.nonce = e.value, !.issuedAt = e.issuedAt]
<1>3. req' = [req EXCEPT ![r] = q] /\ DOMAIN req = Requests
  BY <1>2 DEF Become, NonceInv, TypeInv, TypeOK
<1>4. UNCHANGED <<clock, accepted, sessions, issued, jar>>
  BY DEF TakeNonce, drawnVars, outsideVars
<1>5. /\ IssuedAs(e.value, e.key, e.issuedAt) /\ ~Taken(e.value)
      /\ e.key = p.sid /\ entries' = entries \ {e}
  BY <1>2 DEF GetAndRemove, EntryOf, NonceInv, OneOwner
<1>6. \A f \in entries : f # e => f.value # e.value
  <2> SUFFICES ASSUME NEW f \in entries, f.value = e.value PROVE f = e
    OBVIOUS
  <2>1. /\ f \in [key : Nat, value : Nat, issuedAt : Nat]
        /\ e \in [key : Nat, value : Nat, issuedAt : Nat]
    BY SMTT(30) DEF NonceInv, TypeInv, TypeOK
  <2>2. [sid |-> f.key, at |-> f.issuedAt] = [sid |-> e.key, at |-> e.issuedAt]
    BY DEF NonceInv, OneOwner, IssuedAs
  <2>3. f.key = e.key /\ f.issuedAt = e.issuedAt
    BY <2>2, SMTT(30)
  <2> QED BY <2>1, <2>3
<1>7. \A x \in Requests : RequestInv(req[x]) /\ (Owns(req[x]) => req[x].nonce # e.value)
  BY <1>5, ZenonT(60) DEF NonceInv, OneOwner, RequestInv, Owns, Stored, Working
<1>8. ~Used(e.value)
  BY <1>5, ZenonT(60) DEF NonceInv, OneOwner, Used
<1> HIDE DEF p
<1>9. /\ q.pc = "expiry" /\ q.kind = "login" /\ q.sid = p.sid /\ q.browser = p.browser
      /\ q.nonce = e.value /\ q.issuedAt = e.issuedAt /\ q.sid # 0
  BY <1>1 DEF Request, RequestInv
<1> HIDE DEF q
<1>10. req'[r] = q /\ \A x \in Requests : x # r => req'[x] = req[x]
  BY <1>3
<1> DEFINE t == [key |-> e.key, value |-> e.value]
<1>t. t.value = e.value /\ taken' = taken \cup {t}
  BY <1>2
<1> HIDE DEF t
<1>11. Taken(e.value)' /\ \A n : n # e.value => (Taken(n)' <=> Taken(n))
  BY <1>t DEF Taken
<1>12. \A x \in Requests : RequestInv(req[x])'
  <2> TAKE x \in Requests
  <2>1. CASE x = r
    <3>1. SessionFor(q.sid, q.browser)
      BY <1>1, <1>9, SMTT(30) DEF RequestInv
    <3>2. SessionFor(req[r].sid, req[r].browser)'
      BY <1>4, <1>10, <3>1, Zenon DEF SessionFor
    <3>3. IssuedAs(req[r].nonce, req[r].sid, req[r].issuedAt)'
      BY <1>4, <1>5, <1>9, <1>10, ZenonT(30) DEF IssuedAs
    <3>4. Taken(req[r].nonce)' /\ ~Used(req[r].nonce)'
      BY <1>4, <1>8, <1>9, <1>10, <1>11, ZenonT(30) DEF Taken, Used
    <3>5. /\ req'[r].pc = "expiry" /\ req'[r].kind = "login" /\ req'[r].sid # 0
          /\ ~Succeeded(req[r])'
      BY <1>9, <1>10 DEF Succeeded
    <3> QED BY <2>1, <3>2, <3>3, <3>4, <3>5, ZenonT(30) DEF RequestInv
  <2>2. CASE x # r
    <3>1. req'[x] = req[x] /\ RequestInv(req[x])
          /\ (Owns(req[x]) => req[x].nonce # e.value)
      BY <1>7, <1>10, <2>2, SMTT(30)
    <3>2. req[x].pc = "put" => ~Stored(req[x].nonce)' /\ ~Taken(req[x].nonce)'
      BY <1>2, <1>5, <3>1 DEF RequestInv, Stored, Taken, Owns
    <3>3. Taken(req[x].nonce) => Taken(req[x].nonce)'
      BY <1>2, <3>1, SMTT(30) DEF Taken
    <3> QED BY <1>4, <3>1, <3>2, <3>3, ZenonT(60) DEF RequestInv, SessionFor, IssuedAs,
               Stored, Taken, Used, Owns, Working, Succeeded
  <2> QED BY <2>1, <2>2
<1>13. \A x, y \in Requests :
         x # y /\ Owns(req'[x]) /\ Owns(req'[y]) => req'[x].nonce # req'[y].nonce
  BY <1>7, <1>9, <1>10, SMTT(30) DEF NonceInv, OneOwner
<1>14. \A f \in entries' : IssuedAs(f.value, f.key, f.issuedAt)' /\ ~Taken(f.value)'
  <2> TAKE f \in entries'
  <2>1. f \in entries /\ f.value # e.value
    BY <1>5, <1>6, SMTT(30)
  <2>2. IssuedAs(f.value, f.key, f.issuedAt) /\ ~Taken(f.value)
    BY <2>1 DEF NonceInv, OneOwner
  <2> QED BY <1>4, <1>11, <2>1, <2>2 DEF IssuedAs
<1>15. \A f \in taken' : f.value \in 1..Len(issued')
  BY <1>t, <1>4, <1>5, ZenonT(30) DEF NonceInv, OneOwner, IssuedAs
<1>16. \A i \in 1..Len(accepted') : Taken(accepted[i])'
  BY <1>2, <1>4 DEF NonceInv, OneOwner, Taken
<1> QED BY <1>4, <1>12, <1>13, <1>14, <1>15, <1>16, ZenonT(30) DEF NonceInv, OneOwner, SessionFor,
          Owns, Working, AtMostOneLogin

(***************************************************************************)
(* The login handler goes on only within the lifetime of the nonce.        *)
(***************************************************************************)
LEMMA ExpiryKeeps ==
  ASSUME NonceInv, NEW r \in Requests, CheckExpired(r)
  PROVE  OneOwner'
<1> DEFINE p == req[r]
           q == [p EXCEPT !.pc = "checks", !.checkedAt = clock]
<1>1. p \in Request /\ RequestInv(p) /\ p.pc = "expiry" /\ clock \in Nat
  BY DEF NonceInv, TypeInv, TypeOK, OneOwner, CheckExpired, At
<1>2. UNCHANGED nonceVars
  BY DEF CheckExpired, nonceVars, storeVars, drawnVars, outsideVars, historyVars
<1>3. CASE Expired(p.issuedAt, clock)
  <2>1. "nonceExpired" \in Results \ {"ok"}
    BY DEF Results
  <2> QED BY <1>2, <1>3, <2>1, FailingAnswer DEF CheckExpired
<1>4. CASE ~Expired(p.issuedAt, clock)
  <2>1. Become(r, q)
    BY <1>4 DEF CheckExpired
  <2>2. p.issuedAt <= clock
    <3>1. Working(p) /\ IssuedAs(p.nonce, p.sid, p.issuedAt)
      BY <1>1, ZenonT(30) DEF RequestInv, Working, Owns
    <3>2. p.nonce \in 1..Len(issued) /\ issued[p.nonce].at = p.issuedAt
      BY <3>1 DEF IssuedAs
    <3> QED BY <3>2, SMTT(30) DEF NonceInv, OneOwner
  <2>3. p.issuedAt \in Nat /\ clock \in p.issuedAt..p.issuedAt + NonceTTL
    BY <1>1, <1>4, <2>2, NonceTTLAssumption DEF Expired, Request
  <2> HIDE DEF p
  <2>4. /\ q \in Request /\ q.pc = "checks" /\ q.kind = "login" /\ q.checkedAt = clock
        /\ q.sid = p.sid /\ q.browser = p.browser /\ q.nonce = p.nonce
        /\ q.issuedAt = p.issuedAt /\ p.kind = "login"
    BY <1>1, ZenonT(60) DEF Request, Steps, RequestInv
  <2> HIDE DEF q
  <2>5. RequestInv(q) /\ Owns(p)
    BY <1>1, <2>3, <2>4 DEF RequestInv, Working, Succeeded, Owns
  <2> QED BY <1>2, <2>1, <2>4, <2>5, QuietStep DEF p
<1> QED BY <1>3, <1>4

(***************************************************************************)
(* An accepted login uses up a nonce that no login has used before and     *)
(* gives it up in the same step.                                           *)
(***************************************************************************)
LEMMA LoginKeeps ==
  ASSUME NonceInv, NEW r \in Requests, req[r].pc = "finish", req[r].kind = "login",
         Answer(r, "ok"), accepted' = Append(accepted, req[r].nonce),
         UNCHANGED <<clock, entries, taken, sessions, issued, jar>>
  PROVE  OneOwner'
<1> DEFINE p == req[r]
           q == Answered(p, "ok")
<1>1. p \in Request /\ RequestInv(p) /\ Working(p)
  BY DEF NonceInv, TypeInv, TypeOK, OneOwner, Working
<1>2. req' = [req EXCEPT ![r] = q] /\ DOMAIN req = Requests
  BY DEF Answer, Become, NonceInv, TypeInv, TypeOK
<1>3. accepted \in Seq(Nat) /\ p.nonce \in Nat
  BY <1>1, SMTT(30) DEF NonceInv, TypeInv, TypeOK, Request
<1>4. \A x \in Requests : /\ RequestInv(req[x])
                          /\ x # r /\ Owns(req[x]) => req[x].nonce # p.nonce
  BY <1>1 DEF NonceInv, OneOwner, Owns
<1>5. /\ Len(accepted') = Len(accepted) + 1 /\ Len(accepted) \in Nat
      /\ accepted'[Len(accepted) + 1] = p.nonce
      /\ \A i \in 1..Len(accepted) : accepted'[i] = accepted[i]
  BY <1>3, SMTT(30)
<1>6. Taken(p.nonce) /\ ~Used(p.nonce)
  BY <1>1 DEF RequestInv
<1> HIDE DEF p
<1>7. /\ q.pc = "reply" /\ q.result = "ok" /\ q.kind = p.kind /\ q.sid = p.sid
      /\ q.browser = p.browser /\ q.nonce = p.nonce /\ q.issuedAt = p.issuedAt
      /\ q.checkedAt = p.checkedAt
  BY <1>1 DEF Answered, Request
<1> HIDE DEF q
<1>8. req'[r] = q /\ \A x \in Requests : x # r => req'[x] = req[x]
  BY <1>2
<1>9. 1..Len(accepted') = 1..Len(accepted) \cup {Len(accepted) + 1}
  BY <1>5
<1>10. \A x \in Requests : RequestInv(req[x])'
  <2> TAKE x \in Requests
  <2>1. CASE x = r
    <3>1. p.pc = "finish" /\ p.kind = "login"
      BY SMTT(30) DEF p
    <3> QED BY <1>1, <1>6, <1>7, <1>8, <2>1, <3>1, ZenonT(60) DEF RequestInv, SessionFor,
             IssuedAs, Taken, Owns, Working, Succeeded
  <2>2. CASE x # r
    <3>1. req'[x] = req[x] /\ RequestInv(req[x])
      BY <1>4, <1>8, <2>2, ZenonT(60)
    <3>2. Working(req[x]) => \A i \in 1..Len(accepted') : accepted'[i] # req[x].nonce
      BY <1>4, <1>5, <1>9, <2>2, ZenonT(60) DEF RequestInv, Used, Owns
    <3> QED BY <3>1, <3>2, ZenonT(60) DEF RequestInv, SessionFor, IssuedAs, Stored, Taken,
               Used, Owns, Working, Succeeded
  <2> QED BY <2>1, <2>2, SMTT(30)
<1>11. \A x, y \in Requests :
         x # y /\ Owns(req'[x]) /\ Owns(req'[y]) => req'[x].nonce # req'[y].nonce
  BY <1>7, <1>8, SMTT(30) DEF NonceInv, OneOwner, Owns, Working
<1>12. \A i, j \in 1..Len(accepted') : accepted'[i] = accepted'[j] => i = j
  <2>1. \A i, j \in 1..Len(accepted) : accepted[i] = accepted[j] => i = j
    BY <1>3, SMTT(30) DEF NonceInv, OneOwner, AtMostOneLogin
  <2>2. \A i \in 1..Len(accepted) : accepted'[i] # p.nonce
    BY <1>5, <1>6 DEF Used
  <2> QED BY <1>5, <1>9, <2>1, <2>2, SMTT(30)
<1>13. DOMAIN accepted' = 1..Len(accepted')
  BY <1>3, SMTT(30) DEF p
<1>14. \A i \in 1..Len(accepted') : Taken(accepted'[i])
  BY <1>5, <1>6, <1>9 DEF NonceInv, OneOwner
<1>15. \A e \in entries' : IssuedAs(e.value, e.key, e.issuedAt)' /\ ~Taken(e.value)'
  BY ZenonT(30) DEF NonceInv, OneOwner, IssuedAs, Taken
<1>16. \A b \in Browsers : jar'[b].sid # 0 => SessionFor(jar[b].sid, b)'
  BY ZenonT(30) DEF NonceInv, OneOwner, SessionFor
<1>17. AtMostOneLogin'
  BY <1>12, <1>13, Zenon DEF AtMostOneLogin
<1> QED BY <1>10, <1>11, <1>14, <1>15, <1>16, <1>17, ZenonT(60) DEF NonceInv, OneOwner, Taken,
          Owns, Working

(***************************************************************************)
(* The bounds on drawn sessions and nonces, which the contract's constants *)
(* repeat.                                                                 *)
(***************************************************************************)
Bounded == Len(sessions) <= MaxSessions /\ Len(issued) <= MaxNonces

(***************************************************************************)
(* Nothing has been drawn at first.                                        *)
(***************************************************************************)
LEMMA BoundedInit == Init => Bounded
BY AuthAssumption DEF Init, Bounded

(***************************************************************************)
(* No step draws beyond the bounds.                                        *)
(***************************************************************************)
LEMMA BoundedNext == TypeInv /\ Bounded /\ [Next]_vars => Bounded'
<1> SUFFICES ASSUME TypeInv, Bounded, [Next]_vars PROVE Bounded'
  OBVIOUS
<1>0. /\ sessions \in Seq(Browsers) /\ issued \in Seq([sid : Nat, at : Nat])
      /\ MaxSessions \in Nat /\ MaxNonces \in Nat
  BY AuthAssumption DEF TypeInv, TypeOK
<1>1. ASSUME UNCHANGED drawnVars PROVE Bounded'
  BY <1>1 DEF Bounded, drawnVars
<1>2. ASSUME NEW b \in Browsers, EnsureSession(b) PROVE Len(sessions') <= MaxSessions
  <2>1. \/ sessions' = sessions
        \/ Len(sessions) < MaxSessions /\ sessions' = Append(sessions, b)
    BY <1>2, Zenon DEF EnsureSession
  <2> QED BY <1>0, <2>1 DEF Bounded
<1>3. ASSUME NEW r \in Requests, NEW b \in Browsers, ClientStep(r, b) PROVE Bounded'
  <2>1. ASSUME NEW site \in Sites, Challenge(r, b, site) PROVE Bounded'
    <3>1. Len(issued') <= MaxNonces
      BY <1>0, <2>1 DEF Challenge
    <3> QED BY <1>2, <2>1, <3>1 DEF Challenge, Bounded
  <2>2. ASSUME EnsureSession(b), UNCHANGED issued PROVE Bounded'
    BY <1>2, <2>2 DEF Bounded
  <2>3. ASSUME NEW site \in Sites, NEW kind \in Kinds, SessionFails(r, b, kind, site)
        PROVE  Bounded'
    BY <1>1, <2>3 DEF SessionFails
  <2>4. ASSUME NEW n, NEW token, SendValidate(r, b, n, token) PROVE Bounded'
    BY <1>1, <2>4 DEF SendValidate
  <2>5. ASSUME NEW site \in Sites, NEW token, SendLogin(r, b, site, token) PROVE Bounded'
    BY <2>2, <2>5 DEF SendLogin
  <2>6. ASSUME NEW site \in Sites, ChallengeFails(r, b, site) \/ LoginBadBody(r, b, site)
        PROVE  Bounded'
    BY <2>2, <2>6 DEF ChallengeFails, LoginBadBody
  <2> QED BY <1>3, <2>1, <2>3, <2>4, <2>5, <2>6, Zenon DEF ClientStep
<1>4. ASSUME NEW r \in Requests, ServerStep(r) \/ OcspAnswer(r) \/ Reply(r) PROVE Bounded'
  <2>1. UNCHANGED drawnVars
    BY <1>4, ZenonT(30) DEF ServerStep, OcspAnswer, Reply, PutNonce, NonceMissing, TakeNonce,
       CheckExpired, CheckCertificate, VerifyTrust, IssuerGone, AskResponder, OcspFails,
       FinishValidation, LoseReply
  <2> QED BY <1>1, <2>1, SMTT(30)
<1>5. CASE Tick \/ (\E cert \in Revocable : Revoke(cert)) \/ TrustStep \/ Restart
  BY <1>1, <1>5 DEF Tick, Revoke, TrustStep, Restart, authVars
<1>6. CASE UNCHANGED vars
  BY <1>1, <1>6 DEF vars, authVars
<1> QED BY <1>3, <1>4, <1>5, <1>6 DEF Next

(***************************************************************************)
(* What the contract knows of a stored nonce.                              *)
(***************************************************************************)
Pair(e) == [key |-> e.key, value |-> e.value]

(***************************************************************************)
(* The contract's pending nonces: the image of the map.                    *)
(***************************************************************************)
pendingBar == {Pair(e) : e \in entries}

(***************************************************************************)
(* InMemoryStore.Put, sweep included, is a Put of the contract: the nonce  *)
(* is unused and other sessions lose at most what has expired.             *)
(***************************************************************************)
LEMMA PutRefines ==
  ASSUME NonceInv, Bounded, NEW r \in Requests, PutNonce(r)
  PROVE  Contract!Next
<1> DEFINE k == req[r].sid
           v == req[r].nonce
           new == [key |-> k, value |-> v, issuedAt |-> req[r].issuedAt]
           keep == {e \in sweepLocked : e.key # k}
<1>1. RequestInv(req[r]) /\ req[r].pc = "put"
  BY DEF NonceInv, OneOwner, PutNonce, At
<1>2. /\ k \in 1..Len(sessions) /\ v \in 1..Len(issued)
      /\ ~Stored(v) /\ ~Taken(v)
  BY <1>1 DEF RequestInv, SessionFor, IssuedAs, Owns
<1>3. k \in 1..MaxSessions /\ v \in 1..MaxNonces
  <2>1. Len(sessions) \in Nat /\ Len(issued) \in Nat
    BY DEF NonceInv, TypeInv, TypeOK
  <2>2. MaxSessions \in Nat /\ MaxNonces \in Nat
    BY AuthAssumption, Zenon
  <2> QED BY <1>2, <2>1, <2>2 DEF Bounded
<1>4. entries' = keep \cup {new} /\ UNCHANGED taken
  BY DEF PutNonce, Put, historyVars
<1>5. \A e \in pendingBar \cup taken : e.value # v
  BY <1>2 DEF pendingBar, Pair, Stored, Taken
<1>6. Pair(new) = [key |-> k, value |-> v]
  BY DEF Pair
<1>7. keep \subseteq entries /\ \A e \in keep : e.key # k
  BY DEF sweepLocked
<1> HIDE DEF k, v, new, keep
<1>8. {Pair(e) : e \in keep} \in SUBSET {e \in pendingBar : e.key # k}
  BY <1>7 DEF pendingBar, Pair
<1>9. pendingBar' = {Pair(e) : e \in keep} \cup {[key |-> k, value |-> v]}
  BY <1>4, <1>6 DEF pendingBar
<1>10. PICK s \in 1..MaxSessions, n \in 1..MaxNonces : s = k /\ n = v
  BY <1>3
<1>11. Contract!Put(s, n)
  BY <1>4, <1>5, <1>8, <1>9, <1>10, ZenonT(30) DEF Contract!Put, Contract!Unused,
     pendingBar, Pair
<1> QED BY <1>11, Zenon DEF Contract!Next

(***************************************************************************)
(* InMemoryStore.GetAndRemove is a GetAndRemove of the contract.           *)
(***************************************************************************)
LEMMA TakeRefines ==
  ASSUME NonceInv, NEW r \in Requests, TakeNonce(r)
  PROVE  Contract!Next
<1>1. PICK e \in entries :
        /\ GetAndRemove(req[r].sid, e)
        /\ taken' = taken \cup {[key |-> e.key, value |-> e.value]}
  BY DEF TakeNonce
<1>2. entries' = entries \ {e} /\ taken' = taken \cup {Pair(e)} /\ Pair(e) \in pendingBar
  BY <1>1 DEF GetAndRemove, Pair, pendingBar
<1>3. \A f \in entries : Pair(f) = Pair(e) => f = e
  <2> SUFFICES ASSUME NEW f \in entries, Pair(f) = Pair(e) PROVE f = e
    OBVIOUS
  <2>1. f.key = e.key /\ f.value = e.value
    BY DEF Pair
  <2>2. f.issuedAt = e.issuedAt
    <3>1. [sid |-> f.key, at |-> f.issuedAt] = [sid |-> e.key, at |-> e.issuedAt]
      BY <2>1 DEF NonceInv, OneOwner, IssuedAs
    <3> QED BY <3>1
  <2>3. /\ f \in [key : Nat, value : Nat, issuedAt : Nat]
        /\ e \in [key : Nat, value : Nat, issuedAt : Nat]
    BY DEF NonceInv, TypeInv, TypeOK
  <2> QED BY <2>1, <2>2, <2>3
<1>4. pendingBar' = pendingBar \ {Pair(e)}
  BY <1>2, <1>3 DEF pendingBar
<1>5. \E p \in {[key |-> f.key, value |-> f.value] : f \in entries} :
        Contract!GetAndRemove(p)
  BY <1>2, <1>4, Zenon DEF Contract!GetAndRemove, pendingBar, Pair
<1> QED BY <1>5, Zenon DEF Contract!Next

(***************************************************************************)
(* Only three steps of the system touch the store.                         *)
(***************************************************************************)
LEMMA StoreSteps ==
  ASSUME [Next]_vars
  PROVE  \/ \E r \in Requests : PutNonce(r) \/ TakeNonce(r)
         \/ Restart
         \/ UNCHANGED <<entries, taken>>
<1>1. ASSUME NEW r \in Requests, ServerStep(r) \/ OcspAnswer(r) \/ Reply(r)
      PROVE  PutNonce(r) \/ TakeNonce(r) \/ UNCHANGED <<entries, taken>>
  BY <1>1, ZenonT(60) DEF ServerStep, OcspAnswer, Reply, NonceMissing, GetNotFound,
     CheckExpired, CheckCertificate, VerifyTrust, IssuerGone, AskResponder, OcspFails, FinishValidation,
     LoseReply, storeVars, historyVars
<1>2. ASSUME NEW r \in Requests, NEW b \in Browsers, ClientStep(r, b)
      PROVE  UNCHANGED <<entries, taken>>
  BY <1>2, ZenonT(60) DEF ClientStep, Challenge, ChallengeFails, LoginBadBody, SessionFails,
     SendLogin, SendValidate, storeVars, historyVars
<1>3. ASSUME Tick \/ (\E cert \in Revocable : Revoke(cert)) \/ TrustStep
      PROVE  UNCHANGED <<entries, taken>>
  BY <1>3 DEF Tick, Revoke, TrustStep, authVars, storeVars, historyVars
<1>4. ASSUME UNCHANGED vars PROVE UNCHANGED <<entries, taken>>
  BY <1>4 DEF vars, storeVars, authVars, historyVars
<1> QED BY <1>1, <1>2, <1>3, <1>4, SMTT(30) DEF Next

(***************************************************************************)
(* The end of Validate and of the handler keeps OneOwner.                  *)
(***************************************************************************)
LEMMA FinishKeeps ==
  ASSUME NonceInv, NEW r \in Requests, FinishValidation(r)
  PROVE  OneOwner'
<1>1. /\ req[r] \in Request /\ RequestInv(req[r]) /\ req[r].pc = "finish"
      /\ UNCHANGED <<clock, entries, taken, sessions, issued, jar>>
  BY DEF NonceInv, TypeInv, TypeOK, OneOwner, FinishValidation, At, storeVars, drawnVars,
     outsideVars
<1>2. PICK result \in {"badSignature", "noSubject", "noNationalID", "randomFailed", "ok"} :
        /\ Answer(r, result)
        /\ accepted' = IF result = "ok" /\ req[r].kind = "login"
                       THEN Append(accepted, req[r].nonce) ELSE accepted
  BY DEF FinishValidation, Outcomes, Issue
<1>3. CASE result = "ok" /\ req[r].kind = "login"
  BY <1>1, <1>2, <1>3, LoginKeeps
<1>4. CASE result # "ok"
  <2>1. result \in Results \ {"ok"}
    BY <1>4 DEF Results
  <2>2. UNCHANGED nonceVars
    BY <1>1, <1>2, <1>4 DEF nonceVars
  <2> QED BY <1>2, <2>1, <2>2, FailingAnswer
<1>5. CASE result = "ok" /\ req[r].kind # "login"
  <2> DEFINE q == Answered(req[r], "ok")
  <2>1. /\ q \in Request /\ q.pc = "reply" /\ q.kind # "login" /\ q.sid = req[r].sid
        /\ q.browser = req[r].browser
    <3>1. "ok" \in Results
      BY DEF Results
    <3>2. q \in Request
      BY <1>1, <3>1, AnsweredType
    <3> QED BY <1>1, <1>5, <3>2 DEF Answered, Request
  <2>2. Become(r, q) /\ UNCHANGED nonceVars
    BY <1>1, <1>2, <1>5, SMTT(30) DEF nonceVars, Answer
  <2> HIDE DEF q
  <2>3. RequestInv(q) /\ ~Owns(q)
    <3>1. ~Succeeded(q)
      BY <2>1 DEF Succeeded
    <3>2. req[r].sid # 0 => SessionFor(req[r].sid, req[r].browser)
      BY <1>1, ZenonT(30) DEF RequestInv
    <3> QED BY <2>1, <3>1, <3>2, AnswerOwnsNothing
  <2> QED BY <2>1, <2>2, <2>3, QuietStep
<1> QED BY <1>3, <1>4, <1>5

(***************************************************************************)
(* A free slot owns nothing.                                               *)
(***************************************************************************)
LEMMA IdleInv == RequestInv(Idle) /\ ~Owns(Idle)
<1>1. Idle.sid = 0 /\ Idle.pc = "idle"
  BY DEF Idle
<1> QED BY <1>1, ZenonT(30) DEF RequestInv, Owns, Working, Succeeded

(***************************************************************************)
(* The answer hands the browser the cookie of its own session.             *)
(***************************************************************************)
LEMMA ReplyKeeps ==
  ASSUME NonceInv, NEW r \in Requests, Reply(r)
  PROVE  OneOwner'
<1>1. /\ RequestInv(req[r]) /\ jar \in [Browsers -> [sid : Nat, expires : Nat]]
      /\ req' = [req EXCEPT ![r] = Idle] /\ DOMAIN req = Requests
      /\ UNCHANGED <<clock, entries, taken, accepted, sessions, issued>>
  BY DEF NonceInv, TypeInv, TypeOK, OneOwner, Reply, Become, storeVars, drawnVars, historyVars
<1>2. req'[r] = Idle /\ \A x \in Requests : x # r => req'[x] = req[x]
  BY <1>1, SMTT(30)
<1>3. \A x \in Requests : RequestInv(req[x])'
  <2> TAKE x \in Requests
  <2>1. RequestInv(req'[x])
    BY <1>2, IdleInv DEF NonceInv, OneOwner
  <2> QED BY <1>1, <2>1, ZenonT(30) DEF RequestInv, SessionFor, IssuedAs, Stored, Taken,
             Used, Owns, Working, Succeeded
<1>4. \A x, y \in Requests :
        x # y /\ Owns(req'[x]) /\ Owns(req'[y]) => req'[x].nonce # req'[y].nonce
  BY <1>2, IdleInv, SMTT(30) DEF NonceInv, OneOwner
<1>5. \A c \in Browsers : jar'[c].sid # 0 => SessionFor(jar'[c].sid, c)
  <2> TAKE c \in Browsers
  <2>1. jar'[c] = jar[c] \/ (c = req[r].browser /\ jar'[c].sid = req[r].sid)
    BY <1>1 DEF Reply
  <2>2. req[r].sid # 0 => SessionFor(req[r].sid, req[r].browser)
    BY <1>1, ZenonT(30) DEF RequestInv
  <2>3. jar[c].sid # 0 => SessionFor(jar[c].sid, c)
    BY ZenonT(30) DEF NonceInv, OneOwner
  <2> QED BY <2>1, <2>2, <2>3
<1>6. \A c \in Browsers : jar'[c].sid # 0 => SessionFor(jar[c].sid, c)'
  BY <1>1, <1>5 DEF SessionFor
<1>7. /\ (\A e \in entries : IssuedAs(e.value, e.key, e.issuedAt) /\ ~Taken(e.value))'
      /\ (\A e \in taken : e.value \in 1..Len(issued))'
      /\ (\A i \in 1..Len(accepted) : Taken(accepted[i]))'
      /\ (\A n \in 1..Len(issued) : issued[n].at <= clock)'
      /\ AtMostOneLogin'
  BY <1>1, ZenonT(30) DEF NonceInv, OneOwner, IssuedAs, Taken, AtMostOneLogin
<1> QED BY <1>3, <1>4, <1>6, <1>7, ZenonT(30) DEF OneOwner, Owns, Working

(***************************************************************************)
(* Every step of a handler keeps OneOwner.                                 *)
(***************************************************************************)
LEMMA ServerStepKeeps ==
  ASSUME NonceInv, NEW r \in Requests, ServerStep(r) \/ OcspAnswer(r) \/ Reply(r)
  PROVE  OneOwner'
<1> DEFINE p == req[r]
           Fails == \E result \in Results \ {"ok"} : Answer(r, result)
<1>p. p \in Request /\ clock \in Nat /\ (p.pc \in Validating => p.token \in Token)
  BY DEF NonceInv, TypeInv, TypeOK, TypedRequest
<1>k. {"nonceNotFound", "badCertificate", "notTrusted", "ocspFailed", "revoked"}
        \subseteq Results \ {"ok"}
  BY DEF Results
<1>f. ASSUME Fails, UNCHANGED nonceVars PROVE OneOwner'
  BY <1>f, FailingAnswer
<1>q. ASSUME UNCHANGED <<storeVars, trustVars, drawnVars, outsideVars, historyVars>>
      PROVE  UNCHANGED nonceVars
  BY <1>q DEF nonceVars, storeVars, drawnVars, outsideVars, historyVars
<1>1. ASSUME NonceMissing(r) PROVE OneOwner'
  <2>1. UNCHANGED nonceVars
    BY <1>1 DEF NonceMissing, GetNotFound, nonceVars, drawnVars, outsideVars, historyVars
  <2> QED BY <1>1, <1>f, <1>k, <2>1 DEF NonceMissing
<1>2. ASSUME CheckCertificate(r) PROVE OneOwner'
  <2> DEFINE q == [p EXCEPT !.pc = "trust", !.now = clock]
  <2>1. Fails \/ Become(r, q)
    BY <1>2, <1>k DEF CheckCertificate
  <2>2. p.pc \in Late /\ UNCHANGED nonceVars
    BY <1>2, <1>q DEF CheckCertificate, At, Late
  <2>3. /\ q \in Request /\ q.pc \in Late /\ q.kind = p.kind /\ q.browser = p.browser
        /\ q.sid = p.sid /\ q.nonce = p.nonce /\ q.issuedAt = p.issuedAt
        /\ q.checkedAt = p.checkedAt
    BY <1>p, ZenonT(30) DEF Request, Steps, Late
  <2> QED BY <1>f, <2>1, <2>2, <2>3, LateStep, Zenon
<1>3. ASSUME VerifyTrust(r) PROVE OneOwner'
  <2>1. Fails \/ \E step \in {"issuer", "finish"} : Become(r, [p EXCEPT !.pc = step])
    BY <1>3, <1>k DEF VerifyTrust
  <2>2. p.pc \in Late /\ UNCHANGED nonceVars
    BY <1>3, <1>q DEF VerifyTrust, At, Late
  <2>3. ASSUME NEW step \in {"issuer", "finish"}, Become(r, [p EXCEPT !.pc = step])
        PROVE  OneOwner'
    <3> DEFINE q == [p EXCEPT !.pc = step]
    <3>1. /\ q \in Request /\ q.pc \in Late /\ q.kind = p.kind /\ q.browser = p.browser
          /\ q.sid = p.sid /\ q.nonce = p.nonce /\ q.issuedAt = p.issuedAt
          /\ q.checkedAt = p.checkedAt
      BY <1>p DEF Request, Steps, Late
    <3> QED BY <2>2, <2>3, <3>1, LateStep, ZenonT(30)
  <2> QED BY <1>f, <2>1, <2>2, <2>3
<1>4. ASSUME IssuerGone(r) PROVE OneOwner'
  <2>1. Answer(r, "notTrusted") /\ UNCHANGED nonceVars
    BY <1>4, <1>q DEF IssuerGone
  <2> QED BY <1>f, <1>k, <2>1, ZenonT(30)
<1>5. ASSUME AskResponder(r) PROVE OneOwner'
  <2>1. p.pc \in Late /\ p.token \in Token /\ UNCHANGED nonceVars
    BY <1>5, <1>p, <1>q, SMTT(30) DEF AskResponder, At, Late, Validating
  <2>2. \A issuer : responderOf(p.token.cert, issuer) \in URLs
    BY <2>1, SMTT(30) DEF responderOf, URLs, Token
  <2>3. Fails \/ \E url \in URLs : Become(r, [p EXCEPT !.pc = "ocsp", !.url = url])
    BY <1>5, <1>k, <2>2, ZenonT(30) DEF AskResponder
  <2>4. ASSUME NEW url \in URLs, Become(r, [p EXCEPT !.pc = "ocsp", !.url = url])
        PROVE  OneOwner'
    <3> DEFINE q == [p EXCEPT !.pc = "ocsp", !.url = url]
    <3>1. /\ q \in Request /\ q.pc \in Late /\ q.kind = p.kind /\ q.browser = p.browser
          /\ q.sid = p.sid /\ q.nonce = p.nonce /\ q.issuedAt = p.issuedAt
          /\ q.checkedAt = p.checkedAt
      BY <1>p, Zenon DEF Request, Steps, Late
    <3> QED BY <2>1, <2>4, <3>1, LateStep, Zenon
  <2> QED BY <1>f, <2>1, <2>3, <2>4, Zenon
<1>6. ASSUME OcspAnswer(r) PROVE OneOwner'
  <2> DEFINE q == [p EXCEPT !.pc = "finish", !.ocspAt = clock]
  <2>1. Become(r, q) \/ \E verdict \in {"ocspFailed", "revoked"} : Answer(r, verdict)
    BY <1>6, OcspVerdict DEF OcspAnswer
  <2>2. p.pc \in Late /\ UNCHANGED nonceVars
    BY <1>6, <1>q DEF OcspAnswer, At, Late
  <2>3. /\ q \in Request /\ q.pc \in Late /\ q.kind = p.kind /\ q.browser = p.browser
        /\ q.sid = p.sid /\ q.nonce = p.nonce /\ q.issuedAt = p.issuedAt
        /\ q.checkedAt = p.checkedAt
    BY <1>p, Zenon DEF Request, Steps, Late
  <2> QED BY <1>f, <1>k, <2>1, <2>2, <2>3, LateStep, ZenonT(30)
<1>7. ASSUME OcspFails(r) PROVE OneOwner'
  BY <1>7, <1>f, <1>k, <1>q DEF OcspFails
<1>8. ASSUME LoseReply(r) PROVE OneOwner'
  <2>1. Become(r, Idle) /\ UNCHANGED nonceVars
    BY <1>8, <1>q DEF LoseReply
  <2> QED BY <2>1, IdleType, IdleInv, QuietStep
<1> QED BY <1>1, <1>2, <1>3, <1>4, <1>5, <1>6, <1>7, <1>8, PutKeeps, TakeKeeps,
           ExpiryKeeps, FinishKeeps, ReplyKeeps, SMTT(30) DEF ServerStep

(***************************************************************************)
(* A step that changes at most the clock keeps OneOwner.                   *)
(***************************************************************************)
LEMMA Untouched ==
  ASSUME NonceInv, UNCHANGED <<entries, taken, accepted, sessions, issued, jar, req>>,
         clock' \in {clock, clock + 1}
  PROVE  OneOwner'
<1>1. \A n \in 1..Len(issued) : issued[n].at <= clock'
  <2> TAKE n \in 1..Len(issued)
  <2>1. issued \in Seq([sid : Nat, at : Nat]) /\ clock \in Nat
    BY DEF NonceInv, TypeInv, TypeOK
  <2>2. issued[n].at \in Nat
    <3>1. \A S : issued \in Seq(S) => issued[n] \in S
      OBVIOUS
    <3>2. issued[n] \in [sid : Nat, at : Nat]
      BY <2>1, <3>1, Zenon
    <3> QED BY <3>2
  <2>3. issued[n].at <= clock
    <3>1. \A m \in 1..Len(issued) : issued[m].at <= clock
      BY ZenonT(30) DEF NonceInv, OneOwner
    <3> QED BY <3>1
  <2>4. clock \in Nat
    BY <2>1
  <2> QED BY <2>2, <2>3, <2>4
<1>2. \A x \in Requests : RequestInv(req[x])'
  <2> TAKE x \in Requests
  <2>1. req'[x] = req[x] /\ RequestInv(req[x])
    BY Zenon DEF NonceInv, OneOwner
  <2> QED BY <2>1, ZenonT(60) DEF RequestInv, SessionFor, IssuedAs, Stored, Taken, Used,
             Owns, Working, Succeeded
<1> QED BY <1>1, <1>2, ZenonT(60) DEF NonceInv, OneOwner, SessionFor, IssuedAs, Taken, Owns,
           Working, AtMostOneLogin

(***************************************************************************)
(* Time, revocation, trust reload and restart keep OneOwner: the store and *)
(* the requests of a process that restarts are gone, the history stays.    *)
(***************************************************************************)
LEMMA EnvironmentStepKeeps ==
  ASSUME NonceInv,
         Tick \/ (\E cert \in Revocable : Revoke(cert)) \/ TrustStep \/ Restart
  PROVE  OneOwner'
<1>1. CASE Tick
  BY <1>1, Untouched DEF Tick, authVars, drawnVars, outsideVars, historyVars
<1>2. CASE \E cert \in Revocable : Revoke(cert)
  BY <1>2, Untouched DEF Revoke, storeVars, drawnVars, historyVars
<1>3. CASE TrustStep
  BY <1>3, Untouched, SMTT(30) DEF TrustStep, storeVars, authVars, drawnVars, outsideVars,
     historyVars
<1>4. CASE Restart
  <2>1. /\ \A x \in Requests : req'[x] = Idle
        /\ entries' = {}
        /\ UNCHANGED <<clock, taken, accepted, sessions, issued, jar>>
    BY <1>4, SMTT(30) DEF Restart, drawnVars, historyVars
  <2>2. \A x \in Requests : RequestInv(req[x])' /\ ~Owns(req'[x])
    <3>1. Idle.sid = 0 /\ Idle.pc = "idle"
      BY DEF Idle
    <3> QED BY <2>1, <3>1, ZenonT(30) DEF RequestInv, Owns, Working, Succeeded
  <2>3. /\ (\A e \in taken : e.value \in 1..Len(issued))'
        /\ (\A i \in 1..Len(accepted) : Taken(accepted[i]))'
        /\ (\A n \in 1..Len(issued) : issued[n].at <= clock)'
        /\ (\A b \in Browsers : jar[b].sid # 0 => SessionFor(jar[b].sid, b))'
        /\ AtMostOneLogin'
    BY <2>1, ZenonT(30) DEF NonceInv, OneOwner, SessionFor, Taken, AtMostOneLogin
  <2>4. (\A e \in entries : IssuedAs(e.value, e.key, e.issuedAt) /\ ~Taken(e.value))'
    BY <2>1
  <2> QED BY <2>2, <2>3, <2>4, ZenonT(30) DEF OneOwner, Owns, Working
<1> QED BY <1>1, <1>2, <1>3, <1>4

(***************************************************************************)
(* Nothing is owned at first.                                              *)
(***************************************************************************)
LEMMA InitOwner == Init => NonceInv
<1> SUFFICES ASSUME Init PROVE OneOwner
  BY InitType DEF NonceInv
<1>1. /\ \A x \in Requests : req[x] = Idle
      /\ entries = {} /\ taken = {} /\ accepted = <<>> /\ issued = <<>>
      /\ \A b \in Browsers : jar[b].sid = 0
  BY DEF Init
<1>2. \A x \in Requests : RequestInv(req[x]) /\ ~Owns(req[x])
  BY <1>1, IdleInv
<1>3. AtMostOneLogin
  BY <1>1 DEF AtMostOneLogin
<1>4. \A n \in 1..Len(issued) : issued[n].at <= clock
  BY <1>1
<1>5. \A i \in 1..Len(accepted) : Taken(accepted[i])
  BY <1>1
<1> QED BY <1>1, <1>2, <1>3, <1>4, <1>5, ZenonT(30) DEF OneOwner

(***************************************************************************)
(* NonceInv is inductive.                                                  *)
(***************************************************************************)
LEMMA NextOwner == NonceInv /\ [Next]_vars => NonceInv'
<1> SUFFICES ASSUME NonceInv, [Next]_vars PROVE OneOwner'
  BY NextType DEF NonceInv
<1>1. CASE Next
  BY <1>1, ServerStepKeeps, ClientStepKeeps, EnvironmentStepKeeps, SMTT(30) DEF Next
<1>2. CASE UNCHANGED vars
  BY <1>2, Untouched DEF vars, storeVars, authVars, drawnVars, outsideVars, historyVars
<1> QED BY <1>1, <1>2

(***************************************************************************)
(* Every nonce has one owner at any time: the challenge that stores it,    *)
(* the store, or the login that took it.                                   *)
(***************************************************************************)
THEOREM Ownership == Spec => []OneOwner
<1>1. NonceInv => OneOwner
  BY DEF NonceInv
<1> QED BY <1>1, InitOwner, NextOwner, PTL DEF Spec

(***************************************************************************)
(* No nonce logs in twice, whatever the interleaving of logins, the loss   *)
(* of answers and the restarts (login and InMemoryStore.GetAndRemove).     *)
(***************************************************************************)
THEOREM SingleUse == Spec => []AtMostOneLogin
<1>1. OneOwner => AtMostOneLogin
  BY SMTT(30) DEF OneOwner
<1> QED BY <1>1, Ownership, PTL

(***************************************************************************)
(* What OneOwner says of a login that has been accepted.                   *)
(***************************************************************************)
LEMMA LoggedInFacts ==
  ASSUME OneOwner, NEW r \in Requests, LoggedIn(r)
  PROVE  /\ IssuedAs(req[r].nonce, req[r].sid, req[r].issuedAt)
         /\ SessionFor(req[r].sid, req[r].browser)
         /\ req[r].checkedAt \in req[r].issuedAt..req[r].issuedAt + NonceTTL
<1>1. Succeeded(req[r]) /\ RequestInv(req[r])
  BY ZenonT(30) DEF LoggedIn, Accepted, At, Succeeded, OneOwner
<1> QED BY <1>1, ZenonT(60) DEF RequestInv

(***************************************************************************)
(* An accepted login came in the session for which its nonce was drawn,    *)
(* from the browser of that session (EnsureSession, SessionKey).           *)
(***************************************************************************)
THEOREM BoundToSession == Spec => []SessionBinding
<1>1. OneOwner => SessionBinding
  <2> SUFFICES ASSUME OneOwner, NEW r \in Requests, LoggedIn(r)
               PROVE  /\ issued[req[r].nonce].sid = req[r].sid
                      /\ sessions[req[r].sid] = req[r].browser
    BY ZenonT(30) DEF SessionBinding
  <2>1. /\ issued[req[r].nonce] = [sid |-> req[r].sid, at |-> req[r].issuedAt]
        /\ sessions[req[r].sid] = req[r].browser
    BY LoggedInFacts, ZenonT(30) DEF IssuedAs, SessionFor
  <2>2. [sid |-> req[r].sid, at |-> req[r].issuedAt].sid = req[r].sid
    OBVIOUS
  <2> QED BY <2>1, <2>2, ZenonT(30)
<1> QED BY <1>1, Ownership, PTL

(***************************************************************************)
(* An accepted login passed the expiry check of the login handler within   *)
(* the lifetime of its nonce, counted from the draw.                       *)
(***************************************************************************)
THEOREM UsedInTime == Spec => []WithinTTL
<1>1. OneOwner => WithinTTL
  <2> SUFFICES ASSUME OneOwner, NEW r \in Requests, LoggedIn(r)
               PROVE  req[r].checkedAt \in
                        issued[req[r].nonce].at..issued[req[r].nonce].at + NonceTTL
    BY ZenonT(30) DEF WithinTTL
  <2>1. /\ issued[req[r].nonce] = [sid |-> req[r].sid, at |-> req[r].issuedAt]
        /\ req[r].checkedAt \in req[r].issuedAt..req[r].issuedAt + NonceTTL
    BY LoggedInFacts, ZenonT(30) DEF IssuedAs
  <2>2. [sid |-> req[r].sid, at |-> req[r].issuedAt].at = req[r].issuedAt
    OBVIOUS
  <2> QED BY <2>1, <2>2, ZenonT(30)
<1> QED BY <1>1, Ownership, PTL

(***************************************************************************)
(* The in-memory store keeps the promise of ChallengeNonceStore under      *)
(* every interleaving of the handlers and across restarts.                 *)
(***************************************************************************)
THEOREM ContractRefined == Spec => StoreKeepsContract
<1>1. Init => Contract!Init
  BY DEF Init, Contract!Init
<1>2. NonceInv /\ Bounded /\ [Next]_vars => [Contract!Next]_(Contract!contractVars)
  <2> SUFFICES ASSUME NonceInv, Bounded, [Next]_vars
               PROVE  Contract!Next \/ UNCHANGED Contract!contractVars
    OBVIOUS
  <2>1. ASSUME NEW r \in Requests, PutNonce(r) PROVE Contract!Next
    BY <2>1, PutRefines
  <2>2. ASSUME NEW r \in Requests, TakeNonce(r) PROVE Contract!Next
    BY <2>2, TakeRefines
  <2>3. CASE Restart
    <3>1. Contract!Lose
      BY <2>3 DEF Restart, historyVars, Contract!Lose
    <3> QED BY <3>1 DEF Contract!Next
  <2>4. CASE UNCHANGED <<entries, taken>>
    BY <2>4 DEF Contract!contractVars
  <2> QED BY <2>1, <2>2, <2>3, <2>4, StoreSteps
<1>3. NonceInv => TypeInv
  BY DEF NonceInv
<1> QED BY <1>1, <1>2, <1>3, InitOwner, NextOwner, BoundedInit, BoundedNext, PTL
        DEF Spec, StoreKeepsContract, Contract!Spec

(***************************************************************************)
(* A step that the contract allows keeps one holder for every nonce.       *)
(***************************************************************************)
LEMMA ContractStep ==
  ASSUME Contract!OneHolder, [Contract!Next]_(Contract!contractVars)
  PROVE  Contract!OneHolder'
<1>1. PICK P : P = pendingBar
  OBVIOUS
<1>2. PICK Q : Q = pendingBar'
  OBVIOUS
<1>3. /\ \A e, f \in P : e.key = f.key => e = f
      /\ \A e, f \in P \cup taken : e.value = f.value => e = f
      /\ P \cap taken = {}
  BY <1>1, Zenon DEF Contract!OneHolder, pendingBar, Pair
<1>4. \/ \E k \in 1..MaxSessions, v \in 1..MaxNonces :
           /\ \A e \in P \cup taken : e.value # v
           /\ \E keep \in SUBSET {e \in P : e.key # k} :
                Q = keep \cup {[key |-> k, value |-> v]}
           /\ UNCHANGED taken
      \/ \E e \in P : Q = P \ {e} /\ taken' = taken \cup {e}
      \/ Q \in SUBSET P /\ UNCHANGED taken
      \/ Q = P /\ UNCHANGED taken
  BY <1>1, <1>2, ZenonT(30) DEF Contract!Next, Contract!Put, Contract!Unused,
     Contract!GetAndRemove, Contract!Lose, Contract!contractVars, pendingBar, Pair
<1>5. /\ \A e, f \in Q : e.key = f.key => e = f
      /\ \A e, f \in Q \cup taken' : e.value = f.value => e = f
      /\ Q \cap taken' = {}
  <2>1. ASSUME NEW k \in 1..MaxSessions, NEW v \in 1..MaxNonces,
               \A e \in P \cup taken : e.value # v,
               NEW keep \in SUBSET {e \in P : e.key # k},
               Q = keep \cup {[key |-> k, value |-> v]}, UNCHANGED taken
        PROVE  <1>5!:
    <3>1. PICK n : n = [key |-> k, value |-> v]
      OBVIOUS
    <3>2. n.key = k /\ n.value = v
      BY <3>1
    <3>3. Q = keep \cup {n} /\ keep \subseteq P /\ \A e \in keep : e.key # k
      BY <2>1, <3>1
    <3> QED BY <1>3, <2>1, <3>2, <3>3, ZenonT(30)
  <2>2. ASSUME NEW e \in P, Q = P \ {e}, taken' = taken \cup {e}
        PROVE  <1>5!:
    BY <1>3, <2>2
  <2>3. CASE Q \in SUBSET P /\ UNCHANGED taken
    BY <1>3, <2>3
  <2> QED BY <1>4, <2>1, <2>2, <2>3, ZenonT(30)
<1> QED BY <1>2, <1>5, Zenon DEF Contract!OneHolder, pendingBar, Pair

(***************************************************************************)
(* So the contract means what the interface says, and the in-memory store  *)
(* keeps it: a session has one nonce at a time, no nonce has two sessions, *)
(* and none that GetAndRemove handed out is stored again.                  *)
(***************************************************************************)
THEOREM OneHolderInMemory == Spec => []Contract!OneHolder
<1>1. Contract!Init => Contract!OneHolder
  BY DEF Contract!Init, Contract!OneHolder
<1>2. StoreKeepsContract => []Contract!OneHolder
  BY <1>1, ContractStep, PTL DEF StoreKeepsContract, Contract!Spec
<1> QED BY <1>2, ContractRefined, PTL

(***************************************************************************)
(* A nonce that has not expired leaves the store only by being handed out, *)
(* by being replaced in its own session, or with the process (sweepLocked, *)
(* Put and GetAndRemove).                                                  *)
(***************************************************************************)
THEOREM LiveNoncesStay == Spec => LiveNonceKept
<1>1. NonceInv /\ [Next]_vars =>
        [\A e \in entries \ entries' :
           \/ Expired(e.issuedAt, clock)
           \/ [key |-> e.key, value |-> e.value] \in taken' \ taken
           \/ \E f \in entries' \ entries : f.key = e.key
           \/ restarts' # restarts]_vars
  <2> SUFFICES ASSUME NonceInv, [Next]_vars, NEW e \in entries \ entries'
               PROVE  \/ Expired(e.issuedAt, clock)
                      \/ [key |-> e.key, value |-> e.value] \in taken' \ taken
                      \/ \E f \in entries' \ entries : f.key = e.key
                      \/ restarts' # restarts
    OBVIOUS
  <2>1. ASSUME NEW r \in Requests, PutNonce(r), ~Expired(e.issuedAt, clock)
        PROVE  \E f \in entries' \ entries : f.key = e.key
    <3> DEFINE new == [key |-> req[r].sid, value |-> req[r].nonce, issuedAt |-> req[r].issuedAt]
    <3>1. e.key = req[r].sid /\ new \in entries'
      BY <2>1 DEF PutNonce, Put, sweepLocked
    <3>2. new.key = req[r].sid /\ new.value = req[r].nonce
      OBVIOUS
    <3>3. ~Stored(req[r].nonce)
      BY <2>1 DEF NonceInv, OneOwner, RequestInv, PutNonce, At
    <3> HIDE DEF new
    <3>4. new \notin entries
      BY <3>2, <3>3 DEF Stored
    <3> QED BY <3>1, <3>2, <3>4
  <2>2. ASSUME NEW r \in Requests, TakeNonce(r)
        PROVE  [key |-> e.key, value |-> e.value] \in taken' \ taken
    <3>1. [key |-> e.key, value |-> e.value] \in taken'
      BY <2>2 DEF TakeNonce, GetAndRemove
    <3>2. ~Taken(e.value)
      BY DEF NonceInv, OneOwner
    <3>3. [key |-> e.key, value |-> e.value] \notin taken
      BY <3>2 DEF Taken
    <3> QED BY <3>1, <3>3
  <2>3. CASE Restart
    <3>1. restarts \in Nat /\ restarts' = restarts + 1
      BY <2>3 DEF Restart, NonceInv, TypeInv, TypeOK
    <3> QED BY <3>1
  <2>4. ~UNCHANGED <<entries, taken>>
    OBVIOUS
  <2> QED BY <2>1, <2>2, <2>3, <2>4, StoreSteps
<1> QED BY <1>1, InitOwner, NextOwner, PTL DEF Spec, LiveNonceKept

(***************************************************************************)
(* After a Put nothing expired is left in the map (sweepLocked).           *)
(***************************************************************************)
THEOREM PutSweeps == Spec => ExpiredSwept
<1>1. NonceInv /\ [Next]_vars =>
        [entries' \ entries # {} =>
           \A e \in entries \cap entries' : clock - e.issuedAt <= NonceTTL]_vars
  <2> SUFFICES ASSUME NonceInv, [Next]_vars, entries' \ entries # {},
                      NEW e \in entries \cap entries'
               PROVE  clock - e.issuedAt <= NonceTTL
    OBVIOUS
  <2>1. PICK r \in Requests : PutNonce(r)
    BY StoreSteps, ZenonT(30) DEF TakeNonce, GetAndRemove, Restart
  <2>2. RequestInv(req[r]) /\ req[r].pc = "put"
    BY <2>1, ZenonT(30) DEF NonceInv, OneOwner, PutNonce, At
  <2>3. e # [key |-> req[r].sid, value |-> req[r].nonce, issuedAt |-> req[r].issuedAt]
    <3>1. ~Stored(req[r].nonce)
      BY <2>2, ZenonT(30) DEF RequestInv
    <3>2. e.value # req[r].nonce
      BY <3>1, ZenonT(30) DEF Stored
    <3>3. [key |-> req[r].sid, value |-> req[r].nonce, issuedAt |-> req[r].issuedAt].value
            = req[r].nonce
      OBVIOUS
    <3> QED BY <3>2, <3>3, Zenon
  <2>4. ~Expired(e.issuedAt, clock)
    BY <2>1, <2>3 DEF PutNonce, Put, sweepLocked
  <2>5. e.issuedAt \in Nat /\ clock \in Nat
    BY DEF NonceInv, TypeInv, TypeOK
  <2> QED BY <2>4, <2>5, NonceTTLAssumption DEF Expired
<1> QED BY <1>1, InitOwner, NextOwner, PTL DEF Spec, ExpiredSwept
============================================================================
