--------------------------- MODULE NonceContract ---------------------------
(***************************************************************************)
(* What every ChallengeNonceStore promises (store.go): a session holds at  *)
(* most one nonce, a later one replaces it, and GetAndRemove hands a nonce *)
(* out once, to the session it was stored for.  Nonces may also disappear  *)
(* without being handed out: they expire, are replaced or are lost with    *)
(* the process.                                                            *)
(***************************************************************************)
CONSTANTS Keys, Values

VARIABLES
  pending,   \* stored nonces: a set of [key, value]
  taken      \* nonces handed out by GetAndRemove: a set of [key, value]

contractVars == <<pending, taken>>

Nonce == [key : Keys, value : Values]

Unused(v) == \A e \in pending \cup taken : e.value # v

Init == pending = {} /\ taken = {}

(* Put: v is fresh; others that expired may be dropped on the way. *)
Put(k, v) ==
  /\ Unused(v)
  /\ \E keep \in SUBSET {e \in pending : e.key # k} :
       pending' = keep \cup {[key |-> k, value |-> v]}
  /\ UNCHANGED taken

GetAndRemove(e) ==
  /\ e \in pending
  /\ pending' = pending \ {e}
  /\ taken' = taken \cup {e}

Lose ==
  /\ pending' \in SUBSET pending
  /\ UNCHANGED taken

Next ==
  \/ \E k \in Keys, v \in Values : Put(k, v)
  \/ \E e \in pending : GetAndRemove(e)
  \/ Lose

Spec == Init /\ [][Next]_contractVars

(***************************************************************************)
(* What a caller of the interface gets from that: a session has one nonce  *)
(* at a time, a value belongs to one session, and a nonce that was handed  *)
(* out is not stored again.                                                *)
(***************************************************************************)
OneHolder ==
  /\ \A e, f \in pending : e.key = f.key => e = f
  /\ \A e, f \in pending \cup taken : e.value = f.value => e = f
  /\ pending \cap taken = {}
============================================================================
