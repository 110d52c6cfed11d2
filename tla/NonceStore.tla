---------------------------- MODULE NonceStore ----------------------------
(***************************************************************************)
(* The challenge-nonce store of package webeid (InMemoryStore), which      *)
(* keeps at most one nonce per session.  Every operation runs under the    *)
(* mutex, so each is one step.  The Go map is a set of entries with        *)
(* distinct keys.                                                          *)
(***************************************************************************)
EXTENDS Integers

CONSTANT NonceTTL     \* lifetime of a nonce, in ticks

ASSUME NonceTTLAssumption == NonceTTL \in Nat \ {0}

VARIABLES
  clock,    \* the wall clock, in ticks
  entries   \* the map: a set of [key, value, issuedAt]

MutantExpiredAtTwice(issuedAt, t) == t - issuedAt > 2 * NonceTTL

(* ChallengeNonce.Expired: strictly older than the lifetime. *)
Expired(issuedAt, t) == t - issuedAt > NonceTTL

MutantSweepTooEarly == {e \in entries : clock - e.issuedAt < NonceTTL}

MutantNoSweep == entries

(* sweepLocked, which only Put calls. *)
sweepLocked == {e \in entries : ~Expired(e.issuedAt, clock)}

MutantPutWithoutTime(key, value, issuedAt) ==
  entries' = {e \in sweepLocked : e.key # key} \cup {[key |-> key, value |-> value]}

MutantPutKeepsOld(key, value, issuedAt) ==
  entries' = sweepLocked \cup {[key |-> key, value |-> value, issuedAt |-> issuedAt]}

Put(key, value, issuedAt) ==
  entries' = {e \in sweepLocked : e.key # key}
               \cup {[key |-> key, value |-> value, issuedAt |-> issuedAt]}

EntryOf(key) == {e \in entries : e.key = key}

MutantGetWithoutRemove(key, e) ==
  /\ e \in EntryOf(key)
  /\ UNCHANGED entries

MutantGetAnySession(key, e) ==
  /\ e \in entries
  /\ entries' = entries \ {e}

(* GetAndRemove when the session has a nonce e: no sweep, no expiry check. *)
GetAndRemove(key, e) ==
  /\ e \in EntryOf(key)
  /\ entries' = entries \ {e}

(* GetAndRemove when it has none: ErrChallengeNonceNotFound. *)
GetNotFound(key) ==
  /\ EntryOf(key) = {}
  /\ UNCHANGED entries
============================================================================
