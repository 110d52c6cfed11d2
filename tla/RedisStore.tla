---------------------------- MODULE RedisStore ----------------------------
(***************************************************************************)
(* The nonce store of package redisstore, which the processes of a cluster *)
(* share.  Redis is external: it executes SET and GETDEL one at a time and *)
(* drops a key when its lifetime ends.                                     *)
(*                                                                         *)
(* Every call of Put and GetAndRemove is a goroutine of some process.  Its *)
(* client sends the command up to MaxSends times: once if it does not      *)
(* repeat commands, more often if it does so after a network error, as     *)
(* go-redis is set up to by default.  A command that is lost is one that   *)
(* is never executed, a reply may be lost, and a call that repeats its     *)
(* command or gives up leaves one behind that Redis may still execute.     *)
(***************************************************************************)
EXTENDS FiniteSets, Integers, Sequences

CONSTANTS
  Keys,        \* session identifiers
  MaxValues,   \* bound: nonces, numbered from 1 in the order they are drawn
  MaxCalls,    \* bound: calls of the store
  MaxNow,      \* bound: the clock of Redis
  MaxSends,    \* how often the client sends a command
  TTL          \* Store.ttl, the lifetime given to SET

ASSUME RedisAssumption ==
  /\ {MaxValues, MaxCalls, MaxNow} \subseteq Nat
  /\ {MaxSends, TTL} \subseteq Nat \ {0}

VARIABLES
  now,     \* the clock of Redis, in ticks
  db,      \* its keys under the prefix: [key, value, expires]
  calls,   \* every call so far, see Call
  drawn,   \* how many nonces have been drawn
  handed   \* history: [key, value] that GETDEL has handed out

redisVars == <<now, db, calls, drawn, handed>>

Unparsable == 0   \* a value that is not the JSON of a storedNonce

Entry == [key : Keys, value : Nat, expires : Nat]

(* value is the nonce given to Put, or the reply of GETDEL, 0 before it;   *)
(* command is what became of the command as it was last sent; stray counts *)
(* the earlier ones that Redis has yet to execute; prior, for the history, *)
(* has the calls that had returned a success when this one began.          *)
Call ==
  [op : {"Put", "GetAndRemove"}, key : Keys, value : Nat,
   command : {"sent", "executed", "absent"}, sends : Nat, stray : Nat, prior : SUBSET Nat,
   result : {"waiting", "ok", "error", "notFound"}]

RedisTypeOK ==
  /\ now \in Nat
  /\ db \subseteq Entry
  /\ calls \in Seq(Call)
  /\ drawn \in Nat
  /\ handed \subseteq [key : Keys, value : Nat]

RedisInit ==
  /\ now = 0
  /\ db = {}
  /\ calls = <<>>
  /\ drawn = 0
  /\ handed = {}

Begin(op, key, value) ==
  /\ Len(calls) < MaxCalls
  /\ calls' = Append(calls,
       [op |-> op, key |-> key, value |-> value, command |-> "sent", sends |-> 1, stray |-> 0,
        prior |-> {i \in DOMAIN calls : calls[i].result = "ok"}, result |-> "waiting"])

(* Put: the nonce has just been drawn; the payload always marshals. *)
Put(key) ==
  /\ drawn < MaxValues
  /\ drawn' = drawn + 1
  /\ Begin("Put", key, drawn + 1)
  /\ UNCHANGED <<now, db, handed>>

GetAndRemove(key) ==
  /\ Begin("GetAndRemove", key, 0)
  /\ UNCHANGED <<now, db, drawn, handed>>

MutantSetKeepsOld(key, value) == db \cup {[key |-> key, value |-> value, expires |-> now + TTL]}

(* The keys after SET, which replaces the value and the lifetime. *)
Set(key, value) ==
  {e \in db : e.key # key} \cup {[key |-> key, value |-> value, expires |-> now + TTL]}

ExecuteSet(i) ==
  /\ calls[i].op = "Put" /\ calls[i].command = "sent"
  /\ db' = Set(calls[i].key, calls[i].value)
  /\ calls' = [calls EXCEPT ![i].command = "executed"]
  /\ UNCHANGED <<now, drawn, handed>>

MutantGetOnly(e) == db

(* The keys after GETDEL has found e. *)
GetDel(e) == db \ {e}

HandOut(e) ==
  /\ db' = GetDel(e)
  /\ handed' = IF e.value = Unparsable THEN handed
               ELSE handed \cup {[key |-> e.key, value |-> e.value]}

ExecuteGetDel(i) ==
  /\ calls[i].op = "GetAndRemove" /\ calls[i].command = "sent"
  /\ \E e \in db :
       /\ e.key = calls[i].key
       /\ HandOut(e)
       /\ calls' = [calls EXCEPT ![i] = [@ EXCEPT !.command = "executed", !.value = e.value]]
  /\ UNCHANGED <<now, drawn>>

(* GETDEL of an absent key: redis.Nil, which goRedisClient turns into nil. *)
ExecuteGetDelAbsent(i) ==
  /\ calls[i].op = "GetAndRemove" /\ calls[i].command = "sent"
  /\ \A e \in db : e.key # calls[i].key
  /\ calls' = [calls EXCEPT ![i].command = "absent"]
  /\ UNCHANGED <<now, db, drawn, handed>>

(***************************************************************************)
(* The client sends the command once more (external): no reply came, and   *)
(* one that still comes is not read.                                       *)
(***************************************************************************)
Resend(i) ==
  LET c == calls[i] IN
  /\ c.result = "waiting" /\ c.sends < MaxSends
  /\ calls' = [calls EXCEPT ![i] =
       [c EXCEPT !.command = "sent", !.sends = c.sends + 1,
                 !.value = IF c.op = "Put" THEN c.value ELSE 0,
                 !.stray = IF c.command = "sent" THEN c.stray + 1 ELSE c.stray]]
  /\ UNCHANGED <<now, db, drawn, handed>>

(* Redis executes a command that was sent again since. *)
ExecuteStray(i) ==
  /\ calls[i].stray > 0
  /\ calls' = [calls EXCEPT ![i].stray = @ - 1]
  /\ \/ /\ calls[i].op = "Put"
        /\ db' = Set(calls[i].key, calls[i].value)
        /\ UNCHANGED handed
     \/ /\ calls[i].op = "GetAndRemove"
        /\ \/ \E e \in db : e.key = calls[i].key /\ HandOut(e)
           \/ (\A e \in db : e.key # calls[i].key) /\ UNCHANGED <<db, handed>>
  /\ UNCHANGED <<now, drawn>>

(* The reply arrives; a value that does not unmarshal counts as not found. *)
Return(i) ==
  /\ calls[i].result = "waiting" /\ calls[i].command \in {"executed", "absent"}
  /\ calls' = [calls EXCEPT ![i].result =
       IF calls[i].command = "executed" /\ calls[i].value # Unparsable
       THEN "ok" ELSE "notFound"]
  /\ UNCHANGED <<now, db, drawn, handed>>

(***************************************************************************)
(* The call gives up: the context ends, a deadline passes or the           *)
(* connection fails.  Put returns the error; GetAndRemove reports          *)
(* ErrChallengeNonceNotFound, whatever became of its command.              *)
(***************************************************************************)
Fail(i) ==
  /\ calls[i].result = "waiting"
  /\ calls' = [calls EXCEPT ![i].result =
       IF calls[i].op = "Put" THEN "error" ELSE "notFound"]
  /\ UNCHANGED <<now, db, drawn, handed>>

(* Time passes; Redis no longer shows a key whose lifetime has ended. *)
TickRedis ==
  /\ now < MaxNow
  /\ now' = now + 1
  /\ db' = {e \in db : now + 1 < e.expires}
  /\ UNCHANGED <<calls, drawn, handed>>

(* Somebody else writes under the prefix, or Redis restarts empty. *)
Interfere ==
  /\ \/ \E key \in Keys : db' = Set(key, Unparsable)
     \/ db' = {}
  /\ UNCHANGED <<now, calls, drawn, handed>>

CallStep(i) ==
  \/ ExecuteSet(i) \/ ExecuteGetDel(i) \/ ExecuteGetDelAbsent(i)
  \/ Resend(i) \/ ExecuteStray(i) \/ Return(i) \/ Fail(i)

RedisNext ==
  \/ \E key \in Keys : Put(key) \/ GetAndRemove(key)
  \/ \E i \in DOMAIN calls : CallStep(i)
  \/ TickRedis
  \/ Interfere

RedisSpec == RedisInit /\ [][RedisNext]_redisVars

Got(i) == calls[i].op = "GetAndRemove" /\ calls[i].result = "ok"

(***************************************************************************)
(* "guarantee a nonce is consumed exactly once (single use)": whichever    *)
(* process asks, whatever is lost and however late Redis executes what a   *)
(* call has left behind, no two calls of GetAndRemove return the same      *)
(* nonce, and the one that does asked in the session it was stored for.    *)
(* It holds for a client that does not repeat commands.                    *)
(***************************************************************************)
ConsumedOnce ==
  \A i \in DOMAIN calls : Got(i) =>
    /\ \A j \in DOMAIN calls : Got(j) /\ calls[j].value = calls[i].value => j = i
    /\ \E j \in DOMAIN calls :
         calls[j].op = "Put" /\ calls[j].value = calls[i].value /\ calls[j].key = calls[i].key

(***************************************************************************)
(* With a client that repeats commands single use weakens to this: a nonce *)
(* is returned, in the session it was stored for, at most as often as its  *)
(* SET was sent, for every GETDEL that finds it removes it.                *)
(***************************************************************************)
ConsumedPerSend ==
  \A i \in DOMAIN calls : Got(i) =>
    \E j \in DOMAIN calls :
      /\ calls[j].op = "Put" /\ calls[j].value = calls[i].value /\ calls[j].key = calls[i].key
      /\ Cardinality({k \in DOMAIN calls : Got(k) /\ calls[k].value = calls[i].value})
           <= calls[j].sends

(***************************************************************************)
(* "Put stores the nonce for the current session, replacing any existing   *)
(* one": once a later Put has taken effect, a nonce whose own Put had      *)
(* returned before that Put began is gone from Redis for good.  A Put that *)
(* gave up has no such place in the order: its SET may come late and       *)
(* replace a newer nonce.                                                  *)
(***************************************************************************)
ReplacedIsGone ==
  \A j \in DOMAIN calls : calls[j].op = "Put" /\ calls[j].command = "executed" =>
    \A i \in calls[j].prior : calls[i].op = "Put" /\ calls[i].key = calls[j].key =>
      \A e \in db : e.value # calls[i].value

Contract == INSTANCE NonceContract WITH
  Values <- 1..MaxValues, taken <- handed,
  pending <- {[key |-> e.key, value |-> e.value] : e \in {f \in db : f.value # Unparsable}}

(***************************************************************************)
(* The Redis store keeps the promise of ChallengeNonceStore as well.       *)
(***************************************************************************)
RedisKeepsContract == Contract!Spec
============================================================================
