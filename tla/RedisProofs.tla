--------------------------- MODULE RedisProofs -----------------------------
(***************************************************************************)
(* Proofs about the Redis store, for any number of processes, sessions and *)
(* calls.                                                                  *)
(*                                                                         *)
(* A nonce has one Put, that Put executes one SET, and so the nonce is     *)
(* unborn, stored under one key, or handed out, and never comes back.      *)
(* This needs a client that sends every command once.  For a client that   *)
(* repeats commands, SendInv counts: a nonce is handed out no more often   *)
(* than its SET was sent.                                                  *)
(***************************************************************************)
EXTENDS RedisStore, FiniteSetTheorems, TLAPS

CallsInv ==
  \A i \in DOMAIN calls :
    /\ calls[i].sends = 1 /\ calls[i].stray = 0
    /\ calls[i].op = "Put" => calls[i].value \in 1..drawn
    /\ calls[i].result = "ok" => calls[i].command = "executed" /\ calls[i].value # 0
    /\ \A k \in calls[i].prior : k \in DOMAIN calls /\ calls[k].result = "ok"

PutsDiffer ==
  \A i, j \in DOMAIN calls :
    calls[i].op = "Put" /\ calls[j].op = "Put" /\ calls[i].value = calls[j].value => i = j

OneEntry == \A e, f \in db : e.key = f.key => e = f

(* The SET of this nonce has been executed. *)
Executed(key, value) ==
  \E i \in DOMAIN calls :
    /\ calls[i].op = "Put" /\ calls[i].command = "executed"
    /\ calls[i].key = key /\ calls[i].value = value

Stored == \A e \in db : e.value # 0 => Executed(e.key, e.value)

Handed ==
  \A n \in handed : n.value # 0 /\ Executed(n.key, n.value) /\ \A e \in db : e.value # n.value

Taken ==
  \A i \in DOMAIN calls : calls[i].op = "GetAndRemove" /\ calls[i].value # 0 =>
    /\ [key |-> calls[i].key, value |-> calls[i].value] \in handed
    /\ \A j \in DOMAIN calls :
         calls[j].op = "GetAndRemove" /\ calls[j].value = calls[i].value => j = i

RedisInv ==
  /\ RedisTypeOK /\ drawn <= MaxValues
  /\ CallsInv /\ PutsDiffer /\ OneEntry /\ Stored /\ Handed /\ Taken

(* Append adds one element at the end. *)
LEMMA Appended ==
  ASSUME NEW S, NEW s \in Seq(S), NEW e \in S, NEW t, t = Append(s, e)
  PROVE  /\ t \in Seq(S) /\ Len(t) = Len(s) + 1 /\ t[Len(s) + 1] = e
         /\ DOMAIN t = DOMAIN s \cup {Len(s) + 1} /\ Len(s) + 1 \notin DOMAIN s
         /\ \A i \in DOMAIN s : t[i] = s[i]
OBVIOUS

(* Before the first call. *)
LEMMA RedisInitInv == RedisInit => RedisInv
BY RedisAssumption DEF RedisInit, RedisInv, RedisTypeOK, CallsInv, PutsDiffer, OneEntry, Stored,
   Handed, Taken

(* A nonce has one key. *)
LEMMA OneKey ==
  ASSUME PutsDiffer, NEW k, NEW l, NEW v, Executed(k, v), Executed(l, v)
  PROVE  k = l
BY DEF PutsDiffer, Executed

(* The record Begin appends to the history is a call, whatever has returned before it. *)
LEMMA FreshCall ==
  ASSUME calls \in Seq(Call), NEW op \in {"Put", "GetAndRemove"}, NEW key \in Keys, NEW value \in Nat
  PROVE  [op |-> op, key |-> key, value |-> value, command |-> "sent", sends |-> 1,
          stray |-> 0, prior |-> {i \in DOMAIN calls : calls[i].result = "ok"},
          result |-> "waiting"] \in Call
<1>1. DOMAIN calls \subseteq Nat
  OBVIOUS
<1>2. {i \in DOMAIN calls : calls[i].result = "ok"} \in SUBSET Nat
  BY <1>1, ZenonT(30)
<1>3. \A P \in SUBSET Nat :
        [op |-> op, key |-> key, value |-> value, command |-> "sent", sends |-> 1,
         stray |-> 0, prior |-> P, result |-> "waiting"] \in Call
  BY DEF Call
<1> QED
  BY <1>2, <1>3, ZenonT(30)

(* A call begins: its nonce, if it has one, is new. *)
LEMMA BeginKeeps ==
  ASSUME RedisInv, NEW op \in {"Put", "GetAndRemove"}, NEW key \in Keys, NEW value \in Nat,
         Begin(op, key, value), UNCHANGED <<now, db, handed>>,
         \/ op = "Put" /\ drawn < MaxValues /\ drawn' = drawn + 1 /\ value = drawn + 1
         \/ op = "GetAndRemove" /\ drawn' = drawn /\ value = 0
  PROVE  RedisInv'
<1> DEFINE c == [op |-> op, key |-> key, value |-> value, command |-> "sent", sends |-> 1,
                 stray |-> 0, prior |-> {i \in DOMAIN calls : calls[i].result = "ok"},
                 result |-> "waiting"]
<1>1. /\ calls \in Seq(Call) /\ drawn \in Nat /\ MaxValues \in Nat /\ drawn <= MaxValues
      /\ CallsInv /\ PutsDiffer /\ Stored /\ Handed /\ Taken
  BY RedisAssumption DEF RedisInv, RedisTypeOK
<1>2. c \in Call
  BY <1>1, FreshCall, ZenonT(30)
<1>3. /\ calls' = Append(calls, c)
      /\ c.op = op /\ c.key = key /\ c.value = value /\ c.command = "sent" /\ c.sends = 1
      /\ c.stray = 0 /\ c.result = "waiting"
      /\ \A k \in c.prior : k \in DOMAIN calls /\ calls[k].result = "ok"
  BY DEF Begin
<1> HIDE DEF c
<1>4. /\ calls' \in Seq(Call)
      /\ DOMAIN calls' = DOMAIN calls \cup {Len(calls) + 1} /\ Len(calls) + 1 \notin DOMAIN calls
      /\ calls'[Len(calls) + 1] = c
      /\ \A i \in DOMAIN calls : calls'[i] = calls[i]
  BY <1>1, <1>2, <1>3, Appended
<1>5. RedisTypeOK' /\ (drawn <= MaxValues)' /\ drawn' \in drawn..drawn + 1
  BY <1>1, <1>4 DEF RedisInv, RedisTypeOK
<1>6. CallsInv'
  <2>1. ASSUME NEW i \in DOMAIN calls
        PROVE  /\ calls'[i].sends = 1 /\ calls'[i].stray = 0
               /\ calls'[i].op = "Put" => calls'[i].value \in 1..drawn'
               /\ calls'[i].result = "ok" => calls'[i].command = "executed" /\ calls'[i].value # 0
               /\ \A k \in calls'[i].prior : k \in DOMAIN calls' /\ calls'[k].result = "ok"
    BY <1>1, <1>4, <1>5 DEF CallsInv
  <2>2. c.op = "Put" => c.value \in 1..drawn'
    BY <1>1, <1>3
  <2> QED
    BY <1>3, <1>4, <2>1, <2>2 DEF CallsInv
<1>7. \A i \in DOMAIN calls : calls[i].op = "Put" => calls[i].value # drawn + 1
  BY <1>1 DEF CallsInv
<1>8. PutsDiffer'
  BY <1>1, <1>3, <1>4, <1>7 DEF PutsDiffer
<1>9. \A k, v : Executed(k, v) => Executed(k, v)'
  BY <1>4 DEF Executed
<1>10. OneEntry' /\ Stored' /\ Handed'
  BY <1>1, <1>9 DEF RedisInv, OneEntry, Stored, Handed
<1>11. Taken'
  BY <1>1, <1>3, <1>4 DEF Taken
<1> QED
  BY <1>5, <1>6, <1>8, <1>10, <1>11 DEF RedisInv

(***************************************************************************)
(* One call moves on to c, which is the same call: what it says about      *)
(* calls stays true.                                                       *)
(***************************************************************************)
SameCall(c, d) ==
  /\ c.op = d.op /\ c.key = d.key /\ c.prior = d.prior
  /\ c.sends = d.sends /\ c.stray = d.stray
  /\ c.op = "Put" => c.value = d.value
  /\ d.command = "executed" => c.command = "executed" /\ c.value = d.value
  /\ d.result = "ok" => c.result = "ok"
  /\ c.result = "ok" => c.command = "executed" /\ c.value # 0

(* So a call that moves on leaves the history of Put alone. *)
LEMMA MovesOn ==
  ASSUME RedisInv, NEW i \in DOMAIN calls, NEW c \in Call, SameCall(c, calls[i]),
         calls' = [calls EXCEPT ![i] = c], drawn' = drawn
  PROVE  /\ calls' \in Seq(Call) /\ DOMAIN calls' = DOMAIN calls
         /\ \A j \in DOMAIN calls : SameCall(calls'[j], calls[j])
         /\ \A j \in DOMAIN calls : j # i => calls'[j] = calls[j]
         /\ calls'[i] = c
         /\ CallsInv' /\ PutsDiffer'
         /\ \A k, v : Executed(k, v) => Executed(k, v)'
<1>1. calls \in Seq(Call) /\ CallsInv /\ PutsDiffer
  BY DEF RedisInv, RedisTypeOK
<1>2. /\ calls' \in Seq(Call) /\ DOMAIN calls' = DOMAIN calls /\ calls'[i] = c
      /\ \A j \in DOMAIN calls : j # i => calls'[j] = calls[j]
  BY <1>1
<1>3. \A j \in DOMAIN calls : SameCall(calls[j], calls[j])
  BY <1>1 DEF CallsInv, SameCall
<1>4. \A j \in DOMAIN calls : SameCall(calls'[j], calls[j])
  BY <1>2, <1>3
<1>5. CallsInv'
  BY <1>1, <1>2, <1>4 DEF CallsInv, SameCall
<1>6. PutsDiffer'
  BY <1>1, <1>2, <1>4 DEF PutsDiffer, SameCall
<1>7. \A k, v : Executed(k, v) => Executed(k, v)'
  BY <1>2, <1>4 DEF Executed, SameCall
<1> QED
  BY <1>2, <1>4, <1>5, <1>6, <1>7

(* The reply arrives, is absent, or the call gives up. *)
LEMMA AnswerKeeps ==
  ASSUME RedisInv, NEW i \in DOMAIN calls, ExecuteGetDelAbsent(i) \/ Return(i) \/ Fail(i)
  PROVE  RedisInv'
<1> DEFINE c == calls'[i]
<1>1. calls \in Seq(Call) /\ calls[i] \in Call /\ CallsInv /\ UNCHANGED <<now, db, drawn, handed>>
  BY DEF RedisInv, RedisTypeOK, ExecuteGetDelAbsent, Return, Fail
<1>2. /\ c \in Call /\ SameCall(c, calls[i]) /\ c.value = calls[i].value
      /\ calls' = [calls EXCEPT ![i] = c]
  <2>1. CASE ExecuteGetDelAbsent(i)
    BY <1>1, <2>1 DEF ExecuteGetDelAbsent, SameCall, Call, CallsInv
  <2>2. CASE Return(i)
    BY <1>1, <2>2 DEF Return, SameCall, Call, CallsInv, Unparsable
  <2>3. CASE Fail(i)
    BY <1>1, <2>3 DEF Fail, SameCall, Call, CallsInv
  <2> QED
    BY <2>1, <2>2, <2>3
<1> HIDE DEF c
<1>3. /\ calls' \in Seq(Call) /\ DOMAIN calls' = DOMAIN calls
      /\ \A j \in DOMAIN calls : SameCall(calls'[j], calls[j])
      /\ \A j \in DOMAIN calls : j # i => calls'[j] = calls[j]
      /\ calls'[i] = c
      /\ CallsInv' /\ PutsDiffer'
      /\ \A k, v : Executed(k, v) => Executed(k, v)'
  BY <1>1, <1>2, MovesOn
<1>4. RedisTypeOK' /\ (drawn <= MaxValues)'
  BY <1>1, <1>3 DEF RedisInv, RedisTypeOK
<1>5. OneEntry' /\ Stored' /\ Handed'
  BY <1>1, <1>3 DEF RedisInv, OneEntry, Stored, Handed
<1>6. \A j \in DOMAIN calls :
        calls'[j].op = calls[j].op /\ calls'[j].key = calls[j].key /\ calls'[j].value = calls[j].value
  BY <1>2, <1>3 DEF SameCall
<1>7. Taken'
  BY <1>1, <1>3, <1>6 DEF RedisInv, Taken
<1> QED
  BY <1>3, <1>4, <1>5, <1>7 DEF RedisInv

(* The nonce of a SET that has not been executed is nowhere yet. *)
LEMMA UnbornNonce ==
  ASSUME RedisInv, NEW i \in DOMAIN calls, calls[i].op = "Put", calls[i].command = "sent"
  PROVE  /\ calls[i].value # 0
         /\ \A e \in db : e.value # calls[i].value
         /\ \A n \in handed : n.value # calls[i].value
<1>1. calls[i].value \in 1..drawn /\ drawn \in Nat
  BY DEF RedisInv, CallsInv, RedisTypeOK
<1>2. \A k : ~Executed(k, calls[i].value)
  BY DEF RedisInv, PutsDiffer, Executed
<1> QED
  BY <1>1, <1>2 DEF RedisInv, Stored, Handed

(* SET stores it, and replaces what the session had. *)
LEMMA ExecuteSetKeeps ==
  ASSUME RedisInv, NEW i \in DOMAIN calls, ExecuteSet(i)
  PROVE  RedisInv'
<1> DEFINE c == calls'[i]
           n == [key |-> calls[i].key, value |-> calls[i].value, expires |-> now + TTL]
<1>1. /\ calls \in Seq(Call) /\ calls[i] \in Call /\ CallsInv
      /\ calls[i].op = "Put" /\ calls[i].command = "sent" /\ UNCHANGED <<now, drawn, handed>>
  BY DEF RedisInv, RedisTypeOK, ExecuteSet
<1>2. /\ c \in Call /\ SameCall(c, calls[i]) /\ c.value = calls[i].value
      /\ c.command = "executed" /\ calls' = [calls EXCEPT ![i] = c]
  BY <1>1 DEF ExecuteSet, SameCall, Call, CallsInv
<1> HIDE DEF c
<1>3. /\ calls' \in Seq(Call) /\ DOMAIN calls' = DOMAIN calls
      /\ \A j \in DOMAIN calls : SameCall(calls'[j], calls[j])
      /\ \A j \in DOMAIN calls : j # i => calls'[j] = calls[j]
      /\ calls'[i] = c
      /\ CallsInv' /\ PutsDiffer'
      /\ \A k, v : Executed(k, v) => Executed(k, v)'
  BY <1>1, <1>2, MovesOn
<1>4. /\ calls[i].value # 0
      /\ \A e \in db : e.value # calls[i].value
      /\ \A h \in handed : h.value # calls[i].value
  BY <1>1, UnbornNonce
<1>5. /\ db' = {e \in db : e.key # calls[i].key} \cup {n} /\ n \in Entry
      /\ n.key = calls[i].key /\ n.value = calls[i].value
  <2>1. now \in Nat /\ TTL \in Nat
    BY RedisAssumption DEF RedisInv, RedisTypeOK
  <2>2. now + TTL \in Nat
    BY <2>1
  <2>3. calls[i].key \in Keys /\ calls[i].value \in Nat
    BY <1>1 DEF Call
  <2>4. n \in Entry
    BY <2>2, <2>3 DEF Entry
  <2> QED
    BY <2>4 DEF ExecuteSet, Set
<1> HIDE DEF n
<1>6. RedisTypeOK' /\ (drawn <= MaxValues)'
  BY <1>1, <1>3, <1>5 DEF RedisInv, RedisTypeOK
<1>7. OneEntry'
  BY <1>5 DEF RedisInv, OneEntry
<1>8. \A k, v : k = calls[i].key /\ v = calls[i].value => Executed(k, v)'
  BY <1>1, <1>2, <1>3 DEF Executed, SameCall
<1>9. Stored' /\ Handed'
  <2>1. Stored'
    BY <1>3, <1>5, <1>8 DEF RedisInv, Stored
  <2>2. Handed'
    BY <1>1, <1>3, <1>4, <1>5 DEF RedisInv, Handed
  <2> QED
    BY <2>1, <2>2
<1>10. \A j \in DOMAIN calls :
        calls'[j].op = calls[j].op /\ calls'[j].key = calls[j].key /\ calls'[j].value = calls[j].value
  BY <1>2, <1>3 DEF SameCall
<1>11. Taken'
  <2>1. Taken /\ handed' = handed /\ DOMAIN calls' = DOMAIN calls
    BY <1>1, <1>3 DEF RedisInv
  <2> QED
    BY <1>10, <2>1 DEF Taken
<1> QED
  BY <1>3, <1>6, <1>7, <1>9, <1>11 DEF RedisInv

(* A nonce that is found has not been handed out, and is found once. *)
LEMMA FoundNonce ==
  ASSUME RedisInv, NEW e \in db, e.value # 0
  PROVE  /\ Executed(e.key, e.value)
         /\ \A n \in handed : n.value # e.value
         /\ \A f \in db : f.value = e.value => f = e
         /\ \A j \in DOMAIN calls : calls[j].op = "GetAndRemove" => calls[j].value # e.value
<1>1. Executed(e.key, e.value) /\ \A n \in handed : n.value # e.value
  BY DEF RedisInv, Stored, Handed
<1>2. ASSUME NEW f \in db, f.value = e.value PROVE f = e
  <2>1. Executed(f.key, e.value)
    BY <1>2 DEF RedisInv, Stored
  <2> QED
    BY <1>1, <2>1, OneKey DEF RedisInv, OneEntry
<1>3. ASSUME NEW j \in DOMAIN calls, calls[j].op = "GetAndRemove", calls[j].value = e.value
      PROVE  FALSE
  <2>1. [key |-> calls[j].key, value |-> calls[j].value] \in handed
    BY <1>3 DEF RedisInv, Taken
  <2> QED
    BY <1>1, <1>3, <2>1
<1> QED
  BY <1>1, <1>2, <1>3

(* GETDEL takes it out for one call. *)
LEMMA ExecuteGetDelKeeps ==
  ASSUME RedisInv, NEW i \in DOMAIN calls, ExecuteGetDel(i)
  PROVE  RedisInv'
<1> DEFINE c == calls'[i]
<1>1. /\ calls \in Seq(Call) /\ calls[i] \in Call /\ CallsInv /\ db \subseteq Entry
      /\ calls[i].op = "GetAndRemove" /\ calls[i].command = "sent" /\ UNCHANGED <<now, drawn>>
  BY DEF RedisInv, RedisTypeOK, ExecuteGetDel
<1>2. PICK e \in db :
        /\ e.key = calls[i].key /\ HandOut(e)
        /\ calls' = [calls EXCEPT ![i] = [@ EXCEPT !.command = "executed", !.value = e.value]]
  BY DEF ExecuteGetDel
<1>3. e.key \in Keys /\ e.value \in Nat
  BY <1>1 DEF Entry
<1>4. /\ c \in Call /\ SameCall(c, calls[i]) /\ calls' = [calls EXCEPT ![i] = c]
      /\ c.op = "GetAndRemove" /\ c.key = e.key /\ c.value = e.value
  BY <1>1, <1>2, <1>3 DEF SameCall, Call, CallsInv
<1> HIDE DEF c
<1>5. /\ calls' \in Seq(Call) /\ DOMAIN calls' = DOMAIN calls
      /\ \A j \in DOMAIN calls : SameCall(calls'[j], calls[j])
      /\ \A j \in DOMAIN calls : j # i => calls'[j] = calls[j]
      /\ calls'[i] = c
      /\ CallsInv' /\ PutsDiffer'
      /\ \A k, v : Executed(k, v) => Executed(k, v)'
  BY <1>1, <1>4, MovesOn
<1> DEFINE n == [key |-> e.key, value |-> e.value]
<1>6. /\ db' = db \ {e} /\ n \in [key : Keys, value : Nat]
      /\ handed' = IF e.value = 0 THEN handed ELSE handed \cup {n}
      /\ n.key = e.key /\ n.value = e.value
  BY <1>2, <1>3 DEF HandOut, GetDel, Unparsable
<1>7. c.value # 0 => [key |-> c.key, value |-> c.value] \in handed'
  BY <1>4, <1>6
<1> HIDE DEF n
<1>8. RedisTypeOK' /\ (drawn <= MaxValues)'
  BY <1>1, <1>5, <1>6 DEF RedisInv, RedisTypeOK
<1>9. OneEntry' /\ Stored'
  BY <1>5, <1>6 DEF RedisInv, OneEntry, Stored
<1>10. e.value # 0 =>
         /\ Executed(e.key, e.value)
         /\ \A f \in db : f.value = e.value => f = e
         /\ \A j \in DOMAIN calls : calls[j].op = "GetAndRemove" => calls[j].value # e.value
  BY FoundNonce
<1>11. Handed'
  BY <1>5, <1>6, <1>10 DEF RedisInv, Handed
<1>12. Taken'
  BY <1>1, <1>4, <1>5, <1>6, <1>7, <1>10 DEF RedisInv, Taken
<1> QED
  BY <1>5, <1>8, <1>9, <1>11, <1>12 DEF RedisInv

(* Redis loses keys, or gets one that is no nonce. *)
LEMMA KeysKeep ==
  ASSUME RedisInv, UNCHANGED <<calls, drawn, handed>>, now' \in Nat,
         \/ db' \subseteq db
         \/ \E key \in Keys : db' = Set(key, Unparsable)
  PROVE  RedisInv'
<1>1. CallsInv' /\ PutsDiffer' /\ Taken'
  BY DEF RedisInv, CallsInv, PutsDiffer, Taken
<1>2. \A k, v : Executed(k, v) => Executed(k, v)'
  BY DEF Executed
<1>3. CASE db' \subseteq db
  BY <1>1, <1>2, <1>3 DEF RedisInv, RedisTypeOK, OneEntry, Stored, Handed
<1>4. ASSUME NEW key \in Keys, db' = Set(key, Unparsable) PROVE RedisInv'
  <2>1. now + TTL \in Nat
    BY RedisAssumption DEF RedisInv, RedisTypeOK
  <2>2. PICK n \in Entry :
          n.key = key /\ n.value = 0 /\ db' = {e \in db : e.key # key} \cup {n}
    BY <1>4, <2>1 DEF Set, Entry, Unparsable
  <2>3. RedisTypeOK' /\ (drawn <= MaxValues)'
    BY <2>2 DEF RedisInv, RedisTypeOK
  <2>4. OneEntry' /\ Stored'
    BY <1>2, <2>2 DEF RedisInv, OneEntry, Stored
  <2>5. Handed'
    BY <1>2, <2>2 DEF RedisInv, Handed
  <2> QED
    BY <1>1, <2>3, <2>4, <2>5 DEF RedisInv
<1> QED
  BY <1>3, <1>4

(* Every step of the store, of Redis and of its other users. *)
LEMMA RedisNextInv ==
  ASSUME MaxSends = 1
  PROVE  RedisInv /\ [RedisNext]_redisVars => RedisInv'
<1> SUFFICES ASSUME RedisInv, [RedisNext]_redisVars PROVE RedisInv'
  OBVIOUS
<1>1. ASSUME NEW key \in Keys, Put(key) PROVE RedisInv'
  <2>1. drawn + 1 \in Nat
    BY DEF RedisInv, RedisTypeOK
  <2> QED
    BY <1>1, <2>1, BeginKeeps DEF Put
<1>2. ASSUME NEW key \in Keys, GetAndRemove(key) PROVE RedisInv'
  BY <1>2, BeginKeeps DEF GetAndRemove
<1>3. ASSUME NEW i \in DOMAIN calls, CallStep(i) PROVE RedisInv'
  <2>1. calls[i].sends = 1 /\ calls[i].stray = 0
    BY DEF RedisInv, CallsInv
  <2>2. ~Resend(i) /\ ~ExecuteStray(i)
    BY <2>1 DEF Resend, ExecuteStray
  <2> QED
    BY <1>3, <2>2, ExecuteSetKeeps, ExecuteGetDelKeeps, AnswerKeeps DEF CallStep
<1>4. CASE TickRedis
  <2>1. db' \subseteq db /\ now' \in Nat /\ UNCHANGED <<calls, drawn, handed>>
    BY <1>4 DEF TickRedis, RedisInv, RedisTypeOK
  <2> QED
    BY <2>1, KeysKeep
<1>5. CASE Interfere
  <2>1. now' \in Nat /\ UNCHANGED <<calls, drawn, handed>>
    BY <1>5 DEF Interfere, RedisInv, RedisTypeOK
  <2> QED
    BY <1>5, <2>1, KeysKeep DEF Interfere
<1>6. CASE UNCHANGED redisVars
  <2>1. db' \subseteq db /\ now' \in Nat /\ UNCHANGED <<calls, drawn, handed>>
    BY <1>6 DEF redisVars, RedisInv, RedisTypeOK
  <2> QED
    BY <2>1, KeysKeep
<1> QED
  BY <1>1, <1>2, <1>3, <1>4, <1>5, <1>6 DEF RedisNext

(***************************************************************************)
(* For any number of processes, sessions and calls, with commands lost and *)
(* executed late, GETDEL hands a nonce out to one call of GetAndRemove, in *)
(* the session it was stored for, if no command is sent twice.             *)
(***************************************************************************)
THEOREM RedisSingleUse ==
  ASSUME MaxSends = 1
  PROVE  RedisSpec => []ConsumedOnce
<1>1. RedisInv => ConsumedOnce
  <2> SUFFICES ASSUME RedisInv, NEW i \in DOMAIN calls, Got(i)
               PROVE  /\ \A j \in DOMAIN calls : Got(j) /\ calls[j].value = calls[i].value => j = i
                      /\ \E j \in DOMAIN calls : /\ calls[j].op = "Put"
                                                 /\ calls[j].value = calls[i].value
                                                 /\ calls[j].key = calls[i].key
    BY DEF ConsumedOnce
  <2>1. calls[i].op = "GetAndRemove" /\ calls[i].value # 0
    BY DEF Got, RedisInv, CallsInv
  <2>2. [key |-> calls[i].key, value |-> calls[i].value] \in handed
    BY <2>1 DEF RedisInv, Taken
  <2>3. Executed(calls[i].key, calls[i].value)
    BY <2>2 DEF RedisInv, Handed
  <2> QED
    BY <2>1, <2>3 DEF RedisInv, Taken, Got, Executed
<1> QED
  BY <1>1, RedisInitInv, RedisNextInv, PTL DEF RedisSpec

(***************************************************************************)
(* A nonce whose Put had returned before a later Put of the session began  *)
(* does not outlive the SET of the later one.                              *)
(***************************************************************************)
LEMMA ReplacedBySet ==
  ASSUME RedisInv, RedisInv', ReplacedIsGone, NEW m \in DOMAIN calls, ExecuteSet(m)
  PROVE  ReplacedIsGone'
<1>1. /\ calls \in Seq(Call) /\ CallsInv /\ PutsDiffer
      /\ calls[m].op = "Put" /\ calls[m].command = "sent"
  BY DEF RedisInv, RedisTypeOK, ExecuteSet
<1>2. /\ DOMAIN calls' = DOMAIN calls
      /\ \A j \in DOMAIN calls :
           /\ calls'[j].op = calls[j].op /\ calls'[j].key = calls[j].key
           /\ calls'[j].value = calls[j].value /\ calls'[j].prior = calls[j].prior
           /\ j # m => calls'[j].command = calls[j].command
  <2>1. calls' = [calls EXCEPT ![m].command = "executed"] /\ calls[m] \in Call
    BY <1>1 DEF ExecuteSet
  <2>2. /\ DOMAIN calls' = DOMAIN calls /\ calls'[m] = [calls[m] EXCEPT !.command = "executed"]
        /\ \A j \in DOMAIN calls : j # m => calls'[j] = calls[j]
    BY <1>1, <2>1
  <2>3. /\ calls'[m].op = calls[m].op /\ calls'[m].key = calls[m].key
        /\ calls'[m].value = calls[m].value /\ calls'[m].prior = calls[m].prior
    BY <2>1, <2>2 DEF Call
  <2> QED
    BY <2>2, <2>3, ZenonT(30)
<1>3. \A e \in db' :
        \/ e \in db /\ e.key # calls[m].key
        \/ e.key = calls[m].key /\ e.value = calls[m].value
  BY DEF ExecuteSet, Set
<1> SUFFICES ASSUME NEW j \in DOMAIN calls, calls[j].op = "Put", calls'[j].command = "executed",
                    NEW i \in calls[j].prior, calls[i].op = "Put", calls[i].key = calls[j].key,
                    NEW e \in db', e.value = calls[i].value
             PROVE  FALSE
  <2>1. \A j \in DOMAIN calls : calls[j].prior \subseteq DOMAIN calls
    BY <1>1, ZenonT(30) DEF CallsInv
  <2> SUFFICES ASSUME NEW j \in DOMAIN calls', calls'[j].op = "Put",
                      calls'[j].command = "executed", NEW i \in calls'[j].prior,
                      calls'[i].op = "Put", calls'[i].key = calls'[j].key,
                      NEW e \in db', ~(e.value # calls'[i].value)
               PROVE  FALSE
    BY ZenonT(30) DEF ReplacedIsGone
  <2>2. /\ j \in DOMAIN calls /\ i \in calls[j].prior
        /\ calls[j].op = "Put" /\ calls'[j].key = calls[j].key
    BY <1>2, ZenonT(30)
  <2>3. i \in DOMAIN calls
    BY <2>1, <2>2, ZenonT(30)
  <2>4. calls[i].op = "Put" /\ calls[i].key = calls[j].key /\ e.value = calls[i].value
    BY <1>2, <2>2, <2>3, ZenonT(30)
  <2> QED
    BY <2>2, <2>4, ZenonT(30)
<1>4. i \in DOMAIN calls /\ calls[i].command = "executed" /\ calls[i].value # 0
  BY <1>1 DEF CallsInv
<1>5. e.value # calls[m].value
  BY <1>1, <1>4 DEF PutsDiffer
<1>6. e \in db /\ e.key # calls[m].key
  BY <1>3, <1>5
<1>7. CASE j # m
  BY <1>2, <1>6, <1>7 DEF ReplacedIsGone
<1>8. CASE j = m
  <2>1. Executed(e.key, e.value) /\ Executed(calls[i].key, e.value)
    BY <1>4, <1>6 DEF RedisInv, Stored, Executed
  <2>2. e.key = calls[i].key
    BY <1>1, <2>1, OneKey
  <2> QED
    BY <1>6, <1>8, <2>2
<1> QED
  BY <1>7, <1>8

(* No other step stores a nonce or executes a SET. *)
LEMMA ReplacedNext ==
  ASSUME MaxSends = 1
  PROVE  RedisInv /\ RedisInv' /\ ReplacedIsGone /\ [RedisNext]_redisVars => ReplacedIsGone'
<1> SUFFICES ASSUME RedisInv, RedisInv', ReplacedIsGone, [RedisNext]_redisVars
             PROVE  ReplacedIsGone'
  OBVIOUS
<1>1. calls \in Seq(Call) /\ CallsInv /\ drawn \in Nat
  BY DEF RedisInv, RedisTypeOK
<1>2. \A i \in DOMAIN calls : calls[i].op = "Put" => calls[i].value # 0
  BY <1>1 DEF CallsInv
<1> DEFINE NoNewNonce == \A e \in db' : e \in db \/ e.value = 0
           NoNewSet ==
             \A j \in DOMAIN calls' : calls'[j].op = "Put" /\ calls'[j].command = "executed" =>
               /\ j \in DOMAIN calls /\ calls[j].op = "Put" /\ calls[j].command = "executed"
               /\ calls'[j].key = calls[j].key /\ calls'[j].prior = calls[j].prior
           SamePuts ==
             \A j \in DOMAIN calls :
               /\ calls'[j].op = calls[j].op /\ calls'[j].key = calls[j].key
               /\ calls[j].op = "Put" => calls'[j].value = calls[j].value
<1>3. ASSUME NoNewNonce, NoNewSet, SamePuts PROVE ReplacedIsGone'
  <2> SUFFICES ASSUME NEW j \in DOMAIN calls', calls'[j].op = "Put",
                      calls'[j].command = "executed", NEW i \in calls'[j].prior,
                      calls'[i].op = "Put", calls'[i].key = calls'[j].key,
                      NEW e \in db', e.value = calls'[i].value
               PROVE  FALSE
    BY DEF ReplacedIsGone
  <2>1. /\ j \in DOMAIN calls /\ calls[j].op = "Put" /\ calls[j].command = "executed"
        /\ calls[j].key = calls'[j].key /\ i \in calls[j].prior
    BY <1>3
  <2>2. i \in DOMAIN calls
    BY <1>1, <2>1 DEF CallsInv
  <2>3. calls[i].op = "Put" /\ calls[i].key = calls[j].key /\ e.value = calls[i].value
    BY <1>3, <2>1, <2>2
  <2>4. e \in db
    BY <1>2, <1>3, <2>2, <2>3
  <2> QED
    BY <2>1, <2>3, <2>4 DEF ReplacedIsGone
<1>4. ASSUME NEW op, NEW key, NEW value, Begin(op, key, value), UNCHANGED db
      PROVE  ReplacedIsGone'
  <2> DEFINE c == [op |-> op, key |-> key, value |-> value, command |-> "sent", sends |-> 1,
                   stray |-> 0, prior |-> {i \in DOMAIN calls : calls[i].result = "ok"},
                   result |-> "waiting"]
  <2>1. calls' = Append(calls, c) /\ c.command = "sent"
    BY <1>4 DEF Begin
  <2> HIDE DEF c
  <2>2. /\ DOMAIN calls' = DOMAIN calls \cup {Len(calls) + 1} /\ calls'[Len(calls) + 1] = c
        /\ \A i \in DOMAIN calls : calls'[i] = calls[i]
    BY <1>1, <2>1
  <2> QED
    BY <1>3, <1>4, <2>1, <2>2
<1>5. ASSUME NEW m \in DOMAIN calls, ExecuteGetDelAbsent(m) \/ Return(m) \/ Fail(m)
      PROVE  ReplacedIsGone'
  <2>1. NoNewNonce
    BY <1>5 DEF ExecuteGetDelAbsent, Return, Fail
  <2>2. /\ DOMAIN calls' = DOMAIN calls
        /\ \A j \in DOMAIN calls : j # m => calls'[j] = calls[j]
        /\ calls'[m].op = calls[m].op /\ calls'[m].key = calls[m].key
        /\ calls'[m].value = calls[m].value /\ calls'[m].prior = calls[m].prior
        /\ calls'[m].op = "Put" => calls'[m].command = calls[m].command
    <3>0. calls[m] \in Call
      BY <1>1
    <3>1. CASE ExecuteGetDelAbsent(m)
      BY <1>1, <3>0, <3>1 DEF ExecuteGetDelAbsent, Call
    <3>2. CASE Return(m)
      BY <1>1, <3>0, <3>2 DEF Return, Call
    <3>3. CASE Fail(m)
      BY <1>1, <3>0, <3>3 DEF Fail, Call
    <3> QED
      BY <1>5, <3>1, <3>2, <3>3
  <2>3. NoNewSet /\ SamePuts
    BY <2>2
  <2> QED
    BY <1>3, <2>1, <2>3
<1>6. ASSUME NEW m \in DOMAIN calls, ExecuteGetDel(m) PROVE ReplacedIsGone'
  <2>1. NoNewNonce
    BY <1>6 DEF ExecuteGetDel, HandOut, GetDel
  <2>2. calls[m].op = "GetAndRemove" /\ \E v : calls' = [calls EXCEPT ![m] =
          [@ EXCEPT !.command = "executed", !.value = v]]
    BY <1>6 DEF ExecuteGetDel
  <2>3. /\ DOMAIN calls' = DOMAIN calls
        /\ \A j \in DOMAIN calls : j # m => calls'[j] = calls[j]
        /\ calls'[m].op = "GetAndRemove" /\ calls'[m].key = calls[m].key
    <3>1. calls[m] \in Call
      BY <1>1
    <3> QED
      BY <1>1, <2>2, <3>1 DEF Call
  <2>4. NoNewSet /\ SamePuts
    BY <2>2, <2>3
  <2> QED
    BY <1>3, <2>1, <2>4
<1>7. CASE TickRedis \/ Interfere \/ UNCHANGED redisVars
  <2>1. NoNewNonce
    BY <1>7 DEF TickRedis, Interfere, Set, Unparsable, redisVars
  <2>2. NoNewSet /\ SamePuts
    BY <1>7 DEF TickRedis, Interfere, redisVars
  <2> QED
    BY <1>3, <2>1, <2>2
<1>8. ASSUME NEW m \in DOMAIN calls PROVE ~Resend(m) /\ ~ExecuteStray(m)
  BY <1>1 DEF CallsInv, Resend, ExecuteStray
<1> QED
  BY <1>4, <1>5, <1>6, <1>7, <1>8, ReplacedBySet DEF RedisNext, CallStep, Put, GetAndRemove

(***************************************************************************)
(* "Put stores the nonce for the current session, replacing any existing   *)
(* one", for any number of processes that share Redis.                     *)
(***************************************************************************)
THEOREM RedisPutReplaces ==
  ASSUME MaxSends = 1
  PROVE  RedisSpec => []ReplacedIsGone
<1>1. RedisInit => ReplacedIsGone
  BY DEF RedisInit, ReplacedIsGone
<1> QED
  BY <1>1, RedisInitInv, RedisNextInv, ReplacedNext, PTL DEF RedisSpec

(***************************************************************************)
(* The nonces that Redis holds, as the contract sees them.                 *)
(***************************************************************************)
PairOf(e) == [key |-> e.key, value |-> e.value]

Nonces(keys) == {f \in keys : f.value # Unparsable}

pendingNonces == {PairOf(e) : e \in Nonces(db)}

(* SET is a Put of the contract. *)
LEMMA SetRefines ==
  ASSUME RedisInv, NEW i \in DOMAIN calls, ExecuteSet(i)
  PROVE  Contract!Next
<1> DEFINE k == calls[i].key
           v == calls[i].value
           n == [key |-> k, value |-> v, expires |-> now + TTL]
           keep == {e \in db : e.key # k}
<1>1. calls[i] \in Call /\ calls[i].op = "Put" /\ calls[i].command = "sent"
  BY DEF RedisInv, RedisTypeOK, ExecuteSet
<1>2. k \in Keys /\ v \in 1..MaxValues
  <2>1. k \in Keys /\ v \in 1..drawn /\ drawn <= MaxValues /\ drawn \in Nat /\ MaxValues \in Nat
    BY <1>1, RedisAssumption DEF Call, RedisInv, CallsInv, RedisTypeOK
  <2> QED
    BY <2>1
<1>3. db' = keep \cup {n} /\ UNCHANGED handed
  BY DEF ExecuteSet, Set
<1>4. \A e \in pendingNonces \cup handed : e.value # v
  BY <1>1, UnbornNonce DEF pendingNonces, Nonces, PairOf
<1>5. PairOf(n) = [key |-> k, value |-> v] /\ n.value # Unparsable
  BY <1>2 DEF PairOf, Unparsable
<1>6. keep \subseteq db /\ \A e \in keep : e.key # k
  OBVIOUS
<1> HIDE DEF k, v, n, keep
<1>7. {PairOf(e) : e \in Nonces(keep)} \in SUBSET {e \in pendingNonces : e.key # k}
  BY <1>6 DEF pendingNonces, Nonces, PairOf
<1>8. pendingNonces' = {PairOf(e) : e \in Nonces(keep)} \cup {[key |-> k, value |-> v]}
  <2>1. Nonces(db') = Nonces(keep) \cup {n}
    BY <1>3, <1>5 DEF Nonces
  <2>2. pendingNonces' = {PairOf(e) : e \in Nonces(db')}
    BY DEF pendingNonces, Nonces, PairOf
  <2> QED
    BY <1>5, <2>1, <2>2
<1>9. PICK s \in Keys, w \in 1..MaxValues : s = k /\ w = v
  BY <1>2
<1>10. Contract!Put(s, w)
  BY <1>3, <1>4, <1>7, <1>8, <1>9, ZenonT(30) DEF Contract!Put, Contract!Unused,
     pendingNonces, Nonces, PairOf
<1> QED
  BY <1>10, Zenon DEF Contract!Next

(* Redis may lose nonces, and gains none in any other way. *)
LEMMA LoseRefines ==
  ASSUME UNCHANGED handed, Nonces(db') \subseteq Nonces(db)
  PROVE  Contract!Next
<1>1. pendingNonces' \in SUBSET pendingNonces
  BY DEF pendingNonces, Nonces, PairOf
<1>2. Contract!Lose
  BY <1>1, ZenonT(30) DEF Contract!Lose, pendingNonces, Nonces, PairOf
<1> QED
  BY <1>2, Zenon DEF Contract!Next

(* GETDEL is a GetAndRemove of the contract if it finds a nonce. *)
LEMMA GetDelRefines ==
  ASSUME RedisInv, NEW i \in DOMAIN calls, ExecuteGetDel(i)
  PROVE  Contract!Next
<1>1. PICK e \in db : HandOut(e)
  BY DEF ExecuteGetDel
<1>2. db' = db \ {e}
  BY <1>1 DEF HandOut, GetDel
<1>3. CASE e.value = Unparsable
  <2>1. UNCHANGED handed /\ Nonces(db') \subseteq Nonces(db)
    BY <1>1, <1>2, <1>3 DEF HandOut, Nonces
  <2> QED
    BY <2>1, LoseRefines
<1>4. CASE e.value # Unparsable
  <2>1. handed' = handed \cup {PairOf(e)} /\ PairOf(e) \in pendingNonces
    BY <1>1, <1>4 DEF HandOut, PairOf, pendingNonces, Nonces
  <2>2. \A f \in db : PairOf(f) = PairOf(e) => f = e
    <3>1. \A f \in db : f.value = e.value => f = e
      BY <1>4, FoundNonce DEF Unparsable
    <3> QED
      BY <3>1 DEF PairOf
  <2>3. pendingNonces' = pendingNonces \ {PairOf(e)}
    BY <1>2, <2>2 DEF pendingNonces, Nonces
  <2>4. \E p \in {[key |-> f.key, value |-> f.value] : f \in {g \in db : g.value # Unparsable}} :
          Contract!GetAndRemove(p)
    BY <2>1, <2>3, Zenon DEF Contract!GetAndRemove, pendingNonces, Nonces, PairOf
  <2> QED
    BY <2>4, Zenon DEF Contract!Next
<1> QED
  BY <1>3, <1>4

(***************************************************************************)
(* The Redis store keeps the promise of ChallengeNonceStore for any number *)
(* of processes, if no command is sent twice.                              *)
(***************************************************************************)
THEOREM RedisRefinesContract ==
  ASSUME MaxSends = 1
  PROVE  RedisSpec => RedisKeepsContract
<1>1. RedisInit => Contract!Init
  BY DEF RedisInit, Contract!Init
<1>2. RedisInv /\ [RedisNext]_redisVars => [Contract!Next]_(Contract!contractVars)
  <2> SUFFICES ASSUME RedisInv, [RedisNext]_redisVars
               PROVE  Contract!Next \/ UNCHANGED Contract!contractVars
    OBVIOUS
  <2>1. CASE UNCHANGED <<db, handed>>
    BY <2>1 DEF Contract!contractVars
  <2>2. CASE TickRedis
    BY <2>2, LoseRefines DEF TickRedis, Nonces
  <2>3. CASE Interfere
    <3>1. UNCHANGED handed /\ Nonces(db') \subseteq Nonces(db)
      BY <2>3 DEF Interfere, Set, Nonces
    <3> QED
      BY <3>1, LoseRefines
  <2>4. ASSUME NEW i \in DOMAIN calls, CallStep(i)
        PROVE  ExecuteSet(i) \/ ExecuteGetDel(i) \/ UNCHANGED <<db, handed>>
    <3>1. ~ExecuteStray(i)
      BY DEF RedisInv, CallsInv, ExecuteStray
    <3> QED
      BY <2>4, <3>1 DEF CallStep, ExecuteGetDelAbsent, Resend, Return, Fail
  <2>5. (\E key \in Keys : Put(key) \/ GetAndRemove(key)) => UNCHANGED <<db, handed>>
    BY DEF Put, GetAndRemove
  <2>6. UNCHANGED redisVars => UNCHANGED <<db, handed>>
    BY DEF redisVars
  <2> QED
    BY <2>1, <2>2, <2>3, <2>4, <2>5, <2>6, SetRefines, GetDelRefines DEF RedisNext
<1> QED
  BY <1>1, <1>2, RedisInitInv, RedisNextInv, PTL
     DEF RedisSpec, RedisKeepsContract, Contract!Spec

(***************************************************************************)
(* A step that the contract allows keeps one holder for every nonce.       *)
(***************************************************************************)
LEMMA ContractStep ==
  ASSUME Contract!OneHolder, [Contract!Next]_(Contract!contractVars)
  PROVE  Contract!OneHolder'
<1>1. PICK P : P = pendingNonces
  OBVIOUS
<1>2. PICK Q : Q = pendingNonces'
  OBVIOUS
<1>3. /\ \A e, f \in P : e.key = f.key => e = f
      /\ \A e, f \in P \cup handed : e.value = f.value => e = f
      /\ P \cap handed = {}
  BY <1>1, Zenon DEF Contract!OneHolder, pendingNonces, Nonces, PairOf
<1>4. \/ \E k \in Keys, v \in 1..MaxValues :
           /\ \A e \in P \cup handed : e.value # v
           /\ \E keep \in SUBSET {e \in P : e.key # k} :
                Q = keep \cup {[key |-> k, value |-> v]}
           /\ UNCHANGED handed
      \/ \E e \in P : Q = P \ {e} /\ handed' = handed \cup {e}
      \/ Q \in SUBSET P /\ UNCHANGED handed
      \/ Q = P /\ UNCHANGED handed
  BY <1>1, <1>2, ZenonT(30) DEF Contract!Next, Contract!Put, Contract!Unused,
     Contract!GetAndRemove, Contract!Lose, Contract!contractVars, pendingNonces, Nonces, PairOf
<1>5. /\ \A e, f \in Q : e.key = f.key => e = f
      /\ \A e, f \in Q \cup handed' : e.value = f.value => e = f
      /\ Q \cap handed' = {}
  <2>1. ASSUME NEW k \in Keys, NEW v \in 1..MaxValues,
               \A e \in P \cup handed : e.value # v,
               NEW keep \in SUBSET {e \in P : e.key # k},
               Q = keep \cup {[key |-> k, value |-> v]}, UNCHANGED handed
        PROVE  <1>5!:
    <3>1. PICK n : n = [key |-> k, value |-> v]
      OBVIOUS
    <3>2. n.key = k /\ n.value = v
      BY <3>1
    <3>3. Q = keep \cup {n} /\ keep \subseteq P /\ \A e \in keep : e.key # k
      BY <2>1, <3>1
    <3> QED BY <1>3, <2>1, <3>2, <3>3, ZenonT(30)
  <2>2. ASSUME NEW e \in P, Q = P \ {e}, handed' = handed \cup {e}
        PROVE  <1>5!:
    BY <1>3, <2>2
  <2>3. CASE Q \in SUBSET P /\ UNCHANGED handed
    BY <1>3, <2>3
  <2> QED BY <1>4, <2>1, <2>2, <2>3, ZenonT(30)
<1> QED BY <1>2, <1>5, Zenon DEF Contract!OneHolder, pendingNonces, Nonces, PairOf

(***************************************************************************)
(* So in Redis, too, a session has one nonce at a time, no nonce has two   *)
(* sessions, and none that GETDEL handed out is stored again, if no        *)
(* command is sent twice.                                                  *)
(***************************************************************************)
THEOREM OneHolderInRedis ==
  ASSUME MaxSends = 1
  PROVE  RedisSpec => []Contract!OneHolder
<1>1. Contract!Init => Contract!OneHolder
  BY DEF Contract!Init, Contract!OneHolder
<1>2. RedisKeepsContract => []Contract!OneHolder
  BY <1>1, ContractStep, PTL DEF RedisKeepsContract, Contract!Spec
<1> QED BY <1>2, RedisRefinesContract, PTL

(***************************************************************************)
(* A client that repeats its commands.  A nonce is returned to no more     *)
(* calls than SETs of it were executed, one less while it is stored.       *)
(***************************************************************************)
Takers(v) == {k \in DOMAIN calls : calls[k].op = "GetAndRemove" /\ calls[k].value = v}

Shown(v) == IF \E e \in db : e.value = v THEN 1 ELSE 0

SetsDone(c) == c.sends - c.stray - (IF c.command = "sent" THEN 1 ELSE 0)

PutFor(key, value) ==
  \E j \in DOMAIN calls : calls[j].op = "Put" /\ calls[j].key = key /\ calls[j].value = value

(* What is known of every call, however often its command was sent. *)
SentCalls ==
  \A i \in DOMAIN calls :
    /\ calls[i].op = "Put" => calls[i].value \in 1..drawn
    /\ calls[i].result = "ok" => calls[i].command = "executed" /\ calls[i].value # 0
    /\ calls[i].op = "GetAndRemove" /\ calls[i].value # 0 => PutFor(calls[i].key, calls[i].value)

StoredByPut == \A e \in db : e.value # 0 => PutFor(e.key, e.value)

PerSend ==
  \A j \in DOMAIN calls : calls[j].op = "Put" =>
    Cardinality(Takers(calls[j].value)) + Shown(calls[j].value) <= SetsDone(calls[j])

SendInv ==
  /\ RedisTypeOK /\ SentCalls /\ PutsDiffer /\ OneEntry /\ StoredByPut /\ PerSend

(***************************************************************************)
(* Calls are finitely many, so those that hold a nonce can be counted.     *)
(***************************************************************************)
LEMMA TakersFinite ==
  ASSUME calls \in Seq(Call), NEW v
  PROVE  IsFiniteSet(Takers(v)) /\ Cardinality(Takers(v)) \in Nat /\ Shown(v) \in 0..1
<1>1. Len(calls) \in Int /\ DOMAIN calls = 1..Len(calls)
  OBVIOUS
<1>2. IsFiniteSet(1..Len(calls))
  BY <1>1, FS_Interval
<1>3. Takers(v) \subseteq 1..Len(calls)
  BY <1>1 DEF Takers
<1> QED BY <1>2, <1>3, FS_Subset, FS_CardinalityType DEF Shown

(***************************************************************************)
(* The number of SETs executed is a number.                                *)
(***************************************************************************)
LEMMA SetsDoneType == \A c \in Call : SetsDone(c) \in Int
<1> SUFFICES ASSUME NEW c \in Call PROVE SetsDone(c) \in Int
  OBVIOUS
<1>1. c.sends \in Nat /\ c.stray \in Nat
  BY DEF Call
<1> QED BY <1>1 DEF SetsDone

(***************************************************************************)
(* What a step has to show for PerSend: fewer calls hold a nonce, and it   *)
(* is stored as before or no longer, unless one of its SETs was executed.  *)
(***************************************************************************)
LEMMA BudgetKept ==
  ASSUME SendInv, NEW j \in DOMAIN calls, calls[j].op = "Put", NEW v, v = calls[j].value,
         NEW c \in Call, Takers(v)' \subseteq Takers(v),
         \/ Shown(v)' <= Shown(v) /\ SetsDone(calls[j]) <= SetsDone(c)
         \/ SetsDone(calls[j]) + 1 <= SetsDone(c)
  PROVE  Cardinality(Takers(v)') + Shown(v)' <= SetsDone(c)
<1>1. calls \in Seq(Call) /\ calls[j] \in Call
  BY DEF SendInv, RedisTypeOK
<1>2. IsFiniteSet(Takers(v)) /\ Cardinality(Takers(v)) \in Nat /\ Shown(v) \in 0..1
  BY <1>1, TakersFinite
<1>3. Shown(v)' \in 0..1
  BY DEF Shown
<1>4. Cardinality(Takers(v)') <= Cardinality(Takers(v)) /\ Cardinality(Takers(v)') \in Nat
  BY <1>2, FS_Subset, FS_CardinalityType
<1>5. Cardinality(Takers(v)) + Shown(v) <= SetsDone(calls[j])
  BY DEF SendInv, PerSend
<1>6. SetsDone(calls[j]) \in Int /\ SetsDone(c) \in Int
  BY <1>1, SetsDoneType
<1> QED BY <1>2, <1>3, <1>4, <1>5, <1>6

(***************************************************************************)
(* Before the first call.                                                  *)
(***************************************************************************)
LEMMA SendInvInit == RedisInit => SendInv
BY DEF RedisInit, SendInv, RedisTypeOK, SentCalls, PutsDiffer, OneEntry, StoredByPut, PerSend

(***************************************************************************)
(* A call begins: no call holds the nonce it brings.                       *)
(***************************************************************************)
LEMMA BeginSends ==
  ASSUME SendInv, NEW op \in {"Put", "GetAndRemove"}, NEW key \in Keys, NEW value \in Nat,
         Begin(op, key, value), UNCHANGED <<now, db, handed>>,
         \/ op = "Put" /\ drawn' = drawn + 1 /\ value = drawn + 1
         \/ op = "GetAndRemove" /\ drawn' = drawn /\ value = 0
  PROVE  SendInv'
<1> DEFINE c == [op |-> op, key |-> key, value |-> value, command |-> "sent", sends |-> 1,
                 stray |-> 0, prior |-> {i \in DOMAIN calls : calls[i].result = "ok"},
                 result |-> "waiting"]
<1>1. /\ calls \in Seq(Call) /\ drawn \in Nat /\ SentCalls /\ PutsDiffer /\ OneEntry
      /\ StoredByPut /\ PerSend
  BY DEF SendInv, RedisTypeOK
<1>2. c \in Call
  BY <1>1, FreshCall, ZenonT(30)
<1>3. /\ calls' = Append(calls, c) /\ c.op = op /\ c.key = key /\ c.value = value
      /\ c.command = "sent" /\ c.sends = 1 /\ c.stray = 0 /\ c.result = "waiting"
  BY DEF Begin
<1> HIDE DEF c
<1>4. /\ calls' \in Seq(Call)
      /\ DOMAIN calls' = DOMAIN calls \cup {Len(calls) + 1} /\ Len(calls) + 1 \notin DOMAIN calls
      /\ calls'[Len(calls) + 1] = c
      /\ \A i \in DOMAIN calls : calls'[i] = calls[i]
  BY <1>1, <1>2, <1>3, Appended
<1>5. RedisTypeOK' /\ OneEntry' /\ drawn' \in Nat /\ drawn <= drawn'
  BY <1>1, <1>4 DEF SendInv, RedisTypeOK, OneEntry
<1>6. \A k, v : PutFor(k, v) => PutFor(k, v)'
  BY <1>4 DEF PutFor
<1>7. SentCalls' /\ StoredByPut'
  BY <1>1, <1>3, <1>4, <1>5, <1>6 DEF SentCalls, StoredByPut
<1>8. ASSUME c.op = "Put"
      PROVE  /\ \A i \in DOMAIN calls : calls[i].value # c.value
             /\ \A e \in db : e.value # c.value
  <2>1. \A k, v : PutFor(k, v) => v \in 1..drawn
    BY <1>1 DEF PutFor, SentCalls
  <2>2. c.value = drawn + 1
    BY <1>3, <1>8
  <2>3. ASSUME NEW i \in DOMAIN calls PROVE calls[i].value = 0 \/ calls[i].value \in 1..drawn
    <3>1. calls[i] \in Call
      BY <1>1
    <3>2. calls[i].op \in {"Put", "GetAndRemove"}
      BY <3>1 DEF Call
    <3> QED BY <1>1, <2>1, <3>2 DEF SentCalls
  <2>4. ASSUME NEW e \in db PROVE e.value = 0 \/ e.value \in 1..drawn
    BY <1>1, <2>1 DEF StoredByPut
  <2> QED BY <1>1, <2>2, <2>3, <2>4
<1>9. PutsDiffer'
  BY <1>1, <1>3, <1>4, <1>8 DEF PutsDiffer
<1>10. ASSUME NEW j \in DOMAIN calls, calls[j].op = "Put", NEW v, v = calls[j].value
       PROVE  Cardinality(Takers(v)') + Shown(v)' <= SetsDone(calls[j])
  <2>1. calls[j] \in Call /\ v # 0
    BY <1>1, <1>10 DEF SentCalls
  <2>2. c.op = "GetAndRemove" => c.value = 0
    BY <1>3
  <2>3. Takers(v)' \subseteq Takers(v)
    BY <1>4, <2>1, <2>2 DEF Takers
  <2>4. Shown(v)' <= Shown(v) /\ SetsDone(calls[j]) <= SetsDone(calls[j])
    BY <2>1, SetsDoneType DEF Shown
  <2> QED BY <1>10, <2>1, <2>3, <2>4, BudgetKept
<1>11. ASSUME c.op = "Put", NEW v, v = c.value
       PROVE  Cardinality(Takers(v)') + Shown(v)' <= SetsDone(c)
  <2>1. Takers(v)' = {} /\ Shown(v)' = 0
    BY <1>4, <1>8, <1>11 DEF Takers, Shown
  <2>2. SetsDone(c) = 0 /\ Cardinality({}) = 0
    BY <1>3, FS_EmptySet DEF SetsDone
  <2> QED BY <2>1, <2>2
<1>12. PerSend'
  <2> SUFFICES ASSUME NEW j \in DOMAIN calls', calls'[j].op = "Put"
               PROVE  Cardinality(Takers(calls[j].value)') + Shown(calls[j].value)'
                        <= SetsDone(calls[j])'
    BY DEF PerSend
  <2>1. CASE j \in DOMAIN calls
    BY <1>4, <1>10, <2>1 DEF SetsDone
  <2>2. CASE j = Len(calls) + 1
    BY <1>4, <1>11, <2>2 DEF SetsDone
  <2> QED BY <1>4, <2>1, <2>2
<1> QED BY <1>5, <1>7, <1>9, <1>12 DEF SendInv

(***************************************************************************)
(* The calls move on, each the same call as before.                        *)
(***************************************************************************)
SameSend(c, d) ==
  /\ c.op = d.op /\ c.key = d.key
  /\ c.op = "Put" => c.value = d.value
  /\ c.result = "ok" => c.command = "executed" /\ c.value # 0

MoveOn ==
  /\ calls' \in Seq(Call) /\ DOMAIN calls' = DOMAIN calls /\ drawn' = drawn
  /\ \A j \in DOMAIN calls : SameSend(calls'[j], calls[j])

(***************************************************************************)
(* One call that moves on is such a step.                                  *)
(***************************************************************************)
LEMMA OneMovesOn ==
  ASSUME SendInv, NEW i \in DOMAIN calls, NEW c \in Call, SameSend(c, calls[i]),
         calls' = [calls EXCEPT ![i] = c], drawn' = drawn
  PROVE  /\ MoveOn /\ calls'[i] = c
         /\ \A j \in DOMAIN calls : j # i => calls'[j] = calls[j]
<1>1. calls \in Seq(Call)
  BY DEF SendInv, RedisTypeOK
<1>2. /\ calls' \in Seq(Call) /\ DOMAIN calls' = DOMAIN calls /\ calls'[i] = c
      /\ \A j \in DOMAIN calls : j # i => calls'[j] = calls[j]
  BY <1>1
<1>3. \A j \in DOMAIN calls : SameSend(calls[j], calls[j])
  BY DEF SendInv, SentCalls, SameSend
<1> QED BY <1>2, <1>3 DEF MoveOn

(***************************************************************************)
(* What is left to show when calls move on: which Put the stored and the   *)
(* returned nonces come from, and the count.                               *)
(***************************************************************************)
LEMMA MoveOnKeeps ==
  ASSUME SendInv, MoveOn, now' \in Nat, db' \subseteq Entry,
         handed' \subseteq [key : Keys, value : Nat], OneEntry',
         \A e \in db' : e.value # 0 => PutFor(e.key, e.value),
         \A j \in DOMAIN calls : calls'[j].op = "GetAndRemove" /\ calls'[j].value # 0 =>
           PutFor(calls'[j].key, calls'[j].value),
         \A j \in DOMAIN calls : \A v : calls[j].op = "Put" /\ v = calls[j].value =>
           Cardinality(Takers(v)') + Shown(v)' <= SetsDone(calls'[j])
  PROVE  SendInv'
<1>1. \A k, v : PutFor(k, v) => PutFor(k, v)'
  BY DEF MoveOn, SameSend, PutFor
<1>2. RedisTypeOK' /\ StoredByPut'
  BY <1>1 DEF SendInv, RedisTypeOK, MoveOn, StoredByPut
<1>3. PutsDiffer'
  BY DEF SendInv, PutsDiffer, MoveOn, SameSend
<1>4. SentCalls'
  BY <1>1 DEF SendInv, SentCalls, MoveOn, SameSend
<1>5. PerSend'
  <2> SUFFICES ASSUME NEW j \in DOMAIN calls', calls'[j].op = "Put"
               PROVE  Cardinality(Takers(calls[j].value)') + Shown(calls[j].value)'
                        <= SetsDone(calls[j])'
    BY DEF PerSend
  <2> QED BY DEF MoveOn, SameSend, SetsDone
<1> QED BY <1>2, <1>3, <1>4, <1>5 DEF SendInv

(***************************************************************************)
(* Nothing is gained: no SET is executed, no nonce is handed to a call and *)
(* none appears in Redis.                                                  *)
(***************************************************************************)
LEMMA NothingGained ==
  ASSUME SendInv, MoveOn, now' \in Nat, db' \subseteq Entry,
         handed' \subseteq [key : Keys, value : Nat], OneEntry',
         \A e \in db' : e \in db \/ e.value = 0,
         \A j \in DOMAIN calls :
           /\ calls'[j].value \in {0, calls[j].value}
           /\ calls[j].op = "Put" => SetsDone(calls'[j]) = SetsDone(calls[j])
  PROVE  SendInv'
<1>1. \A e \in db' : e.value # 0 => PutFor(e.key, e.value)
  BY DEF SendInv, StoredByPut
<1>2. \A j \in DOMAIN calls : calls'[j].op = "GetAndRemove" /\ calls'[j].value # 0 =>
        PutFor(calls'[j].key, calls'[j].value)
  BY DEF SendInv, SentCalls, MoveOn, SameSend
<1>3. ASSUME NEW j \in DOMAIN calls, NEW v, calls[j].op = "Put", v = calls[j].value
      PROVE  Cardinality(Takers(v)') + Shown(v)' <= SetsDone(calls'[j])
  <2>1. v # 0 /\ calls'[j] \in Call /\ calls[j] \in Call
    BY <1>3 DEF SendInv, SentCalls, RedisTypeOK, MoveOn
  <2>2. Takers(v)' \subseteq Takers(v)
    BY <2>1 DEF Takers, MoveOn, SameSend
  <2>3. Shown(v)' <= Shown(v)
    BY <2>1 DEF Shown
  <2>4. SetsDone(calls[j]) <= SetsDone(calls'[j])
    BY <1>3, <2>1, SetsDoneType
  <2> QED BY <1>3, <2>1, <2>2, <2>3, <2>4, BudgetKept
<1> QED BY <1>1, <1>2, <1>3, MoveOnKeeps

(***************************************************************************)
(* A SET is executed, of the last command of a call or of an earlier one.  *)
(***************************************************************************)
LEMMA SetKeeps ==
  ASSUME SendInv, NEW i \in DOMAIN calls, calls[i].op = "Put", NEW c \in Call,
         SameSend(c, calls[i]), SetsDone(c) = SetsDone(calls[i]) + 1,
         calls' = [calls EXCEPT ![i] = c], db' = Set(calls[i].key, calls[i].value),
         UNCHANGED <<now, drawn, handed>>
  PROVE  SendInv'
<1>1. /\ MoveOn /\ calls'[i] = c
      /\ \A j \in DOMAIN calls : j # i => calls'[j] = calls[j]
  BY OneMovesOn
<1>2. PICK n : n = [key |-> calls[i].key, value |-> calls[i].value, expires |-> now + TTL]
  OBVIOUS
<1>3. /\ calls[i].key \in Keys /\ calls[i].value \in Nat /\ now + TTL \in Nat
  <2>1. calls[i] \in Call /\ now \in Nat /\ TTL \in Nat
    BY RedisAssumption DEF SendInv, RedisTypeOK
  <2> QED BY <2>1 DEF Call
<1>4. n \in Entry /\ n.key = calls[i].key /\ n.value = calls[i].value
  BY <1>2, <1>3 DEF Entry
<1>5. db' = {e \in db : e.key # n.key} \cup {n}
  BY <1>2, <1>4 DEF Set
<1>6. /\ db' \subseteq Entry /\ OneEntry' /\ now' \in Nat
      /\ handed' \subseteq [key : Keys, value : Nat]
  BY <1>4, <1>5 DEF SendInv, RedisTypeOK, OneEntry
<1>7. \A e \in db' : e.value # 0 => PutFor(e.key, e.value)
  BY <1>4, <1>5 DEF SendInv, StoredByPut, PutFor
<1>8. \A j \in DOMAIN calls : calls'[j].op = "GetAndRemove" /\ calls'[j].value # 0 =>
        PutFor(calls'[j].key, calls'[j].value)
  BY <1>1 DEF SendInv, SentCalls, MoveOn, SameSend
<1>9. ASSUME NEW j \in DOMAIN calls, NEW v, calls[j].op = "Put", v = calls[j].value
      PROVE  Cardinality(Takers(v)') + Shown(v)' <= SetsDone(calls'[j])
  <2>1. calls'[j] \in Call /\ calls[j] \in Call
    BY <1>1 DEF SendInv, RedisTypeOK, MoveOn
  <2>2. Takers(v)' \subseteq Takers(v)
    BY <1>1 DEF Takers, MoveOn, SameSend
  <2>3. CASE j = i
    <3>1. SetsDone(calls[j]) + 1 <= SetsDone(calls'[j])
      BY <1>1, <2>1, <2>3, SetsDoneType
    <3> QED BY <1>9, <2>1, <2>2, <3>1, BudgetKept
  <2>4. CASE j # i
    <3>1. n.value # v
      BY <1>4, <1>9, <2>4 DEF SendInv, PutsDiffer
    <3>2. Shown(v)' <= Shown(v)
      BY <1>5, <3>1 DEF Shown
    <3>3. SetsDone(calls[j]) <= SetsDone(calls'[j])
      BY <1>1, <2>1, <2>4, SetsDoneType
    <3> QED BY <1>9, <2>1, <2>2, <3>2, <3>3, BudgetKept
  <2> QED BY <2>3, <2>4
<1> QED BY <1>1, <1>6, <1>7, <1>8, <1>9, MoveOnKeeps

(***************************************************************************)
(* A nonce is stored once: its only entry is the one under its key.        *)
(***************************************************************************)
LEMMA StoredOnce ==
  ASSUME SendInv, NEW e \in db, NEW f \in db, e.value # 0, e.value = f.value
  PROVE  e = f
<1>1. PutFor(e.key, e.value) /\ PutFor(f.key, e.value)
  BY DEF SendInv, StoredByPut
<1>2. e.key = f.key
  BY <1>1 DEF PutFor, SendInv, PutsDiffer
<1> QED BY <1>2 DEF SendInv, OneEntry

(***************************************************************************)
(* GETDEL hands a nonce to one call and removes it.                        *)
(***************************************************************************)
LEMMA GetDelKeeps ==
  ASSUME SendInv, NEW i \in DOMAIN calls, calls[i].op = "GetAndRemove", NEW c \in Call,
         SameSend(c, calls[i]), NEW e \in db, e.key = calls[i].key, c.value = e.value,
         calls' = [calls EXCEPT ![i] = c], db' = db \ {e},
         handed' \subseteq [key : Keys, value : Nat], UNCHANGED <<now, drawn>>
  PROVE  SendInv'
<1>1. /\ MoveOn /\ calls'[i] = c
      /\ \A j \in DOMAIN calls : j # i => calls'[j] = calls[j]
  BY OneMovesOn
<1>2. db' \subseteq Entry /\ OneEntry' /\ now' \in Nat
  BY DEF SendInv, RedisTypeOK, OneEntry
<1>3. \A f \in db' : f.value # 0 => PutFor(f.key, f.value)
  BY DEF SendInv, StoredByPut
<1>4. \A j \in DOMAIN calls : calls'[j].op = "GetAndRemove" /\ calls'[j].value # 0 =>
        PutFor(calls'[j].key, calls'[j].value)
  BY <1>1 DEF SendInv, SentCalls, StoredByPut, MoveOn, SameSend
<1>5. ASSUME NEW j \in DOMAIN calls, NEW v, calls[j].op = "Put", v = calls[j].value
      PROVE  Cardinality(Takers(v)') + Shown(v)' <= SetsDone(calls'[j])
  <2>1. calls'[j] = calls[j] /\ calls[j] \in Call /\ v # 0
    BY <1>1, <1>5 DEF SendInv, RedisTypeOK, SentCalls
  <2>2. CASE e.value # v
    <3>1. Takers(v)' \subseteq Takers(v)
      BY <1>1, <2>2 DEF Takers, MoveOn
    <3>2. Shown(v)' <= Shown(v)
      BY DEF Shown
    <3>3. SetsDone(calls[j]) <= SetsDone(calls'[j])
      BY <2>1, SetsDoneType
    <3> QED BY <1>5, <2>1, <3>1, <3>2, <3>3, BudgetKept
  <2>3. CASE e.value = v
    <3>1. Takers(v)' \subseteq Takers(v) \cup {i}
      BY <1>1 DEF Takers, MoveOn
    <3>2. Shown(v) = 1 /\ Shown(v)' = 0
      BY <2>1, <2>3, StoredOnce DEF Shown
    <3>3. IsFiniteSet(Takers(v)) /\ Cardinality(Takers(v)) \in Nat
      BY TakersFinite DEF SendInv, RedisTypeOK
    <3>4. /\ IsFiniteSet(Takers(v) \cup {i})
          /\ Cardinality(Takers(v) \cup {i}) <= Cardinality(Takers(v)) + 1
          /\ Cardinality(Takers(v) \cup {i}) \in Nat
      <4>1. PICK T : T = Takers(v)
        OBVIOUS
      <4>2. /\ IsFiniteSet(T \cup {i})
            /\ Cardinality(T \cup {i}) = IF i \in T THEN Cardinality(T) ELSE Cardinality(T) + 1
        BY <3>3, <4>1, FS_AddElement
      <4> QED BY <3>3, <4>1, <4>2
    <3>5. /\ Cardinality(Takers(v)') <= Cardinality(Takers(v) \cup {i})
          /\ Cardinality(Takers(v)') \in Nat
      BY <3>1, <3>4, FS_Subset, FS_CardinalityType
    <3>6. Cardinality(Takers(v)) + 1 <= SetsDone(calls[j]) /\ SetsDone(calls[j]) \in Int
      BY <1>5, <2>1, <3>2, SetsDoneType DEF SendInv, PerSend
    <3> QED BY <2>1, <3>2, <3>3, <3>4, <3>5, <3>6
  <2> QED BY <2>2, <2>3
<1> QED BY <1>1, <1>2, <1>3, <1>4, <1>5, MoveOnKeeps

(***************************************************************************)
(* Every step of a call keeps the count.                                   *)
(***************************************************************************)
LEMMA CallStepSends ==
  ASSUME SendInv, NEW i \in DOMAIN calls, CallStep(i)
  PROVE  SendInv'
<1>1. PICK d \in Call : d = calls[i]
  BY DEF SendInv, RedisTypeOK
<1>2. /\ d.op \in {"Put", "GetAndRemove"} /\ d.sends \in Nat /\ d.stray \in Nat
      /\ d.value \in Nat /\ d.key \in Keys
      /\ d.command \in {"sent", "executed", "absent"}
      /\ d.result = "ok" => d.command = "executed" /\ d.value # 0
  BY <1>1 DEF Call, SendInv, SentCalls
<1>3. handed \subseteq [key : Keys, value : Nat]
  BY DEF SendInv, RedisTypeOK
<1>4. ASSUME NEW e \in db, HandOut(e)
      PROVE  db' = db \ {e} /\ handed' \subseteq [key : Keys, value : Nat]
  <2>1. e \in Entry
    BY DEF SendInv, RedisTypeOK
  <2>2. e.key \in Keys /\ e.value \in Nat
    BY <2>1 DEF Entry
  <2> QED BY <1>3, <1>4, <2>2 DEF HandOut, GetDel
<1>5. ASSUME NEW c \in Call, SameSend(c, d), c.value \in {0, d.value},
             d.op = "Put" => SetsDone(c) = SetsDone(d), calls' = [calls EXCEPT ![i] = c],
             UNCHANGED <<now, drawn>>, db' \subseteq db,
             handed' \subseteq [key : Keys, value : Nat]
      PROVE  SendInv'
  <2>1. /\ MoveOn /\ calls'[i] = c
        /\ \A j \in DOMAIN calls : j # i => calls'[j] = calls[j]
    BY <1>1, <1>5, OneMovesOn
  <2>2. db' \subseteq Entry /\ OneEntry' /\ now' \in Nat
    BY <1>5 DEF SendInv, RedisTypeOK, OneEntry
  <2>3. \A j \in DOMAIN calls :
          /\ calls'[j].value \in {0, calls[j].value}
          /\ calls[j].op = "Put" => SetsDone(calls'[j]) = SetsDone(calls[j])
    BY <1>1, <1>5, <2>1
  <2> QED BY <1>5, <2>1, <2>2, <2>3, NothingGained
<1>6. CASE ExecuteSet(i)
  <2>1. PICK c : c = [d EXCEPT !.command = "executed"] /\ calls' = [calls EXCEPT ![i] = c]
    BY <1>1, <1>6 DEF ExecuteSet
  <2>2. /\ c \in Call /\ c.op = d.op /\ c.key = d.key /\ c.value = d.value
        /\ c.command = "executed" /\ c.sends = d.sends /\ c.stray = d.stray
        /\ c.result = d.result
    BY <2>1 DEF Call
  <2>3. d.op = "Put" /\ d.command = "sent"
    BY <1>1, <1>6 DEF ExecuteSet
  <2>4. SameSend(c, d) /\ SetsDone(c) = SetsDone(d) + 1
    BY <1>2, <2>2, <2>3 DEF SameSend, SetsDone
  <2> QED BY <1>1, <1>6, <2>1, <2>2, <2>3, <2>4, SetKeeps DEF ExecuteSet
<1>7. CASE ExecuteGetDel(i)
  <2>1. PICK e \in db :
          /\ e.key = d.key /\ HandOut(e)
          /\ calls' = [calls EXCEPT ![i] = [d EXCEPT !.command = "executed", !.value = e.value]]
    BY <1>1, <1>7 DEF ExecuteGetDel
  <2>2. PICK c : /\ c = [d EXCEPT !.command = "executed", !.value = e.value]
                 /\ calls' = [calls EXCEPT ![i] = c]
    BY <2>1
  <2>3. e.value \in Nat
    BY DEF SendInv, RedisTypeOK, Entry
  <2>4. /\ c \in Call /\ c.op = d.op /\ c.key = d.key /\ c.value = e.value
        /\ c.command = "executed" /\ c.result = d.result
    BY <2>2, <2>3 DEF Call
  <2>5. d.op = "GetAndRemove" /\ d.command = "sent"
    BY <1>1, <1>7 DEF ExecuteGetDel
  <2>6. SameSend(c, d)
    BY <1>2, <2>4, <2>5 DEF SameSend
  <2>7. db' = db \ {e} /\ handed' \subseteq [key : Keys, value : Nat] /\ UNCHANGED <<now, drawn>>
    BY <1>4, <1>7, <2>1 DEF ExecuteGetDel
  <2> QED BY <1>1, <2>1, <2>2, <2>4, <2>5, <2>6, <2>7, GetDelKeeps
<1>8. CASE ExecuteGetDelAbsent(i)
  <2>1. PICK c : c = [d EXCEPT !.command = "absent"] /\ calls' = [calls EXCEPT ![i] = c]
    BY <1>1, <1>8 DEF ExecuteGetDelAbsent
  <2>2. /\ c \in Call /\ c.op = d.op /\ c.key = d.key /\ c.value = d.value
        /\ c.command = "absent" /\ c.sends = d.sends /\ c.stray = d.stray
        /\ c.result = d.result
    BY <2>1 DEF Call
  <2>3. d.op = "GetAndRemove" /\ d.command = "sent"
    BY <1>1, <1>8 DEF ExecuteGetDelAbsent
  <2>4. SameSend(c, d)
    BY <1>2, <2>2, <2>3 DEF SameSend
  <2> QED BY <1>3, <1>5, <1>8, <2>1, <2>2, <2>3, <2>4 DEF ExecuteGetDelAbsent
<1>9. CASE Resend(i)
  <2>1. PICK value, stray : /\ value = IF d.op = "Put" THEN d.value ELSE 0
                            /\ stray = IF d.command = "sent" THEN d.stray + 1 ELSE d.stray
    OBVIOUS
  <2>2. PICK c : /\ c = [d EXCEPT !.command = "sent", !.sends = d.sends + 1,
                                  !.value = value, !.stray = stray]
                 /\ calls' = [calls EXCEPT ![i] = c]
    BY <1>1, <1>9, <2>1 DEF Resend
  <2>3. value \in Nat /\ stray \in Nat /\ d.sends + 1 \in Nat
    BY <1>2, <2>1
  <2>4. /\ c \in Call /\ c.op = d.op /\ c.key = d.key /\ c.value = value
        /\ c.command = "sent" /\ c.sends = d.sends + 1 /\ c.stray = stray
        /\ c.result = d.result
    BY <2>2, <2>3 DEF Call
  <2>5. d.result = "waiting" /\ UNCHANGED <<now, db, drawn, handed>>
    BY <1>1, <1>9 DEF Resend
  <2>6. SameSend(c, d) /\ c.value \in {0, d.value}
    BY <2>1, <2>4, <2>5 DEF SameSend
  <2>7. SetsDone(c) = SetsDone(d)
    BY <1>2, <2>1, <2>4 DEF SetsDone
  <2> QED BY <1>3, <1>5, <2>2, <2>4, <2>5, <2>6, <2>7
<1>10. CASE ExecuteStray(i)
  <2>1. PICK c : c = [d EXCEPT !.stray = d.stray - 1] /\ calls' = [calls EXCEPT ![i] = c]
    BY <1>1, <1>10 DEF ExecuteStray
  <2>2. d.stray - 1 \in Nat
    BY <1>1, <1>2, <1>10 DEF ExecuteStray
  <2>3. /\ c \in Call /\ c.op = d.op /\ c.key = d.key /\ c.value = d.value
        /\ c.command = d.command /\ c.sends = d.sends /\ c.stray = d.stray - 1
        /\ c.result = d.result
    BY <2>1, <2>2 DEF Call
  <2>4. SameSend(c, d) /\ UNCHANGED <<now, drawn>>
    BY <1>2, <1>10, <2>3 DEF SameSend, ExecuteStray
  <2>5. CASE d.op = "Put"
    <3>1. SetsDone(c) = SetsDone(d) + 1
      BY <1>2, <2>3 DEF SetsDone
    <3>2. db' = Set(d.key, d.value) /\ handed' = handed
      BY <1>1, <1>10, <2>5 DEF ExecuteStray
    <3> QED BY <1>1, <2>1, <2>3, <2>4, <2>5, <3>1, <3>2, SetKeeps
  <2>6. CASE d.op = "GetAndRemove"
    <3>1. db' \subseteq db /\ handed' \subseteq [key : Keys, value : Nat]
      BY <1>1, <1>3, <1>4, <1>10, <2>6 DEF ExecuteStray
    <3> QED BY <1>5, <2>1, <2>3, <2>4, <2>6, <3>1
  <2> QED BY <1>2, <2>5, <2>6
<1>11. CASE Return(i) \/ Fail(i)
  <2>1. PICK result \in {"ok", "error", "notFound"} :
          /\ calls' = [calls EXCEPT ![i] = [d EXCEPT !.result = result]]
          /\ result = "ok" => d.command = "executed" /\ d.value # 0
    BY <1>1, <1>11 DEF Return, Fail, Unparsable
  <2>2. PICK c : c = [d EXCEPT !.result = result] /\ calls' = [calls EXCEPT ![i] = c]
    BY <2>1
  <2>3. /\ c \in Call /\ c.op = d.op /\ c.key = d.key /\ c.value = d.value
        /\ c.command = d.command /\ c.sends = d.sends /\ c.stray = d.stray
        /\ c.result = result
    BY <2>2 DEF Call
  <2>4. SameSend(c, d) /\ SetsDone(c) = SetsDone(d) /\ c.value \in {0, d.value}
    BY <2>1, <2>3 DEF SameSend, SetsDone
  <2> QED BY <1>3, <1>5, <1>11, <2>2, <2>3, <2>4 DEF Return, Fail
<1> QED BY <1>6, <1>7, <1>8, <1>9, <1>10, <1>11 DEF CallStep

(***************************************************************************)
(* The clock and others who write to Redis add no nonce.                   *)
(***************************************************************************)
LEMMA OutsideSends ==
  ASSUME SendInv, TickRedis \/ Interfere \/ UNCHANGED redisVars
  PROVE  SendInv'
<1>1. /\ calls \in Seq(Call) /\ now \in Nat /\ db \subseteq Entry /\ TTL \in Nat
      /\ handed \subseteq [key : Keys, value : Nat]
  BY RedisAssumption DEF SendInv, RedisTypeOK
<1>2. calls' = calls /\ handed' = handed /\ drawn' = drawn /\ now' \in Nat
  BY <1>1 DEF TickRedis, Interfere, redisVars
<1>3. MoveOn
  BY <1>1, <1>2 DEF MoveOn, SameSend, SendInv, SentCalls
<1>4. /\ db' \subseteq Entry /\ OneEntry' /\ \A e \in db' : e \in db \/ e.value = 0
  <2>1. CASE db' \subseteq db
    BY <1>1, <2>1 DEF SendInv, OneEntry
  <2>2. ASSUME NEW key \in Keys, db' = Set(key, Unparsable)
        PROVE  /\ db' \subseteq Entry /\ OneEntry' /\ \A e \in db' : e \in db \/ e.value = 0
    <3>1. PICK n : n = [key |-> key, value |-> 0, expires |-> now + TTL]
      OBVIOUS
    <3>2. n \in Entry /\ n.key = key /\ n.value = 0
      BY <1>1, <3>1 DEF Entry
    <3>3. db' = {e \in db : e.key # key} \cup {n}
      BY <2>2, <3>1 DEF Set, Unparsable
    <3> QED BY <1>1, <3>2, <3>3 DEF SendInv, OneEntry
  <2> QED BY <2>1, <2>2 DEF TickRedis, Interfere, redisVars
<1> QED BY <1>1, <1>2, <1>3, <1>4, NothingGained

(***************************************************************************)
(* The count is an invariant, for every number of sends.                   *)
(***************************************************************************)
LEMMA SendsHold == RedisSpec => []SendInv
<1>1. SendInv /\ [RedisNext]_redisVars => SendInv'
  <2> SUFFICES ASSUME SendInv, [RedisNext]_redisVars PROVE SendInv'
    OBVIOUS
  <2>1. drawn \in Nat /\ drawn + 1 \in Nat /\ 0 \in Nat
    BY DEF SendInv, RedisTypeOK
  <2>2. ASSUME NEW key \in Keys, Put(key) PROVE SendInv'
    BY <2>1, <2>2, BeginSends DEF Put
  <2>3. ASSUME NEW key \in Keys, GetAndRemove(key) PROVE SendInv'
    BY <2>1, <2>3, BeginSends DEF GetAndRemove
  <2> QED BY <2>2, <2>3, CallStepSends, OutsideSends DEF RedisNext
<1> QED BY <1>1, SendInvInit, PTL DEF RedisSpec

(***************************************************************************)
(* With a client that repeats commands after a network error, a nonce is   *)
(* returned at most as often as its SET was sent: GETDEL removes what it   *)
(* finds, and only another SET of the same Put brings it back.             *)
(***************************************************************************)
THEOREM RedisConsumedPerSend == RedisSpec => []ConsumedPerSend
<1>1. SendInv => ConsumedPerSend
  <2> SUFFICES ASSUME SendInv, NEW i \in DOMAIN calls, Got(i)
               PROVE  \E j \in DOMAIN calls :
                        /\ calls[j].op = "Put" /\ calls[j].value = calls[i].value
                        /\ calls[j].key = calls[i].key
                        /\ Cardinality({k \in DOMAIN calls :
                                          Got(k) /\ calls[k].value = calls[i].value})
                             <= calls[j].sends
    BY DEF ConsumedPerSend
  <2>1. PutFor(calls[i].key, calls[i].value)
    BY DEF SendInv, SentCalls, Got
  <2>2. PICK j \in DOMAIN calls :
          calls[j].op = "Put" /\ calls[j].key = calls[i].key /\ calls[j].value = calls[i].value
    BY <2>1 DEF PutFor
  <2>3. PICK v, G : /\ v = calls[i].value
                    /\ G = {k \in DOMAIN calls : Got(k) /\ calls[k].value = calls[i].value}
    OBVIOUS
  <2>4. /\ IsFiniteSet(Takers(v)) /\ Cardinality(Takers(v)) \in Nat /\ Shown(v) \in 0..1
        /\ G \subseteq Takers(v)
    BY <2>3, TakersFinite DEF SendInv, RedisTypeOK, Takers, Got
  <2>5. Cardinality(G) <= Cardinality(Takers(v)) /\ Cardinality(G) \in Nat
    BY <2>4, FS_Subset, FS_CardinalityType
  <2>6. Cardinality(Takers(v)) + Shown(v) <= SetsDone(calls[j])
    BY <2>2, <2>3 DEF SendInv, PerSend
  <2>7. SetsDone(calls[j]) <= calls[j].sends /\ SetsDone(calls[j]) \in Int
        /\ calls[j].sends \in Nat
    <3>1. calls[j] \in Call
      BY DEF SendInv, RedisTypeOK
    <3>2. calls[j].sends \in Nat /\ calls[j].stray \in Nat
      BY <3>1 DEF Call
    <3> QED BY <3>2 DEF SetsDone
  <2>8. Cardinality(G) <= calls[j].sends
    BY <2>4, <2>5, <2>6, <2>7
  <2> QED BY <2>2, <2>3, <2>8
<1> QED BY <1>1, SendsHold, PTL
============================================================================
