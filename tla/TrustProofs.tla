---------------------------- MODULE TrustProofs ----------------------------
(***************************************************************************)
(* Proofs about the trust store and its reload, for any number of CA       *)
(* certificates, deliveries and, unless it is assumed otherwise,           *)
(* concurrent calls of ReloadTrust.                                        *)
(*                                                                         *)
(* Whole is the inductive invariant of the first two theorems. Serial adds *)
(* what holds when calls of ReloadTrust do not overlap.                    *)
(***************************************************************************)
EXTENDS TrustStore, TLAPS

(***************************************************************************)
(* The trust part of New yields well-typed state.                          *)
(***************************************************************************)
LEMMA TrustInitType == TrustInit => TrustTypeOK
BY TrustAssumption DEF TrustInit, NewTrust, source, TrustTypeOK, Reloading, NotReloading,
   NoReport

(***************************************************************************)
(* Every step of the synchronizer, of ReloadTrust and of a restart keeps   *)
(* the types.                                                              *)
(***************************************************************************)
LEMMA TrustStepType ==
  ASSUME TrustTypeOK, TrustNext
  PROVE  TrustTypeOK'
<1> USE TrustAssumption DEF TrustTypeOK
<1>1. ASSUME NEW d \in Deliveries, Deliver(d) PROVE TrustTypeOK'
  BY <1>1 DEF Deliver
<1>s. source \in [certs : SUBSET CAs, garbage : BOOLEAN]
  BY DEF source
<1>2. ASSUME NEW x \in Reloaders, LoadFails(x) PROVE TrustTypeOK'
  BY <1>2 DEF LoadFails, trustVars
<1>3. ASSUME NEW x \in Reloaders, LoadTrust(x) PROVE TrustTypeOK'
  BY <1>3, <1>s DEF LoadTrust, Reloading
<1>4. ASSUME NEW x \in Reloaders, Reload(x) PROVE TrustTypeOK'
  <2>1. PICK l \in Reloading : l = reload[x]
    OBVIOUS
  <2>2. [l EXCEPT !.pc = "return"] \in Reloading /\ l.cas \in SUBSET CAs /\ l.from \in Nat
    BY DEF Reloading
  <2>3. reload' = [reload EXCEPT ![x] = [l EXCEPT !.pc = "return"]]
    BY <1>4, <2>1 DEF Reload
  <2>4. reload' \in [Reloaders -> Reloading]
    BY <2>2, <2>3
  <2> QED BY <1>4, <2>1, <2>2, <2>4, Zenon DEF Reload
<1>5. ASSUME NEW x \in Reloaders, ReturnCount(x) PROVE TrustTypeOK'
  <2>1. Cardinality(reload[x].cas) \in {Cardinality(cas) : cas \in SUBSET CAs}
    BY DEF Reloading
  <2> QED BY <1>5, <2>1 DEF ReturnCount, Reloading, NotReloading
<1>6. CASE RestartTrust
  BY <1>6, <1>s DEF RestartTrust, NewTrust, Reloading, NotReloading, NoReport
<1> QED BY <1>1, <1>2, <1>3, <1>4, <1>5, <1>6 DEF TrustNext, ReloadStep

(***************************************************************************)
(* What is loaded, and what is in force, is some delivery as a whole.      *)
(***************************************************************************)
IsDelivery(cas, from) == from \in 1..Len(delivered) /\ cas = delivered[from].certs

(* The inductive invariant of the trust store. *)
Whole ==
  /\ TrustTypeOK
  /\ (snapFrom = 0 /\ snap = {}) \/ IsDelivery(snap, snapFrom)
  /\ \A x \in Reloaders : reload[x].pc # "idle" =>
       IsDelivery(reload[x].cas, reload[x].from) /\ reload[x].cas # {}

(***************************************************************************)
(* A delivery is appended: the earlier ones stay what they were.           *)
(***************************************************************************)
LEMMA DeliverKeeps ==
  ASSUME TrustTypeOK, NEW d \in Deliveries, Deliver(d)
  PROVE  \A n \in 1..Len(delivered) : n \in 1..Len(delivered') /\ delivered'[n] = delivered[n]
BY DEF TrustTypeOK, Deliver

(***************************************************************************)
(* New starts from one delivery, or from nothing.                          *)
(***************************************************************************)
LEMMA WholeInit == TrustInit => Whole
<1> SUFFICES ASSUME TrustInit PROVE Whole
  OBVIOUS
<1>1. TrustTypeOK
  BY TrustInitType
<1>2. (snapFrom = 0 /\ snap = {}) \/ IsDelivery(snap, snapFrom)
  BY DEF TrustInit, NewTrust, source, IsDelivery
<1>3. \A x \in Reloaders : reload[x].pc = "idle"
  BY DEF TrustInit, NotReloading
<1> QED BY <1>1, <1>2, <1>3 DEF Whole

(***************************************************************************)
(* A load takes all of one delivery and the swap takes all of the load, so *)
(* every step keeps Whole, also when calls of ReloadTrust overlap.         *)
(***************************************************************************)
LEMMA WholeNext == Whole /\ [TrustNext]_trustVars => Whole'
<1> SUFFICES ASSUME Whole, [TrustNext]_trustVars PROVE Whole'
  OBVIOUS
<1>0. TrustTypeOK /\ Len(delivered) \in Nat /\ Len(delivered) > 0
  BY DEF Whole, TrustTypeOK
<1>1. ASSUME NEW d \in Deliveries, Deliver(d) PROVE Whole'
  <2>1. TrustTypeOK'
    BY <1>0, <1>1, TrustStepType DEF TrustNext
  <2>2. \A n \in 1..Len(delivered) : n \in 1..Len(delivered') /\ delivered'[n] = delivered[n]
    BY <1>0, <1>1, DeliverKeeps
  <2>3. UNCHANGED <<snap, snapFrom, reload>>
    BY <1>1 DEF Deliver
  <2> QED BY <2>1, <2>2, <2>3 DEF Whole, IsDelivery
<1>2. ASSUME NEW x \in Reloaders, LoadFails(x) PROVE Whole'
  BY <1>2 DEF LoadFails, trustVars, Whole, IsDelivery, TrustTypeOK
<1>3. ASSUME NEW x \in Reloaders, LoadTrust(x) PROVE Whole'
  <2>1. TrustTypeOK'
    BY <1>0, <1>3, TrustStepType DEF TrustNext, ReloadStep
  <2> DEFINE new == [pc |-> "swap", cas |-> source.certs, from |-> Len(delivered)]
  <2>2. /\ reload' = [reload EXCEPT ![x] = new] /\ DOMAIN reload = Reloaders
        /\ source.certs # {} /\ UNCHANGED <<delivered, snap, snapFrom>>
    BY <1>0, <1>3 DEF LoadTrust, loadable, TrustTypeOK
  <2>3. new.cas = delivered[Len(delivered)].certs /\ new.from = Len(delivered)
    BY DEF source
  <2>4. new.cas # {}
    BY <2>2
  <2> HIDE DEF new
  <2>5. reload'[x] = new /\ \A y \in Reloaders : y # x => reload'[y] = reload[y]
    BY <2>2
  <2>6. ASSUME NEW y \in Reloaders, reload'[y].pc # "idle"
        PROVE  IsDelivery(reload[y].cas, reload[y].from)' /\ reload'[y].cas # {}
    <3>1. CASE y = x
      BY <1>0, <2>2, <2>3, <2>4, <2>5, <3>1 DEF IsDelivery
    <3>2. CASE y # x
      BY <2>2, <2>5, <2>6, <3>2 DEF IsDelivery, Whole
    <3> QED BY <3>1, <3>2
  <2> QED BY <2>1, <2>2, <2>6 DEF Whole, IsDelivery
<1>4. ASSUME NEW x \in Reloaders, Reload(x) PROVE Whole'
  <2>1. TrustTypeOK'
    BY <1>0, <1>4, TrustStepType DEF TrustNext, ReloadStep
  <2>2. /\ IsDelivery(reload[x].cas, reload[x].from)
        /\ snap' = reload[x].cas /\ snapFrom' = reload[x].from /\ UNCHANGED delivered
    BY <1>4 DEF Reload, Whole
  <2>3. \A y \in Reloaders : /\ reload'[y].cas = reload[y].cas
                             /\ reload'[y].from = reload[y].from
                             /\ reload'[y].pc # "idle" => reload[y].pc # "idle"
    BY <1>0, <1>4 DEF Reload, TrustTypeOK, Reloading
  <2> QED BY <2>1, <2>2, <2>3 DEF Whole, IsDelivery
<1>5. ASSUME NEW x \in Reloaders, ReturnCount(x) PROVE Whole'
  <2>1. TrustTypeOK'
    BY <1>0, <1>5, TrustStepType DEF TrustNext, ReloadStep
  <2>2. \A y \in Reloaders : reload'[y] = reload[y] \/ reload'[y].pc = "idle"
    BY <1>0, <1>5 DEF ReturnCount, NotReloading, TrustTypeOK
  <2>3. UNCHANGED <<delivered, snap, snapFrom>>
    BY <1>5 DEF ReturnCount
  <2> QED BY <2>1, <2>2, <2>3 DEF Whole, IsDelivery
<1>6. CASE RestartTrust
  <2>1. TrustTypeOK'
    BY <1>0, <1>6, TrustStepType DEF TrustNext
  <2>2. \A x \in Reloaders : reload'[x].pc = "idle"
    BY <1>6 DEF RestartTrust, NotReloading
  <2>3. (snapFrom' = 0 /\ snap' = {}) \/ IsDelivery(snap, snapFrom)'
    BY <1>0, <1>6 DEF RestartTrust, NewTrust, source, IsDelivery
  <2> QED BY <2>1, <2>2, <2>3 DEF Whole
<1>7. CASE UNCHANGED trustVars
  BY <1>7 DEF trustVars, Whole, IsDelivery, TrustTypeOK
<1> QED BY <1>1, <1>2, <1>3, <1>4, <1>5, <1>6, <1>7 DEF TrustNext, ReloadStep

(***************************************************************************)
(* The set in force is always one delivery as a whole (newTrustSnapshot    *)
(* and the single pointer swap of TrustStore.Reload), for any number of    *)
(* concurrent reloads.                                                     *)
(***************************************************************************)
THEOREM SnapshotWhole == TrustSpec => []SnapshotIsOneDelivery
<1>1. Whole => SnapshotIsOneDelivery
  <2> SUFFICES ASSUME Whole PROVE SnapshotIsOneDelivery
    OBVIOUS
  <2>1. Len(delivered) \in Nat
    BY DEF Whole, TrustTypeOK
  <2> QED BY <2>1 DEF Whole, IsDelivery, SnapshotIsOneDelivery
<1> QED BY <1>1, WholeInit, WholeNext, PTL DEF TrustSpec

(***************************************************************************)
(* No reload empties the trusted set: loadTrustedCAs fails on a path       *)
(* without certificates, and ReloadTrust then leaves the set alone.        *)
(***************************************************************************)
THEOREM AnchorsNeverLost == TrustSpec => NeverEmptied
<1>1. Whole /\ [TrustNext]_trustVars =>
        [snap # {} /\ snap' = {} =>
           /\ RuntimeTrust /\ emptyTrustSource
           /\ reload' = [x \in Reloaders |-> NotReloading]]_trustVars
  <2> SUFFICES ASSUME Whole, [TrustNext]_trustVars, snap # {}, snap' = {}
               PROVE  /\ RuntimeTrust /\ emptyTrustSource
                      /\ reload' = [x \in Reloaders |-> NotReloading]
    OBVIOUS
  <2>1. ASSUME NEW x \in Reloaders, Reload(x) PROVE FALSE
    BY <2>1 DEF Reload, Whole
  <2>2. RestartTrust
    BY <2>1 DEF TrustNext, ReloadStep, Deliver, LoadFails, LoadTrust, ReturnCount, trustVars
  <2> QED BY <2>2 DEF RestartTrust, NewTrust, loadable
<1> QED BY <1>1, WholeInit, WholeNext, PTL DEF TrustSpec, NeverEmptied

(***************************************************************************)
(* Calls of ReloadTrust do not overlap.                                    *)
(***************************************************************************)
OneReloader == \A x, y \in Reloaders : x = y

(***************************************************************************)
(* When at most one call of ReloadTrust runs at a time: the load that      *)
(* waits to be swapped in is no older than the set in force, and the last  *)
(* count returned is that of the set in force.                             *)
(***************************************************************************)
Serial ==
  /\ \A x \in Reloaders : reload[x].pc = "swap" => snapFrom <= reload[x].from
  /\ \A x \in Reloaders : reload[x].pc = "return" =>
       snap = reload[x].cas /\ snapFrom = reload[x].from /\ reported.from <= reload[x].from
  /\ (\A x \in Reloaders : reload[x].pc # "return") /\ reported.from # 0 =>
       reported.count = Cardinality(snap) /\ reported.from = snapFrom

(***************************************************************************)
(* The inductive invariant for reloads that do not overlap.                *)
(***************************************************************************)
SerialInv == Whole /\ Serial

(***************************************************************************)
(* Nothing is loaded and nothing has been returned when New is done.       *)
(***************************************************************************)
LEMMA SerialInit == TrustInit => SerialInv
<1> SUFFICES ASSUME TrustInit PROVE Serial
  BY WholeInit DEF SerialInv
<1> QED BY DEF TrustInit, Serial, NotReloading, NoReport

(***************************************************************************)
(* With one reloader, the load that is swapped in is the newest one, and   *)
(* the count returned is that of the set just swapped in.                  *)
(***************************************************************************)
LEMMA SerialNext ==
  ASSUME OneReloader
  PROVE  SerialInv /\ [TrustNext]_trustVars => SerialInv'
<1> SUFFICES ASSUME SerialInv, [TrustNext]_trustVars PROVE Serial'
  BY WholeNext DEF SerialInv
<1> USE DEF OneReloader
<1>0. TrustTypeOK /\ Len(delivered) \in Nat /\ snapFrom <= Len(delivered) /\ snapFrom \in Nat
  BY DEF SerialInv, Whole, TrustTypeOK, IsDelivery
<1>1. ASSUME UNCHANGED <<snap, snapFrom, reload, reported>> PROVE Serial'
  BY <1>1 DEF SerialInv, Serial
<1>2. ASSUME NEW x \in Reloaders, LoadTrust(x) PROVE Serial'
  <2>1. /\ reload[x].pc = "idle" /\ reload'[x].pc = "swap" /\ reload'[x].from = Len(delivered)
        /\ UNCHANGED <<snap, snapFrom, reported>>
    BY <1>0, <1>2 DEF LoadTrust, TrustTypeOK
  <2> QED BY <1>0, <2>1 DEF SerialInv, Serial
<1>3. ASSUME NEW x \in Reloaders, Reload(x) PROVE Serial'
  <2>1. /\ reload[x].pc = "swap" /\ reload'[x].pc = "return"
        /\ reload'[x].cas = reload[x].cas /\ reload'[x].from = reload[x].from
        /\ snap' = reload[x].cas /\ snapFrom' = reload[x].from /\ UNCHANGED reported
    BY <1>0, <1>3 DEF Reload, TrustTypeOK, Reloading
  <2>2. reload[x].from \in Nat /\ reported.from \in Nat
    BY <1>0 DEF TrustTypeOK, Reloading
  <2>3. reported.from <= reload[x].from
    BY <1>0, <2>1, <2>2 DEF SerialInv, Serial
  <2> QED BY <2>1, <2>3 DEF Serial
<1>4. ASSUME NEW x \in Reloaders, ReturnCount(x) PROVE Serial'
  <2>1. /\ reload[x].pc = "return" /\ reload'[x].pc = "idle"
        /\ UNCHANGED <<snap, snapFrom>>
    BY <1>0, <1>4 DEF ReturnCount, NotReloading, TrustTypeOK
  <2>2. snap = reload[x].cas /\ snapFrom = reload[x].from /\ reported.from <= reload[x].from
    BY <2>1 DEF SerialInv, Serial
  <2>3. reload[x].from \in Nat /\ reported.from \in Nat
    BY <1>0 DEF TrustTypeOK, Reloading
  <2>4. reported'.from = snapFrom /\ reported'.count = Cardinality(snap)
    BY <1>4, <2>2, <2>3 DEF ReturnCount
  <2> QED BY <2>1, <2>4 DEF Serial
<1>5. CASE RestartTrust
  <2>1. /\ \A x \in Reloaders : reload'[x].pc = "idle"
        /\ reported'.from = 0
    BY <1>5 DEF RestartTrust, NotReloading, NoReport
  <2> QED BY <2>1 DEF Serial
<1> QED BY <1>1, <1>2, <1>3, <1>4, <1>5 DEF TrustNext, ReloadStep, Deliver, LoadFails, trustVars

(***************************************************************************)
(* When calls of ReloadTrust do not overlap, the trusted set never returns *)
(* to an older delivery while the process runs.                            *)
(***************************************************************************)
THEOREM TrustMovesForward ==
  ASSUME OneReloader
  PROVE  TrustSpec => TrustNeverGoesBack
<1>1. SerialInv /\ [TrustNext]_trustVars => [snapFrom' < snapFrom => snapFrom' = 0]_trustVars
  <2> SUFFICES ASSUME SerialInv, [TrustNext]_trustVars, snapFrom' < snapFrom
               PROVE  snapFrom' = 0
    OBVIOUS
  <2>0. /\ snapFrom \in Nat /\ Len(delivered) \in Nat /\ snapFrom <= Len(delivered)
        /\ \A x \in Reloaders : reload[x].from \in Nat
    BY DEF SerialInv, Whole, TrustTypeOK, IsDelivery, Reloading
  <2>1. ASSUME NEW x \in Reloaders, Reload(x) PROVE FALSE
    BY <2>0, <2>1 DEF Reload, SerialInv, Serial
  <2>2. snapFrom' # snapFrom
    BY <2>0
  <2>3. RestartTrust
    BY <2>1, <2>2 DEF TrustNext, ReloadStep, Deliver, LoadFails, LoadTrust, ReturnCount,
       trustVars
  <2> QED BY <2>0, <2>3 DEF RestartTrust, NewTrust
<1> QED BY <1>1, SerialInit, SerialNext, PTL DEF TrustSpec, TrustNeverGoesBack

(***************************************************************************)
(* When calls of ReloadTrust do not overlap, the count that ReloadTrust    *)
(* returned last is the size of the trusted set.                           *)
(***************************************************************************)
THEOREM CountIsTrusted ==
  ASSUME OneReloader
  PROVE  TrustSpec => []ReportedCountIsTrusted
<1>1. SerialInv => ReportedCountIsTrusted
  BY DEF SerialInv, Serial, ReportedCountIsTrusted
<1> QED BY <1>1, SerialInit, SerialNext, PTL DEF TrustSpec

(***************************************************************************)
(* What the handlers rely on, whether or not reloads overlap.              *)
(***************************************************************************)
TrustInv == Whole /\ (OneReloader => Serial)

(***************************************************************************)
(* It holds when New is done.                                              *)
(***************************************************************************)
LEMMA TrustInvInit == TrustInit => TrustInv
BY WholeInit, SerialInit DEF TrustInv, SerialInv

(***************************************************************************)
(* Deliveries, the steps of ReloadTrust and restarts keep it.              *)
(***************************************************************************)
LEMMA TrustInvNext == TrustInv /\ [TrustNext]_trustVars => TrustInv'
BY WholeNext, SerialNext DEF TrustInv, SerialInv

(***************************************************************************)
(* A set in force that is not empty is the delivery that snapFrom names.   *)
(***************************************************************************)
LEMMA SnapshotDelivered ==
  ASSUME TrustInv
  PROVE  /\ snapFrom \in Nat /\ Len(delivered) \in Nat
         /\ snap # {} => \E k \in 1..Len(delivered) : k = snapFrom /\ snap = delivered[k].certs
<1>1. snapFrom \in Nat /\ Len(delivered) \in Nat
  BY DEF TrustInv, Whole, TrustTypeOK
<1> QED BY <1>1 DEF TrustInv, Whole, IsDelivery

(***************************************************************************)
(* A step of the trust store keeps the deliveries there were.              *)
(***************************************************************************)
LEMMA TrustStepGrows ==
  ASSUME TrustInv, [TrustNext]_trustVars
  PROVE  \A n \in 1..Len(delivered) : n \in 1..Len(delivered') /\ delivered'[n] = delivered[n]
<1>1. ASSUME NEW d \in Deliveries, Deliver(d)
      PROVE  \A n \in 1..Len(delivered) :
               n \in 1..Len(delivered') /\ delivered'[n] = delivered[n]
  BY <1>1, DeliverKeeps DEF TrustInv, Whole
<1>2. ASSUME NEW x \in Reloaders, ReloadStep(x) PROVE delivered' = delivered
  BY <1>2 DEF ReloadStep, LoadFails, LoadTrust, Reload, ReturnCount, trustVars
<1>3. RestartTrust \/ UNCHANGED trustVars => delivered' = delivered
  BY DEF RestartTrust, trustVars
<1> QED BY <1>1, <1>2, <1>3 DEF TrustNext

(***************************************************************************)
(* If reloads do not overlap, they only move the set in force forward.     *)
(***************************************************************************)
LEMMA ReloadsMoveForward ==
  ASSUME TrustInv, OneReloader,
         (\E d \in Deliveries : Deliver(d)) \/ (\E x \in Reloaders : ReloadStep(x))
  PROVE  snapFrom <= snapFrom' /\ snapFrom' \in Nat
<1>1. snapFrom \in Nat /\ \A x \in Reloaders : reload[x].from \in Nat
  BY DEF TrustInv, Whole, TrustTypeOK, Reloading
<1>2. ASSUME NEW x \in Reloaders, Reload(x) PROVE snapFrom <= snapFrom' /\ snapFrom' \in Nat
  BY <1>1, <1>2 DEF Reload, TrustInv, Serial
<1>3. ASSUME snapFrom' = snapFrom PROVE snapFrom <= snapFrom' /\ snapFrom' \in Nat
  BY <1>1, <1>3
<1> QED BY <1>2, <1>3 DEF Deliver, ReloadStep, LoadFails, LoadTrust, ReturnCount, trustVars
============================================================================
