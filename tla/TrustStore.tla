---------------------------- MODULE TrustStore ----------------------------
(***************************************************************************)
(* The trusted-CA store and its runtime reload: certificate.TrustStore,    *)
(* Handler.ReloadTrust and the trust part of the handler's construction.   *)
(*                                                                         *)
(* The configured path is rewritten by an outside synchronizer.  Each of   *)
(* its deliveries is kept in the sequence delivered, the last of which is  *)
(* what the path holds now: the CA certificates, and whether there is      *)
(* garbage, a file that the loaders refuse: one that does not parse, or a  *)
(* PEM file without a certificate.  ReloadTrust reads the path and then    *)
(* swaps the snapshot pointer; other goroutines may run between the two.   *)
(***************************************************************************)
EXTENDS Certificates, Sequences

CONSTANTS
  Reloaders,       \* goroutines that call ReloadTrust
  RuntimeTrust,    \* BOOLEAN: the handler was built WithRuntimeTrust
  Deliveries,      \* contents the synchronizer may write: [certs, garbage]
  MaxDeliveries    \* bound on the number of deliveries

ASSUME TrustAssumption ==
  /\ IsFiniteSet(CAs)
  /\ Deliveries \subseteq [certs : SUBSET CAs, garbage : BOOLEAN]
  /\ RuntimeTrust \in BOOLEAN
  /\ MaxDeliveries \in Nat

VARIABLES
  delivered,   \* every content the path has had
  snap,        \* the snapshot the atomic pointer refers to
  snapFrom,    \* history: the delivery snap was loaded from, 0 = none
  reload,      \* per reloader: [pc, cas, from]
  reported     \* history: [from, count] of the finished ReloadTrust whose
               \* load was the newest, from = 0 when there is none

trustVars == <<delivered, snap, snapFrom, reload, reported>>

source == delivered[Len(delivered)]

parses == ~source.garbage

MutantLoadableIgnoresEmpty == parses

(* loadTrustedCAs succeeds: every file parses and there is a certificate. *)
loadable == parses /\ source.certs # {}

emptyTrustSource == parses /\ source.certs = {}

Reloading == [pc : {"idle", "swap", "return"}, cas : SUBSET CAs, from : Nat]

NotReloading == [pc |-> "idle", cas |-> {}, from |-> 0]

NoReport == [from |-> 0, count |-> 0]

TrustTypeOK ==
  /\ delivered \in Seq(Deliveries)
  /\ Len(delivered) > 0
  /\ snap \in SUBSET CAs
  /\ snapFrom \in Nat
  /\ reload \in [Reloaders -> Reloading]
  /\ reported \in [from : Nat, count : {0} \cup {Cardinality(cas) : cas \in SUBSET CAs}]

(* The trust part of New: the path's certificates, or nothing yet. *)
NewTrust(s, from) ==
  IF loadable
  THEN s = source.certs /\ from = Len(delivered)
  ELSE RuntimeTrust /\ emptyTrustSource /\ s = {} /\ from = 0

TrustInit ==
  /\ \E d \in Deliveries : delivered = <<d>>
  /\ NewTrust(snap, snapFrom)
  /\ reload = [x \in Reloaders |-> NotReloading]
  /\ reported = NoReport

(* The synchronizer rewrites the path (external). *)
Deliver(d) ==
  /\ Len(delivered) < MaxDeliveries
  /\ delivered' = Append(delivered, d)
  /\ UNCHANGED <<snap, snapFrom, reload, reported>>

(* A load that fails: ReloadTrust returns the error and changes nothing. *)
LoadFails(x) ==
  /\ reload[x].pc = "idle"
  /\ ~loadable
  /\ UNCHANGED trustVars

MutantLoadStale(x) ==
  /\ reload[x].pc = "idle"
  /\ loadable
  /\ \E k \in {i \in DOMAIN delivered : delivered[i].certs # {}} :
       reload' = [reload EXCEPT ![x] =
         [pc |-> "swap", cas |-> delivered[k].certs, from |-> k]]
  /\ UNCHANGED <<delivered, snap, snapFrom, reported>>

(* ReloadTrust up to the swap. *)
LoadTrust(x) ==
  /\ reload[x].pc = "idle"
  /\ loadable
  /\ reload' = [reload EXCEPT ![x] =
       [pc |-> "swap", cas |-> source.certs, from |-> Len(delivered)]]
  /\ UNCHANGED <<delivered, snap, snapFrom, reported>>

MutantSwapAdds(x) ==
  /\ reload[x].pc = "swap"
  /\ snap' = snap \cup reload[x].cas
  /\ snapFrom' = reload[x].from
  /\ reload' = [reload EXCEPT ![x].pc = "return"]
  /\ UNCHANGED <<delivered, reported>>

MutantSwapDropsLoad(x) ==
  /\ reload[x].pc = "swap"
  /\ reload' = [reload EXCEPT ![x].pc = "return"]
  /\ UNCHANGED <<delivered, snap, snapFrom, reported>>

(* TrustStore.Reload: the set is never empty here, so it is swapped in. *)
Reload(x) ==
  /\ reload[x].pc = "swap"
  /\ snap' = reload[x].cas
  /\ snapFrom' = reload[x].from
  /\ reload' = [reload EXCEPT ![x].pc = "return"]
  /\ UNCHANGED <<delivered, reported>>

ReturnCount(x) ==
  /\ reload[x].pc = "return"
  /\ reported' = IF reload[x].from >= reported.from
                 THEN [from |-> reload[x].from, count |-> Cardinality(reload[x].cas)]
                 ELSE reported
  /\ reload' = [reload EXCEPT ![x] = NotReloading]
  /\ UNCHANGED <<delivered, snap, snapFrom>>

(* The process restarts and New runs; it stays down if New fails. *)
RestartTrust ==
  /\ NewTrust(snap', snapFrom')
  /\ reload' = [x \in Reloaders |-> NotReloading]
  /\ reported' = NoReport
  /\ UNCHANGED delivered

ReloadStep(x) == LoadFails(x) \/ LoadTrust(x) \/ Reload(x) \/ ReturnCount(x)

TrustNext ==
  \/ \E d \in Deliveries : Deliver(d)
  \/ \E x \in Reloaders : ReloadStep(x)
  \/ RestartTrust

TrustSpec == TrustInit /\ [][TrustNext]_trustVars

(***************************************************************************)
(* A snapshot is one delivery as a whole, never a mixture of two:          *)
(* newTrustSnapshot builds the pool and the list from the same load and    *)
(* the pointer is swapped once.                                            *)
(***************************************************************************)
SnapshotIsOneDelivery ==
  IF snapFrom = 0 THEN snap = {} ELSE snap = delivered[snapFrom].certs

(***************************************************************************)
(* A running handler never loses all its anchors: whatever the path holds  *)
(* when ReloadTrust reads it, only a restart in runtime-trust mode leaves  *)
(* the store empty.                                                        *)
(***************************************************************************)
NeverEmptied ==
  [][snap # {} /\ snap' = {} =>
       /\ RuntimeTrust /\ emptyTrustSource
       /\ reload' = [x \in Reloaders |-> NotReloading]]_trustVars

(***************************************************************************)
(* The trusted set never goes back to an older delivery while the process  *)
(* runs or restarts.  It holds when calls of ReloadTrust do not overlap.   *)
(***************************************************************************)
TrustNeverGoesBack ==
  [][snapFrom' < snapFrom => snapFrom' = 0]_trustVars

(***************************************************************************)
(* ReloadTrust "Returns the number of certificates now trusted": once no   *)
(* call is running, the trusted set has the size that the call with the    *)
(* newest material returned.                                               *)
(***************************************************************************)
ReportedCountIsTrusted ==
  (\A x \in Reloaders : reload[x].pc = "idle") /\ reported.from # 0
     => reported.count = Cardinality(snap)
============================================================================
