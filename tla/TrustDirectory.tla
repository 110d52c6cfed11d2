-------------------------- MODULE TrustDirectory --------------------------
(***************************************************************************)
(* How trust material is read: loadTrustedCAs and LoadCertificatesFromDir, *)
(* one system call at a time, while a synchronizer rewrites the configured *)
(* path, and what New and ReloadTrust make of the outcome.  Module         *)
(* TrustStore takes a load as one step; here it is not.                    *)
(*                                                                         *)
(* A source is missing, one PEM file, or a directory of files, in which    *)
(* the entries that are directories are left out.  Of a file counts its    *)
(* encoding and the certificates that it yields; a file that does not      *)
(* parse, or holds none, yields the empty set.  Rewriting is external: the *)
(* path may turn into any other source at any time, as with a directory    *)
(* behind a link.                                                          *)
(***************************************************************************)
EXTENDS Integers, FiniteSetsExt

CONSTANTS
  CAs,            \* CA certificates
  Names,          \* file names, numbers in the order that ReadDir sorts
  Bundle,         \* stands for the path itself when it is a single file
  Sources,        \* the sources the path may be: [kind, files]
  Loaders,        \* goroutines that call New or ReloadTrust
  MaxRewrites     \* bound on the number of rewrites

ASSUME DirectoryAssumption ==
  /\ Names \subseteq Int /\ IsFiniteSet(Names)
  /\ Bundle \notin Names
  /\ MaxRewrites \in Nat

Contents == [enc : {"PEM", "DER"}, certs : SUBSET CAs]

IsSource(s) ==
  \/ s.kind = "missing" /\ DOMAIN s.files = {}
  \/ s.kind = "file" /\ DOMAIN s.files = {Bundle}
  \/ s.kind = "dir" /\ DOMAIN s.files \subseteq Names

ASSUME SourcesAssumption ==
  \A s \in Sources :
    /\ DOMAIN s = {"kind", "files"} /\ IsSource(s)
    /\ s.files \in [DOMAIN s.files -> Contents]

VARIABLES
  path,           \* the source the configured path is now
  rewrites,       \* how often it was rewritten
  runtimeTrust,   \* BOOLEAN: the handler is built WithRuntimeTrust
  phase,          \* the process: "down", "starting" (inside New) or "up"
  trust,          \* the snapshot in force
  load            \* per loader: [pc, todo, got] and the history of its load:
                  \* ever and kept, see Rewrite

directoryVars == <<path, rewrites, runtimeTrust, phase, trust, load>>

(* What a source holds: pairs of a file and a certificate in it. *)
Held(s) == UNION {{<<f, c>> : c \in s.files[f].certs} : f \in DOMAIN s.files}

CertsOf(held) == {p[2] : p \in held}

(* load.ever has every pair that was in the path since the call of Stat,   *)
(* load.kept those that have been there without a break.                   *)
Load == [pc : {"idle", "dir", "file", "read", "swap"},
         todo : SUBSET Names, got : SUBSET CAs,
         ever : SUBSET ((Names \cup {Bundle}) \X CAs),
         kept : SUBSET ((Names \cup {Bundle}) \X CAs)]

NoLoad == [pc |-> "idle", todo |-> {}, got |-> {}, ever |-> {}, kept |-> {}]

DirectoryTypeOK ==
  /\ path \in Sources
  /\ rewrites \in Nat
  /\ runtimeTrust \in BOOLEAN
  /\ phase \in {"down", "starting", "up"}
  /\ trust \subseteq CAs
  /\ load \in [Loaders -> Load]

DirectoryInit ==
  /\ path \in Sources
  /\ rewrites = 0
  /\ runtimeTrust = FALSE
  /\ phase = "down"
  /\ trust = {}
  /\ load = [x \in Loaders |-> NoLoad]

Rewrite(s) ==
  /\ rewrites < MaxRewrites
  /\ s # path
  /\ path' = s
  /\ rewrites' = rewrites + 1
  /\ load' = [x \in Loaders |->
       IF load[x].pc = "idle" THEN load[x]
       ELSE [load[x] EXCEPT !.ever = @ \cup Held(s), !.kept = @ \cap Held(s)]]
  /\ UNCHANGED <<runtimeTrust, phase, trust>>

emptyTrustSource(err) == err \in {"notExist", "noCertificates"}

(***************************************************************************)
(* The load of x fails.  ReloadTrust leaves the trusted set alone; New     *)
(* starts empty in runtime-trust mode if the error says that there was     *)
(* nothing to load, and fails otherwise.                                   *)
(***************************************************************************)
FailLoad(x, err) ==
  /\ load' = [load EXCEPT ![x] = NoLoad]
  /\ IF phase # "starting"
     THEN UNCHANGED <<phase, trust>>
     ELSE /\ trust' = {}
          /\ phase' = IF runtimeTrust /\ emptyTrustSource(err) THEN "up" ELSE "down"

(* Stat: the call begins. *)
Stat(x) ==
  /\ load[x].pc = "idle"
  /\ IF path.kind = "missing"
     THEN FailLoad(x, "notExist")
     ELSE /\ load' = [load EXCEPT ![x] =
               [pc |-> path.kind, todo |-> {}, got |-> {},
                ever |-> Held(path), kept |-> Held(path)]]
          /\ UNCHANGED <<phase, trust>>
  /\ UNCHANGED <<path, rewrites, runtimeTrust>>

(* The process starts and calls New, with or without the option. *)
Start ==
  /\ phase = "down"
  /\ phase' = "starting"
  /\ runtimeTrust' \in BOOLEAN
  /\ UNCHANGED <<path, rewrites, trust, load>>

StatNew(x) == phase = "starting" /\ (\A y \in Loaders : load[y].pc = "idle") /\ Stat(x)

StatReload(x) == phase = "up" /\ Stat(x)

MutantSkipsFirst(x) ==
  /\ load[x].pc = "dir"
  /\ IF path.kind # "dir" THEN FailLoad(x, "other")
     ELSE /\ load' = [load EXCEPT ![x].pc = "read",
                                  ![x].todo = DOMAIN path.files \ {Min(Names)}]
          /\ UNCHANGED <<phase, trust>>
  /\ UNCHANGED <<path, rewrites, runtimeTrust>>

(* ReadDir lists the names. *)
ReadDir(x) ==
  /\ load[x].pc = "dir"
  /\ CASE path.kind = "missing" -> FailLoad(x, "notExist")
       [] path.kind = "file"    -> FailLoad(x, "other")
       [] OTHER -> /\ load' = [load EXCEPT ![x].pc = "read", ![x].todo = DOMAIN path.files]
                   /\ UNCHANGED <<phase, trust>>
  /\ UNCHANGED <<path, rewrites, runtimeTrust>>

(* ReadFile of the next name, and its certificates in either encoding. *)
ReadFile(x) ==
  LET f == Min(load[x].todo)
  IN /\ load[x].pc = "read" /\ load[x].todo # {}
     /\ CASE path.kind = "file" -> FailLoad(x, "other")
          [] path.kind # "file" /\ f \notin DOMAIN path.files -> FailLoad(x, "notExist")
          [] f \in DOMAIN path.files /\ path.files[f].certs = {} -> FailLoad(x, "other")
          [] OTHER -> /\ load' = [load EXCEPT ![x].todo = @ \ {f},
                                              ![x].got = @ \cup path.files[f].certs]
                      /\ UNCHANGED <<phase, trust>>
     /\ UNCHANGED <<path, rewrites, runtimeTrust>>

MutantEndDirAcceptsNone(x) ==
  /\ load[x].pc = "read" /\ load[x].todo = {}
  /\ load' = [load EXCEPT ![x].pc = "swap"]
  /\ UNCHANGED <<path, rewrites, runtimeTrust, phase, trust>>

(* Every listed file is read. *)
EndDir(x) ==
  /\ load[x].pc = "read" /\ load[x].todo = {}
  /\ IF load[x].got = {}
     THEN FailLoad(x, "noCertificates")
     ELSE load' = [load EXCEPT ![x].pc = "swap"] /\ UNCHANGED <<phase, trust>>
  /\ UNCHANGED <<path, rewrites, runtimeTrust>>

(***************************************************************************)
(* Open and LoadCertificatesFromPEM, for a path that was a file.  Data     *)
(* without a certificate is an error of its own kind there.                *)
(***************************************************************************)
ReadBundle(x) ==
  /\ load[x].pc = "file"
  /\ CASE path.kind = "missing" -> FailLoad(x, "notExist")
       [] path.kind = "file" /\ path.files[Bundle].enc = "PEM" /\ path.files[Bundle].certs # {} ->
            /\ load' = [load EXCEPT ![x].pc = "swap", ![x].got = path.files[Bundle].certs]
            /\ UNCHANGED <<phase, trust>>
       [] OTHER -> FailLoad(x, "other")
  /\ UNCHANGED <<path, rewrites, runtimeTrust>>

MutantSwapKeepsOld(x) ==
  /\ load[x].pc = "swap"
  /\ trust' = trust \cup load[x].got
  /\ phase' = "up"
  /\ load' = [load EXCEPT ![x] = NoLoad]
  /\ UNCHANGED <<path, rewrites, runtimeTrust>>

(* Reload, or NewTrustStore at the end of the trust part of New. *)
Swap(x) ==
  /\ load[x].pc = "swap"
  /\ trust' = load[x].got
  /\ phase' = "up"
  /\ load' = [load EXCEPT ![x] = NoLoad]
  /\ UNCHANGED <<path, rewrites, runtimeTrust>>

LoadStep(x) == ReadDir(x) \/ ReadFile(x) \/ EndDir(x) \/ ReadBundle(x) \/ Swap(x)

(* The process ends, with every load it had begun.  One that ends inside   *)
(* New leaves nothing behind, as if it had not started.                    *)
Stop ==
  /\ phase = "up"
  /\ phase' = "down"
  /\ trust' = {}
  /\ load' = [x \in Loaders |-> NoLoad]
  /\ UNCHANGED <<path, rewrites, runtimeTrust>>

DirectoryNext ==
  \/ \E s \in Sources : Rewrite(s)
  \/ Start \/ Stop
  \/ \E x \in Loaders : StatNew(x) \/ StatReload(x) \/ LoadStep(x)

(***************************************************************************)
(* Every call that has begun goes on, and ReloadTrust is called again: the *)
(* operator is told to call it whenever the source changes.                *)
(***************************************************************************)
DirectorySpec ==
  /\ DirectoryInit
  /\ [][DirectoryNext]_directoryVars
  /\ \A x \in Loaders : WF_directoryVars(StatReload(x)) /\ WF_directoryVars(LoadStep(x))

(***************************************************************************)
(* What a load brings into force lies between two bounds: every            *)
(* certificate that its file held from the call of Stat to the swap, and   *)
(* nothing that was not in the path at some time in between.  A load that  *)
(* no rewrite overlaps thus yields exactly what the source holds.          *)
(***************************************************************************)
LoadIsWithinItsInterval ==
  \A x \in Loaders :
    load[x].pc = "swap" =>
      /\ CertsOf(load[x].kept) \subseteq load[x].got
      /\ load[x].got \subseteq CertsOf(load[x].ever)

(***************************************************************************)
(* A handler that is up has anchors unless it was built WithRuntimeTrust,  *)
(* and one that has anchors keeps some for as long as it is up, whatever   *)
(* ReadDir and ReadFile find.                                              *)
(***************************************************************************)
AnchorsUnlessRuntimeTrust ==
  [][/\ phase' = "up" /\ ~runtimeTrust' => trust' # {}
     /\ phase = "up" /\ phase' = "up" /\ trust # {} => trust' # {}]_directoryVars

(* A load of s succeeds when nothing rewrites it. *)
loadable(s) ==
  /\ Held(s) # {}
  /\ \A f \in DOMAIN s.files : s.files[f].certs # {} /\ (f = Bundle => s.files[f].enc = "PEM")

(***************************************************************************)
(* Once the source is left alone and can be loaded, the handler comes to   *)
(* trust exactly what it holds, even if calls of ReloadTrust that began    *)
(* earlier finish in any order.                                            *)
(***************************************************************************)
SettlesOnTheSource ==
  <>[](phase = "up" /\ loadable(path)) => <>[](trust = CertsOf(Held(path)))
===========================================================================
