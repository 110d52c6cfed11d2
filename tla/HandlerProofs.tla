--------------------------- MODULE HandlerProofs ---------------------------
(***************************************************************************)
(* The handler itself: the load of the trusted certificates that New and   *)
(* ReloadTrust share, the options that New folds, and the check of the     *)
(* Host header that its session middleware makes.                          *)
(*                                                                         *)
(* Of a load: what it has read is between its bounds only because of what  *)
(* holds while it is under way: a pair that has been in the path all along *)
(* is still to be read or has been read, and whatever has been read was    *)
(* once there.  For every set of sources, every number of concurrent loads *)
(* and of rewrites.                                                        *)
(*                                                                         *)
(* Of the options: OptionsInv says what the options applied so far have    *)
(* made of the handler, for every list of them.                            *)
(*                                                                         *)
(* Of the Host check: what the functions of package strings do with a      *)
(* header, position by position, for headers and hosts of any length.      *)
(***************************************************************************)
EXTENDS TrustDirectory, HandlerOptions, Hosts, SequenceTheorems, WellFoundedInduction, TLAPS

(* A pair of Held, and the certificates of a part of it. *)
LEMMA HeldPair ==
  \A s, p : p \in Held(s) <=> \E f \in DOMAIN s.files : \E c \in s.files[f].certs : p = <<f, c>>
BY DEF Held

(* CertsOf is monotone. *)
LEMMA CertsGrow == \A A, B : A \subseteq B => CertsOf(A) \subseteq CertsOf(B)
BY DEF CertsOf

(* The certificate of a pair is among the certificates. *)
LEMMA CertOfPair == \A held, f, c : <<f, c>> \in held => c \in CertsOf(held)
<1> SUFFICES ASSUME NEW held, NEW f, NEW c, <<f, c>> \in held
             PROVE  c \in {p[2] : p \in held}
  BY DEF CertsOf
<1>1. <<f, c>>[2] = c
  OBVIOUS
<1> QED
  BY <1>1

(* What a source holds are pairs of a name, or Bundle, and a CA. *)
LEMMA HeldType ==
  ASSUME NEW s \in Sources
  PROVE  Held(s) \subseteq (Names \cup {Bundle}) \X CAs
<1>1. DOMAIN s.files \subseteq Names \cup {Bundle}
  BY SourcesAssumption DEF IsSource
<1>2. \A f \in DOMAIN s.files : s.files[f].certs \subseteq CAs
  BY SourcesAssumption DEF Contents
<1> QED
  BY <1>1, <1>2, HeldPair

(***************************************************************************)
(* The invariant of one load.                                              *)
(***************************************************************************)
LoadInv(l) ==
  /\ l.pc # "idle" =>
       /\ l.kept \subseteq Held(path)
       /\ Held(path) \subseteq l.ever
       /\ l.got \subseteq CertsOf(l.ever)
  /\ l.pc = "read" => \A p \in l.kept : p[1] \in l.todo \/ p[2] \in l.got
  /\ l.pc = "swap" => CertsOf(l.kept) \subseteq l.got /\ l.got # {}

DirectoryInv == DirectoryTypeOK /\ \A x \in Loaders : LoadInv(load[x])

(* A load that has ended is no load, so that a failed one keeps it all.    *)
LEMMA FailKeeps ==
  ASSUME DirectoryInv, NEW x \in Loaders, NEW err, FailLoad(x, err),
         UNCHANGED <<path, rewrites, runtimeTrust>>
  PROVE  DirectoryInv'
<1>1. load' = [load EXCEPT ![x] = NoLoad] /\ NoLoad \in Load /\ NoLoad.pc = "idle"
  BY DEF FailLoad, NoLoad, Load
<1>2. DirectoryTypeOK'
  BY <1>1 DEF DirectoryInv, DirectoryTypeOK, FailLoad
<1>3. ASSUME NEW y \in Loaders PROVE LoadInv(load[y])'
  <2>1. CASE y = x
    BY <1>1, <2>1 DEF LoadInv, DirectoryInv, DirectoryTypeOK
  <2>2. CASE y # x
    BY <1>1, <2>2 DEF LoadInv, DirectoryInv, DirectoryTypeOK
  <2> QED BY <2>1, <2>2
<1> QED
  BY <1>2, <1>3 DEF DirectoryInv

(* One load moves on to l and no other changes. *)
LEMMA MoveKeeps ==
  ASSUME DirectoryInv, NEW x \in Loaders, NEW l \in Load, LoadInv(l),
         load' = [load EXCEPT ![x] = l], UNCHANGED <<path, rewrites, runtimeTrust>>,
         phase' \in {"down", "starting", "up"}, trust' \subseteq CAs
  PROVE  DirectoryInv'
<1>1. DirectoryTypeOK'
  BY DEF DirectoryInv, DirectoryTypeOK
<1>2. ASSUME NEW y \in Loaders PROVE LoadInv(load[y])'
  <2>1. CASE y = x
    BY <2>1 DEF LoadInv, DirectoryInv, DirectoryTypeOK
  <2>2. CASE y # x
    BY <2>2 DEF LoadInv, DirectoryInv, DirectoryTypeOK
  <2> QED BY <2>1, <2>2
<1> QED
  BY <1>1, <1>2 DEF DirectoryInv

(* Nothing is loaded yet. *)
LEMMA DirectoryInitInv == DirectoryInit => DirectoryInv
<1> SUFFICES ASSUME DirectoryInit PROVE DirectoryInv
  OBVIOUS
<1>1. NoLoad \in Load /\ LoadInv(NoLoad)
  BY DEF NoLoad, Load, LoadInv
<1>2. runtimeTrust \in BOOLEAN
  BY Zenon DEF DirectoryInit
<1>3. load \in [Loaders -> Load] /\ \A x \in Loaders : load[x] = NoLoad
  BY <1>1 DEF DirectoryInit
<1>4. DirectoryTypeOK
  BY <1>2, <1>3 DEF DirectoryInit, DirectoryTypeOK
<1> QED
  BY <1>1, <1>3, <1>4 DEF DirectoryInv

(* Rewriting takes from kept what is gone and adds to ever what is new. *)
LEMMA RewriteKeeps ==
  ASSUME DirectoryInv, NEW s \in Sources, Rewrite(s)
  PROVE  DirectoryInv'
<1>0. Held(s) \subseteq (Names \cup {Bundle}) \X CAs
  BY HeldType
<1>1. DirectoryTypeOK'
  <2>1. ASSUME NEW x \in Loaders,
               NEW l, l = [load[x] EXCEPT !.ever = @ \cup Held(s), !.kept = @ \cap Held(s)]
        PROVE  l \in Load
    <3>1. PICK m \in Load : m = load[x]
      BY DEF DirectoryInv, DirectoryTypeOK
    <3>2. PICK U : U = (Names \cup {Bundle}) \X CAs
      OBVIOUS
    <3>3. m.ever \cup Held(s) \in SUBSET U /\ m.kept \cap Held(s) \in SUBSET U
      BY <1>0, <3>2 DEF Load
    <3>4. l = [m EXCEPT !.ever = m.ever \cup Held(s), !.kept = m.kept \cap Held(s)]
      BY <2>1, <3>1
    <3> QED BY <3>2, <3>3, <3>4, ZenonT(30) DEF Load
  <2>2. \A x \in Loaders : load'[x] \in Load
    BY <2>1 DEF Rewrite, DirectoryInv, DirectoryTypeOK
  <2>3. load' \in [Loaders -> Load]
    BY <2>2 DEF Rewrite
  <2>4. /\ path' \in Sources /\ rewrites' = rewrites + 1 /\ rewrites \in Nat
        /\ phase' = phase /\ trust' = trust
        /\ runtimeTrust' = runtimeTrust /\ runtimeTrust \in BOOLEAN
    BY DEF DirectoryInv, DirectoryTypeOK, Rewrite
  <2>5. rewrites' \in Nat
    BY <2>4
  <2> QED
    BY <2>3, <2>4, <2>5 DEF DirectoryInv, DirectoryTypeOK
<1>2. ASSUME NEW x \in Loaders PROVE LoadInv(load[x])'
  <2>1. CASE load[x].pc = "idle"
    BY <2>1 DEF Rewrite, LoadInv
  <2>2. CASE load[x].pc # "idle"
    <3> DEFINE l == load[x]
    <3>1. /\ load'[x].pc = l.pc /\ load'[x].todo = l.todo /\ load'[x].got = l.got
          /\ load'[x].ever = l.ever \cup Held(s) /\ load'[x].kept = l.kept \cap Held(s)
          /\ path' = s
      BY <2>2, ZenonT(30) DEF Rewrite, DirectoryInv, DirectoryTypeOK, Load
    <3>2. LoadInv(l)
      BY DEF DirectoryInv
    <3>3. /\ CertsOf(l.ever) \subseteq CertsOf(l.ever \cup Held(s))
          /\ CertsOf(l.kept \cap Held(s)) \subseteq CertsOf(l.kept)
      BY CertsGrow
    <3> QED
      BY <2>2, <3>1, <3>2, <3>3 DEF LoadInv
  <2> QED BY <2>1, <2>2
<1> QED
  BY <1>1, <1>2 DEF DirectoryInv

(* Stat starts both bounds at what the path holds. *)
LEMMA StatKeeps ==
  ASSUME DirectoryInv, NEW x \in Loaders, Stat(x)
  PROVE  DirectoryInv'
<1>1. CASE path.kind = "missing"
  BY <1>1, FailKeeps DEF Stat
<1>2. CASE path.kind # "missing"
  <2> DEFINE l == [pc |-> path.kind, todo |-> {}, got |-> {},
                   ever |-> Held(path), kept |-> Held(path)]
  <2>1. path \in Sources /\ path.kind \in {"file", "dir"}
    BY <1>2, SourcesAssumption DEF DirectoryInv, DirectoryTypeOK, IsSource
  <2>2. l \in Load
    BY <2>1, HeldType DEF Load
  <2>3. LoadInv(l)
    BY <2>1 DEF LoadInv
  <2> HIDE DEF l
  <2>4. load' = [load EXCEPT ![x] = l] /\ UNCHANGED <<path, rewrites, runtimeTrust, phase, trust>>
    BY <1>2 DEF Stat, l
  <2> QED
    BY <2>2, <2>3, <2>4, MoveKeeps DEF DirectoryInv, DirectoryTypeOK
<1> QED
  BY <1>1, <1>2

(* The names that ReadDir lists cover every pair that was there all along. *)
LEMMA ReadDirKeeps ==
  ASSUME DirectoryInv, NEW x \in Loaders, ReadDir(x)
  PROVE  DirectoryInv'
<1>1. CASE path.kind = "missing"
  BY <1>1, FailKeeps DEF ReadDir
<1>2. CASE path.kind = "file"
  BY <1>2, FailKeeps DEF ReadDir
<1>3. CASE path.kind \notin {"missing", "file"}
  <2> DEFINE l == [load[x] EXCEPT !.pc = "read", !.todo = DOMAIN path.files]
  <2>1. path \in Sources /\ path.kind = "dir" /\ DOMAIN path.files \subseteq Names
    BY <1>3, SourcesAssumption DEF DirectoryInv, DirectoryTypeOK, IsSource
  <2>2. load[x] \in Load /\ LoadInv(load[x]) /\ load[x].pc = "dir"
    BY DEF DirectoryInv, DirectoryTypeOK, ReadDir
  <2>3. l \in Load
    BY <2>1, <2>2 DEF Load
  <2>4. /\ l.pc = "read" /\ l.todo = DOMAIN path.files /\ l.got = load[x].got
        /\ l.ever = load[x].ever /\ l.kept = load[x].kept
    BY <2>2 DEF Load
  <2>5. \A p \in load[x].kept : p[1] \in DOMAIN path.files
    BY <2>2, HeldPair DEF LoadInv
  <2>6. LoadInv(l)
    BY <2>2, <2>4, <2>5 DEF LoadInv
  <2>7. load' = [load EXCEPT ![x] = l] /\ UNCHANGED <<path, rewrites, runtimeTrust, phase, trust>>
    BY <1>3, <2>2 DEF ReadDir, DirectoryInv, DirectoryTypeOK
  <2> HIDE DEF l
  <2> QED
    BY <2>3, <2>6, <2>7, MoveKeeps DEF DirectoryInv, DirectoryTypeOK
<1> QED
  BY <1>1, <1>2, <1>3

(* A pair that was there all along is in the file when it is read. *)
LEMMA ReadFileKeeps ==
  ASSUME DirectoryInv, NEW x \in Loaders, ReadFile(x)
  PROVE  DirectoryInv'
<1> DEFINE f == Min(load[x].todo)
<1>1. load[x] \in Load /\ LoadInv(load[x]) /\ load[x].pc = "read"
  BY DEF DirectoryInv, DirectoryTypeOK, ReadFile
<1>2. PICK g : g = f
  OBVIOUS
<1>3. CASE \/ path.kind = "file"
           \/ g \notin DOMAIN path.files
           \/ path.files[g].certs = {}
  <2>1. \E err : FailLoad(x, err)
    BY <1>2, <1>3 DEF ReadFile
  <2> QED
    BY <2>1, FailKeeps DEF ReadFile
<1>4. CASE ~ \/ path.kind = "file"
             \/ g \notin DOMAIN path.files
             \/ path.files[g].certs = {}
  <2> DEFINE l == [load[x] EXCEPT !.todo = @ \ {g}, !.got = @ \cup path.files[g].certs]
  <2>1. path \in Sources /\ path.files[g].certs \subseteq CAs
    BY <1>4, SourcesAssumption DEF DirectoryInv, DirectoryTypeOK, Contents
  <2>2. l \in Load
    BY <1>1, <2>1 DEF Load
  <2>3. /\ l.pc = "read" /\ l.todo = load[x].todo \ {g}
        /\ l.got = load[x].got \cup path.files[g].certs
        /\ l.ever = load[x].ever /\ l.kept = load[x].kept
    BY <1>1 DEF Load
  <2>4. path.files[g].certs \subseteq CertsOf(load[x].ever)
    <3>1. \A c \in path.files[g].certs : <<g, c>> \in load[x].ever
      BY <1>1, <1>4, HeldPair DEF LoadInv
    <3> QED
      BY <3>1, CertOfPair
  <2>5. \A p \in load[x].kept : p[1] = g => p[2] \in path.files[g].certs
    BY <1>1, HeldPair DEF LoadInv
  <2>6. load' = [load EXCEPT ![x] = l] /\ UNCHANGED <<path, rewrites, runtimeTrust, phase, trust>>
    BY <1>1, <1>2, <1>4 DEF ReadFile, DirectoryInv, DirectoryTypeOK
  <2> HIDE DEF l
  <2>7. LoadInv(l)
    BY <1>1, <2>3, <2>4, <2>5 DEF LoadInv
  <2> QED
    BY <2>2, <2>6, <2>7, MoveKeeps DEF DirectoryInv, DirectoryTypeOK
<1> QED
  BY <1>3, <1>4

(* With nothing left to read, what was there all along has been read. *)
LEMMA EndDirKeeps ==
  ASSUME DirectoryInv, NEW x \in Loaders, EndDir(x)
  PROVE  DirectoryInv'
<1>1. load[x] \in Load /\ LoadInv(load[x]) /\ load[x].pc = "read" /\ load[x].todo = {}
  BY DEF DirectoryInv, DirectoryTypeOK, EndDir
<1>2. CASE load[x].got = {}
  BY <1>2, FailKeeps DEF EndDir
<1>3. CASE load[x].got # {}
  <2> DEFINE l == [load[x] EXCEPT !.pc = "swap"]
  <2>1. l \in Load
    BY <1>1 DEF Load
  <2>2. /\ l.pc = "swap" /\ l.got = load[x].got
        /\ l.ever = load[x].ever /\ l.kept = load[x].kept
    BY <1>1 DEF Load
  <2>3. CertsOf(load[x].kept) \subseteq load[x].got
    BY <1>1 DEF LoadInv, CertsOf
  <2>4. load' = [load EXCEPT ![x] = l] /\ UNCHANGED <<path, rewrites, runtimeTrust, phase, trust>>
    BY <1>3 DEF EndDir
  <2> HIDE DEF l
  <2>5. LoadInv(l)
    BY <1>1, <1>3, <2>2, <2>3 DEF LoadInv
  <2> QED
    BY <2>1, <2>4, <2>5, MoveKeeps DEF DirectoryInv, DirectoryTypeOK
<1> QED
  BY <1>2, <1>3

(* A single file is read at once. *)
LEMMA ReadBundleKeeps ==
  ASSUME DirectoryInv, NEW x \in Loaders, ReadBundle(x)
  PROVE  DirectoryInv'
<1> DEFINE b == path.files[Bundle]
<1>1. load[x] \in Load /\ LoadInv(load[x]) /\ load[x].pc = "file"
  BY DEF DirectoryInv, DirectoryTypeOK, ReadBundle
<1>2. CASE ~(path.kind = "file" /\ b.enc = "PEM" /\ b.certs # {})
  <2>1. \E err : FailLoad(x, err)
    BY <1>2 DEF ReadBundle
  <2> QED
    BY <2>1, FailKeeps DEF ReadBundle
<1>3. CASE path.kind = "file" /\ b.enc = "PEM" /\ b.certs # {}
  <2> DEFINE l == [load[x] EXCEPT !.pc = "swap", !.got = b.certs]
  <2>1. path \in Sources /\ DOMAIN path.files = {Bundle} /\ b.certs \subseteq CAs
    BY <1>3, SourcesAssumption DEF DirectoryInv, DirectoryTypeOK, Contents, IsSource
  <2>2. l \in Load
    BY <1>1, <2>1 DEF Load
  <2>3. /\ l.pc = "swap" /\ l.got = b.certs
        /\ l.ever = load[x].ever /\ l.kept = load[x].kept
    BY <1>1 DEF Load
  <2>4. b.certs \subseteq CertsOf(load[x].ever)
    <3>1. \A c \in b.certs : <<Bundle, c>> \in load[x].ever
      BY <1>1, <2>1, HeldPair DEF LoadInv
    <3> QED
      BY <3>1, CertOfPair
  <2>5. CertsOf(load[x].kept) \subseteq b.certs
    <3>1. \A p \in load[x].kept : p[2] \in b.certs
      BY <1>1, <2>1, HeldPair DEF LoadInv
    <3> QED
      BY <3>1 DEF CertsOf
  <2>6. load' = [load EXCEPT ![x] = l] /\ UNCHANGED <<path, rewrites, runtimeTrust, phase, trust>>
    BY <1>1, <1>3 DEF ReadBundle, DirectoryInv, DirectoryTypeOK
  <2> HIDE DEF l
  <2>7. LoadInv(l)
    BY <1>1, <1>3, <2>3, <2>4, <2>5 DEF LoadInv
  <2> QED
    BY <2>2, <2>6, <2>7, MoveKeeps DEF DirectoryInv, DirectoryTypeOK
<1> QED
  BY <1>2, <1>3

(* Swap ends the load. *)
LEMMA SwapKeeps ==
  ASSUME DirectoryInv, NEW x \in Loaders, Swap(x)
  PROVE  DirectoryInv'
<1>1. NoLoad \in Load /\ LoadInv(NoLoad) /\ load[x].got \subseteq CAs
  BY DEF DirectoryInv, DirectoryTypeOK, NoLoad, Load, LoadInv
<1> QED
  BY <1>1, MoveKeeps DEF Swap

(* Every step keeps the invariant. *)
LEMMA DirectoryNextInv == DirectoryInv /\ [DirectoryNext]_directoryVars => DirectoryInv'
<1> SUFFICES ASSUME DirectoryInv, [DirectoryNext]_directoryVars
             PROVE  DirectoryInv'
  OBVIOUS
<1>1. CASE \E s \in Sources : Rewrite(s)
  BY <1>1, RewriteKeeps
<1>2. CASE Start
  BY <1>2 DEF Start, DirectoryInv, DirectoryTypeOK, LoadInv
<1>3. CASE Stop
  BY <1>3 DEF Stop, DirectoryInv, DirectoryTypeOK, LoadInv, NoLoad, Load
<1>4. ASSUME NEW x \in Loaders, StatNew(x) \/ StatReload(x) \/ LoadStep(x)
      PROVE  DirectoryInv'
  BY <1>4, StatKeeps, ReadDirKeeps, ReadFileKeeps, EndDirKeeps, ReadBundleKeeps, SwapKeeps
     DEF StatNew, StatReload, LoadStep
<1>5. CASE UNCHANGED directoryVars
  BY <1>5 DEF directoryVars, DirectoryInv, DirectoryTypeOK, LoadInv
<1> QED
  BY <1>1, <1>2, <1>3, <1>4, <1>5 DEF DirectoryNext

(***************************************************************************)
(* Whatever is rewritten under loadTrustedCAs, and however many loads      *)
(* overlap, a load brings into force all that its files held throughout    *)
(* and nothing that was never there.                                       *)
(***************************************************************************)
THEOREM LoadWithinItsInterval == DirectorySpec => []LoadIsWithinItsInterval
<1>1. DirectoryInv => LoadIsWithinItsInterval
  BY DEF DirectoryInv, LoadInv, LoadIsWithinItsInterval
<1> QED
  BY <1>1, DirectoryInitInv, DirectoryNextInv, PTL DEF DirectorySpec

(***************************************************************************)
(* A failed load leaves the anchors alone, and one that succeeds brings    *)
(* some; only New with WithRuntimeTrust goes up with none.                 *)
(***************************************************************************)
AnchorsInv == phase = "up" /\ ~runtimeTrust => trust # {}

AnchorsStep ==
  /\ phase' = "up" /\ ~runtimeTrust' => trust' # {}
  /\ phase = "up" /\ phase' = "up" /\ trust # {} => trust' # {}

(* A load that fails keeps the anchors. *)
LEMMA FailAnchors ==
  ASSUME AnchorsInv, NEW x, NEW err, FailLoad(x, err), UNCHANGED runtimeTrust
  PROVE  AnchorsStep
BY DEF AnchorsInv, AnchorsStep, FailLoad

(* So does every step of a load. *)
LEMMA LoadAnchors ==
  ASSUME DirectoryInv, AnchorsInv, NEW x \in Loaders, Stat(x) \/ LoadStep(x)
  PROVE  AnchorsStep
<1>0. UNCHANGED runtimeTrust
  BY DEF Stat, LoadStep, ReadDir, ReadFile, EndDir, ReadBundle, Swap
<1>1. CASE UNCHANGED <<phase, trust>>
  BY <1>0, <1>1 DEF AnchorsInv, AnchorsStep
<1>2. CASE \E err : FailLoad(x, err)
  BY <1>0, <1>2, FailAnchors
<1>3. CASE Swap(x)
  BY <1>3 DEF Swap, DirectoryInv, LoadInv, AnchorsStep
<1>4. Stat(x) => UNCHANGED <<phase, trust>> \/ \E err : FailLoad(x, err)
  BY DEF Stat
<1>5. ReadDir(x) => UNCHANGED <<phase, trust>> \/ \E err : FailLoad(x, err)
  BY DEF ReadDir
<1>6. ReadFile(x) => UNCHANGED <<phase, trust>> \/ \E err : FailLoad(x, err)
  BY DEF ReadFile
<1>7. EndDir(x) => UNCHANGED <<phase, trust>> \/ \E err : FailLoad(x, err)
  BY DEF EndDir
<1>8. ReadBundle(x) => UNCHANGED <<phase, trust>> \/ \E err : FailLoad(x, err)
  BY DEF ReadBundle
<1> QED
  BY <1>1, <1>2, <1>3, <1>4, <1>5, <1>6, <1>7, <1>8 DEF LoadStep

(***************************************************************************)
(* New and ReloadTrust never leave a handler that is up without anchors,   *)
(* unless it was built to start without, whatever the files do meanwhile.  *)
(***************************************************************************)
THEOREM AnchorsKept == DirectorySpec => AnchorsUnlessRuntimeTrust
<1>1. DirectoryInit => AnchorsInv
  BY DEF DirectoryInit, AnchorsInv
<1>2. DirectoryInv /\ AnchorsInv /\ DirectoryNext => AnchorsStep
  <2> SUFFICES ASSUME DirectoryInv, AnchorsInv, DirectoryNext PROVE AnchorsStep
    OBVIOUS
  <2>1. CASE \E s \in Sources : Rewrite(s)
    <3>1. UNCHANGED <<runtimeTrust, phase, trust>>
      BY <2>1, Zenon DEF Rewrite
    <3> QED
      BY <3>1 DEF AnchorsInv, AnchorsStep
  <2>2. CASE Start \/ Stop
    BY <2>2 DEF Start, Stop, AnchorsStep
  <2>3. CASE \E x \in Loaders : StatNew(x) \/ StatReload(x) \/ LoadStep(x)
    BY <2>3, LoadAnchors DEF StatNew, StatReload
  <2> QED
    BY <2>1, <2>2, <2>3 DEF DirectoryNext
<1>3. AnchorsStep => AnchorsInv'
  BY DEF AnchorsStep, AnchorsInv
<1>4. AnchorsInv /\ UNCHANGED directoryVars => AnchorsInv'
  BY DEF AnchorsInv, directoryVars
<1>5. DirectoryInv /\ AnchorsInv /\ [DirectoryNext]_directoryVars
        => [AnchorsStep]_directoryVars
  BY <1>2
<1> QED
  BY <1>1, <1>3, <1>4, <1>5, DirectoryInitInv, DirectoryNextInv, PTL
     DEF DirectorySpec, AnchorsUnlessRuntimeTrust, AnchorsStep

(* The values of TrustDirectory stay in their types, for every instance. *)
THEOREM DirectoryTypeCorrect == DirectorySpec => []DirectoryTypeOK
<1>1. DirectoryInv => DirectoryTypeOK
  BY DEF DirectoryInv
<1> QED
  BY <1>1, DirectoryInitInv, DirectoryNextInv, PTL DEF DirectorySpec

(***************************************************************************)
(* What a list of options asks for: which of them bring a store, and the   *)
(* issuers and key sets that they name.                                    *)
(***************************************************************************)
StoresGiven(g) == {i \in DOMAIN g : g[i].name = "WithNonceStore" /\ g[i].value # {}}

LastStore(g, store) ==
  IF StoresGiven(g) = {} THEN store = SessionStore
  ELSE \E i \in StoresGiven(g) : store \in g[i].value /\ \A j \in StoresGiven(g) : j <= i

Named(g, name) == {o \in Range(g) : o.name = name}

Issuers(g) == UNION {o.value : o \in Named(g, "WithAssertionIssuer")}

KeySets(g) == UNION {o.value : o \in Named(g, "WithPublishedJWKS")}

(* Key sets that were given are published, else the keys of an issuer. *)
Publishes(g, published) ==
  IF KeySets(g) # {} THEN published # {} /\ published \subseteq KeySets(g)
  ELSE /\ Issuers(g) # {} => published # {}
       /\ \A keys \in published : keys # {} /\ keys \subseteq Issuers(g)

(* The options of the validator's checker, as its builder passes them on. *)
builderOpts ==
  [client |-> builder.client, timeout |-> builder.timeout, designated |-> designatedConfig,
   nonceDisabled |-> cfg.nonceDisabled, allowed |-> cfg.allowed,
   skew |-> builder.skew, age |-> builder.age]

CheckerOf(o) == IF cfg.ocspEnabled THEN {NewChecker(o)} ELSE {}

(* A handler has the fields that New sets. *)
IsHandler ==
  /\ DOMAIN h = {"store", "issuer", "published", "runtimeTrust", "transport", "validator",
                 "signer", "generator"}
  /\ h = [f \in DOMAIN h |-> h[f]]

(***************************************************************************)
(* The inductive invariant of New: the store, the issuer and the published *)
(* keys follow from the options so far, and each part that has been built  *)
(* follows from the configuration.                                         *)
(***************************************************************************)
OptionsInv ==
  /\ cfg \in Configurations /\ given \in Seq(Options) /\ IsHandler
  /\ LastStore(given, h.store)
  /\ h.issuer \subseteq Issuers(given) /\ Publishes(given, h.published)
  /\ stage \in {"signer", "generator", "built"} =>
       h.validator = {[disallowed |-> builder.disallowed, checker |-> CheckerOf(builderOpts)]}
  /\ stage \in {"generator", "built"} =>
       h.signer = {[accepted |-> ParseOIDs(cfg.accepted), checker |-> CheckerOf(ocspOpts)]}
  /\ stage = "built" => h.generator = {[store |-> h.store]}

(***************************************************************************)
(* It holds before the first option.                                       *)
(***************************************************************************)
LEMMA OptionsInvInit == OptionsInit => OptionsInv
<1> SUFFICES ASSUME OptionsInit PROVE OptionsInv
  OBVIOUS
<1>1. /\ IsHandler /\ h.store = SessionStore /\ h.issuer = {} /\ h.published = {}
  BY DEF OptionsInit, NewHandler, IsHandler
<1>2. /\ StoresGiven(given) = {} /\ Issuers(given) = {} /\ KeySets(given) = {}
  BY DEF OptionsInit, StoresGiven, Issuers, KeySets, Named, Range
<1> QED BY <1>1, <1>2 DEF OptionsInit, OptionsInv, LastStore, Publishes

(***************************************************************************)
(* One more option adds what it carries to what its name stands for.       *)
(***************************************************************************)
LEMMA OneMoreOption ==
  ASSUME NEW g \in Seq(Options), NEW o \in Options, NEW g2, g2 = Append(g, o)
  PROVE  /\ g2 \in Seq(Options)
         /\ Issuers(g2) = IF o.name = "WithAssertionIssuer"
                          THEN Issuers(g) \cup o.value ELSE Issuers(g)
         /\ KeySets(g2) = IF o.name = "WithPublishedJWKS"
                          THEN KeySets(g) \cup o.value ELSE KeySets(g)
<1>1. g2 \in Seq(Options) /\ Range(g2) = Range(g) \cup {o}
  BY DEF Range
<1>2. ASSUME NEW name
      PROVE  Named(g2, name) = IF o.name = name THEN Named(g, name) \cup {o} ELSE Named(g, name)
  BY <1>1 DEF Named
<1> QED BY <1>1, <1>2 DEF Issuers, KeySets

(***************************************************************************)
(* The store of WithNonceStore replaces every earlier one; other options,  *)
(* and a nil store, leave it.                                              *)
(***************************************************************************)
LEMMA StoreIsLast ==
  ASSUME NEW g \in Seq(Options), NEW o \in Options, NEW g2, g2 = Append(g, o),
         NEW s, LastStore(g, s), NEW t,
         IF o.name = "WithNonceStore" /\ o.value # {} THEN t \in o.value ELSE t = s
  PROVE  LastStore(g2, t)
<1>1. /\ Len(g) \in Nat /\ DOMAIN g = 1..Len(g) /\ DOMAIN g2 = 1..Len(g) + 1
      /\ g2[Len(g) + 1] = o /\ \A i \in DOMAIN g : g2[i] = g[i]
  OBVIOUS
<1>2. CASE o.name = "WithNonceStore" /\ o.value # {}
  <2>1. StoresGiven(g2) = StoresGiven(g) \cup {Len(g) + 1}
    BY <1>1, <1>2 DEF StoresGiven
  <2>2. \A j \in StoresGiven(g2) : j <= Len(g) + 1
    BY <1>1 DEF StoresGiven
  <2> QED BY <1>1, <1>2, <2>1, <2>2 DEF LastStore
<1>3. CASE ~(o.name = "WithNonceStore" /\ o.value # {})
  <2>1. StoresGiven(g2) = StoresGiven(g)
    BY <1>1, <1>3 DEF StoresGiven
  <2>2. \A i \in StoresGiven(g) : g2[i] = g[i]
    BY <1>1 DEF StoresGiven
  <2> QED BY <1>3, <2>1, <2>2 DEF LastStore
<1> QED BY <1>2, <1>3

(***************************************************************************)
(* Every option keeps the invariant.                                       *)
(***************************************************************************)
LEMMA ApplyOptionKeeps ==
  ASSUME OptionsInv, NEW o \in Options, ApplyOption(o)
  PROVE  OptionsInv'
<1>1. /\ given \in Seq(Options) /\ given' = Append(given, o) /\ cfg' = cfg
      /\ stage = "options" /\ stage' = "options" /\ cfg \in Configurations
  BY DEF OptionsInv, ApplyOption
<1>2. /\ given' \in Seq(Options)
      /\ Issuers(given') = IF o.name = "WithAssertionIssuer"
                           THEN Issuers(given) \cup o.value ELSE Issuers(given)
      /\ KeySets(given') = IF o.name = "WithPublishedJWKS"
                           THEN KeySets(given) \cup o.value ELSE KeySets(given)
  BY <1>1, OneMoreOption
<1>3. /\ LastStore(given, h.store) /\ h.issuer \subseteq Issuers(given)
      /\ Publishes(given, h.published)
  BY DEF OptionsInv
<1>4. SUFFICES /\ IsHandler' /\ h'.issuer \subseteq Issuers(given')
               /\ Publishes(given', h'.published)
               /\ IF o.name = "WithNonceStore" /\ o.value # {} THEN h'.store \in o.value
                                                              ELSE h'.store = h.store
  <2>1. LastStore(given', h'.store)
    BY <1>1, <1>3, <1>4, StoreIsLast
  <2> QED BY <1>1, <1>2, <1>4, <2>1 DEF OptionsInv
<1>5. IsHandler
  BY DEF OptionsInv
<1>6. CASE o.name = "WithNonceStore" /\ WithNonceStore(o.value)
  <2>1. PICK t : /\ h' = [h EXCEPT !.store = t]
                 /\ IF o.value = {} THEN t = h.store ELSE t \in o.value
    BY <1>6 DEF WithNonceStore
  <2>2. /\ IsHandler' /\ h'.store = t /\ h'.issuer = h.issuer /\ h'.published = h.published
    BY <1>5, <2>1 DEF IsHandler
  <2> QED BY <1>2, <1>3, <1>6, <2>1, <2>2 DEF Publishes
<1>7. CASE o.name = "WithAssertionIssuer" /\ WithAssertionIssuer(o.value)
  <2>1. PICK p : /\ h' = [h EXCEPT !.issuer = o.value, !.published = p]
                 /\ p = IF o.value # {} /\ h.published = {} THEN {o.value} ELSE h.published
    BY <1>7 DEF WithAssertionIssuer
  <2>2. /\ IsHandler' /\ h'.store = h.store /\ h'.issuer = o.value /\ h'.published = p
    BY <1>5, <2>1 DEF IsHandler
  <2>3. Publishes(given', p)
    BY <1>2, <1>3, <1>7, <2>1 DEF Publishes
  <2> QED BY <1>2, <1>7, <2>2, <2>3
<1>8. CASE o.name = "WithPublishedJWKS" /\ WithPublishedJWKS(o.value)
  <2>1. PICK p : /\ h' = [h EXCEPT !.published = p]
                 /\ p = IF o.value = {} THEN h.published ELSE o.value
    BY <1>8 DEF WithPublishedJWKS
  <2>2. /\ IsHandler' /\ h'.store = h.store /\ h'.issuer = h.issuer /\ h'.published = p
    BY <1>5, <2>1 DEF IsHandler
  <2>3. Publishes(given', p)
    BY <1>2, <1>3, <1>8, <2>1 DEF Publishes
  <2> QED BY <1>2, <1>3, <1>8, <2>2, <2>3
<1>9. CASE \/ o.name = "WithRuntimeTrust" /\ WithRuntimeTrust
           \/ o.name = "WithOCSPTransport" /\ WithOCSPTransport(o.value)
  <2>1. /\ IsHandler' /\ h'.store = h.store /\ h'.issuer = h.issuer
        /\ h'.published = h.published
    BY <1>5, <1>9 DEF WithRuntimeTrust, WithOCSPTransport, IsHandler
  <2> QED BY <1>2, <1>3, <1>9, <2>1 DEF Publishes
<1> QED BY <1>6, <1>7, <1>8, <1>9 DEF ApplyOption

(***************************************************************************)
(* Every stage after the options keeps it, also when it fails.             *)
(***************************************************************************)
LEMMA StageKeeps ==
  ASSUME OptionsInv,
         \/ EndOptions \/ LoadMaterial \/ BuildValidator \/ BuildSigner \/ BuildGenerator
         \/ UNCHANGED optionsVars
  PROVE  OptionsInv'
<1>1. UNCHANGED <<cfg, given>> /\ IsHandler
  BY DEF OptionsInv, EndOptions, LoadMaterial, BuildValidator, BuildSigner, BuildGenerator,
     FailNew, optionsVars
<1>2. CASE h' = h /\ (stage' = stage \/ stage' \in {"trust", "validator", "failed"})
  BY <1>1, <1>2, ZenonT(30) DEF OptionsInv, IsHandler, CheckerOf, builderOpts, ocspOpts, builder,
     designatedConfig
<1>3. ASSUME BuildValidator, stage' = "signer" PROVE OptionsInv'
  <2>1. PICK v : /\ h' = [h EXCEPT !.validator = v]
                 /\ v = {[disallowed |-> builder.disallowed, checker |-> CheckerOf(builderOpts)]}
    BY <1>3, Zenon DEF BuildValidator, FailNew, CheckerOf, builderOpts
  <2>2. /\ IsHandler' /\ h'.validator = v /\ h'.store = h.store /\ h'.issuer = h.issuer
        /\ h'.published = h.published
    BY <1>1, <2>1 DEF IsHandler
  <2>3. UNCHANGED <<builder, builderOpts, cfg>>
    BY <1>1 DEF builder, builderOpts, designatedConfig
  <2> QED BY <1>1, <1>3, <2>1, <2>2, <2>3 DEF OptionsInv, CheckerOf
<1>4. ASSUME BuildSigner, stage' = "generator" PROVE OptionsInv'
  <2>1. PICK v : /\ h' = [h EXCEPT !.signer = v]
                 /\ v = {[accepted |-> ParseOIDs(cfg.accepted), checker |-> CheckerOf(ocspOpts)]}
    BY <1>4, Zenon DEF BuildSigner, FailNew, CheckerOf
  <2>2. /\ IsHandler' /\ h'.signer = v /\ h'.validator = h.validator /\ h'.store = h.store
        /\ h'.issuer = h.issuer /\ h'.published = h.published /\ h'.transport = h.transport
    BY <1>1, <2>1 DEF IsHandler
  <2>3. UNCHANGED <<builder, builderOpts, ocspOpts, cfg>> /\ stage = "signer"
    BY <1>1, <1>4, <2>2 DEF builder, builderOpts, ocspOpts, designatedConfig, BuildSigner
  <2> QED BY <1>1, <1>4, <2>1, <2>2, <2>3 DEF OptionsInv, CheckerOf
<1>5. CASE BuildGenerator
  <2>1. PICK v : h' = [h EXCEPT !.generator = v] /\ v = {[store |-> h.store]}
    BY <1>5 DEF BuildGenerator
  <2>2. /\ IsHandler' /\ h'.signer = h.signer /\ h'.validator = h.validator
        /\ h'.store = h.store /\ h'.issuer = h.issuer /\ h'.published = h.published
        /\ h'.transport = h.transport /\ h'.generator = v
    BY <1>1, <2>1 DEF IsHandler
  <2>3. /\ UNCHANGED <<builder, builderOpts, ocspOpts, cfg>>
        /\ stage = "generator" /\ stage' = "built"
    BY <1>1, <1>5, <2>2 DEF builder, builderOpts, ocspOpts, designatedConfig, BuildGenerator
  <2> QED BY <1>1, <2>1, <2>2, <2>3 DEF OptionsInv, CheckerOf
<1> QED BY <1>2, <1>3, <1>4, <1>5 DEF EndOptions, LoadMaterial, BuildValidator, BuildSigner,
        FailNew, optionsVars

(***************************************************************************)
(* OptionsInv is an invariant of New.                                      *)
(***************************************************************************)
LEMMA OptionsHold == OptionsSpec => []OptionsInv
<1>1. OptionsInv /\ [OptionsNext]_optionsVars => OptionsInv'
  BY ApplyOptionKeeps, StageKeeps DEF OptionsNext
<1> QED BY <1>1, OptionsInvInit, PTL DEF OptionsSpec

(***************************************************************************)
(* What NewChecker makes of its options, but for the client.               *)
(***************************************************************************)
LEMMA CheckerMade ==
  ASSUME NEW o, o = [client |-> o.client, timeout |-> o.timeout, designated |-> o.designated,
                     nonceDisabled |-> o.nonceDisabled, allowed |-> o.allowed,
                     skew |-> o.skew, age |-> o.age]
  PROVE  /\ [NewChecker(o) EXCEPT !.client = {}]
              = [client |-> {}, timeout |-> orDefault(o.timeout, 5), designated |-> o.designated,
                 nonceDisabled |-> o.nonceDisabled, allowed |-> o.allowed,
                 skew |-> orDefault(o.skew, 15 * 60), age |-> orDefault(o.age, 2 * 60)]
         /\ NewChecker(o).timeout = orDefault(o.timeout, 5)
         /\ NewChecker(o).skew = orDefault(o.skew, 15 * 60)
         /\ NewChecker(o).age = orDefault(o.age, 2 * 60)
<1>1. PICK c : c = IF o.client = {} THEN {"HTTPClient"} ELSE o.client
  OBVIOUS
<1>2. PICK t, s, a : t = orDefault(o.timeout, 5) /\ s = orDefault(o.skew, 15 * 60)
                       /\ a = orDefault(o.age, 2 * 60)
  OBVIOUS
<1>3. NewChecker(o) = [o EXCEPT !.client = c, !.timeout = t, !.skew = s, !.age = a]
  BY <1>1, <1>2 DEF NewChecker
<1>4. NewChecker(o) = [client |-> c, timeout |-> t, designated |-> o.designated,
                       nonceDisabled |-> o.nonceDisabled, allowed |-> o.allowed,
                       skew |-> s, age |-> a]
  BY <1>3
<1> QED BY <1>2, <1>4

(***************************************************************************)
(* NewChecker makes the same of the builder's options and of the signer's, *)
(* but for the client: the builder's defaults are those of NewChecker.     *)
(***************************************************************************)
LEMMA SameDefaults ==
  ASSUME cfg \in Configurations
  PROVE  [NewChecker(builderOpts) EXCEPT !.client = {}]
           = [NewChecker(ocspOpts) EXCEPT !.client = {}]
<1>1. cfg.timeout \in Int
  BY OptionsAssumption
<1>2. /\ builder.timeout = (IF cfg.timeout > 0 THEN cfg.timeout ELSE 5)
      /\ builder.skew = 15 * 60 /\ builder.age = 2 * 60
  BY DEF builder, NewAuthTokenValidatorBuilder
<1>3. /\ orDefault(builder.timeout, 5) = orDefault(cfg.timeout, 5)
      /\ orDefault(builder.skew, 15 * 60) = orDefault(0, 15 * 60)
      /\ orDefault(builder.age, 2 * 60) = orDefault(0, 2 * 60)
  BY <1>1, <1>2 DEF orDefault
<1>4. [NewChecker(builderOpts) EXCEPT !.client = {}]
        = [client |-> {}, timeout |-> orDefault(builder.timeout, 5),
           designated |-> designatedConfig, nonceDisabled |-> cfg.nonceDisabled,
           allowed |-> cfg.allowed, skew |-> orDefault(builder.skew, 15 * 60),
           age |-> orDefault(builder.age, 2 * 60)]
  <2>1. PICK o : o = builderOpts
    OBVIOUS
  <2>2. /\ o = [client |-> o.client, timeout |-> o.timeout, designated |-> o.designated,
                nonceDisabled |-> o.nonceDisabled, allowed |-> o.allowed,
                skew |-> o.skew, age |-> o.age]
        /\ o.timeout = builder.timeout /\ o.designated = designatedConfig
        /\ o.nonceDisabled = cfg.nonceDisabled /\ o.allowed = cfg.allowed
        /\ o.skew = builder.skew /\ o.age = builder.age
    BY <2>1 DEF builderOpts
  <2> QED BY <2>1, <2>2, CheckerMade, ZenonT(30)
<1>5. [NewChecker(ocspOpts) EXCEPT !.client = {}]
        = [client |-> {}, timeout |-> orDefault(cfg.timeout, 5),
           designated |-> designatedConfig, nonceDisabled |-> cfg.nonceDisabled,
           allowed |-> cfg.allowed, skew |-> orDefault(0, 15 * 60),
           age |-> orDefault(0, 2 * 60)]
  <2>1. PICK o : o = ocspOpts
    OBVIOUS
  <2>2. /\ o = [client |-> o.client, timeout |-> o.timeout, designated |-> o.designated,
                nonceDisabled |-> o.nonceDisabled, allowed |-> o.allowed,
                skew |-> o.skew, age |-> o.age]
        /\ o.timeout = cfg.timeout /\ o.designated = designatedConfig
        /\ o.nonceDisabled = cfg.nonceDisabled /\ o.allowed = cfg.allowed
        /\ o.skew = 0 /\ o.age = 0
    BY <2>1 DEF ocspOpts
  <2> QED BY <2>1, <2>2, CheckerMade, ZenonT(30)
<1> QED BY <1>3, <1>4, <1>5, Zenon

(***************************************************************************)
(* The two checkers of a handler agree on everything but the transport,    *)
(* for every configuration and every list of options.                      *)
(***************************************************************************)
THEOREM CheckersAlike == OptionsSpec => []CheckersAgree
<1>1. OptionsInv => CheckersAgree
  <2> SUFFICES ASSUME OptionsInv, stage = "built"
               PROVE  {[c EXCEPT !.client = {}] : c \in theValidator.checker}
                        = {[c EXCEPT !.client = {}] : c \in theSigner.checker}
    BY DEF CheckersAgree
  <2>1. /\ theValidator = [disallowed |-> builder.disallowed, checker |-> CheckerOf(builderOpts)]
        /\ theSigner = [accepted |-> ParseOIDs(cfg.accepted), checker |-> CheckerOf(ocspOpts)]
    BY DEF OptionsInv, theValidator, theSigner
  <2>2. theValidator.checker = CheckerOf(builderOpts) /\ theSigner.checker = CheckerOf(ocspOpts)
    BY <2>1
  <2>3. [NewChecker(builderOpts) EXCEPT !.client = {}]
          = [NewChecker(ocspOpts) EXCEPT !.client = {}]
    BY SameDefaults DEF OptionsInv
  <2> QED BY <2>2, <2>3 DEF CheckerOf
<1> QED BY <1>1, OptionsHold, PTL

(***************************************************************************)
(* orDefault leaves no bound at zero or below.                             *)
(***************************************************************************)
LEMMA BoundsAreSet ==
  ASSUME NEW o, o = [client |-> o.client, timeout |-> o.timeout, designated |-> o.designated,
                     nonceDisabled |-> o.nonceDisabled, allowed |-> o.allowed,
                     skew |-> o.skew, age |-> o.age],
         o.timeout \in Int, o.skew \in Int, o.age \in Int
  PROVE  NewChecker(o).timeout > 0 /\ NewChecker(o).skew > 0 /\ NewChecker(o).age > 0
<1>1. /\ NewChecker(o).timeout = orDefault(o.timeout, 5)
      /\ NewChecker(o).skew = orDefault(o.skew, 15 * 60)
      /\ NewChecker(o).age = orDefault(o.age, 2 * 60)
  BY CheckerMade, ZenonT(30)
<1>2. \A d \in Int : orDefault(d, 5) > 0 /\ orDefault(d, 15 * 60) > 0 /\ orDefault(d, 2 * 60) > 0
  BY DEF orDefault
<1> QED BY <1>1, <1>2

(***************************************************************************)
(* A handler whose configuration turns OCSP on checks revocation for       *)
(* tokens and for signatures, and no such check is without a timeout, a    *)
(* bound on the skew or one on the age, for every configuration.           *)
(***************************************************************************)
THEOREM RevocationBounded == OptionsSpec => []RevocationIsBounded
<1>1. OptionsInv => RevocationIsBounded
  <2> SUFFICES ASSUME OptionsInv, stage = "built"
               PROVE  /\ cfg.ocspEnabled => theValidator.checker # {} /\ theSigner.checker # {}
                      /\ \A c \in theValidator.checker \cup theSigner.checker :
                           c.timeout > 0 /\ c.skew > 0 /\ c.age > 0
    BY DEF RevocationIsBounded
  <2>1. /\ theValidator = [disallowed |-> builder.disallowed, checker |-> CheckerOf(builderOpts)]
        /\ theSigner = [accepted |-> ParseOIDs(cfg.accepted), checker |-> CheckerOf(ocspOpts)]
    BY DEF OptionsInv, theValidator, theSigner
  <2>2. theValidator.checker = CheckerOf(builderOpts) /\ theSigner.checker = CheckerOf(ocspOpts)
    BY <2>1
  <2>3. cfg.timeout \in Int
    BY OptionsAssumption DEF OptionsInv
  <2>4. /\ NewChecker(builderOpts).timeout > 0 /\ NewChecker(builderOpts).skew > 0
        /\ NewChecker(builderOpts).age > 0
    <3>1. builder.timeout \in Int /\ builder.skew \in Int /\ builder.age \in Int
      BY <2>3 DEF builder, NewAuthTokenValidatorBuilder
    <3>2. PICK o : o = builderOpts
      OBVIOUS
    <3>3. /\ o = [client |-> o.client, timeout |-> o.timeout, designated |-> o.designated,
                  nonceDisabled |-> o.nonceDisabled, allowed |-> o.allowed,
                  skew |-> o.skew, age |-> o.age]
          /\ o.timeout \in Int /\ o.skew \in Int /\ o.age \in Int
      BY <3>1, <3>2 DEF builderOpts
    <3> QED BY <3>2, <3>3, BoundsAreSet, ZenonT(30)
  <2>5. /\ NewChecker(ocspOpts).timeout > 0 /\ NewChecker(ocspOpts).skew > 0
        /\ NewChecker(ocspOpts).age > 0
    <3>1. PICK o : o = ocspOpts
      OBVIOUS
    <3>2. /\ o = [client |-> o.client, timeout |-> o.timeout, designated |-> o.designated,
                  nonceDisabled |-> o.nonceDisabled, allowed |-> o.allowed,
                  skew |-> o.skew, age |-> o.age]
          /\ o.timeout \in Int /\ o.skew \in Int /\ o.age \in Int
      BY <2>3, <3>1 DEF ocspOpts
    <3> QED BY <3>1, <3>2, BoundsAreSet, ZenonT(30)
  <2> QED BY <2>2, <2>4, <2>5, ZenonT(30) DEF CheckerOf
<1> QED BY <1>1, OptionsHold, PTL

(***************************************************************************)
(* Challenges are stored where login looks for them: in the store that the *)
(* last WithNonceStore brought, however many options there are.            *)
(***************************************************************************)
THEOREM StoreIsShared == OptionsSpec => []OneNonceStore
<1>1. OptionsInv => OneNonceStore
  BY DEF OptionsInv, OneNonceStore, LastStore, StoresGiven
<1> QED BY <1>1, OptionsHold, PTL

(***************************************************************************)
(* The key a handler signs with is among those it publishes, in every      *)
(* order of the options that name one issuer or key sets with all issuers. *)
(***************************************************************************)
THEOREM SigningKeyPublished == OptionsSpec => []SigningKeyIsPublished
<1>1. OptionsInv => SigningKeyIsPublished
  <2>1. SUFFICES ASSUME OptionsInv, \A keys \in KeySets(given) : Issuers(given) \subseteq keys,
                        KeySets(given) # {} \/ \A j, k \in Issuers(given) : j = k,
                        NEW k \in h.issuer
                 PROVE  \E keys \in h.published : k \in keys
    BY DEF SigningKeyIsPublished, Issuers, KeySets, Named
  <2>2. k \in Issuers(given) /\ Publishes(given, h.published)
    BY <2>1 DEF OptionsInv
  <2>3. CASE KeySets(given) # {}
    BY <2>1, <2>2, <2>3 DEF Publishes
  <2>4. CASE KeySets(given) = {}
    <3>1. PICK keys \in h.published : keys # {} /\ keys \subseteq Issuers(given)
      BY <2>2, <2>4 DEF Publishes
    <3> QED BY <2>1, <2>2, <2>4, <3>1
  <2> QED BY <2>3, <2>4
<1> QED BY <1>1, OptionsHold, PTL

(***************************************************************************)
(* Headers and hosts are sequences of symbols.                             *)
(***************************************************************************)
Words == Seq(Symbols)

(***************************************************************************)
(* A non-empty set of positions has a least element, which Min returns.    *)
(***************************************************************************)
LEMMA LeastPosition ==
  ASSUME NEW S, S \subseteq Nat, S # {}
  PROVE  Min(S) \in S /\ \A y \in S : Min(S) <= y
<1>1. PICK x \in S : \A y \in S : ~(<<y, x>> \in OpToRel(<, Nat))
  BY NatLessThanWellFounded, WFMin
<1>2. \A y \in S : ~(y < x)
  BY <1>1 DEF OpToRel
<1>3. \A y \in S : x <= y
  BY <1>2
<1> QED BY <1>3 DEF Min

(***************************************************************************)
(* A non-empty set of positions has a greatest element, which Max returns. *)
(***************************************************************************)
LEMMA GreatestPosition ==
  ASSUME NEW n \in Nat, NEW S, S \subseteq 1..n, S # {}
  PROVE  Max(S) \in S /\ \A y \in S : y <= Max(S)
<1> DEFINE D == {n - x : x \in S}
<1>1. D \subseteq Nat /\ D # {}
  OBVIOUS
<1>2. PICK m : m = Min(D)
  OBVIOUS
<1>3. m \in D /\ \A d \in D : m <= d
  BY <1>1, <1>2, LeastPosition
<1>4. PICK x \in S : m = n - x
  BY <1>3
<1>5. \A y \in S : y <= x
  <2> TAKE y \in S
  <2>1. n - y \in D
    OBVIOUS
  <2>2. n - x <= n - y
    BY <1>3, <1>4, <2>1
  <2>3. x \in Int /\ y \in Int
    OBVIOUS
  <2> QED BY <2>2, <2>3
<1>6. \E z \in S : \A y \in S : z >= y
  BY <1>5
<1>7. PICK z : z = Max(S)
  OBVIOUS
<1>8. z \in S /\ \A y \in S : z >= y
  BY <1>6, <1>7 DEF Max
<1> QED BY <1>7, <1>8

(***************************************************************************)
(* The beginning of a word is a word; what it holds.                       *)
(***************************************************************************)
LEMMA Beginning ==
  ASSUME NEW s \in Words, NEW n \in 0..Len(s), NEW t, t = SubSeq(s, 1, n)
  PROVE  t \in Words /\ Len(t) = n /\ \A i \in 1..n : t[i] = s[i]
<1>1. Len(s) \in Nat /\ n \in Nat /\ \A i \in 1..n : s[i] \in Symbols
  BY DEF Words
<1>2. /\ t \in Seq(Symbols) /\ Len(t) = IF 1 <= n THEN n - 1 + 1 ELSE 0
      /\ \A i \in 1..n - 1 + 1 : t[i] = s[1 + i - 1]
  BY <1>1, SubSeqProperties
<1> QED BY <1>1, <1>2 DEF Words

(***************************************************************************)
(* The end of a word is a word; what it holds.                             *)
(***************************************************************************)
LEMMA End ==
  ASSUME NEW s \in Words, NEW n \in 0..Len(s), NEW t, t = SubSeq(s, n + 1, Len(s))
  PROVE  t \in Words /\ Len(t) = Len(s) - n /\ \A i \in 1..Len(s) - n : t[i] = s[n + i]
<1>1. Len(s) \in Nat /\ n + 1 \in Nat /\ \A i \in n + 1..Len(s) : s[i] \in Symbols
  BY DEF Words
<1>2. /\ t \in Seq(Symbols) /\ Len(t) = IF n + 1 <= Len(s) THEN Len(s) - (n + 1) + 1 ELSE 0
      /\ \A i \in 1..Len(s) - (n + 1) + 1 : t[i] = s[n + 1 + i - 1]
  BY <1>1, SubSeqProperties
<1> QED BY <1>1, <1>2 DEF Words

(***************************************************************************)
(* Words with the same symbols are the same.                               *)
(***************************************************************************)
LEMMA SameWord ==
  ASSUME NEW s \in Words, NEW t \in Words, Len(s) = Len(t), \A i \in 1..Len(s) : s[i] = t[i]
  PROVE  s = t
BY SeqEqual DEF Words

(***************************************************************************)
(* strings.ToLower goes symbol by symbol.                                  *)
(***************************************************************************)
LEMMA Lower ==
  ASSUME NEW s \in Words, NEW t, t = ToLower(s)
  PROVE  /\ t \in Words /\ Len(t) = Len(s)
         /\ \A i \in 1..Len(s) : t[i] = IF s[i] = "A" THEN "a" ELSE s[i]
<1>1. Len(s) \in Nat /\ DOMAIN s = 1..Len(s) /\ \A i \in 1..Len(s) : s[i] \in Symbols
  BY DEF Words
<1>2. t = [i \in 1..Len(s) |-> IF s[i] = "A" THEN "a" ELSE s[i]]
  BY <1>1 DEF ToLower
<1>3. \A i \in 1..Len(s) : (IF s[i] = "A" THEN "a" ELSE s[i]) \in Symbols
  BY <1>1, HostsAssumption
<1>4. t \in Seq(Symbols) /\ Len(t) = Len(s)
  BY <1>1, <1>2, <1>3
<1>5. \A i \in 1..Len(s) : t[i] = IF s[i] = "A" THEN "a" ELSE s[i]
  BY <1>2
<1> QED BY <1>4, <1>5 DEF Words

(***************************************************************************)
(* strings.TrimPrefix takes away one symbol at the start, or none.         *)
(***************************************************************************)
LEMMA PrefixTrimmed ==
  ASSUME NEW s \in Words, NEW c, NEW t, t = TrimPrefix(s, c)
  PROVE  \E b \in {0, 1} :
           /\ b = 1 <=> (s # <<>> /\ s[1] = c)
           /\ t \in Words /\ Len(t) = Len(s) - b /\ \A i \in 1..Len(t) : t[i] = s[i + b]
<1>1. Len(s) \in Nat /\ (s # <<>> => Head(s) = s[1] /\ Len(s) > 0)
  BY DEF Words
<1>2. CASE s # <<>> /\ s[1] = c
  <2>1. t = Tail(s)
    BY <1>1, <1>2 DEF TrimPrefix
  <2>2. t \in Words /\ Len(t) = Len(s) - 1 /\ \A i \in 1..Len(t) : t[i] = s[i + 1]
    BY <1>2, <2>1, HeadTailProperties DEF Words
  <2> QED BY <1>2, <2>2
<1>3. CASE ~(s # <<>> /\ s[1] = c)
  <2>1. t = s
    BY <1>1, <1>3 DEF TrimPrefix
  <2> QED BY <1>1, <1>3, <2>1
<1> QED BY <1>2, <1>3

(***************************************************************************)
(* strings.TrimSuffix takes away one symbol at the end, or none.           *)
(***************************************************************************)
LEMMA SuffixTrimmed ==
  ASSUME NEW s \in Words, NEW c, NEW t, t = TrimSuffix(s, c)
  PROVE  \E e \in {0, 1} :
           /\ e = 1 <=> (s # <<>> /\ s[Len(s)] = c)
           /\ t \in Words /\ Len(t) = Len(s) - e /\ \A i \in 1..Len(t) : t[i] = s[i]
<1>1. Len(s) \in Nat /\ (s # <<>> => Len(s) > 0)
  BY DEF Words
<1>2. CASE s # <<>> /\ s[Len(s)] = c
  <2>1. t = SubSeq(s, 1, Len(s) - 1)
    BY <1>2 DEF TrimSuffix, HasSuffix
  <2>2. t \in Words /\ Len(t) = Len(s) - 1 /\ \A i \in 1..Len(t) : t[i] = s[i]
    <3>0. PICK n : n = Len(s) - 1
      OBVIOUS
    <3>1. n \in 0..Len(s) /\ n = Len(s) - 1 /\ n \in Nat
      BY <1>1, <1>2, <3>0
    <3>2. t = SubSeq(s, 1, n)
      BY <2>1, <3>1
    <3>3. t \in Words /\ Len(t) = n /\ \A i \in 1..n : t[i] = s[i]
      BY <3>1, <3>2, Beginning
    <3> QED BY <3>1, <3>3
  <2> QED BY <1>2, <2>2
<1>3. CASE ~(s # <<>> /\ s[Len(s)] = c)
  <2>1. t = s
    BY <1>3 DEF TrimSuffix, HasSuffix
  <2> QED BY <1>1, <1>3, <2>1
<1> QED BY <1>2, <1>3

(***************************************************************************)
(* strings.LastIndex: it is 0 if there is no colon, and else no colon lies *)
(* behind it.                                                              *)
(***************************************************************************)
LEMMA LastColonIsLast ==
  ASSUME NEW s \in Words, NEW i, i = LastIndex(s, ":")
  PROVE  \/ i = 0 /\ \A j \in 1..Len(s) : s[j] # ":"
         \/ /\ i \in 1..Len(s) /\ s[i] = ":"
            /\ \A j \in 1..Len(s) : s[j] = ":" => j <= i
<1> DEFINE I == {j \in 1..Len(s) : s[j] = ":"}
<1>1. i = IF I = {} THEN 0 ELSE Max(I)
  <2>1. DOMAIN s = 1..Len(s)
    BY DEF Words
  <2>2. PICK at : at = {j \in DOMAIN s : s[j] = ":"}
    OBVIOUS
  <2>3. at = I
    BY <2>1, <2>2
  <2>4. i = IF at = {} THEN 0 ELSE Max(at)
    BY <2>2, Zenon DEF LastIndex
  <2> QED BY <2>3, <2>4, Zenon
<1>2. Len(s) \in Nat /\ I \subseteq 1..Len(s)
  BY DEF Words
<1>3. CASE I = {}
  BY <1>1, <1>3
<1>4. CASE I # {}
  <2>1. i \in I /\ \A j \in I : j <= i
    BY <1>1, <1>2, <1>4, GreatestPosition
  <2> QED BY <2>1
<1> QED BY <1>3, <1>4

(***************************************************************************)
(* What hostMatches leaves of a header before it compares: a beginning,    *)
(* with nothing behind it but a colon and symbols other than a colon and a *)
(* closing bracket.                                                        *)
(***************************************************************************)
LEMMA PortCut ==
  ASSUME NEW t \in Words
  PROVE  \E k \in 0..Len(t) :
           /\ withoutPort(t) = SubSeq(t, 1, k)
           /\ k # Len(t) => /\ t[k + 1] = ":"
                            /\ \A j \in 1..Len(t) : j > k + 1 => t[j] \notin {":", "]"}
<1>1. PICK i : i = LastIndex(t, ":")
  OBVIOUS
<1>2. Len(t) \in Nat /\ SubSeq(t, 1, Len(t)) = t
  BY SubSeqFull DEF Words
<1>3. CASE i > 0 /\ ~HasSuffix(t, "]") /\ "]" \notin Range(SubSeq(t, i + 1, Len(t)))
  <2>1. i \in 1..Len(t) /\ t[i] = ":" /\ \A j \in 1..Len(t) : t[j] = ":" => j <= i
    BY <1>1, <1>3, LastColonIsLast
  <2>2. PICK k : k = i - 1
    OBVIOUS
  <2>3. k \in 0..Len(t) /\ k + 1 = i
    BY <1>2, <2>1, <2>2
  <2>4. withoutPort(t) = SubSeq(t, 1, k)
    BY <1>1, <1>3, <2>2 DEF withoutPort
  <2>5. ASSUME NEW j \in 1..Len(t), j > k + 1 PROVE t[j] \notin {":", "]"}
    <3>1. t[j] # ":"
      BY <1>2, <2>1, <2>3, <2>5
    <3>2. PICK u : u = SubSeq(t, i + 1, Len(t))
      OBVIOUS
    <3>3. u \in Words /\ Len(u) = Len(t) - i /\ \A n \in 1..Len(t) - i : u[n] = t[i + n]
      <4>1. i \in 0..Len(t)
        BY <1>2, <2>1
      <4> QED BY <3>2, <4>1, End
    <3>4. j - i \in 1..Len(t) - i /\ i + (j - i) = j
      BY <1>2, <2>1, <2>3, <2>5
    <3>5. u[j - i] = t[j]
      BY <3>3, <3>4
    <3>6. u[j - i] \in Range(u)
      BY <3>3, <3>4 DEF Range, Words
    <3> QED BY <1>3, <3>1, <3>2, <3>5, <3>6
  <2> QED BY <2>1, <2>3, <2>4, <2>5
<1>4. CASE ~(i > 0 /\ ~HasSuffix(t, "]") /\ "]" \notin Range(SubSeq(t, i + 1, Len(t))))
  <2>1. withoutPort(t) = SubSeq(t, 1, Len(t))
    BY <1>1, <1>2, <1>4 DEF withoutPort
  <2>2. Len(t) \in 0..Len(t)
    BY <1>2
  <2> QED BY <2>1, <2>2
<1> QED BY <1>3, <1>4

(***************************************************************************)
(* The comparison of hostMatches: if what is left of header t is name, t   *)
(* begins with name and ends with it or with a port.                       *)
(***************************************************************************)
LEMMA MatchShape ==
  ASSUME NEW t \in Words, NEW name \in Words, name # <<>>, unbracketed(withoutPort(t)) = name,
         NEW hdr, hdr = TrimPrefix(t, "["),
         NEW rest, rest = TrimPrefix(SubSeq(hdr, Len(name) + 1, Len(hdr)), "]")
  PROVE  /\ HasPrefix(hdr, name)
         /\ rest = <<>> \/ (Head(rest) = ":" /\ Range(Tail(rest)) \cap {":", "]"} = {})
<1>0. Len(t) \in Nat /\ Len(name) \in Nat /\ Len(name) > 0
  BY DEF Words
<1>1. PICK k \in 0..Len(t) :
        /\ withoutPort(t) = SubSeq(t, 1, k)
        /\ k # Len(t) => /\ t[k + 1] = ":"
                         /\ \A j \in 1..Len(t) : j > k + 1 => t[j] \notin {":", "]"}
  BY PortCut
<1>2. PICK w : w = SubSeq(t, 1, k)
  OBVIOUS
<1>3. w \in Words /\ Len(w) = k /\ \A j \in 1..k : w[j] = t[j]
  BY <1>2, Beginning
<1>4. PICK v : v = TrimPrefix(w, "[")
  OBVIOUS
<1>5. PICK b \in {0, 1} :
        /\ b = 1 <=> (w # <<>> /\ w[1] = "[")
        /\ v \in Words /\ Len(v) = Len(w) - b /\ \A j \in 1..Len(v) : v[j] = w[j + b]
  <2>1. w \in Words
    BY <1>3
  <2> QED BY <1>4, <2>1, PrefixTrimmed
<1>6. name = TrimSuffix(v, "]")
  BY <1>1, <1>2, <1>4 DEF unbracketed
<1>7. PICK e \in {0, 1} :
        /\ e = 1 <=> (v # <<>> /\ v[Len(v)] = "]")
        /\ Len(name) = Len(v) - e /\ \A j \in 1..Len(name) : name[j] = v[j]
  BY <1>5, <1>6, SuffixTrimmed
<1>8. k > 0 /\ k \in Nat /\ Len(name) = k - b - e
  BY <1>0, <1>3, <1>5, <1>7
<1>9. PICK d \in {0, 1} :
        /\ d = 1 <=> (t # <<>> /\ t[1] = "[")
        /\ hdr \in Words /\ Len(hdr) = Len(t) - d /\ \A j \in 1..Len(hdr) : hdr[j] = t[j + d]
  BY PrefixTrimmed
<1>10. d = b
  <2>1. w # <<>> /\ t # <<>> /\ w[1] = t[1]
    BY <1>0, <1>3, <1>8
  <2> QED BY <1>5, <1>9, <2>1
<1>11. \A j \in 1..Len(name) : j \in 1..Len(hdr) /\ name[j] = hdr[j]
  <2> TAKE j \in 1..Len(name)
  <2>1. /\ j \in 1..Len(v) /\ j + b \in 1..k /\ j \in 1..Len(hdr)
    BY <1>0, <1>3, <1>5, <1>7, <1>8, <1>9, <1>10
  <2>2. name[j] = v[j] /\ v[j] = w[j + b] /\ w[j + b] = t[j + b] /\ hdr[j] = t[j + b]
    BY <1>3, <1>5, <1>7, <1>9, <1>10, <2>1
  <2> QED BY <2>1, <2>2
<1>12. Len(name) \in 0..Len(hdr) /\ Len(hdr) \in Nat
  BY <1>0, <1>8, <1>9, <1>10
<1>13. HasPrefix(hdr, name)
  <2>0. PICK n : n = Len(name)
    OBVIOUS
  <2>1. PICK u : u = SubSeq(hdr, 1, n)
    OBVIOUS
  <2>2. u \in Words /\ Len(u) = Len(name) /\ \A j \in 1..Len(name) : u[j] = hdr[j]
    <3>1. n \in 0..Len(hdr) /\ hdr \in Words
      BY <1>9, <1>12, <2>0
    <3>2. u \in Words /\ Len(u) = n /\ \A j \in 1..n : u[j] = hdr[j]
      BY <2>1, <3>1, Beginning, ZenonT(30)
    <3> QED BY <2>0, <3>2
  <2>3. u = name
    BY <1>11, <2>2, SameWord
  <2> QED BY <1>12, <2>0, <2>1, <2>3 DEF HasPrefix
<1>14. PICK u : u = SubSeq(hdr, Len(name) + 1, Len(hdr))
  OBVIOUS
<1>15. /\ u \in Words /\ Len(u) = Len(hdr) - Len(name)
       /\ \A j \in 1..Len(hdr) - Len(name) : u[j] = hdr[Len(name) + j]
  <2>1. PICK n : n = Len(name)
    OBVIOUS
  <2>2. n \in 0..Len(hdr) /\ hdr \in Words /\ u = SubSeq(hdr, n + 1, Len(hdr))
    BY <1>9, <1>12, <1>14, <2>1
  <2>3. u \in Words /\ Len(u) = Len(hdr) - n /\ \A j \in 1..Len(hdr) - n : u[j] = hdr[n + j]
    BY <2>2, End, ZenonT(60)
  <2> QED BY <2>1, <2>3
<1>16. Len(u) = Len(t) - k + e /\ \A j \in 1..Len(u) : u[j] = t[k - e + j]
  <2>1. Len(u) = Len(t) - k + e
    BY <1>0, <1>8, <1>9, <1>10, <1>15
  <2>2. ASSUME NEW j \in 1..Len(u) PROVE u[j] = t[k - e + j]
    <3>1. Len(name) + j \in 1..Len(hdr) /\ Len(name) + j + d = k - e + j
      BY <1>0, <1>8, <1>9, <1>10, <1>15
    <3>2. u[j] = hdr[Len(name) + j] /\ hdr[Len(name) + j] = t[Len(name) + j + d]
      BY <1>9, <1>15, <3>1
    <3> QED BY <3>1, <3>2
  <2> QED BY <2>1, <2>2
<1>17. PICK f \in {0, 1} :
         /\ f = 1 <=> (u # <<>> /\ u[1] = "]")
         /\ rest \in Words /\ Len(rest) = Len(u) - f /\ \A j \in 1..Len(rest) : rest[j] = u[j + f]
  <2>1. rest = TrimPrefix(u, "]") /\ u \in Words
    BY <1>14, <1>15
  <2> QED BY <2>1, PrefixTrimmed
<1>18. f = e
  <2>1. CASE e = 1
    <3>1. v[Len(v)] = "]" /\ Len(v) \in 1..Len(v) /\ Len(v) + b = k
      BY <1>3, <1>5, <1>7, <1>8, <2>1, <1>0
    <3>2. t[k] = "]"
      BY <1>3, <1>5, <1>8, <3>1
    <3>3. u # <<>> /\ u[1] = t[k]
      BY <1>0, <1>8, <1>15, <1>16, <2>1
    <3> QED BY <1>17, <2>1, <3>2, <3>3
  <2>2. CASE e = 0
    <3>1. CASE k = Len(t)
      BY <1>15, <1>16, <1>17, <2>2, <3>1 DEF Words
    <3>2. CASE k # Len(t)
      <4>0. 1 \in 1..Len(u) /\ k - e + 1 = k + 1
        <5>1. Len(u) = Len(t) - k + e
          BY <1>16
        <5> QED BY <1>0, <1>8, <2>2, <3>2, <5>1
      <4>1. u[1] = t[k + 1]
        BY <1>16, <4>0
      <4> QED BY <1>1, <1>17, <2>2, <3>2, <4>1
    <3> QED BY <3>1, <3>2
  <2> QED BY <2>1, <2>2
<1>19. Len(rest) = Len(t) - k /\ \A j \in 1..Len(rest) : rest[j] = t[k + j]
  <2>0. Len(u) = Len(t) - k + e /\ Len(rest) = Len(u) - f /\ Len(rest) \in Nat
    BY <1>16, <1>17 DEF Words
  <2>1. Len(rest) = Len(t) - k
    BY <1>0, <1>8, <1>18, <2>0
  <2>2. ASSUME NEW j \in 1..Len(rest) PROVE rest[j] = t[k + j]
    <3>1. j + f \in 1..Len(u) /\ k - e + (j + f) = k + j
      BY <1>0, <1>8, <1>18, <2>0
    <3> QED BY <1>16, <1>17, <3>1
  <2> QED BY <2>1, <2>2
<1>20. CASE k = Len(t)
  <2>1. rest = <<>>
    BY <1>0, <1>17, <1>19, <1>20 DEF Words
  <2> QED BY <1>13, <2>1
<1>21. CASE k # Len(t)
  <2>0. rest \in Seq(Symbols) /\ Len(rest) = Len(t) - k
    BY <1>17, <1>19 DEF Words
  <2>1. rest # <<>> /\ rest \in Seq(Symbols) /\ Len(rest) \in Nat /\ Len(rest) > 0
    BY <1>0, <1>8, <1>21, <2>0
  <2>2. Head(rest) = ":"
    BY <1>1, <1>19, <1>21, <2>1
  <2>3. /\ Tail(rest) \in Seq(Symbols) /\ Len(Tail(rest)) = Len(rest) - 1
        /\ \A j \in 1..Len(Tail(rest)) : Tail(rest)[j] = rest[j + 1]
    BY <2>1, HeadTailProperties
  <2>4. ASSUME NEW j \in 1..Len(Tail(rest)) PROVE Tail(rest)[j] \notin {":", "]"}
    <3>1. j + 1 \in 1..Len(rest) /\ k + (j + 1) \in 1..Len(t) /\ k + (j + 1) > k + 1
      BY <1>0, <1>8, <1>19, <2>1, <2>3
    <3>2. Tail(rest)[j] = t[k + (j + 1)]
      BY <1>19, <2>3, <3>1
    <3> QED BY <1>1, <1>21, <3>1, <3>2
  <2>5. DOMAIN Tail(rest) = 1..Len(Tail(rest))
    BY <2>3
  <2>6. Range(Tail(rest)) \cap {":", "]"} = {}
    BY <2>4, <2>5, ZenonT(30) DEF Range
  <2> QED BY <1>13, <2>2, <2>6
<1> QED BY <1>20, <1>21

(***************************************************************************)
(* A name and an address in brackets, symbol by symbol.                    *)
(***************************************************************************)
Plain(s) == Len(s) > 0 /\ \A i \in 1..Len(s) : s[i] \notin {":", "[", "]", " "}

Bracketed(s) ==
  /\ Len(s) > 2 /\ s[1] = "[" /\ s[Len(s)] = "]"
  /\ \A i \in 1..Len(s) : i # 1 /\ i # Len(s) => s[i] \notin {"[", "]", " "}
  /\ \E i \in 1..Len(s) : i # 1 /\ i # Len(s) /\ s[i] = ":"

Host(s) == Plain(s) \/ Bracketed(s)

(***************************************************************************)
(* isName of the reference definition means such a name.                   *)
(***************************************************************************)
LEMMA NameIsPlain ==
  ASSUME NEW s \in Words
  PROVE  isName(s) <=> Plain(s)
<1>1. Len(s) \in Nat /\ DOMAIN s = 1..Len(s) /\ (s # <<>> <=> Len(s) > 0)
  BY DEF Words
<1>2. Range(s) \cap {":", "[", "]", " "} = {}
        <=> \A i \in 1..Len(s) : s[i] \notin {":", "[", "]", " "}
  BY <1>1 DEF Range
<1> QED BY <1>1, <1>2 DEF isName, Plain

(***************************************************************************)
(* isAddress of the reference definition means an address in brackets.     *)
(***************************************************************************)
LEMMA AddressIsBracketed ==
  ASSUME NEW s \in Words
  PROVE  isAddress(s) <=> Bracketed(s)
<1>1. Len(s) \in Nat
  BY DEF Words
<1>2. SUFFICES ASSUME Len(s) > 2 PROVE isAddress(s) <=> Bracketed(s)
  BY DEF isAddress, Bracketed
<1>3. Head(s) = s[1] /\ (HasSuffix(s, "]") <=> s[Len(s)] = "]")
  BY <1>1, <1>2 DEF Words, HasSuffix
<1>4. PICK n : n = Len(s) - 1
  OBVIOUS
<1>5. n \in Int /\ n > 1 /\ \A i \in 2..n : i \in 1..Len(s)
  BY <1>1, <1>2, <1>4
<1>6. PICK g : g = SubSeq(s, 2, n)
  OBVIOUS
<1>7. \A i \in 2..n : s[i] \in Symbols
  BY <1>5 DEF Words
<1>8. g \in Seq(Symbols) /\ Len(g) = n - 2 + 1 /\ \A i \in 1..n - 2 + 1 : g[i] = s[2 + i - 1]
  BY <1>5, <1>6, <1>7, SubSeqProperties
<1>9. Len(g) = n - 1
  BY <1>5, <1>8
<1>12. DOMAIN g = 1..Len(g) /\ \A i \in 1..Len(g) : g[i] = s[i + 1]
  <2>1. \A i \in 1..Len(g) : i \in 1..n - 2 + 1 /\ 2 + i - 1 = i + 1
    BY <1>5, <1>9
  <2> QED BY <1>8, <2>1
<1>13. \A i \in 1..Len(s) : i # 1 /\ i # Len(s) => i - 1 \in 1..Len(g) /\ g[i - 1] = s[i]
  <2> SUFFICES ASSUME NEW i \in 1..Len(s), i # 1, i # Len(s)
               PROVE  i - 1 \in 1..Len(g) /\ g[i - 1] = s[i]
    OBVIOUS
  <2>1. i - 1 \in 1..Len(g) /\ (i - 1) + 1 = i
    BY <1>1, <1>4, <1>9
  <2> QED BY <1>12, <2>1
<1>14. \A i \in 1..Len(g) : i + 1 \in 1..Len(s) /\ i + 1 # 1 /\ i + 1 # Len(s)
  BY <1>1, <1>4, <1>9
<1>15. ":" \in Range(g) <=> \E i \in 1..Len(s) : i # 1 /\ i # Len(s) /\ s[i] = ":"
  <2>1. ASSUME ":" \in Range(g)
        PROVE  \E i \in 1..Len(s) : i # 1 /\ i # Len(s) /\ s[i] = ":"
    <3>1. PICK i \in 1..Len(g) : g[i] = ":"
      BY <1>12, <2>1, Zenon DEF Range
    <3> QED BY <1>12, <1>14, <3>1, Zenon
  <2>2. ASSUME NEW i \in 1..Len(s), i # 1, i # Len(s), s[i] = ":" PROVE ":" \in Range(g)
    BY <1>12, <1>13, <2>2, Zenon DEF Range
  <2> QED BY <2>1, <2>2, Zenon
<1>16. Range(g) \cap {"[", "]", " "} = {}
         <=> \A i \in 1..Len(g) : g[i] \notin {"[", "]", " "}
  BY <1>12 DEF Range
<1>17. (\A i \in 1..Len(g) : g[i] \notin {"[", "]", " "})
         <=> \A i \in 1..Len(s) : i # 1 /\ i # Len(s) => s[i] \notin {"[", "]", " "}
  BY <1>12, <1>13, <1>14
<1>18. isAddress(s) <=> /\ s[1] = "[" /\ s[Len(s)] = "]"
                        /\ ":" \in Range(g) /\ Range(g) \cap {"[", "]", " "} = {}
  BY <1>2, <1>3, <1>4, <1>6 DEF isAddress
<1> QED BY <1>2, <1>15, <1>16, <1>17, <1>18 DEF Bracketed

(***************************************************************************)
(* unbracketed leaves a name as it is.                                     *)
(***************************************************************************)
LEMMA PlainUnbracketed ==
  ASSUME NEW s \in Words, \A i \in 1..Len(s) : s[i] \notin {"[", "]"}
  PROVE  unbracketed(s) = s
<1>1. Len(s) \in Nat /\ (s # <<>> => Head(s) = s[1] /\ 1 \in 1..Len(s) /\ Len(s) \in 1..Len(s))
  BY DEF Words
<1>2. TrimPrefix(s, "[") = s
  BY <1>1 DEF TrimPrefix
<1>3. TrimSuffix(s, "]") = s
  BY <1>1 DEF TrimSuffix, HasSuffix
<1> QED BY <1>2, <1>3 DEF unbracketed

(***************************************************************************)
(* unbracketed leaves an address without its brackets.                     *)
(***************************************************************************)
LEMMA BracketsTrimmed ==
  ASSUME NEW s \in Words, Bracketed(s), NEW u, u = unbracketed(s)
  PROVE  /\ u \in Words /\ Len(u) = Len(s) - 2
         /\ \A i \in 1..Len(u) : u[i] = s[i + 1]
<1>0. Len(s) > 2 /\ s[1] = "[" /\ s[Len(s)] = "]"
  BY Zenon DEF Bracketed
<1>1. Len(s) \in Nat /\ s # <<>>
  BY <1>0 DEF Words
<1>2. PICK v : v = TrimPrefix(s, "[")
  OBVIOUS
<1>3. v \in Words /\ Len(v) = Len(s) - 1 /\ \A i \in 1..Len(v) : v[i] = s[i + 1]
  BY <1>0, <1>1, <1>2, PrefixTrimmed
<1>4. v # <<>> /\ v[Len(v)] = "]"
  <2>1. Len(v) \in 1..Len(v) /\ Len(v) + 1 = Len(s) /\ Len(v) > 0
    BY <1>0, <1>1, <1>3
  <2>2. v[Len(v)] = s[Len(s)]
    BY <1>3, <2>1
  <2> QED BY <1>0, <2>1, <2>2
<1>5. u = TrimSuffix(v, "]")
  BY <1>2 DEF unbracketed
<1>6. u \in Words /\ Len(u) = Len(v) - 1 /\ \A i \in 1..Len(u) : u[i] = v[i]
  BY <1>3, <1>4, <1>5, SuffixTrimmed
<1> QED BY <1>0, <1>1, <1>3, <1>6

(***************************************************************************)
(* Nothing is left of the brackets of a host, and something of the host.   *)
(***************************************************************************)
LEMMA HostUnbracketed ==
  ASSUME NEW s \in Words, Host(s), NEW u, u = unbracketed(s)
  PROVE  u \in Words /\ u # <<>> /\ \A i \in 1..Len(u) : u[i] \notin {"[", "]"}
<1>1. CASE Plain(s)
  <2>1. u = s
    BY <1>1, PlainUnbracketed DEF Plain
  <2>2. s # <<>>
    <3>1. Len(s) > 0
      BY <1>1, Zenon DEF Plain
    <3> QED BY <3>1
  <2> QED BY <1>1, <2>1, <2>2, Zenon DEF Plain
<1>2. CASE Bracketed(s)
  <2>1. u \in Words /\ Len(u) = Len(s) - 2 /\ \A i \in 1..Len(u) : u[i] = s[i + 1]
    BY <1>2, BracketsTrimmed
  <2>2. Len(s) \in Nat /\ Len(s) > 2
    <3>1. Len(s) > 2
      BY <1>2, Zenon DEF Bracketed
    <3> QED BY <3>1 DEF Words
  <2>3. \A i \in 1..Len(u) : i + 1 \in 1..Len(s) /\ i + 1 # 1 /\ i + 1 # Len(s)
    BY <2>1, <2>2
  <2>4. \A i \in 1..Len(u) : u[i] \notin {"[", "]"}
    BY <1>2, <2>1, <2>3, ZenonT(30) DEF Bracketed
  <2>5. u # <<>>
    BY <2>1, <2>2
  <2> QED BY <2>1, <2>4, <2>5
<1> QED BY <1>1, <1>2 DEF Host

(***************************************************************************)
(* Two hosts are the same if they are without their brackets: only an      *)
(* address has a colon.                                                    *)
(***************************************************************************)
LEMMA SameHost ==
  ASSUME NEW s \in Words, NEW t \in Words, Host(s), Host(t), unbracketed(s) = unbracketed(t)
  PROVE  s = t
<1>0. Len(s) \in Nat /\ Len(t) \in Nat
  BY DEF Words
<1>1. ASSUME NEW a \in Words, NEW b \in Words, Plain(a), Bracketed(b),
             unbracketed(a) = unbracketed(b)
      PROVE  FALSE
  <2>1. unbracketed(a) = a
    BY <1>1, PlainUnbracketed DEF Plain
  <2>2. Len(a) = Len(b) - 2 /\ \A i \in 1..Len(a) : a[i] = b[i + 1]
    BY <1>1, <2>1, BracketsTrimmed, ZenonT(30)
  <2>3. PICK i \in 1..Len(b) : i # 1 /\ i # Len(b) /\ b[i] = ":"
    BY <1>1, Zenon DEF Bracketed
  <2>4. Len(b) \in Nat
    BY DEF Words
  <2>5. i - 1 \in 1..Len(a) /\ (i - 1) + 1 = i
    BY <2>2, <2>3, <2>4
  <2>6. a[i - 1] = ":"
    BY <2>2, <2>3, <2>5
  <2> QED BY <1>1, <2>5, <2>6 DEF Plain
<1>2. CASE Plain(s) /\ Plain(t)
  <2>1. unbracketed(s) = s /\ unbracketed(t) = t
    BY <1>2, PlainUnbracketed DEF Plain
  <2> QED BY <2>1
<1>3. CASE Bracketed(s) /\ Bracketed(t)
  <2>1. PICK u : u = unbracketed(s) /\ u = unbracketed(t)
    OBVIOUS
  <2>2. Len(u) = Len(s) - 2 /\ \A i \in 1..Len(u) : u[i] = s[i + 1]
    BY <1>3, <2>1, BracketsTrimmed
  <2>3. Len(u) = Len(t) - 2 /\ \A i \in 1..Len(u) : u[i] = t[i + 1]
    BY <1>3, <2>1, BracketsTrimmed
  <2>4. Len(s) = Len(t)
    BY <1>0, <2>2, <2>3
  <2>5. s[1] = t[1] /\ s[Len(s)] = t[Len(s)]
    BY <1>3, <2>4, Zenon DEF Bracketed
  <2>6. ASSUME NEW i \in 1..Len(s), i # 1, i # Len(s) PROVE s[i] = t[i]
    <3>1. i - 1 \in 1..Len(u) /\ (i - 1) + 1 = i
      BY <1>0, <2>2, <2>6
    <3>2. u[i - 1] = s[i] /\ u[i - 1] = t[i]
      BY <2>2, <2>3, <3>1
    <3> QED BY <3>2
  <2>7. \A i \in 1..Len(s) : s[i] = t[i]
    BY <2>5, <2>6
  <2> QED BY <2>4, <2>7, SameWord
<1> QED BY <1>1, <1>2, <1>3 DEF Host

(***************************************************************************)
(* Lower case keeps a host a host, and is the same before and after the    *)
(* brackets are taken away.                                                *)
(***************************************************************************)
LEMMA LowerHost ==
  ASSUME NEW s \in Words, Host(s), NEW t, t = ToLower(s)
  PROVE  t \in Words /\ Host(t) /\ ToLower(unbracketed(s)) = unbracketed(t)
<1>0. Len(s) \in Nat
  BY DEF Words
<1>1. /\ t \in Words /\ Len(t) = Len(s)
      /\ \A i \in 1..Len(s) : t[i] = IF s[i] = "A" THEN "a" ELSE s[i]
  BY Lower
<1>2. \A i \in 1..Len(s) : /\ t[i] = ":" <=> s[i] = ":"
                           /\ t[i] = "[" <=> s[i] = "["
                           /\ t[i] = "]" <=> s[i] = "]"
                           /\ t[i] = " " <=> s[i] = " "
  BY <1>1
<1>3. CASE Plain(s)
  <2>1. Plain(t)
    BY <1>1, <1>2, <1>3 DEF Plain
  <2>2. unbracketed(s) = s /\ unbracketed(t) = t
    BY <1>1, <1>3, <2>1, PlainUnbracketed DEF Plain
  <2> QED BY <1>1, <2>1, <2>2 DEF Host
<1>4. CASE Bracketed(s)
  <2>0. Len(s) > 2 /\ 1 \in 1..Len(s) /\ Len(s) \in 1..Len(s) /\ s[1] = "[" /\ s[Len(s)] = "]"
    <3>1. Len(s) > 2 /\ s[1] = "[" /\ s[Len(s)] = "]"
      BY <1>4, Zenon DEF Bracketed
    <3> QED BY <1>0, <3>1
  <2>1. Bracketed(t)
    <3>1. t[1] = "[" /\ t[Len(t)] = "]" /\ Len(t) > 2
      BY <1>1, <1>2, <2>0
    <3>2. \A i \in 1..Len(t) : i # 1 /\ i # Len(t) => t[i] \notin {"[", "]", " "}
      BY <1>1, <1>2, <1>4 DEF Bracketed
    <3>3. \E i \in 1..Len(t) : i # 1 /\ i # Len(t) /\ t[i] = ":"
      BY <1>1, <1>2, <1>4, Zenon DEF Bracketed
    <3> QED BY <3>1, <3>2, <3>3, Zenon DEF Bracketed
  <2>2. PICK u, v : u = unbracketed(s) /\ v = unbracketed(t)
    OBVIOUS
  <2>l. PICK l : l = ToLower(u)
    OBVIOUS
  <2>3. u \in Words /\ Len(u) = Len(s) - 2 /\ \A i \in 1..Len(u) : u[i] = s[i + 1]
    BY <1>4, <2>2, BracketsTrimmed
  <2>4. v \in Words /\ Len(v) = Len(t) - 2 /\ \A i \in 1..Len(v) : v[i] = t[i + 1]
    BY <1>1, <2>1, <2>2, BracketsTrimmed
  <2>5. /\ l \in Words /\ Len(l) = Len(u)
        /\ \A i \in 1..Len(u) : l[i] = IF u[i] = "A" THEN "a" ELSE u[i]
    <3>1. u \in Words
      BY <2>3
    <3> QED BY <2>l, <3>1, Lower
  <2>6. Len(l) = Len(v)
    BY <1>1, <2>3, <2>4, <2>5
  <2>7. ASSUME NEW i \in 1..Len(l) PROVE l[i] = v[i]
    <3>1. i \in 1..Len(u) /\ i \in 1..Len(v) /\ i + 1 \in 1..Len(s)
      BY <1>0, <2>0, <2>3, <2>5, <2>6
    <3> QED BY <1>1, <2>3, <2>4, <2>5, <3>1
  <2>8. l = v
    BY <2>4, <2>5, <2>6, <2>7, SameWord
  <2> QED BY <1>1, <2>1, <2>2, <2>8, <2>l DEF Host
<1> QED BY <1>3, <1>4 DEF Host

(***************************************************************************)
(* strings.TrimSpace yields a word, the same one if it has no blank.       *)
(***************************************************************************)
LEMMA Trimmed ==
  ASSUME NEW s \in Words, NEW t, t = TrimSpace(s)
  PROVE  t \in Words /\ ((\A i \in 1..Len(s) : s[i] # " ") => t = s)
<1>0. Len(s) \in Nat /\ DOMAIN s = 1..Len(s) /\ \A i \in 1..Len(s) : s[i] \in Symbols
  BY DEF Words
<1> DEFINE K == {i \in 1..Len(s) : s[i] # " "}
<1>1. t = IF K = {} THEN <<>> ELSE SubSeq(s, Min(K), Max(K))
  BY <1>0 DEF TrimSpace
<1>2. K \subseteq 1..Len(s) /\ K \subseteq Nat
  <2>1. K \subseteq 1..Len(s)
    OBVIOUS
  <2>2. 1..Len(s) \subseteq Nat
    BY <1>0
  <2> QED BY <2>1, <2>2
<1>k. (\A i \in 1..Len(s) : s[i] # " ") => K = 1..Len(s)
  OBVIOUS
<1> HIDE DEF K
<1>3. CASE K = {}
  <2>1. t \in Words /\ t = <<>>
    BY <1>1, <1>3, EmptySeq DEF Words
  <2>2. (\A i \in 1..Len(s) : s[i] # " ") => Len(s) = 0
    <3>1. 1..Len(s) = {} => Len(s) = 0
      BY <1>0
    <3> QED BY <1>3, <1>k, <3>1
  <2>3. Len(s) = 0 => s = <<>>
    BY DEF Words
  <2> QED BY <2>1, <2>2, <2>3
<1>4. CASE K # {}
  <2>1. PICK m, n : m = Min(K) /\ n = Max(K)
    OBVIOUS
  <2>2. m \in K /\ \A i \in K : m <= i
    BY <1>2, <1>4, <2>1, LeastPosition
  <2>3. n \in K /\ \A i \in K : i <= n
    BY <1>0, <1>2, <1>4, <2>1, GreatestPosition
  <2>4. m \in 1..Len(s) /\ n \in 1..Len(s)
    BY <1>2, <2>2, <2>3
  <2>5. m \in Int /\ n \in Int /\ \A i \in m..n : s[i] \in Symbols
    BY <1>0, <2>4
  <2>6. t = SubSeq(s, m, n)
    BY <1>1, <1>4, <2>1
  <2>7. t \in Words
    BY <2>5, <2>6, SubSeqProperties DEF Words
  <2>8. ASSUME \A i \in 1..Len(s) : s[i] # " " PROVE t = s
    <3>1. K = 1..Len(s)
      BY <1>k, <2>8
    <3>2. m = 1 /\ n = Len(s)
      <4>1. 1 \in K /\ Len(s) \in K
        BY <1>0, <2>4, <3>1
      <4>2. m <= 1 /\ Len(s) <= n
        BY <2>2, <2>3, <4>1
      <4>3. m \in Int /\ n \in Int /\ Len(s) \in Int /\ 1 <= m /\ n <= Len(s)
        BY <1>0, <2>4
      <4> QED BY <4>2, <4>3
    <3> QED BY <2>6, <3>2, SubSeqFull DEF Words
  <2> QED BY <2>7, <2>8
<1> QED BY <1>3, <1>4

(***************************************************************************)
(* A header that is written as it should be: a host, then perhaps a colon  *)
(* and digits.  It has no blank, and withoutPort leaves its host.          *)
(***************************************************************************)
LEMMA WellWritten ==
  ASSUME NEW t \in Words, NEW k \in 1..Len(t), NEW part, part = SubSeq(t, 1, k), Host(part),
         isPort(SubSeq(t, Len(part) + 1, Len(t)))
  PROVE  part \in Words /\ withoutPort(t) = part /\ \A i \in 1..Len(t) : t[i] # " "
<1>0. Len(t) \in Nat /\ k \in Nat /\ k > 0 /\ k \in 0..Len(t)
  BY DEF Words
<1>1. part \in Words /\ Len(part) = k /\ \A i \in 1..k : part[i] = t[i]
  BY <1>0, Beginning
<1>2. PICK p : p = SubSeq(t, k + 1, Len(t))
  OBVIOUS
<1>3. p \in Words /\ Len(p) = Len(t) - k /\ \A i \in 1..Len(t) - k : p[i] = t[k + i]
  BY <1>0, <1>2, End, ZenonT(30)
<1>4. isPort(p)
  BY <1>1, <1>2
<1>5. ASSUME NEW i \in 1..k PROVE t[i] # " "
  <2>1. CASE Plain(part)
    BY <1>1, <2>1 DEF Plain
  <2>2. CASE Bracketed(part)
    <3>1. part[1] = "[" /\ part[k] = "]"
      BY <1>1, <2>2, Zenon DEF Bracketed
    <3>2. i # 1 /\ i # k => part[i] # " "
      BY <1>1, <2>2, Zenon DEF Bracketed
    <3> QED BY <1>1, <3>1, <3>2
  <2> QED BY <2>1, <2>2 DEF Host
<1>6. ASSUME p # <<>>
      PROVE  t[k + 1] = ":" /\ \A i \in 1..Len(t) : i > k + 1 => t[i] = "1"
  <2>1. Len(p) > 0 /\ p \in Seq(Symbols) /\ Head(p) = ":" /\ Head(p) = p[1]
    BY <1>3, <1>4, <1>6 DEF isPort, Words
  <2>2. /\ Tail(p) \in Seq(Symbols) /\ Len(Tail(p)) = Len(p) - 1
        /\ \A i \in 1..Len(Tail(p)) : Tail(p)[i] = p[i + 1]
    BY <1>6, <2>1, HeadTailProperties
  <2>3. \A i \in 1..Len(Tail(p)) : Tail(p)[i] = "1"
    <3>1. Range(Tail(p)) \subseteq {"1"}
      BY <1>4, <1>6 DEF isPort
    <3>2. DOMAIN Tail(p) = 1..Len(Tail(p))
      BY <2>2
    <3> QED BY <3>1, <3>2 DEF Range
  <2>4. t[k + 1] = ":"
    BY <1>0, <1>3, <2>1
  <2>5. ASSUME NEW i \in 1..Len(t), i > k + 1 PROVE t[i] = "1"
    <3>1. /\ i - k - 1 \in 1..Len(Tail(p)) /\ (i - k - 1) + 1 = i - k
          /\ i - k \in 1..Len(t) - k /\ k + (i - k) = i
      BY <1>0, <1>3, <2>2, <2>5
    <3>2. Tail(p)[i - k - 1] = p[i - k] /\ p[i - k] = t[i]
      BY <1>3, <2>2, <3>1
    <3> QED BY <2>3, <3>1, <3>2
  <2> QED BY <2>4, <2>5
<1>7. p = <<>> <=> k = Len(t)
  BY <1>0, <1>3 DEF Words
<1>8. \A i \in 1..Len(t) : t[i] # " "
  <2> TAKE i \in 1..Len(t)
  <2>1. i \in 1..k \/ i = k + 1 \/ i > k + 1
    BY <1>0
  <2>2. i > k => p # <<>>
    BY <1>0, <1>7
  <2>3. i = k + 1 \/ i > k + 1 => i > k
    BY <1>0
  <2> QED BY <1>5, <1>6, <2>1, <2>2, <2>3
<1>9. PICK c : c = LastIndex(t, ":")
  OBVIOUS
<1>10. \/ c = 0 /\ \A j \in 1..Len(t) : t[j] # ":"
       \/ c \in 1..Len(t) /\ t[c] = ":" /\ \A j \in 1..Len(t) : t[j] = ":" => j <= c
  BY <1>9, LastColonIsLast
<1>11. CASE p = <<>>
  <2>1. part = t
    BY <1>7, <1>11, SubSeqFull DEF Words
  <2>2. Plain(part) => c = 0
    BY <1>10, <2>1 DEF Plain
  <2>3. Bracketed(part) => HasSuffix(t, "]")
    <3>1. t # <<>>
      BY <1>0
    <3> QED BY <2>1, <3>1, Zenon DEF Bracketed, HasSuffix
  <2>4. ~(c > 0 /\ ~HasSuffix(t, "]"))
    BY <2>2, <2>3 DEF Host
  <2>5. withoutPort(t) = t
    BY <1>9, <2>4 DEF withoutPort
  <2> QED BY <1>1, <1>8, <2>1, <2>5
<1>12. CASE p # <<>>
  <2>1. /\ t[k + 1] = ":" /\ k + 1 \in 1..Len(t)
        /\ \A i \in 1..Len(t) : i > k + 1 => t[i] = "1"
    BY <1>0, <1>6, <1>7, <1>12
  <2>2. c \in 1..Len(t) /\ t[c] = ":" /\ k + 1 <= c
    BY <1>10, <2>1
  <2>3. c = k + 1
    <3>1. ~(c > k + 1)
      BY <2>1, <2>2
    <3> QED BY <1>0, <2>2, <3>1
  <2>4. \A i \in 1..Len(t) : i >= k + 1 => t[i] # "]"
    <3> SUFFICES ASSUME NEW i \in 1..Len(t), i >= k + 1 PROVE t[i] # "]"
      OBVIOUS
    <3>1. i = k + 1 \/ i > k + 1
      BY <1>0
    <3> QED BY <2>1, <3>1
  <2>5. ~HasSuffix(t, "]")
    <3>1. Len(t) \in 1..Len(t) /\ Len(t) >= k + 1
      BY <1>0, <2>1
    <3> QED BY <2>4, <3>1 DEF HasSuffix
  <2>6. PICK u : u = SubSeq(t, c + 1, Len(t))
    OBVIOUS
  <2>7. c \in 0..Len(t)
    BY <1>0, <2>2
  <2>8. u \in Words /\ Len(u) = Len(t) - c /\ \A i \in 1..Len(t) - c : u[i] = t[c + i]
    BY <2>6, <2>7, End
  <2>9. "]" \notin Range(u)
    <3>0. DOMAIN u = 1..Len(u)
      BY <2>8 DEF Words
    <3> SUFFICES ASSUME NEW i \in 1..Len(u) PROVE u[i] # "]"
      BY <3>0 DEF Range
    <3>1. i \in 1..Len(t) - c /\ c + i \in 1..Len(t) /\ c + i >= k + 1
      BY <1>0, <2>3, <2>8
    <3>2. u[i] = t[c + i]
      BY <2>8, <3>1
    <3> QED BY <2>4, <3>1, <3>2
  <2>10. c > 0 /\ c - 1 = k
    BY <1>0, <2>3
  <2>11. withoutPort(t) = SubSeq(t, 1, c - 1)
    BY <1>9, <2>5, <2>6, <2>9, <2>10 DEF withoutPort
  <2> QED BY <1>1, <1>8, <2>10, <2>11
<1> QED BY <1>11, <1>12

(***************************************************************************)
(* The first k symbols of t are a host, the others a port.                 *)
(***************************************************************************)
HostAndPort(t, k, part) ==
  /\ k \in 1..Len(t) /\ part = SubSeq(t, 1, k) /\ Host(part)
  /\ isPort(SubSeq(t, Len(part) + 1, Len(t)))

(***************************************************************************)
(* hostMatches on such a header and the host of an origin compares hosts.  *)
(***************************************************************************)
LEMMA MatchesItsHost ==
  ASSUME NEW hdr \in Words, NEW k, NEW part, HostAndPort(ToLower(hdr), k, part),
         NEW o \in Words, Host(o)
  PROVE  hostMatches(hdr, ToLower(unbracketed(o))) <=> part = ToLower(o)
<1>0. PICK t : t = ToLower(hdr)
  OBVIOUS
<1>1. /\ t \in Words /\ Len(t) = Len(hdr)
      /\ \A i \in 1..Len(hdr) : t[i] = IF hdr[i] = "A" THEN "a" ELSE hdr[i]
  BY <1>0, Lower
<1>2. part \in Words /\ withoutPort(t) = part /\ \A i \in 1..Len(t) : t[i] # " "
  BY <1>0, <1>1, WellWritten DEF HostAndPort
<1>3. \A i \in 1..Len(hdr) : hdr[i] # " "
  BY <1>1, <1>2
<1>4. TrimSpace(hdr) = hdr
  BY <1>3, Trimmed
<1>5. PICK l : l = ToLower(o)
  OBVIOUS
<1>6. l \in Words /\ Host(l) /\ ToLower(unbracketed(o)) = unbracketed(l)
  BY <1>5, LowerHost
<1>7. PICK u : u = unbracketed(l)
  OBVIOUS
<1>8. u \in Words /\ \A i \in 1..Len(u) : u[i] \notin {"[", "]"}
  BY <1>6, <1>7, HostUnbracketed
<1>9. unbracketed(u) = u
  BY <1>8, PlainUnbracketed
<1>10. t # <<>>
  BY <1>0 DEF HostAndPort
<1>11. hostMatches(hdr, u) <=> unbracketed(part) = u
  BY <1>0, <1>2, <1>4, <1>9, <1>10 DEF hostMatches
<1>12. Host(part)
  BY DEF HostAndPort
<1>13. unbracketed(part) = u <=> part = l
  BY <1>2, <1>6, <1>7, <1>12, SameHost
<1> QED BY <1>5, <1>6, <1>7, <1>11, <1>13

(***************************************************************************)
(* What the theorems on the Host check assume of Configuration.Origins:    *)
(* every list has an origin whose URL has a host, and a host is a name or  *)
(* an address in brackets.  EnsureSession checks no header without one.    *)
(***************************************************************************)
OriginsWritten ==
  \A list \in OriginLists :
    /\ \E o \in list : o.host # <<>>
    /\ \A o \in list : o.host = <<>> \/ isName(o.host) \/ isAddress(o.host)

(***************************************************************************)
(* The inductive invariant: a verdict is that of hostMatchesAny on the     *)
(* header of the request.                                                  *)
(***************************************************************************)
HostsInv ==
  /\ origins \in OriginLists
  /\ verdict # "none" =>
       /\ header \in Headers
       /\ verdict = IF /\ EnforceHostHeader /\ originHostnames(origins) # {}
                       /\ ~hostMatchesAny(header, originHostnames(origins))
                    THEN "refused" ELSE "passed"

(***************************************************************************)
(* EnsureSession and the end of a request keep it.                         *)
(***************************************************************************)
LEMMA VerdictHolds == HostsSpec => []HostsInv
<1>1. HostsInit => HostsInv
  BY DEF HostsInit, HostsInv
<1>2. HostsInv /\ [HostsNext]_hostVars => HostsInv'
  <2> SUFFICES ASSUME HostsInv, [HostsNext]_hostVars PROVE HostsInv'
    OBVIOUS
  <2>1. ASSUME NEW hdr \in Headers, EnsureSession(hdr) PROVE HostsInv'
    <3>1. header' = hdr /\ origins' = origins
      BY <2>1 DEF EnsureSession
    <3>2. verdict' = IF /\ EnforceHostHeader /\ originHostnames(origins) # {}
                        /\ ~hostMatchesAny(hdr, originHostnames(origins))
                     THEN "refused" ELSE "passed"
      BY <2>1, Zenon DEF EnsureSession
    <3> QED BY <3>1, <3>2 DEF HostsInv
  <2>2. CASE EndRequest
    BY <2>2 DEF EndRequest, HostsInv
  <2>3. CASE UNCHANGED hostVars
    BY <2>3 DEF hostVars, HostsInv
  <2> QED BY <2>1, <2>2, <2>3 DEF HostsNext
<1> QED BY <1>1, <1>2, PTL DEF HostsSpec

(***************************************************************************)
(* The hosts of the origins: what a header is compared with.               *)
(***************************************************************************)
LEMMA OriginHosts ==
  ASSUME OriginsWritten, NEW list \in OriginLists
  PROVE  /\ originHostnames(list) # {}
         /\ \A name \in originHostnames(list) :
              \E o \in list : o.host # <<>> /\ name = ToLower(unbracketed(o.host))
         /\ \A o \in list : o.host # <<>> =>
              /\ o.host \in Words /\ Host(o.host)
              /\ ToLower(unbracketed(o.host)) \in originHostnames(list)
<1>1. \A o \in list : o.host \in Words
  BY HostsAssumption DEF Words
<1>2. \A o \in list : o.host # <<>> => Host(o.host)
  BY <1>1, NameIsPlain, AddressIsBracketed DEF OriginsWritten, Host
<1>3. PICK o \in list : o.host # <<>>
  BY DEF OriginsWritten
<1>4. \A p \in list : p.host # <<>> => ToLower(unbracketed(p.host)) \in originHostnames(list)
  BY DEF originHostnames
<1>5. \A name \in originHostnames(list) :
        \E p \in list : p.host # <<>> /\ name = ToLower(unbracketed(p.host))
  BY DEF originHostnames
<1> QED BY <1>1, <1>2, <1>3, <1>4, <1>5

(***************************************************************************)
(* hostMatches ignores "case and any port" and nothing else: for headers   *)
(* and hosts of any length, a header that is written as it should be       *)
(* passes EnsureSession exactly if its host is that of an origin.          *)
(***************************************************************************)
THEOREM HostCheckExact ==
  ASSUME OriginsWritten
  PROVE  HostsSpec => []HostCheckIsExact
<1>1. HostsInv => HostCheckIsExact
  <2> SUFFICES ASSUME HostsInv, verdict # "none", EnforceHostHeader,
                      NEW part \in hostParts(ToLower(header))
               PROVE  (verdict = "passed")
                        <=> \E o \in origins : o.host # <<>> /\ part = ToLower(o.host)
    BY DEF HostCheckIsExact
  <2>1. header \in Words /\ origins \in OriginLists
    BY HostsAssumption DEF HostsInv, Words
  <2>2. PICK names : names = originHostnames(origins)
    OBVIOUS
  <2>3. /\ names # {}
        /\ \A name \in names :
             \E o \in origins : o.host # <<>> /\ name = ToLower(unbracketed(o.host))
        /\ \A o \in origins : o.host # <<>> =>
             o.host \in Words /\ Host(o.host) /\ ToLower(unbracketed(o.host)) \in names
    BY <2>1, <2>2, OriginHosts
  <2>4. verdict = "passed" <=> \E name \in names : hostMatches(header, name)
    <3>1. verdict = IF names # {} /\ ~hostMatchesAny(header, names) THEN "refused" ELSE "passed"
      BY <2>2 DEF HostsInv
    <3>2. hostMatchesAny(header, names) <=> \E name \in names : hostMatches(header, name)
      BY DEF hostMatchesAny
    <3> QED BY <2>3, <3>1, <3>2
  <2>5. PICK t : t = ToLower(header)
    OBVIOUS
  <2>6. t \in Words /\ DOMAIN t = 1..Len(t)
    <3>1. t \in Words
      BY <2>1, <2>5, Lower
    <3> QED BY <3>1 DEF Words
  <2>7. PICK k \in 1..Len(t) : part = SubSeq(t, 1, k)
    BY <2>5, <2>6 DEF hostParts
  <2>8. isPort(SubSeq(t, Len(part) + 1, Len(t))) /\ (isName(part) \/ isAddress(part))
    BY <2>5 DEF hostParts
  <2>9. part \in Words
    <3>1. k \in 0..Len(t)
      BY <2>6
    <3> QED BY <2>6, <2>7, <3>1, Beginning
  <2>10. Host(part)
    BY <2>8, <2>9, NameIsPlain, AddressIsBracketed DEF Host
  <2>11. \A o \in origins : o.host # <<>> =>
           (hostMatches(header, ToLower(unbracketed(o.host))) <=> part = ToLower(o.host))
    <3> SUFFICES ASSUME NEW o \in origins, o.host # <<>>
                 PROVE  hostMatches(header, ToLower(unbracketed(o.host)))
                          <=> part = ToLower(o.host)
      OBVIOUS
    <3>1. PICK g \in Words : g = o.host /\ Host(g)
      BY <2>3
    <3>2. PICK hd \in Words : hd = header
      BY <2>1
    <3>3. HostAndPort(ToLower(hd), k, part)
      BY <2>5, <2>7, <2>8, <2>10, <3>2 DEF HostAndPort
    <3>4. hostMatches(hd, ToLower(unbracketed(g))) <=> part = ToLower(g)
      BY <3>1, <3>3, MatchesItsHost
    <3> QED BY <3>1, <3>2, <3>4
  <2> QED BY <2>3, <2>4, <2>11
<1> QED BY <1>1, VerdictHolds, PTL

(***************************************************************************)
(* Whatever is sent, and however long: a header that passes EnsureSession  *)
(* begins with the host of an origin and has nothing but a bracket and a   *)
(* port behind it.                                                         *)
(***************************************************************************)
THEOREM PassedHostIsAnOrigin ==
  ASSUME OriginsWritten
  PROVE  HostsSpec => []PassedNamesAnOrigin
<1>1. HostsInv => PassedNamesAnOrigin
  <2> DEFINE hdr == TrimPrefix(ToLower(TrimSpace(header)), "[")
             rest(name) == TrimPrefix(SubSeq(hdr, Len(name) + 1, Len(hdr)), "]")
  <2> SUFFICES ASSUME HostsInv, verdict = "passed", EnforceHostHeader
               PROVE  \E name \in originHostnames(origins) :
                        /\ HasPrefix(hdr, name)
                        /\ \/ rest(name) = <<>>
                           \/ /\ Head(rest(name)) = ":"
                              /\ Range(Tail(rest(name))) \cap {":", "]"} = {}
    BY DEF PassedNamesAnOrigin
  <2>1. header \in Words /\ origins \in OriginLists
    BY HostsAssumption DEF HostsInv, Words
  <2>2. PICK name \in originHostnames(origins) : hostMatches(header, name)
    <3>1. originHostnames(origins) # {}
      BY <2>1, OriginHosts
    <3>2. hostMatchesAny(header, originHostnames(origins))
      BY <3>1 DEF HostsInv
    <3> QED BY <3>2 DEF hostMatchesAny
  <2>3. PICK o \in origins : /\ name = ToLower(unbracketed(o.host))
                             /\ o.host \in Words /\ Host(o.host)
    BY <2>1, OriginHosts
  <2>4. PICK l : l = ToLower(o.host)
    OBVIOUS
  <2>5. l \in Words /\ Host(l) /\ name = unbracketed(l)
    BY <2>3, <2>4, LowerHost
  <2>6. name \in Words /\ name # <<>> /\ \A i \in 1..Len(name) : name[i] \notin {"[", "]"}
    BY <2>5, HostUnbracketed
  <2>7. unbracketed(name) = name
    BY <2>6, PlainUnbracketed
  <2>8. PICK s : s = TrimSpace(header)
    OBVIOUS
  <2>9. s \in Words
    BY <2>1, <2>8, Trimmed
  <2>10. PICK t : t = ToLower(s)
    OBVIOUS
  <2>11. t \in Words
    BY <2>9, <2>10, Lower
  <2>12. unbracketed(withoutPort(t)) = name
    BY <2>2, <2>7, <2>8, <2>10 DEF hostMatches
  <2>13. hdr = TrimPrefix(t, "[")
    BY <2>8, <2>10
  <2> HIDE DEF hdr
  <2>14. PICK r : r = rest(name)
    OBVIOUS
  <2>15. /\ HasPrefix(hdr, name)
         /\ r = <<>> \/ (Head(r) = ":" /\ Range(Tail(r)) \cap {":", "]"} = {})
    BY <2>6, <2>11, <2>12, <2>13, <2>14, MatchShape
  <2> QED BY <2>2, <2>14, <2>15
<1> QED BY <1>1, VerdictHolds, PTL

============================================================================
