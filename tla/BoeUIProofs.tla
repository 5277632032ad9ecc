----------------------------- MODULE BoeUIProofs -----------------------------
(***************************************************************************)
(* boe processes and the web UI, for any number of processes and faults,   *)
(* any registry, local trees and command lines: the ext_proc servers of a  *)
(* run are tied to it, the Envoy version boe picks is one its extensions   *)
(* support, and only late starts escape the UI.                            *)
(*                                                                         *)
(* A step changes one process (Moves) and of the others no more than what  *)
(* they know to be written over; each step is shown to keep what ProcInv   *)
(* says of the process it changes.                                         *)
(***************************************************************************)
EXTENDS BoeUI, WellFoundedInduction, TLAPS

ProcFields == {"pc", "cmd", "at", "art", "root", "m", "exts", "version", "conf", "opens", "srv",
               "dbg", "torn", "clobbered", "tmp", "term", "crashed"}
IsProc(p) == p = [f \in ProcFields |-> p[f]]

(* Servers have the three fields of Server. *)
ServersTyped(srv) ==
    /\ DOMAIN srv \subseteq Nat /\ srv = [i \in DOMAIN srv |-> srv[i]]
    /\ \A i \in DOMAIN srv : srv[i] = [f \in {"slot", "port", "st"} |-> srv[i][f]]

Manifested(exts) == exts \in Seq(Range(exts)) /\ \A m \in Range(exts) : IsManifest(m)

Preparing == {"next", "pulling", "build", "copying", "lite", "lite-pulling", "lite-src", "host"}
Early == Preparing \cup {"idle", "docker", "container", "rendered", "exported"}
Serving == {"servers", "waiting", "delve", "launch", "envoy"}

(* What PickedVersionSupported says, of one process, from the rendered       *)
(* configuration on.                                                         *)
VersionFits(p) ==
    IF p.version = Unset
    THEN \A m \in Ext(p) : m.min = Unset /\ m.max = Unset
    ELSE \A m \in Ext(p) : SupportsEnvoyVersion(m, p.version)

NothingLeft(p) ==
    /\ \A i \in DOMAIN p.srv : p.srv[i].st # "up"
    /\ p.dbg \notin {"up", "term"}
    /\ ~p.tmp

ProcInv(p) ==
    /\ IsProc(p) /\ ServersTyped(p.srv)
    /\ p.pc \in Early => p.srv = <<>>
    /\ (p.pc = "ended" /\ ~p.crashed) => NothingLeft(p)
    /\ IsManifest(p.m) /\ IsManifest(p.root) /\ IsArtifact(p.art)
    /\ p.pc \in Preparing \cup {"rendered"} => Manifested(p.exts)
    /\ (p.pc \in Serving \cup {"rendered", "exported"} /\ p.cmd.envoy = Unset) => VersionFits(p)

(* Server i of process r, when that is p and the others are as in P, is up   *)
(* or due, or shares its port.                                               *)
Excused(P, r, p, i) ==
    \/ \E j \in DOMAIN p.srv : j # i /\ p.srv[j].port = p.srv[i].port
    \/ \E q \in Runs \ {r} : \E j \in DOMAIN P[q].srv : P[q].srv[j].port = p.srv[i].port

Serves(P, r, p) ==
    (p.pc \in Serving /\ ~p.term) =>
        \A i \in DOMAIN p.srv :
            \/ p.srv[i].st = "up"
            \/ p.srv[i].st = "none" /\ p.pc \in {"servers", "waiting"}
            \/ Excused(P, r, p, i)

ReqFields == {"pc", "cmd", "cancelled", "late"}

(* Request q, numbered r, whose process is p.  Before its Start and after,   *)
(* it is the registered one, or was replaced too early.                      *)
ReqOK(q, p, run, r) ==
    /\ q = [f \in ReqFields |-> q[f]]
    /\ q.pc = "registered" => p.pc = "idle" /\ (~q.cancelled => run = r \/ q.late)
    /\ (q.pc = "streaming" /\ p.pc \notin {"idle", "ended"} /\ ~p.term) => run = r \/ q.late

Shape == proc = [r \in Runs |-> proc[r]] /\ \A r \in Runs : ProcInv(proc[r])

ProcsInv ==
    /\ faults \in Nat /\ Shape
    /\ \A r \in Runs : faults = 0 => Serves(proc, r, proc[r])

(* The inductive invariant. *)
BoeInv ==
    /\ ProcsInv
    /\ running \in Runs \cup {None}
    /\ req = [r \in Runs |-> req[r]]
    /\ \A r \in Runs : ReqOK(req[r], proc[r], running, r)

-------------------------------------------------------------------------------
(* Manifests: every operation on them keeps their fields and versions. *)

LEMMA Fields ==
    /\ DOMAIN Blank = {"name", "type", "parent", "version", "composerVersion", "min", "max",
                       "filterTypes", "cshared", "debug", "set", "before", "after", "port",
                       "remote", "path"}
    /\ DOMAIN Missing = {"manifest", "kind", "here", "dev", "children", "composer"}
    /\ IsManifest(Blank) /\ IsArtifact(Missing)
<1>1. DOMAIN Blank = {"name", "type", "parent", "version", "composerVersion", "min", "max",
                      "filterTypes", "cshared", "debug", "set", "before", "after", "port",
                      "remote", "path"}
  BY Zenon DEF Blank
<1>2. DOMAIN Missing = {"manifest", "kind", "here", "dev", "children", "composer"}
  BY Zenon DEF Missing
<1>3. Blank.min \in Nat /\ Blank.max \in Nat
  BY DEF Blank, Unset
<1>4. Blank = [f \in DOMAIN Blank |-> Blank[f]]
  BY Zenon DEF Blank
<1>5. Missing = [f \in DOMAIN Missing |-> Missing[f]]
  BY Zenon DEF Missing
<1>6. Missing.children = {} /\ Missing.manifest = Blank /\ Missing.composer = Blank
  BY Zenon DEF Missing
<1> QED  BY Zenon, <1>1, <1>2, <1>3, <1>4, <1>5, <1>6 DEF IsManifest, IsArtifact

LEMMA OrNat == ASSUME NEW a \in Nat, NEW b \in Nat PROVE Or(a, b) \in Nat
  BY Zenon DEF Or

LEMMA ImplicitMax == ASSUME NEW m, IsManifest(m) PROVE IsManifest(WithImplicitMax(m))
<1>1. ImplicitMaxEnvoyVersion(m.min) \in Nat
  BY DEF IsManifest, ImplicitMaxEnvoyVersion
<1>2. IsManifest([m EXCEPT !.max = ImplicitMaxEnvoyVersion(m.min)])
  BY Zenon, <1>1, Fields DEF IsManifest
<1> QED  BY Zenon, <1>2 DEF WithImplicitMax

LEMMA Defaults == ASSUME NEW m, IsManifest(m) PROVE IsManifest(ApplyDefaults(m))
<1>1. IsManifest([m EXCEPT !.filterTypes = IF @ = <<>> THEN <<"http">> ELSE @])
  BY Zenon, Fields DEF IsManifest
<1> QED  BY Zenon, <1>1, ImplicitMax DEF ApplyDefaults

LEMMA Inherits ==
    ASSUME NEW m, IsManifest(m), NEW parent, IsManifest(parent)
    PROVE  IsManifest(ResolveVersionsWithParent(m, parent))
<1> DEFINE x == [m EXCEPT !.version = Or(@, parent.version),
                          !.composerVersion = Or(@, parent.version),
                          !.min = Or(@, parent.min),
                          !.max = Or(@, parent.max)]
<1>1. /\ x = [f \in DOMAIN Blank |-> x[f]]
      /\ x.min = Or(m.min, parent.min) /\ x.max = Or(m.max, parent.max)
  BY Zenon, Fields DEF IsManifest
<1>2. IsManifest(x)
  <2> HIDE DEF x
  <2> QED  BY Zenon, <1>1, OrNat DEF IsManifest
<1> QED  BY Zenon, <1>2, ImplicitMax DEF ResolveVersionsWithParent

LEMMA Merges ==
    ASSUME NEW m, IsManifest(m), NEW root, IsManifest(root)
    PROVE  IsManifest(mergeManifestFromRoot(m, root))
<1> DEFINE x == mergeManifestFromRoot(m, root)
<1>1. /\ x = [f \in DOMAIN Blank |-> x[f]]
      /\ x.min = Or(m.min, root.min) /\ x.max = Or(m.max, root.max)
  BY Zenon, Fields DEF IsManifest, mergeManifestFromRoot
<1> HIDE DEF x
<1> QED  BY Zenon, <1>1, OrNat DEF IsManifest, x

(* An artifact of the registry, or the one that stands for none. *)
LEMMA Fetched == \A repository, tag : IsArtifact(FetchManifest(repository, tag))
  BY Zenon, ManifestsAssumption, Fields DEF FetchManifest

LEMMA Found == \A repository, version : IsArtifact(download(repository, version))
<1> TAKE repository, version
<1> DEFINE tag == IF version # Unset \/ repository \notin DOMAIN Registry THEN version
                  ELSE getLatestTag(repository)
           binary == FetchManifest(repository, tag)
           m == ManifestFromOCI(binary.manifest)
           source == FetchManifest(SourceRepositoryName(m), IF m.type = "go" THEN m.composerVersion ELSE tag)
<1>1. IsArtifact(binary) /\ IsArtifact(source)
  BY Zenon, Fetched
<1>2. download(repository, version) = IF binary.kind = "none" \/ binary.here THEN binary ELSE source
  BY Zenon DEF download
<1> HIDE DEF binary, source
<1> QED  BY Zenon, <1>1, <1>2

LEMMA Resolved ==
    ASSUME NEW a, IsArtifact(a), NEW bundle, NEW name
    PROVE  IsManifest(ResolveExtensionManifest(a, bundle, name).manifest)
<1> DEFINE root == ApplyDefaults(a.manifest)
           found == {child \in a.children : child.name = name}
           child == CHOOSE c \in found : TRUE
           m == IF root.name = name
                THEN IF a.composer = Blank THEN root
                     ELSE ResolveVersionsWithParent(root, ApplyDefaults(a.composer))
                ELSE IF found = {} THEN Blank
                ELSE mergeManifestFromRoot(ApplyDefaults(child), root)
<1>1. ResolveExtensionManifest(a, bundle, name).manifest = m
  BY Zenon DEF ResolveExtensionManifest
<1>2. IsManifest(root) /\ IsManifest(ApplyDefaults(a.composer))
  BY Zenon, Defaults DEF IsArtifact
<1>3. found # {} => child \in found
  BY Zenon
<1>4. found # {} => IsManifest(child)
  <2> HIDE DEF child
  <2> QED  BY Zenon, <1>3 DEF IsArtifact
<1> HIDE DEF root, child
<1>5. found # {} => IsManifest(mergeManifestFromRoot(ApplyDefaults(child), root))
  BY Zenon, <1>2, <1>4, Defaults, Merges
<1>6. IsManifest(ResolveVersionsWithParent(root, ApplyDefaults(a.composer)))
  BY Zenon, <1>2, Inherits
<1> HIDE DEF found
<1>7. IsManifest(m)
  BY Zenon, <1>2, <1>5, <1>6, Fields
<1> QED  BY Zenon, <1>1, <1>7

LEMMA Loaded == \A path : IsManifest(LoadLocal(path).manifest) /\ IsManifest(LoadLocal(path).root)
<1> TAKE path
<1> DEFINE l == Locals[path]
           loaded == [ApplyDefaults(l.manifest) EXCEPT !.path = path]
           m == IF loaded.parent # "" THEN ResolveVersionsWithParent(loaded, ApplyDefaults(l.root)) ELSE loaded
           top == IF loaded.parent # "" THEN ApplyDefaults(l.root) ELSE m
<1>1. CASE path \notin DOMAIN Locals
  BY Zenon, <1>1, Fields DEF LoadLocal
<1>2. CASE path \in DOMAIN Locals
  <2>1. IsManifest(ApplyDefaults(l.manifest)) /\ IsManifest(ApplyDefaults(l.root))
    BY Zenon, <1>2, ManifestsAssumption, Defaults
  <2>2. IsManifest(loaded)
    BY Zenon, <2>1, Fields DEF IsManifest
  <2>3. LoadLocalManifest(l.manifest, path).manifest = loaded
    BY Zenon DEF LoadLocalManifest
  <2>4. /\ LoadLocal(path).manifest = m
        /\ LoadLocal(path).root = [top EXCEPT !.cshared = l.main]
    BY Zenon, <1>2, <2>3 DEF LoadLocal
  <2> HIDE DEF loaded
  <2>5. IsManifest(m)
    BY Zenon, <2>1, <2>2, Inherits
  <2> HIDE DEF m
  <2>6. IsManifest(top)
    BY Zenon, <2>1, <2>5
  <2> HIDE DEF top
  <2>7. IsManifest([top EXCEPT !.cshared = l.main])
    BY Zenon, <2>6, Fields DEF IsManifest
  <2> QED  BY Zenon, <2>4, <2>5, <2>7
<1> QED  BY Zenon, <1>1, <1>2

LEMMA Hosts == \A v : \A m \in GetComposerManifest(v) : IsManifest(m)
<1> TAKE v
<1> TAKE m \in GetComposerManifest(v)
<1>1. \E repository : m \in {Blank, ApplyDefaults(FetchManifest(repository, v).manifest)}
  BY Zenon DEF GetComposerManifest
<1>2. \A repository : IsManifest(ApplyDefaults(FetchManifest(repository, v).manifest))
  BY Zenon, Fetched, Defaults DEF IsArtifact
<1> QED  BY Zenon, <1>1, <1>2, Fields

-------------------------------------------------------------------------------
(* The Envoy version that is picked. *)

LEMMA Least ==
    ASSUME NEW S, S \subseteq Nat, S # {}
    PROVE  Min(S) \in S /\ \A y \in S : Min(S) <= y
<1> DEFINE R == OpToRel(<, Nat)
<1>1. \E x \in S : \A y \in S : ~(<<y, x>> \in R)
  <2>1. IsWellFoundedOn(R, Nat)
    BY Zenon, NatLessThanWellFounded
  <2> HIDE DEF R
  <2> QED  BY Zenon, <2>1, WFMin
<1>2. \A x, y \in Nat : <<y, x>> \in R <=> y < x
  BY Zenon DEF OpToRel
<1> HIDE DEF R
<1>3. PICK x \in S : \A y \in S : ~(y < x)
  BY Zenon, <1>1, <1>2
<1>4. \A y \in S : x <= y
  BY <1>3
<1> QED  BY Zenon, <1>4 DEF Min

LEMMA Greatest ==
    ASSUME NEW S, S \subseteq Nat, S # {}, NEW b \in Nat, \A y \in S : y <= b
    PROVE  Max(S) \in S /\ \A y \in S : Max(S) >= y
<1> DEFINE B == {c \in Nat : \A y \in S : y <= c}
           c == Min(B)
<1>1. c \in B /\ \A d \in B : c <= d
  <2>1. B \subseteq Nat /\ B # {}
    OBVIOUS
  <2> HIDE DEF B
  <2> QED  BY Zenon, <2>1, Least
<1>2. c \in Nat /\ \A y \in S : y <= c
  BY Zenon, <1>1
<1>3. \A d \in Nat : (\A y \in S : y <= d) => c <= d
  BY Zenon, <1>1
<1> HIDE DEF c
<1>4. c \in S
  <2> SUFFICES ASSUME c \notin S PROVE FALSE
    OBVIOUS
  <2>1. PICK y : y \in S
    BY Zenon
  <2>2. \A z \in S : z \in Nat /\ z # c /\ z <= c
    BY Zenon, <1>2
  <2>3. \A z \in S : z <= c - 1
    BY <1>2, <2>2
  <2>4. c - 1 \in Nat
    BY <1>2, <2>1, <2>2
  <2>5. c <= c - 1
    BY Zenon, <1>3, <2>3, <2>4
  <2> QED  BY <1>2, <2>5
<1>5. \A y \in S : c >= y
  BY <1>2
<1> QED  BY Zenon, <1>4, <1>5 DEF Max

LEMMA Bounded ==
    ASSUME NEW n \in Nat, NEW f, \A i \in 1..n : f[i] \in Nat
    PROVE  \E b \in Nat : \A i \in 1..n : f[i] <= b
<1> DEFINE Good(k) == \A g : (\A i \in 1..k : g[i] \in Nat) => \E b \in Nat : \A i \in 1..k : g[i] <= b
           Bad == {k \in Nat : ~Good(k)}
<1>1. Good(0)
  OBVIOUS
<1>2. ASSUME NEW k \in Nat, k # 0, Good(k - 1) PROVE Good(k)
  <2> SUFFICES ASSUME NEW g, \A i \in 1..k : g[i] \in Nat
               PROVE  \E b \in Nat : \A i \in 1..k : g[i] <= b
    OBVIOUS
  <2>1. \A i \in 1..(k - 1) : g[i] \in Nat
    BY <1>2
  <2>2. PICK b \in Nat : \A i \in 1..(k - 1) : g[i] <= b
    BY Zenon, <1>2, <2>1
  <2> DEFINE top == IF b <= g[k] THEN g[k] ELSE b
  <2>3. g[k] \in Nat
    BY <1>2
  <2>4. top \in Nat /\ \A i \in 1..k : g[i] <= top
    <3> HIDE DEF Good
    <3> QED  BY <1>2, <2>2, <2>3
  <2> QED  BY Zenon, <2>4
<1>3. Bad = {}
  <2> SUFFICES ASSUME Bad # {} PROVE FALSE
    OBVIOUS
  <2> DEFINE k == Min(Bad)
  <2>1. k \in Bad /\ \A y \in Bad : k <= y
    <3>1. Bad \subseteq Nat
      BY Zenon
    <3> HIDE DEF Bad
    <3> QED  BY Zenon, <3>1, Least
  <2>2. k \in Nat /\ ~Good(k) /\ \A y \in Nat : ~Good(y) => k <= y
    BY Zenon, <2>1
  <2> HIDE DEF k, Good
  <2>3. k # 0 /\ k - 1 \in Nat /\ ~(k <= k - 1)
    BY <1>1, <2>2
  <2> QED  BY Zenon, <1>2, <2>2, <2>3
<1> QED  BY Zenon, <1>3

(* The version picked lies within the bounds of every manifest. *)
LEMMA Picked ==
    ASSUME NEW ms, Manifested(ms), ResolveMinimumCompatibleEnvoyVersion(ms).ok
    PROVE  LET v == ResolveMinimumCompatibleEnvoyVersion(ms).version IN
           IF v = Unset THEN \A m \in Range(ms) : m.min = Unset /\ m.max = Unset
           ELSE \A m \in Range(ms) : SupportsEnvoyVersion(m, v)
<1> DEFINE mins == {ms[i].min : i \in DOMAIN ms} \cup {Unset}
           maxs == {ms[i].max : i \in DOMAIN ms} \ {Unset}
           low == HighestMinEnvoyVersion(ms)
           high == LowestMaxEnvoyVersion(ms)
           v == ResolveMinimumCompatibleEnvoyVersion(ms).version
<1>1. \A i \in DOMAIN ms : ms[i].min \in Nat /\ ms[i].max \in Nat
  BY Zenon DEF Manifested, Range, IsManifest
<1>2. Len(ms) \in Nat /\ DOMAIN ms = 1..Len(ms)
  BY DEF Manifested
<1>3. 0 \in Nat
  OBVIOUS
<1>4. low \in mins /\ \A y \in mins : low >= y
  <2> DEFINE f == [i \in DOMAIN ms |-> ms[i].min]
  <2>1. \A i \in 1..Len(ms) : f[i] \in Nat /\ f[i] = ms[i].min
    BY Zenon, <1>1, <1>2
  <2> HIDE DEF f
  <2>2. PICK b \in Nat : \A i \in 1..Len(ms) : f[i] <= b
    BY Zenon, <1>2, <2>1, Bounded
  <2>3. mins \subseteq Nat /\ mins # {}
    BY Zenon, <1>1, <1>3 DEF Unset
  <2>4. \A y \in mins : y <= b
    <3>1. 0 <= b
      BY <2>2
    <3> QED  BY Zenon, <1>2, <2>1, <2>2, <3>1 DEF Unset
  <2>5. low = Max(mins)
    BY Zenon DEF HighestMinEnvoyVersion
  <2> HIDE DEF low, mins
  <2> QED  BY Zenon, <2>3, <2>4, <2>5, Greatest
<1>5. /\ maxs = {} => high = Unset
      /\ maxs # {} => high \in maxs /\ \A y \in maxs : high <= y
  <2>1. maxs \subseteq Nat
    BY Zenon, <1>1
  <2>2. high = IF maxs = {} THEN Unset ELSE Min(maxs)
    BY Zenon DEF LowestMaxEnvoyVersion
  <2> HIDE DEF high, maxs
  <2> QED  BY Zenon, <2>1, <2>2, Least
<1>6. /\ v = IF low # Unset THEN low ELSE high
      /\ ~(low # Unset /\ high # Unset /\ low > high)
  BY Zenon DEF ResolveMinimumCompatibleEnvoyVersion, Or
<1>7. \A i \in DOMAIN ms : low >= ms[i].min
  BY Zenon, <1>4
<1>8. \A i \in DOMAIN ms : ms[i].max # Unset => high # Unset /\ high <= ms[i].max
  <2> TAKE i \in DOMAIN ms
  <2>1. ms[i].max # Unset => ms[i].max \in maxs
    BY Zenon
  <2>2. Unset \notin maxs /\ (ms[i].max \in maxs => maxs # {})
    BY Zenon
  <2> HIDE DEF maxs, high
  <2> QED  BY Zenon, <1>5, <2>1, <2>2
<1>9. low \in Nat /\ high \in Nat
  BY Zenon, <1>1, <1>3, <1>4, <1>5 DEF Unset
<1> HIDE DEF low, high, v
<1>10. /\ v = Unset => \A i \in DOMAIN ms : ms[i].min = Unset /\ ms[i].max = Unset
       /\ v # Unset => \A i \in DOMAIN ms : /\ ms[i].min # Unset => v >= ms[i].min
                                            /\ ms[i].max # Unset => v <= ms[i].max
  BY <1>1, <1>6, <1>7, <1>8, <1>9 DEF Unset
<1>11. \A m \in Range(ms) : \E i \in DOMAIN ms : m = ms[i]
  BY Zenon DEF Range
<1>12. CASE v = Unset
  BY Zenon, <1>10, <1>11, <1>12 DEF v
<1>13. CASE v # Unset
  <2>1. \A m \in Range(ms) : SupportsEnvoyVersion(m, v)
    BY Zenon, <1>10, <1>11, <1>13 DEF SupportsEnvoyVersion
  <2> QED  BY Zenon, <1>13, <2>1 DEF v
<1> QED  BY Zenon, <1>12, <1>13

(* Putting the manifests in flag order keeps them. *)
LEMMA Sorted ==
    ASSUME NEW positions, NEW ms, Manifested(ms)
    PROVE  Manifested(sort(positions, ms).sorted)
<1> DEFINE Index(f) == {i \in DOMAIN ms : FlagOf(ms[i]) = <<f.kind, f.value>>}
           placed == [p \in DOMAIN ms |->
                        IF p \in DOMAIN positions /\ Index(positions[p]) # {}
                        THEN ms[Min(Index(positions[p]))] ELSE Nil]
<1>1. sort(positions, ms).sorted = placed
  BY Zenon DEF sort
<1>2. Len(ms) \in Nat /\ DOMAIN ms = 1..Len(ms)
  BY DEF Manifested
<1>3. ASSUME NEW f, Index(f) # {} PROVE Min(Index(f)) \in DOMAIN ms
  <2>1. Index(f) \subseteq Nat
    BY <1>2
  <2> DEFINE I == Index(f)
  <2>2. I \subseteq DOMAIN ms
    BY Zenon
  <2>3. I \subseteq Nat /\ I # {}
    BY Zenon, <1>3, <2>1
  <2> HIDE DEF I
  <2>4. Min(I) \in DOMAIN ms
    BY Zenon, <2>2, <2>3, Least
  <2> QED  BY Zenon, <2>4 DEF I
<1>4. IsManifest(Nil)
  BY Zenon, Fields DEF Nil, IsManifest
<1>5. ASSUME NEW p \in DOMAIN ms PROVE IsManifest(placed[p])
  <2>1. CASE p \in DOMAIN positions /\ Index(positions[p]) # {}
    <3>1. Min(Index(positions[p])) \in DOMAIN ms
      BY Zenon, <1>3, <2>1
    <3>2. placed[p] = ms[Min(Index(positions[p]))]
      BY Zenon, <2>1
    <3> HIDE DEF Index, placed
    <3> QED  BY Zenon, <3>1, <3>2 DEF Manifested, Range
  <2>2. CASE ~(p \in DOMAIN positions /\ Index(positions[p]) # {})
    BY Zenon, <1>4, <2>2
  <2> QED  BY Zenon, <2>1, <2>2
<1>6. placed = [p \in 1..Len(ms) |-> placed[p]]
  BY Zenon, <1>2
<1> HIDE DEF placed
<1>7. placed \in Seq(Range(placed))
  BY <1>2, <1>6 DEF Range
<1>8. \A m \in Range(placed) : IsManifest(m)
  BY Zenon, <1>2, <1>5, <1>6 DEF Range
<1> QED  BY Zenon, <1>1, <1>7, <1>8 DEF Manifested

-------------------------------------------------------------------------------
(* One step changes one process. *)

Moves(r, x) ==
    /\ proc' = [q \in Runs |-> proc'[q]] /\ proc'[r] = x
    /\ \A q \in Runs \ {r} :
         /\ IsProc(proc'[q])
         /\ \A f \in ProcFields \ {"clobbered"} : proc'[q][f] = proc[q][f]

LEMMA SetMoves ==
    ASSUME Shape, NEW r \in Runs, NEW x, Set(r, x)
    PROVE  Moves(r, x)
  BY Zenon DEF Shape, ProcInv, Set, Moves

LEMMA OverMoves ==
    ASSUME Shape, NEW r \in Runs, NEW x, NEW slots, Over(r, x, slots)
    PROVE  Moves(r, x)
<1>1. \A q \in Runs : IsProc(proc[q])
  BY Zenon DEF Shape, ProcInv
<1>2. proc' = [q \in Runs |-> proc'[q]] /\ proc'[r] = x
  BY Zenon DEF Over
<1>3. ASSUME NEW q \in Runs \ {r}
      PROVE  \E c : proc'[q] = [proc[q] EXCEPT !.clobbered = c]
  BY Zenon DEF Over
<1>4. ASSUME NEW p, IsProc(p), NEW c, NEW y, y = [p EXCEPT !.clobbered = c]
      PROVE  IsProc(y) /\ \A f \in ProcFields \ {"clobbered"} : y[f] = p[f]
  BY Zenon, <1>4 DEF IsProc, ProcFields
<1>5. ASSUME NEW q \in Runs \ {r}
      PROVE  /\ IsProc(proc'[q])
             /\ \A f \in ProcFields \ {"clobbered"} : proc'[q][f] = proc[q][f]
  <2>1. PICK c : proc'[q] = [proc[q] EXCEPT !.clobbered = c]
    BY Zenon, <1>3
  <2>2. IsProc(proc[q])
    BY Zenon, <1>1
  <2> QED  BY SMT, <1>4, <2>1, <2>2
<1> QED  BY Zenon, <1>2, <1>5 DEF Moves

(* x is p but for some fields. *)
Keeps(p, x, changed) == IsProc(x) /\ \A f \in ProcFields \ changed : x[f] = p[f]

(* Ports stay where they are; nothing is started, and no signal forgotten. *)
PortsKept(p, x) ==
    \A i \in DOMAIN p.srv : i \in DOMAIN x.srv /\ x.srv[i].port = p.srv[i].port
LifeKept(p, x) ==
    /\ p.pc = "idle" => x.pc = "idle"
    /\ x.pc \notin {"idle", "ended"} => p.pc \notin {"idle", "ended"} /\ (p.term => x.term)

(* A step within the preparation of the extensions. *)
Prepares(p, x) ==
    /\ p.pc \in Preparing /\ x.pc \in Preparing
    /\ Keeps(p, x, {"pc", "at", "art", "root", "m", "exts"})
    /\ IsManifest(x.m) /\ IsManifest(x.root) /\ IsArtifact(x.art) /\ Manifested(x.exts)

LEMMA NoServers == ServersTyped(<<>>) /\ DOMAIN <<>> = {}
  BY DEF ServersTyped

LEMMA PreparesKeeps ==
    ASSUME NEW p, ProcInv(p), NEW x, Prepares(p, x)
    PROVE  ProcInv(x) /\ PortsKept(p, x) /\ LifeKept(p, x) /\ x.pc \notin Serving
<1>1. x.srv = p.srv /\ x.term = p.term /\ IsProc(x)
  BY Zenon DEF Prepares, Keeps, ProcFields
<1>2. p.pc \in Early /\ x.pc \in Preparing /\ x.pc \in Early
  BY Zenon DEF Prepares, Early
<1>3. p.srv = <<>>
  BY Zenon, <1>2 DEF ProcInv
<1>4. /\ x.pc \notin Serving \cup {"rendered", "exported", "ended", "idle"}
      /\ p.pc \notin {"ended", "idle"}
  BY Zenon DEF Prepares, Preparing, Serving
<1> QED  BY Zenon, <1>1, <1>2, <1>3, <1>4 DEF ProcInv, Prepares, PortsKept, LifeKept

(* Signalling the servers keeps their ports. *)
LEMMA StoppedServers ==
    ASSUME NEW srv, ServersTyped(srv)
    PROVE  /\ ServersTyped(Stopped(srv)) /\ DOMAIN Stopped(srv) = DOMAIN srv
           /\ \A i \in DOMAIN srv : /\ Stopped(srv)[i].port = srv[i].port
                                    /\ Stopped(srv)[i].st # "up"
                                    /\ srv[i].st # "up" => Stopped(srv)[i] = srv[i]
           /\ srv = <<>> => Stopped(srv) = <<>>
<1> DEFINE F == {"slot", "port", "st"}
<1>1. ASSUME NEW s, s = [f \in F |-> s[f]]
      PROVE  LET t == [s EXCEPT !.st = "term"] IN
             t = [f \in F |-> t[f]] /\ t.port = s.port /\ t.st = "term"
  BY Zenon, <1>1
<1>2. /\ Stopped(srv) = [i \in DOMAIN srv |-> Stopped(srv)[i]] /\ DOMAIN Stopped(srv) = DOMAIN srv
      /\ \A i \in DOMAIN srv :
           Stopped(srv)[i] = IF srv[i].st = "up" THEN [srv[i] EXCEPT !.st = "term"] ELSE srv[i]
  BY Zenon DEF Stopped
<1>3. \A i \in DOMAIN srv :
        /\ Stopped(srv)[i] = [f \in F |-> Stopped(srv)[i][f]]
        /\ Stopped(srv)[i].port = srv[i].port
        /\ Stopped(srv)[i].st # "up"
        /\ srv[i].st # "up" => Stopped(srv)[i] = srv[i]
  <2> TAKE i \in DOMAIN srv
  <2>1. CASE srv[i].st = "up"
    BY Zenon, <1>1, <1>2, <2>1 DEF ServersTyped
  <2>2. CASE srv[i].st # "up"
    BY Zenon, <1>2, <2>2 DEF ServersTyped
  <2> QED  BY Zenon, <2>1, <2>2
<1>4. ServersTyped(Stopped(srv))
  BY Zenon, <1>2, <1>3 DEF ServersTyped
<1>5. srv = <<>> => Stopped(srv) = <<>>
  BY DEF Stopped
<1> QED  BY Zenon, <1>2, <1>3, <1>4, <1>5

LEMMA IdleProc == IsProc(Idle) /\ ProcInv(Idle) /\ Manifested(<<>>)
<1>1. IsProc(Idle)
  BY Zenon DEF IsProc, ProcFields, Idle
<1>2. Idle.pc = "idle" /\ Idle.srv = <<>> /\ Idle.m = Blank /\ Idle.root = Blank /\ Idle.art = Missing
  BY Zenon DEF Idle
<1>3. Manifested(<<>>)
  <2>1. Range(<<>>) = {}
    BY Zenon, NoServers DEF Range
  <2>2. <<>> \in Seq({})
    OBVIOUS
  <2> QED  BY Zenon, <2>1, <2>2 DEF Manifested
<1> HIDE DEF Idle
<1> QED
  BY Zenon, <1>1, <1>2, <1>3, NoServers, Fields DEF ProcInv, Preparing, Early, Serving

(* A command that returns, with its deferred calls. *)
LEMMA ReturnedProc ==
    ASSUME NEW p, ProcInv(p)
    PROVE  /\ ProcInv(Returned(p)) /\ PortsKept(p, Returned(p)) /\ Returned(p).pc \in {"closing", "ended"}
           /\ p.pc \notin {"idle", "ended"} => LifeKept(p, Returned(p))
<1>1. CASE p.dbg \in {"up", "term"}
  <2> DEFINE x == [p EXCEPT !.pc = "closing", !.dbg = "term"]
  <2>1. Returned(p) = x
    BY Zenon, <1>1 DEF Returned
  <2>2. /\ IsProc(x) /\ x.pc = "closing" /\ x.srv = p.srv /\ x.term = p.term
        /\ x.m = p.m /\ x.root = p.root /\ x.art = p.art
    BY Zenon DEF ProcInv, IsProc, ProcFields
  <2> HIDE DEF x
  <2>3. x.pc \notin Early \cup Preparing \cup Serving \cup {"rendered", "exported", "ended"}
    BY Zenon, <2>2 DEF Early, Preparing, Serving
  <2> QED
    BY Zenon, <2>1, <2>2, <2>3 DEF ProcInv, PortsKept, LifeKept
<1>2. CASE p.dbg \notin {"up", "term"}
  <2> DEFINE dbg == IF p.dbg = "down" THEN Idle.dbg ELSE p.dbg
             x == [Ended(p) EXCEPT !.srv = Stopped(@)]
  <2>1. Returned(p) = x
    BY Zenon, <1>2 DEF Returned
  <2>2. /\ IsProc(x) /\ x.pc = "ended" /\ x.srv = Stopped(p.srv) /\ x.dbg = dbg /\ x.tmp = FALSE
        /\ x.m = Blank /\ x.root = Blank /\ x.art = Missing
    <3>1. /\ IsProc(Idle) /\ Idle.m = Blank /\ Idle.root = Blank /\ Idle.art = Missing /\ Idle.tmp = FALSE
      BY Zenon, IdleProc DEF Idle
    <3> DEFINE e == Ended(p)
    <3>2. /\ IsProc(e) /\ e.pc = "ended" /\ e.srv = p.srv /\ e.dbg = dbg /\ e.tmp = FALSE
          /\ e.m = Blank /\ e.root = Blank /\ e.art = Missing
      BY Zenon, <3>1 DEF IsProc, ProcFields, Ended
    <3> HIDE DEF e, dbg
    <3>3. x = [e EXCEPT !.srv = Stopped(@)]
      BY Zenon DEF e
    <3> HIDE DEF x
    <3> QED  BY Zenon, <3>2, <3>3 DEF IsProc, ProcFields
  <2>3. dbg \notin {"up", "term"}
    BY Zenon, <1>2 DEF Idle
  <2> HIDE DEF x, dbg
  <2>4. x.pc \notin Early \cup Preparing \cup Serving \cup {"rendered", "exported"}
    BY Zenon, <2>2 DEF Early, Preparing, Serving
  <2>5. ServersTyped(p.srv)
    BY Zenon DEF ProcInv
  <2>6. NothingLeft(x) /\ PortsKept(p, x) /\ ServersTyped(x.srv)
    <3>1. /\ ServersTyped(x.srv) /\ DOMAIN x.srv = DOMAIN p.srv
          /\ \A i \in DOMAIN p.srv : x.srv[i].port = p.srv[i].port /\ x.srv[i].st # "up"
      BY SMT, <2>2, <2>5, StoppedServers
    <3> QED  BY Zenon, <2>2, <2>3, <3>1 DEF NothingLeft, PortsKept
  <2> QED
    BY Zenon, <2>1, <2>2, <2>4, <2>6, Fields DEF ProcInv, LifeKept
<1> QED  BY Zenon, <1>1, <1>2

-------------------------------------------------------------------------------
(* The preparation of the extensions. *)

PrepStep(r) == \E x : Moves(r, x) /\ (Prepares(proc[r], x) \/ x = Returned(proc[r]))

LEMMA AppendManifest ==
    ASSUME NEW exts, Manifested(exts), NEW m, IsManifest(m)
    PROVE  Manifested(Append(exts, m))
<1> DEFINE S == Range(exts) \cup {m}
           t == Append(exts, m)
<1>1. exts \in Seq(Range(exts))
  BY Zenon DEF Manifested
<1>2. /\ DOMAIN exts = 1..Len(exts) /\ Len(exts) \in Nat /\ Len(t) = Len(exts) + 1
      /\ DOMAIN t = 1..Len(t)
      /\ \A i \in 1..Len(exts) : t[i] = exts[i]
      /\ t[Len(exts) + 1] = m
  BY <1>1
<1>3. t \in Seq(S)
  <2>1. Range(exts) \subseteq S /\ m \in S
    BY Zenon
  <2> HIDE DEF S
  <2>2. exts \in Seq(S)
    BY <1>1, <2>1
  <2> QED  BY <2>1, <2>2
<1> HIDE DEF t
<1>4. \A i \in DOMAIN t : i \in DOMAIN exts \/ i = Len(exts) + 1
  BY <1>2
<1>5. \A i \in DOMAIN t : IsManifest(t[i])
  BY Zenon, <1>2, <1>4 DEF Manifested, Range
<1>6. t \in Seq(Range(t))
  <2> HIDE DEF S
  <2>1. \A i \in 1..Len(t) : t[i] \in Range(t)
    BY Zenon, <1>2 DEF Range
  <2> QED  BY <1>3, <2>1
<1> QED  BY Zenon, <1>5, <1>6 DEF Manifested, Range, t

LEMMA AddedPrepares ==
    ASSUME NEW p, IsProc(p), p.pc \in Preparing, IsArtifact(p.art), Manifested(p.exts),
           NEW m, IsManifest(m)
    PROVE  Prepares(p, Added(p, m))
<1> DEFINE x == Added(p, m)
<1>1. /\ Keeps(p, x, {"pc", "at", "art", "root", "m", "exts"}) /\ x.pc = "next"
      /\ x.exts = Append(p.exts, m) /\ x.root = Blank /\ x.m = Blank /\ x.art = p.art
  BY Zenon DEF Added, Keeps, IsProc, ProcFields
<1> HIDE DEF x
<1>2. Manifested(x.exts)
  BY Zenon, <1>1, AppendManifest
<1>3. "next" \in Preparing
  BY Zenon DEF Preparing
<1> QED  BY Zenon, <1>1, <1>2, <1>3, Fields DEF Prepares, x

LEMMA PreparesOn ==
    ASSUME NEW p, NEW y, NEW z, Prepares(p, y), Prepares(y, z)
    PROVE  Prepares(p, z)
  BY Zenon DEF Prepares, Keeps

(* The next point of the preparation is reached, and a manifest set. *)
LEMMA PcPrepares ==
    ASSUME NEW p, NEW y, Prepares(p, y), NEW pc \in Preparing, NEW m, IsManifest(m)
    PROVE  Prepares(p, [y EXCEPT !.pc = pc]) /\ Prepares(p, [y EXCEPT !.pc = pc, !.m = m])
<1>1. ASSUME NEW x, x \in {[y EXCEPT !.pc = pc], [y EXCEPT !.pc = pc, !.m = m]}
      PROVE  Prepares(p, x)
  <2>1. /\ Keeps(y, x, {"pc", "m"}) /\ x.pc = pc /\ IsManifest(x.m)
        /\ x.exts = y.exts /\ x.root = y.root /\ x.art = y.art
    BY Zenon, <1>1 DEF Prepares, Keeps, IsProc, ProcFields
  <2> QED  BY Zenon, <2>1 DEF Prepares, Keeps
<1> QED  BY Zenon, <1>1

LEMMA PcStep ==
    ASSUME NEW p, ProcInv(p), p.pc \in Preparing, NEW pc \in Preparing, NEW m, IsManifest(m)
    PROVE  Prepares(p, [p EXCEPT !.pc = pc]) /\ Prepares(p, [p EXCEPT !.pc = pc, !.m = m])
<1>1. Prepares(p, p)
  BY Zenon DEF Prepares, Keeps, ProcInv
<1> QED  BY Zenon, <1>1, PcPrepares

LEMMA DownloadBegins ==
    ASSUME Shape, NEW r \in Runs, DownloadExtension(r)
    PROVE  PrepStep(r)
<1> DEFINE p == proc[r]
           X(a) == [p EXCEPT !.pc = "pulling", !.at = @ + 1, !.art = a]
<1>1. p.pc = "next" /\ ProcInv(p)
  BY Zenon DEF DownloadExtension, Shape
<1>2. \E a : IsArtifact(a) /\ (Set(r, Returned(p)) \/ \E slot : Over(r, X(a), {slot}))
  BY Zenon, Found DEF DownloadExtension
<1>3. ASSUME NEW a, IsArtifact(a) PROVE Prepares(p, X(a))
  <2> DEFINE x == X(a)
  <2>1. /\ Keeps(p, x, {"pc", "at", "art", "root", "m", "exts"}) /\ x.pc = "pulling"
        /\ x.exts = p.exts /\ x.root = p.root /\ x.m = p.m /\ x.art = a
    BY Zenon, <1>1 DEF ProcInv, Keeps, IsProc, ProcFields
  <2> HIDE DEF x
  <2>2. {"next", "pulling"} \subseteq Preparing
    BY Zenon DEF Preparing
  <2> QED  BY Zenon, <1>1, <1>3, <2>1, <2>2 DEF Prepares, ProcInv, x
<1> HIDE DEF X
<1> QED  BY Zenon, <1>2, <1>3, SetMoves, OverMoves DEF PrepStep

LEMMA DownloadEnds ==
    ASSUME Shape, NEW r \in Runs, Downloaded(r)
    PROVE  PrepStep(r)
<1> DEFINE p == proc[r]
           root == ApplyDefaults(p.art.manifest)
           Pulled(m) == [p EXCEPT !.root = root, !.m = m, !.art = Missing]
<1>1. p.pc = "pulling" /\ ProcInv(p) /\ IsArtifact(p.art)
  BY Zenon DEF Downloaded, Shape, ProcInv
<1>2. IsManifest(root)
  BY Zenon, <1>1, Defaults DEF IsArtifact
<1> DEFINE asked == Remote(p)[p.at]
           ref == splitRef(asked)
           found == ResolveExtensionManifest(p.art, ref.bundle, ref.name)
           m == [found.manifest EXCEPT !.remote = asked, !.cshared = root.cshared]
<1>4. \/ Set(r, Returned(p))
      \/ Set(r, [Pulled(m) EXCEPT !.pc = "build"])
      \/ Set(r, [Pulled(m) EXCEPT !.pc = "lite"])
      \/ Set(r, Added(Pulled(m), m))
  BY Zenon DEF Downloaded
<1>5. IsManifest(m)
  <2>1. IsManifest(found.manifest)
    BY Zenon, <1>1, Resolved
  <2> HIDE DEF found
  <2> QED  BY Zenon, <2>1, Fields DEF IsManifest
<1> HIDE DEF m, root
<1>6. Prepares(p, Pulled(m)) /\ Pulled(m).pc = "pulling"
  <2> DEFINE x == Pulled(m)
  <2>1. /\ Keeps(p, x, {"pc", "at", "art", "root", "m", "exts"}) /\ x.pc = "pulling"
        /\ x.exts = p.exts /\ x.root = root /\ x.m = m /\ x.art = Missing
    BY Zenon, <1>1 DEF ProcInv, Keeps, IsProc, ProcFields
  <2> HIDE DEF x
  <2>2. "pulling" \in Preparing
    BY Zenon DEF Preparing
  <2>3. Prepares(p, x)
    BY Zenon, <1>1, <1>2, <1>5, <2>1, <2>2, Fields DEF Prepares, ProcInv
  <2> QED  BY Zenon, <2>1, <2>3 DEF x
<1> DEFINE y == Pulled(m)
<1>7. Prepares(p, y) /\ y.pc = "pulling"
  BY Zenon, <1>6
<1>8. Set(r, Returned(p)) \/ Set(r, [y EXCEPT !.pc = "build"]) \/ Set(r, [y EXCEPT !.pc = "lite"])
      \/ Set(r, Added(y, m))
  BY Zenon, <1>4
<1> HIDE DEF y
<1>9. Prepares(p, [y EXCEPT !.pc = "build"]) /\ Prepares(p, [y EXCEPT !.pc = "lite"])
  BY Zenon, <1>5, <1>7, PcPrepares DEF Preparing
<1>10. Prepares(p, Added(y, m))
  <2>1. IsProc(y) /\ y.pc \in Preparing /\ IsArtifact(y.art) /\ Manifested(y.exts)
    BY Zenon, <1>7 DEF Prepares, Keeps
  <2>2. Prepares(y, Added(y, m))
    BY Zenon, <1>5, <2>1, AddedPrepares
  <2> HIDE DEF p
  <2> QED  BY Zenon, <1>7, <2>2, PreparesOn
<1> QED  BY Zenon, <1>8, <1>9, <1>10, SetMoves DEF PrepStep

LEMMA LocalLoads ==
    ASSUME Shape, NEW r \in Runs, loadLocalManifests(r)
    PROVE  PrepStep(r)
<1> DEFINE p == proc[r]
           X(l) == [p EXCEPT !.at = @ + 1, !.pc = "build", !.root = l.root, !.m = l.manifest]
<1>1. p.pc = "next" /\ ProcInv(p)
  BY Zenon DEF loadLocalManifests, Shape
<1>2. PICK path : Set(r, Returned(p)) \/ Set(r, X(LoadLocal(path)))
  BY Zenon DEF loadLocalManifests
<1>3. Prepares(p, X(LoadLocal(path)))
  <2> DEFINE l == LoadLocal(path)
             x == X(l)
  <2>1. IsManifest(l.root) /\ IsManifest(l.manifest)
    BY Zenon, Loaded
  <2> HIDE DEF l
  <2>2. /\ Keeps(p, x, {"pc", "at", "art", "root", "m", "exts"}) /\ x.pc = "build"
        /\ x.exts = p.exts /\ x.root = l.root /\ x.m = l.manifest /\ x.art = p.art
    BY Zenon, <1>1 DEF ProcInv, Keeps, IsProc, ProcFields
  <2> HIDE DEF x
  <2>3. {"next", "build"} \subseteq Preparing
    BY Zenon DEF Preparing
  <2>4. Prepares(p, x)
    BY Zenon, <1>1, <2>1, <2>2, <2>3 DEF Prepares, ProcInv
  <2> QED  BY Zenon, <2>4 DEF x, l
<1> HIDE DEF X
<1> QED  BY Zenon, <1>2, <1>3, SetMoves DEF PrepStep

LEMMA SourceBuilds ==
    ASSUME Shape, NEW r \in Runs, handleExtensionSource(r)
    PROVE  PrepStep(r)
<1> DEFINE p == proc[r]
           root == p.root
           slot == CASE root.type = "composer" -> LocalCacheComposerDir(cacheVersion(r, root.version))
                     [] root.type \in {"go", "rust"} ->
                          LocalCacheExtensionDir([root EXCEPT !.debug = Debug(r)])
                     [] OTHER -> LocalCacheExtensionDir(root)
           plugin == root.type = "go" /\ ~root.cshared
           m == CASE root.type \in {"composer", "go"} ->
                       [p.m EXCEPT !.cshared = ~plugin, !.debug = Debug(r)]
                  [] root.type = "rust" -> [p.m EXCEPT !.debug = Debug(r)]
                  [] OTHER -> p.m
<1>1. p.pc = "build" /\ ProcInv(p)
  BY Zenon DEF handleExtensionSource, Shape
<1>2. \/ Set(r, Added(p, m))
      \/ Over(r, [p EXCEPT !.pc = "copying", !.m = m], {slot})
      \/ Over(r, IF plugin THEN [p EXCEPT !.pc = "lite-src", !.m = m] ELSE Added(p, m), {slot})
  BY Zenon DEF handleExtensionSource, Build
<1>3. IsManifest(m)
  <2>1. ASSUME NEW k, IsManifest(k), NEW c, NEW d
        PROVE  /\ IsManifest([k EXCEPT !.cshared = c, !.debug = d])
               /\ IsManifest([k EXCEPT !.debug = d])
    BY Zenon, <2>1, Fields DEF IsManifest
  <2>2. IsManifest(p.m)
    BY Zenon, <1>1 DEF ProcInv
  <2> QED  BY Zenon, <2>1, <2>2
<1> HIDE DEF m, slot, plugin
<1>4. {"build", "copying", "lite-src"} \subseteq Preparing
  BY Zenon DEF Preparing
<1>5. /\ Prepares(p, [p EXCEPT !.pc = "copying", !.m = m])
      /\ Prepares(p, [p EXCEPT !.pc = "lite-src", !.m = m])
  BY Zenon, <1>1, <1>3, <1>4, PcStep
<1>6. Prepares(p, Added(p, m))
  BY Zenon, <1>1, <1>3, <1>4, AddedPrepares DEF ProcInv
<1>7. Prepares(p, IF plugin THEN [p EXCEPT !.pc = "lite-src", !.m = m] ELSE Added(p, m))
  BY Zenon, <1>5, <1>6
<1> QED  BY Zenon, <1>2, <1>5, <1>6, <1>7, SetMoves, OverMoves DEF PrepStep

LEMMA CopyEnds ==
    ASSUME Shape, NEW r \in Runs, Copied(r)
    PROVE  PrepStep(r)
<1>1. proc[r].pc = "copying" /\ ProcInv(proc[r]) /\ Set(r, Added(proc[r], proc[r].m))
  BY Zenon DEF Copied, Shape
<1>2. Prepares(proc[r], Added(proc[r], proc[r].m))
  BY Zenon, <1>1, AddedPrepares DEF ProcInv, Preparing
<1> QED  BY Zenon, <1>1, <1>2, SetMoves DEF PrepStep

(* The steps on composer-lite only move on. *)
LEMMA LiteSteps ==
    ASSUME Shape, NEW r \in Runs, CheckLite(r) \/ LitePulled(r) \/ BuildLite(r)
    PROVE  PrepStep(r)
<1> DEFINE p == proc[r]
<1>1. p.pc \in {"lite", "lite-pulling", "lite-src"} /\ ProcInv(p)
  BY Zenon DEF CheckLite, LitePulled, BuildLite, Shape
<1>2. \/ Set(r, Returned(p))
      \/ \E pc \in {"host", "lite-src", "lite-pulling"} :
           Set(r, [p EXCEPT !.pc = pc]) \/ \E slots : Over(r, [p EXCEPT !.pc = pc], slots)
  <2>1. CASE CheckLite(r)
    BY Zenon, <2>1 DEF CheckLite
  <2>2. CASE LitePulled(r)
    BY Zenon, <2>2 DEF LitePulled
  <2>3. CASE BuildLite(r)
    BY Zenon, <2>3 DEF BuildLite
  <2> QED  BY Zenon, <2>1, <2>2, <2>3
<1>3. {"lite", "host", "lite-src", "lite-pulling"} \subseteq Preparing
  BY Zenon DEF Preparing
<1>4. \A pc \in {"host", "lite-src", "lite-pulling"} : Prepares(p, [p EXCEPT !.pc = pc])
  BY Zenon, <1>1, <1>3, PcStep, Fields
<1> QED  BY Zenon, <1>2, <1>4, SetMoves, OverMoves DEF PrepStep

LEMMA PluginInherits ==
    ASSUME Shape, NEW r \in Runs, InheritFromComposer(r)
    PROVE  PrepStep(r)
<1> DEFINE p == proc[r]
<1>1. p.pc = "host" /\ ProcInv(p)
  BY Zenon DEF InheritFromComposer, Shape
<1>2. PICK composer, m : /\ IsManifest(composer)
                         /\ m \in {p.m, ResolveVersionsWithParent(p.m, composer)}
                         /\ Set(r, Added(p, m))
  BY Zenon, Hosts DEF InheritFromComposer
<1>3. IsManifest(m)
  BY Zenon, <1>1, <1>2, Inherits DEF ProcInv
<1>4. Prepares(p, Added(p, m))
  BY Zenon, <1>1, <1>3, AddedPrepares DEF ProcInv, Preparing
<1> QED  BY Zenon, <1>2, <1>4, SetMoves DEF PrepStep

-------------------------------------------------------------------------------
(* Configuration, servers, Envoy. *)

StepOK(r) ==
    \E x : /\ Moves(r, x) /\ ProcInv(x) /\ PortsKept(proc[r], x) /\ LifeKept(proc[r], x)
           /\ faults' = 0 => Serves(proc, r, x)

(* What holds before a step of process r. *)
Before(r) == /\ Shape /\ r \in Runs /\ faults \in Nat
             /\ faults = 0 => Serves(proc, r, proc[r])

LEMMA FaultCount ==
    ASSUME faults \in Nat
    PROVE  /\ Fault => faults' \in Nat /\ faults' # 0
           /\ NoFault => faults' = faults
  BY DEF Fault, NoFault

LEMMA ReturnStep ==
    ASSUME NEW r, Before(r), Alive(r), Set(r, Returned(proc[r]))
    PROVE  StepOK(r)
<1>1. Moves(r, Returned(proc[r]))
  BY Zenon, SetMoves DEF Before
<1>2. ProcInv(proc[r]) /\ proc[r].pc \notin {"idle", "ended"}
  BY Zenon DEF Before, Shape, Alive
<1>3. Returned(proc[r]).pc \notin Serving
  BY Zenon, <1>2, ReturnedProc DEF Serving
<1> QED  BY Zenon, <1>1, <1>2, <1>3, ReturnedProc DEF StepOK, Serves

LEMMA PrepStepOK ==
    ASSUME NEW r, Before(r), Alive(r), PrepStep(r)
    PROVE  StepOK(r)
<1>1. PICK x : Moves(r, x) /\ (Prepares(proc[r], x) \/ x = Returned(proc[r]))
  BY Zenon DEF PrepStep
<1>2. ProcInv(proc[r]) /\ proc[r].pc \notin {"idle", "ended"}
  BY Zenon DEF Before, Shape, Alive
<1>3. CASE Prepares(proc[r], x)
  BY Zenon, <1>1, <1>2, <1>3, PreparesKeeps DEF StepOK, Serves
<1>4. CASE x = Returned(proc[r])
  <2>1. Returned(proc[r]).pc \notin Serving
    BY Zenon, <1>2, ReturnedProc DEF Serving
  <2> QED  BY Zenon, <1>1, <1>2, <1>4, <2>1, ReturnedProc DEF StepOK, Serves
<1> QED  BY Zenon, <1>1, <1>3, <1>4

Settled == Serving \cup {"rendered", "exported"}

(* From the rendered configuration on, extensions and version stay. *)
LEMMA SettledKeeps ==
    ASSUME NEW p, ProcInv(p), NEW x,
           Keeps(p, x, {"pc", "conf", "opens", "root", "m", "torn", "dbg"}),
           p.pc \in Settled, x.pc \in Settled \ {"rendered"}, x.pc \in Early => p.pc \in Early,
           IsManifest(x.m), IsManifest(x.root)
    PROVE  ProcInv(x) /\ PortsKept(p, x) /\ LifeKept(p, x)
<1>1. /\ IsProc(x) /\ x.srv = p.srv /\ x.term = p.term /\ x.exts = p.exts /\ x.version = p.version
      /\ x.cmd = p.cmd /\ x.art = p.art
  BY Zenon DEF Keeps, ProcFields
<1>2. /\ x.pc \notin Preparing \cup {"rendered", "ended", "idle"} /\ p.pc \notin {"ended", "idle"}
      /\ x.pc \in Serving \cup {"rendered", "exported"} /\ p.pc \in Serving \cup {"rendered", "exported"}
  BY Zenon DEF Settled, Preparing, Serving
<1>3. VersionFits(p) => VersionFits(x)
  BY Zenon, <1>1 DEF VersionFits, Ext
<1> QED  BY Zenon, <1>1, <1>2, <1>3 DEF ProcInv, PortsKept, LifeKept

LEMMA ServesOn ==
    ASSUME NEW r, NEW p, NEW x, Serves(proc, r, p), p.pc \in Serving, x.srv = p.srv, x.term = p.term,
           x.pc \in {"servers", "waiting"} \/ p.pc \notin {"servers", "waiting"} \/ Pending(p) = {}
    PROVE  Serves(proc, r, x)
<1> SUFFICES ASSUME x.pc \in Serving, ~x.term, NEW i \in DOMAIN x.srv
             PROVE  \/ x.srv[i].st = "up"
                    \/ x.srv[i].st = "none" /\ x.pc \in {"servers", "waiting"}
                    \/ Excused(proc, r, x, i)
  BY Zenon DEF Serves
<1>1. \/ p.srv[i].st = "up"
      \/ p.srv[i].st = "none" /\ p.pc \in {"servers", "waiting"}
      \/ Excused(proc, r, p, i)
  BY Zenon DEF Serves
<1>2. Excused(proc, r, p, i) => Excused(proc, r, x, i)
  BY Zenon DEF Excused
<1>3. p.srv[i].st = "none" => i \in Pending(p)
  BY Zenon DEF Pending
<1> QED  BY Zenon, <1>1, <1>2, <1>3

LEMMA PickSupported ==
    ASSUME NEW c, c.envoy = Unset, NEW ms, Manifested(ms), PickVersion(c, ms).ok
    PROVE  LET v == PickVersion(c, ms).version IN
           IF v = Unset THEN \A m \in Range(ms) : m.min = Unset /\ m.max = Unset
           ELSE \A m \in Range(ms) : SupportsEnvoyVersion(m, v)
<1>1. c.envoy # CustomEnvoy
  BY DEF Unset, CustomEnvoy
<1>2. PickVersion(c, ms) = ResolveMinimumCompatibleEnvoyVersion(ms)
  BY Zenon, <1>1 DEF PickVersion
<1> QED  BY Zenon, <1>2, Picked

LEMMA ConfigureStep ==
    ASSUME NEW r, Before(r), Configure(r)
    PROVE  StepOK(r)
<1> DEFINE p == proc[r]
           ms == sort(saveExtensionPositions(p.cmd.flags), p.exts).sorted
           picked == PickVersion(p.cmd, ms)
           X(conf) == [p EXCEPT !.pc = "rendered", !.exts = ms, !.conf = conf, !.version = picked.version]
<1>1. p.pc = "next" /\ ProcInv(p) /\ r \in Runs /\ Shape
  BY Zenon DEF Configure, Prepared, Before, Shape
<1>2. Set(r, Returned(p)) \/ (picked.ok /\ \E conf : Set(r, X(conf)))
  BY Zenon DEF Configure
<1>3. Manifested(ms)
  <2>1. Manifested(p.exts)
    BY Zenon, <1>1 DEF ProcInv, Preparing
  <2> QED  BY Zenon, <2>1, Sorted
<1>4. CASE Set(r, Returned(p))
  BY Zenon, <1>1, <1>4, ReturnStep DEF Alive
<1>5. ASSUME picked.ok, NEW conf, Set(r, X(conf)) PROVE StepOK(r)
  <2> DEFINE x == X(conf)
             v == picked.version
  <2>1. p.cmd.envoy = Unset => IF v = Unset THEN \A m \in Range(ms) : m.min = Unset /\ m.max = Unset
                               ELSE \A m \in Range(ms) : SupportsEnvoyVersion(m, v)
    BY Zenon, <1>3, <1>5, PickSupported
  <2> HIDE DEF ms, v, picked
  <2>2. /\ IsProc(x) /\ x.pc = "rendered" /\ x.exts = ms /\ x.version = v /\ x.srv = p.srv
        /\ x.m = p.m /\ x.root = p.root /\ x.art = p.art /\ x.cmd = p.cmd /\ x.term = p.term
    BY Zenon, <1>1 DEF ProcInv, IsProc, ProcFields, v
  <2>3. Moves(r, x)
    BY Zenon, <1>1, <1>5, SetMoves
  <2> HIDE DEF x
  <2>4. p.cmd.envoy = Unset => VersionFits(x)
    BY Zenon, <2>1, <2>2 DEF VersionFits, Ext
  <2>5. p.srv = <<>> /\ x.pc \notin Serving
    BY Zenon, <1>1, <2>2 DEF ProcInv, Early, Preparing, Serving
  <2>6. ProcInv(x)
    BY Zenon, <1>1, <1>3, <2>2, <2>4, <2>5 DEF ProcInv
  <2>7. PortsKept(p, x) /\ LifeKept(p, x) /\ Serves(proc, r, x)
    BY Zenon, <1>1, <2>2, <2>5 DEF PortsKept, LifeKept, Serves
  <2> QED  BY Zenon, <2>3, <2>6, <2>7 DEF StepOK
<1> QED  BY Zenon, <1>2, <1>4, <1>5

LEMMA ExportStep ==
    ASSUME NEW r, Before(r), Export(r)
    PROVE  StepOK(r)
<1> DEFINE p == proc[r]
<1>1. p.pc = "rendered" /\ ProcInv(p) /\ r \in Runs /\ Shape
  BY Zenon DEF Export, Before, Shape
<1>2. \/ Set(r, Returned(p))
      \/ \E opens, http : Set(r, [p EXCEPT !.pc = "exported", !.opens = opens, !.conf.http = http])
      \/ Set(r, [p EXCEPT !.pc = "exported"])
  BY Zenon DEF Export
<1>3. CASE Set(r, Returned(p))
  BY Zenon, <1>1, <1>3, ReturnStep DEF Alive
<1>4. ASSUME NEW x, Keeps(p, x, {"pc", "opens", "conf"}), x.pc = "exported", Set(r, x) PROVE StepOK(r)
  <2>1. ProcInv(x) /\ PortsKept(p, x) /\ LifeKept(p, x)
    <3>1. x.m = p.m /\ x.root = p.root
      BY Zenon, <1>4 DEF Keeps, ProcFields
    <3>2. Keeps(p, x, {"pc", "conf", "opens", "root", "m", "torn", "dbg"})
      BY Zenon, <1>4 DEF Keeps
    <3>3. p.pc \in Settled /\ x.pc \in Settled \ {"rendered"} /\ p.pc \in Early
      BY Zenon, <1>1, <1>4 DEF Settled, Early
    <3> QED  BY Zenon, <1>1, <3>1, <3>2, <3>3, SettledKeeps DEF ProcInv
  <2>2. Serves(proc, r, x)
    BY Zenon, <1>4 DEF Serves, Serving
  <2> QED  BY Zenon, <1>1, <1>4, <2>1, <2>2, SetMoves DEF StepOK
<1>5. ASSUME NEW x, NEW opens, NEW http,
             \/ x = [p EXCEPT !.pc = "exported", !.opens = opens, !.conf.http = http]
             \/ x = [p EXCEPT !.pc = "exported"]
      PROVE  Keeps(p, x, {"pc", "opens", "conf"}) /\ x.pc = "exported"
  BY Zenon, <1>1, <1>5 DEF Keeps, ProcInv, IsProc, ProcFields
<1> QED  BY Zenon, <1>2, <1>3, <1>4, <1>5

LEMMA DockerStep ==
    ASSUME NEW r, Before(r), RunDocker(r)
    PROVE  StepOK(r)
<1> DEFINE p == proc[r]
<1>1. p.pc = "docker" /\ ProcInv(p) /\ r \in Runs /\ Shape
  BY Zenon DEF RunDocker, Before, Shape
<1>2. Set(r, Returned(p)) \/ \E args : Set(r, [p EXCEPT !.pc = "container", !.conf = args])
  BY Zenon DEF RunDocker
<1>3. CASE Set(r, Returned(p))
  BY Zenon, <1>1, <1>3, ReturnStep DEF Alive
<1>4. ASSUME NEW args, Set(r, [p EXCEPT !.pc = "container", !.conf = args]) PROVE StepOK(r)
  <2> DEFINE x == [p EXCEPT !.pc = "container", !.conf = args]
  <2>1. /\ IsProc(x) /\ x.pc = "container" /\ x.srv = p.srv
        /\ x.m = p.m /\ x.root = p.root /\ x.art = p.art /\ x.term = p.term
    BY Zenon, <1>1 DEF ProcInv, IsProc, ProcFields
  <2>2. Moves(r, x)
    BY Zenon, <1>1, <1>4, SetMoves
  <2> HIDE DEF x
  <2>3. p.srv = <<>> /\ x.pc \notin Serving \cup Preparing \cup {"rendered", "exported", "ended"}
    BY Zenon, <1>1, <2>1 DEF ProcInv, Early, Preparing, Serving
  <2>4. ProcInv(x) /\ PortsKept(p, x) /\ LifeKept(p, x) /\ Serves(proc, r, x)
    BY Zenon, <1>1, <2>1, <2>3 DEF ProcInv, PortsKept, LifeKept, Serves
  <2> QED  BY Zenon, <2>2, <2>4 DEF StepOK
<1> QED  BY Zenon, <1>2, <1>3, <1>4

LEMMA LinkStep ==
    ASSUME NEW r, Before(r), Link(r)
    PROVE  StepOK(r)
<1> DEFINE p == proc[r]
           servers == {i \in DOMAIN p.exts : p.exts[i].type = "ext_proc"}
           srv == [i \in servers |-> Server(p.exts[i])]
<1>1. p.pc = "rendered" /\ ProcInv(p) /\ r \in Runs /\ Shape
  BY Zenon DEF Link, Before, Shape
<1>2. \/ Set(r, Returned(p))
      \/ \E opens : Set(r, [p EXCEPT !.pc = "servers", !.tmp = TRUE, !.opens = opens, !.srv = srv])
  BY Zenon DEF Link
<1>3. CASE Set(r, Returned(p))
  BY Zenon, <1>1, <1>3, ReturnStep DEF Alive
<1>4. ServersTyped(srv) /\ \A i \in DOMAIN srv : srv[i].st = "none"
  <2>1. DOMAIN srv \subseteq Nat
    <3>1. DOMAIN p.exts \subseteq Nat
      <4>1. p.exts \in Seq(Range(p.exts))
        BY Zenon, <1>1 DEF ProcInv, Manifested
      <4> QED  BY <4>1
    <3> QED  BY Zenon, <3>1
  <2>2. \A m : Server(m) = [f \in {"slot", "port", "st"} |-> Server(m)[f]] /\ Server(m).st = "none"
    BY Zenon DEF Server
  <2> QED  BY Zenon, <2>1, <2>2 DEF ServersTyped
<1> HIDE DEF srv
<1>5. ASSUME NEW opens,
             Set(r, [p EXCEPT !.pc = "servers", !.tmp = TRUE, !.opens = opens, !.srv = srv])
      PROVE  StepOK(r)
  <2> DEFINE x == [p EXCEPT !.pc = "servers", !.tmp = TRUE, !.opens = opens, !.srv = srv]
  <2>1. /\ IsProc(x) /\ x.pc = "servers" /\ x.srv = srv /\ x.term = p.term /\ x.cmd = p.cmd
        /\ x.m = p.m /\ x.root = p.root /\ x.art = p.art /\ x.exts = p.exts /\ x.version = p.version
    BY Zenon, <1>1 DEF ProcInv, IsProc, ProcFields
  <2>2. Moves(r, x)
    BY Zenon, <1>1, <1>5, SetMoves
  <2> HIDE DEF x
  <2>3. p.srv = <<>> /\ x.pc \notin Early \cup Preparing \cup {"rendered", "ended"}
    BY Zenon, <1>1, <2>1 DEF ProcInv, Early, Preparing
  <2>4. VersionFits(p) => VersionFits(x)
    BY Zenon, <2>1 DEF VersionFits, Ext
  <2>5. ProcInv(x)
    BY Zenon, <1>1, <1>4, <2>1, <2>3, <2>4 DEF ProcInv
  <2>6. PortsKept(p, x) /\ LifeKept(p, x)
    BY Zenon, <1>1, <2>1, <2>3, NoServers DEF PortsKept, LifeKept
  <2>7. Serves(proc, r, x)
    BY Zenon, <1>4, <2>1 DEF Serves
  <2> QED  BY Zenon, <2>2, <2>5, <2>6, <2>7 DEF StepOK
<1> QED  BY Zenon, <1>2, <1>3, <1>5

(* x is p, but for another state of server i and perhaps another point. *)
OneServer(p, x, i, st) ==
    /\ Keeps(p, x, {"pc", "srv"})
    /\ ServersTyped(x.srv) /\ DOMAIN x.srv = DOMAIN p.srv
    /\ x.srv[i].st = st /\ x.srv[i].port = p.srv[i].port
    /\ \A j \in DOMAIN p.srv \ {i} : x.srv[j] = p.srv[j]

LEMMA ServerMoves ==
    ASSUME NEW p, ProcInv(p), NEW i \in DOMAIN p.srv, NEW st, NEW x
    PROVE  (Keeps(p, x, {"pc", "srv"}) /\ x.srv = [p.srv EXCEPT ![i].st = st]) => OneServer(p, x, i, st)
<1>1. ServersTyped(p.srv)
  BY Zenon DEF ProcInv
<1> DEFINE s == [p.srv[i] EXCEPT !.st = st]
<1>2. s = [f \in {"slot", "port", "st"} |-> s[f]] /\ s.st = st /\ s.port = p.srv[i].port
  BY Zenon, <1>1 DEF ServersTyped
<1>3. ASSUME Keeps(p, x, {"pc", "srv"}), x.srv = [p.srv EXCEPT ![i].st = st]
      PROVE  OneServer(p, x, i, st)
  <2>1. /\ DOMAIN x.srv = DOMAIN p.srv /\ x.srv = [j \in DOMAIN x.srv |-> x.srv[j]]
        /\ x.srv[i] = s /\ \A j \in DOMAIN p.srv \ {i} : x.srv[j] = p.srv[j]
    BY Zenon, <1>1, <1>3 DEF ServersTyped
  <2> HIDE DEF s
  <2>2. \A j \in DOMAIN x.srv : x.srv[j] = [f \in {"slot", "port", "st"} |-> x.srv[j][f]]
    <3> TAKE j \in DOMAIN x.srv
    <3>1. CASE j = i
      BY Zenon, <1>2, <2>1, <3>1
    <3>2. CASE j # i
      BY Zenon, <1>1, <2>1, <3>2 DEF ServersTyped
    <3> QED  BY Zenon, <3>1, <3>2
  <2>3. ServersTyped(x.srv)
    BY Zenon, <1>1, <2>1, <2>2 DEF ServersTyped
  <2> QED  BY Zenon, <1>2, <1>3, <2>1, <2>3 DEF OneServer
<1> QED  BY Zenon, <1>3

(* ... which does not disturb anything else. *)
LEMMA ServerMovesKeeps ==
    ASSUME NEW p, ProcInv(p), NEW x, NEW i \in DOMAIN p.srv, NEW st, OneServer(p, x, i, st),
           \/ x.pc = p.pc /\ st # "up"
           \/ x.pc = "waiting" /\ p.pc = "servers"
    PROVE  /\ ProcInv(x) /\ PortsKept(p, x) /\ LifeKept(p, x)
           /\ \A r, j : Excused(proc, r, p, j) /\ j \in DOMAIN p.srv => Excused(proc, r, x, j)
<1>1. /\ IsProc(x) /\ x.term = p.term /\ x.exts = p.exts /\ x.version = p.version /\ x.dbg = p.dbg
      /\ x.cmd = p.cmd /\ x.art = p.art /\ x.m = p.m /\ x.root = p.root /\ x.tmp = p.tmp
      /\ x.crashed = p.crashed /\ ServersTyped(x.srv)
  BY Zenon DEF OneServer, Keeps, ProcFields
<1>2. VersionFits(p) => VersionFits(x)
  BY Zenon, <1>1 DEF VersionFits, Ext
<1>3. p.pc \notin Early
  BY Zenon, NoServers DEF ProcInv
<1>4. /\ PortsKept(p, x) /\ DOMAIN x.srv = DOMAIN p.srv
      /\ \A j \in DOMAIN p.srv : x.srv[j].port = p.srv[j].port
  BY Zenon DEF PortsKept, OneServer
<1>5. \A r, j : Excused(proc, r, p, j) /\ j \in DOMAIN p.srv => Excused(proc, r, x, j)
  BY Zenon, <1>4 DEF Excused
<1>6. CASE x.pc = p.pc /\ st # "up"
  <2>1. NothingLeft(p) => NothingLeft(x)
    <3>1. \A j \in DOMAIN x.srv : x.srv[j].st \in {st, p.srv[j].st} /\ j \in DOMAIN p.srv
      BY Zenon DEF OneServer
    <3> QED  BY Zenon, <1>1, <1>6, <3>1 DEF NothingLeft
  <2>2. p.pc \notin Early => p.pc \notin Preparing \cup {"rendered"}
    BY Zenon DEF Early
  <2> QED  BY Zenon, <1>1, <1>2, <1>3, <1>4, <1>5, <1>6, <2>1, <2>2 DEF ProcInv, LifeKept
<1>7. CASE x.pc = "waiting" /\ p.pc = "servers"
  <2>1. x.pc \notin Early \cup Preparing \cup {"rendered", "ended"} /\ p.pc \in Serving
    BY Zenon, <1>7 DEF Early, Preparing, Serving
  <2> QED  BY Zenon, <1>1, <1>2, <1>4, <1>5, <1>7, <2>1 DEF ProcInv, LifeKept
<1> QED  BY Zenon, <1>6, <1>7

LEMMA StartServerStep ==
    ASSUME NEW r, Before(r), StartServer(r)
    PROVE  StepOK(r)
<1> DEFINE p == proc[r]
           i == Min(Pending(p))
           X(st) == [p EXCEPT !.pc = "waiting", !.srv[i].st = st]
<1>1. p.pc = "servers" /\ ProcInv(p) /\ r \in Runs /\ Shape
  BY Zenon DEF StartServer, Before, Shape
<1>2. i \in DOMAIN p.srv /\ p.srv[i].st = "none"
  <2> DEFINE S == Pending(p)
  <2>1. S # {} /\ S \subseteq Nat
    BY Zenon, <1>1 DEF StartServer, Pending, ProcInv, ServersTyped
  <2> HIDE DEF S
  <2>2. Min(S) \in S
    BY Zenon, <2>1, Least
  <2> QED  BY Zenon, <2>2 DEF S, Pending
<1>3. \/ Set(r, X("up"))
      \/ Listening(p.srv[i].port) /\ Set(r, X("down"))
      \/ Fault /\ Set(r, X("down"))
      \/ Set(r, Returned(p))
  BY Zenon DEF StartServer
<1>4. CASE Set(r, Returned(p))
  BY Zenon, <1>1, <1>4, ReturnStep DEF Alive
<1>f. faults' = 0 => faults = 0
  <2>1. Fault \/ NoFault
    BY Zenon DEF StartServer
  <2> QED  BY Zenon, <2>1, FaultCount DEF Before
<1>5. ASSUME NEW st, Set(r, X(st)), faults' = 0 => st = "up" \/ Listening(p.srv[i].port)
      PROVE  StepOK(r)
  <2> DEFINE x == X(st)
  <2> HIDE DEF i
  <2>0. Keeps(p, x, {"pc", "srv"}) /\ x.srv = [p.srv EXCEPT ![i].st = st] /\ x.pc = "waiting"
    BY Zenon, <1>1 DEF Keeps, ProcInv, IsProc, ProcFields
  <2>2. Moves(r, x)
    BY Zenon, <1>1, <1>5, SetMoves
  <2> HIDE DEF x
  <2>1. OneServer(p, x, i, st) /\ x.pc = "waiting"
    BY Zenon, <1>1, <1>2, <2>0, ServerMoves
  <2>3. /\ ProcInv(x) /\ PortsKept(p, x) /\ LifeKept(p, x)
        /\ \A j : Excused(proc, r, p, j) /\ j \in DOMAIN p.srv => Excused(proc, r, x, j)
    BY Zenon, <1>1, <1>2, <2>1, ServerMovesKeeps
  <2>s. /\ Keeps(p, x, {"pc", "srv"}) /\ DOMAIN x.srv = DOMAIN p.srv
        /\ x.srv[i].st = st /\ x.srv[i].port = p.srv[i].port
        /\ \A j \in DOMAIN p.srv \ {i} : x.srv[j] = p.srv[j]
    BY Zenon, <2>1 DEF OneServer
  <2>4. ASSUME faults' = 0 PROVE Serves(proc, r, x)
    <3>1. Serves(proc, r, p)
      BY Zenon, <2>4, <1>f DEF Before
    <3>2. x.term = p.term /\ p.pc \in Serving
      BY Zenon, <1>1, <2>s DEF Keeps, ProcFields, Serving
    <3>3. ASSUME NEW j \in DOMAIN p.srv, j # i, ~p.term
          PROVE  x.srv[j].st \in {"up", "none"} \/ Excused(proc, r, x, j)
      BY Zenon, <2>s, <2>3, <3>1, <3>2, <3>3 DEF Serves
    <3>4. Listening(p.srv[i].port) => Excused(proc, r, x, i)
      <4> SUFFICES ASSUME Listening(p.srv[i].port) PROVE Excused(proc, r, x, i)
        BY Zenon
      <4>0. PICK q \in Runs : \E j \in DOMAIN proc[q].srv :
              proc[q].srv[j].st \in {"up", "term"} /\ proc[q].srv[j].port = p.srv[i].port
        BY Zenon DEF Listening
      <4>1. PICK j \in DOMAIN proc[q].srv :
              proc[q].srv[j].st \in {"up", "term"} /\ proc[q].srv[j].port = p.srv[i].port
        BY Zenon, <4>0
      <4>2. CASE q = r
        <5>1. j # i /\ j \in DOMAIN p.srv
          BY Zenon, <1>2, <4>1, <4>2
        <5>2. x.srv[j].port = x.srv[i].port /\ j \in DOMAIN x.srv
          BY Zenon, <2>s, <4>1, <4>2, <5>1
        <5> QED  BY Zenon, <5>1, <5>2 DEF Excused
      <4>3. CASE q # r
        BY Zenon, <2>s, <4>1, <4>3 DEF Excused
      <4> QED  BY Zenon, <4>2, <4>3
    <3>5. st = "up" \/ Excused(proc, r, x, i)
      BY Zenon, <1>5, <2>4, <3>4
    <3>6. ASSUME NEW j \in DOMAIN x.srv, ~x.term
          PROVE  x.srv[j].st \in {"up", "none"} \/ Excused(proc, r, x, j)
      <4>1. CASE j = i
        BY Zenon, <2>s, <3>5, <4>1
      <4>2. CASE j # i
        BY Zenon, <2>s, <3>2, <3>3, <3>6, <4>2
      <4> QED  BY Zenon, <4>1, <4>2
    <3> QED  BY Zenon, <2>1, <3>6 DEF Serves
  <2> QED  BY Zenon, <2>2, <2>3, <2>4 DEF StepOK
<1>6. Fault => faults' # 0
  BY Zenon, FaultCount DEF Before
<1> QED  BY Zenon, <1>3, <1>4, <1>5, <1>6

(* A step that leaves the servers alone once they were started. *)
LEMMA ServingStep ==
    ASSUME NEW r, Before(r), proc[r].pc \in Serving, NEW x, Moves(r, x),
           Keeps(proc[r], x, {"pc", "opens", "root", "m", "torn", "dbg"}), x.pc \in Serving,
           IsManifest(x.m), IsManifest(x.root), Fault \/ NoFault,
           \/ x.pc \in {"servers", "waiting"}
           \/ proc[r].pc \notin {"servers", "waiting"}
           \/ Pending(proc[r]) = {}
    PROVE  StepOK(r)
<1>1. /\ x.srv = proc[r].srv /\ x.term = proc[r].term
      /\ Keeps(proc[r], x, {"pc", "conf", "opens", "root", "m", "torn", "dbg"})
  BY Zenon DEF Keeps, ProcFields
<1>2. /\ proc[r].pc \in Settled /\ x.pc \in Settled \ {"rendered"} /\ x.pc \notin Early
      /\ ProcInv(proc[r])
  BY Zenon DEF Settled, Early, Preparing, Serving, Before, Shape
<1>3. ProcInv(x) /\ PortsKept(proc[r], x) /\ LifeKept(proc[r], x)
  BY Zenon, <1>1, <1>2, SettledKeeps
<1>4. faults' = 0 => Serves(proc, r, proc[r])
  BY Zenon, FaultCount DEF Before
<1>5. faults' = 0 => Serves(proc, r, x)
  BY Zenon, <1>1, <1>4, ServesOn
<1> QED  BY Zenon, <1>3, <1>5 DEF StepOK

LEMMA EnvoySteps ==
    ASSUME NEW r, Before(r), NoFault,
           WaitReady(r) \/ ResolveDebugger(r) \/ InstallDelve(r) \/ StartEnvoy(r)
    PROVE  StepOK(r)
<1> DEFINE p == proc[r]
<1>1. p.pc \in Serving /\ ProcInv(p) /\ r \in Runs /\ Shape
  BY Zenon DEF WaitReady, ResolveDebugger, InstallDelve, StartEnvoy, ServersUp, Serving, Before, Shape
<1>2. CASE Set(r, Returned(p))
  BY Zenon, <1>1, <1>2, ReturnStep DEF Alive, Serving
<1>3. ASSUME NEW pc, NEW opens, NEW torn, NEW x,
             \/ x = [p EXCEPT !.pc = pc]
             \/ x = [p EXCEPT !.pc = pc, !.opens = opens]
             \/ x = [p EXCEPT !.pc = pc, !.root = Blank, !.m = Blank, !.torn = torn]
      PROVE  /\ Keeps(p, x, {"pc", "opens", "root", "m", "torn", "dbg"}) /\ x.pc = pc
             /\ IsManifest(x.m) /\ IsManifest(x.root)
  <2>1. /\ Keeps(p, x, {"pc", "opens", "root", "m", "torn", "dbg"}) /\ x.pc = pc
        /\ x.m \in {p.m, Blank} /\ x.root \in {p.root, Blank}
    BY Zenon, <1>1, <1>3 DEF Keeps, ProcInv, IsProc, ProcFields
  <2> QED  BY Zenon, <1>1, <2>1, Fields DEF ProcInv
<1>4. CASE WaitReady(r)
  <2>1. Set(r, Returned(p)) \/ Set(r, [p EXCEPT !.pc = "servers"])
    BY Zenon, <1>4 DEF WaitReady
  <2>2. "servers" \in Serving
    BY Zenon DEF Serving
  <2>3. ASSUME Set(r, [p EXCEPT !.pc = "servers"]) PROVE StepOK(r)
    <3> DEFINE x == [p EXCEPT !.pc = "servers"]
    <3>1. Moves(r, x)
      BY Zenon, <1>1, <2>3, SetMoves
    <3>2. /\ Keeps(p, x, {"pc", "opens", "root", "m", "torn", "dbg"}) /\ x.pc = "servers"
          /\ IsManifest(x.m) /\ IsManifest(x.root)
      BY Zenon, <1>3
    <3> HIDE DEF x
    <3> QED  BY Zenon, <1>1, <2>2, <3>1, <3>2, ServingStep
  <2> QED  BY Zenon, <1>2, <2>1, <2>3
<1>5. CASE ResolveDebugger(r)
  <2>1. \E pc \in {"delve", "launch"} : \E opens : Set(r, [p EXCEPT !.pc = pc, !.opens = opens])
    BY Zenon, <1>5 DEF ResolveDebugger
  <2>2. Pending(p) = {} /\ {"delve", "launch"} \subseteq Serving
    BY Zenon, <1>5 DEF ResolveDebugger, ServersUp, Serving
  <2>3. ASSUME NEW pc \in {"delve", "launch"}, NEW opens, Set(r, [p EXCEPT !.pc = pc, !.opens = opens])
        PROVE  StepOK(r)
    <3> DEFINE x == [p EXCEPT !.pc = pc, !.opens = opens]
    <3>1. Moves(r, x)
      BY Zenon, <1>1, <2>3, SetMoves
    <3>2. /\ Keeps(p, x, {"pc", "opens", "root", "m", "torn", "dbg"}) /\ x.pc = pc
          /\ IsManifest(x.m) /\ IsManifest(x.root)
      BY Zenon, <1>3
    <3> HIDE DEF x
    <3>3. x.pc \in Serving
      BY Zenon, <2>2, <3>2
    <3> QED  BY Zenon, <1>1, <2>2, <3>1, <3>2, <3>3, ServingStep
  <2> QED  BY Zenon, <2>1, <2>3
<1>6. CASE InstallDelve(r)
  <2>1. p.pc = "delve" /\ \E slots : Over(r, [p EXCEPT !.pc = "launch"], slots)
    BY Zenon, <1>6 DEF InstallDelve
  <2>2. "launch" \in Serving /\ "delve" \notin {"servers", "waiting"}
    BY Zenon DEF Serving
  <2> DEFINE x == [p EXCEPT !.pc = "launch"]
  <2>3. Moves(r, x)
    BY Zenon, <1>1, <2>1, OverMoves
  <2>4. /\ Keeps(p, x, {"pc", "opens", "root", "m", "torn", "dbg"}) /\ x.pc = "launch"
        /\ IsManifest(x.m) /\ IsManifest(x.root)
    BY Zenon, <1>3
  <2> HIDE DEF x
  <2> QED  BY Zenon, <1>1, <2>1, <2>2, <2>3, <2>4, ServingStep
<1>7. CASE StartEnvoy(r)
  <2>1. Set(r, Returned(p))
        \/ \E torn : Set(r, [p EXCEPT !.pc = "envoy", !.root = Blank, !.m = Blank, !.torn = torn])
    BY Zenon, <1>7 DEF StartEnvoy
  <2>2. (p.pc = "launch" \/ Pending(p) = {}) /\ "envoy" \in Serving /\ "launch" \notin {"servers", "waiting"}
    BY Zenon, <1>7 DEF StartEnvoy, ServersUp, Serving
  <2>3. ASSUME NEW torn, Set(r, [p EXCEPT !.pc = "envoy", !.root = Blank, !.m = Blank, !.torn = torn])
        PROVE  StepOK(r)
    <3> DEFINE x == [p EXCEPT !.pc = "envoy", !.root = Blank, !.m = Blank, !.torn = torn]
    <3>1. Moves(r, x)
      BY Zenon, <1>1, <2>3, SetMoves
    <3>2. /\ Keeps(p, x, {"pc", "opens", "root", "m", "torn", "dbg"}) /\ x.pc = "envoy"
          /\ IsManifest(x.m) /\ IsManifest(x.root)
      BY Zenon, <1>3
    <3> HIDE DEF x
    <3> QED  BY Zenon, <1>1, <2>2, <3>1, <3>2, ServingStep
  <2> QED  BY Zenon, <1>2, <2>1, <2>3
<1> QED  BY Zenon, <1>4, <1>5, <1>6, <1>7

(* Another state of the debug server. *)
LEMMA DebugServer ==
    ASSUME NEW p, ProcInv(p), NEW dbg
    PROVE  LET x == [p EXCEPT !.dbg = dbg] IN
           /\ Keeps(p, x, {"dbg"}) /\ x.dbg = dbg /\ IsManifest(x.m) /\ IsManifest(x.root)
           /\ (dbg = "down" \/ p.pc = "envoy") => ProcInv(x)
<1> DEFINE x == [p EXCEPT !.dbg = dbg]
<1>1. Keeps(p, x, {"dbg"}) /\ x.dbg = dbg
  BY Zenon DEF Keeps, ProcInv, IsProc, ProcFields
<1> HIDE DEF x
<1>2. /\ IsProc(x) /\ x.term = p.term /\ x.exts = p.exts /\ x.version = p.version /\ x.srv = p.srv
      /\ x.cmd = p.cmd /\ x.art = p.art /\ x.m = p.m /\ x.root = p.root /\ x.tmp = p.tmp
      /\ x.crashed = p.crashed /\ x.pc = p.pc
  BY Zenon, <1>1 DEF Keeps, ProcFields
<1>3. VersionFits(p) => VersionFits(x)
  BY Zenon, <1>2 DEF VersionFits, Ext
<1>4. dbg = "down" /\ NothingLeft(p) => NothingLeft(x)
  BY Zenon, <1>1, <1>2 DEF NothingLeft
<1>5. (dbg = "down" \/ p.pc = "envoy") => ProcInv(x)
  BY Zenon, <1>2, <1>3, <1>4 DEF ProcInv
<1> QED  BY Zenon, <1>1, <1>2, <1>5 DEF ProcInv, x

LEMMA DebuggerSteps ==
    ASSUME NEW r, Before(r), AttachDebugger(r) \/ (DebuggerExits(r) /\ NoFault)
    PROVE  StepOK(r)
<1> DEFINE p == proc[r]
           X(dbg) == [p EXCEPT !.dbg = dbg]
<1>0. ProcInv(p) /\ r \in Runs /\ Shape
  BY Zenon DEF Before, Shape
<1>1. CASE DebuggerExits(r) /\ NoFault
  <2>1. Set(r, X("down"))
    BY Zenon, <1>1 DEF DebuggerExits
  <2> DEFINE x == X("down")
  <2>2. ProcInv(x) /\ Keeps(p, x, {"dbg"})
    BY Zenon, <1>0, DebugServer
  <2>3. Moves(r, x)
    BY Zenon, <1>0, <2>1, SetMoves
  <2> HIDE DEF x
  <2>4. x.srv = p.srv /\ x.term = p.term /\ x.pc = p.pc
    BY Zenon, <2>2 DEF Keeps, ProcFields
  <2>5. PortsKept(p, x) /\ LifeKept(p, x)
    BY Zenon, <2>4 DEF PortsKept, LifeKept
  <2>6. faults' = 0 => Serves(proc, r, p)
    BY Zenon, <1>1, FaultCount DEF Before
  <2>7. Serves(proc, r, p) => Serves(proc, r, x)
    BY Zenon, <2>4 DEF Serves, Excused
  <2> QED  BY Zenon, <2>2, <2>3, <2>5, <2>6, <2>7 DEF StepOK
<1>2. CASE AttachDebugger(r)
  <2> DEFINE x == X("up")
  <2>1. /\ p.pc = "envoy" /\ (Fault \/ NoFault)
        /\ (Set(r, x) \/ Set(r, Returned(x)))
    BY Zenon, <1>2 DEF AttachDebugger
  <2>2. ProcInv(x) /\ Keeps(p, x, {"dbg"}) /\ IsManifest(x.m) /\ IsManifest(x.root)
    BY Zenon, <1>0, <2>1, DebugServer
  <2> HIDE DEF x
  <2>3. x.srv = p.srv /\ x.term = p.term /\ x.pc = p.pc
    BY Zenon, <2>2 DEF Keeps, ProcFields
  <2>4. CASE Set(r, x)
    <3>1. Keeps(p, x, {"pc", "opens", "root", "m", "torn", "dbg"}) /\ p.pc \in Serving
      BY Zenon, <2>1, <2>2 DEF Keeps, Serving
    <3> QED  BY Zenon, <1>0, <2>1, <2>2, <2>3, <2>4, <3>1, SetMoves, ServingStep
  <2>5. CASE Set(r, Returned(x))
    <3>1. Moves(r, Returned(x))
      BY Zenon, <1>0, <2>5, SetMoves
    <3>2. x.pc \notin {"idle", "ended"}
      BY Zenon, <2>1, <2>3
    <3>3. /\ ProcInv(Returned(x)) /\ PortsKept(x, Returned(x)) /\ LifeKept(x, Returned(x))
          /\ Returned(x).pc \notin Serving
      BY Zenon, <2>2, <3>2, ReturnedProc DEF Serving
    <3>4. PortsKept(p, Returned(x)) /\ LifeKept(p, Returned(x)) /\ Serves(proc, r, Returned(x))
      BY Zenon, <2>3, <3>3 DEF PortsKept, LifeKept, Serves
    <3> QED  BY Zenon, <3>1, <3>3, <3>4 DEF StepOK
  <2> QED  BY Zenon, <2>1, <2>4, <2>5
<1> QED  BY Zenon, <1>1, <1>2

LEMMA ServerExitStep ==
    ASSUME NEW r, Before(r), ServerExits(r), NoFault
    PROVE  StepOK(r)
<1> DEFINE p == proc[r]
<1>0. ProcInv(p) /\ r \in Runs /\ Shape
  BY Zenon DEF Before, Shape
<1>1. PICK i \in DOMAIN p.srv : p.srv[i].st = "term" /\ Set(r, [p EXCEPT !.srv[i].st = "down"])
  BY Zenon DEF ServerExits
<1> DEFINE x == [p EXCEPT !.srv[i].st = "down"]
<1>2. OneServer(p, x, i, "down") /\ x.pc = p.pc
  <2>1. Keeps(p, x, {"pc", "srv"}) /\ x.srv = [p.srv EXCEPT ![i].st = "down"] /\ x.pc = p.pc
    BY Zenon, <1>0 DEF Keeps, ProcInv, IsProc, ProcFields
  <2> HIDE DEF x
  <2> QED  BY Zenon, <1>0, <2>1, ServerMoves
<1>3. Moves(r, x)
  BY Zenon, <1>0, <1>1, SetMoves
<1> HIDE DEF x
<1>4. /\ ProcInv(x) /\ PortsKept(p, x) /\ LifeKept(p, x)
      /\ \A j : Excused(proc, r, p, j) /\ j \in DOMAIN p.srv => Excused(proc, r, x, j)
  BY Zenon, <1>0, <1>2, ServerMovesKeeps
<1>5. ASSUME Serves(proc, r, p) PROVE Serves(proc, r, x)
  <2>1. /\ x.term = p.term /\ DOMAIN x.srv = DOMAIN p.srv
        /\ \A j \in DOMAIN p.srv \ {i} : x.srv[j] = p.srv[j]
    BY Zenon, <1>2 DEF OneServer, Keeps, ProcFields
  <2>2. ASSUME p.pc \in Serving, ~p.term PROVE Excused(proc, r, p, i)
    BY Zenon, <1>1, <1>5, <2>2 DEF Serves
  <2> QED  BY Zenon, <1>2, <1>4, <1>5, <2>1, <2>2 DEF Serves
<1>6. faults' = 0 => Serves(proc, r, p)
  BY Zenon, FaultCount DEF Before
<1> QED  BY Zenon, <1>3, <1>4, <1>5, <1>6 DEF StepOK

(* Every step of a process, the ones that fail included. *)
LEMMA RunStepOK ==
    ASSUME NEW r, Before(r), RunSteps(r)
    PROVE  StepOK(r) /\ (Fault \/ NoFault)
<1>0. r \in Runs /\ Shape
  BY Zenon DEF Before
<1>1. ASSUME StepFails(r), Alive(r) PROVE StepOK(r) /\ (Fault \/ NoFault)
  BY Zenon, <1>1, ReturnStep DEF StepFails
<1>2. CASE PreparationFails(r)
  BY Zenon, <1>1, <1>2 DEF PreparationFails, Alive
<1>3. CASE DebuggerFails(r)
  BY Zenon, <1>1, <1>3 DEF DebuggerFails, Alive, ServersUp
<1>4. CASE AttachDebugger(r)
  BY Zenon, <1>4, DebuggerSteps DEF AttachDebugger
<1>5. CASE StartServer(r)
  BY Zenon, <1>5, StartServerStep DEF StartServer
<1>6. CASE (EnvoyReturns(r) \/ Close(r)) /\ NoFault
  BY Zenon, <1>6, ReturnStep DEF EnvoyReturns, Close, Alive
<1>7. CASE (DebuggerExits(r) \/ ServerExits(r) \/ WaitReady(r) \/ ResolveDebugger(r) \/ InstallDelve(r)
            \/ StartEnvoy(r) \/ Export(r) \/ RunDocker(r) \/ Link(r) \/ Configure(r)) /\ NoFault
  BY Zenon, <1>7, DebuggerSteps, ServerExitStep, EnvoySteps, ExportStep, DockerStep, LinkStep, ConfigureStep
<1>8. CASE (DownloadExtension(r) \/ Downloaded(r) \/ loadLocalManifests(r) \/ handleExtensionSource(r)
            \/ Copied(r) \/ CheckLite(r) \/ LitePulled(r) \/ BuildLite(r) \/ InheritFromComposer(r)) /\ NoFault
  <2>1. PrepStep(r)
    BY Zenon, <1>0, <1>8, DownloadBegins, DownloadEnds, LocalLoads, SourceBuilds, CopyEnds, LiteSteps,
       PluginInherits
  <2>2. proc[r].pc \in Preparing
    BY Zenon, <1>8 DEF DownloadExtension, Downloaded, loadLocalManifests, handleExtensionSource, Copied,
       CheckLite, LitePulled, BuildLite, InheritFromComposer, Preparing
  <2>3. Alive(r)
    BY Zenon, <2>2 DEF Alive, Preparing
  <2> QED  BY Zenon, <1>8, <2>1, <2>3, PrepStepOK
<1> QED  BY Zenon, <1>2, <1>3, <1>4, <1>5, <1>6, <1>7, <1>8 DEF RunSteps

LEMMA CrashStep ==
    ASSUME NEW r, Before(r), Crash(r)
    PROVE  StepOK(r) /\ Fault
<1> DEFINE p == proc[r]
           x == [Ended(p) EXCEPT !.crashed = TRUE, !.tmp = p.tmp]
<1>1. ProcInv(p) /\ r \in Runs /\ Shape /\ p.pc \notin {"idle", "ended"} /\ Fault /\ Moves(r, x)
  BY Zenon, SetMoves DEF Crash, Before, Shape, Alive
<1>2. /\ IsProc(x) /\ x.pc = "ended" /\ x.srv = p.srv /\ x.crashed = TRUE
      /\ x.m = Blank /\ x.root = Blank /\ x.art = Missing
  <2>1. IsProc(Idle) /\ Idle.m = Blank /\ Idle.root = Blank /\ Idle.art = Missing
    BY Zenon, IdleProc DEF Idle
  <2> DEFINE e == Ended(p)
  <2>2. /\ IsProc(e) /\ e.pc = "ended" /\ e.srv = p.srv
        /\ e.m = Blank /\ e.root = Blank /\ e.art = Missing
    BY Zenon, <2>1 DEF IsProc, ProcFields, Ended
  <2> HIDE DEF e
  <2>3. x = [e EXCEPT !.crashed = TRUE, !.tmp = p.tmp]
    BY Zenon DEF e
  <2> HIDE DEF x
  <2> QED  BY Zenon, <2>2, <2>3 DEF IsProc, ProcFields
<1> HIDE DEF x
<1>3. x.pc \notin Early \cup Preparing \cup Serving \cup {"rendered", "exported"}
  BY Zenon, <1>2 DEF Early, Preparing, Serving
<1>4. ProcInv(x) /\ PortsKept(p, x) /\ LifeKept(p, x) /\ Serves(proc, r, x)
  BY Zenon, <1>1, <1>2, <1>3, Fields DEF ProcInv, PortsKept, LifeKept, Serves
<1> QED  BY Zenon, <1>1, <1>4 DEF StepOK

(* SIGTERM to the group of process k. *)
LEMMA SignalStep ==
    ASSUME NEW k, Before(k), proc' = killProcessGroup(k), NoFault
    PROVE  /\ StepOK(k) /\ proc'[k].pc = proc[k].pc
           /\ Alive(k) => proc'[k].term
           /\ \A q \in Runs \ {k} : proc'[q] = proc[q]
<1> DEFINE p == proc[k]
           x == Signalled(p)
<1>1. ProcInv(p) /\ k \in Runs /\ Shape /\ Set(k, x)
  BY Zenon DEF Before, Shape, killProcessGroup, Set
<1>2. Moves(k, x) /\ proc'[k] = x /\ \A q \in Runs \ {k} : proc'[q] = proc[q]
  BY Zenon, <1>1, SetMoves DEF Moves, Set, Shape
<1>3. faults' = 0 => Serves(proc, k, p)
  BY Zenon, FaultCount DEF Before
<1>4. CASE p.pc \in {"idle", "ended"}
  <2>1. x = p
    BY Zenon, <1>4 DEF Signalled
  <2>2. PortsKept(p, p) /\ LifeKept(p, p)
    BY Zenon DEF PortsKept, LifeKept
  <2> QED  BY Zenon, <1>1, <1>2, <1>3, <1>4, <2>1, <2>2 DEF StepOK, Alive
<1>5. CASE p.pc \notin {"idle", "ended"}
  <2> DEFINE dbg == IF p.dbg = "up" THEN "term" ELSE p.dbg
  <2>1. x = [p EXCEPT !.term = TRUE, !.srv = Stopped(p.srv), !.dbg = dbg]
    BY Zenon, <1>1, <1>5 DEF Signalled, ProcInv, IsProc, ProcFields
  <2> HIDE DEF dbg, x
  <2>2. /\ IsProc(x) /\ x.pc = p.pc /\ x.term = TRUE /\ x.srv = Stopped(p.srv) /\ x.cmd = p.cmd
        /\ x.m = p.m /\ x.root = p.root /\ x.art = p.art /\ x.exts = p.exts /\ x.version = p.version
    BY Zenon, <1>1, <2>1 DEF ProcInv, IsProc, ProcFields
  <2>3. ServersTyped(p.srv)
    BY Zenon, <1>1 DEF ProcInv
  <2>4. VersionFits(p) => VersionFits(x)
    BY Zenon, <2>2 DEF VersionFits, Ext
  <2>5. ProcInv(x)
    BY Zenon, <1>1, <1>5, <2>2, <2>3, <2>4, StoppedServers DEF ProcInv
  <2>6. PortsKept(p, x) /\ LifeKept(p, x) /\ Serves(proc, k, x)
    <3>1. PortsKept(p, x)
      <4>1. DOMAIN x.srv = DOMAIN p.srv /\ \A i \in DOMAIN p.srv : x.srv[i].port = p.srv[i].port
        BY SMT, <2>2, <2>3, StoppedServers
      <4> QED  BY Zenon, <4>1 DEF PortsKept
    <3> QED  BY Zenon, <1>5, <2>2, <3>1 DEF LifeKept, Serves
  <2> QED  BY Zenon, <1>2, <2>2, <2>5, <2>6 DEF StepOK
<1> QED  BY Zenon, <1>4, <1>5

(* A process that starts. *)
LEMMA LaunchedProc ==
    ASSUME NEW c
    PROVE  /\ ProcInv(Launched(c)) /\ Launched(c).pc \notin Serving
<1> DEFINE x == Launched(c)
<1>1. /\ Idle.srv = <<>> /\ Idle.m = Blank /\ Idle.root = Blank /\ Idle.art = Missing
      /\ Idle.exts = <<>>
  BY Zenon DEF Idle
<1>2. /\ IsProc(x) /\ x.pc \in {"docker", "next"} /\ x.srv = <<>> /\ x.exts = <<>>
      /\ x.m = Blank /\ x.root = Blank /\ x.art = Missing
  BY Zenon, <1>1, IdleProc DEF Launched, IsProc, ProcFields
<1> HIDE DEF x
<1>3. x.pc \notin Serving \cup {"rendered", "exported", "ended"}
  BY Zenon, <1>2 DEF Serving
<1>4. ProcInv(x)
  BY Zenon, <1>2, <1>3, NoServers, IdleProc, Fields DEF ProcInv
<1> QED  BY Zenon, <1>3, <1>4 DEF x

-------------------------------------------------------------------------------
(* The other processes, and the requests. *)

(* What a process is does not depend on what was written over. *)
LEMMA SameProc ==
    ASSUME NEW p, ProcInv(p), NEW x, Keeps(p, x, {"clobbered"})
    PROVE  /\ ProcInv(x) /\ PortsKept(p, x)
           /\ \A r : Serves(proc, r, p) => Serves(proc, r, x)
<1>1. /\ IsProc(x) /\ x.term = p.term /\ x.exts = p.exts /\ x.version = p.version /\ x.srv = p.srv
      /\ x.cmd = p.cmd /\ x.art = p.art /\ x.m = p.m /\ x.root = p.root /\ x.tmp = p.tmp
      /\ x.crashed = p.crashed /\ x.pc = p.pc /\ x.dbg = p.dbg
  BY Zenon DEF Keeps, ProcFields
<1>2. VersionFits(p) => VersionFits(x)
  BY Zenon, <1>1 DEF VersionFits, Ext
<1>3. NothingLeft(p) => NothingLeft(x)
  BY Zenon, <1>1 DEF NothingLeft
<1>4. ProcInv(x)
  BY Zenon, <1>1, <1>2, <1>3 DEF ProcInv
<1>5. PortsKept(p, x)
  BY Zenon, <1>1 DEF PortsKept
<1>6. ASSUME NEW r, Serves(proc, r, p) PROVE Serves(proc, r, x)
  <2>1. \A i : Excused(proc, r, p, i) => Excused(proc, r, x, i)
    BY Zenon, <1>1 DEF Excused
  <2> QED  BY Zenon, <1>1, <1>6, <2>1 DEF Serves
<1> QED  BY Zenon, <1>4, <1>5, <1>6

(* A step of one process keeps what is said of all. *)
LEMMA ProcsKept ==
    ASSUME ProcsInv, NEW r \in Runs, NEW x, Moves(r, x), ProcInv(x), PortsKept(proc[r], x),
           faults' = 0 => Serves(proc, r, x), Fault \/ NoFault
    PROVE  ProcsInv'
<1>1. faults' \in Nat /\ (faults' = 0 => faults = 0)
  BY Zenon, FaultCount DEF ProcsInv
<1>2. ASSUME NEW q \in Runs, q # r PROVE Keeps(proc[q], proc'[q], {"clobbered"}) /\ ProcInv(proc[q])
  BY Zenon, <1>2 DEF Moves, Keeps, ProcsInv, Shape
<1>3. \A q \in Runs : /\ ProcInv(proc'[q]) /\ PortsKept(proc[q], proc'[q])
                      /\ faults' = 0 => Serves(proc, q, proc'[q])
  <2> TAKE q \in Runs
  <2>1. CASE q = r
    BY Zenon, <2>1 DEF Moves
  <2>2. CASE q # r
    BY Zenon, <1>1, <1>2, <2>2, SameProc DEF ProcsInv
  <2> QED  BY Zenon, <2>1, <2>2
<1>4. ASSUME NEW q \in Runs, Serves(proc, q, proc'[q]) PROVE Serves(proc', q, proc'[q])
  <2>1. ASSUME NEW i, Excused(proc, q, proc'[q], i) PROVE Excused(proc', q, proc'[q], i)
    <3>1. CASE \E j \in DOMAIN proc'[q].srv : j # i /\ proc'[q].srv[j].port = proc'[q].srv[i].port
      BY Zenon, <3>1 DEF Excused
    <3>2. ASSUME NEW o \in Runs \ {q}, NEW j \in DOMAIN proc[o].srv,
                 proc[o].srv[j].port = proc'[q].srv[i].port
          PROVE  Excused(proc', q, proc'[q], i)
      <4>1. j \in DOMAIN proc'[o].srv /\ proc'[o].srv[j].port = proc[o].srv[j].port
        BY Zenon, <1>3 DEF PortsKept
      <4> QED  BY Zenon, <3>2, <4>1 DEF Excused
    <3> QED  BY Zenon, <2>1, <3>1, <3>2 DEF Excused
  <2> QED  BY Zenon, <1>4, <2>1 DEF Serves
<1>5. Shape'
  BY Zenon, <1>3 DEF Shape, Moves
<1> QED  BY Zenon, <1>1, <1>3, <1>4, <1>5 DEF ProcsInv

(* A process that did not run gets to run, or is a command that has ended.   *)
LEMMA FreshProc ==
    ASSUME ProcsInv, NEW r \in Runs, proc[r].pc = "idle", NEW x, Moves(r, x), ProcInv(x),
           x.pc \notin Serving, NoFault
    PROVE  ProcsInv'
<1>1. proc[r].srv = <<>>
  BY Zenon DEF ProcsInv, Shape, ProcInv, Early
<1>2. PortsKept(proc[r], x) /\ Serves(proc, r, x)
  BY Zenon, <1>1, NoServers DEF PortsKept, Serves
<1> QED  BY Zenon, <1>2, ProcsKept

(* What one process does on its own does not concern the requests. *)
LEMMA OwnSteps ==
    ASSUME BoeInv, NEW r \in Runs, StepOK(r), Fault \/ NoFault, UNCHANGED <<running, req>>
    PROVE  BoeInv'
<1>1. PICK x : /\ Moves(r, x) /\ ProcInv(x) /\ PortsKept(proc[r], x) /\ LifeKept(proc[r], x)
               /\ faults' = 0 => Serves(proc, r, x)
  BY Zenon DEF StepOK
<1>2. ProcsInv'
  BY Zenon, <1>1, ProcsKept DEF BoeInv
<1>3. \A q \in Runs : ReqOK(req[q], proc'[q], running, q)
  <2> TAKE q \in Runs
  <2>1. ReqOK(req[q], proc[q], running, q)
    BY Zenon DEF BoeInv
  <2>2. CASE q = r
    BY Zenon, <1>1, <2>1, <2>2 DEF ReqOK, LifeKept, Moves
  <2>3. CASE q # r
    <3>1. proc'[q].pc = proc[q].pc /\ proc'[q].term = proc[q].term
      BY Zenon, <1>1, <2>3 DEF Moves, ProcFields
    <3> QED  BY Zenon, <2>1, <3>1 DEF ReqOK
  <2> QED  BY Zenon, <2>2, <2>3
<1> QED  BY Zenon, <1>2, <1>3 DEF BoeInv

LEMMA BeforeAll == ASSUME BoeInv, NEW r \in Runs PROVE Before(r)
  BY Zenon DEF BoeInv, ProcsInv, Before

LEMMA SignalKeeps ==
    ASSUME BoeInv, NEW k \in Runs, proc' = killProcessGroup(k), NoFault
    PROVE  /\ ProcsInv'
           /\ proc'[k].pc = proc[k].pc /\ (Alive(k) => proc'[k].term)
           /\ \A q \in Runs \ {k} : proc'[q] = proc[q]
<1>1. /\ StepOK(k) /\ proc'[k].pc = proc[k].pc /\ (Alive(k) => proc'[k].term)
      /\ \A q \in Runs \ {k} : proc'[q] = proc[q]
  BY Zenon, BeforeAll, SignalStep
<1> QED  BY Zenon, <1>1, ProcsKept DEF StepOK, BoeInv

LEMMA UnusedIdle ==
    ASSUME NEW r \in Runs, Unused(r)
    PROVE  req[r].pc = "idle" /\ proc[r].pc = "idle"
<1>1. r <= r
  BY BoeAssumption
<1> QED  BY Zenon, <1>1 DEF Unused

LEMMA RunHandled ==
    ASSUME BoeInv, NEW r \in Runs, handleRun(r)
    PROVE  BoeInv'
<1>0. req[r].pc = "idle" /\ proc[r].pc = "idle" /\ NoFault /\ running' = r
  BY Zenon, UnusedIdle DEF handleRun, NoFault
<1>1. PICK body : req' = [q \in Runs |->
                   IF q = r THEN [NoRequest EXCEPT !.pc = "registered", !.cmd = buildArgs(body)]
                   ELSE IF q = running /\ req[q].pc = "registered" THEN [req[q] EXCEPT !.late = TRUE]
                   ELSE req[q]]
  BY Zenon DEF handleRun
<1>2. /\ ProcsInv' /\ \A q \in Runs : proc'[q].pc = proc[q].pc
      /\ \A q \in Runs : q # running => proc'[q] = proc[q]
      /\ running \in Runs => (Alive(running) => proc'[running].term)
  <2>1. CASE running = None
    <3>1. proc' = proc /\ running \notin Runs
      BY Zenon, <2>1, BoeAssumption DEF handleRun
    <3>2. ProcsInv'
      BY Zenon, <1>0, <3>1 DEF BoeInv, ProcsInv, Shape, NoFault
    <3> QED  BY Zenon, <3>1, <3>2
  <2>2. CASE running # None
    <3>1. running \in Runs /\ proc' = killProcessGroup(running)
      BY Zenon, <2>2 DEF BoeInv, handleRun
    <3> QED  BY Zenon, <1>0, <3>1, SignalKeeps
  <2> QED  BY Zenon, <2>1, <2>2
<1>3. ASSUME NEW q \in Runs PROVE ReqOK(req'[q], proc'[q], r, q)
  <2>1. ReqOK(req[q], proc[q], running, q)
    BY Zenon DEF BoeInv
  <2>2. CASE q = r
    <3>1. req'[q] = [NoRequest EXCEPT !.pc = "registered", !.cmd = buildArgs(body)]
      BY Zenon, <1>1, <2>2
    <3>2. req'[q] = [f \in ReqFields |-> req'[q][f]] /\ req'[q].pc = "registered"
      BY Zenon, <3>1 DEF NoRequest, ReqFields
    <3> QED  BY Zenon, <1>0, <1>2, <2>2, <3>2 DEF ReqOK
  <2>3. CASE q # r /\ q = running /\ req[q].pc = "registered"
    <3>1. req'[q] = [req[q] EXCEPT !.late = TRUE]
      BY Zenon, <1>1, <2>3
    <3>2. /\ req'[q] = [f \in ReqFields |-> req'[q][f]] /\ req'[q].late = TRUE
          /\ req'[q].pc = req[q].pc
      BY Zenon, <2>1, <3>1 DEF ReqOK, ReqFields
    <3> QED  BY Zenon, <1>2, <2>1, <2>3, <3>2 DEF ReqOK
  <2>4. CASE q # r /\ q = running /\ req[q].pc # "registered"
    <3>1. req'[q] = req[q]
      BY Zenon, <1>1, <2>4
    <3> QED  BY Zenon, <1>2, <2>1, <2>4, <3>1 DEF ReqOK, Alive
  <2>5. CASE q # r /\ q # running
    <3>1. req'[q] = req[q]
      BY Zenon, <1>1, <2>5
    <3> QED  BY Zenon, <1>2, <2>1, <2>5, <3>1 DEF ReqOK
  <2> QED  BY Zenon, <2>2, <2>3, <2>4, <2>5
<1>4. req' = [q \in Runs |-> req'[q]]
  BY Zenon, <1>1
<1> QED  BY Zenon, <1>0, <1>2, <1>3, <1>4 DEF BoeInv

(* A request moves on while its process and the registration stay. *)
LEMMA RequestEdit ==
    ASSUME NEW q, NEW p, NEW run, NEW r, ReqOK(q, p, run, r), NEW pc, NEW x, x = [q EXCEPT !.pc = pc]
    PROVE  x = [f \in ReqFields |-> x[f]] /\ x.pc = pc /\ x.late = q.late
  BY Zenon DEF ReqOK, ReqFields

LEMMA RequestCancel ==
    ASSUME NEW q, NEW p, NEW run, NEW r, ReqOK(q, p, run, r), NEW b, NEW x, x = [q EXCEPT !.cancelled = b]
    PROVE  x = [f \in ReqFields |-> x[f]] /\ x.pc = q.pc /\ x.late = q.late /\ x.cancelled = b
  BY Zenon DEF ReqOK, ReqFields

LEMMA StartHandled ==
    ASSUME BoeInv, NEW r \in Runs, Start(r)
    PROVE  BoeInv'
<1>0. /\ req[r].pc = "registered" /\ NoFault /\ running' = running
      /\ ReqOK(req[r], proc[r], running, r)
  BY Zenon DEF Start, NoFault, BoeInv
<1>1. CASE req[r].cancelled
  <2>1. req' = [req EXCEPT ![r].pc = "returning"] /\ proc' = proc
    BY Zenon, <1>1 DEF Start
  <2>2. ProcsInv'
    BY Zenon, <1>0, <2>1 DEF BoeInv, ProcsInv, Shape, NoFault
  <2>3. /\ req' = [q \in Runs |-> req'[q]] /\ req'[r] = [req[r] EXCEPT !.pc = "returning"]
        /\ \A q \in Runs \ {r} : req'[q] = req[q]
    BY Zenon, <2>1 DEF BoeInv
  <2>4. req'[r] = [f \in ReqFields |-> req'[r][f]] /\ req'[r].pc = "returning"
    BY SMT, <1>0, <2>3, RequestEdit
  <2>5. \A q \in Runs : ReqOK(req'[q], proc'[q], running', q)
    <3>1. ReqOK(req'[r], proc[r], running, r)
      BY Zenon, <2>4 DEF ReqOK
    <3> QED  BY Zenon, <1>0, <2>1, <2>3, <3>1 DEF BoeInv
  <2> QED  BY Zenon, <1>0, <2>2, <2>3, <2>5 DEF BoeInv
<1>2. CASE ~req[r].cancelled
  <2>1. req' = [req EXCEPT ![r].pc = "streaming"] /\ Set(r, Launched(req[r].cmd))
    BY Zenon, <1>2 DEF Start
  <2>2. Moves(r, Launched(req[r].cmd))
    BY Zenon, <2>1, SetMoves DEF BoeInv, ProcsInv
  <2>3. ProcsInv'
    BY Zenon, <1>0, <2>2, LaunchedProc, FreshProc DEF BoeInv, ReqOK
  <2>4. /\ req' = [q \in Runs |-> req'[q]] /\ req'[r] = [req[r] EXCEPT !.pc = "streaming"]
        /\ \A q \in Runs \ {r} : req'[q] = req[q] /\ proc'[q] = proc[q]
    BY Zenon, <2>1 DEF BoeInv, Set, ProcsInv, Shape
  <2>5. req'[r] = [f \in ReqFields |-> req'[r][f]] /\ req'[r].pc = "streaming" /\ req'[r].late = req[r].late
    BY SMT, <1>0, <2>4, RequestEdit
  <2>6. running = r \/ req[r].late
    BY Zenon, <1>0, <1>2 DEF ReqOK
  <2>7. \A q \in Runs : ReqOK(req'[q], proc'[q], running', q)
    <3>1. ReqOK(req'[r], proc'[r], running, r)
      BY Zenon, <2>5, <2>6 DEF ReqOK
    <3>2. \A q \in Runs \ {r} : ReqOK(req[q], proc[q], running, q)
      BY Zenon DEF BoeInv
    <3> QED  BY Zenon, <1>0, <2>4, <3>1, <3>2
  <2> QED  BY Zenon, <1>0, <2>3, <2>4, <2>7 DEF BoeInv
<1> QED  BY Zenon, <1>1, <1>2

LEMMA StreamHandled ==
    ASSUME BoeInv, NEW r \in Runs, StreamEnds(r) \/ ScanFails(r)
    PROVE  BoeInv'
<1>1. req' = [req EXCEPT ![r].pc = "returning"] /\ proc' = proc /\ faults' = faults /\ running' = running
  BY Zenon DEF StreamEnds, ScanFails, boeVars
<1>2. ProcsInv'
  BY Zenon, <1>1 DEF BoeInv, ProcsInv, Shape
<1>3. /\ req' = [q \in Runs |-> req'[q]] /\ req'[r] = [req[r] EXCEPT !.pc = "returning"]
      /\ \A q \in Runs \ {r} : req'[q] = req[q]
  BY Zenon, <1>1 DEF BoeInv
<1>4. req'[r] = [f \in ReqFields |-> req'[r][f]] /\ req'[r].pc = "returning"
  BY SMT, <1>3, RequestEdit DEF BoeInv
<1>5. \A q \in Runs : ReqOK(req'[q], proc'[q], running', q)
  <2>1. ReqOK(req'[r], proc[r], running, r)
    BY Zenon, <1>4 DEF ReqOK
  <2> QED  BY Zenon, <1>1, <1>3, <2>1 DEF BoeInv
<1> QED  BY Zenon, <1>1, <1>2, <1>3, <1>5 DEF BoeInv

LEMMA ReturnHandled ==
    ASSUME BoeInv, NEW r \in Runs, Return(r)
    PROVE  BoeInv'
<1>1. /\ proc' = killProcessGroup(r) /\ NoFault /\ req' = [req EXCEPT ![r] = [NoRequest EXCEPT !.pc = "done"]]
      /\ running' = IF running = r THEN None ELSE running
  BY Zenon DEF Return, NoFault
<1>2. ProcsInv' /\ \A q \in Runs \ {r} : proc'[q] = proc[q]
  BY Zenon, <1>1, SignalKeeps
<1>3. /\ req' = [q \in Runs |-> req'[q]] /\ req'[r] = [NoRequest EXCEPT !.pc = "done"]
      /\ \A q \in Runs \ {r} : req'[q] = req[q]
  BY Zenon, <1>1 DEF BoeInv
<1>4. req'[r] = [f \in ReqFields |-> req'[r][f]] /\ req'[r].pc = "done"
  BY Zenon, <1>3 DEF NoRequest, ReqFields
<1>5. ASSUME NEW q \in Runs \ {r} PROVE ReqOK(req'[q], proc'[q], running', q)
  BY Zenon, <1>1, <1>2, <1>3 DEF ReqOK, BoeInv
<1>6. ReqOK(req'[r], proc'[r], running', r)
  BY Zenon, <1>4 DEF ReqOK
<1>7. running' \in Runs \cup {None}
  BY Zenon, <1>1 DEF BoeInv
<1> QED  BY Zenon, <1>2, <1>3, <1>5, <1>6, <1>7 DEF BoeInv

(* A request whose context is cancelled and whose process is signalled needs *)
(* no registration.                                                          *)
LEMMA CancelHandled ==
    ASSUME BoeInv, NEW r \in Runs, proc' = killProcessGroup(r), req' = Cancelled(r), NoFault,
           running' = running \/ (running = r /\ running' = None)
    PROVE  BoeInv'
<1>1. /\ ProcsInv' /\ \A q \in Runs \ {r} : proc'[q] = proc[q]
      /\ proc'[r].pc = proc[r].pc /\ (Alive(r) => proc'[r].term)
  BY Zenon, SignalKeeps
<1>2. /\ req' = [q \in Runs |-> req'[q]]
      /\ req'[r] = [req[r] EXCEPT !.cancelled = (req[r].pc = "registered")]
      /\ \A q \in Runs \ {r} : req'[q] = req[q]
  BY Zenon DEF BoeInv, Cancelled
<1>3. ReqOK(req[r], proc[r], running, r)
  BY Zenon DEF BoeInv
<1>4. /\ req'[r] = [f \in ReqFields |-> req'[r][f]] /\ req'[r].pc = req[r].pc
      /\ req'[r].cancelled = (req[r].pc = "registered")
  BY SMT, <1>2, <1>3, RequestCancel
<1>5. ReqOK(req'[r], proc'[r], running', r)
  BY Zenon, <1>1, <1>3, <1>4 DEF ReqOK, Alive
<1>6. ASSUME NEW q \in Runs \ {r} PROVE ReqOK(req'[q], proc'[q], running', q)
  <2>1. ReqOK(req[q], proc[q], running, q) /\ req'[q] = req[q] /\ proc'[q] = proc[q]
    BY Zenon, <1>1, <1>2 DEF BoeInv
  <2>2. running = q => running' = q
    BY Zenon
  <2> QED  BY Zenon, <2>1, <2>2 DEF ReqOK
<1>7. running' \in Runs \cup {None}
  BY Zenon DEF BoeInv
<1> QED  BY Zenon, <1>1, <1>2, <1>5, <1>6, <1>7 DEF BoeInv

LEMMA ShellHandled ==
    ASSUME BoeInv, NEW r \in Runs, UNCHANGED <<running, req>>,
           Shell(r) \/ (Unused(r) /\ Clean(r))
    PROVE  BoeInv'
<1>0. req[r].pc = "idle" /\ proc[r].pc = "idle" /\ NoFault /\ Shape
  BY Zenon, UnusedIdle DEF Shell, Clean, NoFault, BoeInv, ProcsInv
<1>1. \E x : Moves(r, x) /\ ProcInv(x) /\ x.pc \notin Serving
  <2>1. CASE Shell(r)
    <3>1. PICK c : Set(r, Launched(c))
      BY Zenon, <2>1 DEF Shell
    <3> QED  BY Zenon, <1>0, <3>1, SetMoves, LaunchedProc
  <2>2. CASE Clean(r)
    <3> DEFINE x == [Idle EXCEPT !.pc = "ended"]
    <3>1. Moves(r, x)
      BY Zenon, <1>0, <2>2, OverMoves DEF Clean
    <3>2. /\ Idle.srv = <<>> /\ Idle.m = Blank /\ Idle.root = Blank /\ Idle.art = Missing
          /\ Idle.dbg \notin {"up", "term"} /\ Idle.tmp = FALSE
      BY Zenon DEF Idle
    <3>3. /\ IsProc(x) /\ x.pc = "ended" /\ x.srv = <<>> /\ x.dbg \notin {"up", "term"}
          /\ x.m = Blank /\ x.root = Blank /\ x.art = Missing /\ x.tmp = FALSE
      BY Zenon, <3>2, IdleProc DEF IsProc, ProcFields
    <3> HIDE DEF x
    <3>4. x.pc \notin Early \cup Preparing \cup Serving \cup {"rendered", "exported"}
      BY Zenon, <3>3 DEF Early, Preparing, Serving
    <3>5. ProcInv(x)
      BY Zenon, <3>3, <3>4, NoServers, Fields DEF ProcInv, NothingLeft
    <3> QED  BY Zenon, <3>1, <3>4, <3>5
  <2> QED  BY Zenon, <2>1, <2>2
<1>2. PICK x : Moves(r, x) /\ ProcInv(x) /\ x.pc \notin Serving
  BY Zenon, <1>1
<1>3. ProcsInv'
  BY Zenon, <1>0, <1>2, FreshProc DEF BoeInv
<1>4. ASSUME NEW q \in Runs PROVE ReqOK(req[q], proc'[q], running, q)
  <2>1. ReqOK(req[q], proc[q], running, q)
    BY Zenon DEF BoeInv
  <2>2. CASE q = r
    BY Zenon, <1>0, <2>1, <2>2 DEF ReqOK
  <2>3. CASE q # r
    <3>1. proc'[q].pc = proc[q].pc /\ proc'[q].term = proc[q].term
      BY Zenon, <1>2, <2>3 DEF Moves, ProcFields
    <3> QED  BY Zenon, <2>1, <3>1 DEF ReqOK
  <2> QED  BY Zenon, <2>2, <2>3
<1> QED  BY Zenon, <1>3, <1>4 DEF BoeInv

LEMMA InterruptHandled ==
    ASSUME BoeInv, NEW r \in Runs, Interrupt(r)
    PROVE  BoeInv'
<1>1. proc' = killProcessGroup(r) /\ NoFault /\ UNCHANGED <<running, req>>
  BY Zenon DEF Interrupt, NoFault
<1> QED  BY Zenon, <1>1, BeforeAll, SignalStep, OwnSteps

LEMMA BoeInvInit == Init => BoeInv
<1> SUFFICES ASSUME Init PROVE BoeInv
  OBVIOUS
<1>1. faults = 0 /\ proc = [r \in Runs |-> Idle] /\ running = None /\ req = [r \in Runs |-> NoRequest]
  BY Zenon DEF Init, BoeInit
<1>2. faults \in Nat
  BY <1>1
<1>3. Idle.srv = <<>> /\ NoRequest = [f \in ReqFields |-> NoRequest[f]] /\ NoRequest.pc = "idle"
  BY Zenon DEF Idle, NoRequest, ReqFields
<1>4. ProcsInv
  BY Zenon, <1>1, <1>2, <1>3, IdleProc, NoServers DEF ProcsInv, Shape, Serves
<1>5. \A r \in Runs : ReqOK(req[r], proc[r], running, r)
  BY Zenon, <1>1, <1>3 DEF ReqOK
<1> QED  BY Zenon, <1>1, <1>4, <1>5 DEF BoeInv

LEMMA BoeInvStep == BoeInv /\ [Next]_uiVars => BoeInv'
<1> SUFFICES ASSUME BoeInv, [Next]_uiVars PROVE BoeInv'
  OBVIOUS
<1>1. ASSUME NEW r \in Runs, handleRun(r) PROVE BoeInv'
  BY Zenon, <1>1, RunHandled
<1>2. ASSUME NEW r \in Runs, Start(r) PROVE BoeInv'
  BY Zenon, <1>2, StartHandled
<1>3. ASSUME NEW r \in Runs, StreamEnds(r) \/ ScanFails(r) PROVE BoeInv'
  BY Zenon, <1>3, StreamHandled
<1>4. ASSUME NEW r \in Runs, Return(r) PROVE BoeInv'
  BY Zenon, <1>4, ReturnHandled
<1>5. ASSUME NEW r \in Runs, Disconnect(r) PROVE BoeInv'
  BY Zenon, <1>5, CancelHandled DEF Disconnect, NoFault
<1>6. ASSUME NEW r \in Runs, Shell(r) \/ (Unused(r) /\ Clean(r) /\ UNCHANGED <<running, req>>)
      PROVE  BoeInv'
  BY Zenon, <1>6, ShellHandled DEF Shell
<1>7. ASSUME NEW r \in Runs, Interrupt(r) PROVE BoeInv'
  BY Zenon, <1>7, InterruptHandled
<1>8. ASSUME NEW r \in Runs, RunSteps(r) \/ Crash(r), UNCHANGED <<running, req>> PROVE BoeInv'
  BY Zenon, <1>8, BeforeAll, RunStepOK, CrashStep, OwnSteps
<1>9. CASE Stop
  <2>1. running \in Runs
    BY Zenon, <1>9 DEF Stop, BoeInv
  <2> QED  BY Zenon, <1>9, <2>1, CancelHandled DEF Stop, NoFault
<1>10. CASE UNCHANGED uiVars
  BY Zenon, <1>10 DEF uiVars, boeVars, BoeInv, ProcsInv, Shape
<1> QED  BY Zenon, <1>1, <1>2, <1>3, <1>4, <1>5, <1>6, <1>7, <1>8, <1>9, <1>10 DEF Next

LEMMA BoeInvAlways == Spec => []BoeInv
  BY BoeInvInit, BoeInvStep, PTL DEF Spec

-------------------------------------------------------------------------------
(* Theorems. *)

(* When Envoy starts, without a fault, each ext_proc server of its run is up *)
(* or lost its port to another, and a run that returned, wherever it failed, *)
(* leaves no server unsignalled, no debug server and no search path behind   *)
(* (runner.go:99-240, 317-387), for any extensions, ports and interleaving.  *)
THEOREM ServersStayTied == Spec => []ServersTiedToRun
<1>1. BoeInv => ServersTiedToRun
  <2> SUFFICES ASSUME BoeInv, NEW r \in Runs
               PROVE  /\ proc[r].pc = "envoy" /\ ~proc[r].term /\ faults = 0 =>
                           \A i \in DOMAIN proc[r].srv :
                               proc[r].srv[i].st = "up" \/ Excused(proc, r, proc[r], i)
                      /\ (proc[r].pc = "ended" /\ ~proc[r].crashed) => NothingLeft(proc[r])
    BY Zenon DEF ServersTiedToRun, ServersReady, NothingLeftBehind, NothingLeft, Excused
  <2>1. "envoy" \in Serving /\ "envoy" \notin {"servers", "waiting"}
    BY Zenon DEF Serving
  <2> QED  BY Zenon, <2>1 DEF BoeInv, ProcsInv, Shape, ProcInv, Serves
<1> QED  BY <1>1, BoeInvAlways, PTL

(* An Envoy version picked by boe is one that every extension of the run     *)
(* supports, whatever the registry and the local trees hold, after all       *)
(* inheritance and until Envoy runs; when none is picked no extension asks   *)
(* for one (manifest.go:583).                                                *)
THEOREM VersionsSupported == Spec => []PickedVersionSupported
<1>1. BoeInv => PickedVersionSupported
  <2> SUFFICES ASSUME BoeInv, NEW r \in Runs, Arranged(proc[r]), proc[r].cmd.envoy = Unset
               PROVE  VersionFits(proc[r])
    BY Zenon DEF PickedVersionSupported, VersionFits
  <2>1. proc[r].pc \in Serving \cup {"rendered", "exported"}
    BY Zenon DEF Arranged, Serving
  <2> QED  BY Zenon, <2>1 DEF BoeInv, ProcsInv, Shape, ProcInv
<1> QED  BY <1>1, BoeInvAlways, PTL

(* A boe process of the UI that is up and was not told to stop is the        *)
(* registered one, which Stop and the next run reach, or was replaced        *)
(* between its registration and its Start (executor.go:199-227), for any     *)
(* number of requests and any order of runs, stops and disconnects.          *)
THEOREM OnlyLateStarts == Spec => []OnlyLateStartsEscape
<1>1. BoeInv => OnlyLateStartsEscape
  BY Zenon DEF BoeInv, ReqOK, OnlyLateStartsEscape, Alive
<1> QED  BY <1>1, BoeInvAlways, PTL
==============================================================================
