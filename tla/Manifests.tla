------------------------------ MODULE Manifests ------------------------------
(* The extension manifests of the boe command line: defaults, version        *)
(* inheritance, Envoy version resolution, and the cache slot and registry    *)
(* repository each one maps to (cli/internal/extensions: manifest.go,        *)
(* directories.go, registry.go).  Pure operators.                            *)
(*                                                                           *)
(* A version is a number: Unset is the empty string and 10 * m + p stands    *)
(* for minor m, patch p.  The "-debug" slot of version v is -v.  A cache     *)
(* path is the tuple of its directories; the library in it has one name per  *)
(* directory, so the directory stands for the library too.                   *)
EXTENDS Integers, Sequences, FiniteSetsExt, Functions

(* op along s, from base on, and the sequences of ss joined, in order.       *)
(* (SequencesExt has both, but would bring in bags with them, which the      *)
(* provers then carry through every step.)                                   *)
Along(op(_, _), base, s) ==
    MapThenFoldSet(LAMBDA x, y : op(y, x), base, LAMBDA i : s[i], Max, DOMAIN s)
Joined(ss) == Along(LAMBDA s, t : s \o t, <<>>, ss)

Unset == 0

(* cmp.Or: the first operand that is set. *)
Or(a, b) == IF a # Unset THEN a ELSE b

(* The fields of extensions.Manifest that the operations tell apart.  remote *)
(* is the flag value the manifest was downloaded for, "" for a local one.    *)
Blank == [name |-> "", type |-> "lua", parent |-> "", version |-> Unset,
          composerVersion |-> Unset, min |-> Unset, max |-> Unset,
          filterTypes |-> <<>>, cshared |-> FALSE, debug |-> FALSE, set |-> FALSE,
          before |-> <<>>, after |-> <<>>, port |-> Unset, remote |-> "", path |-> ""]

IsManifest(m) == m = [f \in DOMAIN Blank |-> m[f]] /\ m.min \in Nat /\ m.max \in Nat

ImplicitMaxEnvoyVersion(v) == 10 * (v \div 10 + 1)

(* The max of a manifest that declares a min but no max. *)
WithImplicitMax(m) ==
    IF m.min # Unset /\ m.max = Unset
    THEN [m EXCEPT !.max = ImplicitMaxEnvoyVersion(m.min)] ELSE m

ApplyDefaults(m) ==
    WithImplicitMax([m EXCEPT !.filterTypes = IF @ = <<>> THEN <<"http">> ELSE @])

SupportsEnvoyVersion(m, v) ==
    /\ m.min # Unset => v >= m.min
    /\ m.max # Unset => v <= m.max

(* The parent's own version is the child's composer version. *)
ResolveVersionsWithParent(m, parent) ==
    WithImplicitMax([m EXCEPT !.version = Or(@, parent.version),
                              !.composerVersion = Or(@, parent.version),
                              !.min = Or(@, parent.min),
                              !.max = Or(@, parent.max)])

(* An embedded manifest keeps its own values; the rest come from the root of *)
(* the artifact, without the implicit max of the inherited min.              *)
mergeManifestFromRoot(m, root) ==
    [m EXCEPT !.version = Or(@, root.version),
              !.composerVersion = Or(@, root.composerVersion),
              !.min = Or(@, root.min),
              !.max = Or(@, root.max)]

hasHTTPAnchor(m) ==
    \/ m.type \in {"lua", "go", "ext_proc"}
    \/ m.type = "rust" /\ (m.filterTypes = <<>> \/ "http" \in Range(m.filterTypes))

Reserved == {"envoy.filters.http.router", "envoy.filters.http.mcp_router"}

(* The semantic rules on nativeHttpFilters; the schema check is external. *)
validateNativeHTTPFilters(m) ==
    LET names == m.before \o m.after IN
    names # <<>> => /\ hasHTTPAnchor(m)
                    /\ Range(names) \cap (Reserved \cup {""}) = {}
                    /\ IsInjective(names)

(* LoadLocalManifest: the defaults are applied before validation. *)
LoadLocalManifest(m, path) ==
    LET loaded == [ApplyDefaults(m) EXCEPT !.path = path] IN
    [ok |-> validateNativeHTTPFilters(loaded), manifest |-> loaded]

-------------------------------------------------------------------------------
(* Envoy version resolution.  Unset when no manifest sets the bound. *)

HighestMinEnvoyVersion(ms) == Max({ms[i].min : i \in DOMAIN ms} \cup {Unset})

LowestMaxEnvoyVersion(ms) ==
    LET bounds == {ms[i].max : i \in DOMAIN ms} \ {Unset} IN
    IF bounds = {} THEN Unset ELSE Min(bounds)

(* Mutant: the bounds are not compared. *)
ResolveAnyEnvoyVersion(ms) ==
    [ok |-> TRUE, version |-> Or(HighestMinEnvoyVersion(ms), LowestMaxEnvoyVersion(ms))]

ResolveMinimumCompatibleEnvoyVersion(ms) ==
    LET low == HighestMinEnvoyVersion(ms)
        high == LowestMaxEnvoyVersion(ms)
    IN  [ok |-> ~(low # Unset /\ high # Unset /\ low > high),
         version |-> Or(low, high)]

(* All Go extensions name one composer version. *)
validateComposerCompat(ms) ==
    Cardinality({ms[i].composerVersion : i \in {j \in DOMAIN ms : ms[j].type = "go"}}) <= 1

-------------------------------------------------------------------------------
(* Cache slots. *)

DebugVersion(v) == -v

(* A Go plugin that is not c-shared has no bundle library of its own. *)
ModuleName(m) ==
    IF (m.type = "go" /\ ~m.cshared) \/ m.parent = "" THEN m.name ELSE m.parent

composerDir(name, v) == <<"dym", name, v>>
LocalCacheComposerDir(v) == composerDir("composer", v)
LocalCacheComposerLiteDir(v) == composerDir("composer-lite", v)
LocalCacheComposerSourceDir(v) == <<"src", "composer", v>>

LocalCacheExtensionDir(m) ==
    LET v == IF m.debug THEN DebugVersion(m.version) ELSE m.version
        kind == CASE m.type = "go" -> IF m.cshared THEN "dym" ELSE "goplugin"
                  [] m.type \in {"rust", "composer"} -> "dym"
                  [] m.type = "ext_proc" -> "extproc"
                  [] OTHER -> m.type
    IN  <<kind, ModuleName(m), v>>

LocalCacheExtensionSourceArtifactDir(m) == <<"src", ModuleName(m), m.version>>

-------------------------------------------------------------------------------
(* Registry repositories. *)

RepositoryName(name) ==
    IF name \in {"composer", "composer-lite"} THEN <<name>> ELSE <<"extension", name>>

SourceRepositoryName(m) ==
    IF (m.type = "go" /\ ~m.cshared) \/ m.type = "composer"
    THEN <<"composer-src">> ELSE <<"extension-src", m.name>>

(* The annotations carry neither the parent nor the Envoy versions, so a     *)
(* manifest read back from them has lost both.                               *)
ManifestFromOCI(m) ==
    ApplyDefaults([m EXCEPT !.parent = "", !.min = Unset, !.max = Unset,
                            !.before = <<>>, !.after = <<>>, !.debug = FALSE,
                            !.set = FALSE, !.port = Unset, !.remote = "", !.path = ""])
===============================================================================
