------------------------------ MODULE Downloads ------------------------------
(* What a boe command line refers to: extension references, registry and     *)
(* manifest lookups, flag positions, and the command line of the container   *)
(* (cli/cmd/{run,flags}.go, cli/internal/extensions/{downloader,manifest}.go,*)
(* cli/internal/oci/repository.go, cli/internal/envoy/runner.go).  Pure.     *)
EXTENDS Manifests

CONSTANTS
    References, \* extension reference -> [bundle, name, tag] as written
    Registry,   \* repository -> tag -> artifact, as Missing below
    Locals      \* path -> [manifest, root, main, base, dir]: the local trees; base is
                \* the last element of the path, dir the root of the bundle

(* The bundle defaults to the name and the tag to latest (Unset here); the   *)
(* goplugin-loader is always taken from the composer bundle.                 *)
splitRef(ref) ==
    LET r == References[ref] IN
    [r EXCEPT !.bundle = IF r.name = "goplugin-loader" THEN "composer"
                         ELSE IF @ = "" THEN r.name ELSE @]

(* Tags come sorted most recent first; dev tags are skipped. *)
getLatestTag(repository) ==
    LET tags == {t \in DOMAIN Registry[repository] : ~Registry[repository][t].dev} IN
    IF tags = {} THEN Unset ELSE Max(tags)

(* An artifact: its manifest, whether it holds a binary or source, whether   *)
(* it has one for this platform, the children in its tree and the composer   *)
(* manifest shipped with it.                                                 *)
Missing == [manifest |-> Blank, kind |-> "none", here |-> FALSE, dev |-> FALSE,
            children |-> {}, composer |-> Blank]

IsArtifact(a) ==
    /\ a = [f \in DOMAIN Missing |-> a[f]]
    /\ \A m \in a.children \cup {a.manifest, a.composer} : IsManifest(m)

ASSUME ManifestsAssumption ==
    /\ \A repository \in DOMAIN Registry : \A tag \in DOMAIN Registry[repository] :
          IsArtifact(Registry[repository][tag])
    /\ \A path \in DOMAIN Locals : IsManifest(Locals[path].manifest) /\ IsManifest(Locals[path].root)

FetchManifest(repository, tag) ==
    IF repository \in DOMAIN Registry /\ tag \in DOMAIN Registry[repository]
    THEN Registry[repository][tag] ELSE Missing

(* What download settles on: the artifact for this platform, or else the     *)
(* source artifact, which is not looked up per platform.                     *)
download(repository, version) ==
    LET tag == IF version # Unset \/ repository \notin DOMAIN Registry THEN version
               ELSE getLatestTag(repository)
        binary == FetchManifest(repository, tag)
        m == ManifestFromOCI(binary.manifest)
    IN  IF binary.kind = "none" \/ binary.here THEN binary
        ELSE FetchManifest(SourceRepositoryName(m),
                           IF m.type = "go" THEN m.composerVersion ELSE tag)

(* The directory DownloadExtension extracts to. *)
DownloadDir(artifact) ==
    LET m == ManifestFromOCI(artifact.manifest) IN
    IF artifact.kind = "source" THEN LocalCacheExtensionSourceArtifactDir(m)
                                ELSE LocalCacheExtensionDir(m)

(* The extension named in the artifact: the artifact itself, which inherits  *)
(* from the composer manifest shipped with it, or a child in its tree.  One  *)
(* asked for through a bundle must name the bundle as its parent.            *)
ResolveExtensionManifest(artifact, bundle, name) ==
    LET root == ApplyDefaults(artifact.manifest)
        found == {child \in artifact.children : child.name = name}
        m == IF root.name = name
             THEN IF artifact.composer = Blank THEN root
                  ELSE ResolveVersionsWithParent(root, ApplyDefaults(artifact.composer))
             ELSE IF found = {} THEN Blank
             ELSE mergeManifestFromRoot(ApplyDefaults(CHOOSE child \in found : TRUE), root)
    IN  [ok |-> m # Blank /\ (bundle = name \/ m.parent = bundle), manifest |-> m]

(* loadLocalManifests, up to the build: the manifest and the root to build.  *)
(* There may be none.  A child of a bundle needs the bundle around it and    *)
(* inherits its versions.                                                    *)
LoadLocal(path) ==
    IF path \notin DOMAIN Locals THEN [ok |-> FALSE, manifest |-> Blank, root |-> Blank] ELSE
    LET l == Locals[path]
        loaded == LoadLocalManifest(l.manifest, path)
        child == loaded.manifest.parent # ""
        m == IF child THEN ResolveVersionsWithParent(loaded.manifest, ApplyDefaults(l.root))
                      ELSE loaded.manifest
    IN  [ok |-> loaded.ok /\ (child => l.root.name = loaded.manifest.parent),
         manifest |-> m,
         root |-> [IF child THEN ApplyDefaults(l.root) ELSE m EXCEPT !.cshared = l.main]]

-------------------------------------------------------------------------------
(* Flags: [kind, value, word].  word: written as two words, not with "=".    *)

(* The values given with one kind of flag, in flag order. *)
Values(flags, kind) ==
    LET of == SelectSeq(flags, LAMBDA f : f.kind = kind) IN [i \in DOMAIN of |-> of[i].value]

(* Only flags written as two words are recorded. *)
saveExtensionPositions(flags) ==
    SelectSeq(flags, LAMBDA f : f.kind \in {"extension", "local"} /\ f.word)

FlagOf(m) == IF m.remote # "" THEN <<"extension", m.remote>> ELSE <<"local", m.path>>

(* A position no recorded flag names is left nil. *)
Nil == [Blank EXCEPT !.type = "nil"]

(* Mutant: the manifests keep the order in which they were prepared. *)
sortKeeps(positions, ms) == [ok |-> TRUE, sorted |-> ms]

sort(positions, ms) ==
    LET Index(f) == {i \in DOMAIN ms : FlagOf(ms[i]) = <<f.kind, f.value>>} IN
    [ok |-> \A p \in DOMAIN positions : Index(positions[p]) # {},
     sorted |-> [p \in DOMAIN ms |->
                   IF p \in DOMAIN positions /\ Index(positions[p]) # {}
                   THEN ms[Min(Index(positions[p]))] ELSE Nil]]

-------------------------------------------------------------------------------
(* RunnerDocker: the command line of the container and what is mounted. *)

localExtensionContainerPath(path) == <<"/local", Locals[path].base>>

processLocalExtensions(flags) ==
    LET paths == Values(flags, "local") IN
    [ok |-> TRUE,
     mounts |-> [i \in DOMAIN paths |-> <<paths[i], localExtensionContainerPath(paths[i])>>]]

(* In debug mode the root of each tree, found through its manifest, is       *)
(* mounted once, where it is on the host.                                    *)
processLocalExtensionsDebug(flags) ==
    LET paths == Range(Values(flags, "local"))
        roots == {Locals[path].dir : path \in paths}
        once == CHOOSE s \in [1..Cardinality(roots) -> roots] : IsInjective(s)
    IN  [ok |-> \A path \in paths : LoadLocal(path).ok,
         mounts |-> [i \in DOMAIN once |-> <<once[i], <<once[i]>>>>]]

processListenerTLS(flags) ==
    Joined([i \in DOMAIN flags |->
              IF flags[i].kind \in {"listener-cert", "listener-key"}
              THEN <<<<flags[i].value, <<"/tls", flags[i].kind>>>>>> ELSE <<>>])

(* Flags for the host only are dropped, paths become those of the mounts. *)
HostOnly(debug) ==
    {"docker", "docker-image-version", "pull"} \cup (IF debug THEN {"debug-server-path"} ELSE {})

ContainerFlag(f, debug) ==
    CASE f.kind = "local" ->
           [f EXCEPT !.value = IF debug THEN <<@>> ELSE localExtensionContainerPath(@)]
      [] f.kind \in {"listener-cert", "listener-key"} ->
           [f EXCEPT !.value = <<"/tls", f.kind>>, !.word = FALSE]
      [] OTHER -> f

processCommandArgs(flags, debug) ==
    LET kept == SelectSeq(flags, LAMBDA f : f.kind \notin HostOnly(debug)) IN
    [i \in DOMAIN kept |-> ContainerFlag(kept[i], debug)]

(* BOE_ variables reach the container, except the ones set for it and the    *)
(* one that would start Docker again.                                        *)
ContainerSet == {"BOE_ADMIN_ADDRESS", "BOE_CONFIG_HOME", "BOE_DATA_HOME", "BOE_STATE_HOME",
                 "BOE_RUNTIME_DIR"}

passthroughEnvVars(env) == env \ (ContainerSet \cup {"BOE_RUN_ID", "BOE_RUN_DOCKER"})

dockerRunArgs(flags, env, debug) ==
    LET local == IF debug THEN processLocalExtensionsDebug(flags)
                          ELSE processLocalExtensions(flags)
    IN  [ok |-> local.ok,
         flags |-> processCommandArgs(flags, debug),
         mounts |-> local.mounts \o processListenerTLS(flags),
         env |-> passthroughEnvVars(env) \cup ContainerSet \cup (env \cap {"BOE_RUN_ID"})]
===============================================================================
