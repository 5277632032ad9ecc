------------------------------ MODULE BoeCommand ------------------------------
(* boe processes sharing one cache directory: `boe run`, `boe debug` and     *)
(* `boe gen-config` (cli/cmd/{run,genconfig,clean}.go,                       *)
(* cli/internal/extensions/{downloader,libcomposer,dynamic_module}.go,       *)
(* cli/internal/envoy/{runner,debug,debug_delve}.go).                        *)
(*                                                                           *)
(* A process prepares its extensions one by one, puts the manifests in flag  *)
(* order, generates a configuration, links the libraries, starts the         *)
(* ext_proc servers and then Envoy, and undoes what it started when it       *)
(* returns.  Processes interleave, are signalled, and crash at any point.    *)
EXTENDS Downloads, EnvoyConfig

CONSTANTS
    Runs,       \* the boe processes
    None,
    MaxFaults,  \* bound on the crashes and failures that happen
    Within      \* extension names: <<part, whole>>, part a substring of whole

ASSUME BoeAssumption == Runs \subseteq Nat /\ None \notin Runs

VARIABLES
    cache,      \* cache slot -> [st, origin]: what its library is
    proc,       \* the state of each process
    faults      \* how many faults have happened

boeVars == <<cache, proc, faults>>

(* A command line with nothing on it. *)
Command == [do |-> "run", flags |-> <<>>, env |-> {}, envoy |-> Unset, configs |-> <<>>,
            filterTypes |-> <<>>, before |-> <<>>, after |-> <<>>, clusters |-> <<>>,
            upstream |-> <<>>, tls |-> 0, minimal |-> FALSE, output |-> FALSE]

Absent == [st |-> "absent", origin |-> "none", by |-> None]
Partial(origin, r) == [st |-> "partial", origin |-> origin, by |-> r]
Whole(origin, r) == [st |-> "whole", origin |-> origin, by |-> r]

(* at counts the extensions begun, art is the artifact being pulled, root and *)
(* m are its manifest and that of the extension in it, conf the configuration.  srv holds the ext_proc  *)
(* servers, dbg the debug server.  opens are the slots Envoy will load, torn *)
(* the ones it loaded half-written, clobbered those of its own that another  *)
(* process wrote over, or removed, before Envoy loaded them.                 *)
Idle == [pc |-> "idle", cmd |-> None, at |-> 0, art |-> Missing, root |-> Blank, m |-> Blank, exts |-> <<>>,
         version |-> Unset, conf |-> None, opens |-> {}, srv |-> <<>>, dbg |-> "none",
         torn |-> {}, clobbered |-> {}, tmp |-> FALSE, term |-> FALSE, crashed |-> FALSE]

InDocker(c) == "docker" \in {c.flags[i].kind : i \in DOMAIN c.flags}

Launched(c) == [Idle EXCEPT !.pc = IF InDocker(c) THEN "docker" ELSE "next", !.cmd = c]

Alive(r) == proc[r].pc \notin {"idle", "ended"}

BoeInit ==
    /\ cache = <<>>
    /\ faults = 0
    /\ proc = [r \in Runs |-> Idle]

Slot(slot) == IF slot \in DOMAIN cache THEN cache[slot] ELSE Absent
Put(slot, lib) == cache' = (slot :> lib) @@ cache

(* r becomes p after it wrote over (or removed) slots; their last writer is  *)
(* told, unless its Envoy has already loaded them.                           *)
Over(r, p, slots) ==
    proc' = [q \in Runs |->
               IF q = r THEN p
               ELSE [proc[q] EXCEPT !.clobbered =
                       IF proc[q].pc \in {"idle", "envoy", "closing", "ended"} THEN @
                       ELSE @ \cup {slot \in slots : Slot(slot).by = q}]]

Set(r, p) == proc' = [proc EXCEPT ![r] = p]

(* Something goes wrong, within the bound; it goes right. *)
Fault == faults < MaxFaults /\ faults' = faults + 1
NoFault == UNCHANGED faults

(* Only local trees are built for debugging. *)
Debug(r) == proc[r].cmd.do = "debug" /\ proc[r].m.remote = ""

Stopped(srv) ==
    [i \in DOMAIN srv |-> IF srv[i].st = "up" THEN [srv[i] EXCEPT !.st = "term"] ELSE srv[i]]

(* What outlives a process: its servers. *)
Ended(p) == [Idle EXCEPT !.pc = "ended", !.srv = p.srv, !.dbg = IF p.dbg = "down" THEN @ ELSE p.dbg]

(* Mutant: the deferred stopExtProcServers is missing. *)
ReturnedKeepsServers(p) ==
    IF p.dbg \in {"up", "term"} THEN [p EXCEPT !.pc = "closing", !.dbg = "term"] ELSE Ended(p)

(* The command returns and its deferred calls run: the debug server is       *)
(* stopped and waited for, then the ext_proc servers are signalled and the   *)
(* search path is removed.                                                   *)
Returned(p) ==
    IF p.dbg \in {"up", "term"} THEN [p EXCEPT !.pc = "closing", !.dbg = "term"]
    ELSE [Ended(p) EXCEPT !.srv = Stopped(@)]

(* The command returns the error of a step that can go wrong at any time, or *)
(* that noticed the cancelled context.                                       *)
StepFails(r) ==
    /\ IF proc[r].term THEN NoFault ELSE Fault
    /\ Set(r, Returned(proc[r]))
    /\ UNCHANGED cache

-------------------------------------------------------------------------------
(* Preparing one extension: references first, then local trees. *)

Remote(p) == Values(p.cmd.flags, "extension")
Local(p) == Values(p.cmd.flags, "local")

(* The extension is ready; the next one is due. *)
Added(p, m) == [p EXCEPT !.pc = "next", !.exts = Append(@, m), !.root = Blank, !.m = Blank]

(* Mutant: the error of a short copy is dropped. *)
FinishFileShort(r, slot) == UNCHANGED cache

(* A finished pull.  A file that was removed under the writer stays away;    *)
(* one that another process truncated may be left with a hole.               *)
FinishFile(r, slot) ==
    LET lib == Slot(slot) IN
    \/ lib # Absent /\ Put(slot, [lib EXCEPT !.st = "whole"])
    \/ (lib = Absent \/ slot \in proc[r].clobbered) /\ UNCHANGED cache

(* DownloadExtension up to the extraction, which truncates the file and      *)
(* fills it.  A source tree is read only by builds, each after a pull of its *)
(* own, so it is written in one step.                                        *)
DownloadExtension(r) ==
    LET p == proc[r]
        ref == splitRef(Remote(p)[p.at + 1])
    IN  /\ p.pc = "next" /\ p.at < Len(Remote(p)) /\ ~p.term
        /\ \E artifact \in {download(RepositoryName(ref.bundle), ref.tag)} :
           \E slot \in {DownloadDir(artifact)} :
             IF artifact.kind = "none" THEN Set(r, Returned(p)) /\ UNCHANGED cache
             ELSE /\ Put(slot, IF artifact.kind = "source" THEN Whole("source", r)
                               ELSE Partial("prebuilt", r))
                  /\ Over(r, [p EXCEPT !.pc = "pulling", !.at = @ + 1, !.art = artifact], {slot})

(* The end of DownloadExtension, and what downloadExtensions does next. *)
Downloaded(r) ==
    LET p == proc[r]
        asked == Remote(p)[p.at]
        ref == splitRef(asked)
        root == ApplyDefaults(p.art.manifest)
    IN  /\ p.pc = "pulling"
        /\ IF p.art.kind = "source" THEN UNCHANGED cache ELSE FinishFile(r, DownloadDir(p.art))
        /\ \E found \in {ResolveExtensionManifest(p.art, ref.bundle, ref.name)} :
           \E m \in {[found.manifest EXCEPT !.remote = asked, !.cshared = root.cshared]} :
             LET pulled == [p EXCEPT !.root = root, !.m = m, !.art = Missing] IN
             CASE ~found.ok -> Set(r, Returned(p))
               [] found.ok /\ p.art.kind = "source" -> Set(r, [pulled EXCEPT !.pc = "build"])
               [] found.ok /\ p.art.kind = "binary" /\ root.type = "go" /\ ~root.cshared ->
                    Set(r, [pulled EXCEPT !.pc = "lite"])
               [] OTHER -> Set(r, Added(pulled, m))

loadLocalManifests(r) ==
    LET p == proc[r]
        i == p.at + 1 - Len(Remote(p))
        loaded == LoadLocal(Local(p)[i])
    IN  /\ p.pc = "next" /\ i \in DOMAIN Local(p)
        /\ IF loaded.ok
           THEN Set(r, [p EXCEPT !.at = @ + 1, !.pc = "build",
                                 !.root = loaded.root, !.m = loaded.manifest])
           ELSE Set(r, Returned(p))
        /\ UNCHANGED cache

(* The "-debug" slot of a debug build. *)
cacheVersion(r, v) == IF Debug(r) THEN DebugVersion(v) ELSE v

(* buildExtensionCShared, buildExtensionPlugin, BuildExtProcBinary and       *)
(* BuildWasm: the tool's output appears in its slot.                         *)
Build(r, slot, p) == Put(slot, Whole("source", r)) /\ Over(r, p, {slot})

(* handleExtensionSource.  The go tool replaces its output in one step; the  *)
(* Rust library is copied over.  A Go plugin goes on with its host; a Lua    *)
(* extension has nothing to build.  Only Go, Rust and composer builds know   *)
(* debug options.                                                            *)
handleExtensionSource(r) ==
    LET p == proc[r]
        root == p.root
        slot == CASE root.type = "composer" -> LocalCacheComposerDir(cacheVersion(r, root.version))
                  [] root.type \in {"go", "rust"} ->
                       LocalCacheExtensionDir([root EXCEPT !.debug = Debug(r)])
                  [] OTHER -> LocalCacheExtensionDir(root)
        plugin == root.type = "go" /\ ~root.cshared
        m == CASE root.type \in {"composer", "go"} ->
                    [p.m EXCEPT !.cshared = ~plugin, !.debug = Debug(r)]
               [] root.type = "rust" -> [p.m EXCEPT !.debug = Debug(r)]
               [] OTHER -> p.m
    IN  /\ p.pc = "build"
        /\ CASE root.type = "lua" -> Set(r, Added(p, m)) /\ UNCHANGED cache
             [] root.type = "rust" ->
                  Put(slot, Partial("source", r)) /\ Over(r, [p EXCEPT !.pc = "copying", !.m = m], {slot})
             [] OTHER ->
                  Build(r, slot, IF plugin THEN [p EXCEPT !.pc = "lite-src", !.m = m] ELSE Added(p, m))

(* copyFile of the Rust library ends. *)
Copied(r) ==
    /\ proc[r].pc = "copying"
    /\ FinishFile(r, LocalCacheExtensionDir([proc[r].root EXCEPT !.debug = Debug(r)]))
    /\ Set(r, Added(proc[r], proc[r].m))

(* CheckOrDownloadLibComposerLite: a stat decides whether it is downloaded.  *)
CheckLite(r) ==
    LET p == proc[r]
        v == p.root.composerVersion
        slot == LocalCacheComposerLiteDir(v)
    IN  /\ p.pc = "lite"
        /\ IF Slot(slot) # Absent THEN Set(r, [p EXCEPT !.pc = "host"]) /\ UNCHANGED cache
           ELSE /\ ~p.term
                /\ \E kind \in {download(<<"composer-lite">>, v).kind} :
                   CASE kind = "none" -> Set(r, Returned(p)) /\ UNCHANGED cache
                     [] kind = "source" -> Set(r, [p EXCEPT !.pc = "lite-src"]) /\ UNCHANGED cache
                     [] OTHER -> /\ Put(slot, Partial("prebuilt", r))
                                 /\ Over(r, [p EXCEPT !.pc = "lite-pulling"], {slot})

LitePulled(r) ==
    /\ proc[r].pc = "lite-pulling"
    /\ FinishFile(r, LocalCacheComposerLiteDir(proc[r].root.composerVersion))
    /\ Set(r, [proc[r] EXCEPT !.pc = "host"])

(* DownloadComposerLiteAndBuildIfNeeded of composer-src: pull and build. *)
BuildLite(r) ==
    LET p == proc[r]
        v == p.root.composerVersion
        slot == LocalCacheComposerLiteDir(cacheVersion(r, v))
        src == LocalCacheComposerSourceDir(v)
    IN  /\ p.pc = "lite-src" /\ ~p.term
        /\ IF download(<<"composer-src">>, v).kind = "none" THEN Set(r, Returned(p)) /\ UNCHANGED cache
           ELSE /\ cache' = (slot :> Whole("source", r)) @@ (src :> Whole("source", r)) @@ cache
                /\ Over(r, [p EXCEPT !.pc = "host"], {slot, src})

(* GetComposerManifest: the manifests it can return.  The first directory    *)
(* that has one decides, and a half-written one may not parse.               *)
GetComposerManifest(v) ==
    LET dirs == <<[slot |-> LocalCacheComposerSourceDir(v), repo |-> <<"composer-src">>],
                  [slot |-> LocalCacheComposerDir(v), repo |-> <<"composer">>],
                  [slot |-> LocalCacheComposerLiteDir(v), repo |-> <<"composer-lite">>]>>
        has == {i \in 1..3 : /\ Slot(dirs[i].slot).st # "absent"
                             /\ i > 1 => Slot(dirs[i].slot).origin = "prebuilt"}
    IN  IF has = {} THEN {Blank}
        ELSE LET d == dirs[Min(has)]
                 m == ApplyDefaults(FetchManifest(d.repo, v).manifest)
             IN  IF Slot(d.slot).st = "whole" THEN {m} ELSE {m, Blank}

(* A Go plugin inherits from the composer that hosts it. *)
InheritFromComposer(r) ==
    /\ proc[r].pc = "host"
    /\ \E composer \in GetComposerManifest(proc[r].root.composerVersion) :
         Set(r, Added(proc[r], IF composer = Blank THEN proc[r].m
                               ELSE ResolveVersionsWithParent(proc[r].m, composer)))
    /\ UNCHANGED cache

(* Network, disk and compiler errors, and a cancelled download. *)
PreparationFails(r) ==
    /\ \/ proc[r].pc = "next" /\ proc[r].at < Len(Remote(proc[r]))
       \/ proc[r].pc \in {"docker", "pulling", "build", "copying", "lite-pulling", "lite-src"}
       \/ /\ proc[r].pc = "lite"
          /\ Slot(LocalCacheComposerLiteDir(proc[r].root.composerVersion)) = Absent
    /\ StepFails(r)

-------------------------------------------------------------------------------
(* From manifests to a configuration. *)

Prepared(p) == p.pc = "next" /\ p.at = Len(Remote(p)) + Len(Local(p))

CustomEnvoy == -1

(* The Envoy version to run: any the user names (a bad one only warns). *)
PickVersion(c, ms) ==
    CASE c.envoy = CustomEnvoy -> [ok |-> TRUE, version |-> Unset]
      [] c.envoy \notin {CustomEnvoy, Unset} -> [ok |-> TRUE, version |-> c.envoy]
      [] OTHER -> ResolveMinimumCompatibleEnvoyVersion(ms)

(* RenderConfig. *)
RenderConfig(c, ms) ==
    LET gen == generateConfig(c, [i \in DOMAIN ms |-> ExtensionConfig(c, ms[i], i)]) IN
    IF ~gen.ok THEN BadResources
    ELSE IF c.minimal THEN MinimalConfigRenderer(c, gen) ELSE FullConfigRenderer(c, gen)

(* From the sort to the rendered configuration.  A nil manifest makes the    *)
(* version resolution panic.  gen-config does not compare composer versions. *)
Configure(r) ==
    LET p == proc[r] IN
    /\ Prepared(p)
    /\ \E placed \in {sort(saveExtensionPositions(p.cmd.flags), p.exts)} :
       \E ms \in {placed.sorted} :
         IF ~placed.ok \/ Nil \in Range(ms) THEN Set(r, Returned(p))
         ELSE \E picked \in {PickVersion(p.cmd, ms)} : \E conf \in {RenderConfig(p.cmd, ms)} :
                Set(r, IF /\ picked.ok /\ conf.ok
                          /\ p.cmd.do # "gen-config" => validateComposerCompat(ms)
                       THEN [p EXCEPT !.pc = "rendered", !.exts = ms, !.conf = conf,
                                      !.version = picked.version]
                       ELSE Returned(p))
    /\ UNCHANGED cache

(* gen-config writes to stdout, or exports the configuration and the files.  *)
Export(r) ==
    LET p == proc[r]
        files == Joined([i \in DOMAIN p.exts |-> CopiedFiles(p.exts[i])])
    IN  /\ p.pc = "rendered" /\ p.cmd.do = "gen-config"
        /\ IF p.cmd.output
           THEN IF \A i \in DOMAIN files : Slot(files[i][2]).st # "absent"
                THEN Set(r, [p EXCEPT !.pc = "exported", !.opens = Range(files),
                                      !.conf.http = writeConfig(@, p.exts, Within)])
                ELSE Set(r, Returned(p))
           ELSE Set(r, [p EXCEPT !.pc = "exported"])
        /\ UNCHANGED cache

(* RunnerDocker.Run: the container's command line is worked out and handed   *)
(* to docker, which refuses two mounts on one path.                          *)
RunDocker(r) ==
    LET c == proc[r].cmd
        args == dockerRunArgs(c.flags, c.env, c.do = "debug")
    IN  /\ proc[r].pc = "docker"
        /\ Set(r, IF /\ args.ok
                     /\ IsInjective([i \in DOMAIN args.mounts |-> args.mounts[i][2]])
                  THEN [proc[r] EXCEPT !.pc = "container", !.conf = args] ELSE Returned(proc[r]))
        /\ UNCHANGED cache
===============================================================================
