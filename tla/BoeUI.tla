-------------------------------- MODULE BoeUI --------------------------------
(* The extension manager web UI starting and stopping `boe run` processes    *)
(* (ui/executor.go, ui/server.go), next to boe processes started from a      *)
(* shell, all on one cache directory.                                        *)
EXTENDS BoeRun

CONSTANTS
    Bodies,     \* POST /api/run bodies: sequences of extension names
    ShellCommands, \* command lines typed in a shell
    Scripted,   \* command lines run on their own: nothing else starts next to
                \* them, which bounds the number of states
    UILocals    \* extension name -> path, for the --local flags of boe ui

VARIABLES
    running,    \* Executor.running: the request whose command is registered
    req         \* the state of each streamCommand call

uiVars == <<boeVars, running, req>>

NoRequest == [pc |-> "idle", cmd |-> None, cancelled |-> FALSE, late |-> FALSE]

Init ==
    /\ BoeInit
    /\ running = None
    /\ req = [r \in Runs |-> NoRequest]

(* handleRun fills in the local path, buildArgs writes one two-word flag per *)
(* extension, in order.                                                      *)
buildArgs(body) ==
    [Command EXCEPT !.flags =
       [i \in DOMAIN body |->
          IF body[i] \in DOMAIN UILocals
          THEN [kind |-> "local", value |-> UILocals[body[i]], word |-> TRUE]
          ELSE [kind |-> "extension", value |-> body[i], word |-> TRUE]]]

(* Calls and processes are numbered in the order they come. *)
Unused(r) ==
    /\ \A q \in Runs : q <= r => ((req[q].pc = "idle" /\ proc[q].pc = "idle") <=> q = r)
    /\ \A q \in Runs : proc[q].cmd \notin Scripted

(* killProcessGroup does nothing for a command that has not started. *)
killProcessGroup(r) == [proc EXCEPT ![r] = Signalled(@)]

(* The context of call r is cancelled, which Start asks about once.  Later   *)
(* on it only means the signal.                                              *)
Cancelled(r) == [req EXCEPT ![r].cancelled = (req[r].pc = "registered")]

(* POST /api/run up to the unlock: the registered command is signalled, not  *)
(* cancelled, and replaced.  An empty body is refused without a state        *)
(* change.  late marks a command replaced before its process was started.    *)
handleRun(r) ==
    /\ Unused(r)
    /\ \E body \in Bodies \ {<<>>} :
         req' = [q \in Runs |->
                   IF q = r THEN [NoRequest EXCEPT !.pc = "registered", !.cmd = buildArgs(body)]
                   ELSE IF q = running /\ req[q].pc = "registered" THEN [req[q] EXCEPT !.late = TRUE]
                   ELSE req[q]]
    /\ proc' = IF running = None THEN proc ELSE killProcessGroup(running)
    /\ running' = r
    /\ UNCHANGED <<cache, faults>>

(* cmd.Start, which refuses a cancelled context. *)
Start(r) ==
    /\ req[r].pc = "registered"
    /\ IF req[r].cancelled
       THEN /\ req' = [req EXCEPT ![r].pc = "returning"]
            /\ UNCHANGED proc
       ELSE /\ req' = [req EXCEPT ![r].pc = "streaming"]
            /\ Set(r, Launched(req[r].cmd))
    /\ UNCHANGED <<cache, faults, running>>

(* The output ends with the process; a line too long for the scanner ends    *)
(* the call earlier.                                                         *)
StreamEnds(r) ==
    /\ req[r].pc = "streaming" /\ proc[r].pc = "ended"
    /\ req' = [req EXCEPT ![r].pc = "returning"]
    /\ UNCHANGED <<boeVars, running>>

ScanFails(r) ==
    /\ req[r].pc = "streaming" /\ Alive(r)
    /\ req' = [req EXCEPT ![r].pc = "returning"]
    /\ UNCHANGED <<boeVars, running>>

(* Mutant: whatever is registered is unregistered. *)
ReturnUnregisters(r) ==
    /\ req[r].pc = "returning"
    /\ running' = None
    /\ req' = [req EXCEPT ![r] = [NoRequest EXCEPT !.pc = "done"]]
    /\ proc' = killProcessGroup(r)
    /\ UNCHANGED <<cache, faults>>

(* The deferred function: unregister if still registered, then cancel, which *)
(* signals the process group if the process is still there.                  *)
Return(r) ==
    /\ req[r].pc = "returning"
    /\ running' = IF running = r THEN None ELSE running
    /\ req' = [req EXCEPT ![r] = [NoRequest EXCEPT !.pc = "done"]]
    /\ proc' = killProcessGroup(r)
    /\ UNCHANGED <<cache, faults>>

(* The browser goes away: the request context is cancelled, once. *)
Disconnect(r) ==
    /\ req[r].pc \in {"registered", "streaming"} /\ ~req[r].cancelled /\ ~proc[r].term
    /\ req' = Cancelled(r)
    /\ proc' = killProcessGroup(r)
    /\ UNCHANGED <<cache, faults, running>>

(* POST /api/stop; an error, and no change, when nothing is registered. *)
Stop ==
    /\ running # None
    /\ proc' = killProcessGroup(running)
    /\ req' = Cancelled(running)
    /\ running' = None
    /\ UNCHANGED <<cache, faults>>

(* A boe command typed in a shell, and Ctrl-C on it. *)
Shell(r) ==
    /\ Unused(r)
    /\ \E c \in ShellCommands \cup (IF \A q \in Runs : q < r => FALSE THEN Scripted ELSE {}) :
         Validate(c) /\ Set(r, Launched(c))
    /\ UNCHANGED <<cache, faults, running, req>>

Interrupt(r) ==
    /\ req[r].pc = "idle" /\ Alive(r) /\ ~proc[r].term
    /\ proc' = killProcessGroup(r)
    /\ UNCHANGED <<cache, faults, running, req>>

Next ==
    \/ \E r \in Runs :
         \/ handleRun(r) \/ Start(r) \/ StreamEnds(r) \/ ScanFails(r) \/ Return(r) \/ Disconnect(r)
         \/ Shell(r) \/ Interrupt(r)
         \/ RunSteps(r) /\ UNCHANGED <<running, req>>
         \/ Crash(r) /\ UNCHANGED <<running, req>>
         \/ Unused(r) /\ Clean(r) /\ UNCHANGED <<running, req>>
    \/ Stop

Spec == Init /\ [][Next]_uiVars

(* A process that was told to stop goes on with what it is doing, as long as *)
(* it has something to do (NeverStuck): downloads and builds end, well or    *)
(* badly, Envoy, the debug server and the ext_proc servers end when they are *)
(* signalled.  Nothing else is assumed to happen.                            *)
Stopping(r) == proc[r].term \/ \E i \in DOMAIN proc[r].srv : proc[r].srv[i].st = "term"

Fairness == \A r \in Runs : []<>~Stopping(r) \/ []<><<proc'[r] # proc[r]>>_uiVars

FairSpec == Spec /\ Fairness

-------------------------------------------------------------------------------
(* Properties. *)

Ext(p) == Range(p.exts)

(* The only files an Envoy (or its debugger) loads half-written, although    *)
(* nobody wrote over them since its boe process did, are libraries of        *)
(* composer-lite: every other library is extracted or built again by each    *)
(* run, whatever a run that crashed or failed left behind, and Delve is      *)
(* renamed into place, while CheckOrDownloadLibComposerLite trusts a stat.   *)
TornLoads ==
    \A r \in Runs : \A slot \in proc[r].torn \ proc[r].clobbered : slot[2] = "composer-lite"

(* A boe process that is up, was not told to stop and belongs to a request   *)
(* is the registered one, which Stop and the next run reach -- except one    *)
(* replaced between its registration and its Start (executor.go:199-227),    *)
(* when killProcessGroup finds no process to signal.                         *)
OnlyLateStartsEscape ==
    \A r \in Runs :
        (req[r].pc = "streaming" /\ Alive(r) /\ ~proc[r].term) => (running = r \/ req[r].late)

(* A run that returned, rather than being killed, left no ext_proc server    *)
(* unsignalled, no debug server and no search path behind, whichever of its  *)
(* steps failed (runner.go:99-240).                                          *)
NothingLeftBehind ==
    \A r \in Runs : (proc[r].pc = "ended" /\ ~proc[r].crashed) =>
        /\ \A i \in DOMAIN proc[r].srv : proc[r].srv[i].st # "up"
        /\ proc[r].dbg \notin {"up", "term"}
        /\ ~proc[r].tmp

Arranged(p) == p.pc \in {"rendered", "exported", "servers", "envoy"}

(* An Envoy version picked by boe is one that every extension supports       *)
(* (manifest.go:583), after all inheritance; when none is picked, no         *)
(* extension asks for one.                                                   *)
PickedVersionSupported ==
    \A r \in Runs : (Arranged(proc[r]) /\ proc[r].cmd.envoy = Unset) =>
        IF proc[r].version = Unset
        THEN \A m \in Ext(proc[r]) : m.min = Unset /\ m.max = Unset
        ELSE \A m \in Ext(proc[r]) : SupportsEnvoyVersion(m, proc[r].version)

(* The extensions run in flag order, so that the n-th --config goes to the   *)
(* n-th extension, although downloads come first and local builds after      *)
(* (flags.go:64); with a flag written --extension=x boe panics instead.      *)
FlagOrderKept ==
    \A r \in Runs : Arranged(proc[r]) =>
        LET flags == SelectSeq(proc[r].cmd.flags, LAMBDA f : f.kind \in {"extension", "local"})
        IN  /\ Len(flags) = Len(proc[r].exts)
            /\ \A i \in DOMAIN flags : FlagOf(proc[r].exts[i]) = <<flags[i].kind, flags[i].value>>

Overrides(c) == Range(c.before) \cup Range(c.after)

(* A rendered configuration is closed: all clusters that its filters and its *)
(* route name are defined, and the HTTP filters end with the router, the     *)
(* only one unless an override of the user names another: validation rejects *)
(* it in a manifest only (config.go:120-333, manifest.go:488).               *)
ConfigClosed ==
    \A r \in Runs :
        (proc[r].pc = "rendered" /\ ~proc[r].cmd.minimal) =>
            LET conf == proc[r].conf
                routers == {i \in DOMAIN conf.http : conf.http[i].name \in Reserved}
            IN  /\ conf.route \in Range(conf.clusters)
                /\ \A i \in DOMAIN conf.http :
                      conf.http[i].kind = "ext_proc" => conf.http[i].loads \in Range(conf.clusters)
                /\ Len(conf.http) \in routers
                /\ \/ Cardinality(routers) = 1
                   \/ \E o \in Overrides(proc[r].cmd) : Range(o.names) \cap Reserved # {}

(* In an exported directory every Go plugin and Wasm filter refers to a file *)
(* that was copied there from its own extension's slot (genconfig.go:188),   *)
(* except a plugin whose name contains the name of another: the rewriting of *)
(* the other's URL takes it too.                                             *)
ExportedFiltersLoadOwn ==
    \A r \in Runs : (proc[r].pc = "exported" /\ proc[r].cmd.output) =>
        \A i \in DOMAIN proc[r].conf.http : \A m \in Ext(proc[r]) :
            LET f == proc[r].conf.http[i]
                file == IF f.kind = "plugin" THEN f.loads[3] ELSE f.loads
            IN  (f.name = m.name /\ f.kind \in {"plugin", "wasm"}) =>
                    \/ <<file, LocalCacheExtensionDir(m)>> \in proc[r].opens
                    \/ \E other \in Ext(proc[r]) : <<other.name, m.name>> \in Within

(* A configuration refers to nothing that is not there: clusters within it,  *)
(* files next to it once it is exported.                                     *)
ConfigSelfContained == ConfigClosed /\ ExportedFiltersLoadOwn

(* The boe of a container runs the same extensions in the same order, each   *)
(* local path inside a mount of that very tree, and does not start Docker    *)
(* again (runner.go:446-778).                                                *)
ContainerSeesOwnTrees ==
    \A r \in Runs : proc[r].pc = "container" =>
        LET c == proc[r].cmd
            args == proc[r].conf
            Of(flags) == SelectSeq(flags, LAMBDA f : f.kind \in {"extension", "local"})
            outer == Of(c.flags)
            inner == Of(args.flags)
        IN  /\ "docker" \notin {args.flags[i].kind : i \in DOMAIN args.flags}
            /\ "BOE_RUN_DOCKER" \notin args.env
            /\ Len(inner) = Len(outer)
            /\ \A i \in DOMAIN outer :
                 /\ inner[i].kind = outer[i].kind
                 /\ IF outer[i].kind = "extension" THEN inner[i].value = outer[i].value
                    ELSE IF c.do = "debug"
                    THEN /\ inner[i].value = <<outer[i].value>>
                         /\ LET dir == Locals[outer[i].value].dir IN <<dir, <<dir>>>> \in Range(args.mounts)
                    ELSE <<outer[i].value, inner[i].value>> \in Range(args.mounts)

(* What runs is what the flags say, in their order, on the host and in the   *)
(* container.                                                                *)
ExtensionsAsFlagged == FlagOrderKept /\ ContainerSeesOwnTrees

(* When Envoy starts, each of its ext_proc servers is up, unless another     *)
(* server had its port or it broke down: waitForTCPReady only asks whether   *)
(* the port answers (runner.go:317-387).                                     *)
ServersReady ==
    \A r \in Runs : proc[r].pc = "envoy" /\ ~proc[r].term /\ faults = 0 =>
        \A i \in DOMAIN proc[r].srv :
            \/ proc[r].srv[i].st = "up"
            \/ \E j \in DOMAIN proc[r].srv : j # i /\ proc[r].srv[j].port = proc[r].srv[i].port
            \/ \E q \in Runs \ {r} : \E j \in DOMAIN proc[q].srv :
                  proc[q].srv[j].port = proc[r].srv[i].port

(* The ext_proc servers of a run are there as long as its Envoy needs them,  *)
(* from its start on, and not after the run.                                 *)
ServersTiedToRun == ServersReady /\ NothingLeftBehind

(* A process that was told to stop is never blocked, at any point of its     *)
(* start-up or its shutdown: there is a step that it can take.               *)
NeverStuck ==
    \A r \in Runs : proc[r].term => ENABLED (RunSteps(r) /\ UNCHANGED <<running, req>>)

(* A boe process can be stopped as long as it runs: Stop and the next run    *)
(* reach it (but for a late start), and once told it always has a step left. *)
Stoppable == OnlyLateStartsEscape /\ NeverStuck

(* A process that was told to stop, by Stop, a replacing run, a disconnect   *)
(* or Ctrl-C, ends, from any point of its start-up, and its servers with it. *)
SignalledRunsEnd ==
    \A r \in Runs : proc[r].term ~>
        (proc[r].pc = "ended" /\ \A i \in DOMAIN proc[r].srv : proc[r].srv[i].st \in {"none", "down"})

(* "Building from source overwrites that slot with an ABI-matched            *)
(* libcomposer-lite.so" (cmd/run.go:543): an Envoy that runs a Go plugin     *)
(* built from local source has linked a composer-lite built from source.     *)
PluginHostMatches ==
    \A r \in Runs : proc[r].pc = "servers" =>
        \A m \in Ext(proc[r]) :
            (IsPlugin(m) /\ m.remote = "") =>
                \E v \in {m.composerVersion, DebugVersion(m.composerVersion)} :
                    LET slot == LocalCacheComposerLiteDir(v) IN
                    slot \in proc[r].opens /\ Slot(slot).origin = "source"
===============================================================================
