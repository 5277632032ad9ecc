-------------------------------- MODULE BoeRun --------------------------------
(* From a rendered configuration to a running Envoy and back: links,         *)
(* ext_proc servers, the debug server, signals and crashes                   *)
(* (cli/internal/envoy/{runner,debug,debug_delve}.go, cli/cmd/{debug,clean}.go). *)
EXTENDS BoeCommand

(* Debug.Validate: local trees only, all for one debugger. *)
debuggerFor(path) ==
    LET type == LoadLocal(path).root.type IN
    CASE type \in {"go", "composer"} -> "delve" [] type = "rust" -> "gdbremote" [] OTHER -> "none"

Validate(c) ==
    LET debuggers == {debuggerFor(path) : path \in Range(Values(c.flags, "local"))} IN
    c.do = "debug" => /\ Values(c.flags, "extension") = <<>>
                      /\ debuggers \in {{"delve"}, {"gdbremote"}}

(* Loaded straight by Envoy, through the module search path. *)
IsModule(m) == m.type = "rust" \/ (m.type = "go" /\ m.cshared)
IsPlugin(m) == m.type = "go" /\ ~m.cshared

(* setupDynamicModuleSearchPath: links are named after the library, so the   *)
(* first extension of a module name provides it.  The libraries must exist;  *)
(* composer-lite is linked when it is there and left out otherwise.          *)
LibrariesFound(ms) ==
    \A i \in DOMAIN ms : IsModule(ms[i]) => Slot(LocalCacheExtensionDir(ms[i])) # Absent

Linked(ms) ==
    {LocalCacheExtensionDir(ms[i]) :
        i \in {j \in DOMAIN ms : /\ IsModule(ms[j])
                                 /\ \A k \in 1..(j-1) : IsModule(ms[k]) =>
                                        ModuleName(ms[k]) # ModuleName(ms[j])}}

LinkedHost(ms) ==
    LET hosts == {LocalCacheComposerLiteDir(m.composerVersion) : m \in {e \in Range(ms) : IsPlugin(e)}}
    IN  {slot \in hosts : Slot(slot) # Absent}

(* The plugins and Wasm files named in the configuration. *)
Named(ms) ==
    {LocalCacheExtensionDir(m) : m \in {e \in Range(ms) : IsPlugin(e) \/ e.type = "wasm"}}

DefaultPort == 50051
Port(m) == IF m.port = Unset THEN DefaultPort ELSE m.port

(* Servers are "none" until started, "up", "down", or "term" when signalled. *)
Server(m) == [slot |-> LocalCacheExtensionDir(m), port |-> Port(m), st |-> "none"]

Link(r) ==
    LET p == proc[r]
        servers == {i \in DOMAIN p.exts : p.exts[i].type = "ext_proc"}
    IN  /\ p.pc = "rendered" /\ p.cmd.do # "gen-config"
        /\ IF LibrariesFound(p.exts)
           THEN Set(r, [p EXCEPT !.pc = "servers", !.tmp = TRUE,
                                 !.opens = Linked(p.exts) \cup LinkedHost(p.exts) \cup Named(p.exts),
                                 !.srv = [i \in servers |-> Server(p.exts[i])]])
           ELSE Set(r, Returned(p))
        /\ UNCHANGED cache

(* Some ext_proc server, of any process, accepts connections on the port. *)
Listening(port) ==
    \E q \in Runs : \E i \in DOMAIN proc[q].srv :
        proc[q].srv[i].st \in {"up", "term"} /\ proc[q].srv[i].port = port

Pending(p) == {i \in DOMAIN p.srv : p.srv[i].st = "none"}

(* startExtProcServers, one server: a missing or torn binary, or a cancelled *)
(* context, is an error, after which the servers started so far are stopped. *)
(* A server that finds its port taken exits, and one may be broken.          *)
StartServer(r) ==
    LET p == proc[r]
        i == Min(Pending(p))
        starts == ~p.term /\ Slot(p.srv[i].slot).st = "whole"
        Becomes(st) == Set(r, [p EXCEPT !.pc = "waiting", !.srv[i].st = st])
    IN  /\ p.pc = "servers" /\ Pending(p) # {}
        /\ \/ starts /\ NoFault /\ Becomes(IF Listening(p.srv[i].port) THEN "down" ELSE "up")
           \/ starts /\ Fault /\ Becomes("down")
           \/ ~starts /\ NoFault /\ Set(r, Returned(p))
        /\ UNCHANGED cache

(* waitForTCPReady: any listener on the port will do; none is a timeout. *)
WaitReady(r) ==
    LET p == proc[r]
        last == Max(DOMAIN p.srv \ Pending(p))
    IN  /\ p.pc = "waiting"
        /\ Set(r, IF Listening(p.srv[last].port) THEN [p EXCEPT !.pc = "servers"]
                  ELSE Returned(p))
        /\ UNCHANGED cache

-------------------------------------------------------------------------------
(* The debug server and Envoy. *)

Delve == <<"bin", "dlv", 1>>

ServersUp(p) == p.pc = "servers" /\ Pending(p) = {}

(* DebugOptions.resolve: a cached Delve is used as it is; otherwise it is    *)
(* built in a temporary directory and renamed into the cache.  A debug       *)
(* server for Rust is part of the system.  Tracing may not be permitted.     *)
ResolveDebugger(r) ==
    LET p == proc[r]
        delve == debuggerFor(Local(p)[1]) = "delve"
    IN  /\ ServersUp(p) /\ p.cmd.do = "debug"
        /\ Set(r, [p EXCEPT !.pc = IF delve /\ Slot(Delve) = Absent THEN "delve" ELSE "launch",
                            !.opens = IF delve THEN @ \cup {Delve} ELSE @])
        /\ UNCHANGED cache

InstallDelve(r) ==
    /\ proc[r].pc = "delve"
    /\ Put(Delve, Whole("source", r))
    /\ Over(r, [proc[r] EXCEPT !.pc = "launch"], {Delve})

DebuggerFails(r) ==
    /\ proc[r].pc = "delve" \/ (ServersUp(proc[r]) /\ proc[r].cmd.do = "debug")
    /\ StepFails(r)

(* funce.Run: a cancelled context starts nothing. *)
StartEnvoy(r) ==
    LET p == proc[r] IN
    /\ p.pc = "launch" \/ (ServersUp(p) /\ p.cmd.do # "debug")
    /\ Set(r, IF p.term THEN Returned(p)
              ELSE [p EXCEPT !.pc = "envoy", !.root = Blank, !.m = Blank,
                             !.torn = {slot \in p.opens : Slot(slot).st = "partial"}])
    /\ UNCHANGED cache

(* The startup hook; an error from it ends the run. *)
AttachDebugger(r) ==
    LET p == proc[r] IN
    /\ p.pc = "envoy" /\ p.cmd.do = "debug" /\ p.dbg = "none" /\ ~p.term
    /\ \/ NoFault /\ Set(r, [p EXCEPT !.dbg = "up"])
       \/ Fault /\ Set(r, Returned([p EXCEPT !.dbg = "up"]))
    /\ UNCHANGED cache

(* funce.Run returns: Envoy exited, or the context was cancelled. *)
EnvoyReturns(r) ==
    /\ proc[r].pc = "envoy"
    /\ Set(r, Returned(proc[r]))
    /\ UNCHANGED cache

DebuggerExits(r) ==
    /\ proc[r].dbg = "term"
    /\ Set(r, [proc[r] EXCEPT !.dbg = "down"])
    /\ UNCHANGED cache

(* A command that printed or exported its configuration, or handed over to   *)
(* docker, and one whose debug server is gone.                               *)
Close(r) ==
    /\ \/ proc[r].pc \in {"exported", "container"}
       \/ proc[r].pc = "closing" /\ proc[r].dbg = "down"
    /\ Set(r, Returned(proc[r]))
    /\ UNCHANGED cache

ServerExits(r) ==
    /\ \E i \in DOMAIN proc[r].srv : /\ proc[r].srv[i].st = "term"
                                     /\ Set(r, [proc[r] EXCEPT !.srv[i].st = "down"])
    /\ UNCHANGED cache

-------------------------------------------------------------------------------
(* Signals, crashes, cleaning. *)

(* Mutant: only the boe process itself is signalled. *)
SignalledAlone(p) == IF p.pc \in {"idle", "ended"} THEN p ELSE [p EXCEPT !.term = TRUE]

(* SIGTERM to the process group of p: boe cancels its context, its servers   *)
(* get the signal too.                                                       *)
Signalled(p) ==
    IF p.pc \in {"idle", "ended"} THEN p
    ELSE [p EXCEPT !.term = TRUE, !.srv = Stopped(@), !.dbg = IF @ = "up" THEN "term" ELSE @]

(* SIGKILL or a panic: nothing deferred runs. *)
Crash(r) ==
    /\ Alive(r) /\ Fault
    /\ Set(r, [Ended(proc[r]) EXCEPT !.crashed = TRUE, !.tmp = proc[r].tmp])
    /\ UNCHANGED cache

(* `boe clean` of the data directory, while other processes use it. *)
Clean(r) ==
    /\ cache' = <<>>
    /\ Over(r, [Idle EXCEPT !.pc = "ended"], DOMAIN cache)
    /\ UNCHANGED faults

RunSteps(r) ==
    \/ PreparationFails(r) \/ DebuggerFails(r) \/ AttachDebugger(r) \/ StartServer(r)
    \/ /\ \/ EnvoyReturns(r) \/ DebuggerExits(r) \/ Close(r) \/ ServerExits(r)
          \/ WaitReady(r) \/ ResolveDebugger(r) \/ InstallDelve(r) \/ StartEnvoy(r)
          \/ Export(r) \/ RunDocker(r) \/ Link(r)
          \/ DownloadExtension(r) \/ Downloaded(r) \/ loadLocalManifests(r)
          \/ handleExtensionSource(r) \/ Copied(r) \/ CheckLite(r) \/ LitePulled(r) \/ BuildLite(r)
          \/ InheritFromComposer(r) \/ Configure(r)
       /\ NoFault
===============================================================================
