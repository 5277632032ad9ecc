------------------------------ MODULE WafEngines ------------------------------
(***************************************************************************)
(* The WAF engines that filter configurations and streams share: a cache   *)
(* of weak pointers keyed by the directives, an engine being reused while  *)
(* the files it was built from read as they did, and closed by a cleanup   *)
(* that Go runs at some time after nothing points to it any more.          *)
(***************************************************************************)
EXTENDS HttpStream

CONSTANTS
    Directives,  \* texts of directives
    Includes,      \* files and globs a build reads
    MaxEngines   \* most engines that are not closed yet (bound)

Ids == 1..MaxEngines
Contents == {"v1", "v2", "missing"}

(***************************************************************************)
(* stage: "held" while the weak pointer yields the engine, "collected"     *)
(* with release to run, "unlisted" with only the close left.               *)
(***************************************************************************)
Engine == [key : Directives, inputs : [Includes -> Contents], untracked : BOOLEAN,
           stage : {"held", "collected", "unlisted"}]

(***************************************************************************)
(* A call of getOrCreate, made with the mutex held: it compares the files  *)
(* in todo with what cached engine s was built from, or reads them for a   *)
(* new one.  current: what each file has held during the call.             *)
(***************************************************************************)
Call == [key : Directives, at : {"compare", "build", "store"}, s : Ids \cup {None},
         todo : SUBSET Includes, inputs : [Includes -> Contents \cup {None}],
         current : [Includes -> SUBSET Contents]]

(* made: the engines not closed yet.  configs: engines that configuration  *)
(* objects, of the filter or of routes, hold.  stale: a call has returned  *)
(* an engine of files that were not there during the call.                 *)
Engines == [made : [Ids -> Engine \cup {None}], entries : [Directives -> Ids \cup {None}],
            configs : SUBSET Ids, call : Call \cup {None}, disk : [Includes -> Contents],
            stale : BOOLEAN]

Started == [made |-> [i \in Ids |-> None], entries |-> [d \in Directives |-> None],
            configs |-> {}, call |-> None, disk |-> [i \in Includes |-> "v1"], stale |-> FALSE]

(* A stream's wafPlugin, with the engine it holds. *)
Holder(e) == [kind |-> "engine", engine |-> e]
Filters == {Holder(e) : e \in Ids \cup {None}}

E == shared.engines
On == E # None
Sets(e) == shared' = [shared EXCEPT !.engines = e]

(* weak.Pointer.Value: nil for no entry and for a collected engine. *)
Value(e) == IF e = None THEN None
            ELSE IF E.made[e] # None /\ E.made[e].stage = "held" THEN e ELSE None

(* Slip: the streams keep the embedded coraza.WAF only. *)
ReachableFromConfigs(e) ==
    e \in E.configs \/ (E.call # None /\ E.call.s = e)

(* What keeps a SharedWAF alive: configurations, streams and the call.     *)
Reachable(e) ==
    \/ e \in E.configs \/ (E.call # None /\ E.call.s = e)
    \/ \E s \in Streams : filter[s].engine = e

(* getOrCreate locks the mutex and looks at the entry of its directives.   *)
getOrCreate(d) ==
    LET s == Value(E.entries[d])
        reuse == IF s = None THEN FALSE ELSE ~E.made[s].untracked
    IN  Sets([E EXCEPT !.call =
             [key |-> d, at |-> IF reuse THEN "compare" ELSE "build",
              s |-> IF reuse THEN s ELSE None, todo |-> Includes,
              inputs |-> [i \in Includes |-> None],
              current |-> [i \in Includes |-> {E.disk[i]}]]])

(* wafPluginConfigFactory.Create and CreatePerRoute, on Envoy's main       *)
(* thread.  An empty configuration has no engine.                          *)
CreateConfig(d) ==
    /\ E.call = None /\ \E i \in Ids : E.made[i] = None
    /\ getOrCreate(d)

(* unchanged reads the inputs in any order; the first that reads another   *)
(* way makes getOrCreate build an engine.                                  *)
unchanged(i) ==
    /\ E.call # None /\ E.call.at = "compare" /\ i \in E.call.todo
    /\ Sets([E EXCEPT !.call =
         IF E.made[E.call.s].inputs[i] = E.disk[i] THEN [E.call EXCEPT !.todo = @ \ {i}]
         ELSE [E.call EXCEPT !.at = "build", !.s = None, !.todo = Includes]])

(* Built from something that a file has not held during the call. *)
Stale(inputs) == \E i \in Includes : inputs[i] \notin E.call.current[i]

Reuse ==
    /\ E.call # None /\ E.call.at = "compare" /\ E.call.todo = {}
    /\ Sets([E EXCEPT !.configs = @ \cup {E.call.s}, !.call = None,
                      !.stale = @ \/ Stale(E.made[E.call.s].inputs)])

(* recordingFS.ReadFile and Glob. *)
ReadFile(i) ==
    /\ E.call # None /\ E.call.at = "build" /\ i \in E.call.todo
    /\ Sets([E EXCEPT !.call.todo = @ \ {i}, !.call.inputs[i] = E.disk[i],
                      !.call.at = IF E.call.todo = {i} THEN "store" ELSE @])

(* Coraza rejects the directives, or it makes the engine, which the        *)
(* configuration being created then holds.  It may have opened a file      *)
(* behind the recorder's back (Open).                                      *)
newWAF ==
    /\ E.call # None /\ E.call.at = "store"
    /\ \/ Sets([E EXCEPT !.call = None])
       \/ \E opened \in BOOLEAN :
            LET e == CHOOSE i \in Ids : E.made[i] = None
            IN  Sets([E EXCEPT
                  !.made[e] = [key |-> E.call.key, inputs |-> E.call.inputs,
                               untracked |-> opened, stage |-> "held"],
                  !.entries[E.call.key] = e, !.configs = @ \cup {e}, !.call = None,
                  !.stale = @ \/ Stale(E.call.inputs)])

(* Envoy destroys a configuration object after an update. *)
DropConfig(e) == Sets([E EXCEPT !.configs = @ \ {e}])

(* The collector clears the weak pointer and queues the cleanup. *)
Collect(e) ==
    /\ E.made[e] # None /\ E.made[e].stage = "held" /\ ~Reachable(e)
    /\ Sets([E EXCEPT !.made[e].stage = "collected"])

(* Slip: the entry is dropped whatever it points to. *)
releaseAny(e) ==
    /\ E.call = None /\ E.made[e] # None /\ E.made[e].stage = "collected"
    /\ Sets([E EXCEPT !.made[e].stage = "unlisted", !.entries[E.made[e].key] = None])

(* release, up to the unlock: an entry that yields an engine is kept. *)
release(e) ==
    /\ E.call = None /\ E.made[e] # None /\ E.made[e].stage = "collected"
    /\ LET d == E.made[e].key
       IN  Sets([E EXCEPT !.made[e].stage = "unlisted",
                          !.entries[d] = IF Value(@) = None THEN None ELSE @])

Close(e) ==
    /\ E.made[e] # None /\ E.made[e].stage = "unlisted"
    /\ Sets([E EXCEPT !.made[e] = None])

(* Somebody edits, adds or removes a file. *)
Edit(i, c) ==
    /\ E.disk[i] # c
    /\ Sets([E EXCEPT !.disk[i] = c,
         !.call = IF E.call = None THEN None ELSE [E.call EXCEPT !.current[i] = @ \cup {c}]])

EngineStep ==
    /\ On /\ UNCHANGED <<stream, filter>>
    /\ \/ \E d \in Directives : CreateConfig(d)
       \/ \E i \in Includes : unchanged(i) \/ ReadFile(i) \/ \E c \in Contents : Edit(i, c)
       \/ Reuse \/ newWAF
       \/ \E e \in Ids : (e \in E.configs /\ DropConfig(e)) \/ Collect(e) \/ release(e) \/ Close(e)

(* wafPluginFactory.Create: the engine of the route's configuration or of  *)
(* the filter's. *)
CreatePlugin(s) ==
    /\ On /\ ~stream[s].up
    /\ \E e \in E.configs : filter' = [filter EXCEPT ![s] = Holder(e)]
    /\ stream' = [stream EXCEPT ![s].up = TRUE] /\ UNCHANGED shared

Destroy(s) == On /\ Ends(s, Holder(None)) /\ UNCHANGED shared

(* No configuration and no stream has an engine yet. *)
EnginesInit ==
    /\ filter = [s \in Streams |-> Holder(None)]
    /\ stream = [s \in Streams |-> Closed]
    /\ shared = [Unshared EXCEPT !.engines = Started]

EnginesNext == EngineStep \/ \E s \in Streams : CreatePlugin(s) \/ Destroy(s)

EnginesSpec == EnginesInit /\ [][EnginesNext]_vars

(* What is assumed of the parameters: None is neither an engine nor a call. *)
EnginesParameters == MaxEngines \in Nat /\ None \notin Engine \cup Call

(* The engines somebody may call NewTransaction on are not closed. *)
NoneClosed ==
    \A e \in E.configs \cup {filter[s].engine : s \in Streams} :
        e # None => (IF E.made[e] = None THEN FALSE ELSE E.made[e].stage = "held")

(* An entry that yields nothing has a release to come that drops it. *)
NoneForgotten ==
    \A d \in Directives : E.entries[d] # None /\ Value(E.entries[d]) = None =>
        \E e \in Ids : E.made[e] # None /\ E.made[e].stage = "collected" /\ E.made[e].key = d

(***************************************************************************)
(* Configurations and streams of the WAF only ever use an open engine that *)
(* was built from the directives and files of their configuration.  None   *)
(* holds an engine that is closed or about to be ("the WAF is closed once  *)
(* the SharedWAF is unreachable", shared.go:24-25), through updates,       *)
(* edited files and cleanups that run late; an entry of the cache whose    *)
(* engine is gone has a release to come; and what a call of getOrCreate    *)
(* returns was built from what each file held at some time during the      *)
(* call: an edit that came before the update is never missed.              *)
(***************************************************************************)
EnginesAsConfigured == On => NoneClosed /\ NoneForgotten /\ ~E.stale

(***************************************************************************)
(* The late release of an engine never takes a newer one, that is in use,  *)
(* off the list: only a call for the same directives replaces an entry     *)
(* that yields an engine (release).                                        *)
(***************************************************************************)
LiveEnginesStayListed ==
    [][On => \A d \in Directives :
         LET e == E.entries[d]
         IN  Value(e) # None /\ E.call = None => E'.entries[d] = e]_vars
================================================================================
