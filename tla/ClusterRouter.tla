---------------------------- MODULE ClusterRouter ----------------------------
(***************************************************************************)
(* A mesh of Envoys with the cluster-router extension.  Each configuration *)
(* of the filter owns a daemon that polls the peers' advertisements and    *)
(* publishes a routing table.  A reload starts the new daemon before the   *)
(* old one is stopped, and both serve the same port meanwhile.             *)
(***************************************************************************)
EXTENDS BestPath, FiniteSets

CONSTANTS
    Peers,          \* Peers[e]: the ids e polls, each at its own endpoint
    Configs,        \* Configs[e]: the sets of terminals e may be given
    MaxGeneration,  \* bound: MaxGeneration[e] configurations of e
    StaleAfter,     \* stale_after, in units of the shortest time between two ticks
    MaxFaults       \* bound: crashes and lost fetches

ASSUME PeersAssumption ==
    Peers \in [Envoys -> SUBSET Envoys] /\ \A e \in Envoys : e \notin Peers[e]
ASSUME ConfigsAssumption ==
    Configs \in [Envoys -> SUBSET SUBSET Targets] /\ \A e \in Envoys : Configs[e] # {}
ASSUME RouterBoundsAssumption ==
    /\ MaxGeneration \in [Envoys -> Nat \ {0}]
    /\ StaleAfter \in Nat /\ MaxFaults \in Nat

Daemons == UNION {{e} \X (1 .. MaxGeneration[e]) : e \in Envoys}

VARIABLES
    generation, \* the newest configuration of an Envoy
    status,     \* of a daemon: "down", "up", "stopping" (its context is cancelled)
    terminals,  \* a daemon's configured terminals
    table,      \* the published table: a function from targets to routes
    lastPeer,   \* the last advertisement of each peer, or None, and its age when
                \* the last tick began, counted up to MaxAge
    tick,       \* the peers still to answer in this tick, what the others gave
    faults      \* crashes and losses so far

vars == <<generation, status, terminals, table, lastPeer, tick, faults>>

MaxAge == StaleAfter + 1

ASSUME NoRouteAssumption == None \notin Route \cup [Targets -> Route \cup {None}]

Tables == [Targets -> Route \cup {None}]
Heard(e) == [Peers[e] -> [adv : Tables \cup {None}, age : 0 .. MaxAge]]
Ticks(e) == [on : BOOLEAN, pending : SUBSET Peers[e],
             used : [Peers[e] -> Tables \cup {None}]]
TypeOK ==
    /\ generation \in [Envoys -> Nat]
    /\ \A e \in Envoys : generation[e] \in 1 .. MaxGeneration[e]
    /\ status \in [Daemons -> {"down", "up", "stopping"}]
    /\ terminals \in [Daemons -> SUBSET Targets]
    /\ table \in [Daemons -> Tables]
    /\ lastPeer = [d \in Daemons |-> lastPeer[d]]
    /\ tick = [d \in Daemons |-> tick[d]]
    /\ \A d \in Daemons : lastPeer[d] \in Heard(d[1]) /\ tick[d] \in Ticks(d[1])
    /\ faults \in 0 .. MaxFaults

NoTick(e) == [on |-> FALSE, pending |-> {}, used |-> [p \in Peers[e] |-> None]]
NothingHeard(e) == [p \in Peers[e] |-> [adv |-> None, age |-> 0]]

Init ==
    /\ generation = [e \in Envoys |-> 1]
    /\ status = [d \in Daemons |-> IF d[2] = 1 THEN "up" ELSE "down"]
    /\ \E first \in [Envoys -> SUBSET Targets] :
         /\ \A e \in Envoys : first[e] \in Configs[e]
         /\ terminals = [d \in Daemons |-> IF d[2] = 1 THEN first[d[1]] ELSE {}]
    /\ table = [d \in Daemons |-> EmptyTable]
    /\ lastPeer = [d \in Daemons |-> NothingHeard(d[1])]
    /\ tick = [d \in Daemons |-> NoTick(d[1])]
    /\ faults = 0

-------------------------------------------------------------------------------
Older(entry, elapsed) ==
    IF entry.adv = None THEN entry
    ELSE [entry EXCEPT !.age = IF @ + elapsed < MaxAge THEN @ + elapsed ELSE MaxAge]

(* The loop begins a tick, some time after the last one.  (A tick begun    *)
(* just after the context was cancelled is one begun just before: all its  *)
(* fetches fail.)                                                          *)
BeginTick(d) ==
    /\ status[d] = "up"
    /\ ~tick[d].on
    /\ tick' = [tick EXCEPT ![d] = [NoTick(d[1]) EXCEPT !.on = TRUE,
                                                       !.pending = Peers[d[1]]]]
    /\ \E elapsed \in 1 .. MaxAge :
         lastPeer' = [lastPeer EXCEPT ![d] =
                        [p \in Peers[d[1]] |-> Older(lastPeer[d][p], elapsed)]]
    /\ UNCHANGED <<generation, status, terminals, table, faults>>

(* The daemons that answer at e's endpoint: until Stop shuts its server    *)
(* down, an old one shares the port with the new one.                      *)
Serving(e) == {d \in Daemons : d[1] = e /\ status[d] # "down"}

(* A peer answers GET /advertisements?peer=e from the table it has then.   *)
Fetch(d, p) ==
    /\ tick[d].on /\ p \in tick[d].pending
    /\ status[d] = "up"
    /\ \E s \in Serving(p) :
         LET adv == AdvertiseTo(table[s], d[1])
         IN  /\ lastPeer' = [lastPeer EXCEPT ![d][p] = [adv |-> adv, age |-> 0]]
             /\ tick' = [tick EXCEPT ![d].pending = @ \ {p}, ![d].used[p] = adv]
    /\ UNCHANGED <<generation, status, terminals, table, faults>>

(* Slip: what was heard last is used however old it is. *)
FallBackForever(d, p) ==
    /\ tick' = [tick EXCEPT ![d].pending = @ \ {p}, ![d].used[p] = lastPeer[d][p].adv]
    /\ UNCHANGED <<generation, status, terminals, table, lastPeer>>

(* Slip: using what was heard last counts as hearing it. *)
FallBackRefreshes(d, p) ==
    /\ IF lastPeer[d][p].adv # None /\ lastPeer[d][p].age <= StaleAfter
       THEN /\ tick' = [tick EXCEPT ![d].pending = @ \ {p},
                                    ![d].used[p] = lastPeer[d][p].adv]
            /\ lastPeer' = [lastPeer EXCEPT ![d][p].age = 0]
       ELSE /\ tick' = [tick EXCEPT ![d].pending = @ \ {p}]
            /\ UNCHANGED lastPeer
    /\ UNCHANGED <<generation, status, terminals, table>>

(* The fetch fails: fall back on what the peer said last, unless stale. *)
FallBack(d, p) ==
    /\ tick' = [tick EXCEPT ![d].pending = @ \ {p},
                            ![d].used[p] = IF lastPeer[d][p].age <= StaleAfter
                                           THEN lastPeer[d][p].adv ELSE None]
    /\ UNCHANGED <<generation, status, terminals, table, lastPeer>>

(* ... because nobody answers there, or the daemon is being stopped, ... *)
FetchRefused(d, p) ==
    /\ tick[d].on /\ p \in tick[d].pending
    /\ Serving(p) = {} \/ status[d] = "stopping"
    /\ FallBack(d, p)
    /\ UNCHANGED faults

(* ... or because a request or its answer is lost or late. *)
FetchLost(d, p) ==
    /\ tick[d].on /\ p \in tick[d].pending
    /\ Serving(p) # {} /\ status[d] = "up"
    /\ faults < MaxFaults
    /\ faults' = faults + 1
    /\ FallBack(d, p)

(* All peers are through: compute and publish. *)
FinishTick(d) ==
    /\ tick[d].on /\ tick[d].pending = {}
    /\ table' = [table EXCEPT ![d] = Compute(d[1], terminals[d], tick[d].used)]
    /\ tick' = [tick EXCEPT ![d] = NoTick(d[1])]
    /\ UNCHANGED <<generation, status, terminals, lastPeer, faults>>

-------------------------------------------------------------------------------
(* A new configuration: a daemon with nothing heard yet, beside the old one. *)
Start(e) ==
    /\ generation[e] < MaxGeneration[e]
    /\ LET d == <<e, generation[e] + 1>>
       IN  /\ generation' = [generation EXCEPT ![e] = @ + 1]
           /\ status' = [status EXCEPT ![d] = "up"]
           /\ \E T \in Configs[e] : terminals' = [terminals EXCEPT ![d] = T]
    /\ UNCHANGED <<table, lastPeer, tick, faults>>

(* The last stream of an old configuration is gone: OnDestroy cancels the  *)
(* daemon's context,                                                       *)
Cancel(d) ==
    /\ status[d] = "up" /\ d[2] < generation[d[1]]
    /\ status' = [status EXCEPT ![d] = "stopping"]
    /\ UNCHANGED <<generation, terminals, table, lastPeer, tick, faults>>

Forget(D) ==
    /\ status' = [d \in Daemons |-> IF d \in D THEN "down" ELSE status[d]]
    /\ terminals' = [d \in Daemons |-> IF d \in D THEN {} ELSE terminals[d]]
    /\ table' = [d \in Daemons |-> IF d \in D THEN EmptyTable ELSE table[d]]
    /\ lastPeer' = [d \in Daemons |-> IF d \in D THEN NothingHeard(d[1]) ELSE lastPeer[d]]
    /\ tick' = [d \in Daemons |-> IF d \in D THEN NoTick(d[1]) ELSE tick[d]]

(* waits for the tick under way and shuts the server down. *)
Shutdown(d) ==
    /\ status[d] = "stopping" /\ ~tick[d].on
    /\ Forget({d})
    /\ UNCHANGED <<generation, faults>>

Crash(e) ==
    /\ Serving(e) # {}
    /\ faults < MaxFaults
    /\ faults' = faults + 1
    /\ Forget(Serving(e))
    /\ UNCHANGED generation

-------------------------------------------------------------------------------
DaemonStep(d) ==
    \/ BeginTick(d) \/ FinishTick(d) \/ Shutdown(d)
    \/ \E p \in Peers[d[1]] : Fetch(d, p) \/ FetchRefused(d, p)

Next ==
    \/ \E e \in Envoys : Start(e) \/ Crash(e)
    \/ \E d \in Daemons : \/ DaemonStep(d) \/ Cancel(d)
                          \/ \E p \in Peers[d[1]] : FetchLost(d, p)

Spec == Init /\ [][Next]_vars

(* The poll loop keeps ticking, and a replaced configuration is dropped    *)
(* some time.  Nothing makes crashes, losses or reloads happen. *)
FairSpec ==
    /\ Spec
    /\ \A d \in Daemons : WF_vars(DaemonStep(d)) /\ WF_vars(Cancel(d))

-------------------------------------------------------------------------------
Current(e) == <<e, generation[e]>>
Running == {e \in Envoys : status[Current(e)] = "up"}

(* A path goes from peer to peer to an Envoy that fronts the target in     *)
(* some configuration, never names an Envoy twice or leads back to its     *)
(* owner, and has the distance as its length: the protocol cannot count to *)
(* infinity, whatever is stale, lost, restarted or answered by an old      *)
(* configuration.                                                          *)
SimplePath(e, t, r) ==
    LET path == <<e>> \o r.asPath
    IN  /\ r.distance = Len(r.asPath)
        /\ \A i, j \in 1 .. Len(path) : i # j => path[i] # path[j]
        /\ \A i \in 1 .. Len(path) - 1 : path[i + 1] \in Peers[path[i]]
        /\ \E T \in Configs[path[Len(path)]] : t \in T
PathsSimple ==
    \A d \in Daemons, t \in Targets :
        table[d][t] # None => SimplePath(d[1], t, table[d][t])

(* Between two ticks the table is what Compute makes of the last           *)
(* advertisements that were not stale when the tick began: no route is     *)
(* kept that no peer has advertised for longer than stale_after.           *)
TableFresh ==
    \A d \in Daemons :
        ~tick[d].on /\ table[d] # EmptyTable =>
            table[d] = Compute(d[1], terminals[d],
                               [p \in Peers[d[1]] |->
                                  IF lastPeer[d][p].age <= StaleAfter
                                  THEN lastPeer[d][p].adv ELSE None])

(* A route has at most one hop more than an acceptable advertisement: the  *)
(* limit is tested before the hop to the peer is added, so the manifest's  *)
(* "A route is dropped once its distance exceeds `32`" is off by one.      *)
DistanceBounded ==
    \A d \in Daemons, t \in Targets :
        table[d][t] # None => table[d][t].distance <= MaxDistance + hopCost

(* The Envoys within n hops of one that fronts t, along running Envoys. *)
Within(t) ==
    LET w[n \in 0 .. MaxDistance + hopCost] ==
          IF n = 0 THEN {e \in Running : t \in terminals[Current(e)]}
          ELSE w[n - 1] \cup {e \in Running : Peers[e] \cap w[n - 1] # {}}
    IN  w

(* Every running Envoy has a shortest route to every target in reach, and  *)
(* none to any other.                                                      *)
Settled ==
    \A e \in Running, t \in Targets :
        LET r == table[Current(e)][t]
            w == Within(t)
        IN  IF r = None THEN e \notin w[MaxDistance + hopCost]
            ELSE /\ e \in w[r.distance]
                 /\ r.distance > 0 => e \notin w[r.distance - 1]

(* Once crashes, losses and reloads are over the mesh settles: routes to   *)
(* what is gone are withdrawn everywhere, and the others become shortest.  *)
MeshSettles == <>[]Settled

-------------------------------------------------------------------------------
(* Meshes to check: a line of Envoys, each polling the next, of which only *)
(* the last may front t and is given a second configuration.               *)
Last == CHOOSE e \in Envoys : \A f \in Envoys : f <= e
NextPeer == [e \in Envoys |-> {f \in Envoys : f = e + 1}]
LastReloads == [e \in Envoys |-> IF e = Last THEN 2 ELSE 1]
LastFronts == [e \in Envoys |-> IF e = Last THEN {{"t"}, {}} ELSE {{}}]

(* The last one fronts the target and polls nobody; the others poll each   *)
(* other and it.                                                           *)
FanPeers == [e \in Envoys |-> IF e = Last THEN {} ELSE Envoys \ {e}]
NoReload == [e \in Envoys |-> 1]
FrontOnly == [e \in Envoys |-> IF e = Last THEN {{"t"}} ELSE {{}}]
================================================================================
