------------------------------- MODULE BestPath -------------------------------
(***************************************************************************)
(* The route selection of the cluster-router extension: what an Envoy      *)
(* advertises, which advertised routes it accepts and which it prefers.    *)
(* Envoys are identified by numbers: their order is the order of the ids.  *)
(***************************************************************************)
EXTENDS Naturals, Sequences

CONSTANTS
    Envoys,     \* envoy ids
    Targets,    \* names of clusters requests can ask for
    MaxASPath,  \* 32 in the code
    None        \* no route

ASSUME EnvoysAssumption == Envoys \subseteq Nat
ASSUME MaxASPathAssumption == MaxASPath \in Nat

MaxDistance == MaxASPath
hopCost == 1

(* A route to a target: a local terminal has the empty path, and the next  *)
(* hop of any other is the local cluster of the peer its path starts with. *)
Route == [distance : Nat, asPath : Seq(Envoys)]
Terminal == [distance |-> 0, asPath |-> << >>]

HasInPath(path, id) == \E i \in 1 .. Len(path) : path[i] = id

(* Slip: only the path is limited, by the length it will have. *)
ValidByPath(r) == Len(r.asPath) <= MaxASPath + hopCost

(* Slip: the limit itself is refused. *)
ValidStrict(r) == r.distance < MaxDistance /\ Len(r.asPath) < MaxASPath

(* The sign of the distance and empty names are not modelled: tables, from *)
(* which advertisements are made, have neither.                            *)
ValidAdvertisedRoute(r) == r.distance <= MaxDistance /\ Len(r.asPath) <= MaxASPath

(* Split horizon. *)
AdvertiseTo(table, peer) ==
    [t \in Targets |-> IF table[t] # None /\ HasInPath(table[t].asPath, peer)
                       THEN None ELSE table[t]]

Better(a, b) ==
    \/ a.distance < b.distance
    \/ /\ a.distance = b.distance
       /\ \/ Len(a.asPath) < Len(b.asPath)
          \/ /\ Len(a.asPath) = Len(b.asPath)
             /\ Len(a.asPath) > 0
             /\ a.asPath[1] < b.asPath[1]

Accepted(self, peer, r) ==
    /\ r # None
    /\ ValidAdvertisedRoute(r)
    /\ ~HasInPath(r.asPath, self)
    /\ ~HasInPath(r.asPath, peer)

(* Slip: the peer goes to the wrong end of the path. *)
CandidateAppends(peer, r) ==
    [distance |-> r.distance + hopCost, asPath |-> Append(r.asPath, peer)]

Candidate(peer, r) ==
    [distance |-> r.distance + hopCost, asPath |-> <<peer>> \o r.asPath]

(* The candidates for target t, from the advertisements of the peers heard. *)
Candidates(self, advs, t) ==
    {Candidate(p, advs[p][t]) :
        p \in {q \in DOMAIN advs : advs[q] # None /\ Accepted(self, q, advs[q][t])}}

Best(cands) == CHOOSE c \in cands : \A d \in cands : d # c => Better(c, d)

(* The routing table: a local terminal beats whatever peers advertise.     *)
(* advs[p] is p's advertisement, a partial table, or None.                 *)
Compute(self, terminals, advs) ==
    [t \in Targets |->
        IF t \in terminals THEN Terminal
        ELSE IF Candidates(self, advs, t) = {} THEN None
        ELSE Best(Candidates(self, advs, t))]

EmptyTable == [t \in Targets |-> None]
================================================================================
