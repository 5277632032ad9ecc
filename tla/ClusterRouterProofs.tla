-------------------------- MODULE ClusterRouterProofs --------------------------
(***************************************************************************)
(* For every mesh, every set of configurations and every bound: types, the *)
(* shape and length of the paths, and what a table was computed from.      *)
(***************************************************************************)
EXTENDS ClusterRouter, TLAPS, WellFoundedInduction

LEMMA SmallestOf ==
    ASSUME NEW T \in SUBSET Nat, T # {}
    PROVE  \E x \in T : \A y \in T : x <= y
  <1>1. PICK x \in T : \A y \in T : ~(<<y, x>> \in OpToRel(<, Nat))
    BY Zenon, NatLessThanWellFounded, WFMin
  <1>2. \A y \in T : ~(y < x)
    BY Zenon, <1>1 DEF OpToRel
  <1> QED
    BY <1>2

(* The order of candidates is total when the first hops differ: a          *)
(* non-empty set of candidates has a best.                                 *)
LEMMA BestExists ==
    ASSUME NEW cands \in SUBSET Route, cands # {},
           \A c \in cands : Len(c.asPath) > 0,
           \A c, d \in cands : c.asPath[1] = d.asPath[1] => c = d
    PROVE  Best(cands) \in cands
  <1>0. \A c \in cands : /\ c.distance \in Nat /\ Len(c.asPath) \in Nat
                         /\ c.asPath[1] \in Nat
    <2> SUFFICES ASSUME NEW c \in cands
                 PROVE  c.distance \in Nat /\ Len(c.asPath) \in Nat /\ c.asPath[1] \in Nat
      OBVIOUS
    <2>1. c.distance \in Nat /\ c.asPath \in Seq(Envoys) /\ Len(c.asPath) > 0
      BY Zenon DEF Route
    <2>2. Len(c.asPath) \in Nat /\ c.asPath[1] \in Envoys
      BY <2>1
    <2> QED
      BY Zenon, <2>1, <2>2, EnvoysAssumption
  <1> DEFINE dists == {c.distance : c \in cands}
  <1>1. PICK m \in dists : \A n \in dists : m <= n
    <2>1. dists \in SUBSET Nat /\ dists # {}
      BY Zenon, <1>0
    <2> HIDE DEF dists
    <2> QED
      BY Zenon, <2>1, SmallestOf
  <1> DEFINE near == {c \in cands : c.distance = m}
             lens == {Len(c.asPath) : c \in near}
  <1>2. PICK k \in lens : \A n \in lens : k <= n
    <2>0. PICK c \in cands : c.distance = m
      BY Zenon, <1>1
    <2>1. lens \in SUBSET Nat /\ lens # {}
      <3>1. c \in near
        BY Zenon, <2>0
      <3>2. \A x \in near : Len(x.asPath) \in Nat
        BY Zenon, <1>0
      <3> HIDE DEF near
      <3>3. Len(c.asPath) \in lens
        BY Zenon, <3>1
      <3>4. \A n \in lens : n \in Nat
        BY Zenon, <3>2
      <3> QED
        BY Zenon, <3>3, <3>4
    <2> HIDE DEF lens
    <2> QED
      BY Zenon, <2>1, SmallestOf
  <1> DEFINE short == {c \in near : Len(c.asPath) = k}
             heads == {c.asPath[1] : c \in short}
  <1>3. PICK h \in heads : \A n \in heads : h <= n
    <2>1. heads \in SUBSET Nat /\ heads # {}
      BY <1>0, <1>2
    <2> HIDE DEF heads
    <2> QED
      BY Zenon, <2>1, SmallestOf
  <1>4. PICK c \in short : c.asPath[1] = h
    BY Zenon, <1>3
  <1>5. ASSUME NEW d \in cands, d # c PROVE Better(c, d)
    <2>1. /\ c.distance = m /\ m <= d.distance /\ m \in Nat /\ d.distance \in Nat
          /\ Len(c.asPath) = k /\ k \in Nat /\ Len(d.asPath) \in Nat
          /\ Len(c.asPath) > 0 /\ Len(d.asPath) > 0
          /\ h \in Nat /\ d.asPath[1] \in Nat
      BY <1>0, <1>1, <1>2, <1>3, <1>4
    <2>2. CASE d.distance # m
      BY <2>1, <2>2 DEF Better
    <2>3. CASE d.distance = m /\ Len(d.asPath) # k
      <3>1. k <= Len(d.asPath)
        BY <1>2, <2>3
      <3> QED
        BY <2>1, <2>3, <3>1 DEF Better
    <2>4. CASE d.distance = m /\ Len(d.asPath) = k
      <3>1. h <= d.asPath[1] /\ h # d.asPath[1]
        BY <1>3, <1>4, <1>5, <2>4
      <3> QED
        BY <1>4, <2>1, <2>4, <3>1 DEF Better
    <2> QED
      BY Zenon, <2>2, <2>3, <2>4
  <1> QED
    BY Zenon, <1>4, <1>5 DEF Best

-------------------------------------------------------------------------------
LEMMA PathPrefixed ==
    ASSUME NEW p \in Envoys, NEW path \in Seq(Envoys)
    PROVE  /\ <<p>> \o path \in Seq(Envoys)
           /\ Len(<<p>> \o path) = Len(path) + 1
           /\ (<<p>> \o path)[1] = p
           /\ \A i \in 1 .. Len(path) : (<<p>> \o path)[i + 1] = path[i]
  OBVIOUS

LEMMA CandidateIsRoute ==
    ASSUME NEW p \in Envoys, NEW r \in Route
    PROVE  /\ Candidate(p, r) \in Route
           /\ Len(Candidate(p, r).asPath) = Len(r.asPath) + 1
           /\ Candidate(p, r).asPath[1] = p
           /\ \A i \in 1 .. Len(r.asPath) : Candidate(p, r).asPath[i + 1] = r.asPath[i]
  <1>1. r.distance \in Nat /\ r.asPath \in Seq(Envoys)
    BY Zenon DEF Route
  <1>2. /\ <<p>> \o r.asPath \in Seq(Envoys)
        /\ Len(<<p>> \o r.asPath) = Len(r.asPath) + 1
        /\ (<<p>> \o r.asPath)[1] = p
        /\ \A i \in 1 .. Len(r.asPath) : (<<p>> \o r.asPath)[i + 1] = r.asPath[i]
    BY Zenon, <1>1, PathPrefixed
  <1>3. r.distance + hopCost \in Nat
    BY <1>1 DEF hopCost
  <1> QED
    BY Zenon, <1>2, <1>3 DEF Candidate, Route

LEMMA CandidatesHaveBest ==
    ASSUME NEW self \in Envoys, NEW ps \in SUBSET Envoys,
           NEW advs \in [ps -> Tables \cup {None}], NEW t \in Targets,
           Candidates(self, advs, t) # {}
    PROVE  \E p \in ps : /\ advs[p] \in Tables /\ advs[p][t] \in Route
                         /\ Accepted(self, p, advs[p][t])
                         /\ Best(Candidates(self, advs, t)) = Candidate(p, advs[p][t])
  <1> DEFINE cands == Candidates(self, advs, t)
             from == {q \in ps : advs[q] # None /\ Accepted(self, q, advs[q][t])}
  <1>1. cands = {Candidate(p, advs[p][t]) : p \in from}
    BY Zenon DEF Candidates
  <1>2. \A p \in from : p \in Envoys /\ advs[p] \in Tables /\ advs[p][t] \in Route
    BY Zenon DEF Accepted, Tables
  <1>3. cands \in SUBSET Route /\ \A c \in cands : Len(c.asPath) > 0
    <2> SUFFICES ASSUME NEW p \in from
                 PROVE  /\ Candidate(p, advs[p][t]) \in Route
                        /\ Len(Candidate(p, advs[p][t]).asPath) > 0
      BY Zenon, <1>1
    <2>1. advs[p][t] \in Route /\ p \in Envoys
      BY Zenon, <1>2
    <2>2. Len(advs[p][t].asPath) \in Nat
      BY <2>1 DEF Route
    <2> QED
      BY <2>1, <2>2, CandidateIsRoute
  <1>4. \A c, d \in cands : c.asPath[1] = d.asPath[1] => c = d
    <2> SUFFICES ASSUME NEW p \in from, NEW q \in from,
                        Candidate(p, advs[p][t]).asPath[1] = Candidate(q, advs[q][t]).asPath[1]
                 PROVE  p = q
      BY <1>1
    <2> QED
      BY <1>2, CandidateIsRoute
  <1>5. Best(cands) \in cands
    BY Zenon, <1>3, <1>4, BestExists
  <1> QED
    BY Zenon, <1>1, <1>2, <1>5

LEMMA ComputeType ==
    ASSUME NEW self \in Envoys, NEW T \in SUBSET Targets, NEW ps \in SUBSET Envoys,
           NEW advs \in [ps -> Tables \cup {None}]
    PROVE  Compute(self, T, advs) \in Tables
  <1>1. Terminal \in Route
    BY DEF Terminal, Route
  <1>2. ASSUME NEW t \in Targets, Candidates(self, advs, t) # {}
        PROVE  Best(Candidates(self, advs, t)) \in Route
    BY <1>2, CandidatesHaveBest, CandidateIsRoute
  <1> QED
    BY Zenon, <1>1, <1>2 DEF Compute, Tables

-------------------------------------------------------------------------------
LEMMA DaemonParts ==
    ASSUME NEW d \in Daemons
    PROVE  /\ d[1] \in Envoys /\ d[2] \in 1 .. MaxGeneration[d[1]]
           /\ d = <<d[1], d[2]>> /\ Peers[d[1]] \in SUBSET Envoys
  <1>1. PICK e \in Envoys : d \in {e} \X (1 .. MaxGeneration[e])
    BY Zenon DEF Daemons
  <1> QED
    BY <1>1, PeersAssumption

LEMMA TypeInit == Init => TypeOK
  <1> SUFFICES ASSUME Init PROVE TypeOK
    OBVIOUS
  <1>1. generation \in [Envoys -> Nat] /\ \A e \in Envoys : generation[e] \in 1 .. MaxGeneration[e]
    BY RouterBoundsAssumption DEF Init
  <1>2. status \in [Daemons -> {"down", "up", "stopping"}]
    BY Zenon DEF Init
  <1>3. terminals \in [Daemons -> SUBSET Targets]
    BY DaemonParts DEF Init
  <1>4. table \in [Daemons -> Tables]
    BY Zenon DEF Init, Tables, EmptyTable
  <1>5. /\ lastPeer = [d \in Daemons |-> lastPeer[d]]
        /\ tick = [d \in Daemons |-> tick[d]]
    BY Zenon DEF Init
  <1>6. \A d \in Daemons : lastPeer[d] \in Heard(d[1]) /\ tick[d] \in Ticks(d[1])
    BY RouterBoundsAssumption DEF Init, Heard, Ticks, NothingHeard, NoTick, MaxAge
  <1>7. faults \in 0 .. MaxFaults
    BY RouterBoundsAssumption DEF Init
  <1> QED
    BY Zenon, <1>1, <1>2, <1>3, <1>4, <1>5, <1>6, <1>7 DEF TypeOK

(* What one daemon hears, and its tick, may change. *)
HeardOK(l) == l = [d \in Daemons |-> l[d]] /\ \A d \in Daemons : l[d] \in Heard(d[1])
TicksOK(k) == k = [d \in Daemons |-> k[d]] /\ \A d \in Daemons : k[d] \in Ticks(d[1])

LEMMA TypeParts ==
    TypeOK <=> /\ generation \in [Envoys -> Nat]
               /\ \A e \in Envoys : generation[e] \in 1 .. MaxGeneration[e]
               /\ status \in [Daemons -> {"down", "up", "stopping"}]
               /\ terminals \in [Daemons -> SUBSET Targets]
               /\ table \in [Daemons -> Tables]
               /\ HeardOK(lastPeer) /\ TicksOK(tick)
               /\ faults \in 0 .. MaxFaults
  BY Zenon DEF TypeOK, HeardOK, TicksOK

LEMMA HeardChange ==
    ASSUME NEW l, HeardOK(l), NEW d \in Daemons, NEW x \in Heard(d[1])
    PROVE  HeardOK([l EXCEPT ![d] = x])
  BY Zenon DEF HeardOK

LEMMA TickChange ==
    ASSUME NEW k, TicksOK(k), NEW d \in Daemons, NEW x \in Ticks(d[1])
    PROVE  TicksOK([k EXCEPT ![d] = x])
  BY Zenon DEF TicksOK

LEMMA AdvertiseType ==
    ASSUME NEW t \in Tables, NEW e \in Envoys
    PROVE  AdvertiseTo(t, e) \in Tables
  BY Zenon DEF AdvertiseTo, Tables

(* A peer of d is through, with adv for this tick. *)
LEMMA UsedType ==
    ASSUME TypeOK, NEW d \in Daemons, NEW p \in Peers[d[1]], NEW adv \in Tables \cup {None}
    PROVE  TicksOK([tick EXCEPT ![d].pending = @ \ {p}, ![d].used[p] = adv])
  <1> DEFINE k == tick[d]
             x == [k EXCEPT !.pending = @ \ {p}, !.used[p] = adv]
  <1>1. k \in Ticks(d[1])
    BY Zenon DEF TypeOK
  <1>2. x \in Ticks(d[1])
    BY Zenon, <1>1 DEF Ticks
  <1>3. [tick EXCEPT ![d].pending = @ \ {p}, ![d].used[p] = adv] = [tick EXCEPT ![d] = x]
    BY Zenon DEF TypeOK
  <1>4. TicksOK([tick EXCEPT ![d] = x])
    <2> HIDE DEF x
    <2> QED
      BY Zenon, <1>2, TickChange, TypeParts
  <1> QED
    BY Zenon, <1>3, <1>4

LEMMA ForgetType ==
    ASSUME TypeOK, NEW D, Forget(D), faults' \in 0 .. MaxFaults, UNCHANGED generation
    PROVE  TypeOK'
  <1>1. status' \in [Daemons -> {"down", "up", "stopping"}]
    BY Zenon DEF Forget, TypeOK
  <1>2. terminals' \in [Daemons -> SUBSET Targets]
    BY Zenon DEF Forget, TypeOK
  <1>3. table' \in [Daemons -> Tables]
    BY Zenon DEF Forget, TypeOK, Tables, EmptyTable
  <1>4. /\ lastPeer' = [d \in Daemons |-> lastPeer'[d]]
        /\ tick' = [d \in Daemons |-> tick'[d]]
    BY Zenon DEF Forget
  <1>5. \A d \in Daemons : NothingHeard(d[1]) \in Heard(d[1]) /\ NoTick(d[1]) \in Ticks(d[1])
    BY RouterBoundsAssumption DEF Heard, Ticks, NothingHeard, NoTick, MaxAge
  <1>6. \A d \in Daemons : lastPeer'[d] \in Heard(d[1]) /\ tick'[d] \in Ticks(d[1])
    BY Zenon, <1>5 DEF Forget, TypeOK
  <1> QED
    BY Zenon, <1>1, <1>2, <1>3, <1>4, <1>6 DEF TypeOK

LEMMA TypeStep == TypeOK /\ [Next]_vars => TypeOK'
  <1> SUFFICES ASSUME TypeOK, [Next]_vars PROVE TypeOK'
    OBVIOUS
  <1>1. ASSUME NEW d \in Daemons, BeginTick(d) PROVE TypeOK'
    <2> DEFINE e == d[1]
               k == [NoTick(e) EXCEPT !.on = TRUE, !.pending = Peers[e]]
    <2>1. k \in Ticks(e)
      BY Zenon DEF Ticks, NoTick
    <2>2. TicksOK(tick')
      <3>1. tick' = [tick EXCEPT ![d] = k]
        BY Zenon, <1>1 DEF BeginTick
      <3> HIDE DEF k
      <3> QED
        BY Zenon, <2>1, <3>1, TickChange, TypeParts
    <2>3. PICK elapsed \in 1 .. MaxAge :
             lastPeer' = [lastPeer EXCEPT ![d] =
                            [p \in Peers[e] |-> Older(lastPeer[d][p], elapsed)]]
      BY Zenon, <1>1 DEF BeginTick
    <2> DEFINE x == [p \in Peers[e] |-> Older(lastPeer[d][p], elapsed)]
    <2>4. x \in Heard(e)
      <3>1. lastPeer[d] \in Heard(e) /\ MaxAge \in Nat
        BY RouterBoundsAssumption DEF TypeOK, MaxAge
      <3> SUFFICES ASSUME NEW p \in Peers[e]
                   PROVE  Older(lastPeer[d][p], elapsed)
                            \in [adv : Tables \cup {None}, age : 0 .. MaxAge]
        BY Zenon DEF Heard
      <3>2. lastPeer[d][p] \in [adv : Tables \cup {None}, age : 0 .. MaxAge]
        BY Zenon, <3>1 DEF Heard
      <3> QED
        BY <3>1, <3>2 DEF Older
    <2>5. HeardOK(lastPeer')
      <3>1. lastPeer' = [lastPeer EXCEPT ![d] = x]
        BY Zenon, <2>3
      <3> HIDE DEF x
      <3> QED
        BY Zenon, <2>4, <3>1, HeardChange, TypeParts
    <2> QED
      BY Zenon, <1>1, <2>2, <2>5 DEF BeginTick, TypeOK, HeardOK, TicksOK
  <1>2. ASSUME NEW d \in Daemons, NEW p \in Peers[d[1]], Fetch(d, p) PROVE TypeOK'
    <2>1. PICK s \in Serving(p) :
             LET adv == AdvertiseTo(table[s], d[1])
             IN  /\ lastPeer' = [lastPeer EXCEPT ![d][p] = [adv |-> adv, age |-> 0]]
                 /\ tick' = [tick EXCEPT ![d].pending = @ \ {p}, ![d].used[p] = adv]
      BY Zenon, <1>2 DEF Fetch
    <2> DEFINE adv == AdvertiseTo(table[s], d[1])
               x == [lastPeer[d] EXCEPT ![p] = [adv |-> adv, age |-> 0]]
    <2>2. adv \in Tables
      BY Zenon, AdvertiseType, DaemonParts DEF TypeOK, Serving
    <2>3. TicksOK(tick')
      <3> HIDE DEF adv
      <3> QED
        BY Zenon, <2>1, <2>2, UsedType DEF adv
    <2>4. x \in Heard(d[1]) /\ lastPeer' = [lastPeer EXCEPT ![d] = x]
      <3> HIDE DEF adv
      <3>1. lastPeer[d] \in Heard(d[1]) /\ 0 \in 0 .. MaxAge
        BY RouterBoundsAssumption DEF TypeOK, MaxAge
      <3>2. x \in Heard(d[1])
        BY Zenon, <2>2, <3>1 DEF Heard
      <3> QED
        BY Zenon, <2>1, <3>2 DEF TypeOK, adv
    <2>5. HeardOK(lastPeer')
      <3> HIDE DEF x
      <3> QED
        BY Zenon, <2>4, HeardChange, TypeParts
    <2> QED
      BY Zenon, <1>2, <2>3, <2>5 DEF Fetch, TypeOK, HeardOK, TicksOK
  <1>3. ASSUME NEW d \in Daemons, NEW p \in Peers[d[1]],
               FallBack(d, p), faults' \in 0 .. MaxFaults
        PROVE  TypeOK'
    <2> DEFINE adv == IF lastPeer[d][p].age <= StaleAfter THEN lastPeer[d][p].adv ELSE None
    <2>1. adv \in Tables \cup {None}
      BY Zenon DEF TypeOK, Heard
    <2>2. TicksOK(tick')
      <3> HIDE DEF adv
      <3> QED
        BY Zenon, <1>3, <2>1, UsedType DEF FallBack, adv
    <2> QED
      BY Zenon, <1>3, <2>2 DEF FallBack, TypeOK, TicksOK
  <1>4. ASSUME NEW d \in Daemons, FinishTick(d) PROVE TypeOK'
    <2> DEFINE x == Compute(d[1], terminals[d], tick[d].used)
    <2>1. x \in Tables
      <3>1. /\ tick[d].used \in [Peers[d[1]] -> Tables \cup {None}]
            /\ terminals[d] \in SUBSET Targets
        BY Zenon DEF TypeOK, Ticks
      <3> QED
        BY Zenon, <3>1, ComputeType, DaemonParts
    <2>2. table' \in [Daemons -> Tables]
      BY Zenon, <1>4, <2>1 DEF FinishTick, TypeOK
    <2>3. NoTick(d[1]) \in Ticks(d[1])
      BY Zenon DEF Ticks, NoTick
    <2>4. TicksOK(tick')
      BY Zenon, <1>4, <2>3, TickChange, TypeParts DEF FinishTick
    <2> QED
      BY Zenon, <1>4, <2>2, <2>4 DEF FinishTick, TypeOK, TicksOK
  <1>5. ASSUME NEW e \in Envoys, Start(e) PROVE TypeOK'
    <2> DEFINE d == <<e, generation[e] + 1>>
    <2>1. PICK T \in Configs[e] : terminals' = [terminals EXCEPT ![d] = T]
      BY Zenon, <1>5 DEF Start
    <2>2. T \in SUBSET Targets
      BY Zenon, ConfigsAssumption
    <2>3. terminals' \in [Daemons -> SUBSET Targets]
      BY Zenon, <2>1, <2>2 DEF TypeOK
    <2>4. status' \in [Daemons -> {"down", "up", "stopping"}]
      BY Zenon, <1>5 DEF Start, TypeOK
    <2>5. /\ generation' \in [Envoys -> Nat]
          /\ \A f \in Envoys : generation'[f] \in 1 .. MaxGeneration[f]
      <3>1. /\ generation' = [generation EXCEPT ![e] = generation[e] + 1]
            /\ generation[e] < MaxGeneration[e]
            /\ \A f \in Envoys : generation[f] \in 1 .. MaxGeneration[f]
            /\ generation \in [Envoys -> Nat] /\ MaxGeneration[e] \in Nat
        BY Zenon, <1>5, RouterBoundsAssumption DEF Start, TypeOK
      <3>2. generation[e] + 1 \in Nat /\ generation[e] + 1 \in 1 .. MaxGeneration[e]
        BY <3>1
      <3> QED
        BY Zenon, <3>1, <3>2
    <2> QED
      BY Zenon, <1>5, <2>3, <2>4, <2>5 DEF Start, TypeOK
  <1>6. ASSUME NEW d \in Daemons, Cancel(d) PROVE TypeOK'
    BY Zenon, <1>6 DEF Cancel, TypeOK
  <1>7. ASSUME NEW d \in Daemons, Shutdown(d) PROVE TypeOK'
    <2>1. faults' \in 0 .. MaxFaults
      BY Zenon, <1>7 DEF Shutdown, TypeOK
    <2> QED
      BY Zenon, <1>7, <2>1, ForgetType DEF Shutdown
  <1>8. faults < MaxFaults /\ faults' = faults + 1 => faults' \in 0 .. MaxFaults
    BY RouterBoundsAssumption DEF TypeOK
  <1>9. ASSUME NEW e \in Envoys, Crash(e) PROVE TypeOK'
    BY Zenon, <1>8, <1>9, ForgetType DEF Crash
  <1>10. ASSUME NEW d \in Daemons, NEW p \in Peers[d[1]], FetchRefused(d, p) \/ FetchLost(d, p)
         PROVE  TypeOK'
    <2>1. faults' \in 0 .. MaxFaults
      BY Zenon, <1>8, <1>10 DEF FetchRefused, FetchLost, TypeOK
    <2> QED
      BY Zenon, <1>3, <1>10, <2>1 DEF FetchRefused, FetchLost
  <1>11. CASE UNCHANGED vars
    BY Zenon, <1>11 DEF vars, TypeOK
  <1> QED
    BY Zenon, <1>1, <1>2, <1>4, <1>5, <1>6, <1>7, <1>9, <1>10, <1>11 DEF Next, DaemonStep

(* The daemons' state keeps its types in every mesh. *)
THEOREM RouterTypeCorrect == Spec => []TypeOK
  BY TypeInit, TypeStep, PTL DEF Spec

-------------------------------------------------------------------------------
(* Paths.  Everything a daemon holds of a peer -- the last advertisement,  *)
(* fresh or stale, and what this tick uses -- was in a table of that peer, *)
(* so its paths are simple as seen from the peer; prefixing the peer keeps *)
(* them so unless the path leads through the daemon's own Envoy.           *)
Fronts(e, t) == \E T \in Configs[e] : t \in T
TablePaths(e, tbl) == \A t \in Targets : tbl[t] # None => SimplePath(e, t, tbl[t])
AdvPaths(p, adv) == adv # None => TablePaths(p, adv)
DaemonPaths(d) ==
    /\ \A t \in terminals[d] : Fronts(d[1], t)
    /\ TablePaths(d[1], table[d])
    /\ \A p \in Peers[d[1]] : /\ AdvPaths(p, lastPeer[d][p].adv)
                              /\ AdvPaths(p, tick[d].used[p])
PathInv == \A d \in Daemons : DaemonPaths(d)

LEMMA CandidateSimple ==
    ASSUME NEW e \in Envoys, NEW p \in Peers[e], NEW t \in Targets, NEW r \in Route,
           SimplePath(p, t, r), ~HasInPath(r.asPath, e)
    PROVE  SimplePath(e, t, Candidate(p, r))
  <1> DEFINE q == Candidate(p, r).asPath
             path == <<e>> \o q
             n == Len(q)
  <1>1. p \in Envoys /\ p # e
    BY Zenon, PeersAssumption
  <1>2. /\ q \in Seq(Envoys) /\ n \in Nat /\ n > 0
        /\ Candidate(p, r).distance = n
        /\ q = <<p>> \o r.asPath /\ q[1] = p
        /\ n = Len(r.asPath) + 1 /\ Len(r.asPath) \in Nat
        /\ \A i \in 1 .. Len(r.asPath) : q[i + 1] = r.asPath[i]
    <2>1. r.asPath \in Seq(Envoys) /\ r.distance = Len(r.asPath)
      BY Zenon DEF Route, SimplePath
    <2>2. Candidate(p, r) \in Route
      BY Zenon, <1>1, CandidateIsRoute
    <2> QED
      BY <1>1, <2>1, <2>2, CandidateIsRoute DEF Candidate, hopCost, Route
  <1>3. /\ \A i, j \in 1 .. n : i # j => q[i] # q[j]
        /\ \A i \in 1 .. n - 1 : q[i + 1] \in Peers[q[i]]
        /\ Fronts(q[n], t)
    BY Zenon, <1>2 DEF SimplePath, Fronts
  <1>4. \A i \in 1 .. n : q[i] # e
    <2> SUFFICES ASSUME NEW i \in 1 .. n PROVE q[i] # e
      OBVIOUS
    <2>1. CASE i = 1
      BY Zenon, <1>1, <1>2, <2>1
    <2>2. CASE i # 1
      <3>1. i - 1 \in 1 .. Len(r.asPath) /\ (i - 1) + 1 = i
        BY <1>2, <2>2
      <3>2. q[i] = r.asPath[i - 1]
        BY Zenon, <1>2, <3>1
      <3> QED
        BY Zenon, <3>1, <3>2 DEF HasInPath
    <2> QED
      BY Zenon, <2>1, <2>2
  <1> HIDE DEF q
  <1>5. /\ Len(path) = n + 1 /\ path[1] = e
        /\ \A i \in 1 .. n : path[i + 1] = q[i]
    BY Zenon, <1>2, PathPrefixed
  <1>6. \A i \in 1 .. Len(path) : i # 1 => i - 1 \in 1 .. n /\ path[i] = q[i - 1]
    <2> SUFFICES ASSUME NEW i \in 1 .. Len(path), i # 1
                 PROVE  i - 1 \in 1 .. n /\ path[i] = q[i - 1]
      OBVIOUS
    <2>1. i - 1 \in 1 .. n /\ (i - 1) + 1 = i
      BY <1>2, <1>5
    <2> QED
      BY Zenon, <1>5, <2>1
  <1> HIDE DEF path, n
  <1>7. \A i, j \in 1 .. Len(path) : i # j => path[i] # path[j]
    <2> SUFFICES ASSUME NEW i \in 1 .. Len(path), NEW j \in 1 .. Len(path), i # j
                 PROVE  path[i] # path[j]
      OBVIOUS
    <2>1. CASE i = 1 \/ j = 1
      BY <1>4, <1>5, <1>6, <2>1
    <2>2. CASE i # 1 /\ j # 1
      <3>1. i - 1 # j - 1
        BY <1>2, <1>5
      <3> QED
        BY <1>3, <1>6, <2>2, <3>1
    <2> QED
      BY Zenon, <2>1, <2>2
  <1>8. \A i \in 1 .. Len(path) - 1 : path[i + 1] \in Peers[path[i]]
    <2> SUFFICES ASSUME NEW i \in 1 .. Len(path) - 1 PROVE path[i + 1] \in Peers[path[i]]
      OBVIOUS
    <2>1. i \in 1 .. n /\ path[i + 1] = q[i] /\ i \in 1 .. Len(path)
      BY <1>2, <1>5
    <2>2. CASE i = 1
      BY Zenon, <1>2, <1>5, <2>1, <2>2
    <2>3. CASE i # 1
      <3>1. i - 1 \in 1 .. n - 1 /\ (i - 1) + 1 = i
        BY <1>2, <2>1, <2>3
      <3> QED
        BY Zenon, <1>3, <1>6, <2>1, <2>3, <3>1
    <2> QED
      BY Zenon, <2>2, <2>3
  <1>9. path[Len(path)] = q[n]
    BY <1>2, <1>5
  <1> QED
    BY Zenon, <1>2, <1>3, <1>7, <1>8, <1>9 DEF SimplePath, Fronts, path, q, n

LEMMA TerminalSimple ==
    ASSUME NEW e \in Envoys, NEW t \in Targets, Fronts(e, t)
    PROVE  SimplePath(e, t, Terminal)
  <1>1. <<e>> \o << >> = <<e>> /\ Len(<<e>>) = 1
    OBVIOUS
  <1> QED
    BY <1>1 DEF SimplePath, Terminal, Fronts

LEMMA ComputePaths ==
    ASSUME NEW e \in Envoys, NEW T \in SUBSET Targets, \A t \in T : Fronts(e, t),
           NEW advs \in [Peers[e] -> Tables \cup {None}],
           \A p \in Peers[e] : AdvPaths(p, advs[p])
    PROVE  TablePaths(e, Compute(e, T, advs))
  <1> SUFFICES ASSUME NEW t \in Targets, Compute(e, T, advs)[t] # None
               PROVE  SimplePath(e, t, Compute(e, T, advs)[t])
    BY Zenon DEF TablePaths
  <1>1. CASE t \in T
    BY Zenon, <1>1, TerminalSimple DEF Compute
  <1>2. CASE t \notin T
    <2> DEFINE cands == Candidates(e, advs, t)
    <2>1. cands # {} /\ Compute(e, T, advs)[t] = Best(cands)
      BY Zenon, <1>2 DEF Compute
    <2>2. Peers[e] \in SUBSET Envoys
      BY Zenon, PeersAssumption
    <2>3. PICK p \in Peers[e] : /\ advs[p] \in Tables /\ advs[p][t] \in Route
                                /\ Accepted(e, p, advs[p][t])
                                /\ Best(cands) = Candidate(p, advs[p][t])
      BY <2>1, <2>2, CandidatesHaveBest
    <2>4. SimplePath(p, t, advs[p][t])
      BY Zenon, <2>3, NoRouteAssumption DEF AdvPaths, TablePaths, Accepted, Tables
    <2> QED
      BY <2>1, <2>3, <2>4, CandidateSimple DEF Accepted
  <1> QED
    BY Zenon, <1>1, <1>2

LEMMA PathInit == Init => PathInv
  <1> SUFFICES ASSUME Init, NEW d \in Daemons PROVE DaemonPaths(d)
    BY Zenon DEF PathInv
  <1>1. \A t \in terminals[d] : Fronts(d[1], t)
    BY Zenon, DaemonParts DEF Init, Fronts
  <1>2. TablePaths(d[1], table[d])
    BY Zenon DEF Init, EmptyTable, TablePaths
  <1>3. \A p \in Peers[d[1]] : lastPeer[d][p].adv = None /\ tick[d].used[p] = None
    BY Zenon DEF Init, NothingHeard, NoTick
  <1> QED
    BY Zenon, <1>1, <1>2, <1>3 DEF AdvPaths, DaemonPaths

(* Split horizon only takes routes away. *)
LEMMA AdvertisedPaths ==
    ASSUME NEW e \in Envoys, NEW tbl \in Tables, TablePaths(e, tbl), NEW peer
    PROVE  AdvPaths(e, AdvertiseTo(tbl, peer))
  BY Zenon DEF AdvPaths, TablePaths, AdvertiseTo

LEMMA ForgetPaths ==
    ASSUME TypeOK, PathInv, NEW D, Forget(D)
    PROVE  PathInv'
  <1> SUFFICES ASSUME NEW d \in Daemons PROVE DaemonPaths(d)'
    BY Zenon DEF PathInv
  <1>1. CASE d \in D
    <2>1. /\ terminals'[d] = {} /\ table'[d] = EmptyTable
          /\ lastPeer'[d] = NothingHeard(d[1]) /\ tick'[d] = NoTick(d[1])
      BY Zenon, <1>1 DEF Forget
    <2> QED
      BY <2>1 DEF DaemonPaths, EmptyTable, TablePaths, AdvPaths, NothingHeard, NoTick
  <1>2. CASE d \notin D
    <2>1. /\ terminals'[d] = terminals[d] /\ table'[d] = table[d]
          /\ lastPeer'[d] = lastPeer[d] /\ tick'[d] = tick[d]
      BY Zenon, <1>2 DEF Forget
    <2> QED
      BY Zenon, <2>1 DEF DaemonPaths, PathInv
  <1> QED
    BY Zenon, <1>1, <1>2

LEMMA PathStep == TypeOK /\ PathInv /\ [Next]_vars => PathInv'
  <1> SUFFICES ASSUME TypeOK, PathInv, [Next]_vars PROVE PathInv'
    OBVIOUS
  <1>0. ASSUME NEW d \in Daemons,
               \A c \in Daemons \ {d} :
                   /\ terminals'[c] = terminals[c] /\ table'[c] = table[c]
                   /\ lastPeer'[c] = lastPeer[c] /\ tick'[c] = tick[c],
               DaemonPaths(d)'
        PROVE  PathInv'
    BY <1>0 DEF PathInv, DaemonPaths
  <1>1. ASSUME NEW d \in Daemons, BeginTick(d) PROVE PathInv'
    <2>1. PICK elapsed \in 1 .. MaxAge :
             lastPeer' = [lastPeer EXCEPT ![d] =
                            [p \in Peers[d[1]] |-> Older(lastPeer[d][p], elapsed)]]
      BY Zenon, <1>1 DEF BeginTick
    <2>2. \A p \in Peers[d[1]] : /\ lastPeer'[d][p].adv = lastPeer[d][p].adv
                                 /\ tick'[d].used[p] = None
      <3>1. tick'[d].used = [p \in Peers[d[1]] |-> None]
        BY Zenon, <1>1 DEF BeginTick, NoTick, TypeOK
      <3>2. \A p \in Peers[d[1]] : lastPeer[d][p] \in [adv : Tables \cup {None}, age : 0 .. MaxAge]
        BY Zenon DEF TypeOK, Heard
      <3>3. \A p \in Peers[d[1]] : Older(lastPeer[d][p], elapsed).adv = lastPeer[d][p].adv
        BY Zenon, <3>2 DEF Older
      <3>4. \A p \in Peers[d[1]] : lastPeer'[d][p] = Older(lastPeer[d][p], elapsed)
        BY Zenon, <2>1 DEF TypeOK
      <3> QED
        BY Zenon, <3>1, <3>3, <3>4
    <2>3. DaemonPaths(d)'
      BY Zenon, <1>1, <2>2 DEF BeginTick, DaemonPaths, PathInv, AdvPaths
    <2>4. \A c \in Daemons \ {d} : lastPeer'[c] = lastPeer[c] /\ tick'[c] = tick[c]
      BY Zenon, <1>1, <2>1 DEF BeginTick, TypeOK
    <2> QED
      BY Zenon, <1>0, <1>1, <2>3, <2>4 DEF BeginTick
  <1>2. ASSUME NEW d \in Daemons, NEW p \in Peers[d[1]], NEW adv, AdvPaths(p, adv),
               tick' = [tick EXCEPT ![d].pending = @ \ {p}, ![d].used[p] = adv],
               \/ UNCHANGED lastPeer
               \/ lastPeer' = [lastPeer EXCEPT ![d][p] = [adv |-> adv, age |-> 0]],
               UNCHANGED <<terminals, table>>
        PROVE  PathInv'
    <2>1. \A q \in Peers[d[1]] :
             tick'[d].used[q] = IF q = p THEN adv ELSE tick[d].used[q]
      BY <1>2, ZenonT(60) DEF TypeOK, Ticks
    <2>2. \A q \in Peers[d[1]] :
             \/ lastPeer'[d][q].adv = lastPeer[d][q].adv
             \/ q = p /\ lastPeer'[d][q].adv = adv
      BY <1>2 DEF TypeOK, Heard
    <2>3. DaemonPaths(d)'
      <3>1. DaemonPaths(d)
        BY Zenon DEF PathInv
      <3>2. \A q \in Peers[d[1]] : /\ AdvPaths(q, lastPeer'[d][q].adv)
                                   /\ AdvPaths(q, tick'[d].used[q])
        BY Zenon, <1>2, <2>1, <2>2, <3>1 DEF DaemonPaths
      <3> QED
        BY Zenon, <1>2, <3>1, <3>2 DEF DaemonPaths
    <2>4. \A c \in Daemons \ {d} : lastPeer'[c] = lastPeer[c] /\ tick'[c] = tick[c]
      BY Zenon, <1>2 DEF TypeOK
    <2> QED
      BY Zenon, <1>0, <1>2, <2>3, <2>4
  <1>3. ASSUME NEW d \in Daemons, NEW p \in Peers[d[1]], Fetch(d, p) PROVE PathInv'
    <2>1. PICK s \in Serving(p) :
             LET adv == AdvertiseTo(table[s], d[1])
             IN  /\ lastPeer' = [lastPeer EXCEPT ![d][p] = [adv |-> adv, age |-> 0]]
                 /\ tick' = [tick EXCEPT ![d].pending = @ \ {p}, ![d].used[p] = adv]
      BY Zenon, <1>3 DEF Fetch
    <2> DEFINE adv == AdvertiseTo(table[s], d[1])
    <2>2. AdvPaths(p, adv)
      <3>1. s \in Daemons /\ s[1] = p /\ table[s] \in Tables /\ p \in Envoys
        BY Zenon, DaemonParts DEF Serving, TypeOK
      <3>2. TablePaths(p, table[s])
        BY Zenon, <3>1 DEF PathInv, DaemonPaths
      <3> QED
        BY Zenon, <3>1, <3>2, AdvertisedPaths
    <2>3. /\ lastPeer' = [lastPeer EXCEPT ![d][p] = [adv |-> adv, age |-> 0]]
          /\ tick' = [tick EXCEPT ![d].pending = @ \ {p}, ![d].used[p] = adv]
      BY Zenon, <2>1
    <2> HIDE DEF adv
    <2> QED
      BY Zenon, <1>2, <1>3, <2>2, <2>3 DEF Fetch
  <1>4. ASSUME NEW d \in Daemons, NEW p \in Peers[d[1]], FallBack(d, p) PROVE PathInv'
    <2> DEFINE adv == IF lastPeer[d][p].age <= StaleAfter THEN lastPeer[d][p].adv ELSE None
    <2>1. AdvPaths(p, adv)
      BY Zenon DEF PathInv, DaemonPaths, AdvPaths
    <2>2. tick' = [tick EXCEPT ![d].pending = @ \ {p}, ![d].used[p] = adv]
      BY Zenon, <1>4 DEF FallBack
    <2> HIDE DEF adv
    <2> QED
      BY Zenon, <1>2, <1>4, <2>1, <2>2 DEF FallBack
  <1>5. ASSUME NEW d \in Daemons, FinishTick(d) PROVE PathInv'
    <2>1. /\ tick[d].used \in [Peers[d[1]] -> Tables \cup {None}]
          /\ terminals[d] \in SUBSET Targets /\ d[1] \in Envoys
      BY Zenon, DaemonParts DEF TypeOK, Ticks
    <2>2. /\ \A t \in terminals[d] : Fronts(d[1], t)
          /\ \A p \in Peers[d[1]] : AdvPaths(p, tick[d].used[p])
      BY Zenon DEF PathInv, DaemonPaths
    <2>3. TablePaths(d[1], Compute(d[1], terminals[d], tick[d].used))
      BY Zenon, <2>1, <2>2, ComputePaths
    <2>4. table'[d] = Compute(d[1], terminals[d], tick[d].used)
      BY Zenon, <1>5 DEF FinishTick, TypeOK
    <2>5. tick'[d] = NoTick(d[1])
      BY Zenon, <1>5 DEF FinishTick, TypeOK
    <2>6. DaemonPaths(d)'
      BY <1>5, <2>3, <2>4, <2>5 DEF FinishTick, DaemonPaths, PathInv, NoTick, AdvPaths
    <2>7. \A c \in Daemons \ {d} : table'[c] = table[c] /\ tick'[c] = tick[c]
      BY Zenon, <1>5 DEF FinishTick, TypeOK
    <2> QED
      BY Zenon, <1>0, <1>5, <2>6, <2>7 DEF FinishTick
  <1>6. ASSUME NEW e \in Envoys, Start(e) PROVE PathInv'
    <2>1. <<e, generation[e] + 1>> \in Daemons
      <3>1. /\ generation[e] \in Nat /\ MaxGeneration[e] \in Nat
            /\ generation[e] < MaxGeneration[e]
        BY Zenon, <1>6, RouterBoundsAssumption DEF Start, TypeOK
      <3>2. generation[e] + 1 \in 1 .. MaxGeneration[e]
        BY <3>1
      <3> QED
        BY <3>2 DEF Daemons
    <2>2. PICK d \in Daemons : d = <<e, generation[e] + 1>>
      BY Zenon, <2>1
    <2>3. PICK T \in Configs[e] : terminals' = [terminals EXCEPT ![d] = T]
      BY Zenon, <1>6, <2>2 DEF Start
    <2>4. terminals'[d] = T /\ d[1] = e
      BY Zenon, <2>2, <2>3 DEF TypeOK
    <2>5. UNCHANGED <<table, lastPeer, tick>>
      BY Zenon, <1>6 DEF Start
    <2>6. \A t \in terminals'[d] : Fronts(d[1], t)
      BY Zenon, <2>4 DEF Fronts
    <2>7. DaemonPaths(d)'
      BY Zenon, <2>5, <2>6 DEF DaemonPaths, PathInv
    <2>8. \A c \in Daemons \ {d} : terminals'[c] = terminals[c]
      BY Zenon, <2>3 DEF TypeOK
    <2> QED
      BY Zenon, <1>0, <2>5, <2>7, <2>8
  <1>7. CASE UNCHANGED <<terminals, table, lastPeer, tick>>
    BY Zenon, <1>7 DEF PathInv, DaemonPaths
  <1> QED
    BY Zenon, <1>1, <1>3, <1>4, <1>5, <1>6, <1>7, ForgetPaths
       DEF Next, DaemonStep, Shutdown, Crash, Cancel, FetchRefused, FetchLost, vars

(* In every mesh, whatever is lost, stale, crashed, restarted or answered  *)
(* by an old configuration, the paths in the tables are simple paths along *)
(* peers to an Envoy that fronts the target.                               *)
THEOREM PathsAlwaysSimple == Spec => []PathsSimple
  <1>1. Init => TypeOK /\ PathInv
    BY Zenon, TypeInit, PathInit
  <1>2. TypeOK /\ PathInv /\ [Next]_vars => (TypeOK /\ PathInv)'
    BY Zenon, TypeStep, PathStep
  <1>3. PathInv => PathsSimple
    BY Zenon DEF PathInv, DaemonPaths, TablePaths, PathsSimple
  <1> QED
    BY <1>1, <1>2, <1>3, PTL DEF Spec

-------------------------------------------------------------------------------
Near(tbl) == \A t \in Targets : tbl[t] # None => tbl[t].distance <= MaxDistance + hopCost

LEMMA ComputeNear ==
    ASSUME NEW e \in Envoys, NEW T \in SUBSET Targets,
           NEW advs \in [Peers[e] -> Tables \cup {None}]
    PROVE  Near(Compute(e, T, advs))
  <1> SUFFICES ASSUME NEW t \in Targets, Compute(e, T, advs)[t] # None
               PROVE  Compute(e, T, advs)[t].distance <= MaxDistance + hopCost
    BY Zenon DEF Near
  <1>1. CASE t \in T
    BY <1>1, MaxASPathAssumption, SMTT(60) DEF Compute, Terminal, MaxDistance, hopCost
  <1>2. CASE t \notin T
    <2> DEFINE cands == Candidates(e, advs, t)
    <2>1. cands # {} /\ Compute(e, T, advs)[t] = Best(cands)
      BY Zenon, <1>2 DEF Compute
    <2>2. Peers[e] \in SUBSET Envoys
      BY Zenon, PeersAssumption
    <2>3. PICK p \in Peers[e] : /\ advs[p][t] \in Route
                                /\ Accepted(e, p, advs[p][t])
                                /\ Best(cands) = Candidate(p, advs[p][t])
      BY <2>1, <2>2, CandidatesHaveBest
    <2>4. advs[p][t].distance \in Nat /\ advs[p][t].distance <= MaxDistance
      BY Zenon, <2>3 DEF Route, Accepted, ValidAdvertisedRoute
    <2> QED
      BY <2>1, <2>3, <2>4, MaxASPathAssumption DEF Candidate, MaxDistance, hopCost
  <1> QED
    BY Zenon, <1>1, <1>2

(* A table only changes by a whole tick, or is empty: no route is longer   *)
(* than one hop more than the longest acceptable advertisement.            *)
THEOREM DistancesBounded == Spec => []DistanceBounded
  <1>1. Init => DistanceBounded
    BY SMTT(30) DEF Init, EmptyTable, DistanceBounded
  <1>2. TypeOK /\ DistanceBounded /\ [Next]_vars => DistanceBounded'
    <2> SUFFICES ASSUME TypeOK, DistanceBounded, [Next]_vars, NEW d \in Daemons
                 PROVE  Near(table'[d])
      BY Zenon DEF DistanceBounded, Near
    <2>0. Near(table[d]) /\ Near(EmptyTable)
      BY Zenon DEF DistanceBounded, Near, EmptyTable
    <2>1. ASSUME NEW c \in Daemons, FinishTick(c) PROVE Near(table'[d])
      <3>1. CASE c = d
        <4>1. /\ tick[d].used \in [Peers[d[1]] -> Tables \cup {None}]
              /\ terminals[d] \in SUBSET Targets /\ d[1] \in Envoys
          BY Zenon, DaemonParts DEF TypeOK, Ticks
        <4>2. table'[d] = Compute(d[1], terminals[d], tick[d].used)
          BY Zenon, <2>1, <3>1 DEF FinishTick, TypeOK
        <4> QED
          BY <4>1, <4>2, ComputeNear
      <3>2. CASE c # d
        BY Zenon, <2>0, <2>1, <3>2 DEF FinishTick, TypeOK
      <3> QED
        BY Zenon, <3>1, <3>2
    <2>2. ASSUME NEW D, Forget(D) PROVE Near(table'[d])
      BY Zenon, <2>0, <2>2 DEF Forget
    <2>3. CASE UNCHANGED table
      BY Zenon, <2>0, <2>3
    <2>4. \/ \E c \in Daemons : FinishTick(c)
          \/ \E D : Forget(D)
          \/ UNCHANGED table
      BY ZenonT(60) DEF Next, DaemonStep, BeginTick, Fetch, FetchRefused, FetchLost, FallBack,
                        Start, Cancel, Shutdown, Crash, vars
    <2> QED
      BY <2>1, <2>2, <2>3, <2>4, Zenon
  <1> QED
    BY <1>1, <1>2, RouterTypeCorrect, PTL DEF Spec

-------------------------------------------------------------------------------
(* Freshness.  A peer that is through in this tick gave what is usable of  *)
(* it now, a table between two ticks was computed from what is usable, and *)
(* the daemons of configurations to come hold nothing yet.                 *)
Usable(d) ==
    [p \in Peers[d[1]] |->
       IF lastPeer[d][p].age <= StaleAfter THEN lastPeer[d][p].adv ELSE None]
DaemonFresh(d) ==
    /\ d[2] > generation[d[1]] =>
         status[d] = "down" /\ table[d] = EmptyTable /\ ~tick[d].on
    /\ tick[d].on =>
         \A p \in Peers[d[1]] \ tick[d].pending : tick[d].used[p] = Usable(d)[p]
    /\ ~tick[d].on /\ table[d] # EmptyTable =>
         table[d] = Compute(d[1], terminals[d], Usable(d))
FreshInv == \A d \in Daemons : DaemonFresh(d)

LEMMA FreshInit == Init => FreshInv
  <1> SUFFICES ASSUME Init, NEW d \in Daemons PROVE DaemonFresh(d)
    BY Zenon DEF FreshInv
  <1>1. table[d] = EmptyTable /\ ~tick[d].on
    BY Zenon DEF Init, NoTick
  <1>2. d[2] > generation[d[1]] => status[d] = "down"
    <2>1. d[1] \in Envoys /\ d[2] \in Nat
      BY DaemonParts
    <2> QED
      BY <2>1 DEF Init
  <1> QED
    BY Zenon, <1>1, <1>2 DEF DaemonFresh

(* The fetch of p is settled with x, and nothing else is heard anew. *)
LEMMA FetchedFresh ==
    ASSUME TypeOK, FreshInv, NEW d \in Daemons, NEW p \in Peers[d[1]], tick[d].on, NEW x,
           tick' = [tick EXCEPT ![d].pending = @ \ {p}, ![d].used[p] = x],
           x = Usable(d)'[p], \A q \in Peers[d[1]] \ {p} : lastPeer'[d][q] = lastPeer[d][q],
           \A c \in Daemons \ {d} : lastPeer'[c] = lastPeer[c],
           UNCHANGED <<generation, status, terminals, table>>
    PROVE  FreshInv'
  <1>1. tick[d] \in Ticks(d[1])
    BY Zenon DEF TypeOK
  <1>2. /\ tick'[d].on /\ tick'[d].pending = tick[d].pending \ {p}
        /\ tick'[d].used[p] = x
        /\ \A q \in Peers[d[1]] \ {p} : tick'[d].used[q] = tick[d].used[q]
        /\ \A c \in Daemons \ {d} : tick'[c] = tick[c]
    BY Zenon, <1>1 DEF TypeOK, Ticks
  <1>3. ASSUME NEW q \in Peers[d[1]] \ tick'[d].pending
        PROVE  tick'[d].used[q] = Usable(d)'[q]
    <2>1. CASE q = p
      BY Zenon, <1>2, <2>1
    <2>2. CASE q # p
      <3>1. tick[d].used[q] = Usable(d)[q]
        BY <1>2, <1>3, <2>2, ZenonT(60) DEF FreshInv, DaemonFresh
      <3>2. Usable(d)'[q] = Usable(d)[q]
        BY Zenon, <1>3, <2>2 DEF Usable
      <3> QED
        BY Zenon, <1>2, <1>3, <2>2, <3>1, <3>2
    <2> QED
      BY Zenon, <2>1, <2>2
  <1>4. DaemonFresh(d)'
    <2>1. ~(d[2] > generation[d[1]])
      BY Zenon DEF FreshInv, DaemonFresh
    <2> QED
      BY Zenon, <1>2, <1>3, <2>1 DEF DaemonFresh
  <1>5. ASSUME NEW c \in Daemons \ {d} PROVE DaemonFresh(c)'
    <2>1. Usable(c)' = Usable(c)
      BY Zenon, <1>5 DEF Usable
    <2>2. /\ tick'[c] = tick[c] /\ generation' = generation /\ status' = status
          /\ terminals' = terminals /\ table' = table /\ DaemonFresh(c)
      BY Zenon, <1>2, <1>5 DEF FreshInv
    <2> QED
      BY <2>1, <2>2, ZenonT(60) DEF DaemonFresh
  <1> QED
    BY Zenon, <1>4, <1>5 DEF FreshInv

LEMMA ForgetFresh ==
    ASSUME TypeOK, FreshInv, NEW D, Forget(D), UNCHANGED generation
    PROVE  FreshInv'
  <1> SUFFICES ASSUME NEW d \in Daemons PROVE DaemonFresh(d)'
    BY Zenon DEF FreshInv
  <1>1. CASE d \in D
    <2>1. status'[d] = "down" /\ table'[d] = EmptyTable /\ ~tick'[d].on
      BY Zenon, <1>1 DEF Forget, NoTick
    <2> QED
      BY Zenon, <2>1 DEF DaemonFresh
  <1>2. CASE d \notin D
    <2>1. /\ status'[d] = status[d] /\ table'[d] = table[d] /\ tick'[d] = tick[d]
          /\ lastPeer'[d] = lastPeer[d] /\ terminals'[d] = terminals[d]
      BY Zenon, <1>2 DEF Forget
    <2>2. Usable(d)' = Usable(d)
      BY Zenon, <2>1 DEF Usable
    <2> QED
      BY <2>1, <2>2 DEF FreshInv, DaemonFresh
  <1> QED
    BY Zenon, <1>1, <1>2

LEMMA FreshStep == TypeOK /\ FreshInv /\ [Next]_vars => FreshInv'
  <1> SUFFICES ASSUME TypeOK, FreshInv, [Next]_vars PROVE FreshInv'
    OBVIOUS
  <1>0. ASSUME NEW d \in Daemons,
               UNCHANGED generation,
               \A c \in Daemons \ {d} :
                   /\ terminals'[c] = terminals[c] /\ table'[c] = table[c]
                   /\ lastPeer'[c] = lastPeer[c] /\ tick'[c] = tick[c] /\ status'[c] = status[c],
               DaemonFresh(d)'
        PROVE  FreshInv'
    <2>1. ASSUME NEW c \in Daemons \ {d} PROVE DaemonFresh(c)'
      <3>1. Usable(c)' = Usable(c)
        BY Zenon, <1>0, <2>1 DEF Usable
      <3> QED
        BY <1>0, <2>1, <3>1 DEF FreshInv, DaemonFresh
    <2> QED
      BY Zenon, <1>0, <2>1 DEF FreshInv
  <1>1. ASSUME NEW d \in Daemons, BeginTick(d) PROVE FreshInv'
    <2>1. /\ tick'[d].on /\ tick'[d].pending = Peers[d[1]]
          /\ \A c \in Daemons \ {d} : tick'[c] = tick[c] /\ lastPeer'[c] = lastPeer[c]
          /\ UNCHANGED <<generation, status, terminals, table>>
      BY Zenon, <1>1 DEF BeginTick, NoTick, TypeOK
    <2>2. ~(d[2] > generation[d[1]])
      BY Zenon, <1>1 DEF BeginTick, FreshInv, DaemonFresh
    <2>3. DaemonFresh(d)'
      BY Zenon, <2>1, <2>2 DEF DaemonFresh
    <2> QED
      BY Zenon, <1>0, <2>1, <2>3
  <1>2. ASSUME NEW d \in Daemons, NEW p \in Peers[d[1]], Fetch(d, p) PROVE FreshInv'
    <2>1. PICK s \in Serving(p) :
             LET adv == AdvertiseTo(table[s], d[1])
             IN  /\ lastPeer' = [lastPeer EXCEPT ![d][p] = [adv |-> adv, age |-> 0]]
                 /\ tick' = [tick EXCEPT ![d].pending = @ \ {p}, ![d].used[p] = adv]
      BY Zenon, <1>2 DEF Fetch
    <2> DEFINE adv == AdvertiseTo(table[s], d[1])
    <2> HIDE DEF adv
    <2>2. lastPeer[d] \in Heard(d[1]) /\ lastPeer = [c \in Daemons |-> lastPeer[c]]
      BY Zenon DEF TypeOK
    <2>3. /\ lastPeer'[d][p] = [adv |-> adv, age |-> 0]
          /\ \A q \in Peers[d[1]] \ {p} : lastPeer'[d][q] = lastPeer[d][q]
          /\ \A c \in Daemons \ {d} : lastPeer'[c] = lastPeer[c]
      BY Zenon, <2>1, <2>2 DEF Heard, adv
    <2>4. Usable(d)'[p] = adv
      BY <2>3, RouterBoundsAssumption DEF Usable
    <2> QED
      BY <1>2, <2>1, <2>3, <2>4, FetchedFresh, ZenonT(60) DEF Fetch, adv
  <1>3. ASSUME NEW d \in Daemons, NEW p \in Peers[d[1]], FetchRefused(d, p) \/ FetchLost(d, p)
        PROVE  FreshInv'
    <2>1. /\ tick[d].on /\ UNCHANGED <<generation, status, terminals, table, lastPeer>>
          /\ tick' = [tick EXCEPT ![d].pending = @ \ {p},
                                  ![d].used[p] = IF lastPeer[d][p].age <= StaleAfter
                                                 THEN lastPeer[d][p].adv ELSE None]
      BY Zenon, <1>3 DEF FetchRefused, FetchLost, FallBack
    <2>2. Usable(d)'[p] = IF lastPeer[d][p].age <= StaleAfter THEN lastPeer[d][p].adv ELSE None
      BY Zenon, <2>1 DEF Usable
    <2> QED
      BY Zenon, <2>1, <2>2, FetchedFresh
  <1>4. ASSUME NEW d \in Daemons, FinishTick(d) PROVE FreshInv'
    <2>1. tick[d].used = Usable(d)
      <3>1. /\ tick[d].used = [p \in Peers[d[1]] |-> tick[d].used[p]]
            /\ \A p \in Peers[d[1]] : tick[d].used[p] = Usable(d)[p]
        BY Zenon, <1>4 DEF FinishTick, FreshInv, DaemonFresh, TypeOK, Ticks
      <3> QED
        BY Zenon, <3>1 DEF Usable
    <2>2. /\ table'[d] = Compute(d[1], terminals[d], Usable(d)) /\ ~tick'[d].on
          /\ \A c \in Daemons \ {d} : tick'[c] = tick[c] /\ table'[c] = table[c]
          /\ UNCHANGED <<generation, status, terminals, lastPeer>>
      BY Zenon, <1>4, <2>1 DEF FinishTick, NoTick, TypeOK
    <2>3. Usable(d)' = Usable(d)
      BY Zenon, <2>2 DEF Usable
    <2>4. ~(d[2] > generation[d[1]])
      BY Zenon, <1>4 DEF FinishTick, FreshInv, DaemonFresh
    <2>5. DaemonFresh(d)'
      BY Zenon, <2>2, <2>3, <2>4 DEF DaemonFresh
    <2> QED
      BY Zenon, <1>0, <2>2, <2>5
  <1>5. ASSUME NEW e \in Envoys, Start(e) PROVE FreshInv'
    <2> SUFFICES ASSUME NEW d \in Daemons PROVE DaemonFresh(d)'
      BY Zenon DEF FreshInv
    <2> DEFINE n == <<e, generation[e] + 1>>
    <2>1. /\ UNCHANGED <<table, lastPeer, tick>> /\ Usable(d)' = Usable(d)
          /\ generation' = [generation EXCEPT ![e] = @ + 1]
          /\ status' = [status EXCEPT ![n] = "up"]
          /\ \E T \in Configs[e] : terminals' = [terminals EXCEPT ![n] = T]
      BY Zenon, <1>5 DEF Start, Usable
    <2>2. d = <<d[1], d[2]>> /\ d[1] \in Envoys /\ d[2] \in Nat
      BY DaemonParts
    <2>3. generation[e] \in Nat /\ generation[d[1]] \in Nat
      BY Zenon, <2>2 DEF TypeOK
    <2>4. CASE d = n
      <3>1. d[1] = e /\ d[2] = generation[e] + 1
        BY Zenon, <2>4
      <3>2. table[d] = EmptyTable /\ ~tick[d].on
        BY <2>3, <3>1 DEF FreshInv, DaemonFresh
      <3>3. ~(d[2] > generation'[d[1]])
        BY <2>1, <2>3, <3>1, SMTT(60) DEF TypeOK
      <3> QED
        BY Zenon, <2>1, <3>2, <3>3 DEF DaemonFresh
    <2>5. CASE d # n
      <3>1. status'[d] = status[d] /\ terminals'[d] = terminals[d]
        BY Zenon, <2>1, <2>5 DEF TypeOK
      <3>2. d[2] > generation'[d[1]] => d[2] > generation[d[1]]
        BY <2>1, <2>2, <2>3 DEF TypeOK
      <3> QED
        BY <2>1, <3>1, <3>2 DEF FreshInv, DaemonFresh
    <2> QED
      BY Zenon, <2>4, <2>5
  <1>6. ASSUME NEW d \in Daemons, Cancel(d) PROVE FreshInv'
    <2>1. /\ UNCHANGED <<generation, terminals, table, lastPeer, tick>>
          /\ \A c \in Daemons \ {d} : status'[c] = status[c]
          /\ Usable(d)' = Usable(d)
      BY Zenon, <1>6 DEF Cancel, TypeOK, Usable
    <2>2. ~(d[2] > generation[d[1]])
      BY Zenon, <1>6 DEF Cancel, FreshInv, DaemonFresh
    <2>3. DaemonFresh(d)'
      BY <2>1, <2>2 DEF FreshInv, DaemonFresh
    <2> QED
      BY Zenon, <1>0, <2>1, <2>3
  <1>7. ASSUME NEW d \in Daemons, Shutdown(d) PROVE FreshInv'
    BY Zenon, <1>7, ForgetFresh DEF Shutdown
  <1>8. ASSUME NEW e \in Envoys, Crash(e) PROVE FreshInv'
    BY Zenon, <1>8, ForgetFresh DEF Crash
  <1>9. CASE UNCHANGED vars
    <2>1. \A d \in Daemons : Usable(d)' = Usable(d)
      BY Zenon, <1>9 DEF vars, Usable
    <2> QED
      BY <1>9, <2>1 DEF vars, FreshInv, DaemonFresh
  <1> QED
    BY Zenon, <1>1, <1>2, <1>3, <1>4, <1>5, <1>6, <1>7, <1>8, <1>9 DEF Next, DaemonStep

(* Between two ticks a daemon's table is what Compute makes of the         *)
(* advertisements that were not stale when the tick began, for every mesh, *)
(* whatever is lost, crashes or is reloaded.                               *)
THEOREM TablesFresh == Spec => []TableFresh
  <1>1. FreshInv => TableFresh
    BY Zenon DEF FreshInv, DaemonFresh, Usable, TableFresh
  <1>2. TypeOK /\ FreshInv /\ [Next]_vars => FreshInv'
    BY Zenon, FreshStep
  <1> QED
    BY <1>1, <1>2, FreshInit, TypeInit, TypeStep, PTL DEF Spec
================================================================================
