----------------------------- MODULE ComputeLoop -----------------------------
(***************************************************************************)
(* Compute as the code runs it: the peers in the order of their ids, each  *)
(* advertisement a list in which a target may occur twice and routes may   *)
(* be invalid, a candidate replacing the route so far when it is better.   *)
(* The rest of the project uses BestPath's Compute, which picks the best   *)
(* of a set.                                                               *)
(***************************************************************************)
EXTENDS BestPath, SequencesExt

CONSTANTS
    Self,           \* the id of the Envoy that computes
    PeerIds,        \* its peers
    MaxRoutes       \* bound: routes in an advertisement

VARIABLES
    terminals, \* the local terminals
    advs,      \* advs[p]: the list of routes p advertised
    out        \* the table, None before it is computed

vars == <<terminals, advs, out>>

(* Routes that may be advertised: paths through the computing Envoy,       *)
(* through the peer, too long or fine, with distances that do not match    *)
(* them, below and above the limit (bound: ten routes of one target).      *)
Some(d, path) == [target |-> "t", distance |-> d, asPath |-> path]
Advertised == {Some(0, << >>), Some(1, << >>), Some(1, <<4>>), Some(2, <<4>>), Some(1, <<3>>),
               Some(1, <<1>>), Some(1, <<2>>), Some(2, <<4, 5>>), Some(3, <<4>>),
               Some(1, <<4, 5, 6>>)}

(* Slip: a target is marked as seen only when its route is accepted. *)
ConsiderLate(peer, st, r) ==
    LET old == st.out[r.target]
        new == Candidate(peer, r)
    IN  IF \/ ~ValidAdvertisedRoute(r) \/ r.target \in st.seen
           \/ HasInPath(r.asPath, Self) \/ HasInPath(r.asPath, peer) THEN st
        ELSE [seen |-> st.seen \cup {r.target},
              out |-> IF old = None \/ (old.asPath # << >> /\ Better(new, old))
                      THEN [st.out EXCEPT ![r.target] = new] ELSE st.out]

(* One advertised route, in the loop over the routes of a peer. *)
Consider(peer, st, r) ==
    LET t == r.target
        old == st.out[t]
        new == Candidate(peer, r)
    IN  IF ~ValidAdvertisedRoute(r) \/ t \in st.seen THEN st
        ELSE [seen |-> st.seen \cup {t},
              out |-> IF /\ ~HasInPath(r.asPath, Self) /\ ~HasInPath(r.asPath, peer)
                         /\ old = None \/ (old.asPath # << >> /\ Better(new, old))
                      THEN [st.out EXCEPT ![t] = new] ELSE st.out]

ConsiderAll(so_far, peer) ==
    FoldLeft(LAMBDA st, r : Consider(peer, st, r),
             [out |-> so_far, seen |-> {}], advs[peer]).out

Loop ==
    FoldLeft(ConsiderAll,
             [t \in Targets |-> IF t \in terminals THEN Terminal ELSE None],
             SetToSortSeq(PeerIds, <))

Init ==
    /\ terminals \in SUBSET Targets
    /\ advs \in [PeerIds -> UNION {[1 .. n -> Advertised] : n \in 0 .. MaxRoutes}]
    /\ out = None

Next == out = None /\ out' = Loop /\ UNCHANGED <<terminals, advs>>

Spec == Init /\ [][Next]_vars

-------------------------------------------------------------------------------
(* What an advertisement says of a target: its first valid route. *)
FirstValid(adv, t) ==
    LET valid == {i \in 1 .. Len(adv) : adv[i].target = t /\ ValidAdvertisedRoute(adv[i])}
    IN  IF valid = {} THEN None
        ELSE LET r == adv[CHOOSE i \in valid : \A j \in valid : i <= j]
             IN  [distance |-> r.distance, asPath |-> r.asPath]

(* The loop over sorted peers computes, for every target, the local        *)
(* terminal or else the best of the peers' first valid, loop-free routes,  *)
(* whatever order and whichever duplicates they come in.                   *)
LoopFindsBest ==
    out # None =>
        out = Compute(Self, terminals,
                      [p \in PeerIds |-> [t \in Targets |-> FirstValid(advs[p], t)]])
================================================================================
