--------------------------- MODULE ClusterRequests ---------------------------
(***************************************************************************)
(* A request travelling through the mesh: every Envoy it reaches resolves  *)
(* the target in its own table, and the tables change under way.           *)
(***************************************************************************)
EXTENDS ClusterRouter

VARIABLES
    at,     \* the Envoy that has the request, None when no request is under way
    target  \* its x-target-cluster header, None when it has none

rvars == <<at, target>>

RequestsInit == Init /\ at = None /\ target = None

(* A client's request. *)
Send(e, t) ==
    /\ at = None
    /\ at' = e /\ target' = t
    /\ UNCHANGED vars

(* Slip: an unknown target is left to the first peer. *)
NextHopGuess(e, t) ==
    LET r == table[Current(e)][t]
    IN  IF t = None \/ Peers[e] = {} THEN None
        ELSE IF r = None THEN CHOOSE p \in Peers[e] : TRUE
        ELSE IF r.asPath = << >> THEN None ELSE r.asPath[1]

(* The Envoy the next-hop header sends the request to.  None: it leaves    *)
(* the mesh on its normal route (no target), with a 404 (no route), or to  *)
(* a local terminal.                                                       *)
NextHop(e, t) ==
    LET r == table[Current(e)][t]
    IN  IF t = None \/ r = None THEN None
        ELSE IF r.asPath = << >> THEN None ELSE r.asPath[1]

(* OnRequestHeaders, in the newest configuration of the Envoy. *)
OnRequestHeaders ==
    /\ at \in Running
    /\ at' = NextHop(at, target)
    /\ target' = IF at' = None THEN None ELSE target
    /\ UNCHANGED vars

(* Nobody is listening there: the request ends with an error. *)
ConnectFails ==
    /\ at # None /\ at \notin Running
    /\ at' = None /\ target' = None
    /\ UNCHANGED vars

RequestStep == OnRequestHeaders \/ ConnectFails

RequestsNext ==
    \/ Next /\ UNCHANGED rvars
    \/ \E e \in Envoys, t \in Targets \cup {None} : Send(e, t)
    \/ RequestStep

RequestsSpec == RequestsInit /\ [][RequestsNext]_<<vars, rvars>>

(* Envoy forwards what it has.  The daemons as in FairSpec. *)
RequestsFairSpec ==
    /\ RequestsSpec
    /\ WF_<<vars, rvars>>(RequestStep)
    /\ \A d \in Daemons :
         /\ WF_<<vars, rvars>>(DaemonStep(d) /\ UNCHANGED rvars)
         /\ WF_<<vars, rvars>>(Cancel(d) /\ UNCHANGED rvars)

-------------------------------------------------------------------------------
(* A request can go round in circles while tables disagree, but not for    *)
(* ever: the mesh settles and then every hop leads nearer to the target.   *)
RequestsEnd == at # None ~> at = None
================================================================================
