----------------------------- MODULE VipDirectory -----------------------------
(***************************************************************************)
(* What the virtual-IP cache promises its clients, without threads, locks  *)
(* or counters: addresses are handed out once, to one name, and stop       *)
(* resolving at some point; a name has at most one that resolves.          *)
(***************************************************************************)
CONSTANTS Addresses, Names, None

VARIABLES owner,   \* the name an address was handed out for, or None
          live     \* the addresses that resolve

Init == owner = [a \in Addresses |-> None] /\ live = {}

Mint(a, n) ==
    /\ owner[a] = None
    /\ \A b \in live : owner[b] # n
    /\ owner' = [owner EXCEPT ![a] = n]
    /\ live' = live \cup {a}

Expire(a) ==
    /\ a \in live
    /\ live' = live \ {a}
    /\ UNCHANGED owner

Next == \E a \in Addresses : Expire(a) \/ \E n \in Names : Mint(a, n)

Spec == Init /\ [][Next]_<<owner, live>>
================================================================================
