--------------------------- MODULE SharedStateProofs ---------------------------
(***************************************************************************)
(* What the streams, configurations and workers of a Composer process      *)
(* share.  Nobody uses a WAF engine that is closed or out of date, for any *)
(* number of engines, streams and files: the invariant relates the cache,  *)
(* the configurations, the streams and the call in progress; what any of   *)
(* them holds is in use, and what the call has read was there during the   *)
(* call.  The loader of Go plugins never opens a binary that is torn or    *)
(* not the one that was asked for, on any number of hosts, with images of  *)
(* any number of layers: the invariant says of every file what its name    *)
(* promises, and of every call what it has in hand at its point of the     *)
(* code.                                                                   *)
(***************************************************************************)
EXTENDS WafEngines, PluginLoader, TLAPS

(* The fields of what filter objects share. *)
Shape ==
    shared = [active |-> shared.active, idp |-> shared.idp, token |-> shared.token,
              engines |-> shared.engines, loads |-> shared.loads, sampling |-> shared.sampling]

(* Engine e of the engines x can be used: nothing has begun to close it. *)
InUse(x, e) == x.made[e] # None /\ x.made[e].stage = "held"

(* What a call of getOrCreate has found out so far. *)
CallSound(x) ==
    LET call == x.call
    IN  /\ \A i \in Includes : x.disk[i] \in call.current[i]
        /\ \E e \in Ids : x.made[e] = None
        /\ call.s # None => InUse(x, call.s)
        /\ call.at = "compare" =>
             /\ call.s # None
             /\ \A i \in Includes \ call.todo : x.made[call.s].inputs[i] \in call.current[i]
        /\ call.at # "compare" =>
             call.s = None /\ \A i \in Includes \ call.todo : call.inputs[i] \in call.current[i]
        /\ call.at = "store" => call.todo = {}

(* An entry of the cache: its engine is kept for these directives until    *)
(* its release, at the latest, takes it off the list.                      *)
EntrySound(x, d) ==
    x.entries[d] # None =>
        LET e == x.made[x.entries[d]]
        IN  e # None /\ e.key = d /\ e.stage \in {"held", "collected"}

EnginesSound(x, f) ==
    /\ x \in Engines
    /\ \A e \in x.configs : InUse(x, e)
    /\ \A s \in Streams : f[s].engine # None => f[s].engine \in Ids /\ InUse(x, f[s].engine)
    /\ \A d \in Directives : EntrySound(x, d)
    /\ x.call # None => CallSound(x)
    /\ ~x.stale

EnginesInv ==
    shared.engines # None =>
        filter \in [Streams -> Filters] /\ EnginesSound(shared.engines, filter)

(* The fields of the engines. *)
LEMMA EngineTypes ==
    ASSUME EnginesParameters, NEW x \in Engines
    PROVE  /\ x = [made |-> x.made, entries |-> x.entries, configs |-> x.configs,
                   call |-> x.call, disk |-> x.disk, stale |-> x.stale]
           /\ x.made \in [Ids -> Engine \cup {None}]
           /\ x.entries \in [Directives -> Ids \cup {None}]
           /\ x.configs \in SUBSET Ids /\ x.call \in Call \cup {None}
           /\ x.disk \in [Includes -> Contents] /\ x.stale \in BOOLEAN
  BY Zenon DEF Engines

(* Steps of a call that change nothing but the call. *)
LEMMA CallMoves ==
    ASSUME EnginesParameters, NEW x, NEW f, EnginesSound(x, f), NEW c \in Call \cup {None},
           c # None => CallSound([x EXCEPT !.call = c])
    PROVE  EnginesSound([x EXCEPT !.call = c], f)
<1> DEFINE y == [x EXCEPT !.call = c]
<1>1. x \in Engines
  BY Zenon DEF EnginesSound
<1>2. /\ y.made = x.made /\ y.entries = x.entries /\ y.configs = x.configs /\ y.call = c
      /\ y.disk = x.disk /\ y.stale = x.stale /\ y \in Engines
  BY Zenon, <1>1 DEF Engines
<1>3. c # None => CallSound(y)
  OBVIOUS
<1> HIDE DEF y
<1>4. EnginesSound(y, f)
  BY <1>2, <1>3 DEF EnginesSound, InUse, EntrySound
<1> QED  BY Zenon, <1>4 DEF y

(* getOrCreate finds the entry of its directives, or none. *)
LEMMA EngineCreate ==
    ASSUME EnginesParameters, EnginesSound(shared.engines, filter), NEW d \in Directives, CreateConfig(d)
    PROVE  \E c \in Call :
             /\ CallSound([shared.engines EXCEPT !.call = c])
             /\ Sets([shared.engines EXCEPT !.call = c])
<1> DEFINE x == shared.engines
           s == Value(x.entries[d])
           reuse == IF s = None THEN FALSE ELSE ~x.made[s].untracked
           c == [key |-> d, at |-> IF reuse THEN "compare" ELSE "build",
              s |-> IF reuse THEN s ELSE None, todo |-> Includes,
              inputs |-> [i \in Includes |-> None],
              current |-> [i \in Includes |-> {x.disk[i]}]]
<1>1. /\ Sets([x EXCEPT !.call = c]) /\ \E i \in Ids : x.made[i] = None
  BY Zenon DEF CreateConfig, getOrCreate, E
<1>2. x \in Engines /\ x.disk \in [Includes -> Contents]
  BY EngineTypes, Zenon DEF EnginesSound
<1>3. s # None => s \in Ids /\ InUse(x, s)
  <2>1. x.entries[d] \in Ids \cup {None}
    BY <1>2, EngineTypes
  <2> QED  BY <2>1, Zenon DEF Value, E, InUse
<1>4. reuse => s # None
  OBVIOUS
<1> HIDE DEF x, s, reuse
<1>5. /\ c.key = d /\ c.at \in {"compare", "build"} /\ (c.at = "compare" <=> reuse)
      /\ c.s = (IF reuse THEN s ELSE None) /\ c.todo = Includes
      /\ c.inputs = [i \in Includes |-> None] /\ c.current = [i \in Includes |-> {x.disk[i]}]
  BY Zenon DEF reuse
<1>6. c \in Call
  <2>1. (IF reuse THEN s ELSE None) \in Ids \cup {None}
    BY Zenon, <1>3, <1>4
  <2>2. (IF reuse THEN "compare" ELSE "build") \in {"compare", "build", "store"}
    OBVIOUS
  <2>3. [i \in Includes |-> {x.disk[i]}] \in [Includes -> SUBSET Contents]
    BY Zenon, <1>2
  <2>4. [i \in Includes |-> None] \in [Includes -> Contents \cup {None}]
    OBVIOUS
  <2> QED  BY Zenon, <2>1, <2>2, <2>3, <2>4 DEF Call
<1> DEFINE y == [x EXCEPT !.call = c]
<1>7. y.made = x.made /\ y.disk = x.disk /\ y.call = c
  BY Zenon, <1>2 DEF Engines
<1> HIDE DEF y, c
<1>8. CallSound(y)
  BY <1>1, <1>2, <1>3, <1>4, <1>5, <1>7 DEF CallSound, InUse
<1> QED  BY Zenon, <1>1, <1>6, <1>8 DEF y, x

(* One file is compared. *)
LEMMA EngineUnchanged ==
    ASSUME EnginesParameters, EnginesSound(shared.engines, filter), NEW i \in Includes, unchanged(i)
    PROVE  \E c \in Call :
             /\ CallSound([shared.engines EXCEPT !.call = c])
             /\ Sets([shared.engines EXCEPT !.call = c])
<1> DEFINE x == shared.engines
           k == x.call
           same == x.made[k.s].inputs[i] = x.disk[i]
           c == IF same THEN [k EXCEPT !.todo = k.todo \ {i}]
                ELSE [k EXCEPT !.at = "build", !.s = None, !.todo = Includes]
           y == [x EXCEPT !.call = c]
<1>1. Sets(y) /\ k # None /\ k.at = "compare" /\ i \in k.todo
  <2>1. /\ k # None /\ k.at = "compare" /\ i \in k.todo
        /\ Sets([x EXCEPT !.call = IF same THEN [k EXCEPT !.todo = @ \ {i}]
                 ELSE [k EXCEPT !.at = "build", !.s = None, !.todo = Includes]])
    BY Zenon DEF unchanged, E
  <2> QED  BY <2>1, Zenon
<1>2. x \in Engines /\ k \in Call /\ CallSound(x)
  BY <1>1, EngineTypes, Zenon DEF EnginesSound
<1> HIDE DEF x, same
<1>3. /\ \A j \in Includes : x.disk[j] \in k.current[j]
      /\ \E e \in Ids : x.made[e] = None
      /\ k.s # None /\ InUse(x, k.s)
      /\ \A j \in Includes \ k.todo : x.made[k.s].inputs[j] \in k.current[j]
  BY <1>1, <1>2, Zenon DEF CallSound
<1>4. /\ c \in Call /\ c.current = k.current
      /\ same => c.at = "compare" /\ c.s = k.s /\ c.todo = k.todo \ {i}
      /\ ~same => c.at = "build" /\ c.s = None /\ c.todo = Includes
  <2> HIDE DEF k
  <2>1. CASE same
    BY Zenon, <1>1, <1>2, <2>1 DEF Call
  <2>2. CASE ~same
    BY <1>1, <1>2, <2>2, Zenon DEF Call
  <2> QED  BY Zenon, <2>1, <2>2
<1>5. y.made = x.made /\ y.disk = x.disk /\ y.call = c
  BY Zenon, <1>2 DEF Engines
<1> HIDE DEF y, c, k
<1>6. CallSound(y)
  <2>1. CASE same
    <3>1. \A j \in Includes \ c.todo : x.made[c.s].inputs[j] \in c.current[j]
      BY Zenon, <1>3, <1>4, <2>1 DEF same
    <3> QED  BY <1>3, <1>4, <1>5, <2>1, <3>1, Zenon DEF CallSound, InUse
  <2>2. CASE ~same
    BY Zenon, <1>3, <1>4, <1>5, <2>2 DEF CallSound, InUse
  <2> QED  BY Zenon, <2>1, <2>2
<1> QED  BY <1>1, <1>4, <1>6, Zenon DEF y, x

(* One file is read for a new engine. *)
LEMMA EngineReadFile ==
    ASSUME EnginesParameters, EnginesSound(shared.engines, filter), NEW i \in Includes, ReadFile(i)
    PROVE  \E c \in Call :
             /\ CallSound([shared.engines EXCEPT !.call = c])
             /\ Sets([shared.engines EXCEPT !.call = c])
<1> DEFINE x == shared.engines
           k == x.call
           at == IF k.todo = {i} THEN "store" ELSE k.at
           c == [k EXCEPT !.todo = k.todo \ {i}, !.inputs = [k.inputs EXCEPT ![i] = x.disk[i]],
                          !.at = at]
           y == [x EXCEPT !.call = c]
<1>0. /\ k # None /\ k.at = "build" /\ i \in k.todo
      /\ Sets([x EXCEPT !.call.todo = @ \ {i}, !.call.inputs[i] = x.disk[i],
                                 !.call.at = IF k.todo = {i} THEN "store" ELSE @])
    BY Zenon DEF ReadFile, E
<1>2. x \in Engines /\ k \in Call /\ CallSound(x)
  BY <1>0, EngineTypes, Zenon DEF EnginesSound
<1>1. Sets(y)
  <2>1. y = [x EXCEPT !.call.todo = @ \ {i}, !.call.inputs[i] = x.disk[i],
                      !.call.at = IF k.todo = {i} THEN "store" ELSE @]
    BY <1>2, Zenon DEF Engines, Call
  <2> QED  BY <1>0, <2>1, Zenon
<1>2a. x.disk[i] \in Contents /\ k.inputs \in [Includes -> Contents \cup {None}]
  BY Zenon, <1>2, EngineTypes DEF Call
<1> HIDE DEF x
<1>3. /\ \A j \in Includes : x.disk[j] \in k.current[j]
      /\ \E e \in Ids : x.made[e] = None
      /\ k.s = None
      /\ \A j \in Includes \ k.todo : k.inputs[j] \in k.current[j]
  BY <1>0, <1>2, Zenon DEF CallSound
<1> HIDE DEF k
<1>4. /\ c \in Call /\ c.current = k.current /\ c.s = k.s
      /\ c.inputs = [k.inputs EXCEPT ![i] = x.disk[i]] /\ c.todo = k.todo \ {i} /\ c.at = at
  BY <1>0, <1>2, <1>2a, Zenon DEF Call
<1>5. y.made = x.made /\ y.disk = x.disk /\ y.call = c
  BY Zenon, <1>2 DEF Engines
<1>6. at \in {"build", "store"} /\ (at = "store" => k.todo \ {i} = {})
  BY Zenon, <1>0
<1> HIDE DEF y, c, at
<1>7. \A j \in Includes \ c.todo : c.inputs[j] \in c.current[j]
  BY Zenon, <1>2a, <1>3, <1>4
<1>8. CallSound(y)
  BY <1>3, <1>4, <1>5, <1>6, <1>7, Zenon DEF CallSound, InUse
<1> QED  BY <1>1, <1>4, <1>8, Zenon DEF y, x

(* All files read as before: the cached engine is returned. *)
LEMMA EngineReuse ==
    ASSUME EnginesParameters, EnginesSound(shared.engines, filter), Reuse
    PROVE  \E y : EnginesSound(y, filter) /\ Sets(y)
<1> DEFINE x == shared.engines
           k == x.call
           st == x.stale \/ Stale(x.made[k.s].inputs)
           y == [x EXCEPT !.configs = x.configs \cup {k.s}, !.call = None, !.stale = st]
<1>0. /\ k # None /\ k.at = "compare" /\ k.todo = {}
      /\ Sets([x EXCEPT !.configs = @ \cup {k.s}, !.call = None,
                                 !.stale = @ \/ Stale(x.made[k.s].inputs)])
  BY Zenon DEF Reuse, E
<1>1. Sets(y)
  BY Zenon, <1>0
<1>2. x \in Engines /\ k \in Call /\ CallSound(x) /\ ~x.stale
  BY <1>0, EngineTypes, Zenon DEF EnginesSound
<1>3. /\ k.s # None /\ InUse(x, k.s)
      /\ \A i \in Includes : x.made[k.s].inputs[i] \in k.current[i]
  BY <1>0, <1>2, ZenonT(60) DEF CallSound
<1>4. ~st
  BY Zenon, <1>2, <1>3 DEF Stale, E
<1>5. k.s \in Ids
  BY Zenon, <1>2, <1>3 DEF Call
<1> HIDE DEF st
<1>6. st \in BOOLEAN
  BY Zenon DEF st
<1>7. /\ y.made = x.made /\ y.entries = x.entries /\ y.configs = x.configs \cup {k.s}
      /\ y.call = None /\ y.disk = x.disk /\ y.stale = st /\ y \in Engines
  <2> HIDE DEF k
  <2> QED  BY <1>2, <1>5, <1>6, Zenon DEF Engines
<1>8. EnginesSound(y, filter)
  <2> HIDE DEF y, k
  <2>1. \A e : InUse(y, e) <=> InUse(x, e)
    BY Zenon, <1>7 DEF InUse
  <2>2. \A d \in Directives : EntrySound(y, d)
    BY ZenonT(60), <1>7 DEF EnginesSound, EntrySound
  <2>3. \A e \in y.configs : InUse(y, e)
    BY Zenon, <1>3, <1>7, <2>1 DEF EnginesSound
  <2> QED  BY Zenon, <1>4, <1>7, <2>1, <2>2, <2>3 DEF EnginesSound
<1> QED  BY Zenon, <1>1, <1>8

(* The new engine is stored and returned, or there is none. *)
LEMMA EngineNew ==
    ASSUME EnginesParameters, EnginesSound(shared.engines, filter), newWAF
    PROVE  \E y : EnginesSound(y, filter) /\ Sets(y)
<1> DEFINE x == shared.engines
           k == x.call
<1>1. /\ k # None /\ k.at = "store"
  BY Zenon DEF newWAF, E
<1>2. x \in Engines /\ k \in Call /\ CallSound(x) /\ ~x.stale
  BY <1>1, EngineTypes, Zenon DEF EnginesSound
<1>3. CASE Sets([x EXCEPT !.call = None])
  BY Zenon, <1>3, CallMoves
<1>4. CASE ~Sets([x EXCEPT !.call = None])
  <2> DEFINE e == CHOOSE i \in Ids : x.made[i] = None
             st == x.stale \/ Stale(k.inputs)
  <2>1. PICK opened \in BOOLEAN : Sets([x EXCEPT
                  !.made[e] = [key |-> k.key, inputs |-> k.inputs,
                               untracked |-> opened, stage |-> "held"],
                  !.entries[k.key] = e, !.configs = @ \cup {e}, !.call = None,
                  !.stale = @ \/ Stale(k.inputs)])
    BY <1>4, Zenon DEF newWAF, E
  <2> DEFINE n == [key |-> k.key, inputs |-> k.inputs, untracked |-> opened, stage |-> "held"]
             y == [x EXCEPT !.made = [x.made EXCEPT ![e] = n],
                            !.entries = [x.entries EXCEPT ![k.key] = e],
                            !.configs = x.configs \cup {e}, !.call = None, !.stale = st]
  <2>2. Sets(y)
    BY <2>1
  <2>3. /\ \A i \in Includes : k.inputs[i] \in k.current[i]
        /\ \E i \in Ids : x.made[i] = None
    BY Zenon, <1>1, <1>2 DEF CallSound
  <2>4. e \in Ids /\ x.made[e] = None
    BY Zenon, <2>3
  <2> HIDE DEF e
  <2>5. ~st
    BY Zenon, <1>2, <2>3 DEF Stale, E
  <2>6. n \in Engine
    <3>1. k.key \in Directives /\ k.current \in [Includes -> SUBSET Contents]
          /\ k.inputs \in [Includes -> Contents \cup {None}]
      BY Zenon, <1>2 DEF Call
    <3>2. k.inputs \in [Includes -> Contents]
      BY Zenon, <2>3, <3>1
    <3> HIDE DEF k
    <3> QED  BY Zenon, <3>1, <3>2 DEF Engine
  <2>7. n # None /\ n.stage = "held" /\ n.key = k.key
    <3>1. n.stage = "held" /\ n.key = k.key
      OBVIOUS
    <3> HIDE DEF n
    <3> QED  BY Zenon, <2>6, <3>1 DEF EnginesParameters
  <2> HIDE DEF st, n
  <2>8. st \in BOOLEAN
    BY Zenon DEF st
  <2>9. k.key \in Directives
    BY Zenon, <1>2 DEF Call
  <2> HIDE DEF k
  <2>10. /\ y.made = [x.made EXCEPT ![e] = n] /\ y.entries = [x.entries EXCEPT ![k.key] = e]
         /\ y.configs = x.configs \cup {e} /\ y.call = None /\ y.disk = x.disk /\ y.stale = st
         /\ y \in Engines
    BY <1>2, <2>4, <2>6, <2>8, <2>9, ZenonT(60) DEF Engines
  <2> HIDE DEF y
  <2>11. /\ \A i \in Ids : y.made[i] = IF i = e THEN n ELSE x.made[i]
         /\ \A d \in Directives : y.entries[d] = IF d = k.key THEN e ELSE x.entries[d]
    BY <1>2, <2>10, EngineTypes
  <2>12. \A i \in Ids : InUse(x, i) => InUse(y, i)
    BY Zenon, <2>4, <2>11 DEF InUse
  <2>13. InUse(y, e)
    BY Zenon, <2>4, <2>7, <2>11 DEF InUse
  <2>14. ASSUME NEW d \in Directives PROVE EntrySound(y, d)
    <3>1. x.entries[d] \in Ids \cup {None} /\ EntrySound(x, d)
      BY <1>2, EngineTypes DEF EnginesSound
    <3> QED  BY <2>4, <2>7, <2>11, <3>1 DEF EntrySound
  <2>15. \A s \in Streams : filter[s].engine # None =>
             filter[s].engine \in Ids /\ InUse(y, filter[s].engine)
    BY <2>12, Zenon DEF EnginesSound
  <2>16. \A i \in y.configs : InUse(y, i)
    <3>1. \A i \in x.configs : i \in Ids /\ InUse(x, i)
      BY Zenon, <1>2, EngineTypes DEF EnginesSound
    <3> QED  BY Zenon, <2>10, <2>12, <2>13, <3>1
  <2>17. EnginesSound(y, filter)
    BY <2>5, <2>10, <2>14, <2>15, <2>16, Zenon DEF EnginesSound
  <2> QED  BY Zenon, <2>2, <2>17
<1> QED  BY Zenon, <1>3, <1>4

(* A configuration is destroyed. *)
LEMMA EngineDrop ==
    ASSUME EnginesParameters, EnginesSound(shared.engines, filter), NEW e, DropConfig(e)
    PROVE  \E y : EnginesSound(y, filter) /\ Sets(y)
<1> DEFINE x == shared.engines
           y == [x EXCEPT !.configs = x.configs \ {e}]
<1>1. Sets(y)
  BY Zenon DEF DropConfig, E
<1>2. x \in Engines
  BY Zenon DEF EnginesSound
<1>3. /\ y.made = x.made /\ y.entries = x.entries /\ y.configs = x.configs \ {e}
      /\ y.call = x.call /\ y.disk = x.disk /\ y.stale = x.stale /\ y \in Engines
  BY Zenon, <1>2 DEF Engines
<1> HIDE DEF y
<1>4. \A i \in Ids : InUse(x, i) => InUse(y, i)
  BY <1>3, Zenon DEF InUse
<1>5. \A d \in Directives : EntrySound(y, d)
  BY <1>3, Zenon DEF EnginesSound, EntrySound
<1>6. x.call # None => CallSound(y)
  BY <1>3, Zenon DEF EnginesSound, CallSound, InUse
<1>7. x.configs \subseteq Ids
  BY Zenon, <1>2 DEF Engines
<1>8. EnginesSound(y, filter)
  BY Zenon, <1>3, <1>4, <1>5, <1>6, <1>7 DEF EnginesSound
<1> QED  BY Zenon, <1>1, <1>8

(* An engine nobody uses goes on to its next stage. *)
LEMMA EngineAges ==
    ASSUME EnginesParameters, NEW x, NEW f, EnginesSound(x, f), NEW e \in Ids, NEW n, NEW entries,
           NEW y, y = [x EXCEPT !.made = [x.made EXCEPT ![e] = n], !.entries = entries],
           n \in Engine \cup {None}, entries \in [Directives -> Ids \cup {None}],
           x.made[e] # None, e \notin x.configs,
           \A s \in Streams : f[s].engine # e,
           x.call # None => x.call.s # e,
           \A d \in Directives : EntrySound(y, d)
    PROVE  EnginesSound(y, f)
<1>1. x \in Engines
  BY Zenon DEF EnginesSound
<1>2. /\ y.made = [x.made EXCEPT ![e] = n] /\ y.entries = entries /\ y.configs = x.configs
      /\ y.call = x.call /\ y.disk = x.disk /\ y.stale = x.stale /\ y \in Engines
  BY <1>1, Zenon DEF Engines
<1>3. \A i \in Ids : y.made[i] = IF i = e THEN n ELSE x.made[i]
  BY <1>1, <1>2, EngineTypes
<1>4. \A i \in Ids : i # e /\ InUse(x, i) => InUse(y, i)
  BY Zenon, <1>3 DEF InUse
<1>5. \A i \in y.configs : InUse(y, i)
  BY Zenon, <1>1, <1>2, <1>4, EngineTypes DEF EnginesSound
<1>6. \A s \in Streams : f[s].engine # None => f[s].engine \in Ids /\ InUse(y, f[s].engine)
  BY Zenon, <1>4 DEF EnginesSound
<1>7. ASSUME y.call # None PROVE CallSound(y)
  <2> DEFINE k == x.call
  <2>1. k # None /\ k \in Call /\ CallSound(x)
    BY Zenon, <1>1, <1>2, <1>7, EngineTypes DEF EnginesSound
  <2>2. k.s # None => k.s \in Ids /\ k.s # e /\ y.made[k.s] = x.made[k.s]
    BY Zenon, <1>3, <2>1 DEF Call
  <2>3. \E i \in Ids : y.made[i] = None
    <3>1. PICK i \in Ids : x.made[i] = None
      BY Zenon, <2>1 DEF CallSound
    <3> QED  BY Zenon, <1>3, <3>1
  <2> HIDE DEF k
  <2>4. x.call = k
    BY Zenon DEF k
  <2> QED  BY <1>2, <1>4, <2>1, <2>2, <2>3, <2>4 DEF CallSound
<1> QED  BY Zenon, <1>2, <1>5, <1>6, <1>7 DEF EnginesSound

(* The collector takes an engine nobody holds. *)
LEMMA EngineCollect ==
    ASSUME EnginesParameters, EnginesSound(shared.engines, filter), NEW e \in Ids, Collect(e)
    PROVE  \E y : EnginesSound(y, filter) /\ Sets(y)
<1> DEFINE x == shared.engines
           n == [x.made[e] EXCEPT !.stage = "collected"]
           y == [x EXCEPT !.made = [x.made EXCEPT ![e] = n], !.entries = x.entries]
<1>1. x \in Engines
  BY Zenon DEF EnginesSound
<1>2. /\ x.made[e] # None /\ ~Reachable(e)
      /\ Sets([x EXCEPT !.made[e].stage = "collected"])
  BY Zenon DEF Collect, E
<1>3. x.made[e] \in Engine
  BY <1>1, <1>2, EngineTypes
<1>4. n \in Engine /\ n.stage = "collected" /\ n.key = x.made[e].key
  BY Zenon, <1>3 DEF Engine
<1>5. y = [x EXCEPT !.made[e].stage = "collected"]
  BY <1>1, <1>3, ZenonT(60) DEF Engines, Engine
<1>6. /\ e \notin x.configs /\ (\A s \in Streams : filter[s].engine # e)
      /\ x.call # None => x.call.s # e
  BY <1>2, Zenon DEF Reachable, E
<1>7. n # None
  <2> HIDE DEF n
  <2> QED  BY Zenon, <1>4 DEF EnginesParameters
<1>8. x.entries \in [Directives -> Ids \cup {None}]
  BY Zenon, <1>1, EngineTypes
<1> HIDE DEF n
<1>9. y.made = [x.made EXCEPT ![e] = n] /\ y.entries = x.entries
  BY Zenon, <1>1 DEF Engines
<1>10. \A i \in Ids : y.made[i] = IF i = e THEN n ELSE x.made[i]
  BY <1>1, <1>9, EngineTypes, SMTT(60)
<1> HIDE DEF y
<1>11. ASSUME NEW d \in Directives PROVE EntrySound(y, d)
  <2>1. EntrySound(x, d) /\ x.entries[d] \in Ids \cup {None}
    BY Zenon, <1>8 DEF EnginesSound
  <2> QED  BY <1>4, <1>7, <1>9, <1>10, <2>1 DEF EntrySound
<1> HIDE DEF x
<1>12. EnginesSound(x, filter)
  BY Zenon DEF x
<1>13. EnginesSound(y, filter)
  <2>1. x.call # None => x.call.s # e
    BY Zenon, <1>6
  <2>2. \A s \in Streams : filter[s].engine # e
    BY Zenon, <1>6
  <2>3. e \notin x.configs /\ x.made[e] # None /\ n \in Engine \cup {None}
    BY Zenon, <1>2, <1>4, <1>6
  <2>4. y = [x EXCEPT !.made = [x.made EXCEPT ![e] = n], !.entries = x.entries]
    BY Zenon DEF y
  <2>5. \A d \in Directives : EntrySound(y, d)
    BY Zenon, <1>11
  <2> QED  BY <1>8, <1>12, <2>1, <2>2, <2>3, <2>4, <2>5, EngineAges, Zenon
<1> QED  BY Zenon, <1>2, <1>5, <1>13

(* The late release drops an entry that yields nothing. *)
LEMMA EngineRelease ==
    ASSUME EnginesParameters, EnginesSound(shared.engines, filter), NEW e \in Ids, release(e)
    PROVE  \E y : EnginesSound(y, filter) /\ Sets(y)
<1> DEFINE x == shared.engines
           d == x.made[e].key
           n == [x.made[e] EXCEPT !.stage = "unlisted"]
           v == IF Value(x.entries[d]) = None THEN None ELSE x.entries[d]
           entries == [x.entries EXCEPT ![d] = v]
           y == [x EXCEPT !.made = [x.made EXCEPT ![e] = n], !.entries = entries]
<1>1. x \in Engines
  BY Zenon DEF EnginesSound
<1>2. /\ x.made[e] # None /\ x.made[e].stage = "collected" /\ x.call = None
      /\ Sets([x EXCEPT !.made[e].stage = "unlisted",
                          !.entries[d] = IF Value(@) = None THEN None ELSE @])
  BY Zenon DEF release, E
<1>3. x.made[e] \in Engine /\ x.entries \in [Directives -> Ids \cup {None}]
  BY <1>1, <1>2, EngineTypes
<1>4. n \in Engine /\ d \in Directives
  BY Zenon, <1>3 DEF Engine
<1>5. Sets(y)
  <2>1. y = [x EXCEPT !.made[e].stage = "unlisted", !.entries[d] = v]
    BY Zenon, <1>1, <1>3, <1>4 DEF Engines, Engine
  <2>2. [x EXCEPT !.made[e].stage = "unlisted", !.entries[d] = v] =
          [x EXCEPT !.made[e].stage = "unlisted",
                    !.entries[d] = IF Value(@) = None THEN None ELSE @]
    OBVIOUS
  <2> QED  BY <1>2, <2>1, <2>2, Zenon
<1>6. /\ e \notin x.configs /\ (\A s \in Streams : filter[s].engine # e)
  <2>1. e # None
    BY NoneAssumption DEF Ids, EnginesParameters
  <2> QED  BY <1>2, <2>1, Zenon DEF EnginesSound, InUse
<1>7. x.entries[d] = e => v = None
  BY Zenon, <1>2 DEF Value, E
<1>8. v \in {None, x.entries[d]}
  OBVIOUS
<1> HIDE DEF n, v
<1>9. entries \in [Directives -> Ids \cup {None}]
  BY Zenon, <1>3, <1>4, <1>8
<1>10. \A c \in Directives : entries[c] = IF c = d THEN v ELSE x.entries[c]
  BY Zenon, <1>3, <1>4
<1> HIDE DEF entries
<1>11. y.made = [x.made EXCEPT ![e] = n] /\ y.entries = entries
  BY Zenon, <1>1 DEF Engines
<1>12. \A i \in Ids : y.made[i] = IF i = e THEN n ELSE x.made[i]
  BY <1>1, <1>11, EngineTypes
<1> HIDE DEF y
<1>13. ASSUME NEW c \in Directives PROVE EntrySound(y, c)
  <2>1. EntrySound(x, c) /\ x.entries[c] \in Ids \cup {None}
    BY Zenon, <1>3 DEF EnginesSound
  <2>2. x.entries[c] = e => c = d
    BY <2>1, <1>2, NoneAssumption DEF EntrySound, Ids
  <2>3. y.entries[c] # None => y.entries[c] = x.entries[c] /\ x.entries[c] # e
    BY Zenon, <1>7, <1>8, <1>10, <1>11, <2>2
  <2> QED  BY Zenon, <1>12, <2>1, <2>3 DEF EntrySound
<1>14. EnginesSound(y, filter)
  <2> HIDE DEF x, d
  <2>1. EnginesSound(x, filter)
    BY Zenon DEF x
  <2> QED  BY <1>2, <1>4, <1>6, <1>9, <1>13, <2>1, EngineAges, ZenonT(60) DEF y
<1> QED  BY Zenon, <1>5, <1>14

(* The engine is closed. *)
LEMMA EngineClose ==
    ASSUME EnginesParameters, EnginesSound(shared.engines, filter), NEW e \in Ids, Close(e)
    PROVE  \E y : EnginesSound(y, filter) /\ Sets(y)
<1> DEFINE x == shared.engines
           y == [x EXCEPT !.made = [x.made EXCEPT ![e] = None], !.entries = x.entries]
<1>1. x \in Engines
  BY Zenon DEF EnginesSound
<1>2. /\ x.made[e] # None /\ x.made[e].stage = "unlisted"
      /\ Sets([x EXCEPT !.made[e] = None])
  BY Zenon DEF Close, E
<1>3. y = [x EXCEPT !.made[e] = None]
  BY <1>1, Zenon DEF Engines
<1>4. x.entries \in [Directives -> Ids \cup {None}]
  BY Zenon, <1>1, EngineTypes
<1>5. /\ e \notin x.configs /\ (\A s \in Streams : filter[s].engine # e)
  <2>1. e # None
    BY NoneAssumption DEF Ids, EnginesParameters
  <2> QED  BY <1>2, <2>1, Zenon DEF EnginesSound, InUse
<1>6. x.call # None => x.call.s # e
  <2>1. e # None
    BY NoneAssumption DEF Ids, EnginesParameters
  <2> QED  BY <1>2, <2>1, Zenon DEF EnginesSound, CallSound, InUse
<1>7. y.made = [x.made EXCEPT ![e] = None] /\ y.entries = x.entries
  BY Zenon, <1>1 DEF Engines
<1>8. \A i \in Ids : y.made[i] = IF i = e THEN None ELSE x.made[i]
  BY <1>1, <1>7, EngineTypes
<1> HIDE DEF y
<1>9. ASSUME NEW d \in Directives PROVE EntrySound(y, d)
  <2>1. EntrySound(x, d) /\ x.entries[d] \in Ids \cup {None}
    BY Zenon, <1>4 DEF EnginesSound
  <2> QED  BY Zenon, <1>2, <1>7, <1>8, <2>1 DEF EntrySound
<1>10. EnginesSound(y, filter)
  <2> HIDE DEF x
  <2>1. EnginesSound(x, filter)
    BY Zenon DEF x
  <2> QED  BY <1>2, <1>4, <1>5, <1>6, <1>9, <2>1, EngineAges, ZenonT(60) DEF y
<1> QED  BY Zenon, <1>2, <1>3, <1>10

(* A file changes, also during a call. *)
LEMMA EngineEdit ==
    ASSUME EnginesParameters, EnginesSound(shared.engines, filter), NEW i \in Includes, NEW c \in Contents,
           Edit(i, c)
    PROVE  \E y : EnginesSound(y, filter) /\ Sets(y)
<1> DEFINE x == shared.engines
           k == x.call
           m == IF k = None THEN None
                ELSE [k EXCEPT !.current = [k.current EXCEPT ![i] = k.current[i] \cup {c}]]
           y == [x EXCEPT !.disk = [x.disk EXCEPT ![i] = c], !.call = m]
<1>1. x \in Engines /\ k \in Call \cup {None}
  BY EngineTypes, Zenon DEF EnginesSound
<1>2. Sets([x EXCEPT !.disk[i] = c, !.call =
             IF k = None THEN None ELSE [k EXCEPT !.current[i] = @ \cup {c}]])
  BY Zenon DEF Edit, E
<1>3. k # None => [k EXCEPT !.current[i] = @ \cup {c}] =
                    [k EXCEPT !.current = [k.current EXCEPT ![i] = k.current[i] \cup {c}]]
  <2> HIDE DEF k
  <2> QED  BY Zenon, <1>1 DEF Call
<1>4. Sets(y)
  <2> DEFINE m1 == IF k = None THEN None ELSE [k EXCEPT !.current[i] = @ \cup {c}]
  <2>1. m1 = m
    BY Zenon, <1>3
  <2>2. Sets([x EXCEPT !.disk[i] = c, !.call = m1])
    BY Zenon, <1>2
  <2> HIDE DEF m1, m
  <2>3. [x EXCEPT !.disk[i] = c, !.call = m] = y
    BY Zenon, <1>1 DEF Engines
  <2> QED  BY Zenon, <2>1, <2>2, <2>3
<1>5. /\ k = None => m = None
      /\ k # None => /\ m \in Call /\ m.key = k.key /\ m.at = k.at /\ m.s = k.s
                     /\ m.todo = k.todo /\ m.inputs = k.inputs
                     /\ m.current = [k.current EXCEPT ![i] = k.current[i] \cup {c}]
  <2> HIDE DEF k
  <2>1. CASE k = None
    BY Zenon, <2>1
  <2>2. CASE k # None
    <3>1. k \in Call /\ k.current \in [Includes -> SUBSET Contents]
      BY Zenon, <1>1, <2>2 DEF Call
    <3>2. [k.current EXCEPT ![i] = k.current[i] \cup {c}] \in [Includes -> SUBSET Contents]
      BY Zenon, <3>1
    <3>3. m = [k EXCEPT !.current = [k.current EXCEPT ![i] = k.current[i] \cup {c}]]
      BY Zenon, <2>2
    <3> HIDE DEF m
    <3> QED  BY Zenon, <2>2, <3>1, <3>2, <3>3 DEF Call
  <2> QED  BY Zenon, <2>1, <2>2
<1> HIDE DEF m
<1>6. /\ y.made = x.made /\ y.entries = x.entries /\ y.configs = x.configs /\ y.call = m
      /\ y.disk = [x.disk EXCEPT ![i] = c] /\ y.stale = x.stale /\ y \in Engines
  <2>1. m \in Call \cup {None} /\ [x.disk EXCEPT ![i] = c] \in [Includes -> Contents]
    BY Zenon, <1>1, <1>5, EngineTypes
  <2> QED  BY <1>1, <2>1, Zenon DEF Engines
<1>7. ASSUME m # None PROVE CallSound(y)
  <2>1. k # None /\ k \in Call /\ CallSound(x)
    BY Zenon, <1>1, <1>5, <1>7 DEF EnginesSound
  <2>2. k.current \in [Includes -> SUBSET Contents] /\ x.disk \in [Includes -> Contents]
    BY Zenon, <1>1, <2>1, EngineTypes DEF Call
  <2>3. \A j \in Includes : k.current[j] \subseteq m.current[j] /\ y.disk[j] \in {x.disk[j], c}
                            /\ (y.disk[j] # x.disk[j] => j = i)
    BY <1>5, <1>6, <2>1, <2>2
  <2>4. \A j \in Includes : y.disk[j] \in m.current[j]
    <3>1. \A j \in Includes : x.disk[j] \in k.current[j]
      BY Zenon, <2>1 DEF CallSound
    <3> QED  BY <1>5, <2>1, <2>2, <2>3, <3>1
  <2>5. \E e \in Ids : y.made[e] = None
    BY Zenon, <1>6, <2>1 DEF CallSound
  <2>6. m.s # None => InUse(y, m.s)
    BY Zenon, <1>5, <1>6, <2>1 DEF CallSound, InUse
  <2>7. m.at = "compare" =>
          m.s # None /\ \A j \in Includes \ m.todo : y.made[m.s].inputs[j] \in m.current[j]
    <3>1. k.at = "compare" =>
          k.s # None /\ \A j \in Includes \ k.todo : x.made[k.s].inputs[j] \in k.current[j]
      BY <2>1, Zenon DEF CallSound
    <3> QED  BY Zenon, <1>5, <1>6, <2>1, <2>3, <3>1
  <2>8. /\ m.at # "compare" =>
             m.s = None /\ \A j \in Includes \ m.todo : m.inputs[j] \in m.current[j]
        /\ m.at = "store" => m.todo = {}
    <3>1. /\ k.at # "compare" =>
               k.s = None /\ \A j \in Includes \ k.todo : k.inputs[j] \in k.current[j]
          /\ k.at = "store" => k.todo = {}
      BY <2>1, ZenonT(60) DEF CallSound
    <3> QED  BY Zenon, <1>5, <2>1, <2>3, <3>1
  <2> HIDE DEF y
  <2> QED  BY <1>6, <2>4, <2>5, <2>6, <2>7, <2>8, Zenon DEF CallSound
<1> HIDE DEF y
<1>8. EnginesSound(y, filter)
  <2>1. \A e : InUse(y, e) <=> InUse(x, e)
    BY Zenon, <1>6 DEF InUse
  <2>2. \A d \in Directives : EntrySound(y, d)
    BY Zenon, <1>6 DEF EnginesSound, EntrySound
  <2> QED  BY Zenon, <1>6, <1>7, <2>1, <2>2 DEF EnginesSound
<1> QED  BY Zenon, <1>4, <1>8

(* Of what is shared, only the engines change. *)
LEMMA EngineSets ==
    ASSUME EnginesParameters, Shape, NEW y, Sets(y)
    PROVE  Shape' /\ shared'.engines = y
  BY Zenon DEF Shape, Sets

(* A step of the engines leaves those of the streams in use. *)
LEMMA EngineMoves ==
    ASSUME EnginesParameters, EnginesInv, EngineStep
    PROVE  \E y : EnginesSound(y, filter) /\ Sets(y)
<1>0. EnginesSound(shared.engines, filter)
  BY Zenon DEF EnginesInv, EngineStep, On, E
<1>1. ASSUME \E c \in Call : /\ CallSound([shared.engines EXCEPT !.call = c])
                                      /\ Sets([shared.engines EXCEPT !.call = c])
      PROVE  \E y : EnginesSound(y, filter) /\ Sets(y)
  BY Zenon, <1>0, <1>1, CallMoves
<1>2. ASSUME NEW d \in Directives, CreateConfig(d)
      PROVE  \E y : EnginesSound(y, filter) /\ Sets(y)
  BY <1>0, <1>1, <1>2, EngineCreate, Zenon
<1>3. ASSUME NEW i \in Includes, unchanged(i)
      PROVE  \E y : EnginesSound(y, filter) /\ Sets(y)
  BY <1>0, <1>1, <1>3, EngineUnchanged, Zenon
<1>4. ASSUME NEW i \in Includes, ReadFile(i)
      PROVE  \E y : EnginesSound(y, filter) /\ Sets(y)
  BY <1>0, <1>1, <1>4, EngineReadFile, Zenon
<1>5. ASSUME NEW e \in Ids,
             DropConfig(e) \/ Collect(e) \/ release(e) \/ Close(e)
      PROVE  \E y : EnginesSound(y, filter) /\ Sets(y)
  BY <1>0, <1>5, EngineDrop, EngineCollect, EngineRelease, EngineClose, Zenon
<1> QED  BY <1>0, <1>2, <1>3, <1>4, <1>5, EngineReuse, EngineNew, EngineEdit, Zenon
            DEF EngineStep

(* Every step of the engines. *)
LEMMA EngineKeeps ==
    ASSUME EnginesParameters, Shape, EnginesInv, EngineStep
    PROVE  EnginesInv' /\ Shape' /\ stream' = stream /\ filter' = filter
<1>1. PICK y : EnginesSound(y, filter) /\ Sets(y)
  BY Zenon, EngineMoves
<1>2. Shape' /\ shared'.engines = y
  BY Zenon, <1>1, EngineSets
<1>3. filter' = filter /\ stream' = stream /\ shared.engines # None
  BY Zenon DEF EngineStep, On, E
<1>4. filter \in [Streams -> Filters]
  BY Zenon, <1>3 DEF EnginesInv
<1>5. EnginesSound(shared'.engines, filter')
  BY Zenon, <1>1, <1>2, <1>3
<1>6. EnginesInv'
  BY <1>3, <1>4, <1>5, Zenon DEF EnginesInv
<1> QED  BY Zenon, <1>2, <1>3, <1>6

(* A stream is given an engine of a configuration, or lets go of its own. *)
LEMMA HolderMoves ==
    ASSUME EnginesParameters, EnginesInv, shared.engines # None, NEW s \in Streams,
           NEW e \in shared.engines.configs \cup {None},
           filter' = [filter EXCEPT ![s] = Holder(e)], shared' = shared
    PROVE  EnginesInv'
<1> DEFINE x == shared.engines
<1>1. filter \in [Streams -> Filters] /\ EnginesSound(x, filter)
  BY Zenon DEF EnginesInv
<1>2. e \in Ids \cup {None} /\ (e # None => InUse(x, e))
  BY Zenon, <1>1, EngineTypes DEF EnginesSound
<1>3. Holder(e) \in Filters /\ Holder(e).engine = e
  BY Zenon, <1>2 DEF Filters, Holder
<1>4. /\ filter' \in [Streams -> Filters]
      /\ \A t \in Streams : filter'[t] = IF t = s THEN Holder(e) ELSE filter[t]
  BY Zenon, <1>1, <1>3
<1>5. \A t \in Streams : filter'[t].engine # None =>
         filter'[t].engine \in Ids /\ InUse(x, filter'[t].engine)
  BY <1>1, <1>2, <1>3, <1>4, Zenon DEF EnginesSound
<1>6. EnginesSound(x, filter')
  BY <1>1, <1>5, Zenon DEF EnginesSound
<1>7. shared'.engines = x
  OBVIOUS
<1> HIDE DEF x
<1> QED  BY <1>4, <1>6, <1>7, Zenon DEF EnginesInv

(* A stream takes the engine of a configuration, or gives it up. *)
LEMMA HolderKeeps ==
    ASSUME EnginesParameters, EnginesInv, NEW s \in Streams, CreatePlugin(s) \/ Destroy(s)
    PROVE  EnginesInv' /\ shared' = shared
<1>1. CASE CreatePlugin(s)
  <2>1. PICK e \in shared.engines.configs : filter' = [filter EXCEPT ![s] = Holder(e)]
    BY <1>1, Zenon DEF CreatePlugin, E
  <2>2. shared.engines # None /\ shared' = shared
    BY Zenon, <1>1 DEF CreatePlugin, On, E
  <2> QED  BY <2>1, <2>2, HolderMoves, Zenon
<1>2. CASE Destroy(s)
  <2>1. filter' = [filter EXCEPT ![s] = Holder(None)] /\ shared' = shared
    BY <1>2, Zenon DEF Destroy, Ends
  <2>2. shared.engines # None
    BY Zenon, <1>2 DEF Destroy, On, E
  <2> QED  BY <2>1, <2>2, HolderMoves, Zenon
<1> QED  BY Zenon, <1>1, <1>2

(* There is no engine yet. *)
LEMMA EnginesStart ==
    ASSUME EnginesParameters, shared.engines = Started, filter = [s \in Streams |-> Holder(None)]
    PROVE  EnginesInv
<1> DEFINE x == Started
<1>1. /\ x.made = [i \in Ids |-> None] /\ x.entries = [d \in Directives |-> None]
      /\ x.configs = {} /\ x.call = None /\ x.disk = [i \in Includes |-> "v1"] /\ x.stale = FALSE
  BY Zenon DEF Started
<1>2. x \in Engines
  BY Zenon DEF Started, Engines, Contents
<1>3. Holder(None) \in Filters /\ Holder(None).engine = None
  BY Zenon DEF Filters, Holder
<1>4. filter \in [Streams -> Filters] /\ \A s \in Streams : filter[s].engine = None
  BY Zenon, <1>3
<1> HIDE DEF x
<1>5. EnginesSound(x, filter)
  BY Zenon, <1>1, <1>2, <1>4 DEF EnginesSound, EntrySound
<1> QED  BY Zenon, <1>4, <1>5 DEF EnginesInv, x

(* The invariant implies what the runs check. *)
LEMMA EnginesConfigured ==
    ASSUME EnginesParameters, EnginesInv
    PROVE  EnginesAsConfigured
<1> SUFFICES ASSUME shared.engines # None
             PROVE  NoneClosed /\ NoneForgotten /\ ~shared.engines.stale
  BY Zenon DEF EnginesAsConfigured, On, E
<1> DEFINE x == shared.engines
<1>1. EnginesSound(x, filter) /\ x \in Engines
  BY Zenon DEF EnginesInv, EnginesSound
<1>2. ASSUME NEW e \in x.configs \cup {filter[s].engine : s \in Streams}, e # None
      PROVE  InUse(x, e)
  BY Zenon, <1>1, <1>2 DEF EnginesSound
<1>3. NoneClosed
  BY <1>2, Zenon DEF NoneClosed, E, InUse
<1>4. ASSUME NEW d \in Directives, x.entries[d] # None, Value(x.entries[d]) = None
      PROVE  \E e \in Ids :
               x.made[e] # None /\ x.made[e].stage = "collected" /\ x.made[e].key = d
  <2>1. EntrySound(x, d) /\ x.entries[d] \in Ids
    BY <1>1, <1>4, EngineTypes DEF EnginesSound
  <2> QED  BY Zenon, <1>4, <2>1 DEF EntrySound, Value, E
<1>5. NoneForgotten
  BY <1>4, Zenon DEF NoneForgotten, E
<1> QED  BY Zenon, <1>1, <1>3, <1>5 DEF EnginesSound

(* What a step does to an entry that yields an engine when no call runs. *)
LEMMA EnginesStayListed ==
    ASSUME EnginesParameters, Shape, EnginesInv, EngineStep, NEW d \in Directives,
           Value(shared.engines.entries[d]) # None, shared.engines.call = None
    PROVE  shared'.engines.entries[d] = shared.engines.entries[d]
<1> DEFINE x == shared.engines
<1>1. x \in Engines
  BY Zenon DEF EnginesInv, EnginesSound, EngineStep, On, E
<1>2. ASSUME NEW y, Sets(y) PROVE shared'.engines = y
  BY Zenon, <1>2, EngineSets
<1>3. CASE \E c \in Directives : CreateConfig(c)
  <2>1. \E c : Sets([x EXCEPT !.call = c])
    BY <1>3, Zenon DEF CreateConfig, getOrCreate, E
  <2> QED  BY Zenon, <1>1, <1>2, <2>1 DEF Engines
<1>4. CASE \E i \in Includes, c \in Contents : Edit(i, c)
  <2>1. PICK i \in Includes, c \in Contents : Edit(i, c)
    BY Zenon, <1>4
  <2>2. Sets([x EXCEPT !.disk[i] = c, !.call = IF x.call = None THEN None
                                  ELSE [x.call EXCEPT !.current[i] = @ \cup {c}]])
    BY <2>1, Zenon DEF Edit, E
  <2> QED  BY <1>1, <1>2, <2>2, Zenon DEF Engines
<1>5. ASSUME NEW e \in Ids, DropConfig(e)
      PROVE  shared'.engines.entries[d] = x.entries[d]
  BY Zenon, <1>1, <1>2, <1>5 DEF DropConfig, E, Engines
<1>6. ASSUME NEW e \in Ids, Collect(e)
      PROVE  shared'.engines.entries[d] = x.entries[d]
  <2>1. Sets([x EXCEPT !.made[e].stage = "collected"])
    BY <1>6, Zenon DEF Collect, E
  <2> QED  BY Zenon, <1>1, <1>2, <2>1 DEF Engines
<1>7. ASSUME NEW e \in Ids, Close(e)
      PROVE  shared'.engines.entries[d] = x.entries[d]
  <2>1. Sets([x EXCEPT !.made[e] = None])
    BY <1>7, Zenon DEF Close, E
  <2> QED  BY Zenon, <1>1, <1>2, <2>1 DEF Engines
<1>8. ASSUME NEW e \in Ids, release(e)
      PROVE  shared'.engines.entries[d] = x.entries[d]
  <2> DEFINE c == x.made[e].key
             v == IF Value(x.entries[c]) = None THEN None ELSE x.entries[c]
  <2>1. Sets([x EXCEPT !.made[e].stage = "unlisted",
               !.entries[c] = IF Value(@) = None THEN None ELSE @])
    BY <1>8, Zenon DEF release, E
  <2>2. Sets([x EXCEPT !.made[e].stage = "unlisted", !.entries[c] = v])
    BY Zenon, <2>1
  <2>3. d = c => v = x.entries[d]
    OBVIOUS
  <2> HIDE DEF v, c
  <2>4. shared'.engines = [x EXCEPT !.made[e].stage = "unlisted", !.entries[c] = v]
    BY Zenon, <1>2, <2>2
  <2> QED  BY <1>1, <2>3, <2>4 DEF Engines
<1>9. ~Reuse /\ ~newWAF
  BY Zenon DEF Reuse, newWAF, E
<1>10. \A i \in Includes : ~unchanged(i) /\ ~ReadFile(i)
  BY Zenon DEF unchanged, ReadFile, E
<1> QED  BY <1>3, <1>4, <1>5, <1>6, <1>7, <1>8, <1>9, <1>10, Zenon DEF EngineStep

EnginesSpecInv == Shape /\ EnginesInv

(* The invariant of the specification of the engines. *)
LEMMA EnginesInductive ==
    ASSUME EnginesParameters
    PROVE  /\ EnginesInit => EnginesSpecInv
           /\ EnginesSpecInv /\ [EnginesNext]_vars => EnginesSpecInv'
<1>1. ASSUME EnginesInit PROVE EnginesSpecInv
  <2>1. shared.engines = Started /\ Shape /\ filter = [s \in Streams |-> Holder(None)]
    BY Zenon, <1>1 DEF EnginesInit, Unshared, Shape
  <2> QED  BY Zenon, <2>1, EnginesStart DEF EnginesSpecInv
<1>2. ASSUME EnginesSpecInv, EngineStep PROVE EnginesSpecInv'
  BY Zenon, <1>2, EngineKeeps DEF EnginesSpecInv
<1>3. ASSUME EnginesSpecInv, NEW s \in Streams, CreatePlugin(s) \/ Destroy(s) PROVE EnginesSpecInv'
  <2>1. EnginesInv' /\ shared' = shared
    BY Zenon, <1>3, HolderKeeps DEF EnginesSpecInv
  <2> QED  BY <1>3, <2>1, Zenon DEF EnginesSpecInv, Shape
<1>4. ASSUME EnginesSpecInv, UNCHANGED vars PROVE EnginesSpecInv'
  <2>1. shared' = shared /\ filter' = filter
    BY Zenon, <1>4 DEF vars
  <2> QED  BY <1>4, <2>1, Zenon DEF EnginesSpecInv, Shape, EnginesInv
<1> QED  BY Zenon, <1>1, <1>2, <1>3, <1>4 DEF EnginesNext

(***************************************************************************)
(* Configurations and streams only ever use open engines that were built   *)
(* from the files of their configuration, for any directives, files and    *)
(* number of engines (getOrCreate, release and the cleanup).               *)
(***************************************************************************)
THEOREM EnginesStayAsConfigured == ASSUME EnginesParameters PROVE EnginesSpec => []EnginesAsConfigured
<1>1. EnginesSpecInv => EnginesAsConfigured
  BY Zenon, EnginesConfigured DEF EnginesSpecInv
<1> QED  BY <1>1, EnginesInductive, PTL DEF EnginesSpec

(***************************************************************************)
(* No step but those of a call replaces or drops an entry that yields an   *)
(* engine, so that a release that runs late leaves newer engines listed.   *)
(***************************************************************************)
THEOREM LiveEnginesListed == ASSUME EnginesParameters PROVE EnginesSpec => LiveEnginesStayListed
<1> DEFINE Kept == On => \A d \in Directives :
             LET e == E.entries[d]
             IN  Value(e) # None /\ E.call = None => E'.entries[d] = e
<1>1. ASSUME EnginesSpecInv, EnginesNext PROVE Kept
  <2>1. CASE EngineStep
    BY Zenon, <1>1, <2>1, EnginesStayListed DEF EnginesSpecInv, E
  <2>2. ASSUME NEW s \in Streams, CreatePlugin(s) \/ Destroy(s) PROVE Kept
    <3>1. shared' = shared
      BY Zenon, <1>1, <2>2, HolderKeeps DEF EnginesSpecInv
    <3> QED  BY Zenon, <3>1 DEF E
  <2> QED  BY Zenon, <1>1, <2>1, <2>2 DEF EnginesNext
<1>2. EnginesSpecInv /\ [EnginesNext]_vars => [Kept]_vars
  BY Zenon, <1>1
<1> QED  BY <1>2, EnginesInductive, PTL DEF EnginesSpec, LiveEnginesStayListed

(* The image a configuration that pins one by digest, or asks for the      *)
(* build of this version, is given.                                        *)
Pinned(d) ==
    /\ d \in Digests
    /\ shared.loads.cfg.url = "digest" => d = "foreign"
    /\ shared.loads.cfg.url = "tag" /\ shared.loads.cfg.suffix => d = "own"

(* What a process that is loading a plugin has found out so far. *)
HostSound(x) ==
    /\ x.at = "get" => x.ref = versionedURL(shared.loads.cfg)
    /\ x.at \in {"stat", "layer", "copy", "rename"} => Pinned(x.digest)
    /\ x.at = "layer" =>
         /\ x.layer <= Len(shared.loads.image)
         /\ \A j \in (x.layer + 1)..Len(shared.loads.image) : shared.loads.image[j] = "none"
    /\ x.at \in {"copy", "rename"} =>
         /\ x.temp # None /\ x.temp.digest = x.digest
         /\ Visible(shared.loads.image, x.temp.layer)
    /\ x.at = "rename" => x.temp.whole
    /\ x.at = "open" => IF x.digest = None THEN shared.loads.cfg.url = "file"
                        ELSE Pinned(x.digest) /\ shared.loads.cache[x.digest] # None
    /\ x.plugin # None => x.plugin.whole /\ Asked(x.plugin)

CacheSound ==
    \A d \in Digests : LET b == shared.loads.cache[d] IN
        b # None => b.whole /\ b.digest = d /\ Visible(shared.loads.image, b.layer)

LoadsInv ==
    shared.loads # None =>
        /\ shared.loads \in Loads
        /\ CacheSound
        /\ \A h \in Hosts : HostSound(shared.loads.host[h])

(* A step of a host replaces that host. *)
LEMMA HostIsSet ==
    ASSUME LoaderParameters, Shape, shared.loads \in Loads, NEW h \in Hosts, NEW x, SetsHost(h, x)
    PROVE  /\ Shape'
           /\ shared'.loads = [cfg |-> shared.loads.cfg, image |-> shared.loads.image,
                               tag |-> shared.loads.tag, cache |-> shared.loads.cache,
                               host |-> [shared.loads.host EXCEPT ![h] = x]]
           /\ shared'.engines = shared.engines /\ shared'.sampling = shared.sampling
           /\ shared'.active = shared.active /\ shared'.idp = shared.idp
           /\ shared'.token = shared.token
  BY Zenon DEF Shape, SetsHost, Loads

(* What a host does leaves the others sound. *)
LEMMA HostMoves ==
    ASSUME LoaderParameters, Shape, LoadsInv, shared.loads # None, NEW h \in Hosts, NEW x \in Host,
           SetsHost(h, x), HostSound(x)
    PROVE  LoadsInv'
<1>1. /\ shared'.loads = [cfg |-> shared.loads.cfg, image |-> shared.loads.image,
                               tag |-> shared.loads.tag, cache |-> shared.loads.cache,
                               host |-> [shared.loads.host EXCEPT ![h] = x]]
      /\ shared.loads \in Loads
  BY Zenon, HostIsSet DEF LoadsInv
<1>2. shared'.loads \in Loads
  BY <1>1 DEF Loads
<1>3. /\ shared'.loads.cfg = shared.loads.cfg /\ shared'.loads.image = shared.loads.image
      /\ shared'.loads.cache = shared.loads.cache
  BY <1>1
<1>4. CacheSound'
  BY Zenon, <1>3 DEF LoadsInv, CacheSound
<1>5. ASSUME NEW g \in Hosts PROVE HostSound(shared.loads.host[g])'
  <2>1. shared'.loads.host[g] = IF g = h THEN x ELSE shared.loads.host[g]
    BY <1>1 DEF Loads
  <2>2. HostSound(shared'.loads.host[g])
    BY Zenon, <2>1 DEF LoadsInv
  <2> QED  BY <2>2, <1>3, ZenonT(60) DEF HostSound, Pinned, Asked, L
<1> QED  BY Zenon, <1>2, <1>4, <1>5 DEF LoadsInv

(* An image has no more layers than the bound. *)
LEMMA ImageLen ==
    ASSUME LoaderParameters, NEW image \in Images
    PROVE  Len(image) \in 0..MaxLayers /\ image \in [1..Len(image) -> Kinds]
<1>1. PICK n \in 0..MaxLayers : image \in [1..n -> Kinds]
  BY Zenon DEF Images
<1>2. n \in Nat
  BY DEF LoaderParameters
<1>3. Len(image) = n
  BY <1>1, <1>2
<1> QED  BY Zenon, <1>1, <1>2, <1>3

(* A host between two calls. *)
LEMMA IdleSound ==
    ASSUME LoaderParameters, LoadsInv, shared.loads # None, NEW h \in Hosts
    PROVE  LET x == [Idle EXCEPT !.plugin = shared.loads.host[h].plugin]
           IN  x \in Host /\ HostSound(x)
<1>1. shared.loads.host[h] \in Host /\ HostSound(shared.loads.host[h])
  BY Zenon DEF LoadsInv, Loads
<1> DEFINE y == shared.loads.host[h]
<1>2. y.plugin \in Binary \cup {None} /\ (y.plugin # None => y.plugin.whole /\ Asked(y.plugin))
  BY <1>1, Zenon DEF Host, HostSound
<1>3. 0 \in 0..MaxLayers
  BY DEF LoaderParameters
<1> HIDE DEF y
<1>4. PICK x : x = [Idle EXCEPT !.plugin = y.plugin]
  BY Zenon
<1>5. x.at = "idle" /\ x.plugin = y.plugin /\ x \in Host
  BY <1>2, <1>3, <1>4, Zenon DEF Idle, Host
<1>6. x.at \notin {"get", "stat", "layer", "copy", "rename", "open"}
  BY <1>5
<1>7. HostSound(x)
  BY <1>2, <1>5, <1>6, Zenon DEF HostSound
<1> QED  BY <1>4, <1>5, <1>7, Zenon DEF y

(* A call that fails leaves the host idle. *)
LEMMA LoaderFails ==
    ASSUME LoaderParameters, Shape, LoadsInv, shared.loads # None, NEW h \in Hosts, Fails(h)
    PROVE  LoadsInv'
  BY Zenon, IdleSound, HostMoves DEF Fails, L

(* The host after a failed call is one again. *)
LEMMA IdleHost ==
    ASSUME LoaderParameters PROVE
    /\ Idle \in Host /\ Idle.plugin = None
    /\ Idle.digest = None /\ Idle.at = "idle"
  BY DEF Idle, Host, LoaderParameters

(* loadPluginImpl starts, with the reference it resolves. *)
LEMMA LoaderCreate ==
    ASSUME LoaderParameters, Shape, LoadsInv, shared.loads # None, NEW h \in Hosts, loadPluginImpl(h)
    PROVE  LoadsInv'
<1> DEFINE cfg == shared.loads.cfg
           ref == versionedURL(cfg)
<1>1. CASE ref # None /\ SetsHost(h, [Idle EXCEPT !.at = "get", !.ref = ref])
  <2> DEFINE x == [Idle EXCEPT !.at = "get", !.ref = ref]
  <2>0. ref \in {"plain", "versioned", "digest", None}
    BY Zenon DEF versionedURL
  <2> HIDE DEF ref
  <2>1. x \in Host
    BY <2>0, IdleHost, Zenon DEF Host
  <2>2. x.at = "get" /\ x.ref = ref /\ x.plugin = None
    BY Zenon, IdleHost DEF Host
  <2> HIDE DEF x
  <2>3. HostSound(x)
    BY <2>2, Zenon DEF HostSound, ref
  <2>4. SetsHost(h, x)
    BY Zenon, <1>1 DEF x
  <2> QED  BY Zenon, <2>1, <2>3, <2>4, HostMoves
<1>2. CASE cfg.url = "file" /\ SetsHost(h, [Idle EXCEPT !.at = "open"])
  <2> DEFINE x == [Idle EXCEPT !.at = "open"]
  <2>1. x \in Host
    BY DEF Idle, Host, LoaderParameters
  <2>2. HostSound(x)
    BY Zenon, <1>2 DEF HostSound, Idle
  <2> QED  BY Zenon, <1>2, <2>1, <2>2, HostMoves
<1>3. CASE Fails(h)
  BY Zenon, <1>3, LoaderFails
<1> QED  BY Zenon, <1>1, <1>2, <1>3 DEF loadPluginImpl, L

(* The manifest comes from the registry. *)
LEMMA LoaderGet ==
    ASSUME LoaderParameters, Shape, LoadsInv, shared.loads # None, NEW h \in Hosts, Get(h)
    PROVE  LoadsInv'
<1> DEFINE y == shared.loads.host[h]
           x == [y EXCEPT !.at = "stat", !.digest = Names(y.ref)]
<1>0. y \in Host /\ HostSound(y) /\ y.at = "get" /\ shared.loads \in Loads
  BY Zenon DEF LoadsInv, Loads, Get, L
<1>1. CASE SetsHost(h, x)
  <2>1. Names(y.ref) \in Digests
    BY Zenon, <1>0 DEF Names, L, Loads, Digests
  <2>2. x \in Host
    BY <1>0, <2>1, Zenon DEF Host
  <2>3. Pinned(Names(y.ref))
    BY Zenon, <1>0, <2>1 DEF HostSound, Pinned, Names, versionedURL, Loads, Configs
  <2>4. x.at = "stat" /\ x.digest = Names(y.ref) /\ x.plugin = y.plugin
    BY Zenon, <1>0 DEF Host
  <2>5. HostSound(x)
    BY Zenon, <1>0, <2>3, <2>4 DEF HostSound
  <2> QED  BY Zenon, <1>1, <2>2, <2>5, HostMoves
<1>2. CASE Fails(h)
  BY Zenon, <1>2, LoaderFails
<1> QED  BY Zenon, <1>1, <1>2 DEF Get, L

(* A binary that is there already is taken, whoever has put it there. *)
LEMMA LoaderStat ==
    ASSUME LoaderParameters, Shape, LoadsInv, shared.loads # None, NEW h \in Hosts, Stat(h)
    PROVE  LoadsInv'
<1> DEFINE y == shared.loads.host[h]
<1>0. y \in Host /\ HostSound(y) /\ y.at = "stat" /\ shared.loads \in Loads
  BY Zenon DEF LoadsInv, Loads, Stat, L
<1>1. CASE shared.loads.cache[y.digest] # None
  <2> DEFINE x == [y EXCEPT !.at = "open"]
  <2>1. SetsHost(h, x)
    BY Zenon, <1>1 DEF Stat, L
  <2>2. x \in Host /\ x.at = "open" /\ x.digest = y.digest /\ x.plugin = y.plugin
    BY Zenon, <1>0 DEF Host
  <2>3. x.digest # None
    BY <1>0 DEF HostSound, Pinned, LoaderParameters
  <2>4. Pinned(y.digest) /\ (y.plugin # None => y.plugin.whole /\ Asked(y.plugin))
    BY Zenon, <1>0 DEF HostSound
  <2> HIDE DEF x
  <2>5. HostSound(x)
    BY Zenon, <1>1, <2>2, <2>3, <2>4 DEF HostSound
  <2> QED  BY Zenon, <2>1, <2>2, <2>5, HostMoves
<1>2. CASE shared.loads.cache[y.digest] = None
  <2> DEFINE x == [y EXCEPT !.at = "layer", !.layer = Len(shared.loads.image)]
  <2>1. SetsHost(h, x)
    BY Zenon, <1>2 DEF Stat, L
  <2>2. Len(shared.loads.image) \in 0..MaxLayers
    BY Zenon, <1>0, ImageLen DEF Loads
  <2>3. /\ x \in Host /\ x.at = "layer" /\ x.digest = y.digest /\ x.plugin = y.plugin
        /\ x.layer = Len(shared.loads.image)
    BY <1>0, <2>2, Zenon DEF Host
  <2>4. HostSound(x)
    BY <1>0, <2>2, <2>3, SMTT(60) DEF HostSound, LoaderParameters
  <2> QED  BY Zenon, <2>1, <2>3, <2>4, HostMoves
<1> QED  BY Zenon, <1>1, <1>2

(* One layer of the image is looked at. *)
LEMMA LoaderLayer ==
    ASSUME LoaderParameters, Shape, LoadsInv, shared.loads # None, NEW h \in Hosts, extractImageLayer(h)
    PROVE  LoadsInv'
<1> DEFINE y == shared.loads.host[h]
           i == y.layer
           image == shared.loads.image
<1>0. /\ y \in Host /\ HostSound(y) /\ y.at = "layer" /\ shared.loads \in Loads
      /\ i \in Nat /\ Len(image) \in Nat
  <2>1. /\ y \in Host /\ HostSound(y) /\ y.at = "layer" /\ shared.loads \in Loads
        /\ MaxLayers \in Nat
    BY Zenon DEF LoadsInv, Loads, extractImageLayer, L, LoaderParameters
  <2>2. i \in 0..MaxLayers
    BY Zenon, <2>1 DEF Host
  <2>3. Len(image) \in 0..MaxLayers
    BY Zenon, <2>1, ImageLen DEF Loads
  <2> HIDE DEF i, image
  <2>4. i \in Nat /\ Len(image) \in Nat
    BY <2>1, <2>2, <2>3
  <2> QED  BY Zenon, <2>1, <2>4
<1>1. /\ Pinned(y.digest) /\ i <= Len(image)
      /\ \A j \in (i + 1)..Len(image) : image[j] = "none"
      /\ y.plugin # None => y.plugin.whole /\ Asked(y.plugin)
  BY <1>0, Zenon DEF HostSound
<1>2. CASE i > 0 /\ image[i] = "none" /\ SetsHost(h, [y EXCEPT !.layer = i - 1])
  <2> DEFINE x == [y EXCEPT !.layer = i - 1]
  <2>1. i - 1 \in 0..MaxLayers
    BY <1>0, <1>2, SMTT(60) DEF Host, LoaderParameters
  <2>2. /\ x \in Host /\ x.at = "layer" /\ x.digest = y.digest /\ x.plugin = y.plugin
        /\ x.layer = i - 1
    BY Zenon, <1>0, <2>1 DEF Host
  <2>3. \A j \in ((i - 1) + 1)..Len(image) : image[j] = "none"
    BY <1>0, <1>1, <1>2, SMTT(60)
  <2>4. i - 1 <= Len(image)
    BY <1>0, <1>1
  <2> HIDE DEF x, i
  <2>5. HostSound(x)
    BY <1>1, <2>2, <2>3, <2>4, Zenon DEF HostSound
  <2> QED  BY Zenon, <1>2, <2>2, <2>5, HostMoves DEF x
<1>3. CASE /\ i > 0 /\ image[i] = "so"
           /\ SetsHost(h, [y EXCEPT !.at = "copy",
                !.temp = [digest |-> y.digest, layer |-> i, whole |-> FALSE]])
  <2> DEFINE b == [digest |-> y.digest, layer |-> i, whole |-> FALSE]
             x == [y EXCEPT !.at = "copy", !.temp = b]
  <2>1. b \in Binary /\ b.digest = y.digest /\ b.layer = i
    BY Zenon, <1>0 DEF Host, Binary
  <2>2. b # None
    BY <2>1, Zenon DEF LoaderParameters
  <2>3. Visible(image, i)
    BY Zenon, <1>1, <1>3 DEF Visible
  <2> HIDE DEF b
  <2>4. /\ x \in Host /\ x.at = "copy" /\ x.digest = y.digest /\ x.plugin = y.plugin
        /\ x.temp = b
    BY <1>0, <2>1, Zenon DEF Host
  <2> HIDE DEF x, i
  <2>5. HostSound(x)
    BY <1>1, <2>1, <2>2, <2>3, <2>4, Zenon DEF HostSound
  <2>6. SetsHost(h, x)
    BY Zenon, <1>3 DEF x, b
  <2> QED  BY Zenon, <2>4, <2>5, <2>6, HostMoves
<1>4. CASE Fails(h)
  BY Zenon, <1>4, LoaderFails
<1> QED  BY Zenon, <1>2, <1>3, <1>4 DEF extractImageLayer, L

(* The layer is copied to the temporary file, all of it or part. *)
LEMMA LoaderCopy ==
    ASSUME LoaderParameters, Shape, LoadsInv, shared.loads # None, NEW h \in Hosts, Copy(h)
    PROVE  LoadsInv'
<1> DEFINE y == shared.loads.host[h]
           x == [y EXCEPT !.at = "rename", !.temp.whole = TRUE]
<1>0. y \in Host /\ HostSound(y) /\ y.at = "copy"
  BY Zenon DEF LoadsInv, Loads, Copy, L
<1>1. CASE SetsHost(h, x)
  <2>1. /\ Pinned(y.digest) /\ y.temp # None /\ y.temp.digest = y.digest
        /\ Visible(shared.loads.image, y.temp.layer)
        /\ y.plugin # None => y.plugin.whole /\ Asked(y.plugin)
    BY <1>0, Zenon DEF HostSound
  <2>2. y.temp \in Binary
    BY Zenon, <1>0, <2>1 DEF Host
  <2> DEFINE b == [y.temp EXCEPT !.whole = TRUE]
  <2>3. /\ b \in Binary /\ b.whole /\ b.digest = y.temp.digest
        /\ b.layer = y.temp.layer
    BY <2>2, Zenon DEF Binary
  <2>4. b # None
    BY <2>3, Zenon DEF LoaderParameters
  <2>5. x = [y EXCEPT !.at = "rename", !.temp = b]
    BY Zenon, <1>0 DEF Host
  <2> HIDE DEF b, x
  <2>6. /\ x \in Host /\ x.at = "rename" /\ x.digest = y.digest /\ x.plugin = y.plugin
        /\ x.temp = b
    BY <1>0, <2>3, <2>5, Zenon DEF Host
  <2>7. HostSound(x)
    BY <2>1, <2>3, <2>4, <2>6, Zenon DEF HostSound
  <2> QED  BY Zenon, <1>1, <2>6, <2>7, HostMoves
<1>2. CASE Fails(h)
  BY Zenon, <1>2, LoaderFails
<1> QED  BY Zenon, <1>1, <1>2 DEF Copy, L

(* plugin.Open and the lookup of the factories. *)
LEMMA LoaderFactory ==
    ASSUME LoaderParameters, Shape, LoadsInv, shared.loads # None, NEW h \in Hosts, createFactory(h)
    PROVE  LoadsInv'
<1> DEFINE y == shared.loads.host[h]
           d == y.digest
           b == IF d = None THEN [digest |-> None, layer |-> 0, whole |-> TRUE]
                ELSE shared.loads.cache[d]
           x == [Idle EXCEPT !.plugin = b]
<1>0. y \in Host /\ HostSound(y) /\ y.at = "open" /\ shared.loads \in Loads
  BY Zenon DEF LoadsInv, Loads, createFactory, L
<1>1. ASSUME NEW ok \in Compatible(d), StrictCheck(shared.loads.cfg) => ok,
             SetsHost(h, x)
      PROVE  LoadsInv'
  <2>1. b \in Binary /\ b.whole /\ Asked(b)
    <3>1. CASE d = None
      <4>1. shared.loads.cfg.url = "file"
        BY Zenon, <1>0, <3>1 DEF HostSound
      <4>2. b.digest = None /\ b.layer = 0 /\ b.whole = TRUE
        BY Zenon, <3>1
      <4>3. b \in Binary
        BY <3>1 DEF Binary, LoaderParameters
      <4>4. None # "foreign"
        BY Zenon DEF Digests, LoaderParameters
      <4> QED  BY <4>1, <4>2, <4>3, <4>4, Zenon DEF Asked, L
    <3>2. CASE d # None
      <4>1. Pinned(d) /\ shared.loads.cache[d] # None
        BY <1>0, <3>2, Zenon DEF HostSound
      <4>2. b = shared.loads.cache[d] /\ b \in Binary
        BY Zenon, <1>0, <3>2, <4>1 DEF Loads, Pinned
      <4>3. b.whole /\ b.digest = d /\ Visible(shared.loads.image, b.layer)
        BY <4>1, <4>2, Zenon DEF LoadsInv, CacheSound, Pinned
      <4>4. ok = (d = "own")
        BY Zenon, <3>2 DEF Compatible
      <4>5. shared.loads.cfg.strict # FALSE => d # "foreign"
        BY <1>0, <1>1, <4>4, Zenon DEF StrictCheck, Loads, Configs
      <4> QED  BY <4>1, <4>2, <4>3, <4>5, Zenon DEF Asked, L, Pinned
    <3> QED  BY <3>1, <3>2, Zenon
  <2> HIDE DEF b
  <2>2. x \in Host /\ x.at = "idle" /\ x.plugin = b
    BY Zenon, IdleHost, <2>1 DEF Host
  <2> HIDE DEF x
  <2>3. HostSound(x)
    BY <2>1, <2>2, Zenon DEF HostSound
  <2> QED  BY Zenon, <1>1, <2>2, <2>3, HostMoves
<1>2. CASE Fails(h)
  BY Zenon, <1>2, LoaderFails
<1> QED  BY <1>1, <1>2, Zenon DEF createFactory, L

(* The process dies and leaves its temporary file. *)
LEMMA LoaderCrash ==
    ASSUME LoaderParameters, Shape, LoadsInv, shared.loads # None, NEW h \in Hosts, Crash(h)
    PROVE  LoadsInv'
<1>1. HostSound(Idle)
  BY IdleHost, Zenon DEF HostSound
<1> QED  BY Zenon, <1>1, IdleHost, HostMoves DEF Crash

(* The temporary file takes the name other processes look for. *)
LEMMA LoaderRename ==
    ASSUME LoaderParameters, Shape, LoadsInv, shared.loads # None, NEW h \in Hosts, Rename(h)
    PROVE  LoadsInv'
<1> DEFINE y == shared.loads.host[h]
           d == y.digest
           b == y.temp
           x == [y EXCEPT !.at = "open", !.temp = None]
           l == shared.loads
<1>0. y \in Host /\ HostSound(y) /\ y.at = "rename" /\ l \in Loads
  BY Zenon DEF LoadsInv, Loads, Rename, L
<1>1. CASE shared' = [shared EXCEPT !.loads.cache[d] = b, !.loads.host[h].at = "open",
                                    !.loads.host[h].temp = None]
  <2>1. /\ Pinned(d) /\ b # None /\ b.digest = d /\ b.whole
        /\ Visible(l.image, b.layer)
        /\ y.plugin # None => y.plugin.whole /\ Asked(y.plugin)
    BY <1>0, Zenon DEF HostSound
  <2>2. b \in Binary /\ d \in Digests
    BY <1>0, <2>1, Zenon DEF Host, Pinned
  <2>3. shared'.loads = [l EXCEPT !.cache = [l.cache EXCEPT ![d] = b],
                                  !.host = [l.host EXCEPT ![h] = x]]
    BY <1>0, <1>1, <2>2, ZenonT(60) DEF Shape, Loads, Host
  <2>4. /\ shared'.loads.cfg = l.cfg /\ shared'.loads.image = l.image /\ shared'.loads.tag = l.tag
        /\ shared'.loads.cache = [l.cache EXCEPT ![d] = b]
        /\ shared'.loads.host = [l.host EXCEPT ![h] = x]
    BY Zenon, <1>0, <2>3 DEF Loads
  <2>5. /\ x \in Host /\ x.at = "open" /\ x.digest = d /\ x.plugin = y.plugin
    BY <1>0, Zenon DEF Host
  <2>6. \A e \in Digests : shared'.loads.cache[e] = IF e = d THEN b ELSE l.cache[e]
    BY Zenon, <1>0, <2>4 DEF Loads
  <2>7. \A g \in Hosts : shared'.loads.host[g] = IF g = h THEN x ELSE l.host[g]
    BY Zenon, <1>0, <2>4 DEF Loads
  <2> HIDE DEF x, b, d
  <2>8. shared'.loads \in Loads
    <3>1. /\ [l.cache EXCEPT ![d] = b] \in [Digests -> Binary \cup {None}]
          /\ [l.host EXCEPT ![h] = x] \in [Hosts -> Host]
      BY Zenon, <1>0, <2>2, <2>5 DEF Loads
    <3> HIDE DEF l
    <3> QED  BY <1>0, <2>3, <3>1, Zenon DEF Loads
  <2>9. CacheSound'
    <3> SUFFICES ASSUME NEW e \in Digests, shared'.loads.cache[e] # None
                 PROVE  /\ shared'.loads.cache[e].whole /\ shared'.loads.cache[e].digest = e
                        /\ Visible(l.image, shared'.loads.cache[e].layer)
      BY <2>4, Zenon DEF CacheSound
    <3>1. CASE e = d
      BY <2>1, <2>6, <3>1, Zenon
    <3>2. CASE e # d
      BY <2>6, <3>2, Zenon DEF LoadsInv, CacheSound
    <3> QED  BY Zenon, <3>1, <3>2
  <2>10. ASSUME NEW g \in Hosts PROVE HostSound(shared.loads.host[g])'
    <3> DEFINE z == shared'.loads.host[g]
    <3>1. /\ z.at = "get" => z.ref = versionedURL(l.cfg)
          /\ z.at \in {"stat", "layer", "copy", "rename"} => Pinned(z.digest)
          /\ z.at = "layer" =>
               /\ z.layer <= Len(l.image)
               /\ \A j \in (z.layer + 1)..Len(l.image) : l.image[j] = "none"
          /\ z.at \in {"copy", "rename"} =>
               /\ z.temp # None /\ z.temp.digest = z.digest
               /\ Visible(l.image, z.temp.layer)
          /\ z.at = "rename" => z.temp.whole
          /\ z.at = "open" => IF z.digest = None THEN l.cfg.url = "file"
                              ELSE Pinned(z.digest) /\ shared'.loads.cache[z.digest] # None
          /\ z.plugin # None => z.plugin.whole /\ Asked(z.plugin)
      <4>1. CASE g = h
        <5>1. z = x /\ d # None
          BY <2>2, <2>7, <4>1, Zenon DEF LoaderParameters
        <5>2. shared'.loads.cache[d] # None
          BY <2>1, <2>2, <2>6, Zenon
        <5> QED  BY <2>1, <2>5, <5>1, <5>2, Zenon
      <4>2. CASE g # h
        <5>1. z = l.host[g] /\ HostSound(l.host[g])
          BY <2>7, <4>2, Zenon DEF LoadsInv
        <5>2. Pinned(z.digest) /\ l.cache[z.digest] # None => shared'.loads.cache[z.digest] # None
          BY <2>1, <2>6, Zenon DEF Pinned
        <5> QED  BY <5>1, <5>2, ZenonT(60) DEF HostSound
      <4> QED  BY <4>1, <4>2, Zenon
    <3> HIDE DEF z
    <3> QED  BY <3>1, <2>4, ZenonT(60) DEF z, HostSound, Pinned, Asked, L
  <2> QED  BY Zenon, <2>8, <2>9, <2>10 DEF LoadsInv
<1>2. CASE Fails(h)
  BY Zenon, <1>2, LoaderFails
<1> QED  BY <1>1, <1>2, Zenon DEF Rename, L

(* A tag is pushed again; digests keep naming what they named. *)
LEMMA LoaderMoveTag ==
    ASSUME LoaderParameters, Shape, LoadsInv, shared.loads # None, MoveTag
    PROVE  LoadsInv'
<1> DEFINE l == shared.loads
<1>1. PICK d \in Digests : shared' = [shared EXCEPT !.loads.tag = d]
  BY Zenon DEF MoveTag
<1>2. l \in Loads
  BY Zenon DEF LoadsInv
<1>3. shared'.loads = [l EXCEPT !.tag = d]
  BY Zenon, <1>1 DEF Shape
<1>4. /\ shared'.loads \in Loads
      /\ shared'.loads.cfg = l.cfg /\ shared'.loads.image = l.image
      /\ shared'.loads.cache = l.cache /\ shared'.loads.host = l.host
  BY Zenon, <1>2, <1>3 DEF Loads
<1>5. CacheSound'
  BY <1>4, Zenon DEF LoadsInv, CacheSound
<1>6. ASSUME NEW h \in Hosts PROVE HostSound(shared.loads.host[h])'
  <2>1. HostSound(shared.loads.host[h])
    BY Zenon DEF LoadsInv
  <2>2. shared'.loads.host[h] = shared.loads.host[h]
    BY <1>4, Zenon
  <2>3. PICK x : x = shared.loads.host[h]
    OBVIOUS
  <2>4. HostSound(x)
    BY <2>1, <2>3, Zenon
  <2>5. HostSound(x)'
    BY <2>4, <1>4, ZenonT(60) DEF HostSound, Pinned, Asked, L
  <2> QED  BY <2>2, <2>3, <2>5, Zenon DEF HostSound
<1> QED  BY Zenon, <1>4, <1>5, <1>6 DEF LoadsInv

(* Every step of the loader. *)
LEMMA LoaderKeeps ==
    ASSUME LoaderParameters, Shape, LoadsInv, LoaderStep
    PROVE  LoadsInv'
  BY Zenon, LoaderCreate, LoaderGet, LoaderStat, LoaderLayer, LoaderCopy, LoaderRename, LoaderFactory,
     LoaderCrash, LoaderMoveTag DEF LoaderStep, Loading, L

(* No plugin is loaded yet. *)
LEMMA LoaderStarts ==
    ASSUME LoaderParameters, shared.loads \in NothingLoaded
    PROVE  LoadsInv
<1> DEFINE l == shared.loads
<1>1. /\ l \in [cfg : Configs, image : Images, tag : {"own"},
                cache : {[d \in Digests |-> None]}, host : {[h \in Hosts |-> Idle]}]
  BY Zenon DEF NothingLoaded
<1>2. /\ l.cfg \in Configs /\ l.image \in Images /\ l.tag \in Digests
      /\ l.cache = [d \in Digests |-> None] /\ l.host = [h \in Hosts |-> Idle]
      /\ l = [cfg |-> l.cfg, image |-> l.image, tag |-> l.tag, cache |-> l.cache, host |-> l.host]
  BY Zenon, <1>1 DEF Digests
<1> HIDE DEF l
<1>3. l.cache \in [Digests -> Binary \cup {None}] /\ l.host \in [Hosts -> Host]
  BY Zenon, <1>2, IdleHost
<1>4. l \in Loads
  BY Zenon, <1>2, <1>3 DEF Loads
<1>5. CacheSound
  BY Zenon, <1>2 DEF CacheSound, l
<1>6. ASSUME NEW h \in Hosts PROVE HostSound(shared.loads.host[h])
  <2>1. shared.loads.host[h] = Idle
    BY Zenon, <1>2 DEF l
  <2>2. HostSound(Idle)
    BY IdleHost, Zenon DEF HostSound
  <2> QED  BY <2>1, <2>2, Zenon
<1> QED  BY Zenon, <1>4, <1>5, <1>6 DEF LoadsInv, l

(* The invariant implies what the runs check. *)
LEMMA LoadsSound ==
    ASSUME LoaderParameters, LoadsInv
    PROVE  PluginsSound
<1> SUFFICES ASSUME shared.loads # None 
             PROVE  Whole /\ \A h \in Hosts : LET p == L.host[h].plugin IN p # None => Asked(p)
  BY Zenon DEF PluginsSound, Loading, L
<1>1. CacheSound /\ \A h \in Hosts : HostSound(shared.loads.host[h])
  BY Zenon DEF LoadsInv
<1>2. \A h \in Hosts : LET p == shared.loads.host[h].plugin IN
          p # None => p.whole /\ Asked(p)
  BY <1>1, Zenon DEF HostSound
<1> QED  BY <1>1, <1>2, Zenon DEF CacheSound, Whole, L

(* Nothing else of what is shared changes. *)
LEMMA LoaderFrame ==
    ASSUME LoaderParameters, Shape, LoaderStep
    PROVE  Shape'
<1>1. ASSUME NEW h, NEW x, SetsHost(h, x) PROVE Shape'
  BY Zenon, <1>1 DEF SetsHost, Shape
<1>2. ASSUME NEW h, Fails(h) PROVE Shape'
  BY Zenon, <1>1, <1>2 DEF Fails
<1>3. ASSUME MoveTag PROVE Shape'
  BY Zenon, <1>3 DEF MoveTag, Shape
<1>4. ASSUME NEW h, loadPluginImpl(h) PROVE Shape'
  BY <1>1, <1>2, <1>4, Zenon DEF loadPluginImpl
<1>5. ASSUME NEW h, Get(h) PROVE Shape'
  BY <1>1, <1>2, <1>5, Zenon DEF Get
<1>6. ASSUME NEW h, Stat(h) PROVE Shape'
  BY <1>1, <1>2, <1>6, Zenon DEF Stat
<1>7. ASSUME NEW h, extractImageLayer(h) PROVE Shape'
  BY <1>1, <1>2, <1>7, Zenon DEF extractImageLayer
<1>8. ASSUME NEW h, Copy(h) PROVE Shape'
  BY <1>1, <1>2, <1>8, Zenon DEF Copy
<1>9. ASSUME NEW h, Rename(h) PROVE Shape'
  <2>1. CASE Fails(h)
    BY <1>2, <2>1, Zenon
  <2>2. CASE shared' = [shared EXCEPT
            !.loads.cache[shared.loads.host[h].digest] = shared.loads.host[h].temp,
            !.loads.host[h].at = "open", !.loads.host[h].temp = None]
    BY <2>2, Zenon DEF Shape
  <2> QED  BY <1>9, <2>1, <2>2, Zenon DEF Rename, L
<1>10. ASSUME NEW h, createFactory(h) PROVE Shape'
  BY <1>1, <1>2, <1>10, Zenon DEF createFactory
<1>11. ASSUME NEW h, Crash(h) PROVE Shape'
  BY <1>1, <1>11, Zenon DEF Crash
<1> QED  BY <1>3, <1>4, <1>5, <1>6, <1>7, <1>8, <1>9, <1>10, <1>11, Zenon DEF LoaderStep

LoaderInv == Shape /\ LoadsInv

(***************************************************************************)
(* The plugin loader opens only whole binaries that are what was asked     *)
(* for, for any number of processes that share the cache directory, fail   *)
(* and die, and images of any number of layers.                            *)
(***************************************************************************)
THEOREM PluginsStaySound == ASSUME LoaderParameters PROVE LoaderSpec => []PluginsSound
<1>1. LoaderInit => LoaderInv
  <2> SUFFICES ASSUME LoaderInit PROVE LoaderInv
    OBVIOUS
  <2>1. PICK l \in NothingLoaded : shared = [Unshared EXCEPT !.loads = l]
    BY Zenon DEF LoaderInit
  <2>2. shared.loads = l /\ Shape
    BY Zenon, <2>1 DEF Unshared, Shape
  <2> QED  BY Zenon, <2>2, LoaderStarts DEF LoaderInv
<1>2. LoaderInv /\ [LoaderStep]_vars => LoaderInv'
  <2> SUFFICES ASSUME LoaderInv, [LoaderStep]_vars PROVE LoaderInv'
    OBVIOUS
  <2>1. CASE LoaderStep
    BY Zenon, <2>1, LoaderKeeps, LoaderFrame DEF LoaderInv
  <2>2. CASE UNCHANGED vars
    <3>1. shared' = shared
      BY Zenon, <2>2 DEF vars
    <3>2. Shape' /\ CacheSound' = CacheSound
      BY <3>1, Zenon DEF LoaderInv, Shape, CacheSound
    <3>3. ASSUME NEW h \in Hosts PROVE HostSound(shared.loads.host[h])' = HostSound(shared.loads.host[h])
      BY <3>1, ZenonT(60) DEF HostSound, Pinned, Asked, L
    <3> QED  BY <3>1, <3>2, <3>3, Zenon DEF LoaderInv, LoadsInv
  <2> QED  BY Zenon, <2>1, <2>2
<1>3. LoaderInv => PluginsSound
  BY Zenon, LoadsSound DEF LoaderInv
<1> QED  BY <1>1, <1>2, <1>3, PTL DEF LoaderSpec

===============================================================================
