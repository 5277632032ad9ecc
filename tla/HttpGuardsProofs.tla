--------------------------- MODULE HttpGuardsProofs ---------------------------
(***************************************************************************)
(* No guard lets anything pass that it has not approved, none resumes a    *)
(* message twice, decisions are counted once and the WAF's transactions    *)
(* live as long as they are used: for any number of streams, body chunks,  *)
(* guardrails and attempts.  The invariant has one part for each plugin,   *)
(* about the filter of a stream and the stream's messages (OpaSound to     *)
(* SamlSound), and one about the sessions that streams share (Sessions).   *)
(* A part says what the plugin has decided when a message has a certain    *)
(* extent: that is what a callback relies on when it continues a message   *)
(* whose decision an earlier one has taken.                                *)
(***************************************************************************)
EXTENDS HttpGuards, ContentGuardsProofs

OpaSound(f, m) ==
    /\ f \in OpaFilters
    /\ ~m.spurious
    /\ f.requestProcessed <=> f.decision # None
    /\ m.req.at = "idle" => ~f.requestProcessed
    /\ f.requestProcessed /\ m.reply = None => OpaApproved(f)
    /\ m.req.seen => OpaApproved(f)
    /\ Len(f.counted) = IF f.decision = None \/ (f.dryRun /\ f.decision = "allow") THEN 0 ELSE 1

(* The callbacks of opa. *)
LEMMA OpaKeeps ==
    \A s \in Streams :
        Streamed /\ OpaSound(filter[s], stream[s])
          /\ (OpaOnRequestHeaders(s) \/ OpaOnRequestBody(s) \/ OpaOnRequestTrailers(s)) =>
          OnlyStream(s) /\ OpaSound(filter'[s], stream'[s]) /\ shared' = shared
  (* Every verdict is counted once, unless a dry run allows, and passes only *)
  (* what is approved.                                                       *)
  <1>1. ASSUME NEW f \in OpaFilters, ~f.requestProcessed, f.decision = None, Len(f.counted) = 0,
               NEW stop \in {"Stop", "StopNoBuffer"}, NEW o \in Verdicts(f, stop)
        PROVE  /\ o.f \in OpaFilters /\ o.f.requestProcessed /\ o.f.decision # None
               /\ Len(o.f.counted) = IF o.f.dryRun /\ o.f.decision = "allow" THEN 0 ELSE 1
               /\ \/ o.status = "Continue" /\ o.reply = None /\ OpaApproved(o.f)
                  \/ o.status = stop /\ o.reply \in Nat
    <2> USE <1>1
    <2>1. PICK d \in {"allow", "deny", "error"} :
            LET v == OpaDecide([f EXCEPT !.requestProcessed = TRUE, !.decision = d], d)
            IN  o = IF v.pass THEN Returns("Continue", v.f) ELSE Replies(stop, v.reply, v.f)
      BY Zenon DEF Verdicts, evaluateAndDecide, Returns, Replies
    <2> DEFINE g == [f EXCEPT !.requestProcessed = TRUE, !.decision = d]
    <2>2. /\ g \in OpaFilters /\ g.requestProcessed /\ g.decision = d /\ Len(g.counted) = 0
      BY Zenon DEF OpaFilters
    <2>3. ASSUME NEW tag \in {"allowed", "denied", "failopen", "dryrun_allow"}
          PROVE  LET h == OpaCount(g, tag)
                 IN  /\ h \in OpaFilters /\ h.requestProcessed /\ h.decision = d /\ Len(h.counted) = 1
                     /\ h.dryRun = g.dryRun /\ h.failOpen = g.failOpen
      <3> DEFINE h == OpaCount(g, tag)
      <3> HIDE DEF g
      <3>1. h = [g EXCEPT !.counted = Append(g.counted, tag)]
        BY Zenon DEF OpaCount
      <3>2. /\ Append(g.counted, tag) \in Seq({"allowed", "denied", "failopen", "dryrun_allow"})
            /\ Len(Append(g.counted, tag)) = 1
        BY <2>2 DEF OpaFilters
      <3> HIDE DEF h
      <3>3. h \in OpaFilters
        BY Zenon, <2>2, <3>1, <3>2 DEF OpaFilters
      <3>4. h.requestProcessed /\ h.decision = d /\ Len(h.counted) = 1
                     /\ h.dryRun = g.dryRun /\ h.failOpen = g.failOpen
        BY Zenon, <2>2, <3>1, <3>2 DEF OpaFilters
      <3> QED BY Zenon, <3>3, <3>4 DEF h
    <2> HIDE DEF g
    <2> DEFINE v == OpaDecide(g, d)
    <2>4. /\ v.f \in OpaFilters /\ v.f.requestProcessed /\ v.f.decision = d
          /\ Len(v.f.counted) = IF v.f.dryRun /\ d = "allow" THEN 0 ELSE 1
          /\ \/ v.pass = TRUE /\ v.reply = None /\ OpaApproved(v.f)
             \/ v.pass = FALSE /\ v.reply \in Nat
      <3>1. CASE d = "allow"
        <4>1. CASE g.dryRun
          <5>1. v.f = g /\ v.pass = TRUE /\ v.reply = None
            BY Zenon, <3>1, <4>1 DEF OpaDecide
          <5> HIDE DEF v
          <5> QED BY <3>1, <4>1, <5>1, <2>2 DEF OpaApproved
        <4>2. CASE ~g.dryRun
          <5>1. v.f = OpaCount(g, "allowed") /\ v.pass = TRUE /\ v.reply = None
            BY ZenonT(60), <3>1, <4>2 DEF OpaDecide
          <5> HIDE DEF v
          <5> QED BY <3>1, <4>2, <5>1, <2>3, Zenon DEF OpaApproved
        <4> QED BY <4>1, <4>2, Zenon
      <3>2. CASE d = "deny"
        BY <2>2, <2>3, <3>2, SMTT(60) DEF OpaDecide, OpaApproved
      <3>3. CASE d = "error"
        BY <2>2, <2>3, <3>3 DEF OpaDecide, OpaApproved
      <3> QED BY <3>1, <3>2, <3>3, Zenon
    <2> HIDE DEF v
    <2> QED
      BY Zenon, <2>1, <2>4, OpaAssumption DEF Returns, Replies, g, v
  (* The filter either waits for more or has decided. *)
  <1>2. ASSUME NEW f, NEW m, NEW n, OpaSound(f, m), NEW o, Outcome(o), Moved(m, n, "req", o),
               \/ ~f.requestProcessed /\ o.f = f /\ o.status # "Continue" /\ o.reply = None
               \/ f.requestProcessed /\ o.f = f /\ o.status = "Continue" /\ o.reply = None
               \/ ~f.requestProcessed /\ \E stop \in {"Stop", "StopNoBuffer"} : o \in Verdicts(f, stop)
        PROVE  OpaSound(o.f, n)
    <2> USE <1>2
    <2>1. /\ ~n.spurious /\ n.req.at # "idle" /\ n.reply = o.reply /\ m.reply = None
          /\ (n.req.seen <=> m.req.seen \/ o.status = "Continue")
      BY Zenon DEF Moved, OpaSound
    <2>2. CASE o.f = f /\ o.reply = None /\ (o.status = "Continue" => f.requestProcessed)
      BY Zenon, <2>1, <2>2 DEF OpaSound, OpaApproved
    <2>3. CASE ~f.requestProcessed /\ \E stop \in {"Stop", "StopNoBuffer"} : o \in Verdicts(f, stop)
      <3>1. PICK stop \in {"Stop", "StopNoBuffer"} : o \in Verdicts(f, stop)
        BY Zenon, <2>3
      <3>2. f \in OpaFilters /\ ~f.requestProcessed /\ f.decision = None /\ Len(f.counted) = 0 /\ ~m.req.seen
        BY ZenonT(60), <2>3, OpaAssumption DEF OpaSound, OpaApproved
      <3>3. /\ o.f \in OpaFilters /\ o.f.requestProcessed /\ o.f.decision # None
            /\ Len(o.f.counted) = IF o.f.dryRun /\ o.f.decision = "allow" THEN 0 ELSE 1
            /\ \/ o.status = "Continue" /\ o.reply = None /\ OpaApproved(o.f)
               \/ o.status = stop /\ o.reply \in Nat
        BY <3>1, <3>2, <1>1 DEF OpaApproved
      <3> QED  BY Zenon, <2>1, <3>2, <3>3, NoneAssumption DEF OpaSound, OpaApproved
    <2> QED  BY Zenon, <2>2, <2>3
  (* The callbacks of opa. *)
  <1>3. ASSUME Streamed, NEW s \in Streams, OpaSound(filter[s], stream[s]),
               OpaOnRequestHeaders(s) \/ OpaOnRequestBody(s) \/ OpaOnRequestTrailers(s)
        PROVE  OnlyStream(s) /\ OpaSound(filter'[s], stream'[s]) /\ shared' = shared
    <2> USE <1>3
    <2> DEFINE f == filter[s]
               Decides(o) ==
                 \/ ~f.requestProcessed /\ o.f = f /\ o.status # "Continue" /\ o.reply = None
                 \/ f.requestProcessed /\ o.f = f /\ o.status = "Continue" /\ o.reply = None
                 \/ ~f.requestProcessed /\ \E stop \in {"Stop", "StopNoBuffer"} : o \in Verdicts(f, stop)
    <2>1. f \in OpaFilters /\ (~f.requestProcessed => f.decision = None /\ Len(f.counted) = 0)
      BY Zenon, OpaAssumption DEF OpaSound
    <2>2. ASSUME NEW o, Decides(o), o.status \in Status
          PROVE  Outcome(o)
      BY Zenon, <2>1, <2>2, <1>1 DEF Outcome
    <2>3. ASSUME NEW o, Decides(o), Moved(stream[s], stream'[s], "req", o), filter'[s] = o.f, Outcome(o)
          PROVE  OpaSound(filter'[s], stream'[s])
      BY Zenon, <2>3, <1>2
    <2>4. ASSUME NEW o, o = Returns("Stop", f) \/ o = Returns("StopAndBuffer", f),
                 ~f.requestProcessed
          PROVE  Decides(o) /\ o.status \in Status
      BY <2>4 DEF Returns, Status
    <2>5. ASSUME NEW o, o = Returns("Continue", f), f.requestProcessed
          PROVE  Decides(o) /\ o.status \in Status
      BY Zenon, <2>5 DEF Returns, Status
    <2>6. ASSUME NEW stop \in {"Stop", "StopNoBuffer"}, NEW o \in Verdicts(f, stop), ~f.requestProcessed
          PROVE  Decides(o) /\ o.status \in Status
      BY <2>1, <2>6, <1>1 DEF Status
    <2>7. CASE OpaOnRequestHeaders(s)
      <3>1. PICK end \in BOOLEAN : OnHeaders(s, "req", end,
               IF f.withBody /\ ~end THEN {Returns("Stop", f)} ELSE Verdicts(f, "Stop"))
        BY <2>7, Zenon DEF OpaOnRequestHeaders
      <3> DEFINE outs == IF f.withBody /\ ~end THEN {Returns("Stop", f)} ELSE Verdicts(f, "Stop")
      <3>2. HeadersFrame(s, "req", end, outs) /\ shared' = shared
        BY <3>1, Zenon DEF OnHeaders
      <3>3. stream[s].req.at = "idle" /\ ~f.requestProcessed
        BY Zenon, <3>2 DEF HeadersFrame, OpaSound
      <3>4. \A o \in outs : Decides(o) /\ Outcome(o)
        BY <2>2, <2>4, <2>6, <3>3, Zenon
      <3> HIDE DEF outs, Decides
      <3>5. OnlyStream(s) /\ \E o \in outs : filter'[s] = o.f /\ Moved(stream[s], stream'[s], "req", o)
        BY <3>2, <3>4, OnHeadersMoves
      <3> QED  BY <2>3, <3>2, <3>4, <3>5, Zenon
    <2>8. CASE OpaOnRequestBody(s)
      <3> DEFINE Outs(end) == IF f.requestProcessed THEN {Returns("Continue", f)}
           ELSE IF ~end THEN {Returns("StopAndBuffer", f)}
           ELSE Verdicts(f, "StopNoBuffer")
      <3>1. PICK end \in BOOLEAN : BodyFrame(s, "req", end, Outs(end)) /\ shared' = shared
        BY <2>8, Zenon DEF OnBody, OpaOnRequestBody
      <3>2. \A o \in Outs(end) : Decides(o) /\ Outcome(o)
        BY <2>2, <2>4, <2>5, <2>6, Zenon
      <3> HIDE DEF Outs, Decides
      <3>3. OnlyStream(s) /\ \E o \in Outs(end) : filter'[s] = o.f /\ Moved(stream[s], stream'[s], "req", o)
        BY Zenon, <3>1, <3>2, OnBodyMoves
      <3> QED  BY <2>3, <3>1, <3>2, <3>3, Zenon
    <2>9. CASE OpaOnRequestTrailers(s)
      <3> DEFINE outs == IF f.requestProcessed THEN {Returns("Continue", f)}
           ELSE Verdicts(f, "Stop")
      <3>1. TrailersFrame(s, "req", outs) /\ shared' = shared
        BY <2>9, Zenon DEF OnTrailers, OpaOnRequestTrailers
      <3>2. \A o \in outs : Decides(o) /\ Outcome(o)
        BY <2>2, <2>4, <2>5, <2>6, Zenon
      <3> HIDE DEF outs, Decides
      <3>3. OnlyStream(s) /\ \E o \in outs : filter'[s] = o.f /\ Moved(stream[s], stream'[s], "req", o)
        BY Zenon, <3>1, <3>2, OnTrailersMoves
      <3> QED  BY <2>3, <3>1, <3>2, <3>3, Zenon
    <2> QED  BY Zenon, <2>7, <2>8, <2>9
  <1> QED  BY Zenon, <1>3

CedarSound(f, m) ==
    /\ f \in CedarFilters /\ ~m.spurious
    /\ m.req.at = "idle" => f.decision = None
    /\ m.req.seen => CedarApproved(f)
    /\ Len(f.counted) = IF f.decision = None \/ (f.dryRun /\ f.decision = "allow") THEN 0 ELSE 1

(* An outcome that counts its decision, and passes what it approves. *)
CedarOut(o) ==
    /\ o.f \in CedarFilters /\ Outcome(o) /\ o.f.decision # None
    /\ Len(o.f.counted) = IF o.f.dryRun /\ o.f.decision = "allow" THEN 0 ELSE 1
    /\ o.status = "Continue" => CedarApproved(o.f)

(* The callback of cedar. *)
LEMMA CedarKeeps ==
    \A s \in Streams :
        Streamed /\ CedarSound(filter[s], stream[s]) /\ CedarOnRequestHeaders(s) =>
          OnlyStream(s) /\ CedarSound(filter'[s], stream'[s]) /\ shared' = shared
  (* A decision of cedar is counted once and passes only what is approved. *)
  <1>1. ASSUME NEW f \in CedarFilters, Len(f.counted) = 0,
               NEW d \in {"norequest", "error", "deny", "allow"},
               NEW o, o = CedarDecide([f EXCEPT !.decision = d], d)
        PROVE  CedarOut(o)
    <2> USE <1>1
    <2> DEFINE g == [f EXCEPT !.decision = d]
               Tags == {"allowed", "denied", "failopen", "dryrun_allow"}
    <2>1. /\ g \in CedarFilters /\ g.decision = d /\ Len(g.counted) = 0 /\ g.counted \in Seq(Tags)
          /\ g.dryRun = f.dryRun /\ g.failOpen = f.failOpen
      BY Zenon DEF CedarFilters
    <2> HIDE DEF g
    <2>2. ASSUME NEW tag \in Tags
          PROVE  LET h == CedarCount(g, tag)
                 IN  /\ h \in CedarFilters /\ h.decision = d /\ Len(h.counted) = 1
                     /\ h.dryRun = g.dryRun /\ h.failOpen = g.failOpen
      <3> HIDE DEF Tags
      <3>0. Append(g.counted, tag) \in Seq(Tags) /\ Len(Append(g.counted, tag)) = Len(g.counted) + 1
        BY <2>1, OneMore, Zenon
      <3>1. PICK q \in Seq(Tags) : q = Append(g.counted, tag) /\ Len(q) = 0 + 1
        BY <2>1, <3>0, Zenon
      <3>2. CedarCount(g, tag) = [g EXCEPT !.counted = q]
        BY Zenon, <3>1 DEF CedarCount
      <3> QED  BY <2>1, <3>1, <3>2 DEF CedarFilters, Tags
    <2>3. o = CedarDecide(g, d)
      BY Zenon DEF g
    <2>0. d # None
      BY Zenon, CedarAssumption
    <2>4. g.dryRun \in BOOLEAN /\ g.failOpen \in BOOLEAN
      BY Zenon, <2>1 DEF CedarFilters
    <2>5. CASE o = Returns("Continue", g) /\ g.dryRun /\ d = "allow"
      <3>1. o.f = g /\ o.status = "Continue" /\ o.reply = None
        BY <2>5 DEF Returns
      <3> QED  BY <2>0, <2>1, <2>5, <3>1 DEF CedarOut, Outcome, Status, CedarApproved
    <2>6. CASE \E tag \in Tags : /\ o = Returns("Continue", CedarCount(g, tag))
                                 /\ ~(g.dryRun /\ d = "allow")
                                 /\ d = "allow" \/ (g.dryRun /\ d = "deny") \/ (g.failOpen /\ d \in {"error", "norequest"})
      <3>1. PICK tag \in Tags : o = Returns("Continue", CedarCount(g, tag))
        BY Zenon, <2>6
      <3>2. PICK h : h = CedarCount(g, tag)
        BY Zenon
      <3>3. /\ h \in CedarFilters /\ h.decision = d /\ Len(h.counted) = 1
            /\ h.dryRun = g.dryRun /\ h.failOpen = g.failOpen
        BY Zenon, <2>2, <3>2
      <3>4. o.status = "Continue" /\ o.reply = None /\ o.f = h
        BY <3>1, <3>2 DEF Returns
      <3> QED  BY <2>0, <2>6, <3>3, <3>4, Zenon DEF CedarOut, Outcome, Status, CedarApproved
    <2>7. CASE \E tag \in Tags, code \in Nat : /\ o = Replies("Stop", code, CedarCount(g, tag))
                                               /\ ~(g.dryRun /\ d = "allow")
      <3>1. PICK tag \in Tags, code \in Nat : o = Replies("Stop", code, CedarCount(g, tag))
        BY <2>7, Zenon
      <3>2. PICK h : h = CedarCount(g, tag)
        BY Zenon
      <3>3. /\ h \in CedarFilters /\ h.decision = d /\ Len(h.counted) = 1
            /\ h.dryRun = g.dryRun /\ h.failOpen = g.failOpen
        BY Zenon, <2>2, <3>2
      <3>4. o.status = "Stop" /\ o.reply = code /\ o.f = h
        BY <3>1, <3>2 DEF Replies
      <3> QED  BY <2>0, <2>7, <3>3, <3>4, Zenon DEF CedarOut, Outcome, Status
    <2>8. 403 \in Nat /\ 500 \in Nat
      OBVIOUS
    <2>9. CASE d = "allow"
      BY <2>3, <2>4, <2>5, <2>6, <2>9, ZenonT(60) DEF CedarDecide
    <2>10. CASE d = "deny"
      BY <2>3, <2>4, <2>6, <2>7, <2>8, <2>10 DEF CedarDecide
    <2>11. CASE d \in {"norequest", "error"}
      BY <2>3, <2>4, <2>6, <2>7, <2>8, <2>11 DEF CedarDecide
    <2> QED  BY <2>9, <2>10, <2>11, Zenon
  (* The callback of cedar. *)
  <1>2. ASSUME Streamed, NEW s \in Streams, CedarSound(filter[s], stream[s]), CedarOnRequestHeaders(s)
        PROVE  OnlyStream(s) /\ CedarSound(filter'[s], stream'[s]) /\ shared' = shared
    <2> USE <1>2
    <2> DEFINE f == filter[s]
               m == stream[s]
               n == stream'[s]
               Outs == {CedarDecide([f EXCEPT !.decision = d], d) : d \in {"norequest", "error", "deny", "allow"}}
    <2>1. PICK end \in BOOLEAN : HeadersFrame(s, "req", end, Outs) /\ shared' = shared
      BY Zenon DEF CedarOnRequestHeaders, OnHeaders
    <2>2. /\ m.req.at = "idle" /\ f \in CedarFilters /\ f.decision = None /\ Len(f.counted) = 0
          /\ ~m.req.seen /\ ~m.spurious
      BY Zenon, <2>1, CedarAssumption DEF HeadersFrame, CedarSound, CedarApproved
    <2>3. \A o \in Outs : CedarOut(o)
      BY Zenon, <2>2, <1>1
    <2> HIDE DEF Outs
    <2>4. /\ OnlyStream(s) /\ n.req.at # "idle"
          /\ \E o \in Outs : filter'[s] = o.f /\ Moved(m, n, "req", o)
      BY <2>1, <2>3, OnHeadersMoves DEF CedarOut
    <2>5. PICK o \in Outs : filter'[s] = o.f /\ Moved(m, n, "req", o)
      BY Zenon, <2>4
    <2>6. ~n.spurious /\ (n.req.seen <=> o.status = "Continue")
      BY <2>2, <2>5, Zenon DEF Moved
    <2>7. CedarSound(filter'[s], n)
      BY <2>3, <2>4, <2>5, <2>6 DEF CedarSound, CedarOut
    <2> QED  BY Zenon, <2>1, <2>4, <2>7
  <1> QED  BY Zenon, <1>2

OpenFgaSound(f, m) ==
    /\ f \in OpenFgaFilters /\ ~m.spurious
    /\ m.req.at = "idle" => ~m.req.seen /\ ~f.callout /\ f.decision = None
    /\ f.callout => f.decision = None /\ m.req.at # "idle" /\ m.req.flow = "all"
    /\ f.counted = IF f.decision = None THEN << >> ELSE <<f.metadata>>
    /\ m.req.seen => OpenFgaApproved(f)

(* A decision was taken and recorded. *)
OpenFgaSettled(f) ==
    /\ f \in OpenFgaFilters /\ ~f.callout /\ f.decision # None /\ f.counted = <<f.metadata>>

(* What OnRequestHeaders comes to. *)
OpenFgaOut(o) ==
    /\ Outcome(o)
    /\ \/ OpenFgaSettled(o.f) /\ (o.status = "Continue" => OpenFgaApproved(o.f))
       \/ /\ o.status = "StopAllAndBuffer" /\ o.f \in OpenFgaFilters /\ o.f.callout
          /\ o.f.decision = None /\ o.f.counted = << >>

(* The first element of a sequence. *)
LEMMA First ==
    ASSUME NEW S, NEW e \in S, NEW q, q = << >>
    PROVE  Append(q, e) = <<e>> /\ <<e>> \in Seq(S)
  OBVIOUS

(* The callback and the callout of openfga. *)
LEMMA OpenFgaKeeps ==
    \A s \in Streams :
        Streamed /\ OpenFgaSound(filter[s], stream[s])
          /\ (OpenFgaOnRequestHeaders(s) \/ OpenFgaOnHttpCalloutDone(s)) =>
          OnlyStream(s) /\ OpenFgaSound(filter'[s], stream'[s]) /\ shared' = shared
  (* recordDecision counts the decision that it puts into the metadata. *)
  <1>1. ASSUME NEW f \in OpenFgaFilters, f.counted = << >>, ~f.callout, NEW d \in OpenFgaDecisions,
               NEW x \in {"allow", "deny", "unmatched", "error"}, f.decision = x
        PROVE  LET g == Record(f, d)
               IN  /\ OpenFgaSettled(g) /\ g.decision = x
                   /\ g.dryRun = f.dryRun /\ g.failOpen = f.failOpen
    <2> USE <1>1
    <2> DEFINE g == Record(f, d)
    <2>1. PICK q \in Seq(OpenFgaDecisions) : q = Append(f.counted, d) /\ q = <<d>>
      BY First, Zenon
    <2>2. g = [f EXCEPT !.metadata = d, !.counted = q]
      BY Zenon, <2>1 DEF Record
    <2>3. x # None
      BY Zenon, OpenFgaAssumption
    <2> HIDE DEF g
    <2>4. /\ g \in OpenFgaFilters /\ g.metadata = d /\ g.counted = <<d>> /\ ~g.callout /\ g.decision = x
          /\ g.dryRun = f.dryRun /\ g.failOpen = f.failOpen
      BY <2>1, <2>2, Zenon DEF OpenFgaFilters
    <2> QED  BY Zenon, <2>3, <2>4 DEF OpenFgaSettled, g
  (* Denials and errors that need no callout. *)
  <1>2. ASSUME NEW g \in OpenFgaFilters, g.counted = << >>, ~g.callout,
               NEW x \in {"unmatched", "error"}, g.decision = x,
               NEW o, o = handleDeny(g) \/ o = handleCalloutError(g)
        PROVE  OpenFgaOut(o)
    <2> USE <1>2
    <2>1. ASSUME NEW d \in OpenFgaDecisions, o = Returns("Continue", Record(g, d)), g.dryRun \/ g.failOpen
          PROVE  OpenFgaOut(o)
      <3>1. PICK h : h = Record(g, d)
        BY Zenon
      <3>2. OpenFgaSettled(h) /\ h.decision = x /\ h.dryRun = g.dryRun /\ h.failOpen = g.failOpen
        BY Zenon, <3>1, <1>1
      <3>3. o.status = "Continue" /\ o.reply = None /\ o.f = h
        BY Zenon, <2>1, <3>1 DEF Returns
      <3>4. OpenFgaApproved(h)
        BY <2>1, <3>2, Zenon DEF OpenFgaApproved
      <3> QED  BY <3>2, <3>3, <3>4, Zenon DEF OpenFgaOut, Outcome, Status
    <2>2. ASSUME NEW d \in OpenFgaDecisions, NEW code \in Nat, o = Replies("Stop", code, Record(g, d))
          PROVE  OpenFgaOut(o)
      <3>1. PICK h : h = Record(g, d)
        BY Zenon
      <3>2. OpenFgaSettled(h)
        BY Zenon, <3>1, <1>1
      <3>3. o.status = "Stop" /\ o.reply = code /\ o.f = h
        BY Zenon, <2>2, <3>1 DEF Replies
      <3> QED  BY Zenon, <3>2, <3>3 DEF OpenFgaOut, Outcome, Status
    <2>3. 403 \in Nat /\ 502 \in Nat
      OBVIOUS
    <2> QED  BY <2>1, <2>2, <2>3, ZenonT(60) DEF handleDeny, handleCalloutError, OpenFgaDecisions
  (* The headers settle the decision or wait for the callout. *)
  <1>3. ASSUME NEW f \in OpenFgaFilters, f.counted = << >>, ~f.callout, f.decision = None,
               NEW o \in {handleDeny([f EXCEPT !.decision = "unmatched"]),
                          handleCalloutError([f EXCEPT !.decision = "error"]),
                          Returns("StopAllAndBuffer", [f EXCEPT !.callout = TRUE])}
        PROVE  OpenFgaOut(o)
    <2> USE <1>3
    <2>1. ASSUME NEW x \in {"unmatched", "error"}, NEW g, g = [f EXCEPT !.decision = x]
          PROVE  g \in OpenFgaFilters /\ g.counted = << >> /\ ~g.callout /\ g.decision = x
      BY <2>1, Zenon DEF OpenFgaFilters
    <2>2. CASE o = handleDeny([f EXCEPT !.decision = "unmatched"])
      <3>1. PICK g : g = [f EXCEPT !.decision = "unmatched"]
        BY Zenon
      <3>2. o = handleDeny(g)
        BY Zenon, <2>2, <3>1
      <3> QED  BY Zenon, <2>1, <3>1, <3>2, <1>2
    <2>3. CASE o = handleCalloutError([f EXCEPT !.decision = "error"])
      <3>1. PICK g : g = [f EXCEPT !.decision = "error"]
        BY Zenon
      <3>2. o = handleCalloutError(g)
        BY Zenon, <2>3, <3>1
      <3> QED  BY Zenon, <2>1, <3>1, <3>2, <1>2
    <2>4. CASE o = Returns("StopAllAndBuffer", [f EXCEPT !.callout = TRUE])
      <3>1. PICK g : g = [f EXCEPT !.callout = TRUE]
        BY Zenon
      <3>2. g \in OpenFgaFilters /\ g.counted = << >> /\ g.callout /\ g.decision = None
        BY <3>1, Zenon DEF OpenFgaFilters
      <3>3. o.status = "StopAllAndBuffer" /\ o.reply = None /\ o.f = g
        BY Zenon, <2>4, <3>1 DEF Returns
      <3> QED  BY <3>2, <3>3, Zenon DEF OpenFgaOut, Outcome, Status
    <2> QED  BY <2>2, <2>3, <2>4, Zenon
  (* OnRequestHeaders of openfga. *)
  <1>4. ASSUME Streamed, NEW s \in Streams, OpenFgaSound(filter[s], stream[s]), OpenFgaOnRequestHeaders(s)
        PROVE  OnlyStream(s) /\ OpenFgaSound(filter'[s], stream'[s]) /\ shared' = shared
    <2> USE <1>4
    <2> DEFINE f == filter[s]
               m == stream[s]
               n == stream'[s]
               Outs == {handleDeny([f EXCEPT !.decision = "unmatched"]),
                        handleCalloutError([f EXCEPT !.decision = "error"]),
                        Returns("StopAllAndBuffer", [f EXCEPT !.callout = TRUE])}
    <2>1. PICK end \in BOOLEAN : HeadersFrame(s, "req", end, Outs) /\ shared' = shared
      BY Zenon DEF OpenFgaOnRequestHeaders, OnHeaders
    <2>2. /\ m.req.at = "idle" /\ f \in OpenFgaFilters /\ f.decision = None /\ f.counted = << >> /\ ~f.callout
          /\ ~m.spurious /\ ~m.req.seen
      BY Zenon, <2>1 DEF HeadersFrame, OpenFgaSound
    <2>3. \A o \in Outs : OpenFgaOut(o)
      BY Zenon, <2>2, <1>3
    <2>4. \A o \in Outs : Outcome(o)
      BY <2>3, Zenon DEF OpenFgaOut
    <2> HIDE DEF Outs
    <2>5. /\ OnlyStream(s)
          /\ \E o \in Outs : filter'[s] = o.f /\ Moved(m, n, "req", o)
      BY <2>1, <2>4, OnHeadersMoves
    <2>6. PICK o \in Outs : filter'[s] = o.f /\ Moved(m, n, "req", o)
      BY Zenon, <2>5
    <2>7. /\ ~n.spurious /\ n.req.at # "idle" /\ n.req.flow = Flow(o.status)
          /\ n.req.seen <=> m.req.seen \/ o.status = "Continue"
      BY <2>2, <2>6, Zenon DEF Moved
    <2>8. OpenFgaSound(o.f, n)
      BY Zenon, <2>2, <2>3, <2>7 DEF OpenFgaSound, OpenFgaOut, OpenFgaSettled, Flow
    <2> QED  BY <2>1, <2>5, <2>6, <2>8
  (* The callout answers a request that waits, once. *)
  <1>5. ASSUME Streamed, NEW s \in Streams, OpenFgaSound(filter[s], stream[s]), OpenFgaOnHttpCalloutDone(s)
        PROVE  OnlyStream(s) /\ OpenFgaSound(filter'[s], stream'[s]) /\ shared' = shared
    <2> USE <1>5
    <2> DEFINE f == filter[s]
               m == stream[s]
               n == stream'[s]
    <2>1. /\ f \in OpenFgaFilters /\ f.callout /\ f.decision = None /\ f.counted = << >> /\ ~m.spurious
          /\ m.req.at # "idle" /\ (m.req.seen => f.dryRun) /\ Waits(s, "req")
      BY Zenon, OpenFgaAssumption DEF OpenFgaSound, OpenFgaOnHttpCalloutDone, Waits, OpenFgaApproved
    <2>2. PICK d \in {"allow", "deny", "error"} : Checked(s, [f EXCEPT !.callout = FALSE, !.decision = d])
      BY Zenon DEF OpenFgaOnHttpCalloutDone
    <2>3. PICK g : g = [f EXCEPT !.callout = FALSE, !.decision = d]
      BY Zenon
    <2>4. g \in OpenFgaFilters /\ g.counted = << >> /\ ~g.callout /\ g.decision = d /\ g.dryRun = f.dryRun
      BY <2>1, <2>3, Zenon DEF OpenFgaFilters
    <2>5. ASSUME NEW t \in OpenFgaDecisions, Continues(s, "req", Record(g, t)),
                 g.dryRun \/ g.decision = "allow" \/ (g.failOpen /\ g.decision = "error")
          PROVE  OnlyStream(s) /\ OpenFgaSound(filter'[s], n) /\ shared' = shared
      <3>1. PICK h : h = Record(g, t)
        BY Zenon
      <3>2. OpenFgaSettled(h) /\ h.decision = d /\ h.dryRun = g.dryRun /\ h.failOpen = g.failOpen
        BY Zenon, <2>4, <3>1, <1>1
      <3>3. OpenFgaApproved(h)
        BY <2>4, <2>5, <3>2, ZenonT(60) DEF OpenFgaApproved
      <3>4. /\ OnlyStream(s) /\ filter'[s] = h /\ shared' = shared
            /\ n.req.at = m.req.at /\ n.spurious = m.spurious
        BY <2>1, <2>5, <3>1, ContinuesIt
      <3> QED  BY <2>1, <3>2, <3>3, <3>4, Zenon DEF OpenFgaSound, OpenFgaSettled
    <2>6. ASSUME NEW t \in OpenFgaDecisions, NEW code \in Nat, Answers(s, "req", code, Record(g, t))
          PROVE  OnlyStream(s) /\ OpenFgaSound(filter'[s], n) /\ shared' = shared
      <3>1. PICK h : h = Record(g, t)
        BY Zenon
      <3>2. OpenFgaSettled(h) /\ h.decision = d /\ h.dryRun = g.dryRun
        BY ZenonT(60), <2>4, <3>1, <1>1
      <3>3. /\ OnlyStream(s) /\ filter'[s] = h /\ shared' = shared
            /\ n.req = m.req /\ n.spurious = m.spurious
        BY <2>1, <2>6, <3>1, AnswersIt
      <3> QED  BY <2>1, <2>4, <3>2, <3>3, Zenon DEF OpenFgaSound, OpenFgaSettled, OpenFgaApproved
    <2>7. Checked(s, g) /\ 403 \in Nat /\ 502 \in Nat
      BY <2>2, <2>3
    <2> QED  BY <2>5, <2>6, <2>7, ZenonT(60) DEF Checked, handleCallbackError, OpenFgaDecisions
  <1> QED  BY Zenon, <1>4, <1>5

TokenSound(f, m) ==
    /\ f \in TokenFilters /\ ~m.spurious
    /\ m.req.at = "idle" => ~m.req.seen /\ ~f.callout /\ f.exchanges = 0
    /\ f.callout => f.exchanges = 1 /\ ~m.req.seen /\ m.req.at # "idle" /\ m.req.flow = "all"
    /\ Len(f.counted) = IF f.callout THEN 0 ELSE f.exchanges
    /\ m.req.seen => TokenApproved(f)

(* The callback and the callout of token-exchange. *)
LEMMA TokenKeeps ==
    \A s \in Streams :
        Streamed /\ TokenSound(filter[s], stream[s])
          /\ (TokenOnRequestHeaders(s) \/ TokenOnHttpCalloutDone(s)) =>
          OnlyStream(s) /\ TokenSound(filter'[s], stream'[s]) /\ shared' = shared
  (* OnRequestHeaders of token-exchange. *)
  <1>1. ASSUME Streamed, NEW s \in Streams, TokenSound(filter[s], stream[s]), TokenOnRequestHeaders(s)
        PROVE  OnlyStream(s) /\ TokenSound(filter'[s], stream'[s]) /\ shared' = shared
    <2> USE <1>1
    <2> DEFINE f == filter[s]
               m == stream[s]
               n == stream'[s]
               g == [f EXCEPT !.callout = TRUE, !.exchanges = @ + 1]
               Outs == IF f.token = "none" THEN {Replies("Stop", 401, f)}
                       ELSE {Replies("Stop", 502, f), Returns("StopAllAndBuffer", g)}
    <2>1. PICK end \in BOOLEAN : HeadersFrame(s, "req", end, Outs) /\ shared' = shared
      BY Zenon DEF TokenOnRequestHeaders, OnHeaders
    <2>2. /\ m.req.at = "idle" /\ f \in TokenFilters /\ f.exchanges = 0 /\ Len(f.counted) = 0 /\ ~f.callout
          /\ ~m.spurious /\ ~m.req.seen
      BY <2>1 DEF HeadersFrame, TokenSound
    <2>3. g \in TokenFilters /\ g.callout /\ g.exchanges = 1 /\ Len(g.counted) = 0
      <3>1. f.exchanges + 1 = 1
        BY <2>2
      <3>2. g = [f EXCEPT !.callout = TRUE, !.exchanges = 1]
        BY <3>1, Zenon
      <3> HIDE DEF g
      <3> QED  BY <2>2, <3>2, Zenon DEF TokenFilters
    <2> HIDE DEF g
    <2>4. ASSUME NEW o \in Outs
          PROVE  /\ Outcome(o)
                 /\ \/ o.status = "Stop" /\ o.f = f
                    \/ o.status = "StopAllAndBuffer" /\ o.f = g
      <3>1. \/ o \in {Replies("Stop", 401, f), Replies("Stop", 502, f)}
            \/ o = Returns("StopAllAndBuffer", g)
        BY ZenonT(60)
      <3>2. 401 \in Nat /\ 502 \in Nat /\ "Stop" \in Status /\ "StopAllAndBuffer" \in Status
        BY DEF Status
      <3> HIDE DEF Outs
      <3>3. ASSUME NEW code \in Nat, o = Replies("Stop", code, f)
            PROVE  Outcome(o) /\ o.status = "Stop" /\ o.f = f
        BY <3>2, <3>3, RepliesIs
      <3>4. CASE o = Returns("StopAllAndBuffer", g)
        BY <3>2, <3>4, ReturnsIs
      <3>5. CASE o \in {Replies("Stop", 401, f), Replies("Stop", 502, f)}
        <4>1. \E code \in Nat : o = Replies("Stop", code, f)
          BY <3>2, <3>5, ZenonT(60)
        <4> QED  BY <3>3, <4>1, Zenon
      <3> QED  BY <3>1, <3>4, <3>5, ZenonT(60)
    <2> HIDE DEF Outs
    <2>5. /\ OnlyStream(s)
          /\ \E o \in Outs : filter'[s] = o.f /\ Moved(m, n, "req", o)
      BY Zenon, <2>1, <2>4, OnHeadersMoves
    <2>6. PICK o \in Outs : filter'[s] = o.f /\ Moved(m, n, "req", o)
      BY Zenon, <2>5
    <2>7. /\ ~n.spurious /\ n.req.at # "idle" /\ n.req.flow = Flow(o.status)
          /\ n.req.seen <=> m.req.seen \/ o.status = "Continue"
      BY <2>2, <2>6, Zenon DEF Moved
    <2>8. TokenSound(o.f, n)
      BY Zenon, <2>2, <2>3, <2>4, <2>7 DEF TokenSound, Flow
    <2> QED  BY Zenon, <2>1, <2>5, <2>6, <2>8
  (* The exchange answers a request that waits, once. *)
  <1>2. ASSUME Streamed, NEW s \in Streams, TokenSound(filter[s], stream[s]), TokenOnHttpCalloutDone(s)
        PROVE  OnlyStream(s) /\ TokenSound(filter'[s], stream'[s]) /\ shared' = shared
    <2> USE <1>2
    <2> DEFINE f == filter[s]
               m == stream[s]
               n == stream'[s]
               Ended(h) == h \in TokenFilters /\ ~h.callout /\ h.exchanges = 1 /\ Len(h.counted) = 1
    <2>1. /\ f \in TokenFilters /\ f.callout /\ f.exchanges = 1 /\ Len(f.counted) = 0 /\ ~m.spurious
          /\ m.req.at # "idle" /\ ~m.req.seen /\ Waits(s, "req")
      BY Zenon DEF TokenSound, TokenOnHttpCalloutDone, Waits
    <2>2. ASSUME NEW r \in Results, NEW h, h = Result(f, r)
          PROVE  Ended(h)
      <3>1. f.counted \in Seq(Results)
        BY Zenon, <2>1 DEF TokenFilters
      <3>2. Append(f.counted, r) \in Seq(Results) /\ Len(Append(f.counted, r)) = Len(f.counted) + 1
        BY <3>1, OneMore, Zenon
      <3>3. PICK q \in Seq(Results) : q = Append(f.counted, r) /\ Len(q) = 0 + 1
        BY <2>1, <3>2, Zenon
      <3>4. h = [f EXCEPT !.callout = FALSE, !.counted = q]
        BY Zenon, <2>2, <3>3 DEF Result
      <3>5. Len(q) = 1
        BY <3>3
      <3> QED  BY <2>1, <3>4, <3>5, Zenon DEF TokenFilters
    <2>3. ASSUME NEW h, Ended(h), h.token = "exchanged", Continues(s, "req", h)
          PROVE  OnlyStream(s) /\ TokenSound(filter'[s], n) /\ shared' = shared
      <3>1. /\ OnlyStream(s) /\ filter'[s] = h /\ shared' = shared
            /\ n.req.at = m.req.at /\ n.spurious = m.spurious
        BY <2>1, <2>3, ContinuesIt
      <3> QED  BY <2>1, <2>3, <3>1, Zenon DEF TokenSound, TokenApproved
    <2>4. ASSUME NEW r \in Results, NEW code \in Nat, Answers(s, "req", code, Result(f, r))
          PROVE  OnlyStream(s) /\ TokenSound(filter'[s], n) /\ shared' = shared
      <3>1. PICK h : h = Result(f, r)
        BY Zenon
      <3>2. Ended(h)
        BY <2>2, <3>1, Zenon
      <3>3. Answers(s, "req", code, h) /\ code \in Nat
        BY <2>4, <3>1, Zenon
      <3>4. /\ OnlyStream(s) /\ filter'[s] = h /\ shared' = shared
            /\ n.req = m.req /\ n.spurious = m.spurious
        <4>1. Streamed /\ Waits(s, "req") /\ "req" \in {"req", "resp"}
          BY <1>2, <2>1, Zenon
        <4>2. Answers(s, "req", code, h) /\ s \in Streams
          BY <1>2, <3>3, Zenon
        <4> HIDE <1>2
        <4> QED  BY <2>4, <4>1, <4>2, AnswersIt
      <3> QED  BY <2>1, <3>2, <3>4, Zenon DEF TokenSound
    <2>5. CASE Continues(s, "req", [Result(f, "success") EXCEPT !.token = "exchanged"])
      <3>1. PICK g : g = Result(f, "success")
        BY Zenon
      <3>2. Ended(g)
        BY Zenon, <2>2, <3>1 DEF Results
      <3>3. PICK h : h = [g EXCEPT !.token = "exchanged"]
        BY Zenon
      <3>4. Ended(h) /\ h.token = "exchanged"
        BY Zenon, <3>2, <3>3 DEF TokenFilters
      <3>5. Continues(s, "req", h)
        BY Zenon, <2>5, <3>1, <3>3
      <3> QED  BY Zenon, <2>3, <3>4, <3>5
    <2>6. 401 \in Nat /\ 502 \in Nat
      OBVIOUS
    <2> QED  BY <2>4, <2>5, <2>6, ZenonT(60) DEF TokenOnHttpCalloutDone, Exchanged, Results
  <1> QED  BY Zenon, <1>1, <1>2

(* OpenApiApproved of a filter and the request as it was delivered. *)
OpenApiPasses(f, msg) ==
    \/ f.dryRun
    \/ f.allowUnmatched /\ f.route = None /\ ~f.unbuildable
    \/ /\ f.verdict = "valid"
       /\ f.route = "body" => msg.at = "end" /\ (f.maxBody > 0 => msg.chunks <= f.maxBody)

OpenApiSound(f, m) ==
    /\ f \in OpenApiFilters /\ ~m.spurious
    /\ m.req.at = "idle" =>
         /\ f.route = None /\ ~f.unbuildable /\ f.verdict = None /\ ~f.requestProcessed
         /\ f.bodySize = 0 /\ m.req.chunks = 0 /\ ~m.req.seen
    /\ ~f.requestProcessed =>
         f.bodySize = m.req.chunks /\ (f.maxBody > 0 => f.bodySize <= f.maxBody)
    /\ f.route = "bodiless" \/ f.verdict = "valid" => f.requestProcessed
    /\ f.requestProcessed /\ m.reply = None => OpenApiPasses(f, m.req)
    /\ m.req.seen => OpenApiPasses(f, m.req)

(* g has what f was configured with and what its headers matched. *)
OpenApiSame(f, g) ==
    /\ g.dryRun = f.dryRun /\ g.allowUnmatched = f.allowUnmatched /\ g.maxBody = f.maxBody
    /\ g.route = f.route /\ g.unbuildable = f.unbuildable

(* What a validation comes to. *)
OpenApiChecked(f, o) ==
    /\ Outcome(o) /\ o.f \in OpenApiFilters /\ o.f.requestProcessed /\ OpenApiSame(f, o.f)
    /\ o.reply = None => o.f.dryRun \/ o.f.verdict = "valid"
    /\ o.status = "Continue" => o.reply = None

(* What the headers come to when validation does not follow at once. *)
OpenApiPending(o) ==
    /\ Outcome(o) /\ o.f \in OpenApiFilters /\ ~o.f.requestProcessed /\ o.f.bodySize = 0
    /\ o.f.route # "bodiless" /\ o.f.verdict # "valid"
    /\ o.status = "Continue" =>
         o.f.dryRun \/ (o.f.allowUnmatched /\ o.f.route = None /\ ~o.f.unbuildable)

(* The callbacks of openapi-validator. *)
LEMMA OpenApiKeeps ==
    \A s \in Streams :
        Streamed /\ OpenApiSound(filter[s], stream[s])
          /\ (\/ OpenApiOnRequestHeaders(s) \/ OpenApiOnRequestBody(s)
              \/ OpenApiOnRequestTrailers(s) \/ Panics(s)) =>
          OnlyStream(s) /\ OpenApiSound(filter'[s], stream'[s]) /\ shared' = shared
  (* validateRequest passes what is valid, or anything in a dry run. *)
  <1>1. ASSUME NEW f \in OpenApiFilters, NEW stop \in {"Stop", "StopNoBuffer"},
               NEW o \in validateRequest(f, stop)
        PROVE  OpenApiChecked(f, o)
    <2> USE <1>1
    <2>1. ASSUME NEW x \in {"valid", "invalid"}, NEW g,
                 g = Finds([f EXCEPT !.requestProcessed = TRUE], x)
          PROVE  g \in OpenApiFilters /\ g.requestProcessed /\ g.verdict = x /\ OpenApiSame(f, g)
      BY <2>1, Zenon DEF OpenApiFilters, Finds, OpenApiSame
    <2>2. stop \in Status /\ stop # "Continue" /\ "Continue" \in Status /\ 400 \in Nat
      BY DEF Status
    <2>3. CASE o = Replies(stop, 400, Finds([f EXCEPT !.requestProcessed = TRUE], "invalid"))
      <3>1. PICK g : g = Finds([f EXCEPT !.requestProcessed = TRUE], "invalid")
        BY Zenon
      <3>2. o = Replies(stop, 400, g)
        BY <2>3, <3>1
      <3>3. Outcome(o) /\ o.status = stop /\ o.reply = 400 /\ o.f = g
        BY <2>2, <3>2, RepliesIs
      <3>4. g \in OpenApiFilters /\ g.requestProcessed /\ OpenApiSame(f, g)
        BY <2>1, <3>1, Zenon
      <3>5. o.reply # None
        BY <2>2, <3>3, NoneAssumption
      <3> QED  BY <2>2, <3>3, <3>4, <3>5, Zenon DEF OpenApiChecked
    <2>4. ASSUME NEW x \in {"valid", "invalid"}, x = "valid" \/ f.dryRun,
                 o = Returns("Continue", Finds([f EXCEPT !.requestProcessed = TRUE], x))
          PROVE  OpenApiChecked(f, o)
      <3>1. PICK g : g = Finds([f EXCEPT !.requestProcessed = TRUE], x)
        BY Zenon
      <3>2. o = Returns("Continue", g)
        BY Zenon, <2>4, <3>1
      <3>3. Outcome(o) /\ o.status = "Continue" /\ o.reply = None /\ o.f = g
        BY <2>2, <3>2, ReturnsIs
      <3>4. g \in OpenApiFilters /\ g.requestProcessed /\ g.verdict = x /\ OpenApiSame(f, g)
        BY <2>1, <3>1, Zenon
      <3>5. g.dryRun \/ g.verdict = "valid"
        BY Zenon, <2>4, <3>4 DEF OpenApiSame
      <3> QED  BY <3>3, <3>4, <3>5, Zenon DEF OpenApiChecked
    <2> QED  BY <2>3, <2>4, ZenonT(60) DEF validateRequest
  (* A request that was whole when it was validated. *)
  <1>2. ASSUME NEW f \in OpenApiFilters, NEW m, NEW n, NEW o, Moved(m, n, "req", o), ~m.spurious,
               OpenApiChecked(f, o), m.req.seen => f.dryRun,
               f.route = "body" => n.req.at = "end" /\ (f.maxBody > 0 => n.req.chunks <= f.maxBody)
        PROVE  OpenApiSound(o.f, n)
    <2> USE <1>2
    <2>1. /\ ~n.spurious /\ n.req.at # "idle" /\ n.reply = o.reply
          /\ n.req.seen <=> m.req.seen \/ o.status = "Continue"
      BY Zenon DEF Moved
    <2>2. o.f.dryRun \/ o.f.verdict = "valid" => OpenApiPasses(o.f, n.req)
      BY Zenon DEF OpenApiPasses, OpenApiChecked, OpenApiSame
    <2>3. OpenApiChecked(f, o) /\ o.f.dryRun = f.dryRun
      BY Zenon DEF OpenApiChecked, OpenApiSame
    <2> QED  BY <2>1, <2>2, <2>3, Zenon DEF OpenApiSound, OpenApiChecked
  (* Frames of a request whose validation is over or does not come yet.      *)
  <1>3. ASSUME NEW f, NEW m, NEW n, NEW o, OpenApiSound(f, m), Moved(m, n, "req", o),
               f.requestProcessed, m.req.at # "end", m.req.at # "idle", o = Returns("Continue", f)
        PROVE  Outcome(o) /\ OpenApiSound(o.f, n)
    <2> USE <1>3
    <2>1. Outcome(o) /\ o.reply = None /\ o.f = f
      BY ReturnsIs DEF Status
    <2>2. ~n.spurious /\ n.req.at # "idle" /\ m.reply = None
      BY Zenon DEF Moved, OpenApiSound
    <2>3. OpenApiPasses(f, m.req)
      BY <2>2, Zenon DEF OpenApiSound
    <2>4. OpenApiPasses(f, n.req)
      BY <2>3, Zenon DEF OpenApiPasses
    <2> QED  BY <2>1, <2>2, <2>4, ZenonT(60) DEF OpenApiSound
  (* The headers match no route, or wait for the body, or are validated. *)
  <1>4. ASSUME NEW f \in OpenApiFilters, ~f.requestProcessed, f.bodySize = 0, f.route = None,
               f.verdict = None, ~f.unbuildable, NEW end \in BOOLEAN,
               NEW o \in {denyRequest([Finds(f, "invalid") EXCEPT !.unbuildable = TRUE]),
                          IF f.allowUnmatched THEN Returns("Continue", Finds(f, "unmatched"))
                          ELSE denyRequest(Finds(f, "unmatched"))}
                         \cup Matched(f, "body", end) \cup Matched(f, "bodiless", end)
        PROVE  \/ OpenApiPending(o)
               \/ \E r \in {"body", "bodiless"}, g \in OpenApiFilters :
                    g.route = r /\ g.maxBody = f.maxBody /\ (r = "body" => end) /\ OpenApiChecked(g, o)
    <2> USE <1>4
    <2>1. ASSUME NEW g \in OpenApiFilters, ~g.requestProcessed, g.bodySize = 0, g.route = None,
                 g.verdict # "valid", o = denyRequest(g)
          PROVE  OpenApiPending(o)
      <3>1. 400 \in Nat /\ "Stop" \in Status /\ "Continue" \in Status /\ None # "bodiless"
        BY OpenApiAssumption DEF Status
      <3>2. CASE g.dryRun
        <4>1. o = Returns("Continue", g)
          BY <2>1, <3>2, ZenonT(60) DEF denyRequest
        <4>2. Outcome(o) /\ o.f = g
          BY <3>1, <4>1, ReturnsIs
        <4> QED  BY <2>1, <3>1, <3>2, <4>2, Zenon DEF OpenApiPending
      <3>3. CASE ~g.dryRun
        <4>1. o = Replies("Stop", 400, g)
          BY <2>1, <3>3, ZenonT(60) DEF denyRequest
        <4>2. Outcome(o) /\ o.f = g /\ o.status = "Stop"
          BY <3>1, <4>1, RepliesIs
        <4> QED  BY <2>1, <3>1, <4>2, Zenon DEF OpenApiPending
      <3> QED  BY <3>2, <3>3, Zenon
    <2>2. CASE o = denyRequest([Finds(f, "invalid") EXCEPT !.unbuildable = TRUE])
      <3>1. PICK g : g = [Finds(f, "invalid") EXCEPT !.unbuildable = TRUE]
        BY Zenon
      <3>2. g \in OpenApiFilters /\ ~g.requestProcessed /\ g.bodySize = 0 /\ g.route = None /\ g.verdict = "invalid"
        BY <3>1, Zenon DEF Finds, OpenApiFilters
      <3>3. o = denyRequest(g)
        BY Zenon, <2>2, <3>1
      <3> QED  BY Zenon, <2>1, <3>2, <3>3
    <2>3. CASE o = (IF f.allowUnmatched THEN Returns("Continue", Finds(f, "unmatched"))
                    ELSE denyRequest(Finds(f, "unmatched")))
      <3>1. PICK g : g = Finds(f, "unmatched")
        BY Zenon
      <3>2. /\ g \in OpenApiFilters /\ ~g.requestProcessed /\ g.bodySize = 0 /\ g.route = None
            /\ g.verdict = "unmatched" /\ g.allowUnmatched = f.allowUnmatched /\ ~g.unbuildable
        BY <3>1, Zenon DEF Finds, OpenApiFilters
      <3>3. CASE o = denyRequest(g)
        BY Zenon, <2>1, <3>2, <3>3
      <3>4. CASE o = Returns("Continue", g) /\ f.allowUnmatched
        <4>1. Outcome(o) /\ o.f = g
          BY <3>4, ReturnsIs DEF Status
        <4>2. None # "bodiless"
          BY Zenon, OpenApiAssumption
        <4> QED  BY <3>2, <3>4, <4>1, <4>2, Zenon DEF OpenApiPending
      <3> QED  BY <2>3, <3>1, <3>3, <3>4, Zenon
    <2>4. ASSUME NEW r \in {"body", "bodiless"}, o \in Matched(f, r, end)
          PROVE  \/ OpenApiPending(o)
                 \/ \E g \in OpenApiFilters :
                      g.route = r /\ g.maxBody = f.maxBody /\ (r = "body" => end) /\ OpenApiChecked(g, o)
      <3>1. PICK g : g = [f EXCEPT !.route = r]
        BY Zenon
      <3>2. /\ g \in OpenApiFilters /\ ~g.requestProcessed /\ g.bodySize = 0 /\ g.route = r
            /\ g.verdict = None /\ g.maxBody = f.maxBody
        BY <3>1, Zenon DEF OpenApiFilters
      <3>3. CASE ~end /\ r = "body"
        <4>1. o = Returns("Stop", g)
          BY <2>4, <3>1, <3>3, Zenon DEF Matched
        <4>2. Outcome(o) /\ o.f = g /\ o.status = "Stop"
          BY <4>1, ReturnsIs DEF Status
        <4>3. None # "valid"
          BY Zenon, OpenApiAssumption
        <4> QED  BY <3>2, <3>3, <4>2, <4>3, Zenon DEF OpenApiPending
      <3>4. CASE ~(~end /\ r = "body")
        <4>1. o \in validateRequest(g, "Stop")
          BY <2>4, <3>1, <3>4, Zenon DEF Matched
        <4>2. OpenApiChecked(g, o)
          BY Zenon, <3>2, <4>1, <1>1
        <4> QED  BY <3>2, <3>4, <4>2, Zenon
      <3> QED  BY <3>3, <3>4, Zenon
    <2> QED  BY <2>2, <2>3, <2>4, Zenon
  (* OnRequestHeaders of openapi-validator. *)
  <1>5. ASSUME Streamed, NEW s \in Streams, OpenApiSound(filter[s], stream[s]), OpenApiOnRequestHeaders(s)
        PROVE  OnlyStream(s) /\ OpenApiSound(filter'[s], stream'[s]) /\ shared' = shared
    <2> USE <1>5
    <2> DEFINE f == filter[s]
               m == stream[s]
               n == stream'[s]
               Outs(end) == {denyRequest([Finds(f, "invalid") EXCEPT !.unbuildable = TRUE]),
                        IF f.allowUnmatched THEN Returns("Continue", Finds(f, "unmatched"))
                        ELSE denyRequest(Finds(f, "unmatched"))}
                       \cup Matched(f, "body", end) \cup Matched(f, "bodiless", end)
    <2>1. PICK end \in BOOLEAN : HeadersFrame(s, "req", end, Outs(end)) /\ shared' = shared
      BY Zenon DEF OpenApiOnRequestHeaders, OnHeaders
    <2>2. /\ m.req.at = "idle" /\ f \in OpenApiFilters /\ ~f.requestProcessed /\ f.bodySize = 0
          /\ f.route = None /\ f.verdict = None /\ ~f.unbuildable /\ m.req.chunks = 0
          /\ ~m.req.seen /\ ~m.spurious
      BY Zenon, <2>1 DEF HeadersFrame, OpenApiSound
    <2>3. ASSUME NEW o \in Outs(end)
          PROVE  \/ OpenApiPending(o)
                 \/ \E r \in {"body", "bodiless"}, g \in OpenApiFilters :
                      g.route = r /\ g.maxBody = f.maxBody /\ (r = "body" => end) /\ OpenApiChecked(g, o)
      BY <2>2, <2>3, <1>4
    <2> HIDE DEF Outs
    <2>4. \A o \in Outs(end) : Outcome(o)
      BY <2>3, Zenon DEF OpenApiPending, OpenApiChecked
    <2>5. /\ OnlyStream(s) /\ n.req.at = (IF end THEN "end" ELSE "headers") /\ n.req.chunks = 0
          /\ \E o \in Outs(end) : filter'[s] = o.f /\ Moved(m, n, "req", o)
      BY <2>1, <2>2, <2>4, OnHeadersMoves
    <2>6. PICK o \in Outs(end) : filter'[s] = o.f /\ Moved(m, n, "req", o)
      BY Zenon, <2>5
    <2>7. /\ ~n.spurious /\ n.req.at # "idle" /\ n.reply = o.reply
          /\ n.req.seen <=> o.status = "Continue"
      BY <2>2, <2>6, Zenon DEF Moved
    <2>8. CASE OpenApiPending(o)
      <3>1. o.f.maxBody \in {0, 1}
        BY Zenon, <2>8 DEF OpenApiPending, OpenApiFilters
      <3>2. n.req.seen => OpenApiPasses(o.f, n.req)
        BY <2>7, <2>8, ZenonT(60) DEF OpenApiPending, OpenApiPasses
      <3>3. OpenApiSound(o.f, n)
        BY <2>5, <2>7, <2>8, <3>1, <3>2 DEF OpenApiSound, OpenApiPending
      <3> QED  BY <2>1, <2>5, <2>6, <3>3
    <2>9. CASE \E r \in {"body", "bodiless"}, g \in OpenApiFilters :
                 g.route = r /\ g.maxBody = f.maxBody /\ (r = "body" => end) /\ OpenApiChecked(g, o)
      <3>1. PICK r \in {"body", "bodiless"}, g \in OpenApiFilters :
                 g.route = r /\ g.maxBody = f.maxBody /\ (r = "body" => end) /\ OpenApiChecked(g, o)
        BY <2>9, Zenon
      <3>2. g.route = "body" => n.req.at = "end" /\ (g.maxBody > 0 => n.req.chunks <= g.maxBody)
        <4>1. g.maxBody \in {0, 1}
          BY Zenon DEF OpenApiFilters
        <4> QED  BY <2>5, <3>1, <4>1
      <3>3. OpenApiSound(o.f, n)
        BY <2>2, <2>6, <3>1, <3>2, <1>2, SMTT(60)
      <3> QED  BY Zenon, <2>1, <2>5, <2>6, <3>3
    <2> QED  BY <2>1, <2>3, <2>5, <2>8, <2>9, Zenon
  (* OnRequestTrailers of openapi-validator: the body is whole. *)
  <1>6. ASSUME Streamed, NEW s \in Streams, OpenApiSound(filter[s], stream[s]), OpenApiOnRequestTrailers(s)
        PROVE  OnlyStream(s) /\ OpenApiSound(filter'[s], stream'[s]) /\ shared' = shared
    <2> USE <1>6
    <2> DEFINE f == filter[s]
               m == stream[s]
               n == stream'[s]
    <2>1. CASE f.requestProcessed /\ OnTrailers(s, "req", {Returns("Continue", f)})
      <3>1. \A o \in {Returns("Continue", f)} : Outcome(o)
        BY Zenon, ReturnsIs DEF Status
      <3>2. TrailersFrame(s, "req", {Returns("Continue", f)}) /\ shared' = shared
        BY <2>1, Zenon DEF OnTrailers
      <3>3. /\ OnlyStream(s) /\ m.req.at \in {"headers", "body"}
            /\ \E o \in {Returns("Continue", f)} : filter'[s] = o.f /\ Moved(m, n, "req", o)
        BY <3>1, <3>2, OnTrailersMoves
      <3>4. PICK o \in {Returns("Continue", f)} : filter'[s] = o.f /\ Moved(m, n, "req", o)
        BY Zenon, <3>3
      <3>5. o = Returns("Continue", f)
        OBVIOUS
      <3>6. OpenApiSound(o.f, n)
        BY Zenon, <2>1, <3>3, <3>4, <3>5, <1>3
      <3> QED  BY Zenon, <3>2, <3>3, <3>4, <3>6
    <2>2. CASE /\ ~f.requestProcessed /\ Validates(s)
               /\ OnTrailers(s, "req", validateRequest(f, "Stop"))
      <3>1. f \in OpenApiFilters /\ ~m.spurious
        BY Zenon DEF OpenApiSound
      <3>2. \A o \in validateRequest(f, "Stop") : OpenApiChecked(f, o)
        BY ZenonT(60), <3>1, <1>1
      <3>3. \A o \in validateRequest(f, "Stop") : Outcome(o)
        BY <3>2, Zenon DEF OpenApiChecked
      <3>4. TrailersFrame(s, "req", validateRequest(f, "Stop")) /\ shared' = shared
        BY <2>2, Zenon DEF OnTrailers
      <3>5. /\ OnlyStream(s) /\ m.req.at \in {"headers", "body"}
            /\ n.req.at = "end" /\ n.req.chunks = m.req.chunks
            /\ \E o \in validateRequest(f, "Stop") : filter'[s] = o.f /\ Moved(m, n, "req", o)
        BY Zenon, <3>3, <3>4, OnTrailersMoves
      <3>6. PICK o \in validateRequest(f, "Stop") : filter'[s] = o.f /\ Moved(m, n, "req", o)
        BY Zenon, <3>5
      <3>7. f.maxBody > 0 => n.req.chunks <= f.maxBody
        BY Zenon, <2>2, <3>5 DEF OpenApiSound
      <3>8. m.req.seen => f.dryRun
        BY ZenonT(60), <2>2 DEF OpenApiSound, OpenApiPasses, Validates
      <3>9. OpenApiSound(o.f, n)
        BY <3>1, <3>2, <3>5, <3>6, <3>7, <3>8, <1>2
      <3> QED  BY Zenon, <3>4, <3>5, <3>6, <3>9
    <2> QED  BY <2>1, <2>2, Zenon DEF OpenApiOnRequestTrailers
  (* OnRequestBody of openapi-validator, at and above its limit too. *)
  <1>7. ASSUME Streamed, NEW s \in Streams, OpenApiSound(filter[s], stream[s]), OpenApiOnRequestBody(s)
        PROVE  OnlyStream(s) /\ OpenApiSound(filter'[s], stream'[s]) /\ shared' = shared
    <2> USE <1>7
    <2> DEFINE f == filter[s]
               m == stream[s]
               n == stream'[s]
               g == [f EXCEPT !.bodySize = @ + 1]
               large == Finds([g EXCEPT !.requestProcessed = TRUE], "oversized")
               Large == IF g.dryRun THEN Returns("Continue", large) ELSE Replies("StopNoBuffer", 413, large)
               More(end) == IF ~end THEN {Returns("StopAndBuffer", g)} ELSE validateRequest(g, "StopNoBuffer")
    <2>1. PICK end \in BOOLEAN :
            \/ f.requestProcessed /\ OnBody(s, "req", end, {Returns("Continue", f)})
            \/ ~f.requestProcessed /\ TooLarge(g) /\ OnBody(s, "req", end, {Large})
            \/ /\ ~f.requestProcessed /\ ~TooLarge(g) /\ (end => Validates(s))
               /\ OnBody(s, "req", end, More(end))
      BY Zenon DEF OpenApiOnRequestBody
    <2>2. CASE f.requestProcessed /\ OnBody(s, "req", end, {Returns("Continue", f)})
      <3>1. \A o \in {Returns("Continue", f)} : Outcome(o)
        BY Zenon, ReturnsIs DEF Status
      <3>2. BodyFrame(s, "req", end, {Returns("Continue", f)}) /\ shared' = shared
        BY <2>2, ZenonT(60) DEF OnBody
      <3>3. /\ OnlyStream(s) /\ m.req.at \in {"headers", "body"}
            /\ \E o \in {Returns("Continue", f)} : filter'[s] = o.f /\ Moved(m, n, "req", o)
        BY <3>1, <3>2, OnBodyMoves
      <3>4. PICK o \in {Returns("Continue", f)} : filter'[s] = o.f /\ Moved(m, n, "req", o)
        BY Zenon, <3>3
      <3>5. o = Returns("Continue", f)
        OBVIOUS
      <3>6. OpenApiSound(o.f, n)
        BY Zenon, <2>2, <3>3, <3>4, <3>5, <1>3
      <3> QED  BY Zenon, <3>2, <3>3, <3>4, <3>6
    <2>3. CASE ~f.requestProcessed
      <3> DEFINE outs == IF TooLarge(g) THEN {Large} ELSE More(end)
      <3>1. BodyFrame(s, "req", end, outs) /\ shared' = shared /\ (end /\ ~TooLarge(g) => Validates(s))
        BY <2>1, <2>3, ZenonT(60) DEF OnBody
      <3>2. /\ f \in OpenApiFilters /\ ~m.spurious /\ f.bodySize = m.req.chunks
            /\ f.route # "bodiless" /\ f.verdict # "valid" /\ m.req.at # "end"
            /\ f.bodySize \in Nat /\ f.bodySize < MaxChunks
        BY <2>3, <3>1 DEF OpenApiSound, BodyFrame, OpenApiFilters
      <3>3. /\ m.req.seen => f.dryRun \/ (f.allowUnmatched /\ f.route = None /\ ~f.unbuildable)
        BY Zenon, <3>2 DEF OpenApiSound, OpenApiPasses
      <3>4. PICK size \in 0..MaxChunks : size = f.bodySize + 1
        BY <3>2, ChunksAssumption
      <3>5. /\ g \in OpenApiFilters /\ g.bodySize = size /\ ~g.requestProcessed /\ OpenApiSame(f, g)
            /\ g.verdict = f.verdict
        <4>1. g = [f EXCEPT !.bodySize = size]
          BY Zenon, <3>4
        <4> HIDE DEF g
        <4> QED  BY <2>3, <3>2, <4>1, Zenon DEF OpenApiFilters, OpenApiSame
      <3>6. /\ large \in OpenApiFilters /\ large.requestProcessed /\ OpenApiSame(f, large)
            /\ large.verdict = "oversized"
        <4> HIDE DEF g
        <4> QED  BY <3>5, Zenon DEF OpenApiFilters, OpenApiSame, Finds
      <3> HIDE DEF g, large
      <3>7. ASSUME NEW o \in outs
            PROVE  \/ /\ TooLarge(g) /\ Outcome(o) /\ o.f = large
                      /\ o.reply = None \/ o.status = "Continue" => f.dryRun
                   \/ ~TooLarge(g) /\ ~end /\ Outcome(o) /\ o.f = g /\ o.reply = None /\ o.status = "StopAndBuffer"
                   \/ ~TooLarge(g) /\ end /\ OpenApiChecked(g, o)
        <4>1. "Continue" \in Status /\ "StopNoBuffer" \in Status /\ "StopAndBuffer" \in Status /\ 413 \in Nat
          BY DEF Status
        <4>2. CASE TooLarge(g) /\ g.dryRun
          <5>1. o = Returns("Continue", large)
            BY <4>2, Zenon
          <5>2. Outcome(o) /\ o.f = large
            BY <4>1, <5>1, ReturnsIs
          <5> QED  BY <3>5, <4>2, <5>2, Zenon DEF OpenApiSame
        <4>3. CASE TooLarge(g) /\ ~g.dryRun
          <5>1. o = Replies("StopNoBuffer", 413, large)
            BY <4>3, Zenon
          <5>2. Outcome(o) /\ o.f = large /\ o.reply = 413 /\ o.status = "StopNoBuffer"
            BY <4>1, <5>1, RepliesIs
          <5>3. o.reply # None
            BY <5>2, <4>1, NoneAssumption
          <5> QED  BY <4>3, <5>2, <5>3, Zenon
        <4>4. CASE ~TooLarge(g) /\ ~end
          <5>1. o = Returns("StopAndBuffer", g)
            BY <4>4, Zenon
          <5> QED  BY <4>1, <4>4, <5>1, ReturnsIs
        <4>5. CASE ~TooLarge(g) /\ end
          <5>1. o \in validateRequest(g, "StopNoBuffer")
            BY <4>5, Zenon
          <5> QED  BY <3>5, <4>5, <5>1, <1>1
        <4> QED  BY <4>2, <4>3, <4>4, <4>5, ZenonT(60)
      <3> HIDE DEF outs
      <3>8. \A o \in outs : Outcome(o)
        BY <3>7, Zenon DEF OpenApiChecked
      <3>9. /\ OnlyStream(s) /\ n.req.at = (IF end THEN "end" ELSE "body") /\ n.req.chunks = m.req.chunks + 1
            /\ \E o \in outs : filter'[s] = o.f /\ Moved(m, n, "req", o)
        BY Zenon, <3>1, <3>8, OnBodyMoves
      <3>10. PICK o \in outs : filter'[s] = o.f /\ Moved(m, n, "req", o)
        BY Zenon, <3>9
      <3>11. /\ ~n.spurious /\ n.req.at # "idle" /\ n.reply = o.reply
             /\ n.req.seen <=> m.req.seen \/ o.status = "Continue"
        BY <3>2, <3>10, Zenon DEF Moved
      <3>12. n.req.chunks = size
        BY Zenon, <3>2, <3>4, <3>9
      <3>13. CASE /\ TooLarge(g) /\ Outcome(o) /\ o.f = large
                  /\ o.reply = None \/ o.status = "Continue" => f.dryRun
        <4>1. n.req.seen \/ n.reply = None => OpenApiPasses(large, n.req)
          BY <3>3, <3>6, <3>11, <3>13, Zenon DEF OpenApiPasses, OpenApiSame
        <4>2. OpenApiSound(o.f, n)
          BY <3>6, <3>11, <3>13, <4>1, ZenonT(60) DEF OpenApiSound
        <4> QED  BY Zenon, <3>1, <3>9, <3>10, <4>2
      <3>14. CASE ~TooLarge(g) /\ ~end /\ Outcome(o) /\ o.f = g /\ o.reply = None /\ o.status = "StopAndBuffer"
        <4>1. n.req.seen => OpenApiPasses(g, n.req)
          BY <3>3, <3>5, <3>11, <3>14, ZenonT(60) DEF OpenApiPasses, OpenApiSame
        <4>2. g.maxBody \in {0, 1} /\ g.bodySize = n.req.chunks /\ (g.maxBody > 0 => g.bodySize <= g.maxBody)
          BY <3>5, <3>12, <3>14 DEF TooLarge, OpenApiFilters
        <4>3. g.route # "bodiless" /\ g.verdict # "valid"
          BY Zenon, <3>2, <3>5 DEF OpenApiSame
        <4>4. OpenApiSound(o.f, n)
          BY <3>5, <3>11, <3>14, <4>1, <4>2, <4>3, ZenonT(60) DEF OpenApiSound
        <4> QED  BY Zenon, <3>1, <3>9, <3>10, <4>4
      <3>15. CASE ~TooLarge(g) /\ end /\ OpenApiChecked(g, o)
        <4>1. g.maxBody > 0 => n.req.chunks <= g.maxBody
          BY <3>5, <3>12, <3>15 DEF TooLarge, OpenApiFilters
        <4>2. m.req.seen => g.dryRun
          BY <3>1, <3>3, <3>5, <3>15, ZenonT(60) DEF OpenApiSame, Validates
        <4>3. OpenApiSound(o.f, n)
          BY <3>2, <3>5, <3>9, <3>10, <3>15, <4>1, <4>2, <1>2, SMTT(60)
        <4> QED  BY Zenon, <3>1, <3>9, <3>10, <4>3
      <3> QED  BY <3>7, <3>13, <3>14, <3>15, Zenon
    <2> QED  BY <2>1, <2>2, <2>3, ZenonT(60)
  (* A validation that panics is answered. *)
  <1>8. ASSUME Streamed, NEW s \in Streams, OpenApiSound(filter[s], stream[s]), Panics(s)
        PROVE  OnlyStream(s) /\ OpenApiSound(filter'[s], stream'[s]) /\ shared' = shared
    <2> USE <1>8
    <2>1. /\ OnlyStream(s) /\ filter'[s] = filter[s] /\ shared' = shared
          /\ stream'[s].req = stream[s].req /\ stream'[s].reply = stream[s].reply
          /\ stream'[s].spurious = stream[s].spurious
      BY ZenonT(60) DEF Streamed, Panics, Ends, OnlyStream, StreamType
    <2> QED  BY <2>1 DEF OpenApiSound
  <1> QED  BY Zenon, <1>5, <1>7, <1>6, <1>8

IpSound(f, m) ==
    /\ f \in IpFilters /\ ~m.spurious
    /\ f.config = New(f.raw) /\ f.config # None
    /\ m.req.at = "idle" => ~m.req.seen
    /\ m.req.seen => IpApproved(f)

(* on_request_headers of ip-restriction. *)
LEMMA IpKeeps ==
    \A s \in Streams :
        Streamed /\ IpSound(filter[s], stream[s]) /\ on_request_headers(s) =>
          OnlyStream(s) /\ IpSound(filter'[s], stream'[s]) /\ shared' = shared
  (* A network contains the addresses that share its prefix. *)
  <1>1. ASSUME NEW family \in {4, 6}, NEW bits \in 0..3, NEW len \in 0..2, NEW e, e = Net(Ip(family, bits), len),
               NEW ip \in Addresses
        PROVE  ip \in Covered(e) <=> Contains(e, ip)
    <2> USE <1>1
    <2>1. e.form = "cidr" /\ e.ip.family = family /\ e.ip.bits = bits /\ e.len = len
      BY Zenon DEF Net, Ip
    <2>2. PICK size : size = Size(len) /\ size \in {1, 2, 4}
      BY Zenon DEF Size
    <2>3. PICK first : first = bits - (bits % size)
      BY Zenon
    <2>4. ip.family \in {4, 6} /\ ip.bits \in 0..3 /\ ip = [family |-> ip.family, bits |-> ip.bits]
      BY Zenon DEF Addresses
    <2>5. Contains(e, ip) <=> ip.family = family /\ ip.bits \div size = bits \div size
      BY <2>1, <2>2, Zenon DEF Contains
    <2>6. Covered(e) = {Ip(family, b) : b \in first .. first + size - 1}
      BY <2>1, <2>2, <2>3, ZenonT(60) DEF Covered
    <2>7. ip \in Covered(e) <=> ip.family = family /\ ip.bits \in first .. first + size - 1
      <3>1. ASSUME NEW b, ip = Ip(family, b)
            PROVE  ip.family = family /\ ip.bits = b
        BY Zenon, <3>1 DEF Ip
      <3>2. ASSUME ip.family = family
            PROVE  ip = Ip(family, ip.bits)
        BY Zenon, <2>4, <3>2 DEF Ip
      <3> QED  BY <2>6, <3>1, <3>2, Zenon
    <2>8. ip.bits \in first .. first + size - 1 <=> ip.bits \div size = bits \div size
      <3>1. CASE size = 1
        BY <2>3, <2>4, <3>1
      <3>2. CASE size = 2
        BY <2>3, <2>4, <3>2
      <3>3. CASE size = 4
        <4>1. first = 0 /\ bits \div 4 = 0 /\ ip.bits \div 4 = 0
          BY <2>3, <2>4, <3>3
        <4> QED  BY <2>4, <3>3, <4>1
      <3> QED  BY ZenonT(60), <2>2, <3>1, <3>2, <3>3
    <2> QED  BY <2>5, <2>7, <2>8, Zenon
  (* An address matches a list when an entry of the list covers it. *)
  <1>2. ASSUME NEW list \in SUBSET Entries, Of(list, "bad") = {}, NEW ip \in Addresses
        PROVE  Matches(ip, Ips(list), Of(list, "cidr")) <=> \E e \in list : ip \in Covered(e)
    <2> USE <1>2
    <2>1. ASSUME NEW e \in list
          PROVE  \/ e.form = "ip" /\ Covered(e) = {e.ip}
                 \/ e.form = "cidr" /\ (ip \in Covered(e) <=> Contains(e, ip))
      <3>1. e.form # "bad"
        BY Zenon DEF Of
      <3>2. CASE e = Exact(Ip(4, 1)) \/ e = Exact(Ip(6, 1))
        <4>1. e.form = "ip"
          BY <3>2 DEF Exact
        <4> QED  BY <4>1, Zenon DEF Covered
      <3>3. CASE e = Net(Ip(4, 2), 1) \/ e = Net(Ip(6, 0), 0)
        <4>1. e.form = "cidr"
          BY <3>3 DEF Net
        <4>2. ip \in Covered(e) <=> Contains(e, ip)
          BY <3>3, <1>1
        <4> QED  BY Zenon, <4>1, <4>2
      <3>4. CASE e = [form |-> "bad"]
        BY Zenon, <3>1, <3>4
      <3> QED  BY Zenon, <3>2, <3>3, <3>4 DEF Entries
    <2>2. ip \in Ips(list) <=> \E e \in list : e.form = "ip" /\ ip = e.ip
      BY Zenon DEF Ips, Of
    <2>3. (\E net \in Of(list, "cidr") : Contains(net, ip)) <=> \E e \in list : e.form = "cidr" /\ Contains(e, ip)
      BY Zenon DEF Of
    <2> QED  BY <2>1, <2>2, <2>3, Zenon DEF Matches
  (* What FilterConfig::new keeps of a list. *)
  <1>3. ASSUME NEW raw \in IpRawConfigs, New(raw) # None, NEW ip \in Addresses, Allowed(New(raw), ip)
        PROVE  /\ raw.allow_addresses # {} => \E e \in raw.allow_addresses : ip \in Covered(e)
               /\ \A e \in raw.deny_addresses : ip \notin Covered(e)
    <2> USE <1>3
    <2> DEFINE allow == raw.allow_addresses
               deny == raw.deny_addresses
               cfg == New(raw)
    <2>1. allow \in SUBSET Entries /\ deny \in SUBSET Entries
      BY Zenon DEF IpRawConfigs
    <2>2. Of(deny \cup allow, "bad") = {}
      BY Zenon DEF New
    <2>3. Of(allow, "bad") = {} /\ Of(deny, "bad") = {}
      BY <2>2, Zenon DEF Of
    <2>4. /\ cfg.allow_addresses_exact = Ips(allow) /\ cfg.allow_addresses_cidr = Of(allow, "cidr")
          /\ cfg.deny_addresses_exact = Ips(deny) /\ cfg.deny_addresses_cidr = Of(deny, "cidr")
      BY Zenon DEF New
    <2>5. Matches(ip, Ips(allow), Of(allow, "cidr")) <=> \E e \in allow : ip \in Covered(e)
      BY <2>1, <2>3, <1>2, Zenon
    <2>6. Matches(ip, Ips(deny), Of(deny, "cidr")) <=> \E e \in deny : ip \in Covered(e)
      BY <2>1, <2>3, <1>2, Zenon
    <2>7. allow # {} => Ips(allow) # {} \/ Of(allow, "cidr") # {}
      <3>1. \A e \in allow : e.form \in {"ip", "cidr"}
        <4> SUFFICES ASSUME NEW e \in allow PROVE e.form \in {"ip", "cidr"}
          OBVIOUS
        <4>1. e.form # "bad"
          BY Zenon, <2>3 DEF Of
        <4> QED  BY <2>1, <4>1 DEF Entries, Exact, Net
      <3> QED  BY <3>1, Zenon DEF Ips, Of
    <2>8. (Ips(allow) # {} \/ Of(allow, "cidr") # {}) => Matches(ip, Ips(allow), Of(allow, "cidr"))
      BY <2>4, Zenon DEF Allowed
    <2>9. ~Matches(ip, Ips(deny), Of(deny, "cidr"))
      BY <2>4, Zenon DEF Allowed
    <2> QED  BY <2>5, <2>6, <2>7, <2>8, <2>9, Zenon
  (* on_request_headers of ip-restriction. *)
  <1>4. ASSUME Streamed, NEW s \in Streams, IpSound(filter[s], stream[s]), on_request_headers(s)
        PROVE  OnlyStream(s) /\ IpSound(filter'[s], stream'[s]) /\ shared' = shared
    <2> USE <1>4
    <2> DEFINE f == filter[s]
               m == stream[s]
               n == stream'[s]
    <2>1. PICK end \in BOOLEAN, source \in Sources :
            LET g == [f EXCEPT !.source = source]
            IN  OnHeaders(s, "req", end,
                 {IF source \in Addresses /\ Allowed(g.config, source)
                  THEN Returns("Continue", g) ELSE Replies("Stop", 403, g)})
      BY Zenon DEF on_request_headers
    <2>2. PICK g : g = [f EXCEPT !.source = source]
      BY Zenon
    <2> DEFINE Outs == {IF source \in Addresses /\ Allowed(g.config, source)
                        THEN Returns("Continue", g) ELSE Replies("Stop", 403, g)}
    <2>3. HeadersFrame(s, "req", end, Outs) /\ shared' = shared
      BY <2>1, <2>2, ZenonT(60) DEF OnHeaders
    <2>4. /\ m.req.at = "idle" /\ ~m.req.seen /\ ~m.spurious
          /\ f \in IpFilters /\ f.config = New(f.raw) /\ f.config # None
      BY Zenon, <2>3 DEF HeadersFrame, IpSound
    <2>5. /\ g \in IpFilters /\ g.source = source /\ g.config = New(g.raw) /\ g.config # None
          /\ g.raw \in IpRawConfigs
      BY <2>2, <2>4, Zenon DEF IpFilters
    <2>6. \A o \in Outs :
            /\ Outcome(o) /\ o.f = g
            /\ o.status = "Continue" => source \in Addresses /\ Allowed(g.config, source)
      <3>1. "Continue" \in Status /\ "Stop" \in Status /\ 403 \in Nat
        BY DEF Status
      <3> SUFFICES ASSUME NEW o \in Outs
                   PROVE  /\ Outcome(o) /\ o.f = g
                          /\ o.status = "Continue" => source \in Addresses /\ Allowed(g.config, source)
        BY Zenon
      <3>2. CASE source \in Addresses /\ Allowed(g.config, source)
        <4>1. o = Returns("Continue", g)
          BY <3>2, Zenon
        <4>2. Outcome(o) /\ o.f = g
          BY <3>1, <4>1, ReturnsIs
        <4> QED  BY Zenon, <3>2, <4>2
      <3>3. CASE ~(source \in Addresses /\ Allowed(g.config, source))
        <4>1. o = Replies("Stop", 403, g)
          BY <3>3, Zenon
        <4>2. Outcome(o) /\ o.f = g /\ o.status = "Stop"
          BY <3>1, <4>1, RepliesIs
        <4> QED  BY Zenon, <4>2
      <3> QED  BY <3>2, <3>3, Zenon
    <2> HIDE DEF Outs
    <2>7. /\ OnlyStream(s)
          /\ \E o \in Outs : filter'[s] = o.f /\ Moved(m, n, "req", o)
      BY <2>3, <2>6, OnHeadersMoves
    <2>8. PICK o \in Outs : filter'[s] = o.f /\ Moved(m, n, "req", o)
      BY Zenon, <2>7
    <2>9. ~n.spurious /\ n.req.at # "idle" /\ (n.req.seen <=> o.status = "Continue")
      BY <2>4, <2>8, Zenon DEF Moved
    <2>10. source \in Addresses /\ Allowed(g.config, source) => IpApproved(g)
      BY <2>5, <1>3, Zenon DEF IpApproved
    <2>11. IpSound(g, n)
      BY <2>5, <2>6, <2>9, <2>10, Zenon DEF IpSound
    <2> QED  BY <2>3, <2>6, <2>7, <2>8, <2>11
  <1> QED  BY Zenon, <1>4

(***************************************************************************)
(* The streams together.                                                   *)
(***************************************************************************)

GuardKinds ==
    {"bare", "opa", "cedar", "openfga", "token", "openapi", "ip", "azure", "bedrock", "waf", "saml"}

GuardSound(f, m) ==
    /\ f.kind \in GuardKinds
    /\ f.kind = "bare" => f = Bare /\ m = Closed
    /\ f.kind = "opa" => OpaSound(f, m)
    /\ f.kind = "cedar" => CedarSound(f, m)
    /\ f.kind = "openfga" => OpenFgaSound(f, m)
    /\ f.kind = "token" => TokenSound(f, m)
    /\ f.kind = "openapi" => OpenApiSound(f, m)
    /\ f.kind = "ip" => IpSound(f, m)
    /\ f.kind = "azure" => AzureSound(f, m)
    /\ f.kind = "bedrock" => BedrockSound(f, m)
    /\ f.kind = "waf" => WafSound(f, m)
    /\ f.kind = "saml" => SamlSound(f, m)

(* The inductive invariant of the streams. *)
GuardInv == Streamed /\ Sessions /\ \A s \in Streams : GuardSound(filter[s], stream[s])

(* A filter is of one plugin. *)
LEMMA KindsAre ==
    ASSUME NEW f, NEW m
    PROVE  /\ OpaSound(f, m) => f.kind = "opa"
           /\ CedarSound(f, m) => f.kind = "cedar"
           /\ OpenFgaSound(f, m) => f.kind = "openfga"
           /\ TokenSound(f, m) => f.kind = "token"
           /\ OpenApiSound(f, m) => f.kind = "openapi"
           /\ IpSound(f, m) => f.kind = "ip"
           /\ AzureSound(f, m) => f.kind = "azure"
           /\ BedrockSound(f, m) => f.kind = "bedrock"
           /\ WafSound(f, m) => f.kind = "waf"
           /\ SamlSound(f, m) => f.kind = "saml"
  <1>1. OpaSound(f, m) => f.kind = "opa"
    BY Zenon DEF OpaSound, OpaFilters
  <1>2. CedarSound(f, m) => f.kind = "cedar"
    BY Zenon DEF CedarSound, CedarFilters
  <1>3. OpenFgaSound(f, m) => f.kind = "openfga"
    BY Zenon DEF OpenFgaSound, OpenFgaFilters
  <1>4. TokenSound(f, m) => f.kind = "token"
    BY Zenon DEF TokenSound, TokenFilters
  <1>5. OpenApiSound(f, m) => f.kind = "openapi"
    BY Zenon DEF OpenApiSound, OpenApiFilters
  <1>6. IpSound(f, m) => f.kind = "ip"
    BY Zenon DEF IpSound, IpFilters
  <1>7. AzureSound(f, m) => f.kind = "azure"
    BY Zenon DEF AzureSound, AzureFilters
  <1>8. BedrockSound(f, m) => f.kind = "bedrock"
    BY Zenon DEF BedrockSound, BedrockObject
  <1>9. WafSound(f, m) => f.kind = "waf"
    BY Zenon DEF WafSound, WafCore, WafFilters
  <1>10. SamlSound(f, m) => f.kind = "saml"
    BY Zenon DEF SamlSound, SamlFilters
  <1> QED  BY <1>1, <1>2, <1>3, <1>4, <1>5, <1>6, <1>7, <1>8, <1>9, <1>10, ZenonT(60)

(* A filter that decides without a session of the SAML plugin. *)
Plain(f, m) ==
    \/ OpaSound(f, m) \/ CedarSound(f, m) \/ OpenFgaSound(f, m) \/ TokenSound(f, m)
    \/ OpenApiSound(f, m) \/ IpSound(f, m) \/ AzureSound(f, m) \/ BedrockSound(f, m)
    \/ WafSound(f, m)

(* A filter that is sound for its plugin. *)
LEMMA PlainIsSound ==
    ASSUME NEW f, NEW m
    PROVE  /\ Plain(f, m) => GuardSound(f, m) /\ f.kind # "saml" /\ f.kind # "bare"
           /\ SamlSound(f, m) => GuardSound(f, m)
  BY KindsAre DEF Plain, GuardSound, GuardKinds

(* A step of one stream leaves the others as they were. *)
LEMMA OneMoves ==
    ASSUME GuardInv, NEW s \in Streams, OnlyStream(s), Sessions', GuardSound(filter'[s], stream'[s])
    PROVE  GuardInv'
  <1>1. Streamed'
    BY Zenon DEF OnlyStream, Streamed
  <1>2. ASSUME NEW t \in Streams
        PROVE  GuardSound(filter'[t], stream'[t])
    <2>1. CASE t = s
      BY Zenon, <2>1
    <2>2. CASE t # s
      <3>1. filter'[t] = filter[t] /\ stream'[t] = stream[t]
        BY Zenon, <2>2 DEF OnlyStream
      <3> QED  BY Zenon, <3>1 DEF GuardInv
    <2> QED  BY Zenon, <2>1, <2>2
  <1> QED  BY <1>1, <1>2, Zenon DEF GuardInv

(* A step of a plugin whose streams share nothing. *)
LEMMA PlainMoves ==
    ASSUME GuardInv, NEW s \in Streams, OnlyStream(s), shared' = shared,
           filter[s].kind # "saml", Plain(filter'[s], stream'[s])
    PROVE  GuardInv'
  <1>1. GuardSound(filter'[s], stream'[s]) /\ filter'[s].kind # "saml" /\ Sessions
    BY Zenon, PlainIsSound DEF GuardInv
  <1>2. Sessions'
    BY <1>1, SessionsGoOn, Zenon
  <1> QED  BY Zenon, <1>1, <1>2, OneMoves

(* A stream as it begins, and one that is over. *)
LEMMA OpenedIs ==
    /\ Opened \in StreamType /\ Closed \in StreamType
    /\ Opened.req.at = "idle" /\ ~Opened.req.seen /\ Opened.req.chunks = 0 /\ Opened.req.flow = "open"
    /\ Opened.resp.at = "idle" /\ ~Opened.resp.seen
    /\ ~Opened.spurious /\ Opened.up /\ ~Opened.foreign
    /\ ~Closed.req.seen /\ ~Closed.resp.seen /\ ~Closed.spurious /\ ~Closed.up
  <1>1. Fresh \in Message
    BY ChunksAssumption DEF Fresh, Message
  <1>2. Opened \in StreamType
    BY <1>1, Zenon DEF Opened, StreamType
  <1> QED  BY <1>2, ChunksAssumption, Zenon DEF Opened, Closed, Fresh, StreamType

(* A value for each direction. *)
LEMMA BothWays ==
    ASSUME NEW S, NEW a \in S, NEW b \in S, NEW p, p = [req |-> a, resp |-> b]
    PROVE  p \in [{"req", "resp"} -> S] /\ p.req = a /\ p.resp = b
  <1>1. DOMAIN p = {"req", "resp"} /\ p.req = a /\ p.resp = b
    OBVIOUS
  <1>2. p = [d \in {"req", "resp"} |-> p[d]]
    BY Zenon, <1>1
  <1> QED  BY <1>1, <1>2, Zenon

(* The empty sequence. *)
LEMMA NothingYet ==
    ASSUME NEW S
    PROVE  << >> \in Seq(S) /\ Len(<< >>) = 0
  OBVIOUS

(* Every plugin begins with a sound filter. *)
LEMMA ConfigsSound ==
    ASSUME NEW c \in GuardConfigs
    PROVE  Plain(c, Opened)
  <1>1. CASE c \in OpaConfigs
    <2>1. c \in OpaFilters /\ ~c.requestProcessed /\ c.decision = None /\ c.counted = << >>
      BY <1>1, NothingYet, ZenonT(60) DEF OpaConfigs, OpaFilters
    <2>2. OpaSound(c, Opened)
      BY <2>1, NothingYet, OpenedIs, Zenon DEF OpaSound
    <2> QED  BY <2>2, Zenon DEF Plain
  <1>2. CASE c \in CedarConfigs
    <2>1. c \in CedarFilters /\ c.decision = None /\ c.counted = << >>
      BY <1>2, NothingYet, Zenon DEF CedarConfigs, CedarFilters
    <2>2. CedarSound(c, Opened)
      BY <2>1, NothingYet, OpenedIs, Zenon DEF CedarSound
    <2> QED  BY <2>2, Zenon DEF Plain
  <1>3. CASE c \in OpenFgaConfigs
    <2>1. c \in OpenFgaFilters /\ ~c.callout /\ c.decision = None /\ c.counted = << >>
      BY <1>3, NothingYet, ZenonT(60) DEF OpenFgaConfigs, OpenFgaFilters
    <2>2. OpenFgaSound(c, Opened)
      BY <2>1, OpenedIs, Zenon DEF OpenFgaSound
    <2> QED  BY <2>2, Zenon DEF Plain
  <1>4. CASE c \in TokenConfigs
    <2>1. c \in TokenFilters /\ ~c.callout /\ c.exchanges = 0 /\ c.counted = << >>
      BY <1>4, NothingYet, ZenonT(60) DEF TokenConfigs, TokenFilters
    <2>2. TokenSound(c, Opened)
      BY <2>1, NothingYet, OpenedIs, Zenon DEF TokenSound
    <2> QED  BY <2>2, Zenon DEF Plain
  <1>5. CASE c \in OpenApiConfigs
    <2>1. 0 \in 0..MaxChunks /\ None # "bodiless" /\ None # "valid"
      BY ChunksAssumption, OpenApiAssumption
    <2>2. /\ c \in OpenApiFilters /\ c.route = None /\ ~c.unbuildable /\ c.verdict = None
          /\ ~c.requestProcessed /\ c.bodySize = 0 /\ c.maxBody \in {0, 1}
      BY <1>5, <2>1, Zenon DEF OpenApiConfigs, OpenApiFilters
    <2>3. c.maxBody > 0 => 0 <= c.maxBody
      BY <2>2
    <2>4. OpenApiSound(c, Opened)
      BY <2>1, <2>2, <2>3, OpenedIs, Zenon DEF OpenApiSound
    <2> QED  BY <2>4, Zenon DEF Plain
  <1>6. CASE c \in IpConfigs
    <2>1. IpSound(c, Opened)
      BY <1>6, OpenedIs DEF IpConfigs, IpFilters, IpSound, Sources
    <2> QED  BY <2>1, Zenon DEF Plain
  <1>7. CASE c \in AzureConfigs
    <2>1. PICK p : p = [req |-> FALSE, resp |-> FALSE]
      BY Zenon
    <2>2. PICK v : v = [req |-> None, resp |-> None]
      BY Zenon
    <2>3. /\ None \in Jobs /\ None \in Verdict /\ FALSE \in BOOLEAN
      BY Zenon DEF Jobs, Verdict
    <2>4. /\ v \in [{"req", "resp"} -> Jobs] /\ v \in [{"req", "resp"} -> Verdict]
          /\ p \in [{"req", "resp"} -> BOOLEAN]
          /\ v.req = None /\ v.resp = None /\ ~p.req /\ ~p.resp
      BY <2>1, <2>2, <2>3, BothWays, Zenon
    <2>5. c \in AzureFilters /\ c.processed = p /\ c.job = v /\ c.verdict = v /\ c.counted = << >>
      <3>1. c \in [kind : {"azure"}, block : BOOLEAN, failOpen : BOOLEAN,
                   second : [{"req", "resp"} -> BOOLEAN], processed : {p}, job : {v},
                   verdict : {v}, counted : {<< >>}]
        BY <1>7, <2>1, <2>2, Zenon DEF AzureConfigs
      <3>2. /\ {p} \subseteq [{"req", "resp"} -> BOOLEAN] /\ {v} \subseteq [{"req", "resp"} -> Jobs]
            /\ {v} \subseteq [{"req", "resp"} -> Verdict] /\ {<< >>} \subseteq Seq(AzureDecisions)
        BY <2>4, NothingYet, Zenon
      <3> QED  BY <3>1, <3>2, Zenon DEF AzureFilters
    <2>6. Len(<< >>) = 0 + 0
      OBVIOUS
    <2>7. AzureSound(c, Opened)
      BY <2>4, <2>5, <2>6, OpenedIs, Zenon DEF AzureSound, AzureWay, Analyses
    <2> QED  BY <2>7, Zenon DEF Plain
  <1>8. CASE c \in BedrockConfigs
    <2>1. 0 \in Nat /\ 0..MaxGuardrails \subseteq Nat
      BY BedrockAssumption
    <2>2. /\ c \in BedrockObject /\ c.index = 0 /\ c.asked = 0 /\ c.masked = << >> /\ c.buffer = << >>
          /\ ~c.skipped
      BY <1>8, <2>1, NothingYet, ZenonT(60) DEF BedrockConfigs, BedrockObject
    <2>3. BedrockSound(c, Opened)
      BY <2>2, OpenedIs, Zenon DEF BedrockSound
    <2> QED  BY <2>3, Zenon DEF Plain
  <1>9. CASE c \in WafConfigs
    <2>1. NoBody \in [{"req", "resp"} -> BOOLEAN]
      <3>1. FALSE \in BOOLEAN
        OBVIOUS
      <3> QED  BY <3>1, BothWays, Zenon DEF NoBody
    <2>2. ~NoBody.resp /\ 0 \in Nat /\ None # "live" /\ None # "released"
      BY Zenon, WafAssumption DEF NoBody
    <2>3. /\ c \in WafFilters /\ ~c.misused /\ c.tx = None /\ c.created = 0 /\ c.released = 0
          /\ ~c.txDone /\ c.recorded = 0 /\ c.processed = NoBody
      BY <1>9, <2>1, <2>2, Zenon DEF WafConfigs, WafFilters
    <2>4. WafSound(c, Opened)
      BY <2>2, <2>3, OpenedIs, Zenon DEF WafCore, WafSound
    <2> QED  BY <2>4, Zenon DEF Plain
  <1> QED  BY <1>1, <1>2, <1>3, <1>4, <1>5, <1>6, <1>7, <1>8, <1>9, Zenon DEF GuardConfigs

(* The invariant holds initially. *)
LEMMA GuardStarts ==
    ASSUME GuardInit
    PROVE  GuardInv
  <1> DEFINE names == {"active", "idp", "token", "engines", "loads", "sampling"}
  <1>1. DOMAIN Unshared = names /\ Unshared.token = None
    BY Zenon DEF Unshared
  <1>2. CASE \E c \in GuardConfigs : Installed(c)
    <2>1. PICK c \in GuardConfigs : Installed(c)
      BY Zenon, <1>2
    <2>2. /\ Plain(c, Opened) /\ GuardSound(c, Opened) /\ c.kind # "saml"
      BY Zenon, ConfigsSound, PlainIsSound
    <2>3. Bare.kind = "bare" /\ GuardSound(Bare, Closed)
      BY Zenon DEF Bare, GuardSound, GuardKinds
    <2>4. \A s \in Streams : \/ filter[s] = c /\ stream[s] = Opened
                             \/ filter[s] = Bare /\ stream[s] = Closed
      BY <2>1, Zenon DEF Installed
    <2>5. Streamed
      BY <2>1, OpenedIs, Zenon DEF Installed, Streamed
    <2>6. \A s \in Streams : GuardSound(filter[s], stream[s]) /\ filter[s].kind # "saml"
      BY Zenon, <2>2, <2>3, <2>4
    <2>7. shared = Unshared
      BY Zenon, <2>1 DEF Installed
    <2> QED  BY <1>1, <2>5, <2>6, <2>7, Zenon DEF GuardInv, Sessions
  <1>3. CASE /\ filter \in [Streams -> SamlConfigs]
             /\ stream = [s \in Streams |-> Opened]
             /\ \E idp \in Created : shared = [Unshared EXCEPT !.idp = idp]
    <2>1. DOMAIN shared = names /\ shared.token = None
      BY Zenon, <1>1, <1>3
    <2>2. "session" # None
      BY Zenon, SamlAssumption
    <2>3. ASSUME NEW s \in Streams
          PROVE  SamlSound(filter[s], stream[s]) /\ filter[s].by = None
      <3>1. stream[s] = Opened /\ filter[s] \in SamlConfigs
        BY Zenon, <1>3
      <3>2. filter[s] \in SamlFilters /\ filter[s].by = None
        BY <3>1, Zenon DEF SamlConfigs, SamlFilters
      <3> QED  BY <3>1, <3>2, OpenedIs, Zenon DEF SamlSound
    <2>4. Streamed
      BY <1>3, OpenedIs, Zenon DEF Streamed
    <2>5. \A s \in Streams : GuardSound(filter[s], stream[s])
      BY Zenon, <2>3, PlainIsSound
    <2> QED  BY <2>1, <2>2, <2>3, <2>4, <2>5, Zenon DEF GuardInv, Sessions
  <1> QED  BY <1>2, <1>3, Zenon DEF GuardInit

(* Steps of the authorization and validation plugins keep the invariant. *)
LEMMA AuthorizationKeeps ==
    ASSUME GuardInv, NEW s \in Streams, AuthorizationStep(s)
    PROVE  GuardInv'
  <1> DEFINE f == filter[s]
             m == stream[s]
  <1>1. Streamed /\ GuardSound(f, m)
    BY Zenon DEF GuardInv
  <1>2. CASE OpaOnRequestHeaders(s) \/ OpaOnRequestBody(s) \/ OpaOnRequestTrailers(s)
    <2>1. f.kind = "opa"
      BY Zenon, <1>2 DEF OpaOnRequestHeaders, OpaOnRequestBody, OpaOnRequestTrailers, OpaMine
    <2>2. OpaSound(f, m)
      BY Zenon, <1>1, <2>1 DEF GuardSound
    <2>3. OnlyStream(s) /\ OpaSound(filter'[s], stream'[s]) /\ shared' = shared
      BY Zenon, <1>1, <1>2, <2>2, OpaKeeps
    <2> QED  BY Zenon, <2>1, <2>3, PlainMoves DEF Plain
  <1>3. CASE CedarOnRequestHeaders(s)
    <2>1. f.kind = "cedar"
      BY Zenon, <1>3 DEF CedarOnRequestHeaders
    <2>2. CedarSound(f, m)
      BY Zenon, <1>1, <2>1 DEF GuardSound
    <2>3. OnlyStream(s) /\ CedarSound(filter'[s], stream'[s]) /\ shared' = shared
      BY Zenon, <1>1, <1>3, <2>2, CedarKeeps
    <2> QED  BY Zenon, <2>1, <2>3, PlainMoves DEF Plain
  <1>4. CASE OpenFgaOnRequestHeaders(s) \/ OpenFgaOnHttpCalloutDone(s)
    <2>1. f.kind = "openfga"
      BY Zenon, <1>4 DEF OpenFgaOnRequestHeaders, OpenFgaOnHttpCalloutDone, OpenFgaMine
    <2>2. OpenFgaSound(f, m)
      BY Zenon, <1>1, <2>1 DEF GuardSound
    <2>3. OnlyStream(s) /\ OpenFgaSound(filter'[s], stream'[s]) /\ shared' = shared
      BY <1>1, <1>4, <2>2, OpenFgaKeeps, Zenon
    <2> QED  BY Zenon, <2>1, <2>3, PlainMoves DEF Plain
  <1>5. CASE TokenOnRequestHeaders(s) \/ TokenOnHttpCalloutDone(s)
    <2>1. f.kind = "token"
      BY Zenon, <1>5 DEF TokenOnRequestHeaders, TokenOnHttpCalloutDone, TokenMine
    <2>2. TokenSound(f, m)
      BY <1>1, <2>1, SMTT(60) DEF GuardSound
    <2>3. OnlyStream(s) /\ TokenSound(filter'[s], stream'[s]) /\ shared' = shared
      BY Zenon, <1>1, <1>5, <2>2, TokenKeeps
    <2> QED  BY Zenon, <2>1, <2>3, PlainMoves DEF Plain
  <1>6. CASE \/ OpenApiOnRequestHeaders(s) \/ OpenApiOnRequestBody(s)
             \/ OpenApiOnRequestTrailers(s) \/ Panics(s)
    <2>1. f.kind = "openapi"
      BY Zenon, <1>6 DEF OpenApiOnRequestHeaders, OpenApiOnRequestBody, OpenApiOnRequestTrailers, Panics,
         OpenApiMine
    <2>2. OpenApiSound(f, m)
      BY ZenonT(60), <1>1, <2>1 DEF GuardSound
    <2>3. OnlyStream(s) /\ OpenApiSound(filter'[s], stream'[s]) /\ shared' = shared
      BY <1>1, <1>6, <2>2, OpenApiKeeps
    <2> QED  BY Zenon, <2>1, <2>3, PlainMoves DEF Plain
  <1>7. CASE on_request_headers(s)
    <2>1. f.kind = "ip"
      BY Zenon, <1>7 DEF on_request_headers, IpMine
    <2>2. IpSound(f, m)
      BY Zenon, <1>1, <2>1 DEF GuardSound
    <2>3. OnlyStream(s) /\ IpSound(filter'[s], stream'[s]) /\ shared' = shared
      BY Zenon, <1>1, <1>7, <2>2, IpKeeps
    <2> QED  BY Zenon, <2>1, <2>3, PlainMoves DEF Plain
  <1> QED  BY <1>2, <1>3, <1>4, <1>5, <1>6, <1>7, Zenon DEF AuthorizationStep

(* Steps of the content-safety plugins and of the WAF keep the invariant. *)
LEMMA InspectionKeeps ==
    ASSUME GuardInv, NEW s \in Streams, AzureStep(s) \/ BedrockStep(s) \/ WafStep(s)
    PROVE  GuardInv'
  <1> DEFINE f == filter[s]
             m == stream[s]
  <1>1. Streamed /\ GuardSound(f, m)
    BY Zenon DEF GuardInv
  <1>2. CASE AzureStep(s)
    <2>1. f.kind = "azure"
      BY <1>2, ZenonT(60) DEF AzureStep, AzureOnRequestHeaders, AzureOnRequestBody,
         AzureOnRequestTrailers,
             AzureOnResponseHeaders, AzureOnResponseBody, AzureOnResponseTrailers,
             AzureLocalReplyElsewhere, analyzeRequest, analyzeResponse, ScheduledRequest,
             ScheduledResponse, AzureMine
    <2>2. AzureSound(f, m)
      BY Zenon, <1>1, <2>1 DEF GuardSound
    <2>3. OnlyStream(s) /\ AzureSound(filter'[s], stream'[s]) /\ shared' = shared
      BY Zenon, <1>1, <1>2, <2>2, AzureKeeps
    <2> QED  BY <2>1, <2>3, PlainMoves, Zenon DEF Plain
  <1>3. CASE BedrockStep(s)
    <2>1. f.kind = "bedrock"
      BY <1>3, ZenonT(60) DEF BedrockStep, BedrockOnRequestHeaders, BedrockOnRequestBody,
             BedrockOnRequestTrailers, BedrockOnHttpCalloutDone, BedrockMine
    <2>2. BedrockSound(f, m)
      BY Zenon, <1>1, <2>1 DEF GuardSound
    <2>3. OnlyStream(s) /\ BedrockSound(filter'[s], stream'[s]) /\ shared' = shared
      BY Zenon, <1>1, <1>3, <2>2, BedrockKeeps
    <2> QED  BY Zenon, <2>1, <2>3, PlainMoves DEF Plain
  <1>4. CASE WafStep(s)
    <2>1. f.kind = "waf"
      BY <1>4, ZenonT(60) DEF WafStep, WafOnRequestHeaders, WafOnRequestBody, WafOnRequestTrailers,
             WafOnResponseHeaders, WafOnResponseBody, WafOnResponseTrailers,
             WafLocalReplyElsewhere, WafOnStreamComplete, WafMine
    <2>2. WafSound(f, m)
      BY Zenon, <1>1, <2>1 DEF GuardSound
    <2>3. OnlyStream(s) /\ WafSound(filter'[s], stream'[s]) /\ shared' = shared
      BY Zenon, <1>1, <1>4, <2>2, WafKeeps
    <2> QED  BY Zenon, <2>1, <2>3, PlainMoves DEF Plain
  <1> QED  BY Zenon, <1>2, <1>3, <1>4

(* Steps of the SAML plugin keep the invariant. *)
LEMMA SignOnKeeps ==
    ASSUME GuardInv, NEW s \in Streams, SamlStep(s)
    PROVE  GuardInv'
  <1>1. filter[s].kind = "saml"
    BY Zenon DEF SamlStep, SamlOnRequestHeaders, SamlOnRequestBody, SamlOnRequestTrailers, SamlMine
  <1>2. Streamed /\ Sessions /\ SamlSound(filter[s], stream[s])
    BY Zenon, <1>1 DEF GuardInv, GuardSound
  <1>3. OnlyStream(s) /\ SamlSound(filter'[s], stream'[s]) /\ Sessions'
    BY Zenon, <1>2, SamlKeeps
  <1>4. GuardSound(filter'[s], stream'[s])
    BY Zenon, <1>3, PlainIsSound
  <1> QED  BY Zenon, <1>3, <1>4, OneMoves

(* The end of a stream keeps the invariant. *)
LEMMA EndKeeps ==
    ASSUME GuardInv, NEW s \in Streams, StreamEnds(s)
    PROVE  GuardInv'
  <1> DEFINE f == filter[s]
             m == stream[s]
             n == stream'[s]
  <1>1. /\ f.kind # "waf" /\ shared' = shared /\ m.up
        /\ stream' = [stream EXCEPT ![s].up = FALSE] /\ filter' = [filter EXCEPT ![s] = filter[s]]
    BY Zenon DEF StreamEnds, Ends
  <1>2. Streamed /\ Sessions /\ GuardSound(f, m)
    BY Zenon DEF GuardInv
  <1>3. /\ OnlyStream(s) /\ filter'[s] = f
        /\ n.req = m.req /\ n.resp = m.resp /\ n.spurious = m.spurious /\ n.reply = m.reply
    BY <1>1, <1>2, Zenon DEF Streamed, OnlyStream, StreamType
  <1>4. GuardSound(f, n)
    <2>1. f.kind # "bare"
      BY <1>1, <1>2, OpenedIs, Zenon DEF GuardSound
    <2>2. OpaSound(f, m) => OpaSound(f, n)
      BY <1>3, Zenon DEF OpaSound
    <2>3. CedarSound(f, m) => CedarSound(f, n)
      BY <1>3, Zenon DEF CedarSound
    <2>4. OpenFgaSound(f, m) => OpenFgaSound(f, n)
      BY <1>3, Zenon DEF OpenFgaSound
    <2>5. TokenSound(f, m) => TokenSound(f, n)
      BY <1>3, Zenon DEF TokenSound
    <2>6. OpenApiSound(f, m) => OpenApiSound(f, n)
      BY <1>3, Zenon DEF OpenApiSound
    <2>7. IpSound(f, m) => IpSound(f, n)
      BY <1>3, Zenon DEF IpSound
    <2>8. AzureSound(f, m) => AzureSound(f, n)
      BY <1>3, Zenon DEF AzureSound
    <2>9. BedrockSound(f, m) => BedrockSound(f, n)
      BY <1>3, Zenon DEF BedrockSound
    <2>10. SamlSound(f, m) => SamlSound(f, n)
      BY <1>3, Zenon DEF SamlSound
    <2> QED  BY <1>1, <1>2, <2>1, <2>2, <2>3, <2>4, <2>5, <2>6, <2>7, <2>8, <2>9, <2>10,
       ZenonT(60) DEF GuardSound
  <1>5. Sessions'
    <2>1. SamlLater(f, f)
      BY Zenon DEF SamlLater
    <2> QED  BY <1>1, <1>2, <1>3, <2>1, SessionsGoOn, ZenonT(60)
  <1> QED  BY Zenon, <1>3, <1>4, <1>5, OneMoves

(* The invariant is inductive. *)
LEMMA GuardInductive ==
    ASSUME GuardInv, [GuardNext]_vars
    PROVE  GuardInv'
  <1>1. CASE SessionStep
    <2>1. stream' = stream /\ filter' = filter /\ Sessions'
      BY Zenon, <1>1, SessionsLast DEF GuardInv
    <2> QED  BY <2>1, Zenon DEF GuardInv, Streamed
  <1>2. CASE \E s \in Streams : GuardStep(s)
    BY <1>2, AuthorizationKeeps, InspectionKeeps, SignOnKeeps, Zenon DEF GuardStep
  <1>3. CASE \E s \in Streams : StreamEnds(s)
    BY Zenon, <1>3, EndKeeps
  <1>4. CASE UNCHANGED vars
    <2>1. stream' = stream /\ filter' = filter /\ shared' = shared
      BY Zenon, <1>4 DEF vars
    <2> QED  BY <2>1, Zenon DEF GuardInv, Streamed, Sessions
  <1> QED  BY <1>1, <1>2, <1>3, <1>4, Zenon DEF GuardNext

(* The invariant holds throughout. *)
LEMMA GuardInvHolds == GuardSpec => []GuardInv
  BY GuardStarts, GuardInductive, PTL DEF GuardSpec

(* No part of a message moves past a guard that has not approved the whole *)
(* message, in whatever frames it comes and whenever callouts and goroutines *)
(* answer (NoBypass), for any number of streams, chunks and guardrails.    *)
THEOREM NothingBypasses == GuardSpec => []NoBypass
  <1>1. ASSUME GuardInv
        PROVE  NoBypass
    <2> SUFFICES ASSUME NEW s \in Streams, NEW dir \in {"req", "resp"}, stream[s][dir].seen
                 PROVE  Accepts(s, dir)
      BY Zenon DEF NoBypass
    <2> DEFINE f == filter[s]
               m == stream[s]
    <2>1. GuardSound(f, m) /\ Sessions
      BY Zenon, <1>1 DEF GuardInv
    <2>2. f.kind = "opa" /\ dir = "req" => OpaApproved(f)
      BY <2>1, Zenon DEF GuardSound, OpaSound
    <2>3. f.kind = "cedar" /\ dir = "req" => CedarApproved(f)
      BY <2>1, Zenon DEF GuardSound, CedarSound
    <2>4. f.kind = "openfga" /\ dir = "req" => OpenFgaApproved(f)
      BY <2>1, Zenon DEF GuardSound, OpenFgaSound
    <2>5. f.kind = "token" /\ dir = "req" => TokenApproved(f)
      BY <2>1, Zenon DEF GuardSound, TokenSound
    <2>6. f.kind = "bedrock" /\ dir = "req" => BedrockApproved(f)
      BY <2>1, Zenon DEF GuardSound, BedrockSound
    <2>7. f.kind = "azure" => AzureApproved(f, dir)
      BY <2>1, Zenon DEF GuardSound, AzureSound, AzureWay
    <2>8. f.kind = "openapi" /\ dir = "req" => OpenApiApproved(s)
      BY <2>1, Zenon DEF GuardSound, OpenApiSound, OpenApiPasses, OpenApiApproved
    <2>9. f.kind = "ip" /\ dir = "req" => IpApproved(f)
      BY <2>1, Zenon DEF GuardSound, IpSound
    <2>10. f.kind = "waf" => WafApproved(f, dir)
      BY <2>1, Zenon DEF GuardSound, WafSound
    <2>11. f.kind = "saml" /\ dir = "req" => SamlApproved(f)
      <3> SUFFICES ASSUME f.kind = "saml", dir = "req"
                   PROVE  SamlApproved(f)
        OBVIOUS
      <3>1. f \in SamlFilters /\ f.by # None
        BY <2>1, Zenon DEF GuardSound, SamlSound
      <3>2. f.by \in {"bypass", "session"}
        BY <3>1, Zenon DEF SamlFilters
      <3>3. f.by = "session" => Vouched(filter, f.cfg)
        BY Zenon, <2>1 DEF Sessions
      <3> QED  BY <3>2, <3>3, Zenon DEF SamlApproved, Vouched
    <2> QED  BY <2>2, <2>3, <2>4, <2>5, <2>6, <2>7, <2>8, <2>9, <2>10, <2>11, ZenonT(60) DEF Accepts
  <1> QED  BY <1>1, GuardInvHolds, PTL

(* A guard resumes or answers outside of a callback only what it holds, so *)
(* nothing twice (ContinueRequest, ContinueResponse, SendLocalResponse).   *)
THEOREM HeldResumedOnce == GuardSpec => []ResumedOnce
  <1>1. ASSUME GuardInv
        PROVE  ResumedOnce
    <2> SUFFICES ASSUME NEW s \in Streams
                 PROVE  ~stream[s].spurious
      BY Zenon DEF ResumedOnce
    <2>1. GuardSound(filter[s], stream[s])
      BY Zenon, <1>1 DEF GuardInv
    <2>2. CASE filter[s].kind = "bare"
      BY <2>1, <2>2, OpenedIs, Zenon DEF GuardSound
    <2>3. CASE filter[s].kind # "bare"
      BY <2>1, <2>3, ZenonT(60) DEF GuardSound, GuardKinds, OpaSound, CedarSound, OpenFgaSound,
         TokenSound,
         OpenApiSound, IpSound, AzureSound, BedrockSound, WafSound, SamlSound
    <2> QED  BY Zenon, <2>2, <2>3
  <1> QED  BY <1>1, GuardInvHolds, PTL

(* Every decision of opa, cedar, openfga, token-exchange and               *)
(* azure-content-safety is counted exactly once (CountedOnce).             *)
THEOREM DecisionsCountedOnce == GuardSpec => []CountedOnce
  <1>1. ASSUME GuardInv
        PROVE  CountedOnce
    <2> SUFFICES ASSUME NEW s \in Streams
                 PROVE  LET f == filter[s] IN
                        /\ f.kind \in {"opa", "cedar"} =>
                             /\ Len(f.counted) <= 1
                             /\ f.decision # None /\ ~f.dryRun => Len(f.counted) = 1
                        /\ f.kind = "openfga" =>
                             f.counted = IF f.decision = None THEN << >> ELSE <<f.metadata>>
                        /\ f.kind = "token" => Len(f.counted) = IF f.callout THEN 0 ELSE f.exchanges
                        /\ f.kind = "azure" =>
                             LET analyses(dir) == IF f.verdict[dir] \in {None, "skip"} THEN 0 ELSE 1
                             IN  Len(f.counted) = analyses("req") + analyses("resp")
      BY Zenon DEF CountedOnce
    <2> DEFINE f == filter[s]
               m == stream[s]
    <2>1. GuardSound(f, m)
      BY <1>1 DEF GuardInv
    <2>2. CASE f.kind \in {"opa", "cedar"}
      <3>1. Len(f.counted) = IF f.decision = None \/ (f.dryRun /\ f.decision = "allow") THEN 0 ELSE 1
        BY <2>1, <2>2, ZenonT(60) DEF GuardSound, OpaSound, CedarSound
      <3> QED  BY <2>2, <3>1
    <2>3. CASE f.kind = "openfga"
      BY <2>1, <2>3, ZenonT(60) DEF GuardSound, OpenFgaSound
    <2>4. CASE f.kind = "token"
      BY <2>1, <2>4, ZenonT(60) DEF GuardSound, TokenSound
    <2>5. CASE f.kind = "azure"
      BY <2>1, <2>5, Zenon DEF GuardSound, AzureSound, Analyses
    <2> QED  BY <2>2, <2>3, <2>4, <2>5, ZenonT(60)
  <1> QED  BY <1>1, GuardInvHolds, PTL

(* The WAF uses, records and releases its transaction exactly as often as  *)
(* it creates it, through any order of frames and any end of the stream.   *)
THEOREM TransactionsStaySound == GuardSpec => []TransactionsSound
  <1>1. ASSUME GuardInv
        PROVE  TransactionsSound
    <2>1. ASSUME NEW s \in Streams, filter[s].kind = "waf"
          PROVE  WafSound(filter[s], stream[s])
      BY Zenon, <1>1, <2>1 DEF GuardInv, GuardSound
    <2>2. NoUseAfterRelease
      BY <2>1, Zenon DEF NoUseAfterRelease, WafSound, WafCore
    <2>3. ASSUME NEW s \in Streams, filter[s].kind = "waf"
          PROVE  LET f == filter[s]
                 IN  /\ f.released <= f.created /\ f.recorded <= f.created
                     /\ ~stream[s].up =>
                          f.released = f.created /\ (~f.off => f.recorded = f.created)
      <3> DEFINE f == filter[s]
      <3>1. f.tx \in {None, "live", "released"} /\ WafCore(f) /\ (~stream[s].up => f.tx # "live")
        BY <2>1, <2>3, Zenon DEF WafSound, WafCore, WafFilters
      <3> QED  BY <3>1 DEF WafCore
    <2> QED  BY <2>2, <2>3, ZenonT(60) DEF TransactionsSound, TransactionsClosed
  <1> QED  BY <1>1, GuardInvHolds, PTL
================================================================================
