-------------------------- MODULE ContentGuardsProofs --------------------------
(***************************************************************************)
(* What each step of the guards that look into messages keeps true: of     *)
(* azure-content-safety, bedrock-guardrails, the WAF and SAML.  There is   *)
(* one invariant for each plugin, about the filter of a stream and the     *)
(* stream's messages (AzureSound, BedrockSound, WafSound, SamlSound), and  *)
(* one about the sessions that streams of the SAML plugin share; and one   *)
(* lemma for each plugin, which says that its steps keep them.  The first  *)
(* lemmas say what a callback does to a stream, whatever the plugin.       *)
(***************************************************************************)
EXTENDS AzureContentSafety, BedrockGuardrails, Waf, Saml, TLAPS

Status == {"Continue", "Stop", "StopAndBuffer", "StopNoBuffer", "StopAllAndBuffer"}

Streamed == stream \in [Streams -> StreamType] /\ DOMAIN filter = Streams

(* s is the only stream that moves. *)
OnlyStream(s) ==
    /\ stream' \in [Streams -> StreamType] /\ DOMAIN filter' = Streams
    /\ \A t \in Streams \ {s} : stream'[t] = stream[t] /\ filter'[t] = filter[t]

(* After moves the flow, and records that later filters saw a frame. *)
LEMMA AfterIs ==
    ASSUME NEW msg \in Message, NEW status \in Status
    PROVE  LET n == After(msg, status)
           IN  /\ n \in Message /\ n.at = msg.at /\ n.chunks = msg.chunks
               /\ n.flow = Flow(status) /\ n.seen = (msg.seen \/ status = "Continue")
  BY Zenon DEF After, Flow, Status, Message

(* Deliver changes the message of one direction and the reply of one stream. *)
LEMMA Delivers ==
    ASSUME Streamed, NEW s \in Streams, NEW dir \in {"req", "resp"}, NEW msg \in Message, NEW o,
           o.status \in Status, o.reply \in Nat \cup {None}, Deliver(s, dir, msg, o)
    PROVE  /\ OnlyStream(s) /\ filter'[s] = o.f
           /\ stream'[s][dir] = After(msg, o.status) /\ stream'[s].reply = o.reply
           /\ dir = "req" => stream'[s].resp = stream[s].resp
           /\ dir = "resp" => stream'[s].req = stream[s].req
           /\ stream'[s].foreign = stream[s].foreign /\ stream'[s].spurious = stream[s].spurious
           /\ stream'[s].up = stream[s].up
  <1>1. PICK n \in Message : n = After(msg, o.status)
    BY Zenon, AfterIs
  <1>2. stream' = [stream EXCEPT ![s][dir] = n, ![s].reply = o.reply] /\ filter' = [filter EXCEPT ![s] = o.f]
    BY Zenon, <1>1 DEF Deliver
  <1>3. CASE dir = "req"
    BY <1>1, <1>2, <1>3, ZenonT(60) DEF Streamed, OnlyStream, StreamType
  <1>4. CASE dir = "resp"
    BY <1>1, <1>2, <1>4, ZenonT(60) DEF Streamed, OnlyStream, StreamType
  <1> QED
    BY Zenon, <1>3, <1>4

(* A message that waits and is resumed: Continues touches nothing else. *)
LEMMA ContinuesIt ==
    ASSUME Streamed, NEW s \in Streams, NEW dir \in {"req", "resp"}, NEW f, Waits(s, dir),
           Continues(s, dir, f)
    PROVE  /\ OnlyStream(s) /\ filter'[s] = f /\ shared' = shared
           /\ stream'[s].req.at = stream[s].req.at /\ stream'[s].resp.at = stream[s].resp.at
           /\ stream'[s].reply = stream[s].reply /\ stream'[s].foreign = stream[s].foreign
           /\ stream'[s].spurious = stream[s].spurious /\ stream'[s].up = stream[s].up
           /\ \/ stream'[s] = stream[s]
              \/ dir = "req" /\ stream'[s].resp = stream[s].resp /\ stream'[s].req.flow = "open"
              \/ dir = "resp" /\ stream'[s].req = stream[s].req /\ stream'[s].resp.flow = "open"
  <1>1. PICK n \in Message : n = After(stream[s][dir], "Continue") /\ n.at = stream[s][dir].at /\ n.flow = "open"
    BY AfterIs DEF Streamed, StreamType, Status, Flow
  <1>2. filter' = [filter EXCEPT ![s] = f] /\ shared' = shared
    BY Zenon DEF Continues
  <1>3. CASE stream' = stream
    BY <1>2, <1>3, Zenon DEF Streamed, OnlyStream
  <1>4. CASE dir = "req" /\ stream' = [stream EXCEPT ![s][dir] = n]
    BY <1>1, <1>2, <1>4 DEF Streamed, OnlyStream, StreamType
  <1>5. CASE dir = "resp" /\ stream' = [stream EXCEPT ![s][dir] = n]
    BY <1>1, <1>2, <1>5 DEF Streamed, OnlyStream, StreamType
  <1> QED
    BY Zenon, <1>1, <1>3, <1>4, <1>5 DEF Continues

(* A message that waits and is answered. *)
LEMMA AnswersIt ==
    ASSUME Streamed, NEW s \in Streams, NEW dir \in {"req", "resp"}, NEW code \in Nat, NEW f,
           Waits(s, dir), Answers(s, dir, code, f)
    PROVE  /\ OnlyStream(s) /\ filter'[s] = f /\ shared' = shared
           /\ stream'[s].req = stream[s].req /\ stream'[s].resp = stream[s].resp
           /\ stream'[s].reply = code /\ stream'[s].foreign = stream[s].foreign
           /\ stream'[s].spurious = stream[s].spurious /\ stream'[s].up = stream[s].up
  BY DEF Streamed, OnlyStream, StreamType, Answers

(* What a callback may return. *)
Outcome(o) == o.status \in Status /\ o.reply \in Nat \cup {None}

(* A callback on a message of direction dir, with outcome o, moves the     *)
(* stream from m to n.                                                     *)
Moved(m, n, dir, o) ==
    /\ m \in StreamType /\ n \in StreamType /\ m.reply = None /\ m.up
    /\ dir = "req" => n.resp = m.resp /\ ~m.foreign
    /\ dir = "resp" => n.req = m.req /\ (m.foreign \/ m.req.seen)
    /\ n[dir].flow = Flow(o.status) /\ n[dir].seen = (m[dir].seen \/ o.status = "Continue")
    /\ n[dir].at # "idle"
    /\ n.reply = o.reply /\ n.foreign = m.foreign /\ n.spurious = m.spurious /\ n.up = m.up

(* A callback moves one stream, in one direction. *)
LEMMA DeliverMoves ==
    ASSUME Streamed, NEW s \in Streams, NEW dir \in {"req", "resp"}, NEW msg \in Message,
           msg.seen = stream[s][dir].seen, msg.at # "idle", NEW o, Outcome(o),
           Calls(s, dir), Deliver(s, dir, msg, o)
    PROVE  /\ OnlyStream(s) /\ filter'[s] = o.f /\ Moved(stream[s], stream'[s], dir, o)
           /\ stream'[s][dir].at = msg.at /\ stream'[s][dir].chunks = msg.chunks
  <1>1. stream[s] \in StreamType
    BY Zenon DEF Streamed
  <1>2. /\ OnlyStream(s) /\ filter'[s] = o.f
        /\ stream'[s][dir] = After(msg, o.status) /\ stream'[s].reply = o.reply
        /\ dir = "req" => stream'[s].resp = stream[s].resp
        /\ dir = "resp" => stream'[s].req = stream[s].req
        /\ stream'[s].foreign = stream[s].foreign /\ stream'[s].spurious = stream[s].spurious
        /\ stream'[s].up = stream[s].up
    BY Delivers, Zenon DEF Outcome
  <1>3. /\ stream'[s][dir].at = msg.at /\ stream'[s][dir].chunks = msg.chunks
        /\ stream'[s][dir].flow = Flow(o.status)
        /\ stream'[s][dir].seen = (msg.seen \/ o.status = "Continue")
    BY <1>2, AfterIs DEF Outcome
  <1>4. stream'[s] \in StreamType
    BY Zenon, <1>2 DEF OnlyStream
  <1>5. Moved(stream[s], stream'[s], dir, o)
    BY Zenon, <1>1, <1>2, <1>3, <1>4 DEF Moved, Calls, Live
  <1> QED
    BY Zenon, <1>2, <1>3, <1>5

(* Headers are delivered once. *)
LEMMA OnHeadersMoves ==
    ASSUME Streamed, NEW s \in Streams, NEW dir \in {"req", "resp"}, NEW end \in BOOLEAN, NEW outs,
           \A o \in outs : Outcome(o), HeadersFrame(s, dir, end, outs)
    PROVE  /\ OnlyStream(s) /\ stream[s][dir].at = "idle"
           /\ stream'[s][dir].at = (IF end THEN "end" ELSE "headers")
           /\ stream'[s][dir].chunks = stream[s][dir].chunks
           /\ \E o \in outs : filter'[s] = o.f /\ Moved(stream[s], stream'[s], dir, o)
  <1> DEFINE msg == [stream[s][dir] EXCEPT !.at = IF end THEN "end" ELSE "headers"]
  <1>1. PICK o \in outs : Deliver(s, dir, msg, o)
    BY Zenon DEF HeadersFrame
  <1>2. stream[s][dir].at = "idle" /\ Calls(s, dir)
    BY Zenon DEF HeadersFrame
  <1>3. /\ msg \in Message /\ msg.at = (IF end THEN "end" ELSE "headers")
        /\ msg.seen = stream[s][dir].seen /\ msg.chunks = stream[s][dir].chunks
    BY DEF Message, Streamed, StreamType
  <1> HIDE DEF msg
  <1> QED
    BY <1>1, <1>2, <1>3, DeliverMoves

(* A body chunk is counted, and comes while the message is not held back. *)
LEMMA OnBodyMoves ==
    ASSUME Streamed, NEW s \in Streams, NEW dir \in {"req", "resp"}, NEW end \in BOOLEAN, NEW outs,
           \A o \in outs : Outcome(o), BodyFrame(s, dir, end, outs)
    PROVE  /\ OnlyStream(s) /\ stream[s][dir].at \in {"headers", "body"}
           /\ stream[s][dir].flow # "all"
           /\ stream'[s][dir].at = (IF end THEN "end" ELSE "body")
           /\ stream'[s][dir].chunks = stream[s][dir].chunks + 1
           /\ \E o \in outs : filter'[s] = o.f /\ Moved(stream[s], stream'[s], dir, o)
  <1> DEFINE msg == [stream[s][dir] EXCEPT !.at = IF end THEN "end" ELSE "body",
                                           !.chunks = stream[s][dir].chunks + 1]
  <1>1. PICK o \in outs : Deliver(s, dir, msg, o)
    BY Zenon DEF BodyFrame
  <1>2. /\ stream[s][dir].at \in {"headers", "body"} /\ stream[s][dir].flow # "all"
        /\ stream[s][dir].chunks < MaxChunks /\ Calls(s, dir)
    BY Zenon DEF BodyFrame
  <1>3. PICK old \in Message : old = stream[s][dir]
    BY Zenon DEF Streamed, StreamType
  <1>4. /\ msg \in Message /\ msg.at = (IF end THEN "end" ELSE "body")
        /\ msg.seen = stream[s][dir].seen /\ msg.chunks = stream[s][dir].chunks + 1
    <2>1. old.chunks \in Nat /\ old.chunks + 1 \in 0..MaxChunks
      BY <1>2, <1>3, ChunksAssumption DEF Message
    <2>2. PICK n \in 0..MaxChunks : n = old.chunks + 1
      BY Zenon, <2>1
    <2>3. msg = [old EXCEPT !.at = IF end THEN "end" ELSE "body", !.chunks = n]
      BY Zenon, <1>3, <2>2
    <2> HIDE DEF msg
    <2> QED
      BY <1>3, <2>2, <2>3, Zenon DEF Message
  <1> HIDE DEF msg
  <1> QED
    BY <1>1, <1>2, <1>4, DeliverMoves

(* Trailers end the message. *)
LEMMA OnTrailersMoves ==
    ASSUME Streamed, NEW s \in Streams, NEW dir \in {"req", "resp"}, NEW outs,
           \A o \in outs : Outcome(o), TrailersFrame(s, dir, outs)
    PROVE  /\ OnlyStream(s) /\ stream[s][dir].at \in {"headers", "body"}
           /\ stream[s][dir].flow # "all" /\ stream'[s][dir].at = "end"
           /\ stream'[s][dir].chunks = stream[s][dir].chunks
           /\ \E o \in outs : filter'[s] = o.f /\ Moved(stream[s], stream'[s], dir, o)
  <1> DEFINE msg == [stream[s][dir] EXCEPT !.at = "end"]
  <1>1. PICK o \in outs : Deliver(s, dir, msg, o)
    BY Zenon DEF TrailersFrame
  <1>2. /\ stream[s][dir].at \in {"headers", "body"} /\ stream[s][dir].flow # "all" /\ Calls(s, dir)
    BY Zenon DEF TrailersFrame
  <1>3. PICK old \in Message : old = stream[s][dir]
    BY Zenon DEF Streamed, StreamType
  <1>4. /\ msg \in Message /\ msg.at = "end"
        /\ msg.seen = stream[s][dir].seen /\ msg.chunks = stream[s][dir].chunks
    BY Zenon, <1>3 DEF Message
  <1> HIDE DEF msg
  <1> QED
    BY <1>1, <1>2, <1>4, DeliverMoves

(* What Returns makes of a status and a filter. *)
LEMMA ReturnsIs ==
    ASSUME NEW status \in Status, NEW f, NEW o, o = Returns(status, f)
    PROVE  Outcome(o) /\ o.status = status /\ o.reply = None /\ o.f = f
  BY Zenon DEF Outcome, Returns

(* What Replies makes of a status, a code and a filter. *)
LEMMA RepliesIs ==
    ASSUME NEW status \in Status, NEW code \in Nat, NEW f, NEW o, o = Replies(status, code, f)
    PROVE  Outcome(o) /\ o.status = status /\ o.reply = code /\ o.f = f
  BY Zenon DEF Outcome, Replies

(* A sequence that grows by one. *)
LEMMA OneMore ==
    ASSUME NEW S, NEW q \in Seq(S), NEW e \in S
    PROVE  Append(q, e) \in Seq(S) /\ Len(Append(q, e)) = Len(q) + 1
  OBVIOUS

Ways == {"req", "resp"}

(* One direction of the filter f, whose message is msg. *)
AzureWay(f, msg, dir) ==
    /\ msg.at # "end" => ~f.processed[dir] /\ f.job[dir] = None /\ f.verdict[dir] = None /\ ~msg.seen
    /\ f.job[dir] # None => msg.flow # "open" /\ f.verdict[dir] = None /\ ~msg.seen
    /\ msg.seen => AzureApproved(f, dir)

Analyses(f, dir) == IF f.verdict[dir] \in {None, "skip"} THEN 0 ELSE 1

AzureSound(f, m) ==
    /\ f \in AzureFilters /\ ~m.spurious
    /\ AzureWay(f, m.req, "req") /\ AzureWay(f, m.resp, "resp")
    /\ Len(f.counted) = Analyses(f, "req") + Analyses(f, "resp")

(* g differs from f only in what concerns dir and in what it has counted. *)
AzureKept(f, g, dir) ==
    /\ g \in AzureFilters /\ g.block = f.block /\ g.failOpen = f.failOpen
    /\ \A d \in Ways \ {dir} :
         g.job[d] = f.job[d] /\ g.verdict[d] = f.verdict[d] /\ g.processed[d] = f.processed[d]

(* A callback holds a message that is not whole yet, passes one there is   *)
(* nothing to analyse in or holds it for the goroutine.                    *)
AzureGoes(f, o, dir, whole) ==
    /\ Outcome(o) /\ o.reply = None /\ AzureKept(f, o.f, dir) /\ o.f.counted = f.counted
    /\ \/ ~whole /\ o.status # "Continue" /\ o.f = f
       \/ whole /\ o.status = "Continue" /\ o.f.verdict[dir] = "skip" /\ o.f.job[dir] = None
       \/ whole /\ o.status # "Continue" /\ o.f.verdict[dir] = None /\ o.f.job[dir] = "first"

(* The filter once the verdict v of direction dir was acted upon. *)
AzureDone(f, dir, v, decision) ==
    [f EXCEPT !.job[dir] = None, !.verdict[dir] = v, !.counted = Append(@, decision)]

(* Callbacks, goroutines and scheduled functions of azure-content-safety. *)
LEMMA AzureKeeps ==
    \A s \in Streams :
        Streamed /\ AzureSound(filter[s], stream[s]) /\ AzureStep(s) =>
          OnlyStream(s) /\ AzureSound(filter'[s], stream'[s]) /\ shared' = shared
  (* A message with nothing to analyse is approved, and not counted. *)
  <1>1. ASSUME NEW f \in AzureFilters, NEW dir \in Ways, f.job[dir] = None, NEW g, g = Skips(f, dir)
        PROVE  AzureKept(f, g, dir) /\ g.counted = f.counted /\ g.verdict[dir] = "skip" /\ g.job[dir] = None
    BY Zenon, <1>1 DEF AzureKept, AzureFilters, Skips, Ways, Verdict
  (* A whole message passes unanalysed or is held for the goroutine. *)
  <1>2. ASSUME NEW f \in AzureFilters, NEW dir \in Ways, f.job[dir] = None, f.verdict[dir] = None,
               NEW stop \in {"Stop", "StopAndBuffer"}, NEW o \in Process(f, dir, stop)
        PROVE  AzureGoes(f, o, dir, TRUE)
    <2> USE <1>2
    <2>1. PICK g : g = [f EXCEPT !.processed[dir] = TRUE]
      BY Zenon
    <2>2. /\ AzureKept(f, g, dir) /\ g.counted = f.counted /\ g.verdict[dir] = None /\ g.job[dir] = None
      BY <2>1, Zenon DEF AzureKept, AzureFilters, Ways
    <2>3. PICK h : h = Skips(g, dir)
      BY Zenon
    <2>4. AzureKept(f, h, dir) /\ h.counted = f.counted /\ h.verdict[dir] = "skip" /\ h.job[dir] = None
      BY <2>2, <2>3, <1>1 DEF AzureKept
    <2>5. PICK j : j = [g EXCEPT !.job[dir] = "first"]
      BY Zenon
    <2>6. AzureKept(f, j, dir) /\ j.counted = f.counted /\ j.verdict[dir] = None /\ j.job[dir] = "first"
      BY <2>2, <2>5, Zenon DEF AzureKept, AzureFilters, Ways, Jobs
    <2>7. o = Returns("Continue", h) \/ o = Returns(stop, j)
      BY <2>1, <2>3, <2>5, Zenon DEF Process
    <2>8. stop \in Status /\ "Continue" \in Status /\ stop # "Continue"
      BY Zenon DEF Status
    <2>9. CASE o = Returns("Continue", h)
      <3>1. Outcome(o) /\ o.reply = None /\ o.f = h /\ o.status = "Continue"
        BY <2>8, <2>9, ReturnsIs
      <3> QED  BY <2>4, <3>1, Zenon DEF AzureGoes
    <2>10. CASE o = Returns(stop, j)
      <3>1. Outcome(o) /\ o.reply = None /\ o.f = j /\ o.status = stop
        BY <2>8, <2>10, ReturnsIs
      <3> QED  BY <2>6, <2>8, <3>1, Zenon DEF AzureGoes
    <2> QED  BY <2>7, <2>9, <2>10, Zenon
  (* What one direction does leaves the other as it was. *)
  <1>3. ASSUME NEW f, NEW g, NEW dir \in Ways, AzureKept(f, g, dir), NEW d \in Ways, d # dir, NEW msg,
               AzureWay(f, msg, d)
        PROVE  AzureWay(g, msg, d) /\ Analyses(g, d) = Analyses(f, d)
    <2> USE <1>3
    <2>1. /\ g.job[d] = f.job[d] /\ g.verdict[d] = f.verdict[d] /\ g.processed[d] = f.processed[d]
          /\ g.block = f.block /\ g.failOpen = f.failOpen
      BY Zenon DEF AzureKept
    <2> QED  BY <2>1, Zenon DEF AzureWay, Analyses, AzureApproved
  (* A callback of either direction. *)
  <1>4. ASSUME NEW f, NEW m, NEW n, AzureSound(f, m), NEW dir \in Ways, NEW o, NEW whole \in BOOLEAN,
               m[dir].at # "end", n[dir].at # "end" <=> ~whole,
               Moved(m, n, dir, o), AzureGoes(f, o, dir, whole)
        PROVE  AzureSound(o.f, n)
    <2> USE <1>4
    <2>1. /\ ~n.spurious /\ n[dir].flow = Flow(o.status)
          /\ n[dir].seen <=> m[dir].seen \/ o.status = "Continue"
          /\ dir = "req" => n.resp = m.resp
          /\ dir = "resp" => n.req = m.req
      BY Zenon DEF Moved, AzureSound
    <2>2. f \in AzureFilters /\ AzureWay(f, m[dir], dir)
      BY Zenon DEF AzureSound, Ways
    <2>3. ~f.processed[dir] /\ f.job[dir] = None /\ f.verdict[dir] = None /\ ~m[dir].seen
      BY Zenon, <2>2 DEF AzureWay
    <2>4. "first" # None /\ "skip" # None
      BY Zenon, AzureAssumption
    <2>5. AzureWay(o.f, n[dir], dir) /\ Analyses(o.f, dir) = Analyses(f, dir)
      <3>1. n[dir].seen <=> o.status = "Continue"
        BY Zenon, <2>1, <2>3
      <3>2. CASE ~whole /\ o.status # "Continue" /\ o.f = f
        BY <2>3, <3>1, <3>2, Zenon DEF AzureWay
      <3>3. CASE whole /\ o.status = "Continue" /\ o.f.verdict[dir] = "skip" /\ o.f.job[dir] = None
        BY <2>3, <3>1, <3>3, Zenon DEF AzureWay, AzureApproved, Analyses
      <3>4. CASE whole /\ o.status # "Continue" /\ o.f.verdict[dir] = None /\ o.f.job[dir] = "first"
        BY Zenon, <2>1, <2>3, <3>1, <3>4 DEF AzureWay, Analyses, Flow
      <3> QED  BY <3>2, <3>3, <3>4, Zenon DEF AzureGoes
    <2>6. AzureKept(f, o.f, dir) /\ o.f.counted = f.counted /\ o.f \in AzureFilters
      BY Zenon DEF AzureGoes, AzureKept
    <2>7. CASE dir = "req"
      <3>1. AzureWay(o.f, m.resp, "resp") /\ Analyses(o.f, "resp") = Analyses(f, "resp")
        BY Zenon, <2>6, <2>7, <1>3 DEF AzureSound, Ways
      <3> QED  BY Zenon, <2>1, <2>5, <2>6, <2>7, <3>1 DEF AzureSound
    <2>8. CASE dir = "resp"
      <3>1. AzureWay(o.f, m.req, "req") /\ Analyses(o.f, "req") = Analyses(f, "req")
        BY Zenon, <2>6, <2>8, <1>3 DEF AzureSound, Ways
      <3> QED  BY Zenon, <2>1, <2>5, <2>6, <2>8, <3>1 DEF AzureSound
    <2> QED  BY Zenon, <2>7, <2>8 DEF Ways
  (* The six callbacks of azure-content-safety. *)
  <1>5. ASSUME Streamed, NEW s \in Streams, AzureSound(filter[s], stream[s]), NEW dir \in Ways,
               AzureOnAnyHeaders(s, dir) \/ AzureOnAnyBody(s, dir) \/ AzureOnAnyTrailers(s, dir)
        PROVE  OnlyStream(s) /\ AzureSound(filter'[s], stream'[s]) /\ shared' = shared
    <2> USE <1>5
    <2> DEFINE f == filter[s]
               m == stream[s]
               n == stream'[s]
               Held(stop, o) == o = Returns(stop, f)
    <2>1. f \in AzureFilters /\ AzureWay(f, m[dir], dir) /\ dir \in {"req", "resp"}
      BY Zenon DEF AzureSound, Ways
    <2>2. m[dir].at # "end" => ~f.processed[dir] /\ f.job[dir] = None /\ f.verdict[dir] = None
      BY Zenon, <2>1 DEF AzureWay
    <2>3. ASSUME NEW stop \in {"Stop", "StopAndBuffer"}, NEW o, o = Returns(stop, f)
          PROVE  AzureGoes(f, o, dir, FALSE)
      <3>1. stop \in Status /\ stop # "Continue"
        BY Zenon DEF Status
      <3>2. Outcome(o) /\ o.reply = None /\ o.f = f /\ o.status = stop
        BY <2>3, <3>1, ReturnsIs
      <3> QED  BY <2>1, <3>1, <3>2, Zenon DEF AzureGoes, AzureKept
    <2>4. ASSUME NEW o, o = Returns("Continue", Skips(f, dir)), m[dir].at # "end"
          PROVE  AzureGoes(f, o, dir, TRUE)
      <3>1. PICK g : g = Skips(f, dir)
        BY Zenon
      <3>2. "Continue" \in Status
        BY Zenon DEF Status
      <3>3. Outcome(o) /\ o.reply = None /\ o.f = g /\ o.status = "Continue"
        BY <2>4, <3>1, <3>2, ReturnsIs
      <3>4. AzureKept(f, g, dir) /\ g.counted = f.counted /\ g.verdict[dir] = "skip" /\ g.job[dir] = None
        BY <2>1, <2>2, <2>4, <3>1, <1>1
      <3> QED  BY <3>3, <3>4, Zenon DEF AzureGoes
    <2>5. ASSUME NEW outs, NEW whole \in BOOLEAN, \A o \in outs : AzureGoes(f, o, dir, whole),
                 OnlyStream(s), m[dir].at # "end", n[dir].at # "end" <=> ~whole,
                 \E o \in outs : filter'[s] = o.f /\ Moved(m, n, dir, o)
          PROVE  AzureSound(filter'[s], n)
      <3>1. PICK o \in outs : filter'[s] = o.f /\ Moved(m, n, dir, o)
        BY Zenon, <2>5
      <3>2. AzureSound(o.f, n)
        BY Zenon, <2>5, <3>1, <1>4
      <3> QED  BY Zenon, <3>1, <3>2
    <2>6. CASE AzureOnAnyHeaders(s, dir)
      <3> DEFINE Outs(end) == {IF end THEN Returns("Continue", Skips(f, dir)) ELSE Returns("Stop", f)}
      <3>1. PICK end \in BOOLEAN : HeadersFrame(s, dir, end, Outs(end)) /\ shared' = shared
        BY <2>6, Zenon DEF AzureOnAnyHeaders, OnHeaders
      <3>2. m[dir].at = "idle"
        BY <3>1, Zenon DEF HeadersFrame
      <3>3. \A o \in Outs(end) : AzureGoes(f, o, dir, end)
        BY <2>3, <2>4, <3>2, Zenon
      <3> HIDE DEF Outs
      <3>4. \A o \in Outs(end) : Outcome(o)
        BY <3>3, Zenon DEF AzureGoes
      <3>5. /\ OnlyStream(s) /\ n[dir].at = (IF end THEN "end" ELSE "headers")
            /\ \E o \in Outs(end) : filter'[s] = o.f /\ Moved(m, n, dir, o)
        BY <2>1, <3>1, <3>4, OnHeadersMoves
      <3> QED  BY Zenon, <2>5, <3>1, <3>2, <3>3, <3>5
    <2>7. CASE AzureOnAnyBody(s, dir)
      <3> DEFINE Outs(end) == IF ~end THEN {Returns("StopAndBuffer", f)} ELSE Process(f, dir, "StopAndBuffer")
      <3>1. PICK end \in BOOLEAN : BodyFrame(s, dir, end, Outs(end)) /\ shared' = shared
        BY <2>7, Zenon DEF AzureOnAnyBody, OnBody
      <3>2. m[dir].at \in {"headers", "body"}
        BY <3>1, Zenon DEF BodyFrame
      <3>3. \A o \in Outs(end) : AzureGoes(f, o, dir, end)
        <4>1. CASE ~end
          BY <2>3, <4>1, Zenon
        <4>2. CASE end
          BY <2>1, <2>2, <3>2, <4>2, <1>2, Zenon
        <4> QED  BY Zenon, <4>1, <4>2
      <3> HIDE DEF Outs
      <3>4. \A o \in Outs(end) : Outcome(o)
        BY <3>3, Zenon DEF AzureGoes
      <3>5. /\ OnlyStream(s) /\ n[dir].at = (IF end THEN "end" ELSE "body")
            /\ \E o \in Outs(end) : filter'[s] = o.f /\ Moved(m, n, dir, o)
        BY <2>1, <3>1, <3>4, OnBodyMoves
      <3> QED  BY Zenon, <2>5, <3>1, <3>2, <3>3, <3>5
    <2>8. CASE AzureOnAnyTrailers(s, dir)
      <3> DEFINE outs == IF f.processed[dir] THEN {Returns("Continue", f)} ELSE Process(f, dir, "Stop")
      <3>1. TrailersFrame(s, dir, outs) /\ shared' = shared
        BY <2>8, Zenon DEF AzureOnAnyTrailers, OnTrailers
      <3>2. m[dir].at \in {"headers", "body"}
        BY <3>1, Zenon DEF TrailersFrame
      <3>3. \A o \in outs : AzureGoes(f, o, dir, TRUE)
        BY <2>1, <2>2, <3>2, <1>2, Zenon
      <3> HIDE DEF outs
      <3>4. \A o \in outs : Outcome(o)
        BY <3>3, Zenon DEF AzureGoes
      <3>5. /\ OnlyStream(s) /\ n[dir].at = "end"
            /\ \E o \in outs : filter'[s] = o.f /\ Moved(m, n, dir, o)
        BY Zenon, <2>1, <3>1, <3>4, OnTrailersMoves
      <3> QED  BY <2>5, <3>1, <3>2, <3>3, <3>5, Zenon
    <2> QED  BY Zenon, <2>6, <2>7, <2>8
  (* The goroutine's calls change nothing but the job of a held message. *)
  <1>6. ASSUME Streamed, NEW s \in Streams, AzureSound(filter[s], stream[s]), NEW dir \in Ways,
               filter[s].job[dir] \in {"first", "second"}, ApiCall(s, dir), UNCHANGED <<stream, shared>>
        PROVE  OnlyStream(s) /\ AzureSound(filter'[s], stream'[s]) /\ shared' = shared
    <2> USE <1>6
    <2> DEFINE f == filter[s]
               m == stream[s]
    <2>1. PICK j \in {"second", "allowed", "detected", "error"} : filter' = [filter EXCEPT ![s].job[dir] = j]
      BY Zenon DEF ApiCall
    <2>2. PICK g : g = [f EXCEPT !.job[dir] = j]
      BY Zenon
    <2>3. OnlyStream(s) /\ filter'[s] = g /\ stream'[s] = m /\ shared' = shared
      BY <2>1, <2>2, Zenon DEF OnlyStream, Streamed
    <2>4. f \in AzureFilters /\ AzureWay(f, m[dir], dir) /\ f.job[dir] # None
      BY Zenon, AzureAssumption DEF AzureSound, Ways, AzureDecisions
    <2>5. AzureKept(f, g, dir) /\ g.counted = f.counted /\ g.verdict[dir] = f.verdict[dir] /\ g.job[dir] = j
      BY <2>2, <2>4, Zenon DEF AzureKept, AzureFilters, Ways, Jobs
    <2>6. AzureWay(g, m[dir], dir) /\ Analyses(g, dir) = Analyses(f, dir)
      BY <2>4, <2>5, Zenon DEF AzureWay, Analyses
    <2>7. CASE dir = "req"
      <3>1. AzureWay(g, m.resp, "resp") /\ Analyses(g, "resp") = Analyses(f, "resp")
        BY <2>5, <2>7, <1>3 DEF AzureSound, Ways
      <3> QED  BY Zenon, <2>3, <2>5, <2>6, <2>7, <3>1 DEF AzureSound, AzureKept
    <2>8. CASE dir = "resp"
      <3>1. AzureWay(g, m.req, "req") /\ Analyses(g, "req") = Analyses(f, "req")
        BY Zenon, <2>5, <2>8, <1>3 DEF AzureSound, Ways
      <3> QED  BY Zenon, <2>3, <2>5, <2>6, <2>8, <3>1 DEF AzureSound, AzureKept
    <2> QED  BY Zenon, <2>7, <2>8 DEF Ways
  (* A verdict that is acted upon is counted once. *)
  <1>7. ASSUME NEW f \in AzureFilters, NEW dir \in Ways, NEW v \in {"allowed", "detected", "error"},
               NEW d \in AzureDecisions, NEW h, h = AzureDone(f, dir, v, d)
        PROVE  /\ AzureKept(f, h, dir) /\ h.job[dir] = None /\ h.verdict[dir] = v
               /\ Len(h.counted) = Len(f.counted) + 1
    <2> USE <1>7
    <2>1. f.counted \in Seq(AzureDecisions)
      BY Zenon DEF AzureFilters
    <2>2. Append(f.counted, d) \in Seq(AzureDecisions) /\ Len(Append(f.counted, d)) = Len(f.counted) + 1
      BY <2>1, OneMore, Zenon
    <2>3. PICK q \in Seq(AzureDecisions) : q = Append(f.counted, d) /\ Len(q) = Len(f.counted) + 1
      BY <2>2, Zenon
    <2>4. h = [f EXCEPT !.job[dir] = None, !.verdict[dir] = v, !.counted = q]
      BY <2>3, Zenon DEF AzureDone
    <2>5. AzureKept(f, h, dir) /\ h.job[dir] = None /\ h.verdict[dir] = v /\ h.counted = q
      <3>1. f.job \in [{"req", "resp"} -> Jobs] /\ f.verdict \in [{"req", "resp"} -> Verdict]
        BY Zenon DEF AzureFilters
      <3>2. PICK j \in [{"req", "resp"} -> Jobs] : j = [f.job EXCEPT ![dir] = None]
        BY <3>1, Zenon DEF Jobs
      <3>3. PICK w \in [{"req", "resp"} -> Verdict] : w = [f.verdict EXCEPT ![dir] = v]
        BY <3>1, Zenon DEF Verdict
      <3>4. h = [f EXCEPT !.job = j, !.verdict = w, !.counted = q]
        BY <2>4, <3>2, <3>3, Zenon DEF AzureFilters
      <3>5. /\ h \in AzureFilters /\ h.job = j /\ h.verdict = w /\ h.counted = q
            /\ h.block = f.block /\ h.failOpen = f.failOpen /\ h.processed = f.processed
        BY <3>4, Zenon DEF AzureFilters
      <3>6. /\ j[dir] = None /\ w[dir] = v
            /\ \A e \in Ways \ {dir} : j[e] = f.job[e] /\ w[e] = f.verdict[e]
        BY <3>1, <3>2, <3>3, Zenon DEF Ways
      <3> QED  BY <3>5, <3>6, Zenon DEF AzureKept
    <2> QED  BY <2>3, <2>5, Zenon
  (* The scheduled function resumes or answers the message it was held for. *)
  <1>8. ASSUME Streamed, NEW s \in Streams, AzureSound(filter[s], stream[s]), NEW dir \in Ways,
               Live(s), filter[s].job[dir] \in {"allowed", "detected", "error"}, Scheduled(s, dir)
        PROVE  OnlyStream(s) /\ AzureSound(filter'[s], stream'[s]) /\ shared' = shared
    <2> USE <1>8
    <2> DEFINE f == filter[s]
               m == stream[s]
               n == stream'[s]
    <2>1. PICK v \in {"allowed", "detected", "error"} : v = f.job[dir]
      BY Zenon
    <2>2. v \notin {None, "skip"}
      BY Zenon, AzureAssumption DEF AzureDecisions
    <2>3. /\ f \in AzureFilters /\ AzureWay(f, m[dir], dir) /\ f.job[dir] # None
          /\ dir \in {"req", "resp"} /\ ~m.spurious
      BY Zenon, <2>1, <2>2 DEF AzureSound, Ways
    <2>4. m[dir].at = "end" /\ m[dir].flow # "open" /\ ~m[dir].seen /\ f.verdict[dir] = None /\ Waits(s, dir)
      BY Zenon, <2>3 DEF AzureWay, Waits
    <2>5. ASSUME NEW d \in AzureDecisions, NEW h, h = AzureDone(f, dir, v, d), filter'[s] = h, OnlyStream(s),
                 shared' = shared, n.spurious = m.spurious, n[dir].at = m[dir].at,
                 dir = "req" => n.resp = m.resp, dir = "resp" => n.req = m.req,
                 n[dir].seen => AzureApproved(h, dir)
          PROVE  OnlyStream(s) /\ AzureSound(filter'[s], n) /\ shared' = shared
      <3>1. /\ AzureKept(f, h, dir) /\ h.job[dir] = None /\ h.verdict[dir] = v
            /\ Len(h.counted) = Len(f.counted) + 1
        BY <2>3, <2>5, <1>7
      <3>2. AzureWay(h, n[dir], dir)
        BY <2>4, <2>5, <3>1, Zenon DEF AzureWay
      <3>3. Analyses(h, dir) = 1 /\ Analyses(f, dir) = 0
        BY <2>2, <2>4, <3>1, Zenon DEF Analyses
      <3>4. h \in AzureFilters /\ ~n.spurious
        BY Zenon, <2>3, <2>5, <3>1 DEF AzureKept
      <3>5. CASE dir = "req"
        <4>1. AzureWay(h, m.resp, "resp") /\ Analyses(h, "resp") = Analyses(f, "resp")
          BY Zenon, <3>1, <3>5, <1>3 DEF AzureSound, Ways
        <4>2. Analyses(f, "resp") \in Nat /\ Len(f.counted) = 0 + Analyses(f, "resp")
          BY Zenon, <3>3, <3>5 DEF AzureSound, Analyses
        <4>3. Len(h.counted) = Analyses(h, "req") + Analyses(h, "resp")
          BY <3>1, <3>3, <3>5, <4>1, <4>2
        <4>4. AzureWay(h, n.req, "req") /\ AzureWay(h, n.resp, "resp")
          BY Zenon, <2>5, <3>2, <3>5, <4>1
        <4> QED  BY <2>5, <3>4, <4>3, <4>4, Zenon DEF AzureSound
      <3>6. CASE dir = "resp"
        <4>1. AzureWay(h, m.req, "req") /\ Analyses(h, "req") = Analyses(f, "req")
          BY Zenon, <3>1, <3>6, <1>3 DEF AzureSound, Ways
        <4>2. Analyses(f, "req") \in Nat /\ Len(f.counted) = Analyses(f, "req") + 0
          BY Zenon, <3>3, <3>6 DEF AzureSound, Analyses
        <4>3. Len(h.counted) = Analyses(h, "req") + Analyses(h, "resp")
          BY <3>1, <3>3, <3>6, <4>1, <4>2
        <4>4. AzureWay(h, n.req, "req") /\ AzureWay(h, n.resp, "resp")
          BY Zenon, <2>5, <3>2, <3>6, <4>1
        <4> QED  BY <2>5, <3>4, <4>3, <4>4, Zenon DEF AzureSound
      <3> QED  BY <2>3, <3>5, <3>6, Zenon
    <2>6. ASSUME NEW d \in AzureDecisions, Continues(s, dir, AzureDone(f, dir, v, d)),
                 v = "allowed" \/ (~f.block /\ v = "detected") \/ (f.failOpen /\ v = "error")
          PROVE  OnlyStream(s) /\ AzureSound(filter'[s], n) /\ shared' = shared
      <3>1. PICK h : h = AzureDone(f, dir, v, d)
        BY Zenon
      <3>2. AzureKept(f, h, dir) /\ h.verdict[dir] = v
        BY <2>3, <3>1, <1>7
      <3>3. AzureApproved(h, dir)
        BY <2>6, <3>2, Zenon DEF AzureApproved, AzureKept
      <3>4. /\ OnlyStream(s) /\ filter'[s] = h /\ shared' = shared
            /\ n.req.at = m.req.at /\ n.resp.at = m.resp.at /\ n.spurious = m.spurious
            /\ \/ n = m
               \/ dir = "req" /\ n.resp = m.resp
               \/ dir = "resp" /\ n.req = m.req
        BY <2>3, <2>4, <2>6, <3>1, ContinuesIt
      <3> QED  BY Zenon, <2>3, <2>5, <3>1, <3>3, <3>4
    <2>7. ASSUME NEW d \in AzureDecisions, NEW code \in Nat, Answers(s, dir, code, AzureDone(f, dir, v, d))
          PROVE  OnlyStream(s) /\ AzureSound(filter'[s], n) /\ shared' = shared
      <3>1. PICK h : h = AzureDone(f, dir, v, d)
        BY Zenon
      <3>2. /\ OnlyStream(s) /\ filter'[s] = h /\ shared' = shared
            /\ n.req = m.req /\ n.resp = m.resp /\ n.spurious = m.spurious
        BY <2>3, <2>4, <2>7, <3>1, AnswersIt
      <3> QED  BY Zenon, <2>3, <2>4, <2>5, <3>1, <3>2
    <2>8. 403 \in Nat /\ 500 \in Nat
      OBVIOUS
    <2> QED  BY <2>1, <2>6, <2>7, <2>8, ZenonT(60) DEF Scheduled, AzureDone, AzureDecisions
  (* Another filter answers. *)
  <1>9. ASSUME Streamed, NEW s \in Streams, AzureSound(filter[s], stream[s]), Foreign(s)
        PROVE  OnlyStream(s) /\ AzureSound(filter'[s], stream'[s]) /\ shared' = shared
    <2> USE <1>9
    <2>1. /\ OnlyStream(s) /\ filter'[s] = filter[s] /\ shared' = shared
          /\ stream'[s].req = stream[s].req /\ stream'[s].resp = stream[s].resp
          /\ stream'[s].spurious = stream[s].spurious
      BY ZenonT(60) DEF Streamed, Foreign, OnlyStream, StreamType
    <2> QED  BY Zenon, <2>1 DEF AzureSound
  (* Callbacks, goroutines and scheduled functions of azure-content-safety. *)
  <1>10. ASSUME Streamed, NEW s \in Streams, AzureSound(filter[s], stream[s]), AzureStep(s)
         PROVE  OnlyStream(s) /\ AzureSound(filter'[s], stream'[s]) /\ shared' = shared
    <2> USE <1>10
    <2>1. "req" \in Ways /\ "resp" \in Ways
      BY Zenon DEF Ways
    <2>2. CASE AzureOnRequestHeaders(s) \/ AzureOnRequestBody(s) \/ AzureOnRequestTrailers(s)
      BY Zenon, <2>1, <2>2, <1>5 DEF AzureOnRequestHeaders, AzureOnRequestBody, AzureOnRequestTrailers
    <2>3. CASE AzureOnResponseHeaders(s) \/ AzureOnResponseBody(s) \/ AzureOnResponseTrailers(s)
      BY Zenon, <2>1, <2>3, <1>5 DEF AzureOnResponseHeaders, AzureOnResponseBody, AzureOnResponseTrailers
    <2>4. CASE AzureLocalReplyElsewhere(s)
      BY Zenon, <2>4, <1>9 DEF AzureLocalReplyElsewhere
    <2>5. CASE analyzeRequest(s)
      BY Zenon, <2>1, <2>5, <1>6 DEF analyzeRequest
    <2>6. CASE analyzeResponse(s)
      BY Zenon, <2>1, <2>6, <1>6 DEF analyzeResponse
    <2>7. CASE ScheduledRequest(s)
      BY Zenon, <2>1, <2>7, <1>8 DEF ScheduledRequest
    <2>8. CASE ScheduledResponse(s)
      BY Zenon, <2>1, <2>8, <1>8 DEF ScheduledResponse
    <2> QED  BY <2>2, <2>3, <2>4, <2>5, <2>6, <2>7, <2>8, Zenon DEF AzureStep
  <1> QED  BY Zenon, <1>10

(* BedrockFilters without the bound on a body. *)
BedrockObject ==
    [kind : {"bedrock"}, guardrails : Nat, index : Nat, body : Seq(Nat), buffer : Seq(Nat) \cup {None},
     masked : Seq(Nat), asked : Nat, skipped : BOOLEAN]

BedrockSound(f, m) ==
    /\ f \in BedrockObject /\ ~m.spurious
    /\ m.req.at # "end" =>
         /\ f.index = 0 /\ f.asked = 0 /\ f.masked = << >> /\ f.buffer = << >> /\ ~f.skipped
         /\ ~m.req.seen
    /\ f.index # 0 =>
         /\ m.req.flow # "open" /\ ~m.req.seen /\ f.body = f.masked
         /\ f.asked = f.index /\ f.index <= f.guardrails
    /\ m.req.seen => BedrockApproved(f)

(* A callback waits for more, passes a body there is nothing to check in,  *)
(* fails to start the first callout, or starts it.                         *)
BedrockGoes(f, o, whole) ==
    /\ Outcome(o) /\ o.f \in BedrockObject
    /\ \/ ~whole /\ o.status # "Continue" /\ o.f = f
       \/ whole /\ o.f.skipped /\ o.f.buffer = << >> /\ o.f.index = 0
       \/ whole /\ o.status # "Continue" /\ o.f.index = 0
       \/ /\ whole /\ o.status # "Continue" /\ o.f.body = << >> /\ o.f.masked = << >>
          /\ o.f.index = 1 /\ o.f.asked = 1 /\ o.f.guardrails # 0

(* The callbacks and the callouts of bedrock-guardrails. *)
LEMMA BedrockKeeps ==
    \A s \in Streams :
        Streamed /\ BedrockSound(filter[s], stream[s]) /\ BedrockStep(s) =>
          OnlyStream(s) /\ BedrockSound(filter'[s], stream'[s]) /\ shared' = shared
  (* A whole body starts the first guardrail or needs none. *)
  <1>1. ASSUME NEW f \in BedrockObject, f.index = 0, f.asked = 0, f.masked = << >>, f.buffer = << >>,
               NEW stop \in {"Stop", "StopAndBuffer"}, NEW o \in processRequestbody(f, stop)
        PROVE  BedrockGoes(f, o, TRUE)
    <2> USE <1>1
    <2>1. stop \in Status /\ stop # "Continue" /\ "Continue" \in Status /\ 502 \in Nat
      BY DEF Status
    <2>2. PICK k : k = [f EXCEPT !.skipped = TRUE]
      BY Zenon
    <2>3. k \in BedrockObject /\ k.skipped /\ k.buffer = << >> /\ k.index = 0
      BY <2>2, Zenon DEF BedrockObject
    <2>4. PICK g : g = [f EXCEPT !.buffer = None]
      BY Zenon
    <2>5. /\ g \in BedrockObject /\ g.index = 0 /\ g.asked = 0 /\ g.masked = << >>
          /\ g.guardrails = f.guardrails
      BY <2>4, Zenon DEF BedrockObject
    <2>6. PICK h : h = Apply(g, 1, f.buffer)
      BY Zenon
    <2>7. /\ h \in BedrockObject /\ h.body = << >> /\ h.masked = << >> /\ h.index = 1 /\ h.asked = 1
          /\ h.guardrails = f.guardrails
      <3>1. 1 \in Nat /\ 0 + 1 = 1 /\ << >> \in Seq(Nat)
        OBVIOUS
      <3>2. g.asked + 1 = 1
        BY <2>5, <3>1, Zenon
      <3>3. h = [g EXCEPT !.index = 1, !.body = << >>, !.asked = 1]
        BY <2>6, <3>2, Zenon DEF Apply
      <3> QED  BY <2>5, <3>1, <3>3, Zenon DEF BedrockObject
    <2>8. \/ o = Returns("Continue", k)
          \/ f.guardrails # 0 /\ o = Replies(stop, 502, g)
          \/ f.guardrails # 0 /\ o = Returns(stop, h)
      BY <2>2, <2>4, <2>6, ZenonT(60) DEF processRequestbody
    <2>9. CASE o = Returns("Continue", k)
      <3>1. Outcome(o) /\ o.f = k
        BY <2>1, <2>9, ReturnsIs
      <3> QED  BY <2>3, <3>1, Zenon DEF BedrockGoes
    <2>10. CASE o = Replies(stop, 502, g)
      <3>1. Outcome(o) /\ o.f = g /\ o.status = stop
        BY <2>1, <2>10, RepliesIs
      <3> QED  BY <2>1, <2>5, <3>1, Zenon DEF BedrockGoes
    <2>11. CASE o = Returns(stop, h) /\ f.guardrails # 0
      <3>1. Outcome(o) /\ o.f = h /\ o.status = stop
        BY <2>1, <2>11, ReturnsIs
      <3> QED  BY <2>1, <2>7, <2>11, <3>1, Zenon DEF BedrockGoes
    <2> QED  BY <2>8, <2>9, <2>10, <2>11, ZenonT(60)
  (* A callback of bedrock-guardrails. *)
  <1>2. ASSUME NEW f, NEW m, NEW n, NEW o, NEW whole \in BOOLEAN, BedrockSound(f, m), m.req.at # "end",
               n.req.at # "end" <=> ~whole, Moved(m, n, "req", o), BedrockGoes(f, o, whole)
        PROVE  BedrockSound(o.f, n)
    <2> USE <1>2
    <2>1. /\ ~n.spurious /\ n.req.flow = Flow(o.status)
          /\ n.req.seen <=> m.req.seen \/ o.status = "Continue"
      BY Zenon DEF Moved, BedrockSound
    <2>2. /\ ~m.req.seen /\ f \in BedrockObject
          /\ f.index = 0 /\ f.asked = 0 /\ f.masked = << >> /\ f.buffer = << >> /\ ~f.skipped
      BY Zenon DEF BedrockSound
    <2>3. CASE ~whole /\ o.status # "Continue" /\ o.f = f
      BY <2>1, <2>2, <2>3, Zenon DEF BedrockSound
    <2>4. CASE whole /\ o.f \in BedrockObject /\ o.f.skipped /\ o.f.buffer = << >> /\ o.f.index = 0
      BY <2>1, <2>4, Zenon DEF BedrockSound, BedrockApproved
    <2>5. CASE whole /\ o.f \in BedrockObject /\ o.status # "Continue" /\ o.f.index = 0
      BY <2>1, <2>2, <2>5, Zenon DEF BedrockSound
    <2>6. CASE /\ whole /\ o.f \in BedrockObject /\ o.status # "Continue" /\ o.f.body = << >> /\ o.f.masked = << >>
               /\ o.f.index = 1 /\ o.f.asked = 1 /\ o.f.guardrails # 0
      <3>1. 1 <= o.f.guardrails
        BY <2>6 DEF BedrockObject
      <3>2. n.req.flow # "open" /\ ~n.req.seen
        BY Zenon, <2>1, <2>2, <2>6 DEF Flow
      <3> QED  BY <2>1, <2>6, <3>1, <3>2, Zenon DEF BedrockSound
    <2> QED  BY <2>3, <2>4, <2>5, <2>6, Zenon DEF BedrockGoes
  (* The three callbacks of bedrock-guardrails. *)
  <1>3. ASSUME Streamed, NEW s \in Streams, BedrockSound(filter[s], stream[s]),
               BedrockOnRequestHeaders(s) \/ BedrockOnRequestBody(s) \/ BedrockOnRequestTrailers(s)
        PROVE  OnlyStream(s) /\ BedrockSound(filter'[s], stream'[s]) /\ shared' = shared
    <2> USE <1>3
    <2> DEFINE f == filter[s]
               m == stream[s]
               n == stream'[s]
    <2>1. f \in BedrockObject
      BY Zenon DEF BedrockSound
    <2>2. m.req.at # "end" => f.index = 0 /\ f.asked = 0 /\ f.masked = << >> /\ f.buffer = << >>
      BY Zenon DEF BedrockSound
    <2>3. ASSUME NEW stop \in {"Stop", "StopAndBuffer"}, NEW o, o = Returns(stop, f)
          PROVE  BedrockGoes(f, o, FALSE)
      <3>1. stop \in Status /\ stop # "Continue"
        BY Zenon DEF Status
      <3>2. Outcome(o) /\ o.f = f /\ o.status = stop
        BY <2>3, <3>1, ReturnsIs
      <3> QED  BY <2>1, <3>1, <3>2, Zenon DEF BedrockGoes
    <2>4. ASSUME NEW o, o = Returns("Continue", [f EXCEPT !.skipped = TRUE]), m.req.at # "end"
          PROVE  BedrockGoes(f, o, TRUE)
      <3>1. PICK g : g = [f EXCEPT !.skipped = TRUE]
        BY Zenon
      <3>2. "Continue" \in Status
        BY Zenon DEF Status
      <3>3. Outcome(o) /\ o.f = g
        BY <2>4, <3>1, <3>2, ReturnsIs
      <3>4. g \in BedrockObject /\ g.skipped /\ g.buffer = << >> /\ g.index = 0
        BY <2>1, <2>2, <2>4, <3>1, Zenon DEF BedrockObject
      <3> QED  BY <3>3, <3>4, Zenon DEF BedrockGoes
    <2>5. ASSUME NEW outs, NEW whole \in BOOLEAN, \A o \in outs : BedrockGoes(f, o, whole),
                 m.req.at # "end", n.req.at # "end" <=> ~whole,
                 \E o \in outs : filter'[s] = o.f /\ Moved(m, n, "req", o)
          PROVE  BedrockSound(filter'[s], n)
      <3>1. PICK o \in outs : filter'[s] = o.f /\ Moved(m, n, "req", o)
        BY Zenon, <2>5
      <3>2. BedrockSound(o.f, n)
        BY Zenon, <2>5, <3>1, <1>2
      <3> QED  BY Zenon, <3>1, <3>2
    <2>6. CASE BedrockOnRequestHeaders(s)
      <3> DEFINE Outs(end) == {IF end THEN Returns("Continue", [f EXCEPT !.skipped = TRUE]) ELSE Returns("Stop", f)}
      <3>1. PICK end \in BOOLEAN : HeadersFrame(s, "req", end, Outs(end)) /\ shared' = shared
        BY <2>6, Zenon DEF BedrockOnRequestHeaders, OnHeaders
      <3>2. m.req.at = "idle"
        BY <3>1, Zenon DEF HeadersFrame
      <3>3. \A o \in Outs(end) : BedrockGoes(f, o, end)
        BY <2>3, <2>4, <3>2, Zenon
      <3> HIDE DEF Outs
      <3>4. \A o \in Outs(end) : Outcome(o)
        BY <3>3, Zenon DEF BedrockGoes
      <3>5. /\ OnlyStream(s) /\ n.req.at = (IF end THEN "end" ELSE "headers")
            /\ \E o \in Outs(end) : filter'[s] = o.f /\ Moved(m, n, "req", o)
        BY <3>1, <3>4, OnHeadersMoves
      <3> QED  BY Zenon, <2>5, <3>1, <3>2, <3>3, <3>5
    <2>7. CASE BedrockOnRequestBody(s)
      <3> DEFINE Outs(end) == IF ~end THEN {Returns("StopAndBuffer", f)} ELSE processRequestbody(f, "StopAndBuffer")
      <3>1. PICK end \in BOOLEAN : BodyFrame(s, "req", end, Outs(end)) /\ shared' = shared
        BY <2>7, Zenon DEF BedrockOnRequestBody, OnBody
      <3>2. m.req.at \in {"headers", "body"}
        BY <3>1, Zenon DEF BodyFrame
      <3>3. \A o \in Outs(end) : BedrockGoes(f, o, end)
        <4>1. CASE ~end
          BY <2>3, <4>1, Zenon
        <4>2. CASE end
          BY <2>1, <2>2, <3>2, <4>2, <1>1, Zenon
        <4> QED  BY Zenon, <4>1, <4>2
      <3> HIDE DEF Outs
      <3>4. \A o \in Outs(end) : Outcome(o)
        BY <3>3, Zenon DEF BedrockGoes
      <3>5. /\ OnlyStream(s) /\ n.req.at = (IF end THEN "end" ELSE "body")
            /\ \E o \in Outs(end) : filter'[s] = o.f /\ Moved(m, n, "req", o)
        BY Zenon, <3>1, <3>4, OnBodyMoves
      <3> QED  BY Zenon, <2>5, <3>1, <3>2, <3>3, <3>5
    <2>8. CASE BedrockOnRequestTrailers(s)
      <3> DEFINE outs == processRequestbody(f, "Stop")
      <3>1. TrailersFrame(s, "req", outs) /\ shared' = shared
        BY <2>8, Zenon DEF BedrockOnRequestTrailers, OnTrailers
      <3>2. m.req.at \in {"headers", "body"}
        BY <3>1, Zenon DEF TrailersFrame
      <3>3. \A o \in outs : BedrockGoes(f, o, TRUE)
        BY <2>1, <2>2, <3>2, <1>1, Zenon
      <3> HIDE DEF outs
      <3>4. \A o \in outs : Outcome(o)
        BY <3>3, Zenon DEF BedrockGoes
      <3>5. /\ OnlyStream(s) /\ n.req.at = "end"
            /\ \E o \in outs : filter'[s] = o.f /\ Moved(m, n, "req", o)
        BY Zenon, <3>1, <3>4, OnTrailersMoves
      <3> QED  BY <2>5, <3>1, <3>2, <3>3, <3>5, Zenon
    <2> QED  BY Zenon, <2>6, <2>7, <2>8
  (* A guardrail answers: the next one is asked about the body as it was     *)
  (* rewritten, or the last has passed it.                                   *)
  <1>4. ASSUME Streamed, NEW s \in Streams, BedrockSound(filter[s], stream[s]), BedrockOnHttpCalloutDone(s)
        PROVE  OnlyStream(s) /\ BedrockSound(filter'[s], stream'[s]) /\ shared' = shared
    <2> USE <1>4
    <2> DEFINE f == filter[s]
               m == stream[s]
               n == stream'[s]
    <2>1. /\ f \in BedrockObject /\ ~m.spurious /\ f.index # 0 /\ m.req.at = "end" /\ m.req.flow # "open"
          /\ ~m.req.seen /\ f.body = f.masked /\ f.asked = f.index /\ f.index <= f.guardrails
          /\ Waits(s, "req")
      BY Zenon DEF BedrockSound, BedrockOnHttpCalloutDone, Waits
    <2>2. ASSUME NEW g \in BedrockObject, NEW code \in Nat, Answers(s, "req", code, [g EXCEPT !.index = 0])
          PROVE  OnlyStream(s) /\ BedrockSound(filter'[s], n) /\ shared' = shared
      <3>1. PICK h : h = [g EXCEPT !.index = 0]
        BY Zenon
      <3>2. h \in BedrockObject /\ h.index = 0
        BY <3>1, Zenon DEF BedrockObject
      <3>3. /\ OnlyStream(s) /\ filter'[s] = h /\ shared' = shared
            /\ n.req = m.req /\ n.spurious = m.spurious
        BY <2>1, <2>2, <3>1, AnswersIt
      <3> QED  BY <2>1, <3>2, <3>3, Zenon DEF BedrockSound
    <2>3. CASE \/ Answers(s, "req", 502, [f EXCEPT !.index = 0])
               \/ Answers(s, "req", 400, [f EXCEPT !.index = 0])
      BY <2>1, <2>2, <2>3
    <2>4. ASSUME NEW masks \in BOOLEAN, Passed(s, masks)
          PROVE  OnlyStream(s) /\ BedrockSound(filter'[s], n) /\ shared' = shared
      <3>1. f.body \in Seq(Nat) /\ f.index \in Nat /\ f.asked \in Nat /\ f.guardrails \in Nat
        BY Zenon, <2>1 DEF BedrockObject
      <3>2. Append(f.body, f.index) \in Seq(Nat)
        BY <3>1, OneMore, Zenon
      <3>3. PICK q \in Seq(Nat) : q = IF masks THEN Append(f.body, f.index) ELSE f.body
        BY <3>1, <3>2, Zenon
      <3>4. PICK g : g = [f EXCEPT !.masked = q]
        BY Zenon
      <3>5. NextGuardrail(s, g, q)
        BY <2>1, <2>4, <3>3, <3>4, Zenon DEF Passed, BedrockObject
      <3>6. /\ g \in BedrockObject /\ g.masked = q /\ g.index = f.index /\ g.asked = f.asked
            /\ g.guardrails = f.guardrails
        BY <2>1, <3>4, Zenon DEF BedrockObject
      <3>7. CASE /\ g.index < g.guardrails /\ filter' = [filter EXCEPT ![s] = Apply(g, g.index + 1, q)]
                 /\ UNCHANGED <<stream, shared>>
        <4>1. PICK i \in Nat : i = g.index + 1 /\ i = g.asked + 1
          BY <2>1, <3>1, <3>6
        <4>2. PICK h : h = Apply(g, i, q)
          BY Zenon
        <4>3. h = [g EXCEPT !.index = i, !.body = q, !.asked = i]
          BY <4>1, <4>2, Zenon DEF Apply
        <4>4. /\ h \in BedrockObject /\ h.body = q /\ h.masked = q /\ h.index = i /\ h.asked = i
              /\ h.guardrails = g.guardrails
          BY <3>6, <4>3, Zenon DEF BedrockObject
        <4>5. i <= g.guardrails
          BY <3>1, <3>6, <3>7, <4>1
        <4>6. OnlyStream(s) /\ filter'[s] = h /\ n = m /\ shared' = shared
          BY <3>7, <4>1, <4>2, Zenon DEF OnlyStream, Streamed
        <4> QED  BY <2>1, <4>4, <4>5, <4>6, Zenon DEF BedrockSound
      <3>8. CASE Answers(s, "req", 502, [g EXCEPT !.index = 0])
        BY <2>2, <3>6, <3>8
      <3>9. CASE ~(g.index < g.guardrails) /\ Continues(s, "req", [g EXCEPT !.index = 0, !.buffer = q])
        <4>1. PICK h : h = [g EXCEPT !.index = 0, !.buffer = q]
          BY Zenon
        <4>2. 0 \in Nat /\ g.asked = g.guardrails
          BY <2>1, <3>1, <3>6, <3>9
        <4>3. h \in BedrockObject /\ h.index = 0 /\ h.buffer = q /\ h.masked = q /\ h.asked = h.guardrails
          BY <3>6, <4>1, <4>2, ZenonT(60) DEF BedrockObject
        <4>4. /\ OnlyStream(s) /\ filter'[s] = h /\ shared' = shared
              /\ n.req.at = m.req.at /\ n.spurious = m.spurious
          BY <2>1, <3>9, <4>1, ContinuesIt
        <4> QED  BY <2>1, <4>3, <4>4, Zenon DEF BedrockSound, BedrockApproved
      <3> QED  BY <3>5, <3>7, <3>8, <3>9, ZenonT(60) DEF NextGuardrail
    <2> QED  BY <2>3, <2>4, ZenonT(60) DEF BedrockOnHttpCalloutDone
  <1> QED  BY Zenon, <1>3, <1>4 DEF BedrockStep

(* The analysis is over, so that trackAndMarkTxDone may release. *)
WafFinished(f) == f.off \/ f.processed.resp \/ (f.mode = "request" /\ f.processed.req)

(* A filter with its transaction, recorded when it is done.  A phase keeps *)
(* this whatever it makes of the engine.                                   *)
WafLive(f) ==
    /\ f \in WafFilters /\ ~f.misused /\ f.tx = "live" /\ f.created = 1 /\ f.released = 0
    /\ f.recorded = IF f.txDone THEN 1 ELSE 0

(* A filter between two callbacks. *)
WafCore(f) ==
    /\ f \in WafFilters /\ ~f.misused
    /\ f.tx = None => f.created = 0 /\ f.released = 0 /\ ~f.txDone
    /\ f.tx = "live" => f.created = 1 /\ f.released = 0
    /\ f.tx = "released" => f.created = 1 /\ f.released = 1 /\ f.txDone
    /\ ~f.txDone => f.recorded = 0
    /\ f.txDone => f.recorded = 1 \/ (f.off /\ f.recorded = 0)

(* g goes further than f in direction dir. *)
WafAhead(f, g, dir) ==
    /\ g.mode = f.mode
    /\ \A d \in Ways : f.processed[d] => g.processed[d]
    /\ \A d \in Ways \ {dir} : g.processed[d] = f.processed[d]

(* What a callback of the WAF may have come to before it tracks.           *)
WafOut(f, o, dir) ==
    /\ Outcome(o) /\ DOMAIN o = {"status", "reply", "f"}
    /\ WafLive(o.f) /\ WafAhead(f, o.f, dir)
    /\ o.status = "Continue" => o.f.processed[dir]

(* A frame that the WAF does not look into. *)
WafPassing(f, o, dir) ==
    o = Returns("Continue", f) /\ (~Inspects(f, dir) \/ f.processed[dir])

(* What a callback comes to before it tracks. *)
WafHandled(f, o, dir) == WafPassing(f, o, dir) \/ (Inspects(f, dir) /\ WafOut(f, o, dir))

WafSound(f, m) ==
    /\ WafCore(f) /\ ~m.spurious
    /\ m.up /\ f.tx = "released" => WafFinished(f)
    /\ ~m.up => f.tx # "live"
    /\ m.req.at = "idle" => f.tx = None /\ ~m.req.seen /\ (m.resp.seen => m.foreign)
    /\ f.processed.resp => m.foreign \/ m.req.seen
    /\ m.req.seen => WafApproved(f, "req")
    /\ m.resp.seen => WafApproved(f, "resp")

(* What a callback leaves once it has tracked. *)
WafLeft(f, o, dir) ==
    /\ WafCore(o.f) /\ WafAhead(f, o.f, dir)
    /\ f.off => o.f.off
    /\ f.tx = None => o.f.tx = None
    /\ o.f.tx = "released" => WafFinished(o.f)
    /\ o.status = "Continue" => WafApproved(o.f, dir)

(* The outcomes of the response headers, with g the filter that knows of   *)
(* its event stream.                                                       *)
WafResponseOuts(f, g, end, sse) ==
    IF ~Inspects(g, "resp") THEN {Returns("Continue", f)}
    ELSE {Replies("Stop", 500, g)}
         \cup UNION {AfterHeaders(o, "resp", end \/ g.isUpgrade \/ sse) :
                       o \in Phase(g, "Stop", "Stop")}

(* The callbacks of the WAF. *)
LEMMA WafKeeps ==
    \A s \in Streams :
        Streamed /\ WafSound(filter[s], stream[s]) /\ WafStep(s) =>
          OnlyStream(s) /\ WafSound(filter'[s], stream'[s]) /\ shared' = shared
  (* A transaction that is there is not misused. *)
  <1>1. ASSUME NEW f \in WafFilters, f.tx = "live", ~f.misused
        PROVE  Uses(f) = f
    <2> USE <1>1
    <2>1. f.misused = FALSE /\ (f.tx # "live") = FALSE
      BY Zenon DEF WafFilters
    <2>2. Uses(f) = [f EXCEPT !.misused = FALSE]
      BY <2>1, Zenon DEF Uses
    <2> QED  BY <2>1, <2>2, ZenonT(60) DEF WafFilters
  (* trackAndMarkTxDone records once, and releases only what is finished. *)
  <1>2. ASSUME NEW f, WafCore(f), NEW g, g = trackAndMarkTxDone(f)
        PROVE  /\ WafCore(g) /\ g.mode = f.mode /\ g.processed = f.processed /\ g.off = f.off
               /\ g.tx = None <=> f.tx = None
               /\ g.tx = "released" => f.tx = "released" \/ WafFinished(g)
    <2> USE <1>2
    <2> DEFINE n == IF f.off THEN f.recorded ELSE f.recorded + 1
               r == [f EXCEPT !.txDone = TRUE, !.recorded = n]
    <2>1. CASE g = f
      BY Zenon, <2>1
    <2>2. CASE g # f
      <3>1. f.tx = "live" /\ ~f.txDone /\ f \in WafFilters /\ ~f.misused /\ f.recorded = 0
        BY <2>2, Zenon DEF trackAndMarkTxDone, WafCore
      <3>2. recordTxMetrics(f) = r
        BY <3>1, <1>1, Zenon DEF recordTxMetrics
      <3>3. /\ r \in WafFilters /\ r.txDone /\ r.recorded = n /\ r.tx = "live" /\ r.mode = f.mode
            /\ r.processed = f.processed /\ r.off = f.off /\ ~r.misused
            /\ r.created = 1 /\ r.released = 0
        <4>1. n \in Nat
          BY <3>1
        <4> HIDE DEF n
        <4> QED  BY <3>1, <4>1, Zenon DEF WafFilters, WafCore
      <3>4. n = 1 \/ (f.off /\ n = 0)
        BY <3>1
      <3> HIDE DEF n, r
      <3>5. CASE g = r
        BY Zenon, <3>1, <3>3, <3>4, <3>5, WafAssumption DEF WafCore
      <3>6. CASE g = releaseTransaction(r) /\ WafFinished(f)
        <4>1. g = [r EXCEPT !.tx = "released", !.released = 1]
          <5>1. r.released + 1 = 1 /\ 1 \in Nat
            BY <3>3
          <5> QED  BY <3>3, <3>6, <5>1, Zenon DEF releaseTransaction
        <4>2. /\ g \in WafFilters /\ g.txDone /\ g.recorded = n /\ g.tx = "released" /\ g.mode = f.mode
              /\ g.processed = f.processed /\ g.off = f.off /\ ~g.misused
              /\ g.created = 1 /\ g.released = 1
          BY <3>3, <4>1, ZenonT(60) DEF WafFilters
        <4>3. WafFinished(g)
          BY <3>6, <4>2, Zenon DEF WafFinished
        <4> QED  BY Zenon, <3>1, <3>4, <4>2, <4>3, WafAssumption DEF WafCore
      <3> QED  BY <2>2, <3>1, <3>2, <3>5, <3>6, Zenon DEF trackAndMarkTxDone, WafFinished
    <2> QED  BY <2>1, <2>2, Zenon
  (* A transaction in use, between callbacks and within one. *)
  <1>3. ASSUME NEW f
        PROVE  /\ WafLive(f) => WafCore(f)
               /\ WafCore(f) /\ f.tx = "live" /\ ~f.off => WafLive(f)
    BY Zenon, <1>3, WafAssumption DEF WafLive, WafCore
  (* The outcomes of a callback are records of three fields. *)
  <1>4. ASSUME NEW status \in Status, NEW f, NEW o,
               o = Returns(status, f) \/ \E code \in Nat : o = Replies(status, code, f)
        PROVE  Outcome(o) /\ DOMAIN o = {"status", "reply", "f"} /\ o.status = status /\ o.f = f
    BY <1>4 DEF Outcome, Returns, Replies
  (* A phase leaves the transaction in use. *)
  <1>5. ASSUME NEW f, WafLive(f), NEW continue \in Status, NEW stop \in Status,
               NEW o \in Phase(f, continue, stop)
        PROVE  /\ Outcome(o) /\ DOMAIN o = {"status", "reply", "f"} /\ WafLive(o.f)
               /\ o.f.mode = f.mode /\ o.f.processed = f.processed
               /\ o.status \in {continue, stop} /\ (o.reply = None => o.status = continue)
               /\ o.f.isUpgrade = f.isUpgrade
    <2> USE <1>5
    <2>1. Uses(f) = f /\ f \in WafFilters
      BY Zenon, <1>1 DEF WafLive
    <2>2. CASE \E x \in BOOLEAN : o = Returns(continue, [f EXCEPT !.off = x])
      <3>1. PICK x \in BOOLEAN : o = Returns(continue, [f EXCEPT !.off = x])
        BY Zenon, <2>2
      <3>2. PICK g : g = [f EXCEPT !.off = x]
        BY Zenon
      <3>3. WafLive(g) /\ g.mode = f.mode /\ g.processed = f.processed /\ g.isUpgrade = f.isUpgrade
        BY <2>1, <3>2, Zenon DEF WafLive, WafFilters
      <3>4. Outcome(o) /\ DOMAIN o = {"status", "reply", "f"} /\ o.status = continue /\ o.f = g
        BY <3>1, <3>2, <1>4
      <3> QED  BY <3>3, <3>4, Zenon
    <2>3. CASE o = Replies(stop, 403, [f EXCEPT !.interrupted = TRUE])
      <3>1. PICK g : g = [f EXCEPT !.interrupted = TRUE]
        BY Zenon
      <3>2. WafLive(g) /\ g.mode = f.mode /\ g.processed = f.processed /\ g.isUpgrade = f.isUpgrade
        BY <2>1, <3>1, Zenon DEF WafLive, WafFilters
      <3>3. 403 \in Nat
        OBVIOUS
      <3>4. \E code \in Nat : o = Replies(stop, code, g)
        BY <2>3, <3>1, <3>3, ZenonT(60)
      <3>5. Outcome(o) /\ DOMAIN o = {"status", "reply", "f"} /\ o.status = stop /\ o.f = g
        BY <3>4, <1>4
      <3>6. o.reply # None
        BY <2>3, <3>3, NoneAssumption DEF Replies
      <3> QED  BY <3>2, <3>5, <3>6, Zenon
    <2> QED  BY <2>1, <2>2, <2>3, ZenonT(60) DEF Phase
  (* The filter with the body of direction dir processed. *)
  <1>6. ASSUME NEW f, WafLive(f), NEW dir \in Ways, NEW g, g = [f EXCEPT !.processed[dir] = TRUE]
        PROVE  WafLive(g) /\ WafAhead(f, g, dir) /\ g.processed[dir]
    <2> USE <1>6
    <2>1. f \in WafFilters /\ f.processed \in [Ways -> BOOLEAN]
      BY Zenon DEF WafLive, WafFilters, Ways
    <2>2. PICK p \in [Ways -> BOOLEAN] : p = [f.processed EXCEPT ![dir] = TRUE]
      BY <2>1, Zenon
    <2>3. g = [f EXCEPT !.processed = p]
      BY <2>1, <2>2, Zenon DEF WafFilters
    <2>4. /\ g \in WafFilters /\ g.processed = p /\ g.mode = f.mode /\ g.misused = f.misused /\ g.tx = f.tx
          /\ g.created = f.created /\ g.released = f.released /\ g.recorded = f.recorded /\ g.txDone = f.txDone
      BY <2>1, <2>3, ZenonT(60) DEF WafFilters, Ways
    <2>5. p[dir] /\ \A d \in Ways \ {dir} : p[d] = f.processed[d]
      BY <2>1, <2>2, Zenon
    <2> QED  BY <2>4, <2>5, Zenon DEF WafLive, WafAhead
  (* The body phase marks its direction as processed, whatever it decides. *)
  <1>7. ASSUME NEW f, WafLive(f), NEW dir \in Ways, NEW stop \in {"Stop", "StopNoBuffer"},
               NEW o \in handleBody(f, dir, "Continue", stop)
        PROVE  WafOut(f, o, dir)
    <2> USE <1>7
    <2>1. "Continue" \in Status /\ stop \in Status /\ 500 \in Nat
      BY DEF Status
    <2>2. PICK g : g = [f EXCEPT !.processed[dir] = TRUE]
      BY Zenon
    <2>3. WafLive(g) /\ WafAhead(f, g, dir) /\ g.processed[dir]
      BY <2>2, <1>6, Zenon
    <2>4. o \in Phase(g, "Continue", stop) \/ o = Replies(stop, 500, Uses(g))
      BY <2>2, ZenonT(60) DEF handleBody
    <2>5. CASE o \in Phase(g, "Continue", stop)
      <3>1. /\ Outcome(o) /\ DOMAIN o = {"status", "reply", "f"} /\ WafLive(o.f)
            /\ o.f.mode = g.mode /\ o.f.processed = g.processed
        BY <2>1, <2>3, <2>5, <1>5
      <3> QED  BY Zenon, <2>3, <3>1 DEF WafOut, WafAhead
    <2>6. CASE o = Replies(stop, 500, Uses(g))
      <3>1. o = Replies(stop, 500, g)
        BY <2>3, <2>6, <1>1, ZenonT(60) DEF WafLive
      <3>2. Outcome(o) /\ DOMAIN o = {"status", "reply", "f"} /\ o.f = g
        BY <2>1, <3>1, <1>4
      <3> QED  BY <2>3, <3>2, Zenon DEF WafOut
    <2> QED  BY <2>4, <2>5, <2>6, Zenon
  (* Phases one after the other. *)
  <1>8. ASSUME NEW f, NEW g, NEW o, NEW dir \in Ways, WafAhead(f, g, dir), WafOut(g, o, dir)
        PROVE  WafOut(f, o, dir)
    BY <1>8, Zenon DEF WafOut, WafAhead
  (* Writing a chunk runs the body phase when the limit is reached. *)
  <1>9. ASSUME NEW f, WafLive(f), NEW dir \in Ways, NEW o \in writeBody(f, dir)
        PROVE  WafOut(f, o, dir)
    <2> USE <1>9
    <2>1. /\ "Continue" \in Status /\ "StopAndBuffer" \in Status /\ "StopNoBuffer" \in Status /\ 500 \in Nat
          /\ "StopAndBuffer" # "Continue" /\ "StopNoBuffer" # "Continue"
      BY DEF Status
    <2>2. Uses(f) = f
      BY Zenon, <1>1 DEF WafLive
    <2>3. WafAhead(f, f, dir)
      BY Zenon DEF WafAhead
    <2>4. CASE o = Returns("StopAndBuffer", Uses(f))
      <3>1. Outcome(o) /\ DOMAIN o = {"status", "reply", "f"} /\ o.f = f /\ o.status = "StopAndBuffer"
        BY <2>1, <2>2, <2>4, <1>4
      <3> QED  BY <2>1, <2>3, <3>1, Zenon DEF WafOut
    <2>5. CASE o = Replies("StopNoBuffer", 500, Uses(f))
      <3>1. Outcome(o) /\ DOMAIN o = {"status", "reply", "f"} /\ o.f = f /\ o.status = "StopNoBuffer"
        BY <2>1, <2>2, <2>5, <1>4
      <3> QED  BY <2>1, <2>3, <3>1, Zenon DEF WafOut
    <2>6. CASE o \in Phase([f EXCEPT !.processed[dir] = TRUE], "Continue", "StopNoBuffer")
      <3>1. PICK g : g = [f EXCEPT !.processed[dir] = TRUE]
        BY Zenon
      <3>2. WafLive(g) /\ WafAhead(f, g, dir) /\ g.processed[dir]
        BY <3>1, <1>6, Zenon
      <3>3. /\ Outcome(o) /\ DOMAIN o = {"status", "reply", "f"} /\ WafLive(o.f)
            /\ o.f.mode = g.mode /\ o.f.processed = g.processed
        <4>1. o \in Phase(g, "Continue", "StopNoBuffer")
          BY Zenon, <2>6, <3>1
        <4> QED  BY <2>1, <3>2, <4>1, <1>5
      <3> QED  BY Zenon, <3>2, <3>3 DEF WafOut, WafAhead
    <2> QED  BY <2>4, <2>5, <2>6, ZenonT(60) DEF writeBody
  (* A body chunk. *)
  <1>10. ASSUME NEW f, WafCore(f), NEW dir \in Ways, NEW end \in BOOLEAN, NEW o \in WafOnAnyBody(f, dir, end)
         PROVE  WafHandled(f, o, dir)
    <2> USE <1>10
    <2>1. CASE ~Inspects(f, dir) \/ f.processed[dir]
      BY <2>1, Zenon DEF WafOnAnyBody, WafPassing, WafHandled
    <2>2. CASE ~(~Inspects(f, dir) \/ f.processed[dir])
      <3> SUFFICES WafOut(f, o, dir)  BY <2>2, Zenon DEF WafHandled
      <3>1. WafLive(f)
        BY Zenon, <2>2, <1>3 DEF Inspects
      <3>2. CASE ~f.accessible[dir]
        <4>1. o \in handleBody(f, dir, "Continue", "StopNoBuffer")
          BY <2>2, <3>2, Zenon DEF WafOnAnyBody
        <4> QED  BY Zenon, <3>1, <4>1, <1>7
      <3>3. CASE f.accessible[dir]
        <4>1. PICK p \in writeBody(f, dir) :
                o \in IF p.status = "StopAndBuffer" /\ end
                      THEN handleBody(p.f, dir, "Continue", "StopNoBuffer") ELSE {p}
          BY <2>2, <3>3, Zenon DEF WafOnAnyBody
        <4>2. WafOut(f, p, dir)
          BY Zenon, <3>1, <1>9
        <4>3. WafLive(p.f) /\ WafAhead(f, p.f, dir)
          BY <4>2, Zenon DEF WafOut
        <4>4. CASE o = p
          BY Zenon, <4>2, <4>4
        <4>5. CASE o \in handleBody(p.f, dir, "Continue", "StopNoBuffer")
          BY Zenon, <4>3, <4>5, <1>7, <1>8
        <4> QED  BY <4>1, <4>4, <4>5, Zenon
      <3> QED  BY Zenon, <3>2, <3>3
    <2> QED  BY Zenon, <2>1, <2>2
  (* Trailers. *)
  <1>11. ASSUME NEW f, WafCore(f), NEW dir \in Ways, NEW o \in WafOnAnyTrailers(f, dir)
         PROVE  WafHandled(f, o, dir)
    <2> USE <1>11
    <2>1. CASE ~Inspects(f, dir) \/ f.processed[dir]
      BY <2>1, Zenon DEF WafOnAnyTrailers, WafPassing, WafHandled
    <2>2. CASE ~(~Inspects(f, dir) \/ f.processed[dir])
      <3> SUFFICES WafOut(f, o, dir)  BY <2>2, Zenon DEF WafHandled
      <3>1. WafLive(f)
        BY Zenon, <2>2, <1>3 DEF Inspects
      <3>2. o \in handleBody(f, dir, "Continue", "Stop")
        BY <2>2, Zenon DEF WafOnAnyTrailers
      <3> QED  BY Zenon, <3>1, <3>2, <1>7
    <2> QED  BY Zenon, <2>1, <2>2
  (* The phase of the headers, and that of the body when there is none to    *)
  (* wait for.                                                               *)
  <1>12. ASSUME NEW f, WafLive(f), NEW dir \in Ways, NEW whole \in BOOLEAN,
                NEW p \in Phase(f, "Stop", "Stop"), NEW o \in AfterHeaders(p, dir, whole)
         PROVE  WafOut(f, o, dir)
    <2> USE <1>12
    <2>1. "Stop" \in Status /\ "Stop" # "Continue"
      BY Zenon DEF Status
    <2>2. /\ Outcome(p) /\ DOMAIN p = {"status", "reply", "f"} /\ WafLive(p.f)
          /\ p.f.mode = f.mode /\ p.f.processed = f.processed /\ p.status = "Stop"
      BY <2>1, <1>5
    <2>3. WafAhead(f, p.f, dir)
      BY Zenon, <2>2 DEF WafAhead
    <2>4. CASE o = p
      BY <2>1, <2>2, <2>3, <2>4, Zenon DEF WafOut
    <2>5. CASE o \in handleBody(p.f, dir, "Continue", "Stop")
      BY Zenon, <2>2, <2>3, <2>5, <1>7, <1>8
    <2>6. CASE o = Returns("Stop", p.f)
      <3>1. Outcome(o) /\ DOMAIN o = {"status", "reply", "f"} /\ o.f = p.f /\ o.status = "Stop"
        BY <2>1, <2>6, <1>4
      <3> QED  BY <2>1, <2>2, <2>3, <3>1, Zenon DEF WafOut
    <2> QED  BY <2>4, <2>5, <2>6, Zenon DEF AfterHeaders
  (* What a callback leaves is sound. *)
  <1>13. ASSUME NEW f, NEW m, NEW n, NEW o, NEW dir \in Ways, WafSound(f, m), Moved(m, n, dir, o),
                WafLeft(f, o, dir), dir = "req" => m.req.at # "idle"
         PROVE  WafSound(o.f, n)
    <2> USE <1>13
    <2> DEFINE g == o.f
    <2>1. /\ ~n.spurious /\ n.up /\ n.foreign = m.foreign
          /\ n[dir].seen <=> m[dir].seen \/ o.status = "Continue"
          /\ dir = "req" => n.resp = m.resp /\ n.req.at # "idle"
          /\ dir = "resp" => n.req = m.req /\ (m.foreign \/ m.req.seen)
      BY Zenon DEF Moved, WafSound
    <2>2. /\ g.mode = f.mode /\ (f.processed.req => g.processed.req) /\ (f.processed.resp => g.processed.resp)
          /\ dir = "req" => g.processed.resp = f.processed.resp
          /\ f.off => g.off
          /\ f.tx = None => g.tx = None
      BY Zenon DEF WafLeft, WafAhead, Ways
    <2>3. ASSUME NEW d \in Ways, WafApproved(f, d)
          PROVE  WafApproved(g, d)
      BY <2>2, <2>3, Zenon DEF WafApproved, Ways
    <2>4. CASE dir = "req"
      <3>1. n.req.seen => WafApproved(g, "req")
        BY <2>1, <2>3, <2>4, Zenon DEF WafLeft, WafSound, Ways
      <3>2. n.resp.seen => WafApproved(g, "resp")
        BY <2>1, <2>3, <2>4, Zenon DEF WafSound, Ways
      <3>3. g.processed.resp => n.foreign \/ n.req.seen
        BY <2>1, <2>2, <2>4, Zenon DEF WafSound
      <3> QED  BY <2>1, <2>4, <3>1, <3>2, <3>3, Zenon DEF WafSound, WafLeft
    <2>5. CASE dir = "resp"
      <3>1. n.resp.seen => WafApproved(g, "resp")
        BY <2>1, <2>3, <2>5, Zenon DEF WafLeft, WafSound, Ways
      <3>2. n.req.seen => WafApproved(g, "req")
        BY <2>1, <2>3, <2>5, Zenon DEF WafSound, Ways
      <3>3. n.req.at = "idle" => g.tx = None /\ ~n.req.seen /\ n.foreign
        BY <2>1, <2>2, <2>5, Zenon DEF WafSound
      <3>4. n.foreign \/ n.req.seen
        BY Zenon, <2>1, <2>5
      <3> QED  BY <2>1, <2>5, <3>1, <3>2, <3>3, <3>4, Zenon DEF WafSound, WafLeft
    <2> QED  BY <2>4, <2>5, Zenon DEF Ways
  (* Frames that pass uninspected are approved already. *)
  <1>14. ASSUME NEW f, NEW m, WafSound(f, m), m.up, NEW dir \in Ways, dir = "req" => ~m.foreign,
                ~Inspects(f, dir) \/ f.processed[dir]
         PROVE  WafApproved(f, dir)
    <2> USE <1>14
    <2>1. f.tx \in {None, "live", "released"}
      BY Zenon DEF WafSound, WafCore, WafFilters
    <2>2. CASE f.tx = "released"
      BY <2>2, Zenon DEF WafSound, WafFinished, WafApproved, Ways
    <2>3. CASE f.tx # "released"
      BY <2>1, <2>3, Zenon DEF Inspects, WafApproved
    <2> QED  BY Zenon, <2>2, <2>3
  (* A callback followed by trackAndMarkTxDone. *)
  <1>15. ASSUME NEW f, WafCore(f), f.tx = "released" => WafFinished(f), NEW dir \in Ways,
                NEW o, WafHandled(f, o, dir), WafPassing(f, o, dir) => WafApproved(f, dir),
                NEW p, p = [o EXCEPT !.f = trackAndMarkTxDone(o.f)]
         PROVE  Outcome(p) /\ WafLeft(f, p, dir)
    <2> USE <1>15
    <2>1. /\ Outcome(o) /\ DOMAIN o = {"status", "reply", "f"}
          /\ WafCore(o.f) /\ WafAhead(f, o.f, dir)
          /\ f.off => o.f.off
          /\ f.tx = None => o.f.tx = None
          /\ o.f.tx = "released" => WafFinished(o.f)
          /\ o.status = "Continue" => WafApproved(o.f, dir)
      <3>1. CASE WafPassing(f, o, dir)
        <4>1. "Continue" \in Status
          BY Zenon DEF Status
        <4>2. Outcome(o) /\ DOMAIN o = {"status", "reply", "f"} /\ o.f = f
          BY <3>1, <4>1, <1>4 DEF WafPassing
        <4>3. WafAhead(f, f, dir)
          BY Zenon DEF WafAhead
        <4> QED  BY <3>1, <4>2, <4>3, Zenon
      <3>2. CASE Inspects(f, dir) /\ WafOut(f, o, dir)
        <4>1. WafLive(o.f) /\ Outcome(o) /\ DOMAIN o = {"status", "reply", "f"} /\ WafAhead(f, o.f, dir)
              /\ (o.status = "Continue" => o.f.processed[dir])
          BY <3>2, Zenon DEF WafOut
        <4>2. ~f.off /\ f.tx = "live" /\ o.f.tx = "live" /\ "live" # None /\ "live" # "released"
          BY Zenon, <3>2, <4>1, WafAssumption DEF Inspects, WafLive
        <4>3. WafCore(o.f)
          BY Zenon, <4>1, <1>3
        <4> QED  BY <4>1, <4>2, <4>3, Zenon DEF WafApproved
      <3> QED  BY <3>1, <3>2, Zenon DEF WafHandled
    <2>2. PICK g : g = trackAndMarkTxDone(o.f)
      BY Zenon
    <2>3. p.status = o.status /\ p.reply = o.reply /\ p.f = g
      BY Zenon, <2>1, <2>2
    <2>4. /\ WafCore(g) /\ g.mode = o.f.mode /\ g.processed = o.f.processed /\ g.off = o.f.off
          /\ g.tx = None <=> o.f.tx = None
          /\ g.tx = "released" => o.f.tx = "released" \/ WafFinished(g)
      BY <2>1, <2>2, <1>2
    <2>5. Outcome(p)
      BY <2>1, <2>3, Zenon DEF Outcome
    <2>6. WafAhead(f, g, dir)
      BY Zenon, <2>1, <2>4 DEF WafAhead
    <2>7. g.tx = "released" => WafFinished(g)
      BY <2>1, <2>4, Zenon DEF WafFinished
    <2>8. p.status = "Continue" => WafApproved(g, dir)
      BY <2>1, <2>3, <2>4, Zenon DEF WafApproved
    <2> QED  BY <2>1, <2>3, <2>4, <2>5, <2>6, <2>7, <2>8, Zenon DEF WafLeft
  (* The outcomes of a callback past the request headers. *)
  <1>16. ASSUME NEW f, NEW m, WafSound(f, m), NEW dir \in Ways, m.up, dir = "req" => ~m.foreign,
                NEW outs, \A o \in outs : WafHandled(f, o, dir), NEW p \in Tracked(outs)
         PROVE  Outcome(p) /\ WafLeft(f, p, dir)
    <2> USE <1>16
    <2>1. PICK o \in outs : p = [o EXCEPT !.f = trackAndMarkTxDone(o.f)]
      BY Zenon DEF Tracked
    <2>2. WafHandled(f, o, dir)
      BY Zenon, <2>1
    <2>3. WafCore(f) /\ (f.tx = "released" => WafFinished(f))
      BY Zenon DEF WafSound
    <2>4. WafPassing(f, o, dir) => WafApproved(f, dir)
      BY Zenon, <1>14 DEF WafPassing
    <2> QED  BY Zenon, <2>1, <2>2, <2>3, <2>4, <1>15
  (* The callbacks after the one that creates the transaction. *)
  <1>17. ASSUME Streamed, NEW s \in Streams, WafSound(filter[s], stream[s]), NEW dir \in Ways,
                NEW outs, \A o \in outs : WafHandled(filter[s], o, dir),
                \/ \E end \in BOOLEAN : OnBody(s, dir, end, Tracked(outs))
                \/ OnTrailers(s, dir, Tracked(outs))
                \/ dir = "resp" /\ \E end \in BOOLEAN : OnHeaders(s, dir, end, Tracked(outs))
         PROVE  OnlyStream(s) /\ WafSound(filter'[s], stream'[s]) /\ shared' = shared
    <2> USE <1>17
    <2>1. PICK ps : ps = Tracked(outs)
      BY Zenon
    <2>2. stream[s].up /\ (dir = "req" => ~stream[s].foreign) /\ shared' = shared
          /\ (dir = "req" => stream[s].req.at # "idle")
      BY Zenon DEF OnBody, OnTrailers, OnHeaders, BodyFrame, TrailersFrame, HeadersFrame, Calls,
         Live
    <2>3. \A p \in ps : Outcome(p) /\ WafLeft(filter[s], p, dir)
      BY Zenon, <2>1, <2>2, <1>16
    <2>4. OnlyStream(s) /\ \E p \in ps : filter'[s] = p.f /\ Moved(stream[s], stream'[s], dir, p)
      <3>1. CASE \E end \in BOOLEAN : OnBody(s, dir, end, ps)
        BY <2>3, <3>1, OnBodyMoves DEF OnBody, Ways
      <3>2. CASE OnTrailers(s, dir, ps)
        BY Zenon, <2>3, <3>2, OnTrailersMoves DEF OnTrailers, Ways
      <3>3. CASE \E end \in BOOLEAN : OnHeaders(s, dir, end, ps)
        BY <2>3, <3>3, OnHeadersMoves DEF OnHeaders, Ways
      <3> QED  BY <2>1, <3>1, <3>2, <3>3, Zenon
    <2>5. PICK p \in ps : filter'[s] = p.f /\ Moved(stream[s], stream'[s], dir, p)
      BY Zenon, <2>4
    <2>6. WafSound(p.f, stream'[s])
      BY Zenon, <2>2, <2>3, <2>5, <1>13
    <2> QED  BY Zenon, <2>2, <2>4, <2>5, <2>6
  (* The response headers. *)
  <1>18. ASSUME NEW f, WafCore(f), NEW end \in BOOLEAN, NEW sse \in BOOLEAN, NEW g, g = [f EXCEPT !.isSSE = sse],
                NEW o \in WafResponseOuts(f, g, end, sse)
         PROVE  WafHandled(f, o, "resp")
    <2> USE <1>18
    <2>1. /\ g \in WafFilters /\ g.misused = f.misused /\ g.tx = f.tx /\ g.off = f.off /\ g.mode = f.mode
          /\ g.created = f.created /\ g.released = f.released /\ g.txDone = f.txDone
          /\ g.recorded = f.recorded /\ g.processed = f.processed
      <3>1. f \in WafFilters
        BY Zenon DEF WafCore
      <3> QED  BY <3>1, Zenon DEF WafFilters
    <2>2. Inspects(g, "resp") <=> Inspects(f, "resp")
      BY <2>1, Zenon DEF Inspects
    <2>3. CASE ~Inspects(g, "resp")
      BY <2>2, <2>3, Zenon DEF WafHandled, WafPassing, WafResponseOuts
    <2>4. CASE Inspects(g, "resp")
      <3> SUFFICES WafOut(f, o, "resp")  BY <2>2, <2>4, Zenon DEF WafHandled
      <3>1. "resp" \in Ways
        BY Zenon DEF Ways
      <3>2. WafLive(f)
        BY Zenon, <2>2, <2>4, <1>3 DEF Inspects
      <3>3. WafLive(g) /\ WafAhead(f, g, "resp")
        BY <2>1, <3>2, Zenon DEF WafLive, WafAhead
      <3> DEFINE whole == end \/ g.isUpgrade \/ sse
      <3>4. whole \in BOOLEAN
        OBVIOUS
      <3>5. CASE o = Replies("Stop", 500, g)
        <4>1. "Stop" \in Status /\ "Stop" # "Continue" /\ 500 \in Nat
          BY DEF Status
        <4>2. Outcome(o) /\ DOMAIN o = {"status", "reply", "f"} /\ o.f = g /\ o.status = "Stop"
          <5>1. \E code \in Nat : o = Replies("Stop", code, g)
            BY <3>5, <4>1
          <5> QED  BY <4>1, <5>1, <1>4
        <4> QED  BY <3>3, <4>1, <4>2, Zenon DEF WafOut
      <3>6. CASE \E p \in Phase(g, "Stop", "Stop") : o \in AfterHeaders(p, "resp", whole)
        <4>1. WafOut(g, o, "resp")
          BY <3>1, <3>3, <3>4, <3>6, <1>12, Zenon
        <4> QED  BY Zenon, <3>1, <3>3, <4>1, <1>8
      <3>7. \/ o = Replies("Stop", 500, g)
            \/ o \in UNION {AfterHeaders(p, "resp", whole) : p \in Phase(g, "Stop", "Stop")}
        <4>1. o \in {Replies("Stop", 500, g)}
                   \cup UNION {AfterHeaders(p, "resp", whole) : p \in Phase(g, "Stop", "Stop")}
          BY <2>4 DEF WafResponseOuts
        <4> QED  BY <4>1, Zenon
      <3> HIDE DEF whole
      <3> QED  BY <3>5, <3>6, <3>7, Zenon
    <2> QED  BY Zenon, <2>3, <2>4
  (* initializeTransaction creates the one transaction of the stream. *)
  <1>19. ASSUME NEW f, WafCore(f), f.tx = None, NEW upgrade \in BOOLEAN, NEW off \in BOOLEAN,
                NEW g, g = [initializeTransaction(f, upgrade) EXCEPT !.off = off]
         PROVE  WafLive(g) /\ g.mode = f.mode /\ g.processed = f.processed
    <2> USE <1>19
    <2>1. f.created + 1 = 1 /\ 1 \in Nat /\ f.released = 0 /\ ~f.txDone /\ f.recorded = 0 /\ f \in WafFilters
          /\ ~f.misused
      BY DEF WafCore
    <2>2. initializeTransaction(f, upgrade) = [f EXCEPT !.tx = "live", !.created = 1, !.isUpgrade = upgrade]
      BY <2>1, Zenon DEF initializeTransaction
    <2>3. PICK h : h = [f EXCEPT !.tx = "live", !.created = 1, !.isUpgrade = upgrade]
      BY Zenon
    <2>4. /\ h \in WafFilters /\ ~h.misused /\ h.tx = "live" /\ h.created = 1 /\ h.released = 0
          /\ ~h.txDone /\ h.recorded = 0 /\ h.mode = f.mode /\ h.processed = f.processed
      BY <2>1, <2>3, Zenon DEF WafFilters
    <2>5. g = [h EXCEPT !.off = off]
      BY <2>2, <2>3, Zenon
    <2>6. /\ g \in WafFilters /\ ~g.misused /\ g.tx = "live" /\ g.created = 1 /\ g.released = 0
          /\ ~g.txDone /\ g.recorded = 0 /\ g.mode = f.mode /\ g.processed = f.processed
      BY <2>4, <2>5, Zenon DEF WafFilters
    <2> QED  BY <2>6, Zenon DEF WafLive
  (* The request headers: the transaction is created. *)
  <1>20. ASSUME Streamed, NEW s \in Streams, WafSound(filter[s], stream[s]), WafOnRequestHeaders(s)
         PROVE  OnlyStream(s) /\ WafSound(filter'[s], stream'[s]) /\ shared' = shared
    <2> USE <1>20
    <2> DEFINE f == filter[s]
               m == stream[s]
               n == stream'[s]
    <2>1. PICK end \in BOOLEAN, upgrade \in BOOLEAN, off \in BOOLEAN :
            LET g == [initializeTransaction(f, upgrade) EXCEPT !.off = off]
            IN  OnHeaders(s, "req", end, Tracked(
                  IF ~Inspects(g, "req") THEN {Returns("Continue", g)}
                  ELSE UNION {AfterHeaders(o, "req", end \/ g.isUpgrade) : o \in Phase(g, "Stop", "Stop")}))
      BY Zenon DEF WafOnRequestHeaders
    <2>2. PICK g : g = [initializeTransaction(f, upgrade) EXCEPT !.off = off]
      BY Zenon
    <2>3. PICK whole \in BOOLEAN : whole = (end \/ g.isUpgrade)
      BY Zenon
    <2>4. PICK outs : outs = IF ~Inspects(g, "req") THEN {Returns("Continue", g)}
                             ELSE UNION {AfterHeaders(o, "req", whole) : o \in Phase(g, "Stop", "Stop")}
      BY Zenon
    <2>5. PICK ps : ps = Tracked(outs)
      BY Zenon
    <2>6. OnHeaders(s, "req", end, ps)
      BY <2>1, <2>2, <2>3, <2>4, <2>5, Zenon
    <2>7. m.up /\ m.req.at = "idle" /\ ~m.foreign /\ shared' = shared
      BY Zenon, <2>6 DEF OnHeaders, HeadersFrame, Calls, Live
    <2>8. f.tx = None /\ ~m.resp.seen /\ ~f.processed.resp /\ WafCore(f) /\ ~m.req.seen /\ ~m.spurious
      BY <2>7, Zenon DEF WafSound
    <2>9. WafLive(g) /\ g.mode = f.mode /\ g.processed = f.processed
      BY <2>2, <2>8, <1>19, ZenonT(60)
    <2>10. WafCore(g) /\ g.tx # "released" /\ "req" \in Ways
      BY Zenon, <2>9, <1>3 DEF WafLive, Ways
    <2>11. ASSUME NEW o \in outs
           PROVE  WafHandled(g, o, "req") /\ (WafPassing(g, o, "req") => WafApproved(g, "req"))
      <3>1. CASE ~Inspects(g, "req")
        BY <2>4, <2>9, <2>11, <3>1, Zenon DEF WafHandled, WafPassing, Inspects, WafApproved, WafLive
      <3>2. CASE Inspects(g, "req")
        <4>1. WafOut(g, o, "req")
          BY Zenon, <2>4, <2>9, <2>10, <2>11, <3>2, <1>12
        <4> QED  BY <3>2, <4>1, Zenon DEF WafHandled, WafPassing, WafApproved
      <3> QED  BY Zenon, <3>1, <3>2
    <2>12. ASSUME NEW p \in ps
           PROVE  Outcome(p) /\ WafLeft(g, p, "req")
      <3>1. PICK o \in outs : p = [o EXCEPT !.f = trackAndMarkTxDone(o.f)]
        BY <2>5, <2>12, Zenon DEF Tracked
      <3> QED  BY Zenon, <2>10, <2>11, <3>1, <1>15
    <2>13. OnlyStream(s) /\ \E p \in ps : filter'[s] = p.f /\ Moved(m, n, "req", p)
      BY <2>6, <2>12, OnHeadersMoves DEF OnHeaders
    <2>14. PICK p \in ps : filter'[s] = p.f /\ Moved(m, n, "req", p)
      BY Zenon, <2>13
    <2>15. WafLeft(g, p, "req")
      BY Zenon, <2>12, <2>14
    <2>16. /\ ~n.spurious /\ n.up /\ n.req.at # "idle" /\ ~n.resp.seen
           /\ n.req.seen => p.status = "Continue"
      BY <2>8, <2>14, Zenon DEF Moved
    <2>17. ~p.f.processed.resp
      BY Zenon, <2>8, <2>9, <2>15 DEF WafLeft, WafAhead, Ways
    <2>18. WafSound(p.f, n)
      BY <2>15, <2>16, <2>17, Zenon DEF WafSound, WafLeft
    <2> QED  BY Zenon, <2>7, <2>13, <2>14, <2>18
  (* Another filter answers. *)
  <1>21. ASSUME Streamed, NEW s \in Streams, WafSound(filter[s], stream[s]), Foreign(s)
         PROVE  OnlyStream(s) /\ WafSound(filter'[s], stream'[s]) /\ shared' = shared
    <2> USE <1>21
    <2>1. /\ stream' = [stream EXCEPT ![s].foreign = TRUE] /\ filter' = filter /\ shared' = shared
      BY Zenon DEF Foreign
    <2>2. OnlyStream(s) /\ stream'[s].foreign /\ stream'[s].req = stream[s].req
          /\ stream'[s].resp = stream[s].resp
          /\ stream'[s].up = stream[s].up /\ stream'[s].spurious = stream[s].spurious
      BY <2>1, ZenonT(60) DEF Streamed, OnlyStream, StreamType
    <2>3. WafSound(filter[s], stream'[s])
      BY <2>2, Zenon DEF WafSound
    <2> QED  BY Zenon, <2>1, <2>2, <2>3
  (* OnStreamComplete records and releases what is still in use. *)
  <1>22. ASSUME Streamed, NEW s \in Streams, WafSound(filter[s], stream[s]), WafOnStreamComplete(s)
         PROVE  OnlyStream(s) /\ WafSound(filter'[s], stream'[s]) /\ shared' = shared
    <2> USE <1>22
    <2> DEFINE f == filter[s]
    <2>1. PICK g : g = IF f.tx # "live" THEN f
                       ELSE releaseTransaction(IF f.txDone THEN f ELSE recordTxMetrics(f))
      BY Zenon
    <2>2. /\ stream' = [stream EXCEPT ![s].up = FALSE] /\ filter' = [filter EXCEPT ![s] = g] /\ shared' = shared
      BY Zenon, <2>1 DEF WafOnStreamComplete, Ends
    <2>3. /\ OnlyStream(s) /\ ~stream'[s].up /\ stream'[s].req = stream[s].req
          /\ stream'[s].resp = stream[s].resp /\ filter'[s] = g
          /\ stream'[s].foreign = stream[s].foreign /\ stream'[s].spurious = stream[s].spurious
      BY <2>2, ZenonT(60) DEF Streamed, OnlyStream, StreamType
    <2>4. /\ WafCore(g) /\ g.tx # "live" /\ g.mode = f.mode /\ g.processed = f.processed /\ g.off = f.off
          /\ g.tx = None <=> f.tx = None
      <3>1. CASE f.tx # "live"
        BY <2>1, <3>1, Zenon DEF WafSound
      <3>2. CASE f.tx = "live"
        <4> DEFINE n == IF f.off THEN f.recorded ELSE f.recorded + 1
                   r == IF f.txDone THEN f ELSE [f EXCEPT !.txDone = TRUE, !.recorded = n]
        <4>1. WafCore(f) /\ f \in WafFilters /\ ~f.misused /\ f.created = 1 /\ f.released = 0
          BY <3>2, ZenonT(60) DEF WafSound, WafCore
        <4>2. (IF f.txDone THEN f ELSE recordTxMetrics(f)) = r
          BY <3>2, <4>1, <1>1, Zenon DEF recordTxMetrics
        <4>3. n \in Nat /\ (~f.txDone => n = 1 \/ (f.off /\ n = 0))
          BY <4>1 DEF WafCore, WafFilters
        <4> HIDE DEF n
        <4>4. /\ r \in WafFilters /\ r.txDone /\ r.tx = "live" /\ r.mode = f.mode
              /\ r.processed = f.processed /\ r.off = f.off /\ ~r.misused
              /\ r.created = 1 /\ r.released = 0
              /\ r.recorded = 1 \/ (r.off /\ r.recorded = 0)
          <5>1. CASE f.txDone
            BY <3>2, <4>1, <5>1, Zenon DEF WafCore
          <5>2. CASE ~f.txDone
            <6>1. r = [f EXCEPT !.txDone = TRUE, !.recorded = n]
              BY Zenon, <5>2
            <6> HIDE DEF r
            <6> QED  BY <3>2, <4>1, <4>3, <5>2, <6>1, Zenon DEF WafFilters
          <5> QED  BY Zenon, <5>1, <5>2
        <4> HIDE DEF r
        <4>5. g = [r EXCEPT !.tx = "released", !.released = 1]
          <5>1. r.released + 1 = 1
            BY <4>4
          <5> QED  BY <2>1, <3>2, <4>2, <4>4, <5>1, Zenon DEF releaseTransaction
        <4>6. /\ g \in WafFilters /\ g.txDone /\ g.recorded = r.recorded /\ g.tx = "released"
              /\ g.mode = f.mode /\ g.processed = f.processed /\ g.off = f.off /\ ~g.misused
              /\ g.created = 1 /\ g.released = 1
          <5>1. 1 \in Nat
            OBVIOUS
          <5> QED  BY <4>4, <4>5, <5>1, Zenon DEF WafFilters
        <4> QED  BY Zenon, <3>2, <4>4, <4>6, WafAssumption DEF WafCore
      <3> QED  BY Zenon, <3>1, <3>2
    <2>5. WafSound(g, stream'[s])
      <3>1. \A d \in Ways : WafApproved(f, d) => WafApproved(g, d)
        BY <2>4, Zenon DEF WafApproved
      <3>2. "req" \in Ways /\ "resp" \in Ways
        BY Zenon DEF Ways
      <3>3. WafApproved(f, "req") => WafApproved(g, "req")
        BY <3>1, <3>2, Zenon
      <3>4. WafApproved(f, "resp") => WafApproved(g, "resp")
        BY <3>1, <3>2, Zenon
      <3> QED  BY <2>3, <2>4, <3>3, <3>4, Zenon DEF WafSound
    <2> QED  BY Zenon, <2>2, <2>3, <2>5
  (* The callbacks of the WAF. *)
  <1>23. ASSUME Streamed, NEW s \in Streams, WafSound(filter[s], stream[s]), WafStep(s)
         PROVE  OnlyStream(s) /\ WafSound(filter'[s], stream'[s]) /\ shared' = shared
    <2> USE <1>23
    <2> DEFINE f == filter[s]
    <2>1. WafCore(f) /\ "req" \in Ways /\ "resp" \in Ways
      BY Zenon DEF WafSound, Ways
    <2>2. CASE WafOnRequestHeaders(s)
      BY Zenon, <2>2, <1>20
    <2>3. CASE WafOnResponseHeaders(s)
      <3>1. PICK end \in BOOLEAN, sse \in BOOLEAN :
              OnHeaders(s, "resp", end, Tracked(WafResponseOuts(f, [f EXCEPT !.isSSE = sse], end, sse)))
        BY <2>3, Zenon DEF WafOnResponseHeaders, WafResponseOuts
      <3>2. PICK g : g = [f EXCEPT !.isSSE = sse]
        BY Zenon
      <3>3. PICK outs : outs = WafResponseOuts(f, g, end, sse)
        BY Zenon
      <3>4. OnHeaders(s, "resp", end, Tracked(outs))
        BY <3>1, <3>2, <3>3, Zenon
      <3>5. \A o \in outs : WafHandled(f, o, "resp")
        BY Zenon, <2>1, <3>2, <3>3, <1>18
      <3> QED  BY Zenon, <2>1, <3>4, <3>5, <1>17
    <2>4. CASE WafOnRequestBody(s) \/ WafOnResponseBody(s)
      <3>1. PICK dir \in Ways, end \in BOOLEAN : OnBody(s, dir, end, Tracked(WafOnAnyBody(f, dir, end)))
        BY <2>1, <2>4, Zenon DEF WafOnRequestBody, WafOnResponseBody
      <3>2. PICK outs : outs = WafOnAnyBody(f, dir, end)
        BY Zenon
      <3>3. \A o \in outs : WafHandled(f, o, dir)
        BY Zenon, <2>1, <3>2, <1>10
      <3> QED  BY Zenon, <3>1, <3>2, <3>3, <1>17
    <2>5. CASE WafOnRequestTrailers(s) \/ WafOnResponseTrailers(s)
      <3>1. PICK dir \in Ways : OnTrailers(s, dir, Tracked(WafOnAnyTrailers(f, dir)))
        BY <2>1, <2>5, Zenon DEF WafOnRequestTrailers, WafOnResponseTrailers
      <3>2. PICK outs : outs = WafOnAnyTrailers(f, dir)
        BY Zenon
      <3>3. \A o \in outs : WafHandled(f, o, dir)
        BY Zenon, <2>1, <3>2, <1>11
      <3> QED  BY Zenon, <3>1, <3>2, <3>3, <1>17
    <2>6. CASE WafLocalReplyElsewhere(s)
      BY Zenon, <2>6, <1>21 DEF WafLocalReplyElsewhere
    <2>7. CASE WafOnStreamComplete(s)
      BY Zenon, <2>7, <1>22
    <2> QED  BY <2>2, <2>3, <2>4, <2>5, <2>6, <2>7, Zenon DEF WafStep
  <1> QED  BY Zenon, <1>23

SamlSound(f, m) ==
    /\ f \in SamlFilters /\ ~m.spurious
    /\ m.req.at = "idle" => ~m.req.seen
    /\ m.req.at # "idle" /\ ~f.isACSRequest => f.by # None \/ m.reply # None
    /\ m.req.seen => f.by # None

(* g is f later: it belongs to the same configuration, and what was        *)
(* asserted stays so.                                                      *)
SamlLater(f, g) == g.cfg = f.cfg /\ (f.asserted => g.asserted)

(* A valid response was posted under cfg. *)
Vouched(fs, cfg) ==
    \E t \in Streams : fs[t].kind = "saml" /\ fs[t].asserted /\ fs[t].cfg = cfg

Sessions ==
    /\ DOMAIN shared = {"active", "idp", "token", "engines", "loads", "sampling"}
    /\ shared.token # None => shared.token \in Tokens /\ Vouched(filter, shared.token.key)
    /\ \A s \in Streams : filter[s].kind = "saml" /\ filter[s].by = "session" => Vouched(filter, filter[s].cfg)

(* An answer, or a request that waits for its body or has a reason to pass. *)
SamlOut(f, o) ==
    /\ Outcome(o) /\ o.f \in SamlFilters /\ SamlLater(f, o.f)
    /\ o.f.isACSRequest \/ o.f.by # None \/ o.reply # None
    /\ o.status = "Continue" => o.f.by # None
    /\ f.by # None => o.f.by # None

(* What the headers come to. *)
SamlHeaderOuts(f, end, post, path, cookie) ==
    LET acs == [f EXCEPT !.isACSRequest = TRUE]
    IN  IF path = "bypass" THEN {Returns("Continue", [f EXCEPT !.by = "bypass"])}
        ELSE IF ~idpMetadata(f) THEN {Replies("Stop", 503, f)}
        ELSE IF path = "metadata" THEN Generated(200, f)
        ELSE IF path = "acs" /\ post
        THEN {IF end THEN Replies("Stop", 400, acs) ELSE Returns("Stop", acs)}
        ELSE WithSession(f, cookie)

SamlRest(f, o) ==
    \/ ~f.isACSRequest /\ o = Returns("Continue", f)
    \/ f.isACSRequest /\ o = Returns("StopAndBuffer", f)
    \/ \E stop \in {"Stop", "StopNoBuffer"} : o \in onRequestComplete(f, stop)

(* What vouches for a configuration keeps vouching for it. *)
LEMMA VouchesOn ==
    ASSUME NEW s \in Streams, OnlyStream(s),
           filter[s].kind = "saml" => filter'[s].kind = "saml" /\ SamlLater(filter[s], filter'[s]),
           NEW cfg, Vouched(filter, cfg)
    PROVE  Vouched(filter', cfg)
  <1>1. PICK t \in Streams : filter[t].kind = "saml" /\ filter[t].asserted /\ filter[t].cfg = cfg
    BY Zenon DEF Vouched
  <1>2. filter'[t].kind = "saml" /\ filter'[t].asserted /\ filter'[t].cfg = cfg
    BY <1>1, Zenon DEF OnlyStream, SamlLater
  <1> QED  BY <1>2, Zenon DEF Vouched

(* Sessions go on whatever the filter of one stream does, as long as it    *)
(* makes no session of its own.                                            *)
LEMMA SessionsGoOn ==
    ASSUME NEW s \in Streams, OnlyStream(s), Sessions, DOMAIN shared' = DOMAIN shared,
           \/ shared'.token = shared.token
           \/ shared'.token \in Tokens /\ Vouched(filter', shared'.token.key),
           filter[s].kind = "saml" => filter'[s].kind = "saml" /\ SamlLater(filter[s], filter'[s]),
           filter'[s].kind = "saml" /\ filter'[s].by = "session" =>
             /\ filter[s].kind = "saml" /\ filter'[s].cfg = filter[s].cfg
             /\ \/ filter[s].by = "session"
                \/ shared.token # None /\ shared.token.key = filter[s].cfg
    PROVE  Sessions'
  <1>1. \A cfg : Vouched(filter, cfg) => Vouched(filter', cfg)
    BY Zenon, VouchesOn
  <1>2. shared'.token # None => shared'.token \in Tokens /\ Vouched(filter', shared'.token.key)
    BY <1>1, Zenon DEF Sessions
  <1>3. ASSUME NEW t \in Streams, filter'[t].kind = "saml", filter'[t].by = "session"
        PROVE  Vouched(filter', filter'[t].cfg)
    <2>1. CASE t = s
      <3>1. Vouched(filter, filter[s].cfg) /\ filter'[s].cfg = filter[s].cfg
        BY Zenon, <1>3, <2>1 DEF Sessions
      <3> QED  BY Zenon, <1>1, <2>1, <3>1
    <2>2. CASE t # s
      <3>1. filter'[t] = filter[t]
        BY Zenon, <2>2 DEF OnlyStream
      <3>2. Vouched(filter, filter[t].cfg)
        BY Zenon, <1>3, <3>1 DEF Sessions
      <3> QED  BY Zenon, <1>1, <3>1, <3>2
    <2> QED  BY Zenon, <2>1, <2>2
  <1> QED  BY <1>2, <1>3, Zenon DEF Sessions

(* Neither the fetch nor the passing of time touches a stream, a filter or *)
(* the key of the cookie.                                                  *)
LEMMA SessionsLast ==
    ASSUME Sessions, SessionStep
    PROVE  stream' = stream /\ filter' = filter /\ Sessions'
  <1>1. CASE Expires
    <2>1. /\ shared.token # None /\ stream' = stream /\ filter' = filter
          /\ shared' = [shared EXCEPT !.token.expired = TRUE]
      BY Zenon, <1>1 DEF Expires
    <2>2. PICK token \in Tokens : token = shared.token
      BY Zenon, <2>1 DEF Sessions
    <2>3. PICK next : next = [token EXCEPT !.expired = TRUE]
      BY Zenon
    <2>4. next \in Tokens /\ next.key = token.key
      BY <2>2, <2>3, Zenon DEF Tokens
    <2>5. DOMAIN shared' = DOMAIN shared /\ shared'.token = next
      BY Zenon, <2>1, <2>2, <2>3 DEF Sessions
    <2> QED  BY <2>1, <2>2, <2>4, <2>5, Zenon DEF Sessions
  <1>2. CASE \E idp : Moves(idp)
    <2>1. PICK idp : shared' = [shared EXCEPT !.idp = idp] /\ stream' = stream /\ filter' = filter
      BY <1>2, Zenon DEF Moves
    <2>2. DOMAIN shared' = DOMAIN shared /\ shared'.token = shared.token
      BY Zenon, <2>1 DEF Sessions
    <2> QED  BY <2>1, <2>2, Zenon DEF Sessions
  <1> QED  BY <1>1, <1>2, Zenon DEF SessionStep, Fetch, Schedule, HttpCallout, SamlOnHttpCalloutDone

(* The callbacks of saml: a cookie is given only with a valid response. *)
LEMMA SamlKeeps ==
    \A s \in Streams :
        Streamed /\ SamlSound(filter[s], stream[s]) /\ Sessions /\ SamlStep(s) =>
          OnlyStream(s) /\ SamlSound(filter'[s], stream'[s]) /\ Sessions'
  (* A callback of saml. *)
  <1>1. ASSUME NEW f, NEW m, NEW n, NEW o, SamlSound(f, m), SamlOut(f, o), Moved(m, n, "req", o)
        PROVE  SamlSound(o.f, n) /\ SamlLater(f, o.f)
    BY <1>1, Zenon DEF SamlSound, SamlOut, Moved
  (* An answer needs no reason to pass. *)
  <1>2. ASSUME NEW f, NEW g \in SamlFilters, SamlLater(f, g), g.by = f.by, NEW code \in Nat,
               NEW stop \in {"Stop", "StopNoBuffer"}, NEW o, o = Replies(stop, code, g)
        PROVE  SamlOut(f, o) /\ o.f = g
    <2> USE <1>2
    <2>1. stop \in Status /\ stop # "Continue" /\ code # None
      BY Zenon, NoneAssumption DEF Status
    <2>2. Outcome(o) /\ o.status = stop /\ o.reply = code /\ o.f = g
      BY <2>1, RepliesIs
    <2> QED  BY <2>1, <2>2, Zenon DEF SamlOut
  (* A request that passes has a reason to. *)
  <1>3. ASSUME NEW f \in SamlFilters, NEW why \in {"bypass", "session"}, NEW o,
               o = Returns("Continue", [f EXCEPT !.by = why])
        PROVE  SamlOut(f, o) /\ o.f.by = why
    <2> USE <1>3
    <2>1. "Continue" \in Status /\ why # None
      BY Zenon, SamlAssumption DEF Status
    <2>2. PICK g : g = [f EXCEPT !.by = why]
      BY Zenon
    <2>3. g \in SamlFilters /\ g.by = why /\ SamlLater(f, g)
      BY <2>2, Zenon DEF SamlFilters, SamlLater
    <2>4. Outcome(o) /\ o.status = "Continue" /\ o.f = g
      BY <2>1, <2>2, ReturnsIs
    <2> QED  BY <2>1, <2>3, <2>4, Zenon DEF SamlOut
  (* A request passes with the cookie of a session under its configuration. *)
  <1>4. ASSUME NEW f \in SamlFilters, shared.token # None => shared.token \in Tokens,
               NEW end \in BOOLEAN, NEW post \in BOOLEAN,
               NEW path \in {"bypass", "metadata", "acs", "app"}, NEW cookie \in Cookies,
               NEW o \in SamlHeaderOuts(f, end, post, path, cookie)
        PROVE  /\ SamlOut(f, o)
               /\ o.f.by # "session" \/ f.by = "session" \/ (shared.token # None /\ shared.token.key = f.cfg)
    <2> USE <1>4
    <2>1. /\ SamlLater(f, f) /\ "Stop" \in {"Stop", "StopNoBuffer"}
          /\ 200 \in Nat /\ 302 \in Nat /\ 400 \in Nat /\ 500 \in Nat /\ 503 \in Nat
      BY DEF SamlLater
    <2>2. CASE o = Returns("Continue", [f EXCEPT !.by = "bypass"])
      <3>1. "bypass" \in {"bypass", "session"} /\ "bypass" # "session"
        OBVIOUS
      <3> QED  BY <2>2, <3>1, <1>3, Zenon
    <2>3. CASE \E code \in {200, 302, 500, 503} : o = Replies("Stop", code, f)
      <3>1. PICK code \in Nat : o = Replies("Stop", code, f)
        BY <2>1, <2>3
      <3> QED  BY <2>1, <3>1, <1>2
    <2>4. CASE \E acs : /\ acs = [f EXCEPT !.isACSRequest = TRUE]
                        /\ o = Replies("Stop", 400, acs) \/ o = Returns("Stop", acs)
      <3>1. PICK acs : /\ acs = [f EXCEPT !.isACSRequest = TRUE]
                       /\ o = Replies("Stop", 400, acs) \/ o = Returns("Stop", acs)
        BY Zenon, <2>4
      <3>2. acs \in SamlFilters /\ acs.by = f.by /\ SamlLater(f, acs) /\ acs.isACSRequest
        BY <3>1, Zenon DEF SamlFilters, SamlLater
      <3>3. CASE o = Replies("Stop", 400, acs)
        BY <2>1, <3>2, <3>3, <1>2
      <3>4. CASE o = Returns("Stop", acs)
        <4>1. "Stop" \in Status /\ "Stop" # "Continue"
          BY Zenon DEF Status
        <4>2. Outcome(o) /\ o.status = "Stop" /\ o.f = acs
          BY <3>4, <4>1, ReturnsIs
        <4> QED  BY <3>2, <4>1, <4>2, Zenon DEF SamlOut
      <3> QED  BY <3>1, <3>3, <3>4
    <2>5. CASE /\ o = Returns("Continue", [f EXCEPT !.by = "session"])
               /\ cookie # None /\ validateSessionToken(f, cookie)
      <3>1. "session" \in {"bypass", "session"}
        OBVIOUS
      <3>2. SamlOut(f, o)
        BY <2>5, <3>1, <1>3, Zenon
      <3>3. cookie.key = f.cfg /\ f.cfg \in {"listener", "route"}
        BY <2>5, Zenon DEF validateSessionToken, SamlFilters
      <3>4. cookie # [key |-> "other", expired |-> FALSE]
        BY <3>3
      <3>5. cookie = shared.token
        BY <2>5, <3>4, Zenon DEF Cookies
      <3> QED  BY Zenon, <2>5, <3>2, <3>3, <3>5
    <2>6. CASE o \in Generated(200, f) \/ o \in Generated(302, f)
      BY <2>3, <2>6 DEF Generated
    <2>7. CASE path = "bypass"
      BY <2>2, <2>7, Zenon DEF SamlHeaderOuts
    <2>8. CASE path # "bypass" /\ ~idpMetadata(f)
      <3>1. o = Replies("Stop", 503, f)
        BY <2>8, ZenonT(60) DEF SamlHeaderOuts
      <3> QED  BY <2>3, <3>1
    <2>9. CASE path = "metadata" /\ idpMetadata(f)
      <3>1. "metadata" # "bypass"
        OBVIOUS
      <3> QED  BY <2>6, <2>9, <3>1, ZenonT(60) DEF SamlHeaderOuts
    <2>10. CASE path \in {"acs", "app"} /\ idpMetadata(f)
      <3>1. path # "bypass" /\ path # "metadata"
        BY Zenon, <2>10
      <3>2. CASE path = "acs" /\ post
        <4>1. PICK acs : acs = [f EXCEPT !.isACSRequest = TRUE]
          BY Zenon
        <4>2. o = IF end THEN Replies("Stop", 400, acs) ELSE Returns("Stop", acs)
          BY <2>10, <3>1, <3>2, <4>1, ZenonT(60) DEF SamlHeaderOuts
        <4>3. o = Replies("Stop", 400, acs) \/ o = Returns("Stop", acs)
          BY <4>2, ZenonT(60)
        <4> QED  BY <2>4, <4>1, <4>3, ZenonT(60)
      <3>3. CASE ~(path = "acs" /\ post)
        <4>1. o \in WithSession(f, cookie)
          BY <2>10, <3>1, <3>3, Zenon DEF SamlHeaderOuts
        <4> QED  BY <2>5, <2>6, <4>1, Zenon DEF WithSession
      <3> QED  BY Zenon, <3>2, <3>3
    <2> QED  BY <2>7, <2>8, <2>9, <2>10, Zenon
  (* OnRequestHeaders of saml. *)
  <1>5. ASSUME Streamed, NEW s \in Streams, SamlSound(filter[s], stream[s]), Sessions, SamlOnRequestHeaders(s)
        PROVE  /\ OnlyStream(s) /\ SamlSound(filter'[s], stream'[s]) /\ shared' = shared
               /\ SamlLater(filter[s], filter'[s])
               /\ \/ filter'[s].by # "session" \/ filter[s].by = "session"
                  \/ shared.token # None /\ shared.token.key = filter[s].cfg
    <2> USE <1>5
    <2> DEFINE f == filter[s]
    <2>1. PICK end \in BOOLEAN, post \in BOOLEAN, path \in {"bypass", "metadata", "acs", "app"}, cookie \in Cookies :
            OnHeaders(s, "req", end, SamlHeaderOuts(f, end, post, path, cookie))
      BY Zenon DEF SamlOnRequestHeaders, SamlHeaderOuts
    <2>2. PICK outs : outs = SamlHeaderOuts(f, end, post, path, cookie)
      BY Zenon
    <2>3. f \in SamlFilters /\ (shared.token # None => shared.token \in Tokens)
      BY Zenon DEF SamlSound, Sessions
    <2>4. \A o \in outs : /\ SamlOut(f, o)
                          /\ \/ o.f.by # "session" \/ f.by = "session"
                             \/ shared.token # None /\ shared.token.key = f.cfg
      BY <2>2, <2>3, <1>4
    <2>5. HeadersFrame(s, "req", end, outs) /\ shared' = shared /\ \A o \in outs : Outcome(o)
      BY Zenon, <2>1, <2>2, <2>4 DEF OnHeaders, SamlOut
    <2>6. OnlyStream(s) /\ \E o \in outs : filter'[s] = o.f /\ Moved(stream[s], stream'[s], "req", o)
      BY <2>5, OnHeadersMoves
    <2>7. PICK o \in outs : filter'[s] = o.f /\ Moved(stream[s], stream'[s], "req", o)
      BY Zenon, <2>6
    <2>8. SamlSound(o.f, stream'[s]) /\ SamlLater(f, o.f)
      BY Zenon, <2>4, <2>7, <1>1
    <2> QED  BY <2>4, <2>5, <2>6, <2>7, <2>8, Zenon
  (* The rest of the request: its reason to pass stays the one it had. *)
  <1>6. ASSUME NEW f \in SamlFilters, NEW stop \in {"Stop", "StopNoBuffer"}, NEW o \in onRequestComplete(f, stop)
        PROVE  SamlOut(f, o) /\ o.f.by = f.by
    <2> USE <1>6
    <2>1. SamlLater(f, f) /\ 302 \in Nat /\ 401 \in Nat /\ 500 \in Nat /\ 503 \in Nat
      BY DEF SamlLater
    <2>2. PICK g : g = [f EXCEPT !.asserted = TRUE]
      BY Zenon
    <2>3. g \in SamlFilters /\ g.by = f.by /\ SamlLater(f, g)
      BY <2>2, Zenon DEF SamlFilters, SamlLater
    <2>4. PICK h \in {f, g}, code \in Nat : o = Replies(stop, code, h)
      BY <2>1, <2>2, ZenonT(60) DEF onRequestComplete
    <2>5. h \in SamlFilters /\ h.by = f.by /\ SamlLater(f, h)
      BY <2>1, <2>3, <2>4
    <2> QED  BY <2>4, <2>5, <1>2
  (* A frame after the headers. *)
  <1>7. ASSUME Streamed, NEW s \in Streams, SamlSound(filter[s], stream[s]),
               NEW outs, \A o \in outs : SamlRest(filter[s], o),
               (\E end \in BOOLEAN : BodyFrame(s, "req", end, outs)) \/ TrailersFrame(s, "req", outs)
        PROVE  /\ OnlyStream(s) /\ SamlSound(filter'[s], stream'[s])
               /\ SamlLater(filter[s], filter'[s]) /\ filter'[s].by = filter[s].by
    <2> USE <1>7
    <2> DEFINE f == filter[s]
               m == stream[s]
    <2>1. m.reply = None /\ m.req.at # "idle" /\ f \in SamlFilters
      <3>1. Calls(s, "req") /\ m.req.at \in {"headers", "body"}
        BY Zenon DEF BodyFrame, TrailersFrame
      <3> QED  BY Zenon, <3>1 DEF Calls, Live, SamlSound
    <2>2. ASSUME NEW o \in outs
          PROVE  SamlOut(f, o) /\ o.f.by = f.by /\ Outcome(o)
      <3>1. /\ "Continue" \in Status /\ "StopAndBuffer" \in Status /\ "StopAndBuffer" # "Continue"
            /\ SamlLater(f, f)
        BY Zenon DEF Status, SamlLater
      <3>2. CASE ~f.isACSRequest /\ o = Returns("Continue", f)
        <4>1. f.by # None
          BY <2>1, <3>2, Zenon DEF SamlSound
        <4>2. Outcome(o) /\ o.f = f
          BY <3>1, <3>2, ReturnsIs
        <4> QED  BY <2>1, <3>1, <4>1, <4>2, Zenon DEF SamlOut
      <3>3. CASE f.isACSRequest /\ o = Returns("StopAndBuffer", f)
        <4>1. Outcome(o) /\ o.f = f /\ o.status = "StopAndBuffer"
          BY <3>1, <3>3, ReturnsIs
        <4> QED  BY <2>1, <3>1, <3>3, <4>1, Zenon DEF SamlOut
      <3>4. CASE \E stop \in {"Stop", "StopNoBuffer"} : o \in onRequestComplete(f, stop)
        <4>1. SamlOut(f, o) /\ o.f.by = f.by
          BY Zenon, <2>1, <3>4, <1>6
        <4> QED  BY Zenon, <4>1 DEF SamlOut
      <3> QED  BY <2>2, <3>2, <3>3, <3>4, Zenon DEF SamlRest
    <2>3. OnlyStream(s) /\ \E o \in outs : filter'[s] = o.f /\ Moved(stream[s], stream'[s], "req", o)
      <3>1. CASE \E end \in BOOLEAN : BodyFrame(s, "req", end, outs)
        BY Zenon, <2>2, <3>1, OnBodyMoves
      <3>2. CASE TrailersFrame(s, "req", outs)
        BY Zenon, <2>2, <3>2, OnTrailersMoves
      <3> QED  BY <3>1, <3>2, Zenon
    <2>4. PICK o \in outs : filter'[s] = o.f /\ Moved(stream[s], stream'[s], "req", o)
      BY Zenon, <2>3
    <2>5. SamlSound(o.f, stream'[s]) /\ SamlLater(f, o.f)
      BY Zenon, <2>2, <2>4, <1>1
    <2>6. o.f.by = f.by
      BY Zenon, <2>2, <2>4
    <2> QED  BY Zenon, <2>3, <2>4, <2>5, <2>6
  (* OnRequestBody and OnRequestTrailers of saml. *)
  <1>8. ASSUME Streamed, NEW s \in Streams, SamlSound(filter[s], stream[s]),
               SamlOnRequestBody(s) \/ SamlOnRequestTrailers(s)
        PROVE  /\ OnlyStream(s) /\ SamlSound(filter'[s], stream'[s])
               /\ SamlLater(filter[s], filter'[s]) /\ filter'[s].by = filter[s].by /\ Given(s)
    <2> USE <1>8
    <2> DEFINE f == filter[s]
    <2>1. Given(s)
      BY Zenon DEF SamlOnRequestBody, SamlOnRequestTrailers
    <2>2. CASE SamlOnRequestBody(s)
      <3>1. PICK end \in BOOLEAN : BodyFrame(s, "req", end,
              IF ~f.isACSRequest THEN {Returns("Continue", f)}
              ELSE IF ~end THEN {Returns("StopAndBuffer", f)}
              ELSE onRequestComplete(f, "StopNoBuffer"))
        BY <2>2, Zenon DEF SamlOnRequestBody
      <3>2. PICK outs : outs = IF ~f.isACSRequest THEN {Returns("Continue", f)}
                               ELSE IF ~end THEN {Returns("StopAndBuffer", f)}
                               ELSE onRequestComplete(f, "StopNoBuffer")
        BY Zenon
      <3>3. \A o \in outs : SamlRest(f, o)
        BY <3>2, Zenon DEF SamlRest
      <3>4. BodyFrame(s, "req", end, outs)
        BY <3>1, <3>2, Zenon
      <3> QED  BY <2>1, <3>3, <3>4, <1>7, Zenon
    <2>3. CASE SamlOnRequestTrailers(s)
      <3>1. PICK outs : outs = IF ~f.isACSRequest THEN {Returns("Continue", f)}
                               ELSE onRequestComplete(f, "Stop")
        BY Zenon
      <3>2. \A o \in outs : SamlRest(f, o)
        BY <3>1, Zenon DEF SamlRest
      <3>3. TrailersFrame(s, "req", outs)
        BY <2>3, <3>1, Zenon DEF SamlOnRequestTrailers
      <3> QED  BY Zenon, <2>1, <3>2, <3>3, <1>7
    <2> QED  BY Zenon, <2>2, <2>3
  (* The callbacks of saml: a cookie is given only with a valid response. *)
  <1>9. ASSUME Streamed, NEW s \in Streams, SamlSound(filter[s], stream[s]), Sessions, SamlStep(s)
        PROVE  OnlyStream(s) /\ SamlSound(filter'[s], stream'[s]) /\ Sessions'
    <2> USE <1>9
    <2> DEFINE f == filter[s]
               g == filter'[s]
    <2>1. f.kind = "saml"
      BY Zenon DEF SamlSound, SamlFilters
    <2>2. CASE SamlOnRequestHeaders(s)
      <3>1. /\ OnlyStream(s) /\ SamlSound(g, stream'[s]) /\ shared' = shared /\ SamlLater(f, g)
            /\ \/ g.by # "session" \/ f.by = "session"
               \/ shared.token # None /\ shared.token.key = f.cfg
        BY <2>2, <1>5, Zenon
      <3>2. g.kind = "saml" /\ g.cfg = f.cfg
        BY <3>1, Zenon DEF SamlSound, SamlFilters, SamlLater
      <3>3. Sessions'
        BY <2>1, <3>1, <3>2, SessionsGoOn, Zenon
      <3> QED  BY Zenon, <3>1, <3>3
    <2>3. CASE SamlOnRequestBody(s) \/ SamlOnRequestTrailers(s)
      <3>1. OnlyStream(s) /\ SamlSound(g, stream'[s]) /\ SamlLater(f, g) /\ g.by = f.by /\ Given(s)
        BY <2>3, <1>8, Zenon
      <3>2. g.kind = "saml" /\ g.cfg = f.cfg /\ f.cfg \in {"listener", "route"}
        BY <3>1, Zenon DEF SamlSound, SamlFilters, SamlLater
      <3>3. /\ DOMAIN shared' = DOMAIN shared
            /\ \/ shared'.token = shared.token
               \/ shared'.token \in Tokens /\ Vouched(filter', shared'.token.key)
        <4>1. CASE shared' = shared
          BY Zenon, <4>1
        <4>2. CASE shared' # shared
          <5>1. PICK token : token = [key |-> f.cfg, expired |-> FALSE]
            BY Zenon
          <5>2. token \in Tokens /\ token.key = f.cfg
            BY Zenon, <3>2, <5>1 DEF Tokens
          <5>3. g.asserted /\ shared' = [shared EXCEPT !.token = token]
            BY <3>1, <4>2, <5>1, Zenon DEF Given
          <5>4. DOMAIN shared' = DOMAIN shared /\ shared'.token = token
            BY Zenon, <5>3 DEF Sessions
          <5>5. Vouched(filter', f.cfg)
            BY <3>2, <5>3, Zenon DEF Vouched
          <5> QED  BY Zenon, <5>2, <5>4, <5>5
        <4> QED  BY Zenon, <4>1, <4>2
      <3>4. Sessions'
        BY <2>1, <3>1, <3>2, <3>3, SessionsGoOn, Zenon
      <3> QED  BY Zenon, <3>1, <3>4
    <2> QED  BY <2>2, <2>3, Zenon DEF SamlStep
  <1> QED  BY Zenon, <1>9
================================================================================
