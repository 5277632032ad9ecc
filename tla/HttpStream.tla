------------------------------ MODULE HttpStream ------------------------------
(***************************************************************************)
(* What a Composer HTTP filter sees of a stream: Envoy delivers headers,   *)
(* body chunks and trailers of the request and of the response, each with  *)
(* a callback whose status says whether the message moves on; the filter   *)
(* may hold it and resume or answer it later, from a callout or from a     *)
(* goroutine.  Envoy is not in this repository: it is modelled from the    *)
(* way the plugins use it.                                                 *)
(***************************************************************************)
EXTENDS Naturals, Sequences

CONSTANTS
    Streams,    \* HTTP streams
    MaxChunks,  \* most body chunks of a message (bound)
    None

ASSUME NoneAssumption == None \notin Nat \cup BOOLEAN
ASSUME ChunksAssumption == MaxChunks \in Nat

VARIABLES
    stream,  \* Envoy's view of each stream
    filter,  \* fields of the plugin's per-stream filter object
    shared   \* what the filter objects of a plugin share: see Unshared

vars == <<stream, filter, shared>>

(***************************************************************************)
(* at: how much of the message the filter was given.  flow: "open" it      *)
(* moves on, "held" the filter stopped it but gets the next frames, "all"  *)
(* it stopped those as well.  seen: later filters have seen some of it.    *)
(***************************************************************************)
Message == [at : {"idle", "headers", "body", "end"}, flow : {"open", "held", "all"},
            seen : BOOLEAN, chunks : 0..MaxChunks]

Fresh == [at |-> "idle", flow |-> "open", seen |-> FALSE, chunks |-> 0]

(***************************************************************************)
(* reply: status of this filter's local response.  foreign: Envoy or       *)
(* another filter has answered (a timeout, an overflow, an earlier         *)
(* filter).  spurious: the filter resumed or answered a message that was   *)
(* not waiting for it.                                                     *)
(***************************************************************************)
StreamType ==
    [req : Message, resp : Message, reply : Nat \cup {None}, foreign : BOOLEAN,
     spurious : BOOLEAN, up : BOOLEAN]

Opened == [req |-> Fresh, resp |-> Fresh, reply |-> None, foreign |-> FALSE,
           spurious |-> FALSE, up |-> TRUE]

Closed == [Opened EXCEPT !.up = FALSE]

(* The object of a stream no plugin is installed on. *)
Bare == [kind |-> "bare"]

(* Shared state: the fault filter's activeRequests; the SAML plugin's      *)
(* metadata of the identity provider and the browser's session cookie; the *)
(* WAF's engines; the plugins being loaded; the fault filter's samplers.   *)
Unshared == [active |-> 0, idp |-> None, token |-> None, engines |-> None, loads |-> None,
             sampling |-> None]

Flow(status) ==
    IF status = "Continue" THEN "open" ELSE IF status = "StopAllAndBuffer" THEN "all" ELSE "held"

After(msg, status) ==
    [msg EXCEPT !.flow = Flow(status), !.seen = msg.seen \/ status = "Continue"]

(***************************************************************************)
(* Outcomes of a callback: its status, the local response it sent and the  *)
(* filter's fields as it leaves them.                                      *)
(***************************************************************************)
Returns(status, f) == [status |-> status, reply |-> None, f |-> f]
Replies(status, code, f) == [status |-> status, reply |-> code, f |-> f]

(* The stream goes on: it is neither reset, nor answered by this filter,   *)
(* nor is its response complete.  Envoy drops what is scheduled for a      *)
(* stream that is over and cancels its callouts.                           *)
Live(s) ==
    /\ stream[s].up /\ stream[s].reply = None
    /\ ~(stream[s].resp.at = "end" /\ stream[s].resp.flow = "open")

(* A response comes from the upstream, which has seen the request, or from *)
(* someone else, and then the filter gets no more of the request.          *)
Calls(s, dir) ==
    /\ Live(s)
    /\ dir = "req" => ~stream[s].foreign
    /\ dir = "resp" => stream[s].foreign \/ stream[s].req.seen

Deliver(s, dir, msg, o) ==
    /\ stream' = [stream EXCEPT ![s][dir] = After(msg, o.status), ![s].reply = o.reply]
    /\ filter' = [filter EXCEPT ![s] = o.f]

(* The callbacks: outs are the outcomes the handler can have, given whether *)
(* this frame ends the message.                                             *)
HeadersFrame(s, dir, end, outs) ==
    /\ Calls(s, dir) /\ stream[s][dir].at = "idle"
    /\ \E o \in outs :
         Deliver(s, dir, [stream[s][dir] EXCEPT !.at = IF end THEN "end" ELSE "headers"], o)

BodyFrame(s, dir, end, outs) ==
    /\ Calls(s, dir) /\ stream[s][dir].at \in {"headers", "body"}
    /\ stream[s][dir].flow # "all" /\ stream[s][dir].chunks < MaxChunks
    /\ \E o \in outs :
         Deliver(s, dir, [stream[s][dir] EXCEPT !.at = IF end THEN "end" ELSE "body",
                                                !.chunks = stream[s][dir].chunks + 1], o)

TrailersFrame(s, dir, outs) ==
    /\ Calls(s, dir) /\ stream[s][dir].at \in {"headers", "body"}
    /\ stream[s][dir].flow # "all"
    /\ \E o \in outs : Deliver(s, dir, [stream[s][dir] EXCEPT !.at = "end"], o)

(* Those of handlers that leave shared state alone. *)
OnHeaders(s, dir, end, outs) == HeadersFrame(s, dir, end, outs) /\ UNCHANGED shared
OnBody(s, dir, end, outs) == BodyFrame(s, dir, end, outs) /\ UNCHANGED shared
OnTrailers(s, dir, outs) == TrailersFrame(s, dir, outs) /\ UNCHANGED shared

(* Messages that wait for the filter. *)
Waits(s, dir) == Live(s) /\ stream[s][dir].at # "idle" /\ stream[s][dir].flow # "open"

(***************************************************************************)
(* Calls a filter makes outside of a callback.  ContinueRequest and        *)
(* ContinueResponse; Envoy ignores the former once somebody has answered.  *)
(***************************************************************************)
Continues(s, dir, f) ==
    /\ stream' = IF ~Waits(s, dir) THEN [stream EXCEPT ![s].spurious = TRUE]
                 ELSE IF dir = "req" /\ stream[s].foreign THEN stream
                 ELSE [stream EXCEPT ![s][dir] = After(stream[s][dir], "Continue")]
    /\ filter' = [filter EXCEPT ![s] = f]
    /\ UNCHANGED shared

(* SendLocalResponse. *)
Answers(s, dir, code, f) ==
    /\ stream' = IF ~Waits(s, dir) THEN [stream EXCEPT ![s].spurious = TRUE]
                 ELSE [stream EXCEPT ![s].reply = code]
    /\ filter' = [filter EXCEPT ![s] = f]
    /\ UNCHANGED shared

(* Somebody else answers the stream; a filter without response callbacks   *)
(* sees only that the stream ends.                                         *)
Foreign(s) ==
    /\ Live(s) /\ ~stream[s].foreign /\ stream[s].resp.at = "idle"
    /\ stream' = [stream EXCEPT ![s].foreign = TRUE]
    /\ UNCHANGED <<filter, shared>>

(* The stream is over: answered, finished or reset by a peer.  f: fields   *)
(* after OnStreamComplete and OnDestroy.                                   *)
Ends(s, f) ==
    /\ stream[s].up
    /\ stream' = [stream EXCEPT ![s].up = FALSE]
    /\ filter' = [filter EXCEPT ![s] = f]

(***************************************************************************)
(* ContinueRequest, ContinueResponse and SendLocalResponse are called      *)
(* outside of a callback only for a message that is still waiting: no      *)
(* message is resumed or answered twice, nor after its callback had        *)
(* already let it pass.                                                    *)
(***************************************************************************)
ResumedOnce == \A s \in Streams : ~stream[s].spurious

(***************************************************************************)
(* Bodies of type text/event-stream as the LLM filters read them: lines    *)
(* that body chunks cut anywhere.  A line is two pieces here, the second   *)
(* of which holds the newline: piece 2i - 1 and piece 2i are line i.       *)
(* Blank lines and comments, which every parser skips, are left out.       *)
(***************************************************************************)

(* The chunk that follows after from pieces and brings the total to to. *)
Chunk(from, to) == [i \in 1 .. to - from |-> from + i]

(* What buf holds once a piece has come, and whether the piece completes a  *)
(* line; what is left of a line whose start was lost has no known prefix.   *)
Buffered(buf, piece) == IF piece % 2 = 1 THEN Append(buf, piece) ELSE << >>
EndsLine(buf, piece) == piece % 2 = 0 /\ buf = <<piece - 1>>

(* Every line of the chunk whose newline has come goes to Line. *)
Feed(acc, lines, chunk, Line(_, _)) ==
    LET after[n \in 0 .. Len(chunk)] ==
          IF n = 0 THEN acc
          ELSE LET a == after[n - 1]
                   p == chunk[n]
                   b == [a EXCEPT !.buf = Buffered(@, p)]
               IN  IF EndsLine(a.buf, p) THEN Line(b, lines[p \div 2]) ELSE b
    IN  after[Len(chunk)]

(* The lines that are complete once pieces pieces have come. *)
Complete(lines, pieces) == SubSeq(lines, 1, pieces \div 2)
================================================================================
