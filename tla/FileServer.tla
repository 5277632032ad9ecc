------------------------------- MODULE FileServer ------------------------------
(***************************************************************************)
(* The file server: a request below a mapped prefix is answered with the   *)
(* file it names, whole or the range it asks for; any other request passes *)
(* on.  Paths are sequences of tokens, so that prefixes, separators and    *)
(* dots are told apart; byte positions are unsigned and wrap.              *)
(***************************************************************************)
EXTENDS HttpStream
LOCAL INSTANCE SequencesExt

Tokens == {"/", ".", "..", "a", "s", "?"}
UintWidth == 2   \* of uint64 (bound)
MaxSize == 2     \* largest file (bound)
Uint == 0 .. 2 ^ UintWidth - 1

(* Decoded request paths (bound: four tokens). *)
Paths == {<<"/">> \o p : p \in UNION {[1..n -> Tokens] : n \in 0..3}}

(* Names that are no names of files. *)
NoNames == {<< >>, <<".">>, <<"..">>, <<".", ".">>}

(* Configurations: request prefix to directory, which is a sequence of     *)
(* names, themselves sequences of tokens.                                  *)
Dir(name) == <<<<name>>>>
MappingSets ==
    {{[prefix |-> <<"/", "s">>, dir |-> Dir("q")]},
     {[prefix |-> <<"/", "s", "/">>, dir |-> Dir("q")]},
     {[prefix |-> <<"/">>, dir |-> Dir("q")], [prefix |-> <<"/", "s">>, dir |-> Dir("r")]}}

findLongestMatchingMapping(mappings, path) ==
    LET matching == {m \in mappings : IsPrefix(m.prefix, path)}
    IN  IF matching = {} THEN None
        ELSE CHOOSE m \in matching : \A n \in matching : Len(n.prefix) <= Len(m.prefix)

(* strings.Split at the separators. *)
Split(p) ==
    LET cuts == SetToSortSeq({0, Len(p) + 1} \cup {i \in DOMAIN p : p[i] = "/"}, <)
    IN  [k \in 1 .. Len(cuts) - 1 |-> SubSeq(p, cuts[k] + 1, cuts[k + 1] - 1)]

(* filepath.Join, which cleans what it joins. *)
Join(dir, names) ==
    FoldLeft(LAMBDA d, name : CASE name \in {<< >>, <<".">>} -> d
                                [] name \in {<<"..">>, <<".", ".">>} -> IF d = << >> THEN d ELSE Front(d)
                                [] OTHER -> Append(d, name),
             dir, names)

(* The part of the path after the prefix and without the query. *)
Remaining(path, mapping) ==
    LET queries == {i \in DOMAIN path : path[i] = "?"}
        n == IF queries = {} THEN Len(path) ELSE (CHOOSE i \in queries : \A j \in queries : i <= j) - 1
    IN  SubSeq(path, Len(mapping.prefix) + 1, n)

(* Slip: a name made of two dots is let through. *)
applyPathMappingDots(path, mapping) ==
    LET r == Remaining(path, mapping)
        rest == IF r # << >> /\ r[1] = "/" THEN Tail(r) ELSE r
    IN  IF rest # << >> /\ \E k \in DOMAIN Split(rest) : Split(rest)[k] \in {<< >>, <<".">>} THEN None
        ELSE Join(mapping.dir, Split(rest))

(* None when the path is rejected: a second separator at the join point,   *)
(* or a name that is empty or made of dots.                                *)
applyPathMapping(path, mapping) ==
    LET r == Remaining(path, mapping)
        slash == r # << >> /\ r[1] = "/"
        rest == IF slash THEN Tail(r) ELSE r
    IN  IF \/ slash /\ Last(mapping.prefix) = "/"
           \/ rest # << >> /\ \E k \in DOMAIN Split(rest) : Split(rest)[k] \in NoNames
        THEN None
        ELSE Join(mapping.dir, Split(rest))

(* Range headers: absent or malformed (None), from first on, or from first *)
(* to last; a last that is no number counts as absent.                     *)
Ranges == {None} \cup [first : Uint, last : Uint \cup {None}]

(* <<start, end>>, end exclusive and 0 when there is none. *)
parseRangeHeader(range) ==
    IF range = None THEN <<0, 0>>
    ELSE IF range.last = None THEN <<range.first, 0>>
    ELSE <<range.first, (range.last + 1) % 2 ^ UintWidth>>

(***************************************************************************)
(* path, range: what was asked.  file: what it was mapped to.  size: the   *)
(* size os.Stat gave; changed: it was another one when the file was read.  *)
(* from, length: the part announced by the headers; sent: bytes sent.      *)
(***************************************************************************)
Configs ==
    [kind : {"file"}, mappings : MappingSets, path : {None}, range : {None}, file : {None},
     size : {0}, changed : {FALSE}, from : {0}, length : {0}, sent : {0}]

Filters ==
    [kind : {"file"}, mappings : MappingSets, path : Seq(Tokens) \cup {None}, range : Ranges,
     file : Seq(Seq(Tokens \cup {"q", "r", "index"})) \cup {None}, size : 0..MaxSize,
     changed : BOOLEAN, from : Uint, length : Uint, sent : Uint]

Mine(s) == filter[s].kind = "file"

(***************************************************************************)
(* Requests and what the file system answers: stat is what os.Stat finds,  *)
(* size the size it gives, now the size of the file when it is read, read  *)
(* whether reading works.  Any path with one file, and one path with any   *)
(* range and file.                                                         *)
(***************************************************************************)
Plain == [path |-> <<"/", "s", "/", "a">>, range |-> None, method |-> "GET", stat |-> "file",
          size |-> MaxSize, now |-> MaxSize, read |-> TRUE]
Inputs ==
    {[Plain EXCEPT !.path = p] : p \in Paths}
      \cup {[Plain EXCEPT !.range = r, !.method = m, !.size = n, !.now = k] :
               r \in Ranges, m \in {"GET", "HEAD"}, n, k \in 0..MaxSize}
      \cup {[Plain EXCEPT !.method = "POST"], [Plain EXCEPT !.read = FALSE]}
      \cup {[Plain EXCEPT !.stat = x] : x \in {"missing", "denied", "error", "dir", "dir with index"}}

Stops(code, f) == Replies("StopAllAndBuffer", code, f)

(* length bytes from from on are announced with status code; HEAD gets the *)
(* headers alone.  os.ReadFile reads all there is, readFileRange no more   *)
(* than was announced.                                                     *)
Sends(f, i, code, from, length) ==
    LET g == [f EXCEPT !.from = from, !.length = length, !.changed = i.now # i.size]
        there == CASE code = 200 -> i.now
                   [] code = 206 /\ i.now <= from -> 0
                   [] code = 206 /\ i.now > from -> IF i.now - from < length THEN i.now - from ELSE length
    IN  IF i.method = "HEAD" THEN Stops(code, g)
        ELSE IF ~i.read THEN Stops(500, g)
        ELSE Stops(code, [g EXCEPT !.sent = there])

(* The range is checked against the size and the file or the part is sent. *)
Serve(f, i) ==
    LET start == parseRangeHeader(i.range)[1]
        end == parseRangeHeader(i.range)[2]
        last == IF end = 0 THEN i.size ELSE end
    IN  IF start > i.size \/ end > i.size \/ (end # 0 /\ end < start) THEN Stops(416, f)
        ELSE IF start = 0 /\ end = 0 THEN Sends(f, i, 200, 0, i.size)
        ELSE IF start >= last THEN Stops(416, f)
        ELSE Sends(f, i, 206, start, last - start)

(* A directory is answered with an index file, if it has one. *)
Answer(f, i) ==
    CASE i.stat = "missing" -> Stops(404, f)
      [] i.stat \in {"denied", "dir"} -> Stops(403, f)
      [] i.stat = "error" -> Stops(500, f)
      [] i.stat = "file" -> Serve(f, i)
      [] i.stat = "dir with index" -> Serve([f EXCEPT !.file = Append(@, <<"index">>)], i)

OnRequestHeaders(s) ==
    /\ Mine(s) /\ stream[s].req.at = "idle"
    /\ \E end \in BOOLEAN, i \in Inputs :
         LET f == [filter[s] EXCEPT !.path = i.path, !.range = i.range, !.size = i.size]
             mapping == findLongestMatchingMapping(f.mappings, f.path)
             file == applyPathMapping(f.path, mapping)
         IN  OnHeaders(s, "req", end,
               {IF mapping = None THEN Returns("Continue", f)
                ELSE IF i.method \notin {"GET", "HEAD"} THEN Stops(405, f)
                ELSE IF file = None THEN Stops(400, f)
                ELSE Answer([f EXCEPT !.file = file], i)})

(* Only requests below no prefix pass on. *)
Approved(f) == \A m \in f.mappings : ~IsPrefix(m.prefix, f.path)

(***************************************************************************)
(* The file served lies in the directory of the longest prefix; the bytes  *)
(* sent are ones asked for, and as many as announced unless the file has   *)
(* changed since os.Stat, when a range is never exceeded.                  *)
(***************************************************************************)
Exact(f, code) ==
    /\ f.file # None =>
         \E m \in f.mappings : /\ IsPrefix(m.dir, f.file) /\ IsPrefix(m.prefix, f.path)
                               /\ \A n \in f.mappings :
                                    IsPrefix(n.prefix, f.path) => Len(n.prefix) <= Len(m.prefix)
    /\ code \in {200, 206} =>
         LET bytes == f.from .. f.from + f.length - 1
             asked == IF f.range = None THEN 0 .. f.size - 1
                      ELSE f.range.first .. (IF f.range.last = None THEN f.size - 1 ELSE f.range.last)
         IN  /\ bytes \subseteq asked /\ bytes \subseteq 0 .. f.size - 1
             /\ f.changed \/ f.sent \in {0, f.length}
             /\ code = 206 => f.sent <= f.length /\ f.length > 0
================================================================================
