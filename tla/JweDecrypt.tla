------------------------------ MODULE JweDecrypt ------------------------------
(***************************************************************************)
(* The JWE decryption filter: every value of the input header that         *)
(* decrypts is written to the output header and metadata, the last one     *)
(* winning.  The values are read from Envoy's memory, which writing the    *)
(* same header frees.                                                      *)
(***************************************************************************)
EXTENDS HttpStream

(* A header value: with the configured prefix or without, and the token    *)
(* that is sealed in it, None when it does not decrypt.                    *)
Values == [prefix : BOOLEAN, token : {None, "t1", "t2"}]

(* prefix: one is configured.  header: where the payload goes, nowhere, to *)
(* another header or in place of the input header; meta: it goes to the    *)
(* metadata.  input: the header as it came.  output, metadata: as written. *)
Configs ==
    [kind : {"jwe"}, prefix : BOOLEAN, header : {None, "other", "same"}, meta : BOOLEAN,
     input : {<< >>}, output : {None}, metadata : {None}]

Filters ==
    [kind : {"jwe"}, prefix : BOOLEAN, header : {None, "other", "same"}, meta : BOOLEAN,
     input : Seq(Values), output : Values \cup {None}, metadata : Values \cup {None}]

Mine(s) == filter[s].kind = "jwe"

(* The prefix is cut off when it is configured; a value that still has one *)
(* is no JWE.                                                              *)
Decrypt(f, value) == IF value.prefix /\ ~f.prefix THEN None ELSE value.token

(* A configured prefix is put in front of every payload. *)
Payload(f, token) == [prefix |-> f.prefix, token |-> token]

(* Outcomes of the loop's body for one value: once the input header was    *)
(* overwritten, the buffer of a later value may hold anything, and what it *)
(* holds does not decrypt.                                                 *)
Step(f, value) ==
    LET token == Decrypt(f, value)
        written == [f EXCEPT !.output = IF f.header # None THEN Payload(f, token) ELSE @,
                             !.metadata = IF f.meta THEN Payload(f, token) ELSE @]
    IN  (IF token = None THEN {f} ELSE {written})
          \cup (IF f.header = "same" /\ f.output # None THEN {f} ELSE {})

OnRequestHeaders(s) ==
    /\ Mine(s)
    /\ \E end \in BOOLEAN, values \in {<< >>} \cup [{1} -> Values] \cup [{1, 2} -> Values] :
         LET f == [filter[s] EXCEPT !.input = values]
         IN  OnHeaders(s, "req", end, {Returns("Continue", g) : g \in
               CASE Len(values) = 0 -> {f}
                 [] Len(values) = 1 -> Step(f, values[1])
                 [] Len(values) = 2 -> UNION {Step(g, values[2]) : g \in Step(f, values[1])}})

(* What is written was sealed in a value of the request, and something is  *)
(* written if any of them decrypts.                                        *)
Faithful(f) ==
    LET Sealed == {f.input[i].token : i \in {j \in DOMAIN f.input :
                      f.input[j].token # None /\ (f.input[j].prefix => f.prefix)}}
    IN  /\ f.header # None /\ f.meta => f.output = f.metadata
        /\ \A written \in {f.output, f.metadata} \ {None} : written.token \in Sealed
        /\ Sealed # {} => (f.header # None => f.output # None) /\ (f.meta => f.metadata # None)
================================================================================
