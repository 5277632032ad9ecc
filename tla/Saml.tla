--------------------------------- MODULE Saml ---------------------------------
(***************************************************************************)
(* The SAML service provider: a browser without a session is sent to the   *)
(* identity provider and comes back with a signed response posted to the   *)
(* assertion consumer service (ACS), which answers with a session cookie.  *)
(* The provider's metadata is part of the configuration or is fetched by a *)
(* goroutine that retries; requests come before, during and after that.    *)
(***************************************************************************)
EXTENDS HttpStream

CONSTANT MaxAttempts  \* most fetch attempts a configuration asks for (bound)

ASSUME SamlAssumption == None \notin {"bypass", "session"}

(***************************************************************************)
(* The configuration, as far as it decides over metadata and keys: values  *)
(* absent (None), unusable ("bad", "empty") or usable.                     *)
(***************************************************************************)
SamlRawConfigs ==
    [entity_id : BOOLEAN, acs_path : BOOLEAN, xml : {None, "bad", "empty", "ok"},
     url : {None, "bad", "ok"}, cluster : BOOLEAN, delay : {None, "bad", "ok"},
     attempts : {None} \cup 0..MaxAttempts, cert : {None, "bad", "ok"}, key : {None, "bad", "ok"},
     session : {None, "bad", "ok"}]

(* defaultIDPMetadataFetchMaxAttempts, cut to the bound. *)
DefaultAttempts == IF MaxAttempts < 3 THEN MaxAttempts ELSE 3

(* Slip: a fetch with no attempts is accepted. *)
UrlSettingsAny(raw) ==
    IF raw.url = None THEN ~raw.cluster /\ raw.delay = None /\ raw.attempts = None
    ELSE raw.cluster /\ raw.delay # "bad"

UrlSettings(raw) ==
    IF raw.url = None THEN ~raw.cluster /\ raw.delay = None /\ raw.attempts = None
    ELSE raw.cluster /\ raw.delay # "bad" /\ raw.attempts # 0

(* Inline or fetched, never both. *)
MetadataSettings(raw) ==
    /\ (raw.xml = None) # (raw.url = None)
    /\ UrlSettings(raw)
    /\ raw.xml \notin {"bad", "empty"}

(* Both PEMs or neither; a missing pair is generated. *)
KeySettings(raw) == (raw.cert = None) = (raw.key = None) /\ "bad" \notin {raw.cert, raw.key}

parseConfig(raw) ==
    /\ raw.entity_id /\ raw.acs_path
    /\ MetadataSettings(raw) /\ KeySettings(raw) /\ raw.session # "bad"

(***************************************************************************)
(* idp: the metadata of the filter's configuration and its fetch; attempt: *)
(* the loop's counter, max its bound; fetch: where the goroutine is.       *)
(***************************************************************************)
Fetches == [loaded : BOOLEAN, attempt : 0..MaxAttempts, max : 0..MaxAttempts,
            fetch : {"sleeping", "scheduled", "calling", "done"}]

Inline == [loaded |-> TRUE, attempt |-> 0, max |-> 0, fetch |-> "done"]

(* Create.  A URL without scheme or host fails, inline text that is not    *)
(* metadata as well.                                                       *)
Create(raw) ==
    IF raw.url = None THEN Inline
    ELSE LET max == IF raw.attempts = None THEN DefaultAttempts ELSE raw.attempts
         IN  [loaded |-> FALSE, attempt |-> IF max = 0 THEN 0 ELSE 1, max |-> max,
              fetch |-> IF max = 0 THEN "done" ELSE "sleeping"]

Created == {Create(raw) : raw \in {r \in SamlRawConfigs : parseConfig(r) /\ r.url # "bad"}}

(***************************************************************************)
(* cfg: a stream uses the configuration of the filter or of its route,     *)
(* which always has its metadata and has a signing key of its own.  by:    *)
(* why the request passed; asserted: a response of the identity provider   *)
(* was found valid on this stream.                                         *)
(***************************************************************************)
SamlConfigs ==
    [kind : {"saml"}, cfg : {"listener", "route"}, isACSRequest : {FALSE}, by : {None},
     asserted : {FALSE}]

SamlFilters ==
    [kind : {"saml"}, cfg : {"listener", "route"}, isACSRequest : BOOLEAN,
     by : {None, "bypass", "session"}, asserted : BOOLEAN]

Tokens == [key : {"listener", "route"}, expired : BOOLEAN]

SamlMine(s) == filter[s].kind = "saml"

idpMetadata(f) == f.cfg = "route" \/ shared.idp.loaded

(* The session cookie a request brings: none, one made elsewhere, or the   *)
(* one the browser was given last; a cookie replaces the one before.       *)
Cookies == {None, [key |-> "other", expired |-> FALSE]} \cup {shared.token}

validateSessionToken(f, token) == token.key = f.cfg /\ ~token.expired

(* A local response whose content may fail to be generated. *)
Generated(code, f) == {Replies("Stop", code, f), Replies("Stop", 500, f)}

WithSession(f, cookie) ==
    IF cookie # None /\ validateSessionToken(f, cookie)
    THEN {Returns("Continue", [f EXCEPT !.by = "session"])}
    ELSE Generated(302, f)

SamlOnRequestHeaders(s) ==
    /\ SamlMine(s) /\ stream[s].req.at = "idle"
    /\ \E end, post \in BOOLEAN, path \in {"bypass", "metadata", "acs", "app"}, cookie \in Cookies :
         LET f == filter[s]
             acs == [f EXCEPT !.isACSRequest = TRUE]
         IN  OnHeaders(s, "req", end,
               IF path = "bypass" THEN {Returns("Continue", [f EXCEPT !.by = "bypass"])}
               ELSE IF ~idpMetadata(f) THEN {Replies("Stop", 503, f)}
               ELSE IF path = "metadata" THEN Generated(200, f)
               ELSE IF path = "acs" /\ post
               THEN {IF end THEN Replies("Stop", 400, acs) ELSE Returns("Stop", acs)}
               ELSE WithSession(f, cookie))

(***************************************************************************)
(* onRequestComplete: the body is no form, has no response, or one that    *)
(* the metadata does not vouch for (401); or a session is made, which may  *)
(* fail (500), and the browser is sent on with the cookie (302).           *)
(***************************************************************************)
onRequestComplete(f, stop) ==
    IF ~idpMetadata(f) THEN {Replies(stop, 503, f)}
    ELSE {Replies(stop, 401, f), Replies(stop, 500, [f EXCEPT !.asserted = TRUE]),
          Replies(stop, 302, [f EXCEPT !.asserted = TRUE])}

(* The browser keeps the cookie of an answer that sets one. *)
Given(s) ==
    shared' = IF filter'[s].asserted /\ stream'[s].reply = 302
              THEN [shared EXCEPT !.token = [key |-> filter[s].cfg, expired |-> FALSE]]
              ELSE shared

SamlOnRequestBody(s) ==
    /\ SamlMine(s)
    /\ \E end \in BOOLEAN : BodyFrame(s, "req", end,
         IF ~filter[s].isACSRequest THEN {Returns("Continue", filter[s])}
         ELSE IF ~end THEN {Returns("StopAndBuffer", filter[s])}
         ELSE onRequestComplete(filter[s], "StopNoBuffer"))
    /\ Given(s)

SamlOnRequestTrailers(s) ==
    /\ SamlMine(s)
    /\ TrailersFrame(s, "req",
         IF ~filter[s].isACSRequest THEN {Returns("Continue", filter[s])}
         ELSE onRequestComplete(filter[s], "Stop"))
    /\ Given(s)

(* A session's time is over. *)
Expires ==
    /\ shared.token # None /\ ~shared.token.expired
    /\ shared' = [shared EXCEPT !.token.expired = TRUE]
    /\ UNCHANGED <<stream, filter>>

Fetching(fetch) == shared.idp # None /\ shared.idp.fetch = fetch

Moves(idp) == shared' = [shared EXCEPT !.idp = idp] /\ UNCHANGED <<stream, filter>>

(* The goroutine after <-done; it returns with its loop's variables. *)
Signalled(idp, success) ==
    IF success THEN Inline
    ELSE IF idp.attempt < idp.max
    THEN [idp EXCEPT !.fetch = "sleeping", !.attempt = @ + 1]
    ELSE [idp EXCEPT !.fetch = "done"]

(* time.Sleep returns and the callout is scheduled on the config thread. *)
Schedule == Fetching("sleeping") /\ Moves([shared.idp EXCEPT !.fetch = "scheduled"])

(* The scheduled function: the callout starts or cannot be started. *)
HttpCallout ==
    /\ Fetching("scheduled")
    /\ \/ Moves([shared.idp EXCEPT !.fetch = "calling"])
       \/ Moves(Signalled(shared.idp, FALSE))

(* Metadata of a 200 answer is published before the goroutine goes on;     *)
(* anything else, a reset or timeout too, is a failed attempt.             *)
SamlOnHttpCalloutDone ==
    /\ Fetching("calling")
    /\ \/ Moves(Signalled(shared.idp, TRUE))
       \/ Moves(Signalled(shared.idp, FALSE))

Fetch == Schedule \/ HttpCallout \/ SamlOnHttpCalloutDone

SamlStep(s) ==
    \/ SamlOnRequestHeaders(s) \/ SamlOnRequestBody(s)
    \/ SamlOnRequestTrailers(s)

(* The SAML plugin's metadata fetch, and the passing of time. *)
SessionStep == Fetch \/ Expires

(* What may pass: bypass paths, and sessions that began with a response    *)
(* found valid under the same configuration.                               *)
SamlApproved(f) ==
    \/ f.by = "bypass"
    \/ f.by = "session" /\ \E t \in Streams :
         filter[t].kind = "saml" /\ filter[t].asserted /\ filter[t].cfg = f.cfg
================================================================================
