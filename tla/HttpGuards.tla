------------------------------ MODULE HttpGuards ------------------------------
(***************************************************************************)
(* The plugins that decide over a message on the streams one of them is    *)
(* installed on: authorization, sign-on, validation, content safety and    *)
(* the web application firewall.                                           *)
(***************************************************************************)
EXTENDS Opa, Cedar, OpenFga, TokenExchange, OpenApiValidator, IpRestriction, AzureContentSafety,
        BedrockGuardrails, Waf, Saml

CONSTANT Alone  \* the one stream of plugins whose streams share nothing

GuardConfigs ==
    OpaConfigs \cup CedarConfigs \cup OpenFgaConfigs
      \cup TokenConfigs \cup AzureConfigs \cup BedrockConfigs
      \cup OpenApiConfigs \cup IpConfigs \cup WafConfigs

(* The plugin is installed on one stream with configuration c. *)
Installed(c) ==
    /\ filter = [s \in Streams |-> IF s = Alone THEN c ELSE Bare]
    /\ stream = [s \in Streams |-> IF s = Alone THEN Opened ELSE Closed]
    /\ shared = Unshared

(* Streams of the SAML plugin share the browser's cookie and the metadata. *)
GuardInit ==
    \/ \E c \in GuardConfigs : Installed(c)
    \/ /\ filter \in [Streams -> SamlConfigs]
       /\ \A s \in Streams \ {Alone} : filter[s].cfg = "listener"
       /\ stream = [s \in Streams |-> Opened]
       /\ shared \in {[Unshared EXCEPT !.idp = idp] : idp \in Created}

AuthorizationStep(s) ==
    \/ OpaOnRequestHeaders(s) \/ OpaOnRequestBody(s) \/ OpaOnRequestTrailers(s)
    \/ CedarOnRequestHeaders(s)
    \/ OpenFgaOnRequestHeaders(s) \/ OpenFgaOnHttpCalloutDone(s)
    \/ TokenOnRequestHeaders(s) \/ TokenOnHttpCalloutDone(s)
    \/ OpenApiOnRequestHeaders(s) \/ OpenApiOnRequestBody(s)
    \/ OpenApiOnRequestTrailers(s) \/ Panics(s)
    \/ on_request_headers(s)

GuardStep(s) ==
    AuthorizationStep(s) \/ AzureStep(s) \/ BedrockStep(s) \/ WafStep(s) \/ SamlStep(s)

(* Plugins without OnStreamComplete; a filter with no response callbacks   *)
(* sees a foreign reply as the end of the stream.                          *)
StreamEnds(s) ==
    /\ filter[s].kind \notin {"waf", "engine", "fault"}
    /\ Ends(s, filter[s]) /\ UNCHANGED shared

GuardNext == SessionStep \/ \E s \in Streams : GuardStep(s) \/ StreamEnds(s)

GuardSpec == GuardInit /\ [][GuardNext]_vars

(* What a plugin accepts to see pass, by direction. *)
Accepts(s, dir) ==
    LET f == filter[s]
    IN  /\ f.kind = "opa" /\ dir = "req" => OpaApproved(f)
        /\ f.kind = "cedar" /\ dir = "req" => CedarApproved(f)
        /\ f.kind = "openfga" /\ dir = "req" => OpenFgaApproved(f)
        /\ f.kind = "token" /\ dir = "req" => TokenApproved(f)
        /\ f.kind = "bedrock" /\ dir = "req" => BedrockApproved(f)
        /\ f.kind = "azure" => AzureApproved(f, dir)
        /\ f.kind = "openapi" /\ dir = "req" => OpenApiApproved(s)
        /\ f.kind = "ip" /\ dir = "req" => IpApproved(f)
        /\ f.kind = "waf" => WafApproved(f, dir)
        /\ f.kind = "saml" /\ dir = "req" => SamlApproved(f)

(***************************************************************************)
(* No part of a message moves past a filter before the filter has decided  *)
(* to let the whole message pass: the policy allowed it, every guardrail   *)
(* has passed it as rewritten by the ones before, the body phase of the    *)
(* WAF has run, the caller's token was exchanged, or the configuration     *)
(* (fail_open, dry_run, monitor, mode) says so; in whatever frames the     *)
(* message arrives and whenever a callout or goroutine answers.            *)
(***************************************************************************)
NoBypass ==
    \A s \in Streams : \A dir \in {"req", "resp"} : stream[s][dir].seen => Accepts(s, dir)

(***************************************************************************)
(* A decision is counted in the plugin's metrics exactly once, whichever   *)
(* of the callbacks took it (dry runs of an allowing policy, which opa and *)
(* cedar do not count, excepted), and openfga's metadata names the         *)
(* decision it counted.                                                    *)
(***************************************************************************)
CountedOnce ==
    \A s \in Streams : LET f == filter[s] IN
        /\ f.kind \in {"opa", "cedar"} =>
             /\ Len(f.counted) <= 1
             /\ f.decision # None /\ ~f.dryRun => Len(f.counted) = 1
        /\ f.kind = "openfga" =>
             f.counted = IF f.decision = None THEN << >> ELSE <<f.metadata>>
        /\ f.kind = "token" => Len(f.counted) = IF f.callout THEN 0 ELSE f.exchanges
        /\ f.kind = "azure" =>
             LET analyses(dir) == IF f.verdict[dir] \in {None, "skip"} THEN 0 ELSE 1
             IN  Len(f.counted) = analyses("req") + analyses("resp")

(***************************************************************************)
(* The WAF uses its transaction only while it has one: never before it was *)
(* created and never after it went back to Coraza's pool, where another    *)
(* request may own it.                                                     *)
(***************************************************************************)
NoUseAfterRelease == \A s \in Streams : filter[s].kind = "waf" => ~filter[s].misused

(***************************************************************************)
(* A transaction of the WAF is released exactly once and its metrics are   *)
(* emitted exactly once ("exactly once", waf.go:133) by the time the       *)
(* stream has ended, however it ended; with the engine off none are.       *)
(***************************************************************************)
TransactionsClosed ==
    \A s \in Streams : LET f == filter[s] IN f.kind = "waf" =>
        /\ f.released <= f.created /\ f.recorded <= f.created
        /\ ~stream[s].up =>
             f.released = f.created /\ (~f.off => f.recorded = f.created)

(***************************************************************************)
(* The WAF's transactions live exactly as long as they are used.           *)
(***************************************************************************)
TransactionsSound == NoUseAfterRelease /\ TransactionsClosed
================================================================================
