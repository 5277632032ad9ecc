------------------------------ MODULE HttpFilters ------------------------------
(***************************************************************************)
(* The Composer plugins on their streams: one plugin is installed, each    *)
(* stream has a filter object of it with some configuration, and frames,   *)
(* callouts, goroutines, foreign replies and the end of the stream come in *)
(* any order Envoy allows.                                                 *)
(***************************************************************************)
EXTENDS HttpGuards, WafEngines, PluginLoader, FaultInjection

LlmPlugin == INSTANCE LlmProxy
AnthropicPlugin == INSTANCE AnthropicDecoder
ChatPlugin == INSTANCE ChatDecoder
JwePlugin == INSTANCE JweDecrypt
FilePlugin == INSTANCE FileServer

ASSUME ParametersAssumption == EnginesParameters /\ LoaderParameters /\ FaultParameters

AloneConfigs ==
    LlmPlugin!Configs \cup AnthropicPlugin!Configs \cup ChatPlugin!Configs
      \cup JwePlugin!Configs \cup FilePlugin!Configs

Init ==
    \/ GuardInit \/ \E c \in AloneConfigs : Installed(c)
    \/ FaultInit \/ EnginesInit \/ LoaderInit

HeadersStep(s) == JwePlugin!OnRequestHeaders(s) \/ FilePlugin!OnRequestHeaders(s)

LlmStep(s) ==
    \/ LlmPlugin!OnRequestHeaders(s) \/ LlmPlugin!OnRequestBody(s) \/ LlmPlugin!OnRequestTrailers(s)
    \/ LlmPlugin!OnResponseHeaders(s) \/ LlmPlugin!OnResponseBody(s)
    \/ LlmPlugin!OnResponseTrailers(s) \/ LlmPlugin!LocalReplyElsewhere(s)

DecoderStep(s) ==
    \/ AnthropicPlugin!OnRequestHeaders(s) \/ AnthropicPlugin!OnRequestBody(s)
    \/ AnthropicPlugin!OnRequestTrailers(s) \/ AnthropicPlugin!OnResponseHeaders(s)
    \/ AnthropicPlugin!OnResponseBody(s) \/ AnthropicPlugin!OnResponseTrailers(s)
    \/ AnthropicPlugin!LocalReplyElsewhere(s)
    \/ ChatPlugin!OnRequestHeaders(s) \/ ChatPlugin!OnRequestBody(s)
    \/ ChatPlugin!OnRequestTrailers(s) \/ ChatPlugin!OnResponseHeaders(s)
    \/ ChatPlugin!OnResponseBody(s) \/ ChatPlugin!OnResponseTrailers(s)
    \/ ChatPlugin!LocalReplyElsewhere(s)

StreamStep(s) == HeadersStep(s) \/ LlmStep(s) \/ DecoderStep(s)

Next ==
    \/ GuardNext \/ \E s \in Streams : StreamStep(s)
    \/ FaultNext \/ EnginesNext \/ LoaderStep

(* Callouts end, if only by their timeout, API clients have one as well,   *)
(* sleeps end and Envoy runs what was scheduled.  Nothing makes a peer     *)
(* send a frame or end a stream.  A stream has one plugin, so fairness of  *)
(* its steps together is fairness of that plugin's.                        *)
Async(s) ==
    \/ OpenFgaAsync(s) \/ TokenAsync(s) \/ AzureAsync(s)
    \/ BedrockAsync(s) \/ FaultAsync(s)

Fairness == WF_vars(Fetch) /\ \A s \in Streams : WF_vars(Async(s))

Spec == Init /\ [][Next]_vars /\ Fairness

PluginKinds ==
    {"bare", "opa", "cedar", "openfga", "token", "azure", "bedrock", "waf", "engine", "llm",
     "fault", "anthropic", "chat", "openapi", "ip", "jwe", "file", "saml"}

FilterType(f) ==
    /\ f.kind \in PluginKinds
    /\ f.kind = "bare" => f = Bare
    /\ f.kind = "opa" => f \in OpaFilters
    /\ f.kind = "cedar" => f \in CedarFilters
    /\ f.kind = "openfga" => f \in OpenFgaFilters
    /\ f.kind = "token" => f \in TokenFilters
    /\ f.kind = "azure" => f \in AzureFilters
    /\ f.kind = "bedrock" => f \in BedrockFilters
    /\ f.kind = "waf" => f \in WafFilters
    /\ f.kind = "engine" => f \in Filters
    /\ f.kind = "llm" => f \in LlmPlugin!Filters
    /\ f.kind = "fault" => f \in FaultFilters
    /\ f.kind = "anthropic" => f \in AnthropicPlugin!Filters
    /\ f.kind = "chat" => f \in ChatPlugin!Filters
    /\ f.kind = "openapi" => f \in OpenApiFilters
    /\ f.kind = "ip" => f \in IpFilters
    /\ f.kind = "jwe" => f \in JwePlugin!Filters
    /\ f.kind = "file" => f \in FilePlugin!Filters
    /\ f.kind = "saml" => f \in SamlFilters

(* Every variable keeps its type; activeRequests is never negative.        *)
TypeOK ==
    /\ stream \in [Streams -> StreamType]
    /\ \A s \in Streams : FilterType(filter[s])
    /\ shared.active \in 0..Cardinality(Streams)
    /\ shared.idp \in Fetches \cup {None}
    /\ shared.token \in Tokens \cup {None}
    /\ shared.engines # None => shared.engines \in Engines
    /\ shared.loads # None => shared.loads \in Loads
    /\ shared.sampling # None => shared.sampling \in Samplers

(***************************************************************************)
(* llm-proxy counts a request it parses at most once, reports for it an    *)
(* error or a usage but never both, and has reported one of them by the    *)
(* time the upstream's response has passed, so that totals, errors and     *)
(* token counts add up (onError, onRequestSuccess, onResponseSuccess).     *)
(***************************************************************************)
OneOutcome ==
    \A s \in Streams : LET f == filter[s] IN f.kind = "llm" =>
        /\ f.total <= 1 /\ f.errors + Len(f.usage) <= 1
        /\ f.matched /\ ~stream[s].foreign /\ stream[s].resp.at = "end" =>
             f.total = 1 /\ f.errors + Len(f.usage) = 1

(***************************************************************************)
(* What the LLM filters report of a message (the decoders' metadata, the   *)
(* proxy's token counts) is what the whole message says, and is reported   *)
(* once, wherever chunks cut its lines and whether it ends with its body   *)
(* or with trailers; a stream cut short is reported up to its last         *)
(* complete line.                                                          *)
(***************************************************************************)
DecodedWhole ==
    /\ OneOutcome
    /\ \A s \in Streams : LET f == filter[s] IN
        /\ f.kind = "llm" => LlmPlugin!Faithful(f)
        /\ f.kind = "anthropic" => AnthropicPlugin!Faithful(f)
        /\ f.kind = "chat" => ChatPlugin!Faithful(f)
        /\ f.kind = "jwe" => JwePlugin!Faithful(f)

(***************************************************************************)
(* The file server answers from below the directory its longest matching   *)
(* prefix is mapped to, whatever the path is made of, with bytes that were *)
(* asked for and that exist, and announces exactly those (a file that      *)
(* changes between os.Stat and the read excepted), up to a last position   *)
(* whose successor wraps; only a request that no prefix matches goes on.   *)
(***************************************************************************)
ServedExactly ==
    \A s \in Streams : filter[s].kind = "file" =>
        /\ FilePlugin!Exact(filter[s], stream[s].reply)
        /\ stream[s].req.seen => FilePlugin!Approved(filter[s])

(* Metadata is neither there nor given up after all attempts. *)
Unsettled ==
    /\ shared.idp # None /\ ~shared.idp.loaded
    /\ ~(shared.idp.fetch = "done" /\ shared.idp.max > 0 /\ shared.idp.attempt = shared.idp.max)

(***************************************************************************)
(* The metadata fetch of the SAML plugin comes to an end whatever its      *)
(* callouts do: with the metadata published, or with every configured      *)
(* attempt, one at least, made and failed (startIDPMetadataFetch).         *)
(***************************************************************************)
MetadataSettles == Unsettled ~> ~Unsettled

(* A message that the filter holds while nothing more of it will come.     *)
Stuck(s, dir) ==
    /\ Waits(s, dir) /\ (dir = "req" => ~stream[s].foreign)
    /\ stream[s][dir].at = "end" \/ stream[s][dir].flow = "all"

(***************************************************************************)
(* A filter never forgets a message it holds: once nothing more of it will *)
(* come, the message is resumed or answered (or the stream goes away)      *)
(* whatever callouts, API calls and guardrails answer or fail to answer.   *)
(***************************************************************************)
HeldAreReleased ==
    \A s \in Streams : \A dir \in {"req", "resp"} : Stuck(s, dir) ~> ~Stuck(s, dir)

(***************************************************************************)
(* "DryRun when true logs the decision but always allows the request."     *)
(* (opa/plugin.go:37; the plugins cedar and openapi-validator say the      *)
(* same): a dry run sends no local response.                               *)
(***************************************************************************)
DryRunNeverBlocks ==
    \A s \in Streams :
        filter[s].kind \in {"opa", "cedar", "openapi"} /\ filter[s].dryRun => stream[s].reply = None
================================================================================
