----------------------------- MODULE EnvoyConfig -----------------------------
(* The Envoy configuration boe generates from the extensions in flag order   *)
(* (cli/internal/envoy/{config,extension}.go) and the directory gen-config   *)
(* exports it to (cli/cmd/genconfig.go).  Pure operators.                    *)
(*                                                                           *)
(* A filter is [name, kind, loads]: loads is what the filter refers to, a    *)
(* module name, a file or URL, or a cluster.  A command line c carries the   *)
(* parameters:                                                               *)
(*   configs      --config per position: "", "json" or "text" (not JSON)     *)
(*   filterTypes  --filter-type per position, "" when empty                  *)
(*   before, after  native filter overrides per position, as Override        *)
(*   clusters     cluster specs [name, ok]                                   *)
(*   upstream     --test-upstream-cluster, <<>> for the default host            *)
(*   tls          how many of --listener-cert and --listener-key are given   *)
EXTENDS Manifests, TLC

Filter(name, kind, loads) == [name |-> name, kind |-> kind, loads |-> loads]

NoResources == [ok |-> TRUE, http |-> <<>>, network |-> <<>>, listener |-> <<>>, udp |-> <<>>,
                clusters |-> <<>>]
BadResources == [NoResources EXCEPT !.ok = FALSE]

extProcCluster(m) == <<m.name, "ext-proc">>

(* DynamicModuleFilterGenerator: one filter per filter type, all of the same *)
(* module; anything that is not another type is an HTTP filter.              *)
DynamicModule(m) ==
    LET f == <<Filter(m.name, "module", ModuleName(m))>>
        Of(t) == Joined([i \in DOMAIN m.filterTypes |->
                           IF m.filterTypes[i] = t THEN f ELSE <<>>])
    IN  [NoResources EXCEPT !.http = Of("http"), !.network = Of("network"),
                            !.listener = Of("listener"), !.udp = Of("udp_listener")]

(* ComposerFilterGenerator: the configuration must be a JSON object; a       *)
(* downloaded plugin of a known registry is named by its OCI reference.      *)
PluginURL(m, registry) ==
    IF m.remote # "" /\ registry THEN <<"oci", m.name, m.version>>
    ELSE <<"file", m.name, LocalCacheExtensionDir(m)>>

ComposerPlugin(m, config, registry) ==
    IF config = "text" THEN BadResources
    ELSE [NoResources EXCEPT !.http = <<Filter(m.name, "plugin", PluginURL(m, registry))>>]

(* ExtProcFilterGenerator: a filter and the cluster of its server. *)
ExtProc(m) ==
    [NoResources EXCEPT !.http = <<Filter(m.name, "ext_proc", extProcCluster(m))>>,
                        !.clusters = <<extProcCluster(m)>>]

(* The generator of the extension's type; a composer bundle has none. *)
GenerateFilterConfig(m, config, registry) ==
    CASE m.type = "lua" -> [NoResources EXCEPT !.http = <<Filter(m.name, "lua", "inline")>>]
      [] m.type = "wasm" ->
           [NoResources EXCEPT !.http = <<Filter(m.name, "wasm", LocalCacheExtensionDir(m))>>]
      [] m.type = "rust" \/ (m.type = "go" /\ m.cshared) -> DynamicModule(m)
      [] m.type = "go" /\ ~m.cshared -> ComposerPlugin(m, config, registry)
      [] m.type = "ext_proc" -> ExtProc(m)
      [] OTHER -> BadResources

At(s, i, default) == IF i \in DOMAIN s THEN s[i] ELSE default

(* A native filter list given for a position; terminal: it has a dynamic     *)
(* module marked as terminal filter.                                         *)
NoOverride == [given |-> FALSE, ok |-> TRUE, names |-> <<>>, terminal |-> FALSE]

(* parseNativeHTTPFilters*: the manifest's list, or the override that        *)
(* replaces it.  Only the manifest's went through validateNativeHTTPFilters. *)
NativeFilters(override, declared) ==
    LET names == IF override.given THEN override.names ELSE declared IN
    [i \in DOMAIN names |-> Filter(names[i], "native", "")]

(* More than one filter type must be narrowed to one of them. *)
Narrowed(m, chosen) ==
    IF Len(m.filterTypes) > 1 /\ chosen \in Range(m.filterTypes)
    THEN [m EXCEPT !.filterTypes = <<chosen>>] ELSE m

(* The body of generateConfig's loop for position i. *)
ExtensionConfig(c, m, i) ==
    LET before == At(c.before, i, NoOverride)
        after == At(c.after, i, NoOverride)
        ext == Narrowed(m, At(c.filterTypes, i, ""))
        own == GenerateFilterConfig(ext, At(c.configs, i, ""), c.do = "gen-config")
    IN  [own EXCEPT !.ok = /\ @
                           /\ Len(ext.filterTypes) <= 1
                           /\ before.ok /\ ~before.terminal
                           /\ after.ok /\ ~after.terminal,
                    !.http = NativeFilters(before, m.before) \o @ \o NativeFilters(after, m.after)]

(* generateConfig, from the resources of each extension. *)
generateConfig(c, parts) ==
    LET All(Get(_)) == Joined([i \in DOMAIN parts |-> Get(parts[i])]) IN
    [ok |-> /\ \A i \in DOMAIN parts : parts[i].ok
            /\ \A i \in DOMAIN c.clusters : c.clusters[i].ok,
     http |-> All(LAMBDA p : p.http), network |-> All(LAMBDA p : p.network),
     listener |-> All(LAMBDA p : p.listener), udp |-> All(LAMBDA p : p.udp),
     clusters |-> All(LAMBDA p : p.clusters)
                  \o [i \in DOMAIN c.clusters |-> c.clusters[i].name]]

(* buildHTTPConnectionManager: the router comes last, and the one route goes *)
(* to the cluster.                                                           *)
Router == Filter("envoy.filters.http.router", "native", "")
buildHTTPConnectionManager(filters, cluster) == [http |-> Append(filters, Router), route |-> cluster]

(* listeners is the number of them: TCP, and UDP when there are UDP filters. *)
buildFullConfig(gen, cluster, clusters) ==
    buildHTTPConnectionManager(gen.http, cluster)
    @@ [network |-> Append(gen.network, Filter("hcm", "native", "")),
        listeners |-> IF gen.udp = <<>> THEN 1 ELSE 2,
        clusters |-> clusters]

(* Mutant: the upstream cluster is not looked up. *)
FullConfigUnchecked(c, gen) ==
    [ok |-> c.tls # 1]
    @@ IF c.upstream = <<>>
       THEN buildFullConfig(gen, <<"test-upstream">>, <<<<"test-upstream">>>> \o gen.clusters)
       ELSE buildFullConfig(gen, c.upstream, gen.clusters)

(* FullConfigRenderer: traffic goes to a cluster of its own, unless the user *)
(* names one, which must exist; TLS needs both files.                        *)
FullConfigRenderer(c, gen) ==
    [ok |-> c.upstream \in Range(gen.clusters) \cup {<<>>} /\ c.tls # 1]
    @@ IF c.upstream = <<>>
       THEN buildFullConfig(gen, <<"test-upstream">>, <<<<"test-upstream">>>> \o gen.clusters)
       ELSE buildFullConfig(gen, c.upstream, gen.clusters)

MinimalConfigRenderer(c, gen) ==
    [ok |-> TRUE, http |-> gen.http, network |-> gen.network, listeners |-> 0,
     clusters |-> gen.clusters, route |-> <<>>]

-------------------------------------------------------------------------------
(* gen-config --output (genconfig.go writeConfig).  Within holds the pairs   *)
(* of extension names where the first is a substring of the second.          *)

(* The files copied for an extension, each as <<destination, slot>>. *)
CopiedFiles(m) ==
    CASE m.type = "lua" -> <<>>
      [] m.type = "go" /\ ~m.cshared ->
           <<<<"libcomposer-lite.so", LocalCacheComposerLiteDir(m.composerVersion)>>,
             <<<<m.name, "so">>, LocalCacheExtensionDir(m)>>>>
      [] m.type = "wasm" -> <<<<<<m.name, "wasm">>, LocalCacheExtensionDir(m)>>>>
      [] OTHER -> <<<<<<"lib", ModuleName(m)>>, LocalCacheExtensionDir(m)>>>>

(* The rewriting of one filter for one extension: a Wasm path is replaced by *)
(* its own file name, and every plugin URL in which the extension's name     *)
(* occurs by the extension's file name.                                      *)
Rewrite(f, m, Within) ==
    IF m.type = "wasm" /\ f.kind = "wasm" /\ f.loads = LocalCacheExtensionDir(m)
    THEN [f EXCEPT !.loads = <<m.name, "wasm">>]
    ELSE IF m.type = "go" /\ ~m.cshared /\ f.kind = "plugin"
            /\ (m.name = f.loads[2] \/ <<m.name, f.loads[2]>> \in Within)
    THEN [f EXCEPT !.loads = <<"file", m.name, <<m.name, "so">>>>]
    ELSE f

(* The filters after all extensions, in order, were rewritten. *)
writeConfig(http, ms, Within) ==
    [i \in DOMAIN http |-> Along(LAMBDA f, m : Rewrite(f, m, Within), http[i], ms)]
===============================================================================
