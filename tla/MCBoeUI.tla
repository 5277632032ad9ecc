------------------------------- MODULE MCBoeUI -------------------------------
EXTENDS BoeUI

(* A registry with a Go plugin for composer 10 (and its lite loader and      *)
(* source), an ext_proc server, a Rust module and a Go plugin that have no   *)
(* build for this platform but source artifacts, and a bundle of two Rust    *)
(* filters.                                                                  *)
Plug == [Blank EXCEPT !.name = "plug", !.type = "go", !.version = 20, !.composerVersion = 10]
Plug2 == [Plug EXCEPT !.name = "plug2", !.before = <<"envoy.filters.http.oauth2">>]
Old == [Plug EXCEPT !.name = "old", !.composerVersion = 10]
Rusty == [Blank EXCEPT !.name = "rusty", !.type = "rust", !.version = 30, !.min = 370, !.max = 381]
Guard == [Blank EXCEPT !.name = "guard", !.type = "ext_proc", !.version = 40]
Guard2 == [Guard EXCEPT !.name = "guard2"]
Composer == [Blank EXCEPT !.name = "composer", !.type = "composer", !.version = 10,
                          !.composerVersion = 10, !.min = 371]
Bundle == [Blank EXCEPT !.name = "bundle", !.type = "rust", !.version = 50, !.min = 380]
Child == [Bundle EXCEPT !.name = "child", !.parent = "bundle", !.version = Unset, !.min = Unset,
                        !.filterTypes = <<"http", "network">>]
Stray == [Child EXCEPT !.name = "stray", !.parent = "other"]
Wasm == [Blank EXCEPT !.name = "wasm", !.type = "wasm", !.version = 60, !.max = 379]

Binary(m) == [Missing EXCEPT !.manifest = m, !.kind = "binary", !.here = TRUE]
Source(m) == [Missing EXCEPT !.manifest = m, !.kind = "source", !.here = TRUE]

MCRegistry ==
    (<<"extension", "plug">> :> (20 :> Binary(Plug)))
    @@ (<<"extension", "plug2">> :> (20 :> Binary(Plug2)))
    @@ (<<"extension", "old">> :> (20 :> [Binary(Old) EXCEPT !.here = FALSE]))
    @@ (<<"composer-lite">> :> (10 :> Binary([Composer EXCEPT !.name = "composer-lite"])))
    @@ (<<"composer-src">> :> (10 :> [Source(Composer) EXCEPT !.children =
                                         {[Old EXCEPT !.parent = "composer", !.version = Unset]}]))
    @@ (<<"extension", "rusty">> :> (30 :> [Binary(Rusty) EXCEPT !.here = FALSE]
                                     @@ 31 :> [Binary(Rusty) EXCEPT !.dev = TRUE]))
    @@ (<<"extension-src", "rusty">> :> (30 :> Source(Rusty)))
    @@ (<<"extension", "guard">> :> (40 :> Binary(Guard)))
    @@ (<<"extension", "guard2">> :> (40 :> Binary(Guard2)))
    @@ (<<"extension", "bundle">> :> (50 :> [Binary(Bundle) EXCEPT !.children = {Child, Stray}]))
    @@ (<<"extension", "wasm">> :> (60 :> Binary(Wasm)))

Ref(bundle, name, tag) == [bundle |-> bundle, name |-> name, tag |-> tag]
MCReferences ==
    [ref \in {"plug", "plug2", "old", "rusty", "guard", "guard2", "wasm", "nowhere"} |-> Ref("", ref, Unset)]
    @@ ("bundle/child" :> Ref("bundle", "child", 50))
    @@ ("bundle/stray" :> Ref("bundle", "stray", 50))

(* A local Go plugin, built together with composer-lite; a child of a local  *)
(* bundle; a tree with the same directory name as another; a bad manifest.   *)
Tree(m, base, dir) == [manifest |-> m, root |-> Blank, main |-> FALSE, base |-> base, dir |-> dir]
MCLocals ==
    "/src/mine" :> Tree([Plug EXCEPT !.name = "mine"], "mine", "/src/mine")
    @@ "/src/bundle/child" :> [Tree(Child, "child", "/src/bundle") EXCEPT !.root = Bundle]
    @@ "/old/mine" :> Tree([Blank EXCEPT !.name = "script", !.min = 372], "mine", "/old/mine")
    @@ "/src/bad" :> Tree([Blank EXCEPT !.before = <<"envoy.filters.http.router">>], "bad", "/src/bad")

Flag(kind, value) == [kind |-> kind, value |-> value, word |-> TRUE]
Ext1(ref) == Flag("extension", ref)
Local1(path) == Flag("local", path)
Docker == Flag("docker", "")

MCShell == {[Command EXCEPT !.flags = <<Local1("/src/mine")>>]}
MCUILocals == "mine" :> "/src/mine"
MCBodies == {<<>>, <<"plug">>, <<"guard">>}

Gen == [Command EXCEPT !.do = "gen-config"]
Give(names) == [NoOverride EXCEPT !.given = TRUE, !.names = names]
MCScripted ==
    {[Gen EXCEPT !.flags = fs, !.output = out] :
        out \in BOOLEAN,
        fs \in {<<Ext1("plug"), Ext1("plug2")>>, <<Ext1("plug2"), Ext1("plug"), Ext1("wasm")>>,
                <<Local1("/src/mine"), Ext1("guard"), Local1("/old/mine")>>,
                <<Ext1("old"), Local1("/old/mine")>>}}
    \cup {[Gen EXCEPT !.flags = <<Ext1("wasm"), Ext1("bundle/child")>>, !.minimal = TRUE,
                      !.filterTypes = <<"", "network">>],
          [Gen EXCEPT !.flags = <<Local1("/src/bundle/child"), Ext1("guard")>>,
                      !.filterTypes = <<"http">>, !.after = <<Give(<<"envoy.filters.http.router">>)>>,
                      !.clusters = <<[name |-> <<"a:443">>, ok |-> TRUE]>>, !.upstream = <<"a:443">>],
          [Gen EXCEPT !.flags = <<Ext1("plug")>>, !.configs = <<"text">>],
          [Gen EXCEPT !.flags = <<Ext1("rusty")>>, !.upstream = <<"a:443">>],
          [Command EXCEPT !.do = "debug", !.flags = <<Local1("/src/mine")>>],
          [Command EXCEPT !.do = "debug", !.flags = <<Local1("/src/bundle/child")>>,
                          !.filterTypes = <<"http">>],
          [Command EXCEPT !.flags = <<Ext1("guard"), Ext1("guard2")>>],
          [Command EXCEPT !.flags = <<Ext1("bundle/stray")>>],
          [Command EXCEPT !.flags = <<Ext1("nowhere")>>],
          [Command EXCEPT !.flags = <<Local1("/src/bad")>>],
          [Command EXCEPT !.flags = <<Local1("/src/none")>>],
          [Command EXCEPT !.flags = <<Local1("/old/mine"), [Ext1("rusty") EXCEPT !.word = FALSE]>>],
          [Command EXCEPT !.flags = <<Local1("/old/mine"), Ext1("rusty")>>, !.envoy = 390],
          [Command EXCEPT !.flags = <<Docker, Local1("/old/mine"), Ext1("rusty"), Local1("/src/bundle/child"),
                                      Flag("listener-cert", "cert.pem")>>,
                          !.env = {"BOE_RUN_DOCKER", "BOE_REGISTRY", "BOE_DATA_HOME"}],
          [Command EXCEPT !.do = "debug",
                          !.flags = <<Local1("/src/bundle/child"), Docker>>],
          [Command EXCEPT !.flags = <<Docker, Local1("/old/mine"), Local1("/src/mine")>>]}
MCWithin == {<<"plug", "plug2">>}
===============================================================================
