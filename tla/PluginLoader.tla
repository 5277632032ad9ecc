----------------------------- MODULE PluginLoader -----------------------------
(***************************************************************************)
(* goplugin-loader: Envoy processes that share a cache directory load the  *)
(* Go plugin that a filter configuration names, from a file or from an     *)
(* image whose newest layer with a .so in it is unpacked next to its final *)
(* place and renamed.  Processes may die at any time, and the registry's   *)
(* tags move.                                                              *)
(***************************************************************************)
EXTENDS HttpStream

CONSTANTS
    Hosts,     \* Envoy processes that share the cache directory
    MaxLayers  \* most layers of an image (bound)

Digests == {"own", "foreign"}
Kinds == {"none", "so", "link"}

(***************************************************************************)
(* url: what the configured URL is.  suffix: versioned_url_suffix.         *)
(* strict: strict_check, None when it is not set.                          *)
(***************************************************************************)
Configs == [url : {"empty", "file", "tag", "untagged", "digest", "http"}, suffix : BOOLEAN,
            strict : BOOLEAN \cup {None}]

(* The layers of an image: of another media type than the manifest says or *)
(* without .so, with one, or with one that is not a regular file of a sane *)
(* size.                                                                   *)
Images == UNION {[1..n -> Kinds] : n \in 0..MaxLayers}

(* A plugin binary in a file: where it came from and whether all of it is  *)
(* there.                                                                  *)
Binary == [digest : Digests \cup {None}, layer : 0..MaxLayers, whole : BOOLEAN]

(* ref: the reference fetched, plain or with the composer version.         *)
Host == [at : {"idle", "get", "stat", "layer", "copy", "rename", "open"},
         ref : {"plain", "versioned", "digest", None}, digest : Digests \cup {None},
         layer : 0..MaxLayers, temp : Binary \cup {None},
         plugin : Binary \cup {None}]

Loads == [cfg : Configs, image : Images, tag : Digests,
          cache : [Digests -> Binary \cup {None}], host : [Hosts -> Host]]

Idle == [at |-> "idle", ref |-> None, digest |-> None, layer |-> 0, temp |-> None,
         plugin |-> None]

(* The image matters only where one is fetched. *)
NothingLoaded ==
    {l \in [cfg : Configs, image : Images, tag : {"own"},
            cache : {[d \in Digests |-> None]}, host : {[h \in Hosts |-> Idle]}] :
       l.cfg.url \notin {"tag", "digest"} => l.image = << >>}

L == shared.loads
Loading == L # None
SetsHost(h, host) == shared' = [shared EXCEPT !.loads.host[h] = host]
Fails(h) == SetsHost(h, [Idle EXCEPT !.plugin = L.host[h].plugin])

(* versionedURL: only a tag gets the version; an oci URL must have one.    *)
versionedURL(cfg) ==
    IF cfg.url = "digest" THEN "digest"
    ELSE IF ~cfg.suffix THEN "plain" ELSE IF cfg.url = "untagged" THEN None ELSE "versioned"

(* A reference without tag names the tag latest. *)
Names(ref) ==
    IF ref = "plain" THEN L.tag ELSE IF ref = "versioned" THEN "own" ELSE "foreign"

(* Create and CreatePerRoute up to the fetch: loadGoPlugin and             *)
(* fetchGoPluginPath.  A file is opened where it is.                       *)
loadPluginImpl(h) ==
    /\ L.host[h].at = "idle"
    /\ LET cfg == L.cfg
           ref == versionedURL(cfg)
       IN  \/ cfg.url \in {"tag", "digest", "untagged"} /\ ref # None
              /\ SetsHost(h, [Idle EXCEPT !.at = "get", !.ref = ref])
           \/ cfg.url = "file" /\ SetsHost(h, [Idle EXCEPT !.at = "open"])
           \/ (cfg.url \in {"empty", "http"} \/ ref = None) /\ Fails(h)

(* remote.Get, in clear text after a first failure if the server says so. *)
Get(h) ==
    /\ L.host[h].at = "get"
    /\ \/ SetsHost(h, [L.host[h] EXCEPT !.at = "stat", !.digest = Names(L.host[h].ref)])
       \/ Fails(h)

(* The binary is looked for in the cache by the digest of its image. *)
Stat(h) ==
    /\ L.host[h].at = "stat"
    /\ SetsHost(h, IF L.cache[L.host[h].digest] # None THEN [L.host[h] EXCEPT !.at = "open"]
               ELSE [L.host[h] EXCEPT !.at = "layer", !.layer = Len(L.image)])

(* extractImageLayer, one layer at a time from the newest: skipped, the    *)
(* file to write to is created, or given up.                               *)
extractImageLayer(h) ==
    LET i == L.host[h].layer
    IN  /\ L.host[h].at = "layer"
        /\ \/ i > 0 /\ L.image[i] = "none"
              /\ SetsHost(h, [L.host[h] EXCEPT !.layer = i - 1])
           \/ i > 0 /\ L.image[i] = "so"
              /\ SetsHost(h, [L.host[h] EXCEPT !.at = "copy",
                            !.temp = [digest |-> L.host[h].digest, layer |-> i, whole |-> FALSE]])
           \/ Fails(h)

(* Slip: the binary is written to its final place. *)
CopyInPlace(h) ==
    /\ L.host[h].at = "copy"
    /\ \/ shared' = [shared EXCEPT
            !.loads.host[h].at = "rename", !.loads.host[h].temp.whole = TRUE,
            !.loads.cache[L.host[h].digest] = L.host[h].temp]
       \/ Fails(h)

(* io.CopyN and the sync; a failure removes the temporary file. *)
Copy(h) ==
    /\ L.host[h].at = "copy"
    /\ \/ SetsHost(h, [L.host[h] EXCEPT !.at = "rename", !.temp.whole = TRUE])
       \/ Fails(h)

Rename(h) ==
    /\ L.host[h].at = "rename"
    /\ \/ shared' = [shared EXCEPT
            !.loads.cache[L.host[h].digest] = L.host[h].temp,
            !.loads.host[h].at = "open", !.loads.host[h].temp = None]
       \/ Fails(h)

(* checkVersionCompatibility: the image of the other composer version has  *)
(* other dependencies; a file has any.                                     *)
Compatible(d) == IF d = None THEN BOOLEAN ELSE {d = "own"}

(* loadGoPlugin's default. *)
StrictCheck(cfg) == IF cfg.strict = None THEN TRUE ELSE cfg.strict

(* createFactory and the plugin's own factory, either of which may fail.   *)
createFactory(h) ==
    /\ L.host[h].at = "open"
    /\ LET d == L.host[h].digest
           b == IF d = None THEN [digest |-> None, layer |-> 0, whole |-> TRUE] ELSE L.cache[d]
       IN  \/ \E ok \in Compatible(d) : (StrictCheck(L.cfg) => ok)
              /\ SetsHost(h, [Idle EXCEPT !.plugin = b])
           \/ Fails(h)

(* The process dies, and what it wrote stays; a new one is started. *)
Crash(h) == L.host[h] # Idle /\ SetsHost(h, Idle)

(* Somebody pushes another image under the tag. *)
MoveTag ==
    /\ L.cfg.url = "tag"
    /\ \E d \in Digests \ {L.tag} : shared' = [shared EXCEPT !.loads.tag = d]

LoaderStep ==
    /\ Loading /\ UNCHANGED <<stream, filter>>
    /\ \/ MoveTag
       \/ \E h \in Hosts : \/ loadPluginImpl(h) \/ Get(h) \/ Stat(h) \/ extractImageLayer(h)
                           \/ Copy(h) \/ Rename(h) \/ createFactory(h) \/ Crash(h)

(* No process has begun to load the plugin. *)
LoaderInit ==
    /\ filter = [s \in Streams |-> Bare]
    /\ stream = [s \in Streams |-> Closed]
    /\ shared \in {[Unshared EXCEPT !.loads = loads] : loads \in NothingLoaded}

LoaderSpec == LoaderInit /\ [][LoaderStep]_vars

(* What is assumed of the parameters: None is neither a digest nor a binary. *)
LoaderParameters == MaxLayers \in Nat /\ None \notin Digests \cup Binary

(* The layer whose .so is the one an image's file system would show.       *)
Visible(image, i) ==
    image[i] = "so" /\ \A j \in (i + 1)..Len(image) : image[j] = "none"

(* What processes find in the cache or have opened is all of a binary, and *)
(* the one of the image it is kept for.                                    *)
Whole ==
    /\ \A d \in Digests : L.cache[d] # None => L.cache[d].whole /\ L.cache[d].digest = d
    /\ \A h \in Hosts : L.host[h].plugin # None => L.host[h].plugin.whole

(* A loaded plugin is the one that was asked for. *)
Asked(p) ==
    /\ p.digest # None => Visible(L.image, p.layer)
    /\ L.cfg.url = "digest" => p.digest = "foreign"
    /\ L.cfg.url = "tag" /\ L.cfg.suffix => p.digest = "own"
    /\ L.cfg.strict # FALSE => p.digest # "foreign"

(***************************************************************************)
(* What goplugin-loader opens is whole, and is what was asked for.  A      *)
(* process never opens a part of a binary, nor the binary of another image *)
(* than the digest it looked for: whichever processes fetch the same       *)
(* image, fail half way or die, the cache shows a binary only when it is   *)
(* all there (FetchPlugin).  A loaded plugin is the .so of the newest      *)
(* layer that has one, of the image pinned by digest or, with              *)
(* versioned_url_suffix, of the build for this composer version; and one   *)
(* built against other dependencies only if strict_check was turned off.   *)
(***************************************************************************)
PluginsSound ==
    Loading => Whole /\ \A h \in Hosts : LET p == L.host[h].plugin IN p # None => Asked(p)
================================================================================
