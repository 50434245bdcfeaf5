----------------------------- MODULE Provision ------------------------------
(* From an image's layers to loaded components, over the starts, crashes    *)
(* and upgrades of a node: Compiler::compile and the AOT gate of            *)
(* containerd-shim-spin/src/engine.rs, Source::from_ctx and                 *)
(* Source::to_locked_app of containerd-shim-spin/src/source.rs.             *)
(*                                                                          *)
(* The container runtime fetches the layers (a wasm layer comes out of its  *)
(* precompile cache when a shim with the same key stored it there) and has  *)
(* the shim compile the others.  The container then writes every layer to   *)
(* its root file system, reads the app back from there and loads it.  The   *)
(* root file system outlives a crash when the same container is started     *)
(* again, so a half written file may be found by the next start.            *)
EXTENDS Naturals, Sequences

CONSTANTS
    Digest,    \* digests of layers and of files in archive layers
    Engine,    \* compatibility hashes, one per kind of shim build
    Images,    \* the images considered
    Wants,     \* the files the app of a config layer refers to
    Packed,    \* the files in an archive layer
    Broken,    \* wasm layers the compiler refuses
    None,      \* no such file
    MaxFaults  \* bound on crashes, I/O errors and stops

Media == {"config", "wasm", "wkg", "data", "archive", "other"}

\* A container is made from OCI layers or from a plain root file system.
Image == [kind : {"oci", "file"}, layers : Seq([media : Media, digest : Digest])]

\* The bytes of a layer: as they are in the image, cut short, or compiled for an
\* engine.
Content == [of : Digest, form : {"raw", "partial"} \cup Engine]

ASSUME ProvisionAssumption ==
    /\ Images \subseteq Image
    /\ \A i \in Images : i.kind = "file" => i.layers = <<>>
    /\ None \notin Content
    /\ Engine \cap {"raw", "partial"} = {}
    /\ Wants \in [Digest -> [wasm : SUBSET Digest, data : SUBSET Digest]]
    /\ Packed \in [Digest -> SUBSET Digest]
    /\ Broken \subseteq Digest
    /\ MaxFaults \in Nat

VARIABLES
    image,     \* the image of the container
    binary,    \* the engine of the shim that is installed
    store,     \* the node's precompile cache
    engine,    \* the engine of the shim that runs the container
    pc,        \* what the container does
    layers,    \* what the runtime passes in ctx.entrypoint().source
    current,   \* the layer from_ctx is at
    source,    \* what from_ctx returned
    aot,       \* enable_loading_aot_compiled_components was called
    spinJson,  \* /spin.json
    wasm,      \* wasm files of /.cache, by digest
    data,      \* data files of /.cache, by digest
    faults

vars == <<image, binary, store, engine, pc, layers, current, source, aot,
          spinJson, wasm, data, faults>>

Node == <<image, binary, store>>
Rootfs == <<spinJson, wasm, data>>
Run == <<layers, current, source, aot>>

File == Content \cup {None}

Layer == [media : Media, digest : Digest, content : Content, precompiled : BOOLEAN]

Raw(d) == [of |-> d, form |-> "raw"]
Partial(d) == [of |-> d, form |-> "partial"]
Native(d, e) == [of |-> d, form |-> e]

is_wasm_content(l) == l.media \in {"wasm", "wkg"}

\* mutant: one key for all engines
ConstantKey(e) == CHOOSE k \in Engine : TRUE

\* SpinCompiler::cache_key: artifacts of different engines do not mix.
cache_key(e) == e

TypeOK ==
    /\ image \in Images
    /\ binary \in Engine /\ engine \in Engine
    /\ store \subseteq [digest : Digest, key : Engine, by : Engine]
    /\ pc \in {"idle", "fetch", "compile", "write", "writing", "lock", "gate",
               "build", "loaded"}
    /\ \A n \in DOMAIN layers : layers[n] \in Layer
    /\ current \in Nat
    /\ source \in {"none", "File", "OciSpin", "OciWkg"}
    /\ aot \in BOOLEAN
    /\ spinJson \in File
    /\ wasm \in [Digest -> File]
    /\ data \in [Digest -> File]
    /\ faults \in 0..MaxFaults

\* The artifacts that other containers of the node may have left in the cache.
Artifacts ==
    {[digest |-> d, key |-> cache_key(e), by |-> e] : d \in Digest \ Broken, e \in Engine}

Init ==
    /\ image \in Images
    /\ binary \in Engine
    /\ LET used == {image.layers[n].digest :
                       n \in {m \in DOMAIN image.layers : is_wasm_content(image.layers[m])}}
       IN  store \in SUBSET {a \in Artifacts : a.digest \in used}
    /\ engine = binary
    /\ pc = "idle"
    /\ layers = <<>>
    /\ current = 1
    /\ source = "none"
    /\ aot = FALSE
    /\ spinJson = None
    /\ wasm = [d \in Digest |-> None]
    /\ data = [d \in Digest |-> None]
    /\ faults = 0

----------------------------------------------------------------------------
(* The node and the container runtime around the shim.                      *)

\* A start, the first one or another on the same root file system.
Start ==
    /\ pc = "idle"
    /\ engine' = binary
    /\ pc' = "fetch"
    /\ layers' = <<>>
    /\ current' = 1
    /\ source' = "none"
    /\ aot' = FALSE
    /\ UNCHANGED <<Node, Rootfs, faults>>

\* The container ends wherever it is: a crash, an I/O error, a stop.
Fault ==
    /\ pc # "idle"
    /\ faults < MaxFaults
    /\ pc' = "idle"
    /\ faults' = faults + 1
    /\ UNCHANGED <<Node, engine, Run, Rootfs>>

\* Another shim is installed; a container that runs keeps the one it has.
Upgrade ==
    /\ binary' \in Engine \ {binary}
    /\ UNCHANGED <<image, store, engine, pc, Run, Rootfs, faults>>

\* The runtime's garbage collector may drop an artifact.
Evict ==
    /\ \E a \in store : store' = store \ {a}
    /\ UNCHANGED <<image, binary, engine, pc, Run, Rootfs, faults>>

\* A layer as the runtime passes it on.
Fetched(l) ==
    LET hits == {a \in store : a.digest = l.digest /\ a.key = cache_key(engine)}
        hit  == is_wasm_content(l) /\ hits # {}
    IN  [media |-> l.media, digest |-> l.digest, precompiled |-> hit,
         content |-> IF hit THEN Native(l.digest, (CHOOSE a \in hits : TRUE).by)
                            ELSE Raw(l.digest)]

Fetch ==
    /\ pc = "fetch"
    /\ layers' = [n \in DOMAIN image.layers |-> Fetched(image.layers[n])]
    /\ pc' = "compile"
    /\ UNCHANGED <<Node, engine, current, source, aot, Rootfs, faults>>

----------------------------------------------------------------------------
(* SpinCompiler::compile, and what the runtime makes of its answer.         *)

ToCompile == {n \in DOMAIN layers : is_wasm_content(layers[n]) /\ ~layers[n].precompiled}

\* mutant: layers that stay as they are leave no place in the answer
compile_filtered(n) ==
    LET compiled == SelectSeq(layers, LAMBDA l : is_wasm_content(l) /\ ~l.precompiled)
    IN  IF n <= Len(compiled) THEN Native(compiled[n].digest, engine) ELSE None

\* mutant: the component is returned before it is compiled
compile_component(n) ==
    IF n \in ToCompile THEN [of |-> layers[n].digest, form |-> "component"] ELSE None

\* The answer for layer n: an artifact, or None to keep the layer.
compile(n) ==
    IF n \in ToCompile THEN Native(layers[n].digest, engine) ELSE None

\* Artifacts take the place of the layers they were made from and are stored.  A
\* layer that does not compile fails the whole call: the runtime then gives up,
\* or goes on with the layers as they were.
Compile ==
    /\ pc = "compile"
    /\ \/ /\ \A n \in ToCompile : layers[n].digest \notin Broken
          /\ layers' = [n \in DOMAIN layers |->
                           IF compile(n) = None THEN layers[n]
                           ELSE [layers[n] EXCEPT !.content = compile(n), !.precompiled = TRUE]]
          /\ store' = store \cup {[digest |-> layers[n].digest, key |-> cache_key(engine),
                                   by |-> engine] : n \in ToCompile}
          /\ pc' = "write"
       \/ /\ \E n \in ToCompile : layers[n].digest \in Broken
          /\ pc' \in {"idle", "write"}
          /\ UNCHANGED <<layers, store>>
    /\ UNCHANGED <<image, binary, engine, current, source, aot, Rootfs, faults>>

----------------------------------------------------------------------------
(* Source::from_ctx.                                                        *)

AtLayer(p, media) ==
    /\ pc = p
    /\ image.kind = "oci"
    /\ current <= Len(layers)
    /\ layers[current].media \in media

\* Layer l's file holds c from now on.  An archive's files are in the data cache
\* too; unpacking may leave those it finds there as they are.
Put(l, c) ==
    /\ spinJson' = IF l.media = "config" THEN c ELSE spinJson
    /\ wasm' = IF is_wasm_content(l) THEN [wasm EXCEPT ![l.digest] = c] ELSE wasm
    /\ IF l.media = "archive"
       THEN \E kept \in SUBSET {d \in Packed[l.digest] : data[d] # None} :
                data' = [d \in Digest |->
                            IF d \in Packed[l.digest] \ kept
                            THEN [of |-> d, form |-> c.form] ELSE data[d]]
       ELSE data' = IF l.media = "data" THEN [data EXCEPT ![l.digest] = c] ELSE data

\* Some earlier start got as far as this layer's file.
Exists(l) ==
    CASE l.media = "config"  -> spinJson # None
      [] is_wasm_content(l)  -> wasm[l.digest] # None
      [] l.media = "data"    -> data[l.digest] # None
      [] OTHER               -> FALSE

\* mutant: File::create_new, which refuses a file that is there
BeginWriteNew ==
    /\ AtLayer("write", Media \ {"other"})
    /\ \/ Exists(layers[current]) /\ pc' = "idle" /\ UNCHANGED Rootfs
       \/ /\ ~Exists(layers[current])
          /\ pc' = "writing"
          /\ Put(layers[current], Partial(layers[current].digest))
    /\ UNCHANGED <<Node, engine, Run, faults>>

\* mutant: what is in the cache already is not written again
BeginWriteOrSkip ==
    /\ AtLayer("write", Media \ {"other"})
    /\ \/ Exists(layers[current]) /\ current' = current + 1 /\ UNCHANGED <<pc, Rootfs>>
       \/ /\ ~Exists(layers[current])
          /\ pc' = "writing"
          /\ Put(layers[current], Partial(layers[current].digest))
          /\ UNCHANGED current
    /\ UNCHANGED <<Node, engine, layers, source, aot, faults>>

\* The file is created or truncated, the bytes are not in it yet.
BeginWrite ==
    /\ AtLayer("write", Media \ {"other"})
    /\ pc' = "writing"
    /\ Put(layers[current], Partial(layers[current].digest))
    /\ UNCHANGED <<Node, engine, Run, faults>>

\* All the bytes are there; from_ctx goes on to the next layer.
EndWrite ==
    /\ AtLayer("writing", {"config", "wasm", "data", "archive"})
    /\ pc' = "write"
    /\ current' = current + 1
    /\ Put(layers[current], layers[current].content)
    /\ UNCHANGED <<Node, engine, layers, source, aot, faults>>

\* A wasm package is the whole app: it must be the only layer.
EndWriteWkg ==
    /\ AtLayer("writing", {"wkg"})
    /\ Put(layers[current], layers[current].content)
    /\ \/ Len(layers) = 1 /\ source' = "OciWkg" /\ pc' = "lock"
       \/ Len(layers) # 1 /\ pc' = "idle" /\ UNCHANGED source
    /\ UNCHANGED <<Node, engine, layers, current, aot, faults>>

SkipUnknown ==
    /\ AtLayer("write", {"other"})
    /\ current' = current + 1
    /\ UNCHANGED <<Node, engine, pc, layers, source, aot, Rootfs, faults>>

\* No layer is left, or there are none to look at.
EndFromCtx ==
    /\ pc = "write"
    /\ image.kind = "oci" => current > Len(layers)
    /\ source' = IF image.kind = "oci" THEN "OciSpin" ELSE "File"
    /\ pc' = "lock"
    /\ UNCHANGED <<Node, engine, layers, current, aot, Rootfs, faults>>

----------------------------------------------------------------------------
(* Source::to_locked_app and run_trigger's loading.                         *)

\* The wasm and data files the app is made of.
Needed ==
    CASE source = "OciSpin" -> Wants[spinJson.of]
      [] source = "OciWkg"  -> [wasm |-> {layers[current].digest}, data |-> {}]
      [] OTHER              -> [wasm |-> {}, data |-> {}]

\* /spin.json must decode and what it refers to must be in the cache; whether
\* those files are whole is not looked at.
ToLockedApp ==
    /\ pc = "lock"
    /\ LET found == source = "OciSpin" =>
               /\ spinJson # None /\ spinJson.form = "raw"
               /\ \A d \in Needed.wasm : wasm[d] # None
               /\ \A d \in Needed.data : data[d] # None
       IN  pc' = IF found THEN "gate" ELSE "idle"
    /\ UNCHANGED <<Node, engine, Run, Rootfs, faults>>

WasmLayers == {n \in DOMAIN layers : is_wasm_content(layers[n])}

\* mutant: one precompiled layer is enough
any_layer_from_precompile_cache == \E n \in WasmLayers : layers[n].precompiled

layers_from_precompile_cache ==
    WasmLayers # {} /\ \A n \in WasmLayers : layers[n].precompiled

EnableAot ==
    /\ pc = "gate"
    /\ aot' = (source # "File" /\ layers_from_precompile_cache)
    /\ pc' = "build"
    /\ UNCHANGED <<Node, engine, layers, current, source, Rootfs, faults>>

\* The component loader takes native code only with AOT loading enabled, and
\* otherwise compiles the wasm itself.
Loadable(c) ==
    \/ c.form = engine /\ aot
    \/ c.form = "raw" /\ c.of \notin Broken

Load ==
    /\ pc = "build"
    /\ pc' = IF \A d \in Needed.wasm : Loadable(wasm[d]) THEN "loaded" ELSE "idle"
    /\ UNCHANGED <<Node, engine, Run, Rootfs, faults>>

Container ==
    \/ Start \/ Fetch \/ Compile
    \/ BeginWrite \/ EndWrite \/ EndWriteWkg \/ SkipUnknown \/ EndFromCtx
    \/ ToLockedApp \/ EnableAot \/ Load

Next == Container \/ Fault \/ Upgrade \/ Evict

\* A container that is not up is started again and its start goes on.
Spec == Init /\ [][Next]_vars /\ WF_vars(Container)

----------------------------------------------------------------------------
(* Properties.                                                              *)

\* What is about to be loaded.
Loading == pc \in {"build", "loaded"}

\* With AOT loading enabled every component to load is native code of the engine
\* that runs, and no component is ever native code of another engine: not after an
\* upgrade of the shim, nor an eviction, nor when part of an image fails to compile.
NativeWhenTrusted ==
    Loading =>
        /\ aot => \A d \in Needed.wasm : wasm[d].form = engine
        /\ \A d \in Needed.wasm : wasm[d].form \notin Engine \ {engine}

\* However often earlier starts were cut short, what is loaded is the image, and
\* whole: the app of its last config layer, its components, and the files it has
\* as layers of their own.
LoadsTheImage ==
    Loading =>
        /\ source = "OciSpin" => \E n \in DOMAIN layers :
               /\ layers[n].media = "config" /\ spinJson = Raw(layers[n].digest)
               /\ \A m \in DOMAIN layers : layers[m].media = "config" => m <= n
        /\ \A d \in Needed.wasm : wasm[d].form # "partial"
        /\ \A n \in DOMAIN layers : layers[n].media = "data" =>
               data[layers[n].digest].form = "raw"

\* The bytes stored under a digest are made from the layer with that digest: the
\* answers of compile line up with the layers it was given.
ContentMatchesDigest ==
    \A d \in Digest : /\ wasm[d] # None => wasm[d].of = d
                      /\ data[d] # None => data[d].of = d

\* An image whose app refers to what the image has.
Complete(i) ==
    LET has(media) == {i.layers[n].digest : n \in {m \in DOMAIN i.layers : i.layers[m].media = media}}
        unpacked   == UNION {Packed[d] : d \in has("archive")}
    IN  \/ i.kind = "file"
        \/ has("wkg") # {} /\ Len(i.layers) = 1
        \/ /\ has("wkg") = {} /\ has("config") # {}
           /\ \A d \in has("config") : /\ Wants[d].wasm \subseteq has("wasm") \ Broken
                                       /\ Wants[d].data \subseteq has("data") \cup unpacked
           /\ has("wasm") \cap Broken = {}

\* A container with a complete image comes up once the faults are over: nothing
\* an interrupted start leaves behind keeps the next one from succeeding.
RestartHeals == Complete(image) ~> pc = "loaded"
=============================================================================
