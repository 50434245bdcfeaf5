--------------------------- MODULE ProvisionProofs ---------------------------
(* Theorems about Provision, for all images, shim builds and stores, and    *)
(* any number of crashes, upgrades and evictions.                           *)
EXTENDS Provision, SequenceTheorems, TLAPS

\* The runtime's cache never mixes the artifacts of two engines.
StoreKeys == \A a \in store : a.key = a.by

\* What the runtime passes on: the image's layers in their order, each as it is in
\* the image or, if it says that it is precompiled, native code of this engine.
Passed ==
    /\ layers \in Seq(Layer)
    /\ pc \notin {"idle", "fetch"} =>
           /\ DOMAIN layers = DOMAIN image.layers
           /\ \A n \in DOMAIN layers :
                  /\ layers[n].media = image.layers[n].media
                  /\ layers[n].digest = image.layers[n].digest
                  /\ layers[n].precompiled =>
                         /\ is_wasm_content(layers[n])
                         /\ layers[n].content = Native(layers[n].digest, engine)
                  /\ ~layers[n].precompiled => layers[n].content = Raw(layers[n].digest)
           /\ \A n, m \in WasmLayers :
                  layers[n].digest = layers[m].digest =>
                      layers[n].precompiled = layers[m].precompiled

\* Whatever start wrote it, a file on disk is one of this image.
Origin ==
    /\ \A d \in Digest : wasm[d] # None =>
           \E n \in DOMAIN image.layers :
               is_wasm_content(image.layers[n]) /\ image.layers[n].digest = d
    /\ spinJson # None => \E n \in DOMAIN image.layers : image.layers[n].media = "config"

\* No file of an image is a layer of its own and in an archive as well.
FilesApart ==
    \A i \in Images : \A n, m \in DOMAIN i.layers :
        i.layers[n].media = "data" /\ i.layers[m].media = "archive" =>
            i.layers[n].digest \notin Packed[i.layers[m].digest]

IsData(l) == l.media = "data"

\* The file of wasm layer n, or of data layer n, holds that layer.
WholeWasm(n) == is_wasm_content(layers[n]) => wasm[layers[n].digest] = layers[n].content
WholeData(n) ==
    FilesApart /\ IsData(layers[n]) => data[layers[n].digest] = Raw(layers[n].digest)

\* /spin.json is the last config layer among the first k layers, if there is one.
AppUpTo(k) ==
    \/ \A n \in 1..k : layers[n].media # "config"
    \/ \E n \in 1..k :
           /\ layers[n].media = "config" /\ spinJson = Raw(layers[n].digest)
           /\ \A m \in 1..k : layers[m].media = "config" => m <= n

\* While layer `current' is written, the earlier ones that share no file with it
\* are whole.
Writing ==
    /\ pc \in {"fetch", "compile"} => current = 1
    /\ pc \in {"write", "writing"} => current \in 1..(Len(layers) + 1)
    /\ pc = "write" =>
           /\ \A n \in 1..(current - 1) : WholeWasm(n) /\ WholeData(n)
           /\ AppUpTo(current - 1)
    /\ pc = "writing" =>
           /\ image.kind = "oci" /\ current \in DOMAIN layers
           /\ \A n \in 1..(current - 1) :
                  /\ ~(is_wasm_content(layers[current]) /\ layers[n].digest = layers[current].digest)
                         => WholeWasm(n)
                  /\ ~(IsData(layers[current]) /\ layers[n].digest = layers[current].digest)
                         => WholeData(n)
           /\ layers[current].media # "config" => AppUpTo(current - 1)

\* After from_ctx the disk holds the layers.
Written ==
    pc \in {"lock", "gate", "build", "loaded"} =>
        /\ source \in {"File", "OciSpin", "OciWkg"}
        /\ source = "File" => layers = <<>>
        /\ \A n \in DOMAIN layers : WholeWasm(n) /\ WholeData(n)
        /\ source = "OciSpin" => AppUpTo(Len(layers))
        /\ source = "OciWkg" => current \in WasmLayers

\* After to_locked_app the app and its components are found, and AOT loading is
\* enabled for precompiled layers only.
Gated ==
    /\ pc \in {"gate", "build", "loaded"} /\ source = "OciSpin" =>
           spinJson # None /\ \A d \in Needed.wasm : wasm[d] # None
    /\ Loading /\ aot => layers_from_precompile_cache

IInv ==
    TypeOK /\ StoreKeys /\ ContentMatchesDigest /\ Passed /\ Origin /\ Writing /\ Written /\ Gated

Disk == <<image, engine, layers, current, source, wasm, data, spinJson>>

----------------------------------------------------------------------------
LEMMA InitIInv == Init => IInv
<1> SUFFICES ASSUME Init PROVE IInv
    OBVIOUS
<1>1. TypeOK
    <2>1. store \subseteq Artifacts
        BY DEF Init
    <2>2. Artifacts \subseteq [digest : Digest, key : Engine, by : Engine]
        BY DEF Artifacts, cache_key
    <2>3. \A n \in DOMAIN layers : layers[n] \in Layer
        <3>1. DOMAIN <<>> = {}
            OBVIOUS
        <3> QED BY <3>1 DEF Init
    <2>4. spinJson \in File /\ wasm \in [Digest -> File] /\ data \in [Digest -> File]
        BY DEF Init, File
    <2>5. faults \in 0..MaxFaults /\ current \in Nat
        BY ProvisionAssumption DEF Init
    <2>6. /\ image \in Images /\ binary \in Engine /\ engine \in Engine
          /\ pc = "idle" /\ source = "none" /\ aot = FALSE
        BY DEF Init
    <2> QED BY <2>1, <2>2, <2>3, <2>4, <2>5, <2>6 DEF TypeOK
<1>2. StoreKeys
    <2>1. store \subseteq Artifacts
        BY DEF Init
    <2>2. \A a \in Artifacts : a.key = a.by
        BY DEF Artifacts, cache_key
    <2> QED BY <2>1, <2>2 DEF StoreKeys
<1>3. ContentMatchesDigest /\ Origin
    BY DEF Init, ContentMatchesDigest, Origin
<1>4. Passed
    BY EmptySeq DEF Init, Passed
<1>5. Writing /\ Written /\ Gated
    BY DEF Init, Writing, Written, Gated, Loading
<1> QED BY <1>1, <1>2, <1>3, <1>4, <1>5 DEF IInv

\* What a start passes on, and what is on disk, stays as it is from step to step.
LEMMA Frame ==
    ASSUME UNCHANGED Disk
    PROVE  /\ \A n : WholeWasm(n)' = WholeWasm(n) /\ WholeData(n)' = WholeData(n)
           /\ \A k : AppUpTo(k)' = AppUpTo(k)
           /\ Needed' = Needed /\ WasmLayers' = WasmLayers
           /\ layers_from_precompile_cache' = layers_from_precompile_cache
<1> USE DEF Disk
<1>1. \A n : WholeWasm(n)' = WholeWasm(n) /\ WholeData(n)' = WholeData(n)
    BY DEF WholeWasm, WholeData, FilesApart
<1>2. \A k : AppUpTo(k)' = AppUpTo(k)
    BY DEF AppUpTo
<1>3. Needed' = Needed
    BY DEF Needed
<1>4. WasmLayers' = WasmLayers
    BY DEF WasmLayers
<1>5. layers_from_precompile_cache' = layers_from_precompile_cache
    BY <1>4 DEF layers_from_precompile_cache
<1> QED BY <1>1, <1>2, <1>3, <1>4, <1>5

LEMMA LayersType ==
    ASSUME IInv
    PROVE  /\ Len(layers) \in Nat /\ DOMAIN layers = 1..Len(layers)
           /\ \A n \in DOMAIN layers : layers[n] \in Layer
<1>1. layers \in Seq(Layer)
    BY DEF IInv, Passed
<1> QED BY <1>1, LenProperties

LEMMA ImageType ==
    ASSUME TypeOK
    PROVE  /\ Len(image.layers) \in Nat /\ DOMAIN image.layers = 1..Len(image.layers)
           /\ image.kind \in {"oci", "file"}
           /\ \A n \in DOMAIN image.layers :
                  image.layers[n] \in [media : Media, digest : Digest]
<1>1. image \in Image
    BY ProvisionAssumption DEF TypeOK
<1>2. image.layers \in Seq([media : Media, digest : Digest]) /\ image.kind \in {"oci", "file"}
    BY <1>1 DEF Image
<1> QED BY <1>2, LenProperties
\* Steps of the node around the container.
LEMMA NodeIInv == ASSUME IInv, Start \/ Fault \/ Upgrade \/ Evict PROVE IInv'
<1> USE DEF IInv
<1>1. /\ UNCHANGED <<image, wasm, data, spinJson>>
      /\ store' \subseteq store
      /\ layers' = layers \/ (layers' = <<>> /\ pc' = "fetch")
    BY DEF Start, Fault, Upgrade, Evict, Node, Rootfs, Run
<1>2. TypeOK'
    <2>1. CASE Start
        <3>1. DOMAIN <<>> = {} /\ 1 \in Nat
            OBVIOUS
        <3> QED BY <2>1, <3>1 DEF Start, TypeOK, Node, Rootfs
    <2>2. CASE Fault
        BY <2>2, ProvisionAssumption DEF Fault, TypeOK, Node, Rootfs, Run
    <2>3. CASE Upgrade
        BY <2>3 DEF Upgrade, TypeOK, Rootfs, Run
    <2>4. CASE Evict
        BY <2>4 DEF Evict, TypeOK, Rootfs, Run
    <2> QED BY <2>1, <2>2, <2>3, <2>4
<1>3. StoreKeys' /\ ContentMatchesDigest' /\ Origin'
    BY <1>1 DEF StoreKeys, ContentMatchesDigest, Origin
<1>4. CASE Start
    <2>1. pc' = "fetch" /\ layers' = <<>> /\ current' = 1
        BY <1>4 DEF Start
    <2>2. (Passed /\ Writing /\ Written /\ Gated)'
        BY <2>1, EmptySeq DEF Passed, Writing, Written, Gated, Loading
    <2> QED BY <1>2, <1>3, <2>2
<1>5. CASE Fault
    <2>1. pc' = "idle" /\ layers' = layers
        BY <1>5 DEF Fault, Run
    <2>2. (Passed /\ Writing /\ Written /\ Gated)'
        BY <2>1 DEF Passed, Writing, Written, Gated, Loading
    <2> QED BY <1>2, <1>3, <2>2
<1>6. CASE Upgrade \/ Evict
    <2>1. UNCHANGED Disk /\ UNCHANGED <<pc, aot>>
        BY <1>6 DEF Upgrade, Evict, Run, Rootfs, Disk
    <2>2. Passed'
        BY <2>1 DEF Disk, Passed, WasmLayers
    <2>3. (Writing /\ Written /\ Gated)'
        BY <2>1, Frame DEF Disk, Writing, Written, Gated, Loading
    <2> QED BY <1>2, <1>3, <2>2, <2>3
<1> QED BY <1>4, <1>5, <1>6

LEMMA FetchIInv == ASSUME IInv, Fetch PROVE IInv'
<1> USE DEF IInv
<1>1. /\ pc = "fetch" /\ pc' = "compile"
      /\ layers' = [n \in DOMAIN image.layers |-> Fetched(image.layers[n])]
      /\ UNCHANGED <<image, binary, store, engine, current, source, aot, spinJson, wasm, data, faults>>
    BY DEF Fetch, Node, Rootfs
<1>2. ASSUME NEW l \in [media : Media, digest : Digest]
      PROVE  /\ Fetched(l) \in Layer
             /\ Fetched(l).media = l.media /\ Fetched(l).digest = l.digest
             /\ Fetched(l).precompiled =>
                    is_wasm_content(l) /\ Fetched(l).content = Native(l.digest, engine)
             /\ ~Fetched(l).precompiled => Fetched(l).content = Raw(l.digest)
             /\ Fetched(l).precompiled <=>
                    /\ is_wasm_content(l)
                    /\ \E a \in store : a.digest = l.digest /\ a.key = cache_key(engine)
    <2> DEFINE hits == {a \in store : a.digest = l.digest /\ a.key = cache_key(engine)}
               hit == is_wasm_content(l) /\ hits # {}
               artifact == CHOOSE a \in hits : TRUE
    <2>1. hit => artifact.by = engine
        <3>1. hits # {} => artifact \in hits
            OBVIOUS
        <3> QED BY <3>1 DEF StoreKeys, cache_key
    <2>2. Fetched(l) = [media |-> l.media, digest |-> l.digest, precompiled |-> hit,
                        content |-> IF hit THEN Native(l.digest, artifact.by) ELSE Raw(l.digest)]
        BY DEF Fetched
    <2>3. hit \in BOOLEAN /\ (hit <=> is_wasm_content(l) /\ \E a \in store : a.digest = l.digest /\ a.key = cache_key(engine))
        OBVIOUS
    <2>4. Raw(l.digest) \in Content /\ Native(l.digest, engine) \in Content
        BY DEF TypeOK, Content, Raw, Native
    <2> HIDE DEF hit, artifact
    <2> QED BY <2>1, <2>2, <2>3, <2>4 DEF Layer
<1>3. \A n \in DOMAIN image.layers : image.layers[n] \in [media : Media, digest : Digest]
    BY ImageType
<1>4. DOMAIN layers' = DOMAIN image.layers
      /\ \A n \in DOMAIN image.layers : layers'[n] = Fetched(image.layers[n])
    BY <1>1
<1>5. layers' \in Seq(Layer)
    <2>1. layers' \in [1..Len(image.layers) -> Layer]
        BY <1>1, <1>2, <1>3, ImageType
    <2> QED BY <2>1, ImageType
<1>6. TypeOK'
    BY <1>1, <1>2, <1>3, <1>4 DEF TypeOK
<1>7. Passed'
    <2>1. ASSUME NEW n \in DOMAIN layers'
          PROVE  /\ layers'[n] = Fetched(image.layers[n])
                 /\ image.layers[n] \in [media : Media, digest : Digest]
        BY <1>3, <1>4
    <2>2. ASSUME NEW n \in DOMAIN layers'
          PROVE  /\ layers'[n].media = image.layers[n].media
                 /\ layers'[n].digest = image.layers[n].digest
                 /\ layers'[n].precompiled =>
                        /\ is_wasm_content(layers'[n])
                        /\ layers'[n].content = Native(layers'[n].digest, engine)
                 /\ ~layers'[n].precompiled => layers'[n].content = Raw(layers'[n].digest)
        BY <1>2, <2>1 DEF is_wasm_content
    <2>3. ASSUME NEW n \in WasmLayers', NEW m \in WasmLayers',
                 layers'[n].digest = layers'[m].digest
          PROVE  layers'[n].precompiled = layers'[m].precompiled
        <3>1. /\ n \in DOMAIN layers' /\ m \in DOMAIN layers'
              /\ is_wasm_content(layers'[n]) /\ is_wasm_content(layers'[m])
            BY DEF WasmLayers, is_wasm_content
        <3>2. /\ is_wasm_content(image.layers[n]) /\ is_wasm_content(image.layers[m])
              /\ image.layers[n].digest = image.layers[m].digest
            BY <2>2, <2>3, <3>1 DEF is_wasm_content
        <3>3. layers'[n].precompiled <=> layers'[m].precompiled
            BY <1>2, <2>1, <3>1, <3>2
        <3>4. layers'[n].precompiled \in BOOLEAN /\ layers'[m].precompiled \in BOOLEAN
            BY <1>2, <2>1, <3>1 DEF Layer
        <3> QED BY <3>3, <3>4
    <2> QED BY <1>1, <1>4, <1>5, <2>2, <2>3 DEF Passed, Native, Raw, is_wasm_content
<1>8. (StoreKeys /\ ContentMatchesDigest /\ Origin)'
    BY <1>1 DEF StoreKeys, ContentMatchesDigest, Origin
<1>9. (Writing /\ Written /\ Gated)'
    BY <1>1 DEF Writing, Written, Gated, Loading
<1> QED BY <1>6, <1>7, <1>8, <1>9
\* An artifact takes the place of each layer to compile, and of no other.
LEMMA CompileIInv == ASSUME IInv, Compile PROVE IInv'
<1> USE DEF IInv
<1>1. /\ pc = "compile" /\ pc' \in {"idle", "write"} /\ current = 1
      /\ UNCHANGED <<image, binary, engine, current, source, aot, spinJson, wasm, data, faults>>
    BY DEF Compile, Rootfs, Writing
<1>2. (ContentMatchesDigest /\ Origin /\ Written /\ Gated)'
    BY <1>1 DEF ContentMatchesDigest, Origin, Written, Gated, Loading
<1>3. CASE UNCHANGED <<layers, store>>
    <2>1. (TypeOK /\ StoreKeys)'
        BY <1>1, <1>3 DEF TypeOK, StoreKeys
    <2>2. Passed'
        BY <1>1, <1>3 DEF Passed, WasmLayers
    <2>3. Writing'
        BY <1>1, <1>3, LayersType DEF Writing, AppUpTo
    <2> QED BY <1>2, <2>1, <2>2, <2>3
<1>4. CASE /\ layers' = [n \in DOMAIN layers |->
                           IF compile(n) = None THEN layers[n]
                           ELSE [layers[n] EXCEPT !.content = compile(n), !.precompiled = TRUE]]
           /\ store' = store \cup {[digest |-> layers[n].digest, key |-> cache_key(engine),
                                   by |-> engine] : n \in ToCompile}
    <2>1. \A n \in DOMAIN layers : layers[n] \in Layer
        BY LayersType
    <2>2. engine \in Engine
        BY DEF TypeOK
    <2>3. \A n \in ToCompile : /\ n \in DOMAIN layers
                               /\ compile(n) = Native(layers[n].digest, engine)
                               /\ compile(n) \in Content /\ compile(n) # None
        BY <2>1, <2>2, ProvisionAssumption DEF ToCompile, compile, Native, Content, Layer
    <2>4. \A n \in DOMAIN layers \ ToCompile : compile(n) = None
        BY DEF compile
    <2>5. DOMAIN layers' = DOMAIN layers
        BY <1>4
    <2>6. ASSUME NEW n \in DOMAIN layers
          PROVE  /\ layers'[n] \in Layer
                 /\ layers'[n].media = layers[n].media /\ layers'[n].digest = layers[n].digest
                 /\ is_wasm_content(layers[n]) =>
                        /\ layers'[n].precompiled = TRUE
                        /\ layers'[n].content = Native(layers[n].digest, engine)
                 /\ ~is_wasm_content(layers[n]) => layers'[n] = layers[n]
        <3>1. CASE n \in ToCompile
            <4>1. layers'[n] = [layers[n] EXCEPT !.content = compile(n), !.precompiled = TRUE]
                BY <1>4, <2>3, <3>1
            <4> QED BY <2>1, <2>3, <3>1, <4>1 DEF Layer, ToCompile
        <3>2. CASE n \notin ToCompile
            <4>1. layers'[n] = layers[n]
                BY <1>4, <2>4, <3>2
            <4>2. is_wasm_content(layers[n]) =>
                      layers[n].precompiled /\ layers[n].precompiled \in BOOLEAN
                BY <2>1, <3>2 DEF ToCompile, Layer
            <4> QED BY <1>1, <2>1, <4>1, <4>2 DEF Passed
        <3> QED BY <3>1, <3>2
    <2>7. layers' \in Seq(Layer)
        <3>1. layers' \in [1..Len(layers) -> Layer]
            BY <1>4, <2>5, <2>6, LayersType
        <3> QED BY <3>1, LayersType
    <2> DEFINE stored == {[digest |-> layers[n].digest, key |-> cache_key(engine),
                           by |-> engine] : n \in ToCompile}
    <2>8. store' = store \cup stored
        BY <1>4
    <2>9. ASSUME NEW a \in stored
          PROVE  a \in [digest : Digest, key : Engine, by : Engine] /\ a.key = a.by
        BY <2>1, <2>2, <2>3 DEF Layer, cache_key
    <2> HIDE DEF stored
    <2>10. TypeOK' /\ StoreKeys'
        <3>1. store' \subseteq [digest : Digest, key : Engine, by : Engine]
            BY <2>8, <2>9 DEF TypeOK
        <3>2. TypeOK'
            BY <1>1, <2>5, <2>6, <3>1 DEF TypeOK
        <3>3. StoreKeys'
            BY <2>8, <2>9 DEF StoreKeys
        <3> QED BY <3>2, <3>3
    <2>11. Passed'
        <3>1. DOMAIN layers' = DOMAIN image.layers'
            BY <1>1, <2>5 DEF Passed
        <3>2. ASSUME NEW n \in DOMAIN layers'
              PROVE  /\ layers'[n].media = image'.layers[n].media
                     /\ layers'[n].digest = image'.layers[n].digest
                     /\ is_wasm_content(layers'[n]) <=> is_wasm_content(layers[n])
            BY <1>1, <2>5, <2>6 DEF Passed, is_wasm_content
        <3>3. ASSUME NEW n \in DOMAIN layers', is_wasm_content(layers'[n])
              PROVE  /\ layers'[n].precompiled = TRUE
                     /\ layers'[n].content = Native(layers'[n].digest, engine')
            <4>1. layers'[n].digest = layers[n].digest /\ is_wasm_content(layers[n])
                BY <2>5, <2>6, <3>2, <3>3
            <4> QED BY <1>1, <2>5, <2>6, <4>1
        <3>4. ASSUME NEW n \in DOMAIN layers', ~is_wasm_content(layers'[n])
              PROVE  ~layers'[n].precompiled /\ layers'[n].content = Raw(layers'[n].digest)
            <4>1. layers'[n] = layers[n] /\ n \in DOMAIN layers /\ ~is_wasm_content(layers[n])
                BY <2>5, <2>6, <3>2, <3>4
            <4>2. ~layers[n].precompiled /\ layers[n].content = Raw(layers[n].digest)
                BY <1>1, <4>1 DEF Passed
            <4> QED BY <4>1, <4>2
        <3>5. ASSUME NEW n \in DOMAIN layers'
              PROVE  /\ layers'[n].precompiled =>
                            /\ is_wasm_content(layers'[n])
                            /\ layers'[n].content = Native(layers'[n].digest, engine')
                     /\ ~layers'[n].precompiled => layers'[n].content = Raw(layers'[n].digest)
            BY <3>3, <3>4
        <3>6. \A n, m \in WasmLayers' : layers'[n].precompiled = layers'[m].precompiled
            BY <3>3 DEF WasmLayers
        <3> QED BY <2>7, <3>1, <3>2, <3>5, <3>6 DEF Passed
    <2>12. Writing'
        <3>1. Len(layers') \in Nat
            BY <2>7, LenProperties
        <3>2. 1..(current' - 1) = {}
            BY <1>1
        <3> QED BY <1>1, <3>1, <3>2 DEF Writing, AppUpTo
    <2> QED BY <1>2, <2>10, <2>11, <2>12
<1> QED BY <1>3, <1>4 DEF Compile

\* No file changes in these.
LEMMA QuietIInv ==
    ASSUME IInv, SkipUnknown \/ EndFromCtx \/ ToLockedApp \/ EnableAot \/ Load
    PROVE  TypeOK' /\ StoreKeys' /\ ContentMatchesDigest' /\ Passed' /\ Origin'
<1> USE DEF IInv
<1>1. /\ UNCHANGED <<image, binary, store, engine, layers, spinJson, wasm, data, faults>>
      /\ pc \notin {"idle", "fetch"} /\ pc' \in {"idle", "write", "lock", "gate", "build", "loaded"}
      /\ current' \in {current, current + 1}
      /\ source' \in {source, "OciSpin", "File"}
      /\ aot' \in BOOLEAN
    BY DEF SkipUnknown, EndFromCtx, ToLockedApp, EnableAot, Load, AtLayer, Node, Rootfs, Run, TypeOK
<1>2. TypeOK'
    BY <1>1 DEF TypeOK
<1>3. Passed'
    BY <1>1 DEF Passed, WasmLayers
<1> QED BY <1>1, <1>2, <1>3 DEF StoreKeys, ContentMatchesDigest, Origin
LEMMA SkipIInv == ASSUME IInv, SkipUnknown PROVE IInv'
<1> USE DEF IInv
<1>1. /\ pc = "write" /\ pc' = "write" /\ current' = current + 1
      /\ current <= Len(layers) /\ layers[current].media = "other"
      /\ UNCHANGED <<layers, image, engine, source, aot, wasm, data, spinJson>>
    BY DEF SkipUnknown, AtLayer, Rootfs, Node
<1>2. current \in DOMAIN layers /\ current \in 1..Len(layers)
    BY <1>1, LayersType DEF Writing, TypeOK
<1>3. WholeWasm(current) /\ WholeData(current)
    BY <1>1 DEF WholeWasm, WholeData, is_wasm_content, IsData
<1>4. \A n \in 1..current : WholeWasm(n) /\ WholeData(n)
    BY <1>1, <1>2, <1>3, LayersType DEF Writing
<1>5. AppUpTo(current)
    <2>1. AppUpTo(current - 1)
        BY <1>1 DEF Writing
    <2>2. 1..current = 1..(current - 1) \cup {current}
        BY <1>2, LayersType
    <2> QED BY <1>1, <2>1, <2>2 DEF AppUpTo
<1>6. Writing'
    <2>1. current' - 1 = current /\ current' \in 1..(Len(layers) + 1)
        BY <1>1, <1>2, LayersType
    <2>2. \A n : WholeWasm(n)' = WholeWasm(n) /\ WholeData(n)' = WholeData(n)
        BY <1>1 DEF WholeWasm, WholeData, FilesApart
    <2>3. AppUpTo(current - 1)'
        BY <1>1, <1>5, <2>1 DEF AppUpTo
    <2> QED BY <1>1, <1>4, <2>1, <2>2, <2>3 DEF Writing
<1>7. Written' /\ Gated'
    BY <1>1 DEF Written, Gated, Loading
<1> QED BY <1>6, <1>7, QuietIInv

\* from_ctx returns when all layers are written, or there are none.
LEMMA EndFromCtxIInv == ASSUME IInv, EndFromCtx PROVE IInv'
<1> USE DEF IInv
<1>1. /\ pc = "write" /\ pc' = "lock" /\ (image.kind = "oci" => current > Len(layers))
      /\ source' = IF image.kind = "oci" THEN "OciSpin" ELSE "File"
      /\ UNCHANGED <<layers, current, image, engine, aot, wasm, data, spinJson>>
    BY DEF EndFromCtx, Rootfs, Node
<1>2. image.kind # "oci" => layers = <<>>
    <2>1. image.kind # "oci" => Len(image.layers) = 0
        BY ImageType, ProvisionAssumption, EmptySeq DEF TypeOK
    <2>2. DOMAIN layers = DOMAIN image.layers
        BY <1>1 DEF Passed
    <2>3. image.kind # "oci" => Len(layers) = 0
        BY <2>1, <2>2, ImageType, LayersType
    <2>4. layers \in Seq(Layer)
        BY DEF Passed
    <2> QED BY <2>3, <2>4, EmptySeq
<1>3. image.kind = "oci" => current - 1 = Len(layers)
    BY <1>1, LayersType DEF Writing
<1>4. image.kind = "oci" =>
          (\A n \in DOMAIN layers : WholeWasm(n) /\ WholeData(n)) /\ AppUpTo(Len(layers))
    BY <1>1, <1>3, LayersType DEF Writing
<1>5. image.kind # "oci" => \A n \in DOMAIN layers : WholeWasm(n) /\ WholeData(n)
    <2>1. DOMAIN <<>> = {}
        OBVIOUS
    <2> QED BY <1>2, <2>1
<1>6. /\ \A n : WholeWasm(n)' = WholeWasm(n) /\ WholeData(n)' = WholeData(n)
      /\ \A k : AppUpTo(k)' = AppUpTo(k)
    BY <1>1 DEF WholeWasm, WholeData, FilesApart, AppUpTo
<1>7. Written'
    BY <1>1, <1>2, <1>4, <1>5, <1>6, ImageType DEF Written
<1>8. Writing' /\ Gated'
    BY <1>1 DEF Writing, Gated, Loading
<1> QED BY <1>7, <1>8, QuietIInv

LEMMA LockIInv == ASSUME IInv, ToLockedApp \/ EnableAot \/ Load PROVE IInv'
<1> USE DEF IInv
<1>1. /\ UNCHANGED Disk /\ pc \in {"lock", "gate", "build"}
      /\ pc' \in {"idle", "gate", "build", "loaded"}
      /\ Loading' => pc \in {"gate", "build"}
    BY DEF ToLockedApp, EnableAot, Load, Run, Rootfs, Node, Disk, Loading
<1>2. Writing' /\ Written'
    BY <1>1, Frame DEF Writing, Written, Disk
<1>3. pc' \in {"gate", "build", "loaded"} /\ source = "OciSpin" =>
          spinJson # None /\ \A d \in Needed.wasm : wasm[d] # None
    <2>1. CASE ToLockedApp
        BY <2>1 DEF ToLockedApp
    <2>2. CASE EnableAot \/ Load
        BY <2>2 DEF EnableAot, Load, Gated
    <2> QED BY <2>1, <2>2
<1>4. Loading' /\ aot' => layers_from_precompile_cache
    BY <1>1 DEF ToLockedApp, EnableAot, Load, Run, Gated, Loading
<1>5. Gated'
    BY <1>1, <1>3, <1>4, Frame DEF Gated, Disk
<1> QED BY <1>2, <1>5, QuietIInv
\* What writing a layer does to the files.
LEMMA PutEffect ==
    ASSUME TypeOK, NEW l \in Layer, NEW c \in Content, c.of = l.digest, Put(l, c)
    PROVE  /\ spinJson' = IF l.media = "config" THEN c ELSE spinJson
           /\ spinJson' \in File /\ wasm' \in [Digest -> File] /\ data' \in [Digest -> File]
           /\ \A d \in Digest :
                  wasm'[d] = IF is_wasm_content(l) /\ d = l.digest THEN c ELSE wasm[d]
           /\ \A d \in Digest :
                  \/ data'[d] = data[d] /\ ~(IsData(l) /\ d = l.digest)
                  \/ data'[d] = c /\ IsData(l) /\ d = l.digest
                  \/ /\ l.media = "archive" /\ d \in Packed[l.digest]
                     /\ data'[d] = [of |-> d, form |-> c.form]
<1>1. /\ l.digest \in Digest /\ c \in File /\ wasm \in [Digest -> File]
      /\ data \in [Digest -> File] /\ spinJson \in File
      /\ c.form \in {"raw", "partial"} \cup Engine
    BY DEF Layer, File, TypeOK, Content
<1>2. spinJson' = IF l.media = "config" THEN c ELSE spinJson
    BY DEF Put
<1>3. wasm' = IF is_wasm_content(l) THEN [wasm EXCEPT ![l.digest] = c] ELSE wasm
    BY DEF Put
<1>4. /\ wasm' \in [Digest -> File]
      /\ \A d \in Digest :
             wasm'[d] = IF is_wasm_content(l) /\ d = l.digest THEN c ELSE wasm[d]
    BY <1>1, <1>3
<1>5. /\ data' \in [Digest -> File]
      /\ \A d \in Digest :
             \/ data'[d] = data[d] /\ ~(IsData(l) /\ d = l.digest)
             \/ data'[d] = c /\ IsData(l) /\ d = l.digest
             \/ /\ l.media = "archive" /\ d \in Packed[l.digest]
                /\ data'[d] = [of |-> d, form |-> c.form]
    <2>1. CASE l.media = "archive"
        <3>1. PICK kept :
                  data' = [d \in Digest |->
                              IF d \in Packed[l.digest] \ kept
                              THEN [of |-> d, form |-> c.form] ELSE data[d]]
            BY <2>1 DEF Put
        <3>2. \A d \in Digest : [of |-> d, form |-> c.form] \in File
            BY <1>1 DEF File, Content
        <3>3. data' \in [Digest -> File]
            BY <1>1, <3>1, <3>2
        <3>4. \A d \in Digest :
                  \/ data'[d] = data[d]
                  \/ d \in Packed[l.digest] /\ data'[d] = [of |-> d, form |-> c.form]
            BY <3>1
        <3> QED BY <2>1, <3>3, <3>4 DEF IsData
    <2>2. CASE l.media # "archive"
        <3>1. data' = IF l.media = "data" THEN [data EXCEPT ![l.digest] = c] ELSE data
            BY <2>2 DEF Put
        <3> QED BY <1>1, <3>1 DEF IsData
    <2> QED BY <2>1, <2>2
<1> QED BY <1>1, <1>2, <1>4, <1>5

\* Writing layer `current' leaves the files of the other layers as they are.
LEMMA PutKeeps ==
    ASSUME IInv, pc = "write" \/ pc = "writing", current \in DOMAIN layers,
           NEW c \in Content, c.of = layers[current].digest, Put(layers[current], c),
           UNCHANGED <<layers, image, engine>>
    PROVE  /\ ContentMatchesDigest' /\ Origin'
           /\ spinJson' \in File /\ wasm' \in [Digest -> File] /\ data' \in [Digest -> File]
           /\ \A n \in DOMAIN layers :
                  /\ WholeWasm(n) => \/ WholeWasm(n)'
                                     \/ /\ is_wasm_content(layers[current])
                                        /\ layers[n].digest = layers[current].digest
                  /\ WholeData(n) => \/ WholeData(n)'
                                     \/ /\ IsData(layers[current])
                                        /\ layers[n].digest = layers[current].digest
           /\ layers[current].media # "config" => \A k : AppUpTo(k)' = AppUpTo(k)
<1> USE DEF IInv
<1> DEFINE l == layers[current]
<1>1. /\ l \in Layer /\ \A n \in DOMAIN layers : layers[n] \in Layer
      /\ DOMAIN layers = DOMAIN image.layers
      /\ \A n \in DOMAIN layers : /\ layers[n].media = image.layers[n].media
                                 /\ layers[n].digest = image.layers[n].digest
    BY LayersType DEF Passed
<1>2. /\ spinJson' = IF l.media = "config" THEN c ELSE spinJson
      /\ spinJson' \in File /\ wasm' \in [Digest -> File] /\ data' \in [Digest -> File]
      /\ \A d \in Digest :
             wasm'[d] = IF is_wasm_content(l) /\ d = l.digest THEN c ELSE wasm[d]
      /\ \A d \in Digest :
             \/ data'[d] = data[d] /\ ~(IsData(l) /\ d = l.digest)
             \/ data'[d] = c /\ IsData(l) /\ d = l.digest
             \/ /\ l.media = "archive" /\ d \in Packed[l.digest]
                /\ data'[d] = [of |-> d, form |-> c.form]
    BY <1>1, PutEffect
<1>3. ContentMatchesDigest'
    BY <1>2 DEF ContentMatchesDigest
<1>4. Origin'
    <2>1. is_wasm_content(l) => is_wasm_content(image.layers[current])
        BY <1>1 DEF is_wasm_content
    <2> QED BY <1>1, <1>2, <2>1 DEF Origin, is_wasm_content
<1>5. ASSUME NEW n \in DOMAIN layers, WholeWasm(n),
             ~(is_wasm_content(l) /\ layers[n].digest = l.digest)
      PROVE  WholeWasm(n)'
    <2>1. layers[n].digest \in Digest
        BY <1>1 DEF Layer
    <2> QED BY <1>2, <1>5, <2>1 DEF WholeWasm, is_wasm_content
<1>6. ASSUME NEW n \in DOMAIN layers, WholeData(n),
             ~(IsData(l) /\ layers[n].digest = l.digest)
      PROVE  WholeData(n)'
    <2>1. layers[n].digest \in Digest
        BY <1>1 DEF Layer
    <2>2. FilesApart /\ IsData(layers[n]) /\ l.media = "archive" =>
              layers[n].digest \notin Packed[l.digest]
        BY <1>1 DEF FilesApart, TypeOK, IsData
    <2>3. FilesApart /\ IsData(layers[n]) => data'[layers[n].digest] = data[layers[n].digest]
        BY <1>2, <1>6, <2>1, <2>2
    <2> QED BY <1>6, <2>3 DEF WholeData, FilesApart, IsData, Raw
<1>7. l.media # "config" => \A k : AppUpTo(k)' = AppUpTo(k)
    BY <1>2 DEF AppUpTo
<1> QED BY <1>2, <1>3, <1>4, <1>5, <1>6, <1>7

\* With all its bytes layer `current' is whole, and so are the layers that share
\* its file.
LEMMA PutWhole ==
    ASSUME IInv, pc = "writing", current \in DOMAIN layers,
           Put(layers[current], layers[current].content), UNCHANGED <<layers, image, engine>>
    PROVE  /\ ContentMatchesDigest' /\ Origin'
           /\ spinJson' \in File /\ wasm' \in [Digest -> File] /\ data' \in [Digest -> File]
           /\ \A n \in 1..current : WholeWasm(n)' /\ WholeData(n)'
           /\ \A k : k = current => AppUpTo(k)'
<1> USE DEF IInv
<1> DEFINE l == layers[current]
<1>1. l \in Layer /\ \A n \in DOMAIN layers : layers[n] \in Layer
    BY LayersType
<1>2. /\ l.content \in Content /\ l.content.of = l.digest
      /\ ~is_wasm_content(l) => l.content = Raw(l.digest)
    <2>1. /\ l.precompiled => l.content = Native(l.digest, engine)
          /\ l.precompiled => is_wasm_content(l)
          /\ ~l.precompiled => l.content = Raw(l.digest)
        BY DEF Passed
    <2>2. l.content \in Content
        BY <1>1 DEF Layer
    <2> QED BY <2>1, <2>2 DEF Native, Raw
<1>3. /\ spinJson' = IF l.media = "config" THEN l.content ELSE spinJson
      /\ \A d \in Digest :
             wasm'[d] = IF is_wasm_content(l) /\ d = l.digest THEN l.content ELSE wasm[d]
      /\ \A d \in Digest : IsData(l) /\ d = l.digest => data'[d] = l.content
    <2>1. Put(l, l.content)
        OBVIOUS
    <2> DEFINE c == l.content
    <2>2. c \in Content /\ c.of = l.digest /\ Put(l, c)
        BY <1>2, <2>1
    <2> HIDE DEF l, c
    <2>3. /\ spinJson' = IF l.media = "config" THEN c ELSE spinJson
          /\ \A d \in Digest :
                 wasm'[d] = IF is_wasm_content(l) /\ d = l.digest THEN c ELSE wasm[d]
          /\ \A d \in Digest :
                  \/ data'[d] = data[d] /\ ~(IsData(l) /\ d = l.digest)
                  \/ data'[d] = c /\ IsData(l) /\ d = l.digest
                  \/ /\ l.media = "archive" /\ d \in Packed[l.digest]
                     /\ data'[d] = [of |-> d, form |-> c.form]
        BY <1>1, <2>2, PutEffect
    <2> QED BY <2>3 DEF c, IsData
<1>4. current \in Nat /\ current >= 1 /\ 1..current = 1..(current - 1) \cup {current}
      /\ 1..current \subseteq DOMAIN layers
    BY LayersType
<1>5. ASSUME NEW n \in DOMAIN layers, is_wasm_content(l), layers[n].digest = l.digest
      PROVE  WholeWasm(n)'
    <2>1. is_wasm_content(layers[n]) => layers[n].content = l.content
        BY <1>5 DEF Passed, WasmLayers
    <2> QED BY <1>1, <1>3, <1>5, <2>1 DEF WholeWasm, is_wasm_content, Layer
<1>6. ASSUME NEW n \in DOMAIN layers, IsData(l), layers[n].digest = l.digest
      PROVE  WholeData(n)'
    <2>1. l.content = Raw(l.digest)
        BY <1>2, <1>6 DEF IsData, is_wasm_content
    <2> QED BY <1>1, <1>3, <1>6, <2>1 DEF WholeData, FilesApart, IsData, Raw, Layer
<1>7. \A n : n = current => WholeWasm(n)' /\ WholeData(n)'
    BY <1>5, <1>6 DEF WholeWasm, WholeData, is_wasm_content, IsData
<1>8. \A n \in 1..current : WholeWasm(n)' /\ WholeData(n)'
    BY <1>2, <1>4, <1>5, <1>6, <1>7, PutKeeps DEF Writing
<1>9. ASSUME NEW k, k = current
      PROVE  AppUpTo(k)'
    <2>1. CASE l.media = "config"
        <3>1. spinJson' = Raw(l.digest)
            BY <1>2, <1>3, <2>1 DEF is_wasm_content
        <3> QED BY <1>4, <1>9, <2>1, <3>1 DEF AppUpTo, Raw
    <2>2. CASE l.media # "config"
        <3>1. AppUpTo(current - 1)
            BY <2>2 DEF Writing
        <3>2. AppUpTo(current)
            BY <1>4, <2>2, <3>1 DEF AppUpTo
        <3> QED BY <1>9, <2>2, <3>2, PutKeeps, <1>2
    <2> QED BY <2>1, <2>2
<1> QED BY <1>2, <1>8, <1>9, PutKeeps

\* A layer that is begun is partial until it ends, and no start reads it before.
LEMMA BeginWriteIInv == ASSUME IInv, BeginWrite PROVE IInv'
<1> USE DEF IInv
<1> DEFINE l == layers[current]
           c == Partial(l.digest)
<1>1. /\ pc = "write" /\ pc' = "writing" /\ image.kind = "oci" /\ current <= Len(layers)
      /\ Put(l, c)
      /\ UNCHANGED <<image, binary, store, engine, layers, current, source, aot, faults>>
    BY DEF BeginWrite, AtLayer, Node, Run
<1>2. current \in DOMAIN layers
    BY <1>1, LayersType DEF Writing
<1>3. c \in Content /\ c.of = l.digest
    <2>1. l \in Layer
        BY <1>2, LayersType
    <2> QED BY <2>1 DEF Partial, Content, Layer
<1> HIDE DEF c
<1>4. /\ ContentMatchesDigest' /\ Origin'
      /\ spinJson' \in File /\ wasm' \in [Digest -> File] /\ data' \in [Digest -> File]
      /\ \A n \in DOMAIN layers :
             /\ WholeWasm(n) => \/ WholeWasm(n)'
                                \/ is_wasm_content(l) /\ layers[n].digest = l.digest
             /\ WholeData(n) => \/ WholeData(n)'
                                \/ IsData(l) /\ layers[n].digest = l.digest
      /\ l.media # "config" => \A k : AppUpTo(k)' = AppUpTo(k)
    BY <1>1, <1>2, <1>3, PutKeeps
<1>5. TypeOK' /\ StoreKeys'
    BY <1>1, <1>4 DEF TypeOK, StoreKeys
<1>6. Passed'
    BY <1>1 DEF Passed, WasmLayers
<1>7. Writing'
    <2>1. 1..(current - 1) \subseteq DOMAIN layers
        BY <1>2, LayersType
    <2>2. (\A n \in 1..(current - 1) : WholeWasm(n) /\ WholeData(n)) /\ AppUpTo(current - 1)
        BY <1>1 DEF Writing
    <2>3. \A n \in 1..(current - 1) :
             /\ ~(is_wasm_content(l) /\ layers[n].digest = l.digest) => WholeWasm(n)'
             /\ ~(IsData(l) /\ layers[n].digest = l.digest) => WholeData(n)'
        BY <1>4, <2>1, <2>2
    <2>4. l.media # "config" => \A k : k = current - 1 => AppUpTo(k)'
        BY <1>4, <2>2
    <2> QED BY <1>1, <1>2, <2>3, <2>4 DEF Writing, is_wasm_content, IsData
<1>8. Written' /\ Gated'
    BY <1>1 DEF Written, Gated, Loading
<1> QED BY <1>4, <1>5, <1>6, <1>7, <1>8

LEMMA EndWriteIInv == ASSUME IInv, EndWrite \/ EndWriteWkg PROVE IInv'
<1> USE DEF IInv
<1>1. /\ pc = "writing" /\ current <= Len(layers)
      /\ Put(layers[current], layers[current].content)
      /\ UNCHANGED <<image, binary, store, engine, layers, aot, faults>>
      /\ source' \in {source, "OciWkg"}
    BY DEF EndWrite, EndWriteWkg, AtLayer, Node
<1>2. current \in DOMAIN layers
    BY <1>1 DEF Writing
<1>3. /\ ContentMatchesDigest' /\ Origin'
      /\ spinJson' \in File /\ wasm' \in [Digest -> File] /\ data' \in [Digest -> File]
      /\ \A n \in 1..current : WholeWasm(n)' /\ WholeData(n)'
      /\ \A k : k = current => AppUpTo(k)'
    BY <1>1, <1>2, PutWhole
<1>4. StoreKeys'
    BY <1>1 DEF StoreKeys
<1>5. ASSUME pc' # "idle", pc' # "fetch"
      PROVE  Passed'
    BY <1>1 DEF Passed, WasmLayers
<1>6. CASE EndWrite
    <2>1. pc' = "write" /\ current' = current + 1 /\ source' = source
        BY <1>6 DEF EndWrite
    <2>2. TypeOK'
        BY <1>1, <1>3, <2>1 DEF TypeOK
    <2>3. Writing'
        <3>1. current' - 1 = current /\ current' \in 1..(Len(layers) + 1)
            BY <1>2, <2>1, LayersType
        <3> QED BY <1>1, <1>3, <2>1, <3>1 DEF Writing
    <2>4. Written' /\ Gated'
        BY <2>1 DEF Written, Gated, Loading
    <2> QED BY <1>3, <1>4, <1>5, <2>1, <2>2, <2>3, <2>4
<1>7. CASE EndWriteWkg /\ pc' = "idle"
    <2>1. current' = current
        BY <1>7 DEF EndWriteWkg
    <2>2. TypeOK'
        BY <1>1, <1>3, <1>7, <2>1 DEF TypeOK
    <2>3. Passed'
        BY <1>1, <1>7 DEF Passed
    <2>4. (Writing /\ Written /\ Gated)'
        BY <1>7 DEF Writing, Written, Gated, Loading
    <2> QED BY <1>3, <1>4, <2>2, <2>3, <2>4
<1>8. CASE EndWriteWkg /\ pc' # "idle"
    <2>1. /\ pc' = "lock" /\ current' = current /\ source' = "OciWkg" /\ Len(layers) = 1
          /\ is_wasm_content(layers[current])
        BY <1>8 DEF EndWriteWkg, AtLayer, is_wasm_content
    <2>2. TypeOK'
        BY <1>1, <1>3, <2>1 DEF TypeOK
    <2>3. Written'
        <3>1. DOMAIN layers = 1..current
            BY <1>2, <2>1, LayersType
        <3> QED BY <1>1, <1>2, <1>3, <2>1, <3>1 DEF Written, WasmLayers, is_wasm_content
    <2>4. Writing' /\ Gated'
        BY <2>1 DEF Writing, Gated, Loading
    <2> QED BY <1>3, <1>4, <1>5, <2>1, <2>2, <2>3, <2>4
<1> QED BY <1>6, <1>7, <1>8

LEMMA NextIInv == IInv /\ [Next]_vars => IInv'
<1> SUFFICES ASSUME IInv, [Next]_vars PROVE IInv'
    OBVIOUS
<1>1. CASE Start \/ Fault \/ Upgrade \/ Evict
    BY <1>1, NodeIInv
<1>2. CASE Fetch \/ Compile
    BY <1>2, FetchIInv, CompileIInv
<1>3. CASE BeginWrite \/ EndWrite \/ EndWriteWkg \/ SkipUnknown \/ EndFromCtx
    BY <1>3, BeginWriteIInv, EndWriteIInv, SkipIInv, EndFromCtxIInv
<1>4. CASE ToLockedApp \/ EnableAot \/ Load
    BY <1>4, LockIInv
<1>5. CASE UNCHANGED vars
    <2>1. UNCHANGED Disk /\ UNCHANGED <<binary, store, pc, aot, faults>>
        BY <1>5 DEF vars, Disk
    <2>2. (TypeOK /\ StoreKeys /\ ContentMatchesDigest /\ Origin)'
        BY <2>1 DEF IInv, TypeOK, StoreKeys, ContentMatchesDigest, Origin, Disk
    <2>3. Passed'
        BY <2>1 DEF IInv, Passed, WasmLayers, Disk
    <2>4. (Writing /\ Written /\ Gated)'
        BY <2>1, Frame DEF IInv, Writing, Written, Gated, Loading, Disk
    <2> QED BY <2>2, <2>3, <2>4 DEF IInv
<1> QED BY <1>1, <1>2, <1>3, <1>4, <1>5 DEF Next, Container

LEMMA AlwaysIInv == Spec => []IInv
<1>1. Init => IInv
    BY InitIInv
<1>2. IInv /\ [Next]_vars => IInv'
    BY NextIInv
<1> QED BY <1>1, <1>2, PTL DEF Spec

----------------------------------------------------------------------------
\* Every variable of the model keeps its type (compile, from_ctx, to_locked_app).
THEOREM TypeCorrect == Spec => []TypeOK
<1>1. IInv => TypeOK
    BY DEF IInv
<1> QED BY <1>1, AlwaysIInv, PTL

\* from_ctx writes under a digest what was made from the layer with that digest,
\* in every start, whatever compile and the runtime's cache did to the layers.
THEOREM FilesMatchDigests == Spec => []ContentMatchesDigest
<1>1. IInv => ContentMatchesDigest
    BY DEF IInv
<1> QED BY <1>1, AlwaysIInv, PTL

\* A component to load is in a file that holds one of the layers.
LEMMA NeededIsWhole ==
    ASSUME IInv, Loading, NEW d \in Needed.wasm
    PROVE  \E n \in WasmLayers :
               layers[n].digest = d /\ wasm[d] = layers[n].content
<1> USE DEF IInv
<1>1. pc \in {"build", "loaded"} /\ source \in {"File", "OciSpin", "OciWkg"}
    BY DEF Loading, Written
<1>2. CASE source = "File"
    BY <1>2 DEF Needed
<1>3. CASE source = "OciWkg"
    <2>1. d = layers[current].digest /\ current \in WasmLayers
        BY <1>1, <1>3 DEF Needed, Written
    <2> QED BY <1>1, <2>1 DEF Written, WholeWasm, WasmLayers
<1>4. CASE source = "OciSpin"
    <2>1. spinJson # None /\ wasm[d] # None /\ d \in Wants[spinJson.of].wasm
        BY <1>1, <1>4 DEF Gated, Needed
    <2>2. d \in Digest
        <3>1. spinJson.of \in Digest
            BY <2>1 DEF TypeOK, File, Content
        <3> QED BY <2>1, <3>1, ProvisionAssumption
    <2>3. PICK n \in DOMAIN image.layers :
              is_wasm_content(image.layers[n]) /\ image.layers[n].digest = d
        BY <2>1, <2>2 DEF Origin
    <2>4. n \in WasmLayers /\ layers[n].digest = d
        BY <1>1, <2>3 DEF Passed, WasmLayers, is_wasm_content
    <2> QED BY <1>1, <2>4 DEF Written, WholeWasm, WasmLayers
<1> QED BY <1>1, <1>2, <1>3, <1>4

LEMMA Forms == \A d, e : Raw(d).form = "raw" /\ Native(d, e).form = e
BY DEF Raw, Native

\* Wasm is passed on as it is in the image or as native code of this engine.
LEMMA WasmForms ==
    ASSUME IInv, Loading, NEW n \in WasmLayers
    PROVE  /\ layers[n].precompiled => layers[n].content.form = engine
           /\ ~layers[n].precompiled => layers[n].content.form = "raw"
<1>1. n \in DOMAIN layers /\ pc \notin {"idle", "fetch"}
    BY DEF WasmLayers, Loading
<1>2. /\ layers[n].precompiled => layers[n].content = Native(layers[n].digest, engine)
      /\ ~layers[n].precompiled => layers[n].content = Raw(layers[n].digest)
    BY <1>1 DEF IInv, Passed
<1> QED BY <1>2, Forms

\* With the gate open every component is native code of this engine, and none ever
\* is native code of another one.
LEMMA TrustedIsNative ==
    ASSUME IInv
    PROVE  NativeWhenTrusted
<1> SUFFICES ASSUME Loading, NEW d \in Needed.wasm
             PROVE  /\ aot => wasm[d].form = engine
                    /\ wasm[d].form \notin Engine \ {engine}
    BY DEF NativeWhenTrusted
<1>1. PICK n \in WasmLayers : wasm[d] = layers[n].content
    BY NeededIsWhole
<1>2. /\ layers[n].precompiled => wasm[d].form = engine
      /\ ~layers[n].precompiled => wasm[d].form = "raw"
    BY <1>1, WasmForms
<1>3. aot => layers[n].precompiled
    BY DEF IInv, Gated, layers_from_precompile_cache
<1> QED BY <1>2, <1>3, ProvisionAssumption

\* What is loaded is the image, and whole.
LEMMA LoadedIsImage ==
    ASSUME IInv, FilesApart
    PROVE  LoadsTheImage
<1> SUFFICES ASSUME Loading
             PROVE  /\ source = "OciSpin" => \E n \in DOMAIN layers :
                           /\ layers[n].media = "config" /\ spinJson = Raw(layers[n].digest)
                           /\ \A m \in DOMAIN layers : layers[m].media = "config" => m <= n
                    /\ \A d \in Needed.wasm : wasm[d].form # "partial"
                    /\ \A n \in DOMAIN layers : layers[n].media = "data" =>
                           data[layers[n].digest].form = "raw"
    BY DEF LoadsTheImage
<1> USE DEF IInv
<1>1. pc \in {"build", "loaded"}
    BY DEF Loading
<1>2. ASSUME source = "OciSpin"
      PROVE  \E n \in DOMAIN layers :
                 /\ layers[n].media = "config" /\ spinJson = Raw(layers[n].digest)
                 /\ \A m \in DOMAIN layers : layers[m].media = "config" => m <= n
    <2>1. AppUpTo(Len(layers)) /\ spinJson # None
        BY <1>1, <1>2 DEF Written, Gated
    <2>2. \E n \in DOMAIN layers : layers[n].media = "config"
        BY <1>1, <2>1 DEF Origin, Passed
    <2> QED BY <2>1, <2>2, LayersType DEF AppUpTo
<1>3. ASSUME NEW d \in Needed.wasm
      PROVE  wasm[d].form # "partial"
    <2>1. PICK n \in WasmLayers : wasm[d] = layers[n].content
        BY NeededIsWhole
    <2>2. wasm[d].form = engine \/ wasm[d].form = "raw"
        BY <2>1, WasmForms
    <2> QED BY <2>2, ProvisionAssumption DEF TypeOK
<1>4. ASSUME NEW n \in DOMAIN layers, layers[n].media = "data"
      PROVE  data[layers[n].digest].form = "raw"
    <2>1. data[layers[n].digest] = Raw(layers[n].digest)
        BY <1>1, <1>4 DEF Written, WholeData, IsData
    <2> QED BY <2>1, Forms
<1> QED BY <1>2, <1>3, <1>4

\* The AOT gate of run_trigger: with it open every component is native code of
\* this engine, and none ever is native code of another one.
THEOREM TrustsItsOwnCode == Spec => []NativeWhenTrusted
<1>1. IInv => NativeWhenTrusted
    BY TrustedIsNative
<1> QED BY <1>1, AlwaysIInv, PTL

\* What from_ctx and to_locked_app give to the loader is the image, and whole,
\* after any number of starts that were cut short.
THEOREM TheImageIsLoaded == FilesApart => (Spec => []LoadsTheImage)
<1> SUFFICES ASSUME FilesApart PROVE Spec => []LoadsTheImage
    OBVIOUS
<1>1. IInv => LoadsTheImage
    BY LoadedIsImage
<1> QED BY <1>1, AlwaysIInv, PTL
=============================================================================
