----------------------------- MODULE ShimProofs ------------------------------
(* Theorems about Shim, for all images, apps and retain lists, any number   *)
(* of runs on one root file system and any number of faults.  The disk's    *)
(* half rests on ProvisionProofs and the run's half on EngineProofs; what   *)
(* is proved here is that they fit together.                                *)
EXTENDS Shim, SequenceTheorems, WellFoundedInduction, TLAPS

OnDisk == INSTANCE ProvisionProofs WITH Engine <- Hash, Wants <- Wanted, pc <- phase

InRun == INSTANCE EngineProofs WITH
    Apps  <- {AppOf[d] : d \in DOMAIN AppOf},
    image <- Described

\* A package is the last layer that is ever written, and the app is read from it
\* only if it is the one layer there is.
Packages ==
    /\ phase \in {"write", "writing"} =>
           \A n \in 1..(current - 1) : layers[n].media # "wkg"
    /\ phase \in {"lock", "gate", "build"} =>
           /\ source = "File" <=> image.kind = "file"
           /\ source = "OciSpin" => \A n \in DOMAIN layers : layers[n].media # "wkg"
           /\ source = "OciWkg" => /\ Len(layers) = 1 /\ current = 1
                                   /\ layers[1].media = "wkg"

\* The app the operator asked for.
AskedApp == IF retain = NotSet THEN Described ELSE Run!Retained(Described, retain)

\* From resolve on the app is that one.
Resolved == stage \in {"telemetry", "build", "select"} => app = AskedApp

\* What the triggers that are built run was loaded, and none is built before it is
\* decided how to load.
Loaded ==
    /\ phase = "gate" => futures = <<>>
    /\ phase = "build" => \A t \in Run!Built : \A d \in Loads(t) : Disk!Loadable(wasm[d])

IInv ==
    /\ OnDisk!IInv /\ InRun!IInv
    /\ InStep /\ Packages /\ Resolved /\ Loaded
    /\ ServesTheImage

----------------------------------------------------------------------------
(* The assumptions of the two halves hold, and what Shim calls Disk and Run *)
(* is what their proofs are about.                                          *)

LEMMA WantedType ==
    /\ Wanted \in [Digest -> [wasm : SUBSET Digest, data : SUBSET Digest]]
    /\ \A d \in Digest : Wanted[d].wasm = {WasmOf[c] : c \in AppOf[d].components}
<1>1. ASSUME NEW d \in Digest
      PROVE  {WasmOf[c] : c \in AppOf[d].components} \subseteq Digest
    <2>1. AppOf[d] \in Run!App
        BY ShimAssumption
    <2> QED BY <2>1, ShimAssumption DEF Run!App
<1>2. \A d \in Digest : DataOf[d] \subseteq Digest
    BY ShimAssumption
<1> QED BY <1>1, <1>2 DEF Wanted

LEMMA DiskAssumption ==
    /\ Images \subseteq OnDisk!Image
    /\ \A i \in Images : i.kind = "file" => i.layers = <<>>
    /\ None \notin OnDisk!Content
    /\ Hash \cap {"raw", "partial"} = {}
    /\ Wanted \in [Digest -> [wasm : SUBSET Digest, data : SUBSET Digest]]
    /\ Packed \in [Digest -> SUBSET Digest]
    /\ Broken \subseteq Digest
    /\ MaxFaults \in Nat
<1>1. Images \subseteq OnDisk!Image /\ None \notin OnDisk!Content
    BY ShimAssumption DEF OnDisk!Image, Disk!Image, OnDisk!Media, Disk!Media,
       OnDisk!Content, Disk!Content
<1> QED BY <1>1, ShimAssumption, WantedType

LEMMA RunAssumption ==
    /\ {AppOf[d] : d \in DOMAIN AppOf} \subseteq InRun!App
    /\ Supported \subseteq Type
    /\ Retains \ {NotSet} \subseteq SUBSET Name
BY ShimAssumption DEF InRun!App, Run!App

LEMMA DiskInit == OnDisk!Init => OnDisk!IInv
BY OnDisk!InitIInv, DiskAssumption

LEMMA DiskNext == OnDisk!IInv /\ [OnDisk!Next]_(OnDisk!vars) => OnDisk!IInv'
BY OnDisk!NextIInv, DiskAssumption

LEMMA RunInit == InRun!Init => InRun!IInv
BY InRun!InitIInv, RunAssumption

LEMMA RunNext == InRun!IInv /\ [InRun!Next]_(InRun!vars) => InRun!IInv'
BY InRun!NextIInv, RunAssumption

LEMMA SameDisk ==
    /\ Disk!TypeOK <=> OnDisk!TypeOK
    /\ Disk!Needed = OnDisk!Needed
    /\ Disk!Init <=> OnDisk!Init
    /\ \A l, c : Disk!Put(l, c) <=> OnDisk!Put(l, c)
    /\ \A c : Disk!Loadable(c) <=> OnDisk!Loadable(c)
<1>1. Disk!TypeOK <=> OnDisk!TypeOK
    BY DEF Disk!TypeOK, OnDisk!TypeOK, Disk!Layer, OnDisk!Layer, Disk!File, OnDisk!File,
       Disk!Content, OnDisk!Content, Disk!Media, OnDisk!Media
<1>2. Disk!Needed = OnDisk!Needed
    BY DEF Disk!Needed, OnDisk!Needed
<1>3. Disk!Init <=> OnDisk!Init
    BY DEF Disk!Init, OnDisk!Init, Disk!Artifacts, OnDisk!Artifacts,
       Disk!cache_key, OnDisk!cache_key, Disk!is_wasm_content, OnDisk!is_wasm_content
<1>4. \A l, c : Disk!Put(l, c) <=> OnDisk!Put(l, c)
    BY DEF Disk!Put, OnDisk!Put, Disk!is_wasm_content, OnDisk!is_wasm_content
<1>5. \A c : Disk!Loadable(c) <=> OnDisk!Loadable(c)
    BY DEF Disk!Loadable, OnDisk!Loadable
<1> QED BY <1>1, <1>2, <1>3, <1>4, <1>5

LEMMA SameNodeSteps ==
    /\ Disk!Start <=> OnDisk!Start
    /\ Disk!Fault <=> OnDisk!Fault
    /\ Disk!Upgrade <=> OnDisk!Upgrade
    /\ Disk!Evict <=> OnDisk!Evict
    /\ Disk!Fetch <=> OnDisk!Fetch
    /\ Disk!Compile <=> OnDisk!Compile
<1> USE DEF Disk!Node, OnDisk!Node, Disk!Rootfs, OnDisk!Rootfs, Disk!Run, OnDisk!Run,
            Disk!cache_key, OnDisk!cache_key, Disk!is_wasm_content, OnDisk!is_wasm_content,
            Disk!Native, OnDisk!Native, Disk!Raw, OnDisk!Raw
<1>1. /\ Disk!Start <=> OnDisk!Start
      /\ Disk!Fault <=> OnDisk!Fault
      /\ Disk!Upgrade <=> OnDisk!Upgrade
      /\ Disk!Evict <=> OnDisk!Evict
    BY DEF Disk!Start, OnDisk!Start, Disk!Fault, OnDisk!Fault,
       Disk!Upgrade, OnDisk!Upgrade, Disk!Evict, OnDisk!Evict
<1>2. Disk!Fetch <=> OnDisk!Fetch
    BY DEF Disk!Fetch, OnDisk!Fetch, Disk!Fetched, OnDisk!Fetched
<1>3. Disk!Compile <=> OnDisk!Compile
    BY DEF Disk!Compile, OnDisk!Compile, Disk!ToCompile, OnDisk!ToCompile,
       Disk!compile, OnDisk!compile
<1> QED BY <1>1, <1>2, <1>3

LEMMA SameContainerSteps ==
    /\ Disk!BeginWrite <=> OnDisk!BeginWrite
    /\ Disk!EndWrite <=> OnDisk!EndWrite
    /\ Disk!EndWriteWkg <=> OnDisk!EndWriteWkg
    /\ Disk!SkipUnknown <=> OnDisk!SkipUnknown
    /\ Disk!EndFromCtx <=> OnDisk!EndFromCtx
    /\ Disk!ToLockedApp <=> OnDisk!ToLockedApp
    /\ Disk!EnableAot <=> OnDisk!EnableAot
<1> USE DEF Disk!Node, OnDisk!Node, Disk!Rootfs, OnDisk!Rootfs, Disk!Run, OnDisk!Run,
            Disk!AtLayer, OnDisk!AtLayer, Disk!Media, OnDisk!Media
<1>1. Disk!BeginWrite <=> OnDisk!BeginWrite
    BY SameDisk DEF Disk!BeginWrite, OnDisk!BeginWrite, Disk!Partial, OnDisk!Partial
<1>2. /\ Disk!EndWrite <=> OnDisk!EndWrite
      /\ Disk!EndWriteWkg <=> OnDisk!EndWriteWkg
    BY SameDisk DEF Disk!EndWrite, OnDisk!EndWrite, Disk!EndWriteWkg, OnDisk!EndWriteWkg
<1>3. /\ Disk!SkipUnknown <=> OnDisk!SkipUnknown
      /\ Disk!EndFromCtx <=> OnDisk!EndFromCtx
    BY DEF Disk!SkipUnknown, OnDisk!SkipUnknown, Disk!EndFromCtx, OnDisk!EndFromCtx
<1>4. Disk!ToLockedApp <=> OnDisk!ToLockedApp
    BY SameDisk DEF Disk!ToLockedApp, OnDisk!ToLockedApp
<1>5. Disk!EnableAot <=> OnDisk!EnableAot
    BY DEF Disk!EnableAot, OnDisk!EnableAot, Disk!layers_from_precompile_cache,
       OnDisk!layers_from_precompile_cache, Disk!WasmLayers, OnDisk!WasmLayers,
       Disk!is_wasm_content, OnDisk!is_wasm_content
<1> QED BY <1>1, <1>2, <1>3, <1>4, <1>5

LEMMA SameRun ==
    /\ Run!TypeOK <=> InRun!TypeOK
    /\ Run!Init <=> InRun!Init
    /\ [Run!Next]_(Run!vars) <=> [InRun!Next]_(InRun!vars)
    /\ Run!Built = InRun!Built
<1> USE DEF Run!Image, InRun!Image, Run!Triggers, InRun!Triggers, Run!vars, InRun!vars,
            Run!Return, InRun!Return, Run!Goto, InRun!Goto, Run!InPoll, InRun!InPoll
<1>1. Run!TypeOK <=> InRun!TypeOK
    BY DEF Run!TypeOK, InRun!TypeOK, Run!App, InRun!App, Run!Stages, InRun!Stages
<1>2. Run!Init <=> InRun!Init
    BY DEF Run!Init, InRun!Init
<1>3. Run!Built = InRun!Built
    BY DEF Run!Built, InRun!Built
<1>4. /\ Run!Setup <=> InRun!Setup
      /\ Run!Signal <=> InRun!Signal
      /\ Run!Poll <=> InRun!Poll
      /\ Run!Exited <=> InRun!Exited
      /\ \A t, v : Run!TriggerEnds(t, v) <=> InRun!TriggerEnds(t, v)
    BY DEF Run!Setup, InRun!Setup, Run!Signal, InRun!Signal, Run!Poll, InRun!Poll,
       Run!Polled, InRun!Polled, Run!EnterPoll, InRun!EnterPoll, Run!Exited, InRun!Exited,
       Run!TriggerEnds, InRun!TriggerEnds
<1>5. /\ Run!Suspend <=> InRun!Suspend
      /\ Run!InitializeCache <=> InRun!InitializeCache
      /\ Run!FromCtx <=> InRun!FromCtx
      /\ Run!ToLockedApp <=> InRun!ToLockedApp
      /\ Run!InitTelemetry <=> InRun!InitTelemetry
    BY DEF Run!Suspend, InRun!Suspend, Run!Pending, InRun!Pending,
       Run!InitializeCache, InRun!InitializeCache, Run!FromCtx, InRun!FromCtx,
       Run!ToLockedApp, InRun!ToLockedApp, Run!InitTelemetry, InRun!InitTelemetry
<1>6. Run!Resolve <=> InRun!Resolve
    BY DEF Run!Resolve, InRun!Resolve, Run!Accepted, InRun!Accepted, Run!Accept, InRun!Accept,
       Run!Kept, InRun!Kept, Run!MayRetain, InRun!MayRetain, Run!ChainingHolds,
       InRun!ChainingHolds, Run!KeptTriggers, InRun!KeptTriggers, Run!Retained,
       InRun!Retained, Run!TypesOf, InRun!TypesOf
<1>7. /\ \A t : Run!Build(t) <=> InRun!Build(t)
      /\ Run!StartSelect <=> InRun!StartSelect
      /\ Run!StartTrigger <=> InRun!StartTrigger
      /\ Run!PassTrigger <=> InRun!PassTrigger
      /\ Run!SelectFirst <=> InRun!SelectFirst
      /\ Run!EndPass <=> InRun!EndPass
    BY DEF Run!Build, InRun!Build, Run!StartSelect, InRun!StartSelect, Run!StartTrigger,
       InRun!StartTrigger, Run!PassTrigger, InRun!PassTrigger, Run!SelectFirst,
       InRun!SelectFirst, Run!EndPass, InRun!EndPass, Run!Pending, InRun!Pending
<1>8. UNCHANGED Run!vars <=> UNCHANGED InRun!vars
    OBVIOUS
<1>9. Run!Next <=> InRun!Next
    BY <1>4, <1>5, <1>6, <1>7 DEF Run!Next, InRun!Next, Run!Step, InRun!Step
<1> QED BY <1>1, <1>2, <1>3, <1>8, <1>9

----------------------------------------------------------------------------
(* What to_locked_app reads is what the image describes.                    *)

LEMMA DescribedStays == ASSUME UNCHANGED image PROVE Described' = Described
BY DEF Described

LEMMA ImageFacts ==
    ASSUME OnDisk!IInv
    PROVE  /\ image \in Images /\ image.kind \in {"oci", "file"}
           /\ DOMAIN image.layers = 1..Len(image.layers) /\ Len(image.layers) \in Nat
           /\ \A n \in DOMAIN image.layers :
                  /\ image.layers[n].media \in OnDisk!Media
                  /\ image.layers[n].digest \in Digest
           /\ DOMAIN layers = 1..Len(layers) /\ Len(layers) \in Nat
           /\ \A n \in DOMAIN layers : layers[n] \in OnDisk!Layer
<1>1. OnDisk!TypeOK
    BY DEF OnDisk!IInv
<1>2. image \in Images
    BY <1>1 DEF OnDisk!TypeOK
<1>3. /\ Len(image.layers) \in Nat /\ DOMAIN image.layers = 1..Len(image.layers)
      /\ image.kind \in {"oci", "file"}
      /\ \A n \in DOMAIN image.layers :
             image.layers[n] \in [media : OnDisk!Media, digest : Digest]
    BY <1>1, OnDisk!ImageType, DiskAssumption
<1>4. /\ Len(layers) \in Nat /\ DOMAIN layers = 1..Len(layers)
      /\ \A n \in DOMAIN layers : layers[n] \in OnDisk!Layer
    BY OnDisk!LayersType, DiskAssumption
<1> QED BY <1>2, <1>3, <1>4

Smaller == {p \in Nat \X Nat : p[1] < p[2]}

\* A set of positions that is not empty has a first one, and so a last one.
LEMMA Smallest ==
    ASSUME NEW S \in SUBSET Nat, S # {}
    PROVE  \E n \in S : \A m \in S : n <= m
<1>1. IsWellFoundedOn(Smaller, Nat)
    BY NatLessThanWellFounded DEF Smaller, OpToRel
<1>2. PICK n \in S : \A m \in S : ~(<<m, n>> \in Smaller)
    BY <1>1, WFMin
<1>3. ASSUME NEW m \in S
      PROVE  n <= m
    <2>1. <<m, n>> \in Nat \X Nat /\ <<m, n>> \notin Smaller
        BY <1>2
    <2>2. ~(m < n)
        BY <2>1 DEF Smaller
    <2> QED BY <2>2
<1> QED BY <1>3

LEMMA Largest ==
    ASSUME NEW k \in Nat, NEW S \in SUBSET (1..k), S # {}
    PROVE  \E n \in S : \A m \in S : m <= n
<1> DEFINE T == {k - n : n \in S}
<1>1. T \subseteq Nat /\ T # {}
    <2>1. \A n \in S : n \in 1..k /\ k - n \in Nat
        OBVIOUS
    <2> QED BY <2>1
<1>2. PICK d \in T : \A e \in T : d <= e
    <2> HIDE DEF T
    <2> QED BY <1>1, Smallest
<1>3. PICK n \in S : d = k - n
    BY <1>2
<1>4. ASSUME NEW m \in S
      PROVE  m <= n
    <2>1. d <= k - m
        BY <1>2
    <2> QED BY <1>3, <2>1
<1> QED BY <1>4

LEMMA DescribedType ==
    ASSUME OnDisk!IInv
    PROVE  Described \in {AppOf[d] : d \in DOMAIN AppOf} /\ Described \in Run!App
<1> DEFINE files == {n \in DOMAIN image.layers : image.layers[n].media \in {"config", "wkg"}}
           last == CHOOSE n \in files : \A m \in files : m <= n
<1>1. CASE image.kind = "file" \/ files = {}
    <2>1. Described = AppOf[None]
        BY <1>1 DEF Described
    <2> QED BY <2>1, ShimAssumption
<1>2. CASE ~(image.kind = "file" \/ files = {})
    <2>1. Described = AppOf[image.layers[last].digest]
        BY <1>2 DEF Described
    <2>2. files \subseteq 1..Len(image.layers) /\ Len(image.layers) \in Nat
        BY ImageFacts
    <2>3. \E n \in files : \A m \in files : m <= n
        BY <1>2, <2>2, Largest
    <2>4. last \in files
        BY <2>3
    <2>5. image.layers[last].digest \in Digest
        BY <2>4, ImageFacts
    <2> QED BY <2>1, <2>5, ShimAssumption
<1> QED BY <1>1, <1>2

\* The app in /spin.json, or in the package, is the image's.
LEMMA ReadsTheImage ==
    ASSUME IInv, phase \in {"lock", "gate", "build"}, source = "OciSpin" => spinJson # None
    PROVE  AppRead = Described
<1> DEFINE files == {n \in DOMAIN image.layers : image.layers[n].media \in {"config", "wkg"}}
<1>1. /\ OnDisk!Passed /\ OnDisk!Written /\ OnDisk!Origin /\ Packages /\ OnDisk!IInv
    BY DEF IInv, OnDisk!IInv
<1>2. /\ DOMAIN layers = DOMAIN image.layers
      /\ \A n \in DOMAIN layers : /\ layers[n].media = image.layers[n].media
                                 /\ layers[n].digest = image.layers[n].digest
    BY <1>1 DEF OnDisk!Passed
<1>3. \A n \in files : /\ image.kind # "file" /\ (\A m \in files : m <= n)
                        => Described = AppOf[image.layers[n].digest]
    <2> SUFFICES ASSUME NEW n \in files, image.kind # "file", \A m \in files : m <= n
                 PROVE  Described = AppOf[image.layers[n].digest]
        OBVIOUS
    <2> DEFINE last == CHOOSE k \in files : \A m \in files : m <= k
    <2>1. last \in files /\ last >= n
        OBVIOUS
    <2>2. files \subseteq Nat
        BY <1>1, ImageFacts
    <2>3. last = n
        <3> HIDE DEF last, files
        <3> QED BY <2>1, <2>2
    <2>4. Described = AppOf[image.layers[last].digest]
        BY DEF Described
    <2> HIDE DEF last
    <2> QED BY <2>3, <2>4
<1>4. source \in {"File", "OciSpin", "OciWkg"}
    BY <1>1 DEF OnDisk!Written
<1>5. CASE source = "File"
    <2>1. image.kind = "file"
        BY <1>1, <1>5 DEF Packages
    <2> QED BY <1>5, <2>1 DEF AppRead, Described
<1>6. CASE source = "OciWkg"
    <2>1. /\ Len(layers) = 1 /\ current = 1 /\ layers[1].media = "wkg"
          /\ image.kind # "file" /\ DOMAIN layers = 1..1
        BY <1>1, <1>6, ImageFacts DEF Packages
    <2>2. files = {1}
        BY <1>2, <2>1
    <2>3. Described = AppOf[image.layers[1].digest]
        <3> HIDE DEF files
        <3> QED BY <1>3, <2>1, <2>2
    <2> QED BY <1>2, <1>6, <2>1, <2>3 DEF AppRead
<1>7. CASE source = "OciSpin"
    <2>1. OnDisk!AppUpTo(Len(layers)) /\ DOMAIN layers = 1..Len(layers)
        BY <1>1, <1>7, ImageFacts DEF OnDisk!Written
    <2>2. \E n \in DOMAIN image.layers : image.layers[n].media = "config"
        BY <1>1, <1>7 DEF OnDisk!Origin
    <2>3. PICK n \in DOMAIN layers :
              /\ layers[n].media = "config" /\ spinJson = OnDisk!Raw(layers[n].digest)
              /\ \A m \in DOMAIN layers : layers[m].media = "config" => m <= n
        BY <1>2, <2>1, <2>2 DEF OnDisk!AppUpTo
    <2>4. image.kind # "file" /\ \A m \in DOMAIN layers : layers[m].media # "wkg"
        BY <1>1, <1>7 DEF Packages
    <2>5. n \in files /\ \A m \in files : m <= n
        BY <1>2, <2>3, <2>4
    <2>6. Described = AppOf[layers[n].digest]
        <3> HIDE DEF files
        <3> QED BY <1>2, <1>3, <2>3, <2>4, <2>5
    <2>7. spinJson.of = layers[n].digest
        BY <2>3 DEF OnDisk!Raw
    <2> QED BY <1>7, <2>6, <2>7 DEF AppRead
<1> QED BY <1>4, <1>5, <1>6, <1>7

\* What the triggers run is among the files the app refers to.
LEMMA TriggersNeed ==
    ASSUME IInv, phase = "build", stage \in {"telemetry", "build", "select"}, source # "File",
           NEW t \in app.triggers
    PROVE  WasmOf[t.component] \in OnDisk!Needed.wasm /\ WasmOf[t.component] \in Digest
<1>1. /\ OnDisk!IInv /\ OnDisk!TypeOK /\ OnDisk!Passed /\ OnDisk!Written /\ OnDisk!Gated
      /\ InRun!TypeOK
    BY DEF IInv, OnDisk!IInv, InRun!IInv
<1>2. source = "OciSpin" => spinJson # None
    BY <1>1 DEF OnDisk!Gated
<1>3. AppRead = Described
    BY <1>2, ReadsTheImage
<1>4. t \in Described.triggers
    <2>1. Described \in Run!App /\ app = AskedApp
        BY <1>1, DescribedType DEF IInv, Resolved
    <2>2. Run!Retained(Described, retain).triggers = Run!KeptTriggers(Described, retain)
        BY <2>1 DEF Run!Retained, Run!App
    <2>3. app.triggers = Described.triggers \/ app.triggers = Run!KeptTriggers(Described, retain)
        BY <2>1, <2>2 DEF AskedApp
    <2> QED BY <2>3 DEF Run!KeptTriggers
<1>5. PICK f \in DOMAIN AppOf : Described = AppOf[f]
    BY <1>1, DescribedType
<1>6. t.component \in Described.components /\ Described \in Run!App
    BY <1>4, <1>5, ShimAssumption
<1>7. t.component \in Name /\ WasmOf[t.component] \in Digest
    BY <1>6, ShimAssumption DEF Run!App
<1>8. CASE source = "OciSpin"
    <2>1. spinJson.of \in Digest /\ Described = AppOf[spinJson.of]
        BY <1>1, <1>2, <1>3, <1>8 DEF AppRead, OnDisk!TypeOK, OnDisk!File, OnDisk!Content
    <2>2. OnDisk!Needed.wasm = {WasmOf[x] : x \in Described.components}
        BY <1>8, <2>1, WantedType DEF OnDisk!Needed
    <2> QED BY <1>6, <1>7, <2>2
<1>9. CASE source = "OciWkg"
    <2>1. /\ layers[1].media = "wkg" /\ current = 1 /\ Len(layers) = 1
          /\ Described = AppOf[layers[1].digest]
        BY <1>3, <1>9 DEF IInv, Packages, AppRead
    <2>2. /\ 1 \in DOMAIN image.layers /\ image \in Images
          /\ image.layers[1].media = "wkg" /\ image.layers[1].digest = layers[1].digest
        BY <1>1, <2>1, ImageFacts DEF OnDisk!Passed
    <2>3. WasmOf[t.component] = layers[1].digest
        BY <1>6, <2>1, <2>2, ShimAssumption
    <2>4. OnDisk!Needed.wasm = {layers[1].digest}
        BY <1>9, <2>1 DEF OnDisk!Needed
    <2> QED BY <1>7, <2>3, <2>4
<1> QED BY <1>1, <1>8, <1>9 DEF OnDisk!Written

\* A file that the loader took holds all of its layer, as native code exactly when
\* AOT loading is on.
LEMMA LoadedIsWhole ==
    ASSUME IInv, phase = "build", NEW d \in OnDisk!Needed.wasm, Disk!Loadable(wasm[d])
    PROVE  wasm[d] = [of |-> d, form |-> IF aot THEN engine ELSE "raw"]
<1>1. /\ OnDisk!IInv /\ OnDisk!Loading /\ engine \in Hash
    BY DEF IInv, OnDisk!IInv, OnDisk!TypeOK, OnDisk!Loading
<1>2. PICK n \in OnDisk!WasmLayers :
          layers[n].digest = d /\ wasm[d] = layers[n].content
    BY <1>1, OnDisk!NeededIsWhole, DiskAssumption
<1>3. /\ n \in DOMAIN layers /\ phase \notin {"idle", "fetch"}
      /\ layers[n].precompiled => layers[n].content = OnDisk!Native(d, engine)
      /\ ~layers[n].precompiled => layers[n].content = OnDisk!Raw(d)
    BY <1>1, <1>2 DEF OnDisk!WasmLayers, OnDisk!IInv, OnDisk!Passed
<1>4. aot => layers[n].precompiled
    BY <1>1, <1>2 DEF OnDisk!IInv, OnDisk!Gated, OnDisk!layers_from_precompile_cache
<1>5. CASE layers[n].precompiled
    <2>1. wasm[d] = [of |-> d, form |-> engine]
        BY <1>2, <1>3, <1>5 DEF OnDisk!Native
    <2>2. engine # "raw"
        BY <1>1, ShimAssumption
    <2>3. aot
        BY <2>1, <2>2 DEF Disk!Loadable
    <2> QED BY <2>1, <2>3
<1>6. CASE ~layers[n].precompiled
    BY <1>2, <1>3, <1>4, <1>6 DEF OnDisk!Raw
<1> QED BY <1>5, <1>6

----------------------------------------------------------------------------
(* Every step is a step of Engine, the beginning of the next run, or not    *)
(* one of the run at all.                                                   *)

RunStep == Run!Next \/ Run!Init' \/ UNCHANGED Run!vars

LEMMA ImageStays == ASSUME [Next]_vars PROVE UNCHANGED image /\ Described' = Described
<1>1. UNCHANGED image
    BY DEF Next, vars, DiskVars, Node, Start, Prepare, Change, Kill, Signal, TriggerEnds, Count,
       Setup, Poll, Suspend, Advance, InitializeCache, WriteLayer, FromCtx, ToLockedApp,
       Resolve, InitTelemetry, EnableAot, BuildTrigger, Select,
       Disk!Node, Disk!Start, Disk!Fetch, Disk!Compile, Disk!Upgrade, Disk!Evict, Disk!Fault,
       Disk!BeginWrite, Disk!EndWrite, Disk!EndWriteWkg, Disk!SkipUnknown, Disk!EndFromCtx,
       Disk!ToLockedApp, Disk!EnableAot
<1> QED BY <1>1, DescribedStays

LEMMA StartInRun == ASSUME IInv, Start, UNCHANGED image PROVE Run!Init'
<1>1. OnDisk!IInv /\ InRun!TypeOK
    BY DEF IInv, InRun!IInv
<1>2. Described' \in {AppOf[d] : d \in DOMAIN AppOf} /\ retain' \in Retains /\ nameless' \in BOOLEAN
    BY <1>1, DescribedType, DescribedStays DEF Start, InRun!TypeOK
<1> QED BY <1>2 DEF Start, Run!Init

LEMMA LockInRun == ASSUME IInv, ToLockedApp, UNCHANGED image PROVE Run!ToLockedApp
<1>1. CASE Run!Return("error")
    BY <1>1 DEF ToLockedApp, Run!ToLockedApp
<1>2. CASE /\ Disk!ToLockedApp /\ phase' = "gate" /\ app' = AppRead /\ Run!Goto("resolve")
           /\ UNCHANGED <<toBuild, futures, next, live, verdict>>
    <2>1. phase = "lock" /\ (source = "OciSpin" => spinJson # None)
        BY <1>2 DEF Disk!ToLockedApp
    <2>2. app' = Described
        BY <1>2, <2>1, ReadsTheImage
    <2> QED BY <1>2, <2>2 DEF ToLockedApp, Run!ToLockedApp, Run!Triggers
<1> QED BY <1>1, <1>2 DEF ToLockedApp

\* A type whose file cannot be loaded is one the shim supports: the run ends as it
\* does when anything else goes wrong in the loop.
LEMMA BuildInRun ==
    ASSUME IInv, NEW t \in Type, BuildTrigger(t)
    PROVE  Run!Build(t)
<1>1. CASE Run!Build(t)
    BY <1>1
<1>2. CASE Run!InPoll("build") /\ t \in toBuild /\ Run!Return("error")
    <2>1. t \in Supported
        BY <1>2 DEF Run!InPoll, IInv, InRun!IInv, InRun!Progress
    <2> QED BY <1>2, <2>1 DEF Run!Build
<1> QED BY <1>1, <1>2 DEF BuildTrigger

LEMMA EveryStepInRun == ASSUME IInv, [Next]_vars PROVE RunStep
<1>1. UNCHANGED image /\ Described' = Described
    BY ImageStays
<1>2. UNCHANGED RunVars => UNCHANGED Run!vars
    BY <1>1 DEF RunVars, Run!vars
<1>3. CASE Start
    BY <1>1, <1>3, StartInRun DEF RunStep
<1>4. CASE Prepare \/ Change \/ Kill \/ WriteLayer \/ EnableAot \/ UNCHANGED vars
    BY <1>2, <1>4 DEF Prepare, Change, Kill, WriteLayer, EnableAot, vars, RunStep
<1>5. CASE Signal \/ TriggerEnds \/ Setup \/ Poll \/ Suspend
    BY <1>5 DEF Signal, TriggerEnds, Setup, Poll, Suspend, Run!Next, Run!Step, RunStep
<1>6. CASE InitializeCache \/ FromCtx \/ Resolve \/ InitTelemetry \/ Select
    BY <1>6 DEF InitializeCache, FromCtx, Resolve, InitTelemetry, Select, Run!Next, Run!Step,
       RunStep
<1>7. CASE ToLockedApp
    BY <1>1, <1>7, LockInRun DEF Run!Next, Run!Step, RunStep
<1>8. CASE \E t \in Type : BuildTrigger(t)
    BY <1>8, BuildInRun DEF Run!Next, Run!Step, RunStep
<1> QED BY <1>3, <1>4, <1>5, <1>6, <1>7, <1>8 DEF Next, Advance

LEMMA RunInitNext == Run!Init' => InRun!IInv'
<1>1. Run!Init => InRun!IInv
    BY RunInit, SameRun
<1> QED BY <1>1, PTL

LEMMA RunPart == ASSUME IInv, RunStep PROVE InRun!IInv'
<1>1. CASE Run!Init'
    BY <1>1, RunInitNext
<1>2. CASE [Run!Next]_(Run!vars)
    BY <1>2, SameRun, RunNext DEF IInv
<1> QED BY <1>1, <1>2 DEF RunStep

----------------------------------------------------------------------------
(* On the disk every step is one of Provision, one that only counts a       *)
(* fault, or the end of a run.                                              *)

LEMMA ProvisionStep ==
    ASSUME IInv,
           \/ Disk!Start \/ Disk!Fault \/ Disk!Upgrade \/ Disk!Evict \/ Disk!Fetch \/ Disk!Compile
           \/ Disk!BeginWrite \/ Disk!EndWrite \/ Disk!EndWriteWkg \/ Disk!SkipUnknown
           \/ Disk!EndFromCtx \/ Disk!ToLockedApp \/ Disk!EnableAot
           \/ UNCHANGED DiskVars
    PROVE  OnDisk!IInv'
<1>1. UNCHANGED DiskVars => UNCHANGED OnDisk!vars
    BY DEF DiskVars, Node, Layers, Rootfs, OnDisk!vars
<1>2. [OnDisk!Next]_(OnDisk!vars)
    BY <1>1, SameNodeSteps, SameContainerSteps DEF OnDisk!Next, OnDisk!Container
<1> QED BY <1>2, DiskNext DEF IInv

LEMMA CountStep == ASSUME IInv, Count PROVE OnDisk!IInv'
<1> USE DEF OnDisk!IInv, IInv
<1>1. /\ UNCHANGED OnDisk!Disk /\ UNCHANGED <<binary, store, phase, aot>>
      /\ faults < MaxFaults /\ faults' = faults + 1
    BY DEF Count, Node, Layers, Rootfs, OnDisk!Disk
<1>2. OnDisk!TypeOK'
    BY <1>1, ShimAssumption DEF OnDisk!TypeOK, OnDisk!Disk
<1>3. (OnDisk!StoreKeys /\ OnDisk!ContentMatchesDigest /\ OnDisk!Origin)'
    BY <1>1 DEF OnDisk!StoreKeys, OnDisk!ContentMatchesDigest, OnDisk!Origin, OnDisk!Disk
<1>4. OnDisk!Passed'
    BY <1>1 DEF OnDisk!Passed, OnDisk!WasmLayers, OnDisk!Disk
<1>5. (OnDisk!Writing /\ OnDisk!Written /\ OnDisk!Gated)'
    BY <1>1, OnDisk!Frame, DiskAssumption
       DEF OnDisk!Writing, OnDisk!Written, OnDisk!Gated, OnDisk!Loading, OnDisk!Disk
<1> QED BY <1>2, <1>3, <1>4, <1>5

LEMMA LeaveStep == ASSUME IInv, Leave, UNCHANGED image PROVE OnDisk!IInv'
<1> USE DEF OnDisk!IInv, IInv
<1>1. phase' = "idle" /\ UNCHANGED <<image, binary, store, engine, layers, current, source, aot, faults>>
    BY DEF Leave, Node, Layers
<1>2. /\ OnDisk!ContentMatchesDigest' /\ OnDisk!Origin'
      /\ spinJson' \in OnDisk!File /\ wasm' \in [Digest -> OnDisk!File]
      /\ data' \in [Digest -> OnDisk!File]
    <2>1. CASE UNCHANGED Rootfs
        BY <1>1, <2>1 DEF Rootfs, OnDisk!ContentMatchesDigest, OnDisk!Origin, OnDisk!TypeOK
    <2>2. CASE phase = "writing" /\ Disk!Put(layers[current], layers[current].content)
        <3>1. current \in DOMAIN layers /\ OnDisk!Put(layers[current], layers[current].content)
            BY <2>2, SameDisk DEF OnDisk!Writing
        <3> QED BY <1>1, <2>2, <3>1, OnDisk!PutWhole, DiskAssumption
    <2> QED BY <2>1, <2>2 DEF Leave
<1>3. OnDisk!TypeOK'
    BY <1>1, <1>2 DEF OnDisk!TypeOK
<1>4. OnDisk!StoreKeys'
    BY <1>1 DEF OnDisk!StoreKeys
<1>5. (OnDisk!Passed /\ OnDisk!Writing /\ OnDisk!Written /\ OnDisk!Gated)'
    BY <1>1 DEF OnDisk!Passed, OnDisk!Writing, OnDisk!Written, OnDisk!Gated, OnDisk!Loading
<1> QED BY <1>2, <1>3, <1>4, <1>5

LEMMA EveryStepOnDisk == ASSUME IInv, [Next]_vars PROVE OnDisk!IInv'
<1>1. UNCHANGED image
    BY ImageStays
<1>2. CASE Start \/ Prepare \/ Change \/ Kill
    BY <1>2, ProvisionStep DEF Start, Prepare, Change, Kill
<1>3. CASE Signal \/ TriggerEnds
    BY <1>3, CountStep DEF Signal, TriggerEnds
<1>4. CASE Setup \/ Poll \/ Suspend \/ InitializeCache \/ Resolve \/ InitTelemetry \/ Select
           \/ \E t \in Type : BuildTrigger(t)
    BY <1>1, <1>4, ProvisionStep, LeaveStep
       DEF Setup, Poll, Suspend, InitializeCache, Resolve, InitTelemetry, Select, BuildTrigger,
           Follow, FollowOrFail
<1>5. CASE WriteLayer \/ FromCtx \/ ToLockedApp \/ EnableAot
    BY <1>5, ProvisionStep DEF WriteLayer, FromCtx, ToLockedApp, EnableAot
<1>6. CASE UNCHANGED vars
    BY <1>6, ProvisionStep DEF vars
<1> QED BY <1>2, <1>3, <1>4, <1>5, <1>6 DEF Next, Advance

----------------------------------------------------------------------------
(* The two halves stay in step.                                             *)

Joint == InStep /\ Packages /\ Resolved /\ Loaded /\ ServesTheImage

LEMMA RunFacts ==
    ASSUME IInv
    PROVE  /\ live # {} => stage = "select" /\ result = "none"
           /\ stage \in {"setup", "cache", "source", "load", "resolve"} => futures = <<>>
           /\ stage = "resolve" => app = Described
           /\ stage \in Run!Stages /\ futures \in Seq(Type) /\ live \subseteq Type
BY DEF IInv, InRun!IInv, InRun!Serving, InRun!Progress, InRun!TypeOK, Run!Stages, InRun!Stages

LEMMA AskedAppStays ==
    ASSUME Described' = Described, UNCHANGED retain
    PROVE  AskedApp' = AskedApp
BY DEF AskedApp, Run!Retained, Run!KeptTriggers

LEMMA SameLoads ==
    ASSUME UNCHANGED <<source, app, engine, aot>>
    PROVE  \A t : Loads(t)' = Loads(t) /\ \A c : Disk!Loadable(c)' = Disk!Loadable(c)
BY DEF Loads, Disk!Loadable

\* run_wasi returns and the process ends.
LEMMA ReturnJoint ==
    ASSUME IInv, [Next]_vars, NEW r, Run!Return(r), phase' = "idle"
    PROVE  Joint'
<1>1. live' = {} /\ UNCHANGED <<stage, app, retain>>
    BY DEF Run!Return, Run!Image
<1>2. AskedApp' = AskedApp
    BY <1>1, ImageStays, AskedAppStays
<1>3. Resolved'
    BY <1>1, <1>2 DEF IInv, Resolved
<1> QED BY <1>1, <1>3 DEF Joint, InStep, Packages, Loaded, ServesTheImage

\* The run goes on, or nothing of it changes, with the files, the app and what is
\* built as they are.
LEMMA QuietJoint ==
    ASSUME IInv, [Next]_vars, result' = "none" \/ result' = result,
           UNCHANGED <<engine, Layers, Rootfs, app, retain, futures, live>>,
           \/ phase' = phase /\ stage' = stage
           \/ phase' = phase /\ phase = "write" /\ stage' \in {"cache", "source"}
           \/ phase' = phase /\ stage = "telemetry" /\ stage' = "build"
           \/ phase' = phase /\ phase = "build" /\ stage = "build" /\ stage' = "select"
           \/ phase' = "idle" /\ stage' = stage
    PROVE  Joint'
<1> USE DEF IInv, Layers, Rootfs
<1>1. Described' = Described /\ AskedApp' = AskedApp /\ UNCHANGED image
    BY ImageStays, AskedAppStays
<1>2. InStep'
    BY DEF InStep
<1>3. Packages'
    BY <1>1 DEF Packages
<1>4. Resolved'
    BY <1>1 DEF Resolved
<1>5. Loaded'
    BY SameLoads DEF Loaded, Run!Built
<1>6. ServesTheImage'
    BY <1>1 DEF ServesTheImage, AskedApp, Run!Retained, Run!KeptTriggers
<1> QED BY <1>2, <1>3, <1>4, <1>5, <1>6 DEF Joint

LEMMA NodeJoint ==
    ASSUME IInv, [Next]_vars, Start \/ Prepare \/ Change \/ Kill PROVE Joint'
<1>1. CASE Start
    <2>1. phase' = "fetch" /\ stage' = "setup" /\ result' = "none" /\ live' = {}
        BY <1>1 DEF Start, Disk!Start
    <2> QED BY <2>1 DEF Joint, InStep, Packages, Resolved, Loaded, ServesTheImage
<1>2. CASE Prepare
    <2>1. /\ phase \in {"fetch", "compile"} /\ phase' \in {"compile", "write", "idle"}
          /\ current' = current /\ UNCHANGED RunVars
        BY <1>2 DEF Prepare, Disk!Fetch, Disk!Compile
    <2>2. stage = "setup" /\ result = "none"
        BY <2>1, RunFacts DEF IInv, InStep, Run!Stages
    <2>3. live = {}
        BY <2>2, RunFacts
    <2>4. current = 1
        BY <2>1 DEF IInv, OnDisk!IInv, OnDisk!Writing
    <2>5. 1..(current' - 1) = {}
        BY <2>1, <2>4
    <2> QED BY <2>1, <2>2, <2>3, <2>5
            DEF RunVars, Joint, InStep, Packages, Resolved, Loaded, ServesTheImage
<1>3. CASE Change
    BY <1>3, QuietJoint DEF Change, RunVars, Disk!Upgrade, Disk!Evict, Disk!Run, Layers, Rootfs, Disk!Rootfs
<1>4. CASE Kill
    BY <1>4, QuietJoint DEF Kill, RunVars, Disk!Fault, Disk!Run, Layers, Rootfs, Disk!Rootfs
<1> QED BY <1>1, <1>2, <1>3, <1>4

LEMMA CountJoint == ASSUME IInv, [Next]_vars, Signal \/ TriggerEnds PROVE Joint'
BY QuietJoint DEF Signal, TriggerEnds, Count, Run!Signal, Run!TriggerEnds, Run!Image, Run!Triggers

LEMMA WriteJoint == ASSUME IInv, [Next]_vars, WriteLayer PROVE Joint'
<1> USE DEF IInv
<1>1. /\ stage = "source" /\ result = "none" /\ UNCHANGED RunVars
      /\ UNCHANGED <<layers, source>>
      /\ phase \in {"write", "writing"} /\ phase' \in {"write", "writing"}
      /\ \/ current' = current
         \/ current' = current + 1 /\ layers[current].media # "wkg"
    BY DEF WriteLayer, Run!InPoll, Disk!BeginWrite, Disk!EndWrite, Disk!SkipUnknown,
       Disk!AtLayer, Disk!Run
<1>2. live = {}
    BY <1>1, RunFacts
<1>3. current \in Nat /\ current >= 1
    BY <1>1, ImageFacts DEF OnDisk!IInv, OnDisk!Writing, OnDisk!TypeOK
<1>4. Packages'
    <2>1. \A n \in 1..(current - 1) : layers[n].media # "wkg"
        BY <1>1 DEF Packages
    <2>2. current' = current + 1 => 1..(current' - 1) = 1..(current - 1) \cup {current}
        BY <1>3
    <2> QED BY <1>1, <2>1, <2>2 DEF Packages
<1> QED BY <1>1, <1>2, <1>4 DEF RunVars, Joint, InStep, Resolved, Loaded, ServesTheImage

LEMMA FromCtxJoint == ASSUME IInv, [Next]_vars, FromCtx PROVE Joint'
<1> USE DEF IInv
<1>1. CASE Disk!Fault /\ Run!FromCtx /\ result' # "none"
    BY <1>1, ReturnJoint DEF Disk!Fault, Run!FromCtx, Run!InPoll, Run!Goto
<1>2. CASE Disk!EndFromCtx \/ Disk!EndWriteWkg
    <2>1. Run!FromCtx /\ (phase' = "idle" <=> result' # "none")
        BY <1>2 DEF FromCtx, Disk!Fault, Disk!EndFromCtx, Disk!EndWriteWkg, Disk!AtLayer
    <2>2. CASE Run!Return("error")
        BY <2>1, <2>2, ReturnJoint DEF Run!Return
    <2>3. CASE Run!Goto("load") /\ UNCHANGED <<app, toBuild, futures, next, live, verdict>>
        <3>1. /\ stage = "source" /\ stage' = "load" /\ result' = "none"
              /\ phase' = "lock" /\ UNCHANGED layers
            BY <1>2, <2>1, <2>3 DEF Run!FromCtx, Run!InPoll, Run!Goto,
               Disk!EndFromCtx, Disk!EndWriteWkg
        <3>2. live' = {}
            BY <2>3, <3>1, RunFacts
        <3>3. Packages'
            <4>1. CASE Disk!EndFromCtx
                <5>1. /\ phase = "write" /\ (image.kind = "oci" => current > Len(layers))
                      /\ source' = IF image.kind = "oci" THEN "OciSpin" ELSE "File"
                    BY <4>1 DEF Disk!EndFromCtx
                <5>2. /\ current \in 1..(Len(layers) + 1) /\ Len(layers) \in Nat
                      /\ DOMAIN layers = 1..Len(layers) /\ image.kind \in {"oci", "file"}
                    BY <5>1, ImageFacts DEF OnDisk!IInv, OnDisk!Writing
                <5>3. image.kind = "oci" => DOMAIN layers = 1..(current - 1)
                    BY <5>1, <5>2
                <5> QED BY <3>1, <5>1, <5>2, <5>3, ImageStays DEF Packages
            <4>2. CASE Disk!EndWriteWkg
                <5>1. /\ phase = "writing" /\ image.kind = "oci" /\ layers[current].media = "wkg"
                      /\ Len(layers) = 1 /\ source' = "OciWkg" /\ current' = current
                    BY <3>1, <4>2 DEF Disk!EndWriteWkg, Disk!AtLayer
                <5>2. current = 1
                    BY <5>1, ImageFacts DEF OnDisk!IInv, OnDisk!Writing
                <5> QED BY <3>1, <5>1, <5>2, ImageStays DEF Packages
            <4> QED BY <1>2, <4>1, <4>2
        <3> QED BY <3>1, <3>2, <3>3 DEF Joint, InStep, Resolved, Loaded, ServesTheImage
    <2> QED BY <2>1, <2>2, <2>3 DEF Run!FromCtx, Run!Triggers
<1> QED BY <1>1, <1>2 DEF FromCtx

LEMMA LockJoint == ASSUME IInv, [Next]_vars, ToLockedApp PROVE Joint'
<1> USE DEF IInv
<1>1. CASE Run!Return("error")
    BY <1>1, ReturnJoint DEF ToLockedApp, Disk!Fault, Run!Return, Run!Goto, Run!InPoll
<1>2. CASE ~Run!Return("error")
    <2>1. /\ phase' = "gate" /\ phase = "lock" /\ UNCHANGED Layers
          /\ stage = "load" /\ stage' = "resolve" /\ result' = "none"
          /\ UNCHANGED <<futures, live>>
        BY <1>2 DEF ToLockedApp, Disk!ToLockedApp, Disk!Run, Layers, Run!InPoll, Run!Goto
    <2>2. live' = {} /\ futures' = <<>>
        BY <2>1, RunFacts
    <2>3. Packages'
        BY <2>1, ImageStays DEF Packages, Layers
    <2> QED BY <2>1, <2>2, <2>3 DEF Joint, InStep, Resolved, Loaded, ServesTheImage
<1> QED BY <1>1, <1>2

LEMMA ResolveJoint == ASSUME IInv, [Next]_vars, Resolve PROVE Joint'
<1> USE DEF IInv
<1>1. CASE Run!Return("error")
    <2>1. result' # "none"
        BY <1>1 DEF Run!Return
    <2> QED BY <1>1, <2>1, ReturnJoint DEF Resolve, Follow, Leave
<1>2. CASE Run!Accept(Run!Kept, Run!TypesOf(Run!Kept))
    <2>1. /\ stage = "resolve" /\ stage' = "telemetry" /\ result = "none" /\ result' = "none"
          /\ app' = Run!Kept /\ UNCHANGED <<retain, futures, live>>
        BY <1>2 DEF Resolve, Run!Resolve, Run!InPoll, Run!Accept, Run!Goto, Run!Image
    <2>2. UNCHANGED DiskVars
        BY <2>1 DEF Resolve, Follow
    <2>3. live' = {} /\ futures' = <<>> /\ app = Described
        BY <2>1, RunFacts
    <2>4. phase = "gate"
        BY <2>1 DEF Resolve, Up, InStep
    <2>5. app' = AskedApp'
        <3>1. AskedApp' = AskedApp
            BY <2>1, ImageStays, AskedAppStays
        <3> QED BY <2>1, <2>3, <3>1 DEF AskedApp, Run!Kept
    <2>6. Packages'
        BY <2>2, ImageStays DEF Packages, DiskVars, Layers
    <2> QED BY <2>1, <2>2, <2>3, <2>4, <2>5, <2>6
            DEF DiskVars, Joint, InStep, Resolved, Loaded, ServesTheImage
<1> QED BY <1>1, <1>2 DEF Resolve, Run!Resolve

LEMMA GateJoint == ASSUME IInv, [Next]_vars, EnableAot PROVE Joint'
<1> USE DEF IInv
<1>1. /\ phase = "gate" /\ phase' = "build" /\ stage = "build" /\ result = "none"
      /\ UNCHANGED <<layers, current, source>> /\ UNCHANGED RunVars
    BY DEF EnableAot, Disk!EnableAot, Run!InPoll
<1>2. live' = {} /\ futures' = <<>>
    BY <1>1, RunFacts DEF RunVars, Loaded
<1>3. Run!Built' = {}
    BY <1>2 DEF Run!Built
<1>4. Packages'
    BY <1>1, ImageStays DEF Packages
<1>5. Resolved'
    BY <1>1, ImageStays, AskedAppStays DEF Resolved, RunVars
<1> QED BY <1>1, <1>2, <1>3, <1>4, <1>5 DEF RunVars, Joint, InStep, Loaded, ServesTheImage

\* A run that is not over leaves the disk alone in these.
LEMMA StageJoint ==
    ASSUME IInv, [Next]_vars, Setup \/ Poll \/ Suspend \/ InitializeCache \/ InitTelemetry
    PROVE  Joint'
<1> USE DEF IInv, Up
<1>1. CASE \E r \in {"zero", "error", "panic"} : Run!Return(r)
    <2>1. result' # "none"
        BY <1>1 DEF Run!Return
    <2>2. phase' = "idle"
        BY <2>1 DEF Setup, Poll, Suspend, InitializeCache, InitTelemetry, Follow, FollowOrFail,
           Leave, Disk!Fault
    <2> QED BY <1>1, <2>2, ReturnJoint
<1>2. CASE ~\E r \in {"zero", "error", "panic"} : Run!Return(r)
    <2>1. /\ result = "none" /\ result' = "none" /\ UNCHANGED <<retain, app, futures, live>>
          /\ \/ stage' = stage
             \/ stage \in {"setup", "cache"} /\ stage' \in {"cache", "source"}
             \/ stage = "telemetry" /\ stage' = "build"
        BY <1>2 DEF Setup, Poll, Suspend, InitializeCache, InitTelemetry, Run!Setup, Run!Poll,
           Run!Polled, Run!EnterPoll, Run!Suspend, Run!Pending, Run!InitializeCache,
           Run!InitTelemetry, Run!InPoll, Run!Goto, Run!Image, Run!Triggers
    <2>2. UNCHANGED DiskVars
        BY <2>1 DEF Setup, Poll, Suspend, InitializeCache, InitTelemetry, Follow, FollowOrFail
    <2>3. stage \in {"setup", "cache"} /\ stage' # stage => phase = "write"
        BY <1>2 DEF Setup, Poll, Suspend, InitializeCache, InitTelemetry, Run!Poll,
           Run!EnterPoll, Run!Suspend, Run!Pending, Run!InitTelemetry, Run!InPoll, InStep
    <2> QED BY <2>1, <2>2, <2>3, QuietJoint DEF DiskVars
<1> QED BY <1>1, <1>2

LEMMA BuildJoint ==
    ASSUME IInv, [Next]_vars, NEW t \in Type, BuildTrigger(t) PROVE Joint'
<1> USE DEF IInv
<1>1. CASE \E r \in {"error", "panic"} : Run!Return(r)
    <2>1. result' # "none"
        BY <1>1 DEF Run!Return
    <2>2. phase' = "idle"
        BY <2>1 DEF BuildTrigger, FollowOrFail, Leave, Disk!Fault
    <2> QED BY <1>1, <2>2, ReturnJoint
<1>2. CASE ~\E r \in {"error", "panic"} : Run!Return(r)
    <2>1. /\ \A d \in Loads(t) : Disk!Loadable(wasm[d])
          /\ Run!Build(t) /\ FollowOrFail /\ phase = "build"
        BY <1>2 DEF BuildTrigger
    <2>2. /\ stage = "build" /\ stage' = "build" /\ result = "none" /\ result' = "none"
          /\ futures' = Append(futures, t) /\ UNCHANGED <<retain, app, live>>
        BY <1>2, <2>1 DEF Run!Build, Run!InPoll, Run!Image
    <2>3. UNCHANGED DiskVars
        BY <2>1, <2>2 DEF FollowOrFail
    <2>4. live' = {}
        BY <2>2, RunFacts
    <2>5. Run!Built' = Run!Built \cup {t}
        BY <2>2, RunFacts, InRun!BuiltAppend, RunAssumption, SameRun DEF Run!Built
    <2>6. Loaded'
        <3>1. \A u : Loads(u)' = Loads(u) /\ \A c : Disk!Loadable(c)' = Disk!Loadable(c)
            BY <2>2, <2>3, SameLoads DEF DiskVars, Layers
        <3> QED BY <2>1, <2>3, <2>5, <3>1 DEF Loaded, DiskVars, Rootfs
    <2>7. Packages'
        BY <2>3, ImageStays DEF Packages, DiskVars, Layers
    <2>8. Resolved'
        BY <2>2, ImageStays, AskedAppStays DEF Resolved
    <2> QED BY <2>1, <2>2, <2>3, <2>4, <2>6, <2>7, <2>8 DEF DiskVars, Joint, InStep, ServesTheImage
<1> QED BY <1>1, <1>2

\* In select_all every component of the app was loaded, whole.
LEMMA SelectServes ==
    ASSUME IInv, phase = "build", stage = "select"
    PROVE  \A t \in app.triggers :
               source # "File" => wasm[WasmOf[t.component]] =
                   [of |-> WasmOf[t.component], form |-> IF aot THEN engine ELSE "raw"]
<1> SUFFICES ASSUME NEW t \in app.triggers, source # "File"
             PROVE  wasm[WasmOf[t.component]] =
                        [of |-> WasmOf[t.component], form |-> IF aot THEN engine ELSE "raw"]
    OBVIOUS
<1>1. InRun!Built = {x.type : x \in InRun!Asked}
    BY DEF IInv, InRun!IInv, InRun!Progress, InRun!Serving
<1>2. app.triggers = InRun!Asked
    <2>1. Described \in InRun!App
        BY DescribedType DEF IInv, Run!App, InRun!App
    <2>2. Run!Retained(Described, retain) = InRun!Retained(Described, retain)
        BY DEF Run!Retained, InRun!Retained, Run!KeptTriggers, InRun!KeptTriggers
    <2>3. app = AskedApp
        BY DEF IInv, Resolved
    <2> QED BY <2>1, <2>2, <2>3, InRun!KeptIsAsked, RunAssumption DEF AskedApp
<1>3. t.type \in Run!Built
    BY <1>1, <1>2, SameRun
<1>4. WasmOf[t.component] \in Loads(t.type)
    BY DEF Loads
<1>5. Disk!Loadable(wasm[WasmOf[t.component]])
    BY <1>3, <1>4 DEF IInv, Loaded
<1>6. WasmOf[t.component] \in OnDisk!Needed.wasm
    BY TriggersNeed
<1> QED BY <1>5, <1>6, LoadedIsWhole

LEMMA SelectJoint == ASSUME IInv, [Next]_vars, Select PROVE Joint'
<1> USE DEF IInv
<1>1. CASE \E r \in {"zero", "error", "panic"} : Run!Return(r)
    <2>1. result' # "none"
        BY <1>1 DEF Run!Return
    <2>2. phase' = "idle"
        BY <2>1 DEF Select, Follow, Leave
    <2> QED BY <1>1, <2>2, ReturnJoint
<1>2. CASE ~\E r \in {"zero", "error", "panic"} : Run!Return(r)
    <2>1. /\ result' = "none" /\ result = "none" /\ phase = "build"
          /\ UNCHANGED <<retain, app, futures>>
          /\ \/ stage = "build" /\ stage' = "select" /\ live' = live
             \/ stage = "select" /\ stage' = "select"
        BY <1>2 DEF Select, Run!StartSelect, Run!StartTrigger, Run!PassTrigger, Run!SelectFirst,
           Run!EndPass, Run!Pending, Run!InPoll, Run!Goto, Run!Image, Run!Triggers
    <2>2. UNCHANGED DiskVars
        BY <2>1 DEF Select, Follow
    <2>3. CASE live' = live
        BY <2>1, <2>2, <2>3, QuietJoint DEF DiskVars
    <2>4. CASE live' # live
        <3>1. stage = "select" /\ stage' = "select"
            BY <2>1, <2>4
        <3>2. ServesTheImage'
            <4>1. \A t \in app.triggers :
                     source # "File" => wasm[WasmOf[t.component]] =
                         [of |-> WasmOf[t.component], form |-> IF aot THEN engine ELSE "raw"]
                BY <2>1, <3>1, SelectServes
            <4>2. app' = AskedApp'
                BY <2>1, <3>1, ImageStays, AskedAppStays DEF Resolved
            <4> QED BY <2>1, <2>2, <4>1, <4>2
                    DEF ServesTheImage, AskedApp, DiskVars, Layers, Rootfs
        <3>3. Loaded'
            BY <2>1, <2>2, SameLoads DEF Loaded, Run!Built, DiskVars, Layers, Rootfs
        <3>4. Resolved'
            BY <2>1, <3>1, ImageStays, AskedAppStays DEF Resolved
        <3>5. Packages'
            BY <2>2, ImageStays DEF Packages, DiskVars, Layers
        <3> QED BY <2>1, <2>2, <3>1, <3>2, <3>3, <3>4, <3>5 DEF DiskVars, Joint, InStep
    <2> QED BY <2>3, <2>4
<1> QED BY <1>1, <1>2

LEMMA NextIInv == IInv /\ [Next]_vars => IInv'
<1> SUFFICES ASSUME IInv, [Next]_vars PROVE IInv'
    OBVIOUS
<1>1. OnDisk!IInv' /\ InRun!IInv'
    BY EveryStepOnDisk, EveryStepInRun, RunPart
<1> SUFFICES Joint'
    BY <1>1 DEF IInv, Joint
<1>2. CASE Start \/ Prepare \/ Change \/ Kill
    BY <1>2, NodeJoint
<1>3. CASE Signal \/ TriggerEnds
    BY <1>3, CountJoint
<1>4. CASE Setup \/ Poll \/ Suspend \/ InitializeCache \/ InitTelemetry
    BY <1>4, StageJoint
<1>5. CASE WriteLayer \/ FromCtx \/ ToLockedApp \/ Resolve \/ EnableAot
    BY <1>5, WriteJoint, FromCtxJoint, LockJoint, ResolveJoint, GateJoint
<1>6. CASE (\E t \in Type : BuildTrigger(t)) \/ Select
    BY <1>6, BuildJoint, SelectJoint
<1>7. CASE UNCHANGED vars
    BY <1>7, QuietJoint DEF vars, DiskVars, RunVars
<1> QED BY <1>2, <1>3, <1>4, <1>5, <1>6, <1>7 DEF Next, Advance

LEMMA InitIInv == Init => IInv
<1> SUFFICES ASSUME Init PROVE IInv
    OBVIOUS
<1>1. OnDisk!IInv /\ InRun!IInv
    BY DiskInit, RunInit, SameDisk, SameRun DEF Init
<1>2. phase = "idle" /\ stage = "setup" /\ live = {}
    BY DEF Init, Disk!Init, Run!Init
<1> QED BY <1>1, <1>2 DEF IInv, InStep, Packages, Resolved, Loaded, ServesTheImage

LEMMA AlwaysIInv == Spec => []IInv
<1>1. Init => IInv
    BY InitIInv
<1>2. IInv /\ [Next]_vars => IInv'
    BY NextIInv
<1> QED BY <1>1, <1>2, PTL DEF Spec

----------------------------------------------------------------------------
\* The stages of run_wasi and what is on the disk stay in step, and every variable
\* keeps its type.
THEOREM TypeCorrect == Spec => []TypeOK
<1>1. IInv => TypeOK
    BY SameDisk, SameRun DEF IInv, OnDisk!IInv, InRun!IInv, TypeOK
<1> QED BY <1>1, AlwaysIInv, PTL

\* Whatever was interrupted before, what serves is the image: the retained part of
\* its app, every component whole and loaded as this shim may load it.
THEOREM TheImageIsServed == Spec => []ServesTheImage
<1>1. IInv => ServesTheImage
    BY DEF IInv
<1> QED BY <1>1, AlwaysIInv, PTL

\* Every run on the disk is a run of Engine with the app the image describes, so
\* that what is proved of Engine holds for each run of a container.
THEOREM EveryRunIsAnEngineRun == Spec => RunsAreEngineRuns
<1>1. Init => Run!Init
    BY DEF Init
<1>2. IInv /\ [Next]_vars => [Run!Next \/ Run!Init']_(Run!vars)
    BY EveryStepInRun DEF RunStep
<1> QED BY <1>1, <1>2, AlwaysIInv, PTL DEF Spec, RunsAreEngineRuns

\* What was proved of one run of run_wasi holds of every run of the container: it
\* serves all triggers that were asked for or none, chains stay inside what was
\* retained, and it panics only on an entry without a name, before it does anything,
\* or on an empty list of triggers.
THEOREM EveryRunServesWhatWasAsked ==
    Spec => [](Run!AllOrNothing /\ Run!ServesAsked /\ Run!NoDanglingChain /\ Run!PanicHasCause)
<1>1. IInv => Run!AllOrNothing /\ Run!ServesAsked /\ Run!NoDanglingChain /\ Run!PanicHasCause
    <2> SUFFICES ASSUME IInv
                 PROVE  Run!AllOrNothing /\ Run!ServesAsked /\ Run!NoDanglingChain /\ Run!PanicHasCause
        OBVIOUS
    <2>1. InRun!AllOrNothing /\ InRun!ServesAsked /\ InRun!NoDanglingChain /\ InRun!PanicHasCause
        BY InRun!WhatServes, RunAssumption DEF IInv
    <2> QED BY <2>1, SameRun DEF Run!AllOrNothing, InRun!AllOrNothing, Run!ServesAsked,
               InRun!ServesAsked, Run!NoDanglingChain, InRun!NoDanglingChain,
               Run!PanicHasCause, InRun!PanicHasCause, Run!Asked, InRun!Asked,
               Run!KeptTriggers, InRun!KeptTriggers
<1> QED BY <1>1, AlwaysIInv, PTL

\* What containerd is promised is kept by every run of a container on a disk that
\* earlier runs, upgrades and evictions have left in any state: triggers open once
\* and before the exit, and an exit status is earned.
THEOREM EveryRunIsATask ==
    Spec => Run!Task!Init /\ [][Run!Task!Next \/ Run!Task!Init']_(Run!Task!vars)
<1>1. Init => Run!Task!Init
    BY DEF Init, Run!Init, Run!Task!Init
<1>2. IInv /\ [Next]_vars => [Run!Task!Next \/ Run!Task!Init']_(Run!Task!vars)
    <2> SUFFICES ASSUME IInv, [Next]_vars
                 PROVE  Run!Task!Next \/ Run!Task!Init' \/ UNCHANGED Run!Task!vars
        OBVIOUS
    <2>1. CASE Run!Init'
        BY <2>1 DEF Run!Init, Run!Task!Init
    <2>2. CASE [Run!Next]_(Run!vars)
        <3>1. [InRun!Task!Next]_(InRun!Task!vars)
            BY <2>2, SameRun, InRun!StepIsTaskStep, RunAssumption DEF IInv
        <3>2. /\ Run!Task!RequestStop <=> InRun!Task!RequestStop
              /\ \A t : Run!Task!Open(t) <=> InRun!Task!Open(t)
              /\ \A t, v : Run!Task!Report(t, v) <=> InRun!Task!Report(t, v)
              /\ Run!Task!Exit <=> InRun!Task!Exit
            BY DEF Run!Task!RequestStop, InRun!Task!RequestStop, Run!Task!Open, InRun!Task!Open,
               Run!Task!Report, InRun!Task!Report, Run!Task!Exit, InRun!Task!Exit,
               Run!Task!Ended, InRun!Task!Ended
        <3> QED BY <3>1, <3>2 DEF Run!Task!Next, InRun!Task!Next, Run!Task!vars, InRun!Task!vars
    <2> QED BY <2>1, <2>2, EveryStepInRun DEF RunStep
<1> QED BY <1>1, <1>2, AlwaysIInv, PTL DEF Spec

\* What was proved of the files holds at every step of a container that runs, with
\* its writes inside polls and its aborts in the middle of them: no bytes under
\* another layer's digest, no native code of another engine, and from the moment
\* triggers are built all files are there and whole, data files included, for images
\* none of whose files is a layer of its own and in an archive as well.
THEOREM FilesStayWhole ==
    Spec => [](/\ Disk!ContentMatchesDigest /\ Disk!NativeWhenTrusted
               /\ OnDisk!FilesApart => Disk!LoadsTheImage)
<1>1. ASSUME IInv
      PROVE  /\ Disk!ContentMatchesDigest /\ Disk!NativeWhenTrusted
             /\ OnDisk!FilesApart => Disk!LoadsTheImage
    <2>1. /\ OnDisk!ContentMatchesDigest /\ OnDisk!NativeWhenTrusted
          /\ OnDisk!FilesApart => OnDisk!LoadsTheImage
        BY <1>1, OnDisk!TrustedIsNative, OnDisk!LoadedIsImage, DiskAssumption
           DEF IInv, OnDisk!IInv
    <2> QED BY <2>1, SameDisk DEF Disk!ContentMatchesDigest, OnDisk!ContentMatchesDigest,
               Disk!NativeWhenTrusted, OnDisk!NativeWhenTrusted, Disk!LoadsTheImage,
               OnDisk!LoadsTheImage, Disk!Loading, OnDisk!Loading, Disk!Raw, OnDisk!Raw
<1> QED BY <1>1, AlwaysIInv, PTL
=============================================================================
