-------------------------------- MODULE Shim ---------------------------------
(* A container over its whole life, run after run on one root file system:  *)
(* the engine's stages (Engine) joined with what they do to the disk and    *)
(* with the container runtime around them (Provision).                      *)
(*                                                                          *)
(* Engine takes it for granted that the app it loads is the one the image   *)
(* describes, and has a run end for good.  Here the app is what /spin.json  *)
(* holds when it is read, layers are written one by one inside the polls of *)
(* the Abortable, and a container that has ended, whether by an error, by a *)
(* signal taken between two layers or by being killed, is started again on  *)
(* what it left.                                                            *)
EXTENDS Naturals, Sequences

CONSTANTS
    Name, Type, Supported, Retains, NotSet,                   \* as in Engine
    Digest, Images, Packed, Broken, None, MaxFaults,          \* as in Provision
    Hash,      \* compatibility hashes, Provision's Engine
    AppOf,     \* the app in a config layer, a package, or (None) in /spin.toml
    WasmOf,    \* the wasm file of a component
    DataOf     \* the data files that the components of an app mount


VARIABLES
    image, binary, store, engine, phase, layers, current, source, aot,
    spinJson, wasm, data, faults,
    stage, polling, aborted, retain, nameless, app, toBuild, futures, next, live,
    verdict, result

Node == <<image, binary, store>>
Rootfs == <<spinJson, wasm, data>>
Layers == <<layers, current, source, aot>>
DiskVars == <<Node, engine, phase, Layers, Rootfs, faults>>
RunVars == <<stage, polling, aborted, retain, nameless, app, toBuild, futures, next,
             live, verdict, result>>

vars == <<DiskVars, RunVars>>

\* The files an app refers to.
Wanted == [d \in Digest |-> [wasm |-> {WasmOf[c] : c \in AppOf[d].components},
                             data |-> DataOf[d]]]

Disk == INSTANCE Provision WITH Engine <- Hash, Wants <- Wanted, pc <- phase

\* The app an image describes: its package, or its last config layer.
Described ==
    LET files == {n \in DOMAIN image.layers : image.layers[n].media \in {"config", "wkg"}}
    IN  IF image.kind = "file" \/ files = {} THEN AppOf[None]
        ELSE AppOf[image.layers[CHOOSE n \in files : \A m \in files : m <= n].digest]

Run == INSTANCE Engine WITH
    Apps  <- {AppOf[d] : d \in DOMAIN AppOf},
    image <- Described

\* What Provision and Engine assume, and how apps and files go together: a trigger
\* of a locked app names one of its components, and a package is the one file of
\* the app made for it.
ASSUME ShimAssumption ==
    /\ WasmOf \in [Name -> Digest]
    /\ DataOf \in [Digest -> SUBSET Digest]
    /\ AppOf \in [Digest \cup {None} -> Run!App]
    /\ Images \subseteq Disk!Image
    /\ \A i \in Images : i.kind = "file" => i.layers = <<>>
    /\ None \notin Disk!Content
    /\ Hash \cap {"raw", "partial"} = {}
    /\ Packed \in [Digest -> SUBSET Digest]
    /\ Broken \subseteq Digest
    /\ MaxFaults \in Nat
    /\ Supported \subseteq Type
    /\ Retains \ {NotSet} \subseteq SUBSET Name
    /\ \A f \in DOMAIN AppOf : \A t \in AppOf[f].triggers : t.component \in AppOf[f].components
    /\ \A i \in Images : \A n \in DOMAIN i.layers :
           i.layers[n].media = "wkg" =>
               \A c \in AppOf[i.layers[n].digest].components : WasmOf[c] = i.layers[n].digest

Init == Disk!Init /\ Run!Init

----------------------------------------------------------------------------
(* The container runtime.                                                   *)

\* A start, and the process of the next run with nothing in its memory.
Start ==
    /\ Disk!Start
    /\ stage' = "setup" /\ polling' = FALSE /\ aborted' = FALSE
    /\ app' = [components |-> {}, triggers |-> {}, chains |-> {}]
    /\ toBuild' = {} /\ futures' = <<>> /\ next' = 1 /\ live' = {}
    /\ verdict' = [t \in Type |-> "pending"]
    /\ result' = "none"
    /\ UNCHANGED <<retain, nameless>>

\* What happens before run_wasi, and next to it on the node.
Prepare == (Disk!Fetch \/ Disk!Compile) /\ UNCHANGED RunVars
Change == (Disk!Upgrade \/ Disk!Evict) /\ UNCHANGED RunVars

\* SIGKILL, no memory, no power: the process is gone where it was.
Kill == Disk!Fault /\ UNCHANGED RunVars

Up == phase \in {"write", "writing", "lock", "gate", "build"}

Count ==
    /\ faults < MaxFaults
    /\ faults' = faults + 1
    /\ UNCHANGED <<Node, engine, phase, Layers, Rootfs>>

Signal == Up /\ Count /\ Run!Signal

TriggerEnds == Up /\ Count /\ \E t \in Type, v \in {"ok", "err"} : Run!TriggerEnds(t, v)

----------------------------------------------------------------------------
(* A step of the engine and the disk.                                       *)

\* Config layers are written with blocking calls, the others by a thread that
\* from_ctx awaits.
Awaited(l) == l.media \in {"wasm", "wkg", "data", "archive"}

\* run_wasi has returned and the process goes.  The thread that was writing for
\* it may get to the end of its file first.
Leave ==
    /\ phase' = "idle"
    /\ \/ UNCHANGED Rootfs
       \/ phase = "writing" /\ Awaited(layers[current])
          /\ Disk!Put(layers[current], layers[current].content)
    /\ UNCHANGED <<Node, engine, Layers, faults>>

\* The run goes on with the disk as it is, or is over.
Follow ==
    \/ result' = "none" /\ UNCHANGED DiskVars
    \/ result' # "none" /\ Leave

\* The step fails for a reason of its own only a bounded number of times.
FollowOrFail ==
    \/ result' = "none" /\ UNCHANGED DiskVars
    \/ result' # "none" /\ Disk!Fault

\* An entry without a name makes every run of the container panic here; set_handler
\* is not bound to fail.
Setup ==
    /\ phase = "write"
    /\ UNCHANGED image
    /\ Run!Setup
    /\ IF nameless THEN Follow ELSE FollowOrFail

Poll == Up /\ UNCHANGED image /\ Run!Poll /\ Follow

\* Where the program is at an await.
AtAwait ==
    \/ stage \in {"cache", "load"}
    \/ stage = "source" /\ image.kind = "oci" /\ current <= Len(layers)
       /\ Awaited(layers[current])
    \/ stage = "build" /\ phase = "build" /\ toBuild # {}

Suspend == Up /\ AtAwait /\ UNCHANGED image /\ Run!Suspend /\ Follow

InitializeCache == Up /\ UNCHANGED image /\ Run!InitializeCache /\ FollowOrFail

\* mutant: a layer whose file cannot be created is left out
WriteLayerOrGoOn ==
    /\ Up /\ Run!InPoll("source")
    /\ \/ Disk!BeginWrite \/ Disk!EndWrite \/ Disk!SkipUnknown
       \/ /\ phase = "write" /\ current < Len(layers)
          /\ current' = current + 1
          /\ UNCHANGED <<Node, engine, phase, layers, source, aot, Rootfs, faults>>
    /\ UNCHANGED RunVars

\* from_ctx at work, inside a poll: a layer is begun, finished or skipped.
WriteLayer ==
    /\ Up /\ Run!InPoll("source")
    /\ Disk!BeginWrite \/ Disk!EndWrite \/ Disk!SkipUnknown
    /\ UNCHANGED RunVars

\* from_ctx returns: after the last layer, after a package, which must be alone,
\* or because a write failed.
FromCtx ==
    /\ Up
    /\ \/ /\ Disk!EndFromCtx \/ Disk!EndWriteWkg
          /\ Run!FromCtx
          /\ phase' = "idle" <=> result' # "none"
       \/ Disk!Fault /\ Run!FromCtx /\ result' # "none"

\* The app in the file that to_locked_app reads.
AppRead ==
    CASE source = "OciSpin" -> AppOf[spinJson.of]
      [] source = "OciWkg"  -> AppOf[layers[current].digest]
      [] OTHER              -> AppOf[None]

ToLockedApp ==
    /\ Up /\ Run!InPoll("load")
    /\ \/ /\ Disk!ToLockedApp
          /\ \/ phase' = "gate" /\ app' = AppRead /\ Run!Goto("resolve")
                /\ UNCHANGED <<toBuild, futures, next, live, verdict>>
             \/ phase' = "idle" /\ Run!Return("error")
       \/ Disk!Fault /\ Run!Return("error")

Resolve == Up /\ UNCHANGED image /\ Run!Resolve /\ Follow

InitTelemetry == Up /\ UNCHANGED image /\ Run!InitTelemetry /\ FollowOrFail

\* run_trigger decides about AOT loading before its loop.
EnableAot == Run!InPoll("build") /\ Disk!EnableAot /\ UNCHANGED RunVars

\* The wasm files a trigger of type t runs; those of /spin.toml are not in the cache.
Loads(t) ==
    IF source = "File" THEN {}
    ELSE {WasmOf[x.component] : x \in {y \in app.triggers : y.type = t}}

\* One turn of run_trigger's loop: what the trigger runs is loaded from the cache,
\* and something else may go wrong.
BuildTrigger(t) ==
    /\ phase = "build"
    /\ UNCHANGED image
    /\ \/ /\ \A d \in Loads(t) : Disk!Loadable(wasm[d])
          /\ Run!Build(t)
          /\ FollowOrFail
       \/ /\ \E d \in Loads(t) : ~Disk!Loadable(wasm[d])
          /\ Run!InPoll("build") /\ t \in toBuild
          /\ Run!Return("error")
          /\ Leave

Select ==
    /\ phase = "build"
    /\ UNCHANGED image
    /\ Run!StartSelect \/ Run!StartTrigger \/ Run!PassTrigger \/ Run!SelectFirst \/ Run!EndPass
    /\ Follow

Advance ==
    \/ InitializeCache \/ WriteLayer \/ FromCtx \/ ToLockedApp \/ Resolve \/ InitTelemetry
    \/ EnableAot
    \/ \E t \in Type : BuildTrigger(t)
    \/ Select

Next ==
    \/ Start \/ Prepare \/ Change \/ Kill \/ Signal \/ TriggerEnds
    \/ Setup \/ Poll \/ Suspend \/ Advance

\* A container that has ended is started again, the executor polls a task that
\* was woken, and what is awaited comes: a step of the program that is possible
\* in poll after poll is taken.
Spec ==
    /\ Init /\ [][Next]_vars
    /\ WF_vars(Start \/ Prepare) /\ WF_vars(Setup) /\ WF_vars(Poll) /\ SF_vars(Advance)

----------------------------------------------------------------------------
(* Properties.                                                              *)

\* The stage a run is at and what is being done to the disk belong together.
InStep ==
    phase # "idle" =>
        /\ result = "none"
        /\ phase \in CASE stage = "setup"  -> {"fetch", "compile", "write"}
                       [] stage = "cache"  -> {"write"}
                       [] stage = "source" -> {"write", "writing"}
                       [] stage = "load"   -> {"lock"}
                       [] stage = "build"  -> {"gate", "build"}
                       [] stage = "select" -> {"build"}
                       [] OTHER            -> {"gate"}

\* The two halves are in step, and their variables have their types.
TypeOK == Disk!TypeOK /\ Run!TypeOK /\ InStep

\* What serves is the image and nothing but the image, after any number of runs
\* that were stopped, killed or failed while they wrote, across upgrades of the
\* shim and evictions: the app is the image's, cut down to the retained components,
\* and each of its components runs whole, from its own file, as native code of this
\* shim's engine exactly when AOT loading is on.
ServesTheImage ==
    live # {} =>
        /\ app = IF retain = NotSet THEN Described ELSE Run!Retained(Described, retain)
        /\ \A t \in app.triggers :
               LET file == WasmOf[t.component]
               IN  source # "File" =>
                       wasm[file] = [of |-> file, form |-> IF aot THEN engine ELSE "raw"]

\* Every run is a run of Engine: what Engine assumes of from_ctx and to_locked_app,
\* that the app they give is the one the image describes, is what they do on the
\* disk of a container that was interrupted before.
RunsAreEngineRuns == Run!Init /\ [][Run!Next \/ Run!Init']_(Run!vars)

\* The image can be served as the operator asked for, in this container.
Servable ==
    /\ ~nameless
    /\ Disk!Complete(image)
    /\ retain # NotSet => Run!MayRetain(Described, retain)
    /\ LET types == {t.type : t \in Run!Asked} IN types # {} /\ types \subseteq Supported

\* Whatever was interrupted, and wherever: once there are no more faults and stops
\* the container is up with every trigger that was asked for, and stays up.
StaysUp == Servable => <>[](live = {t.type : t \in Run!Asked})
=============================================================================
