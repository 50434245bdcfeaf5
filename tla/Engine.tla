------------------------------- MODULE Engine -------------------------------
(* One run of a Spin container: SpinSandbox::run_wasi and what it awaits,   *)
(* wasm_exec_async and run_trigger (containerd-shim-spin/src/engine.rs).    *)
(*                                                                          *)
(* run_wasi wraps the whole program in an Abortable future and lets the     *)
(* signal handler abort it.  The executor polls that future: each poll      *)
(* checks the abort flag, runs until something is pending, and checks the   *)
(* flag again.  Inside the future the stages follow each other: create the  *)
(* cache, write the image's layers, load the locked app, retain the         *)
(* components the operator asked for, build one future per trigger type,    *)
(* and select_all over them.  A signal may arrive between any two steps,    *)
(* and any stage may fail.                                                  *)
EXTENDS Naturals, Sequences

CONSTANTS
    Name,       \* component ids, those an app has and those it does not have
    Type,       \* trigger types an app may name
    Supported,  \* the trigger types this shim runs
    Apps,       \* the locked apps considered
    Retains,    \* the values of SPIN_COMPONENTS_TO_RETAIN considered
    NotSet      \* the variable does not exist

App ==
    [components : SUBSET Name,
     triggers   : SUBSET [type : Type, component : Name],
     chains     : SUBSET (Name \X Name)]

ASSUME EngineAssumption ==
    /\ Apps \subseteq App
    /\ Supported \subseteq Type
    /\ Retains \ {NotSet} \subseteq SUBSET Name

VARIABLES
    stage,     \* how far the async function has come
    polling,   \* the executor is inside a poll of the Abortable
    aborted,   \* abort_handle.abort() was called
    image,     \* the app the image describes
    retain,    \* SPIN_COMPONENTS_TO_RETAIN of the container
    nameless,  \* the container has an environment entry without a name
    app,       \* locked_app
    toBuild,   \* trigger types run_trigger has still to visit
    futures,   \* futures_list, each named by its entry in trigger_type_map
    next,      \* the future the current pass of select_all looks at
    live,      \* the futures that were polled and not dropped
    verdict,   \* what each trigger's future has resolved to
    result     \* what run_wasi returned, "none" while it runs

vars == <<stage, polling, aborted, image, retain, nameless, app, toBuild, futures,
          next, live, verdict, result>>

Stages == {"setup", "cache", "source", "load", "resolve", "telemetry", "build",
           "select"}

Image == <<image, retain, nameless>>
Triggers == <<toBuild, futures, next, live, verdict>>

Built == {futures[i] : i \in DOMAIN futures}

TypesOf(a) == {t.type : t \in a.triggers}

TypeOK ==
    /\ stage \in Stages
    /\ polling \in BOOLEAN
    /\ aborted \in BOOLEAN
    /\ image \in Apps
    /\ retain \in Retains
    /\ nameless \in BOOLEAN
    /\ app \in App
    /\ toBuild \subseteq Type
    /\ futures \in Seq(Type)
    /\ next \in Nat \ {0}
    /\ live \subseteq Type
    /\ verdict \in [Type -> {"pending", "ok", "err"}]
    /\ result \in {"none", "zero", "error", "panic"}

----------------------------------------------------------------------------
(* spin_app::retain_components, as engine.rs uses it: the listed components *)
(* must exist, service chaining may not leave the list, and only the        *)
(* triggers of listed components (and the components they name) are kept.   *)

KeptTriggers(a, names) == {t \in a.triggers : t.component \in names}

Retained(a, names) ==
    [a EXCEPT !.triggers = KeptTriggers(a, names),
              !.components = {t.component : t \in KeptTriggers(a, names)}]

\* validate_service_chaining_for_components: a retained component without a
\* trigger is not looked at.
ChainingHolds(a, names) ==
    \A t \in KeptTriggers(a, names), n \in Name :
        <<t.component, n>> \in a.chains => n \in names

\* mutant: the validator is not passed
MayRetainUnvalidated(a, names) == names \subseteq a.components

\* The call succeeds.
MayRetain(a, names) == names \subseteq a.components /\ ChainingHolds(a, names)

----------------------------------------------------------------------------
Init ==
    /\ stage = "setup"
    /\ polling = FALSE
    /\ aborted = FALSE
    /\ image \in Apps
    /\ retain \in Retains
    /\ nameless \in BOOLEAN
    /\ app = [components |-> {}, triggers |-> {}, chains |-> {}]
    /\ toBuild = {}
    /\ futures = <<>>
    /\ next = 1
    /\ live = {}
    /\ verdict = [t \in Type |-> "pending"]
    /\ result = "none"

\* mutant: the futures that lost the race are kept running
ReturnLeaking(r) ==
    /\ result' = r
    /\ polling' = FALSE
    /\ UNCHANGED <<stage, aborted, Image, app, Triggers>>

\* run_wasi returns r: the future and every trigger future in it are dropped.
Return(r) ==
    /\ result' = r
    /\ polling' = FALSE
    /\ live' = {}
    /\ UNCHANGED <<stage, aborted, Image, app, toBuild, futures, next, verdict>>

Goto(s) ==
    /\ stage' = s
    /\ UNCHANGED <<polling, aborted, Image, result>>

InPoll(s) == result = "none" /\ polling /\ stage = s

\* The environment is exported, where set_var panics on an empty name, and the
\* signal handler installed, or set_handler fails and `?` ends the container before
\* anything ran.
Setup ==
    /\ result = "none"
    /\ stage = "setup"
    /\ \/ ~nameless /\ Goto("cache") /\ UNCHANGED <<app, Triggers>>
       \/ ~nameless /\ Return("error")
       \/ nameless /\ Return("panic")

\* SIGINT, SIGTERM or SIGHUP: the handler aborts.  Before set_handler nothing
\* listens, and a later signal changes nothing.
Signal ==
    /\ result = "none"
    /\ stage # "setup"
    /\ aborted' = TRUE
    /\ UNCHANGED <<stage, polling, Image, app, Triggers, result>>

Polled == result = "none" /\ stage # "setup" /\ ~polling

\* mutant: the list is walked from index zero
EnterPollAtZero ==
    /\ polling' = TRUE
    /\ next' = 0
    /\ UNCHANGED <<stage, aborted, Image, app, toBuild, futures, live, verdict, result>>

EnterPoll ==
    /\ polling' = TRUE
    /\ next' = 1
    /\ UNCHANGED <<stage, aborted, Image, app, toBuild, futures, live, verdict, result>>

\* mutant: an aborted task is not woken
PollUnwoken == Polled /\ ~aborted /\ EnterPoll

\* The executor polls the Abortable: an abort that came in between ends it.
Poll ==
    /\ Polled
    /\ \/ aborted /\ Return("zero")
       \/ ~aborted /\ EnterPoll

\* The poll comes back pending; the Abortable checks the flag once more.
Pending ==
    \/ aborted /\ Return("zero")
    \/ /\ ~aborted
       /\ polling' = FALSE
       /\ UNCHANGED <<stage, aborted, Image, app, Triggers, result>>

\* A stage that awaits may be pending any number of times before it ends.
Suspend ==
    /\ result = "none"
    /\ polling
    /\ stage \in {"cache", "source", "load", "build"}
    /\ Pending

InitializeCache ==
    /\ InPoll("cache")
    /\ \/ Goto("source") /\ UNCHANGED <<app, Triggers>>
       \/ Return("error")

FromCtx ==
    /\ InPoll("source")
    /\ \/ Goto("load") /\ UNCHANGED <<app, Triggers>>
       \/ Return("error")

ToLockedApp ==
    /\ InPoll("load")
    /\ \/ app' = image /\ Goto("resolve") /\ UNCHANGED Triggers
       \/ Return("error")

Accept(kept, types) ==
    /\ app' = kept
    /\ toBuild' = types
    /\ Goto("telemetry")
    /\ UNCHANGED <<futures, next, live, verdict>>

Kept == IF retain = NotSet THEN app ELSE Retained(app, retain)
Accepted == retain # NotSet => MayRetain(app, retain)

\* mutant: trigger types are collected before the components are retained
ResolveEarly ==
    /\ InPoll("resolve")
    /\ \/ Accepted /\ TypesOf(app) \subseteq Supported /\ Accept(Kept, TypesOf(app))
       \/ ~(Accepted /\ TypesOf(app) \subseteq Supported) /\ Return("error")

\* mutant: the trigger types of the whole app must be supported
ResolveWhole ==
    /\ InPoll("resolve")
    /\ \/ Accepted /\ TypesOf(app) \subseteq Supported /\ Accept(Kept, TypesOf(Kept))
       \/ ~(Accepted /\ TypesOf(app) \subseteq Supported) /\ Return("error")

\* mutant: get_supported_triggers does not filter
ResolveUnfiltered ==
    /\ InPoll("resolve")
    /\ \/ Accepted /\ Accept(Kept, TypesOf(Kept))
       \/ ~Accepted /\ Return("error")

\* retain_components, then get_supported_triggers on what is left; there is no
\* await in here.
Resolve ==
    /\ InPoll("resolve")
    /\ \/ Accepted /\ TypesOf(Kept) \subseteq Supported /\ Accept(Kept, TypesOf(Kept))
       \/ ~(Accepted /\ TypesOf(Kept) \subseteq Supported) /\ Return("error")

InitTelemetry ==
    /\ InPoll("telemetry")
    /\ \/ Goto("build") /\ UNCHANGED <<app, Triggers>>
       \/ Return("error")

\* mutant: the future of a trigger type is polled as soon as it is built
BuildAndStart(t) ==
    /\ InPoll("build")
    /\ t \in toBuild
    /\ \/ /\ futures' = Append(futures, t)
          /\ toBuild' = toBuild \ {t}
          /\ live' = live \cup {t}
          /\ UNCHANGED <<stage, polling, aborted, Image, app, next, verdict, result>>
       \/ Return("error")

\* One iteration of run_trigger's loop, in the set's arbitrary order: the
\* listen address is parsed and the trigger's future built, but not polled.
\* A type outside the match would be the unreachable!() arm.
Build(t) ==
    /\ InPoll("build")
    /\ t \in toBuild
    /\ \/ /\ t \in Supported
          /\ futures' = Append(futures, t)
          /\ toBuild' = toBuild \ {t}
          /\ UNCHANGED <<stage, polling, aborted, Image, app, next, live, verdict, result>>
       \/ t \in Supported /\ Return("error")
       \/ t \notin Supported /\ Return("panic")

\* select_all panics on an empty list, otherwise its first pass begins.
StartSelect ==
    /\ InPoll("build")
    /\ toBuild = {}
    /\ \/ futures # <<>> /\ Goto("select") /\ next' = 1
          /\ UNCHANGED <<app, toBuild, futures, live, verdict>>
       \/ futures = <<>> /\ Return("panic")

\* select_all polls its futures in list order.  The first poll of a trigger's
\* future starts it (an HTTP trigger binds its port here).
StartTrigger ==
    /\ InPoll("select")
    /\ next <= Len(futures)
    /\ futures[next] \notin live
    /\ live' = live \cup {futures[next]}
    /\ UNCHANGED <<stage, polling, aborted, Image, app, toBuild, futures, next,
                   verdict, result>>

\* The polled future is pending: the pass goes on to the one after it.
PassTrigger ==
    /\ InPoll("select")
    /\ next <= Len(futures)
    /\ futures[next] \in live
    /\ verdict[futures[next]] = "pending"
    /\ next' = next + 1
    /\ UNCHANGED <<stage, polling, aborted, Image, app, toBuild, futures, live,
                   verdict, result>>

\* mutant: join_all in the place of select_all
SelectLast ==
    /\ InPoll("select")
    /\ next <= Len(futures)
    /\ \A t \in Built : verdict[t] # "pending"
    /\ \/ verdict[futures[next]] = "ok" /\ Return("zero")
       \/ verdict[futures[next]] = "err" /\ Return("error")

\* The polled future is ready: the rest is dropped and its result returned.
SelectFirst ==
    /\ InPoll("select")
    /\ next <= Len(futures)
    /\ futures[next] \in live
    /\ \/ verdict[futures[next]] = "ok" /\ Return("zero")
       \/ verdict[futures[next]] = "err" /\ Return("error")

EndPass ==
    /\ InPoll("select")
    /\ next > Len(futures)
    /\ Pending

\* A trigger that serves ends by itself, well or not, at any moment.
TriggerEnds(t, v) ==
    /\ t \in live
    /\ verdict[t] = "pending"
    /\ verdict' = [verdict EXCEPT ![t] = v]
    /\ UNCHANGED <<stage, polling, aborted, Image, app, toBuild, futures, next,
                   live, result>>

Exited == result # "none" /\ UNCHANGED vars

\* What the poll in progress does next.
Step ==
    \/ Suspend \/ InitializeCache \/ FromCtx \/ ToLockedApp \/ Resolve \/ InitTelemetry
    \/ \E t \in Type : Build(t)
    \/ StartSelect \/ StartTrigger \/ PassTrigger \/ SelectFirst \/ EndPass

Next ==
    \/ Setup \/ Signal \/ Poll \/ Step \/ Exited
    \/ \E t \in Type, v \in {"ok", "err"} : TriggerEnds(t, v)

\* A poll in progress goes on, and the executor polls a task that was woken.
\* Nothing makes a stage succeed, a trigger end or a signal come.
Spec == Init /\ [][Next]_vars /\ WF_vars(Setup) /\ WF_vars(Poll) /\ WF_vars(Step)

----------------------------------------------------------------------------
(* Properties.                                                              *)

\* The triggers the operator asked for: all of the image's, or those of the
\* components listed in SPIN_COMPONENTS_TO_RETAIN.
Asked == {t \in image.triggers : retain = NotSet \/ t.component \in retain}

\* No trigger starts serving before the futures of all of them were built: an
\* app one of whose triggers cannot be set up serves nothing at all (the loop of
\* run_trigger builds un-polled futures, only select_all polls them).
AllOrNothing == live # {} => toBuild = {}

\* What is served is what was asked for, by type: no trigger of a component that
\* was not retained starts, and none of a retained one is forgotten, whatever
\* order retaining, collecting the types and building happen in.
ServesAsked == live # {} => Built = {t.type : t \in Asked}

\* A component that serves next to a retain list chains only to components that
\* were retained with it (the validator passed to retain_components).
NoDanglingChain ==
    live # {} /\ retain # NotSet =>
        \A t \in Asked, n \in Name :
            <<t.component, n>> \in image.chains => n \in retain

\* The unreachable!() arm of run_trigger is never reached: a run panics either in
\* set_var, on an entry of the container's environment without a name (engine.rs:84),
\* before anything else is done, or in select_all on an empty list (engine.rs:244),
\* when no trigger was asked for.
PanicHasCause ==
    result = "panic" => IF stage = "setup" THEN nameless ELSE Asked = {}

\* Resolve refuses an app only for what was asked for: a trigger of a kind the
\* shim does not run is no reason when its component was not retained.
RefusesOnlyAsked ==
    [][stage = "resolve" /\ result = "none" /\ result' = "error" =>
           \/ \E t \in Asked : t.type \notin Supported
           \/ retain # NotSet /\ ~MayRetain(image, retain)]_vars

\* A signal taken by the handler ends the container, however far it had come and
\* whatever its triggers do.
AbortTerminates == aborted ~> result # "none"

\* The container exits as soon as any trigger ends (engine.rs:243), even when
\* the other triggers go on forever.
TriggerEndTerminates == (\E t \in Type : verdict[t] # "pending") ~> result # "none"

\* The engine implements the task the container runtime is promised.
Task == INSTANCE ContainerTask WITH
    TriggerType <- Type,
    open        <- live,
    stopping    <- aborted,
    exit        <- CASE result \in {"none", "zero"} -> result
                     [] OTHER -> "nonzero"

ImplementsTask == Task!Spec

\* Its safety part alone, which is proved for all constants.
ImplementsTaskSteps == Task!Init /\ [][Task!Next]_(Task!vars)

\* constants.rs:24 on SPIN_COMPONENTS_TO_RETAIN: "If empty or DNE, all components
\* will be supported".  An empty list retains nothing (engine.rs:137-145).
EmptyRetainKeepsAll ==
    retain = {} /\ stage \in {"telemetry", "build", "select"} =>
        app.triggers = image.triggers
=============================================================================
