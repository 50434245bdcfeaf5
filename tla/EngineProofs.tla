---------------------------- MODULE EngineProofs ----------------------------
(* Theorems about Engine, for every set of names, types, apps and retain    *)
(* lists.                                                                   *)
EXTENDS Engine, TLAPS

\* Before the app is resolved nothing was built; from then on what is built and
\* what is left to build are together the types that were asked for, all of them
\* supported, and the retain list was accepted.
Progress ==
    /\ stage \in {"setup", "cache", "source", "load", "resolve"} =>
           futures = <<>> /\ toBuild = {}
    /\ stage = "resolve" => app = image
    /\ stage \in {"telemetry", "build", "select"} =>
           /\ Built \cup toBuild = {t.type : t \in Asked}
           /\ Built \cup toBuild \subseteq Supported
           /\ retain # NotSet => MayRetain(image, retain)

\* Triggers are open in select_all only, which begins when all are built.
Serving ==
    /\ live # {} => stage = "select"
    /\ stage = "select" => toBuild = {}
    /\ result # "none" => live = {}
    /\ \A t \in Type : verdict[t] # "pending" => t \in live \/ result # "none"

IInv == TypeOK /\ Progress /\ Serving /\ PanicHasCause

----------------------------------------------------------------------------
\* Retaining keeps an app well formed.
LEMMA RetainedType ==
    ASSUME NEW x \in App, NEW names \in SUBSET Name
    PROVE  Retained(x, names) \in App
BY DEF Retained, KeptTriggers, App

\* What is left of an app after retaining is what was asked for.
LEMMA KeptIsAsked ==
    ASSUME image \in App
    PROVE  /\ retain = NotSet => image.triggers = Asked
           /\ retain # NotSet => Retained(image, retain).triggers = Asked
BY DEF Retained, KeptTriggers, Asked, App

\* Appending to futures_list adds one type to those that are built.
LEMMA BuiltAppend ==
    ASSUME futures \in Seq(Type), NEW t \in Type, futures' = Append(futures, t)
    PROVE  Built' = Built \cup {t}
BY DEF Built

\* The empty list of futures is the only one with nothing in it.
LEMMA BuiltEmpty ==
    ASSUME futures \in Seq(Type)
    PROVE  Built = {} <=> futures = <<>>
BY DEF Built

LEMMA InitIInv == Init => IInv
<1> SUFFICES ASSUME Init PROVE IInv
    OBVIOUS
<1> USE DEF Init
<1>1. TypeOK
    <2>1. app \in App
        BY DEF App
    <2>2. futures \in Seq(Type)
        OBVIOUS
    <2>3. verdict \in [Type -> {"pending", "ok", "err"}]
        OBVIOUS
    <2>4. polling \in BOOLEAN /\ aborted \in BOOLEAN /\ nameless \in BOOLEAN /\ stage \in Stages
        BY DEF Stages
    <2>5. next \in Nat \ {0} /\ result \in {"none", "zero", "error", "panic"}
        OBVIOUS
    <2>6. image \in Apps /\ retain \in Retains /\ toBuild \subseteq Type /\ live \subseteq Type
        OBVIOUS
    <2> HIDE DEF Init
    <2> QED BY <2>1, <2>2, <2>3, <2>4, <2>5, <2>6 DEF TypeOK
<1>2. Progress /\ Serving /\ PanicHasCause
    BY DEF Progress, Serving, PanicHasCause
<1> QED BY <1>1, <1>2 DEF IInv

\* Returning keeps the invariant, whatever is returned, provided a panic is
\* justified.
LEMMA ReturnIInv ==
    ASSUME IInv, NEW r \in {"zero", "error", "panic"}, Return(r),
           r = "panic" => IF stage = "setup" THEN nameless ELSE Asked = {}
    PROVE  IInv'
<1> USE DEF Return, Image, IInv
<1>1. TypeOK'
    BY DEF TypeOK
<1>2. Progress'
    BY DEF Progress, Built, Asked
<1>3. Serving'
    BY DEF Serving, TypeOK
<1>4. PanicHasCause'
    BY DEF PanicHasCause, Asked
<1> QED BY <1>1, <1>2, <1>3, <1>4

\* Resolve establishes the part of Progress that says what will be served.
LEMMA ResolveIInv ==
    ASSUME IInv, Resolve
    PROVE  IInv'
<1>1. CASE Return("error")
    BY <1>1, ReturnIInv
<1>2. CASE Accepted /\ TypesOf(Kept) \subseteq Supported /\ Accept(Kept, TypesOf(Kept))
    <2> USE <1>2 DEF Accept, Goto, Image, IInv
    <2>1. stage = "resolve" /\ result = "none"
        BY DEF Resolve, InPoll
    <2>2. app = image /\ futures = <<>> /\ app \in App /\ image \in App
        BY <2>1, EngineAssumption DEF Progress, TypeOK
    <2>3. retain # NotSet => retain \in SUBSET Name
        BY EngineAssumption DEF TypeOK
    <2>4. Kept \in App /\ Kept.triggers = Asked
        BY <2>2, <2>3, RetainedType, KeptIsAsked DEF Kept
    <2>5. TypesOf(Kept) = {t.type : t \in Asked}
        BY <2>4 DEF TypesOf
    <2>6. TypesOf(Kept) \subseteq Type
        BY <2>4 DEF TypesOf, App
    <2>7. TypeOK'
        BY <2>4, <2>6 DEF TypeOK, Stages
    <2>8. Built' = {} /\ Asked' = Asked
        BY <2>2 DEF Built, Asked
    <2>9. Progress'
        BY <2>1, <2>2, <2>5, <2>8 DEF Progress, Accepted, MayRetain, ChainingHolds, KeptTriggers
    <2>10. Serving'
        BY <2>1 DEF Serving, TypeOK
    <2>11. PanicHasCause'
        BY <2>1 DEF PanicHasCause
    <2> QED BY <2>7, <2>9, <2>10, <2>11
<1> QED BY <1>1, <1>2 DEF Resolve

\* A step that only moves on to a stage, or only touches the flags.
LEMMA QuietIInv ==
    ASSUME IInv, result = "none", result' = "none",
           UNCHANGED <<image, retain, nameless, toBuild, futures, live, verdict>>,
           next' \in Nat \ {0}, polling' \in BOOLEAN, aborted' \in BOOLEAN,
           \/ stage' = stage /\ app' = app
           \/ stage = "setup" /\ stage' = "cache" /\ app' = app
           \/ stage = "cache" /\ stage' = "source" /\ app' = app
           \/ stage = "source" /\ stage' = "load" /\ app' = app
           \/ stage = "load" /\ stage' = "resolve" /\ app' = image
           \/ stage = "telemetry" /\ stage' = "build" /\ app' = app
           \/ stage = "build" /\ stage' = "select" /\ app' = app /\ toBuild = {}
    PROVE  IInv'
<1> USE DEF IInv
<1>1. TypeOK'
    BY EngineAssumption DEF TypeOK, Stages
<1>2. Built' = Built /\ Asked' = Asked
    BY DEF Built, Asked
<1>3. Progress'
    BY <1>2 DEF Progress, MayRetain, ChainingHolds, KeptTriggers
<1>4. Serving'
    BY DEF Serving, TypeOK
<1>5. PanicHasCause'
    BY DEF PanicHasCause
<1> QED BY <1>1, <1>3, <1>4, <1>5

LEMMA BuildIInv ==
    ASSUME IInv, NEW t \in Type, Build(t)
    PROVE  IInv'
<1>1. stage = "build" /\ result = "none" /\ t \in toBuild /\ t \in Supported
    BY DEF Build, InPoll, IInv, Progress
<1>2. CASE Return("error")
    BY <1>2, ReturnIInv
<1>3. CASE /\ futures' = Append(futures, t)
           /\ toBuild' = toBuild \ {t}
           /\ UNCHANGED <<stage, polling, aborted, Image, app, next, live, verdict, result>>
    <2> USE <1>1, <1>3 DEF Image, IInv
    <2>1. Built' = Built \cup {t} /\ Asked' = Asked
        BY BuiltAppend DEF TypeOK, Asked
    <2>2. TypeOK'
        BY DEF TypeOK
    <2>3. Progress'
        BY <2>1 DEF Progress, MayRetain, ChainingHolds, KeptTriggers
    <2>4. Serving'
        BY DEF Serving
    <2>5. PanicHasCause'
        BY DEF PanicHasCause
    <2> QED BY <2>2, <2>3, <2>4, <2>5
<1> QED BY <1>1, <1>2, <1>3 DEF Build

LEMMA StartSelectIInv ==
    ASSUME IInv, StartSelect
    PROVE  IInv'
<1>1. stage = "build" /\ result = "none" /\ toBuild = {}
    BY DEF StartSelect, InPoll
<1>2. CASE futures = <<>> /\ Return("panic")
    <2>1. Built = {}
        BY <1>2, BuiltEmpty DEF IInv, TypeOK
    <2>2. Asked = {}
        BY <1>1, <2>1 DEF IInv, Progress
    <2> QED BY <1>1, <1>2, <2>2, ReturnIInv
<1>3. CASE Goto("select") /\ next' = 1 /\ UNCHANGED <<app, toBuild, futures, live, verdict>>
    BY <1>1, <1>3, QuietIInv DEF Goto, Image, IInv, TypeOK
<1> QED BY <1>2, <1>3 DEF StartSelect

\* A trigger is opened or reports: only live and verdict change.
LEMMA TriggerIInv ==
    ASSUME IInv, NEW t \in Type,
           \/ StartTrigger /\ t = futures[next]
           \/ \E v \in {"ok", "err"} : TriggerEnds(t, v)
    PROVE  IInv'
<1> USE DEF StartTrigger, TriggerEnds, InPoll, Image, IInv
<1>1. /\ stage = "select" /\ result = "none"
      /\ UNCHANGED <<stage, polling, aborted, image, retain, nameless, app, toBuild,
                     futures, next, result>>
    BY DEF Serving
<1>2. live' \subseteq live \cup {t} /\ live \subseteq live'
    OBVIOUS
<1>3. verdict' \in [Type -> {"pending", "ok", "err"}]
    BY DEF TypeOK
<1>4. TypeOK'
    BY <1>1, <1>2, <1>3 DEF TypeOK
<1>5. Built' = Built /\ Asked' = Asked
    BY <1>1 DEF Built, Asked
<1>6. Progress'
    BY <1>1, <1>5 DEF Progress, MayRetain, ChainingHolds, KeptTriggers
<1>7. Serving'
    BY <1>1 DEF Serving, TypeOK
<1>8. PanicHasCause'
    BY <1>1 DEF PanicHasCause
<1> QED BY <1>4, <1>6, <1>7, <1>8

\* A poll that ends pending returns zero if it was aborted, else only suspends.
LEMMA PendingIInv ==
    ASSUME IInv, result = "none", Pending
    PROVE  IInv'
<1>1. CASE Return("zero")
    BY <1>1, ReturnIInv
<1>2. CASE /\ polling' = FALSE
           /\ UNCHANGED <<stage, aborted, Image, app, Triggers, result>>
    BY <1>2, QuietIInv DEF Image, Triggers, IInv, TypeOK
<1> QED BY <1>1, <1>2 DEF Pending

\* Every step of the engine preserves the invariant.
LEMMA NextIInv == IInv /\ [Next]_vars => IInv'
<1> SUFFICES ASSUME IInv, [Next]_vars PROVE IInv'
    OBVIOUS
<1>t. TypeOK
    BY DEF IInv
<1>1. CASE Setup
    BY <1>1, <1>t, ReturnIInv, QuietIInv DEF Setup, Goto, Image, Triggers, TypeOK
<1>2. CASE Signal
    BY <1>2, <1>t, QuietIInv DEF Signal, Image, Triggers, TypeOK
<1>3. CASE Poll
    <2>1. CASE Return("zero")
        BY <2>1, ReturnIInv
    <2>2. CASE EnterPoll
        BY <1>3, <1>t, <2>2, QuietIInv DEF Poll, Polled, EnterPoll, Image, TypeOK
    <2> QED BY <1>3, <2>1, <2>2 DEF Poll
<1>4. CASE Suspend
    BY <1>4, PendingIInv DEF Suspend
<1>5. CASE InitializeCache
    BY <1>5, <1>t, ReturnIInv, QuietIInv DEF InitializeCache, InPoll, Goto, Image, Triggers, TypeOK
<1>6. CASE FromCtx
    BY <1>6, <1>t, ReturnIInv, QuietIInv DEF FromCtx, InPoll, Goto, Image, Triggers, TypeOK
<1>7. CASE ToLockedApp
    BY <1>7, <1>t, ReturnIInv, QuietIInv DEF ToLockedApp, InPoll, Goto, Image, Triggers, TypeOK
<1>8. CASE Resolve
    BY <1>8, ResolveIInv
<1>9. CASE InitTelemetry
    BY <1>9, <1>t, ReturnIInv, QuietIInv DEF InitTelemetry, InPoll, Goto, Image, Triggers, TypeOK
<1>10. CASE \E t \in Type : Build(t)
    BY <1>10, BuildIInv
<1>11. CASE StartSelect
    BY <1>11, StartSelectIInv
<1>12. CASE StartTrigger
    <2>1. futures[next] \in Type
        BY <1>12, <1>t DEF StartTrigger, TypeOK
    <2> QED BY <1>12, <2>1, TriggerIInv
<1>13. CASE PassTrigger
    BY <1>13, <1>t, QuietIInv DEF PassTrigger, InPoll, Image, TypeOK
<1>14. CASE SelectFirst
    BY <1>14, ReturnIInv DEF SelectFirst
<1>15. CASE EndPass
    BY <1>15, PendingIInv DEF EndPass, InPoll
<1>16. CASE \E t \in Type, v \in {"ok", "err"} : TriggerEnds(t, v)
    BY <1>16, TriggerIInv
<1>17. CASE UNCHANGED vars
    <2> USE <1>17 DEF vars
    <2>1. Built' = Built /\ Asked' = Asked
        BY DEF Built, Asked
    <2> QED BY <2>1 DEF IInv, TypeOK, Progress, Serving, PanicHasCause,
                        MayRetain, ChainingHolds, KeptTriggers
<1> QED BY <1>1, <1>2, <1>3, <1>4, <1>5, <1>6, <1>7, <1>8, <1>9, <1>10, <1>11,
           <1>12, <1>13, <1>14, <1>15, <1>16, <1>17 DEF Next, Step, Exited

THEOREM InductiveInvariant == Spec => []IInv
<1>1. Init => IInv
    BY InitIInv
<1>2. IInv /\ [Next]_vars => IInv'
    BY NextIInv
<1> QED BY <1>1, <1>2, PTL DEF Spec

\* What the inductive invariant says of a container that serves or has panicked.
LEMMA WhatServes ==
    ASSUME IInv
    PROVE  AllOrNothing /\ ServesAsked /\ NoDanglingChain /\ PanicHasCause
<1> USE DEF IInv
<1>1. AllOrNothing
    BY DEF Serving, AllOrNothing
<1>2. ServesAsked
    BY DEF Serving, Progress, ServesAsked
<1>3. NoDanglingChain
    BY EngineAssumption
       DEF TypeOK, Serving, Progress, NoDanglingChain, MayRetain, ChainingHolds, KeptTriggers, Asked
<1> QED BY <1>1, <1>2, <1>3

\* Every variable keeps its type.
THEOREM TypeCorrect == Spec => []TypeOK
<1>1. IInv => TypeOK
    BY DEF IInv
<1> QED BY <1>1, InductiveInvariant, PTL

\* No trigger serves before the futures of all of them are built.
THEOREM BuildsAllFirst == Spec => []AllOrNothing
<1>1. IInv => AllOrNothing
    BY WhatServes
<1> QED BY <1>1, InductiveInvariant, PTL

\* What is served is what was asked for, whatever the app and the retain list.
THEOREM ServesWhatWasAsked == Spec => []ServesAsked
<1>1. IInv => ServesAsked
    BY WhatServes
<1> QED BY <1>1, InductiveInvariant, PTL

\* No component that serves chains to one that was left out.
THEOREM ChainsStayRetained == Spec => []NoDanglingChain
<1>1. IInv => NoDanglingChain
    BY WhatServes
<1> QED BY <1>1, InductiveInvariant, PTL

\* The unreachable!() arm is never reached: set_var panics on an empty name and
\* select_all on an empty list only.
THEOREM NoUnreachableArm == Spec => []PanicHasCause
<1>1. IInv => PanicHasCause
    BY WhatServes
<1> QED BY <1>1, InductiveInvariant, PTL

----------------------------------------------------------------------------
(* Action properties.                                                       *)

\* The resolve stage refuses only what was asked for.
THEOREM RefusalsAreJustified == Spec => RefusesOnlyAsked
<1> DEFINE justified ==
        \/ \E t \in Asked : t.type \notin Supported
        \/ retain # NotSet /\ ~MayRetain(image, retain)
<1>1. ASSUME IInv, [Next]_vars, stage = "resolve", result = "none", result' = "error"
      PROVE  justified
    <2>1. Resolve
        <3>1. ~(Pending /\ ~Return("zero"))
            BY <1>1 DEF Pending
        <3>2. ~Return("zero")
            BY <1>1 DEF Return
        <3> QED BY <1>1, <3>1, <3>2 DEF Next, Step, Exited, Setup, Signal, Poll, Polled, EnterPoll,
               Suspend, InitializeCache, FromCtx, ToLockedApp, InitTelemetry, Build, StartSelect,
               StartTrigger, PassTrigger, SelectFirst, EndPass, InPoll, TriggerEnds, vars
    <2>2. app = image /\ image \in App
        BY <1>1, EngineAssumption DEF IInv, Progress, TypeOK
    <2>3. TypesOf(Kept) = {t.type : t \in Asked}
        BY <2>2, KeptIsAsked DEF Kept, TypesOf
    <2> QED BY <1>1, <2>1, <2>2, <2>3 DEF Resolve, Accepted, Accept, Goto
<1>2. IInv /\ [Next]_vars =>
          [stage = "resolve" /\ result = "none" /\ result' = "error" => justified]_vars
    BY <1>1
<1> QED BY <1>2, InductiveInvariant, PTL DEF Spec, RefusesOnlyAsked

----------------------------------------------------------------------------
(* Engine implements ContainerTask: every step is a step of the task or     *)
(* leaves what the task shows unchanged.                                    *)

\* Returning zero needs an abort or a trigger that ended well; returning anything
\* else needs one that failed, or nothing open.
LEMMA ReturnIsExit ==
    ASSUME IInv, result = "none", NEW r \in {"zero", "error", "panic"}, Return(r),
           r = "zero" => aborted \/ \E t \in Type : verdict[t] = "ok",
           r # "zero" => live = {} \/ \E t \in Type : verdict[t] = "err"
    PROVE  Task!Exit
BY DEF Return, Task!Exit, Task!Ended

\* A pending poll either suspends, which the task does not show, or exits.
LEMMA PendingIsExit ==
    ASSUME IInv, result = "none", Pending
    PROVE  Task!Exit \/ UNCHANGED Task!vars
<1>1. CASE aborted /\ Return("zero")
    BY <1>1, ReturnIsExit
<1>2. CASE UNCHANGED <<stage, aborted, Image, app, Triggers, result>>
    BY <1>2 DEF Triggers, Task!vars
<1> QED BY <1>1, <1>2 DEF Pending

\* The engine's stages are not shown until select_all opens the triggers.
LEMMA StageIsExit ==
    ASSUME IInv,
           \/ Setup \/ InitializeCache \/ FromCtx \/ ToLockedApp \/ Resolve
           \/ InitTelemetry \/ StartSelect \/ \E t \in Type : Build(t)
    PROVE  Task!Exit \/ UNCHANGED Task!vars
<1>1. result = "none" /\ stage # "select"
    BY DEF Setup, InitializeCache, FromCtx, ToLockedApp, Resolve, InitTelemetry,
           StartSelect, Build, InPoll
<1>2. live = {}
    BY <1>1 DEF IInv, Serving
<1>3. CASE \E r \in {"error", "panic"} : Return(r)
    BY <1>1, <1>2, <1>3, ReturnIsExit
<1>4. CASE ~\E r \in {"error", "panic"} : Return(r)
    BY <1>4 DEF Setup, InitializeCache, FromCtx, ToLockedApp, Resolve, InitTelemetry,
           StartSelect, Build, Accept, Goto, Triggers, Task!vars
<1> QED BY <1>3, <1>4

LEMMA StepIsTaskStep == IInv /\ [Next]_vars => [Task!Next]_(Task!vars)
<1> SUFFICES ASSUME IInv, [Next]_vars PROVE Task!Next \/ UNCHANGED Task!vars
    OBVIOUS
<1> USE DEF Task!Next
<1>1. CASE \/ Setup \/ InitializeCache \/ FromCtx \/ ToLockedApp \/ Resolve
           \/ InitTelemetry \/ StartSelect \/ \E t \in Type : Build(t)
    BY <1>1, StageIsExit
<1>2. CASE Signal
    BY <1>2 DEF Signal, Triggers, Task!RequestStop
<1>3. CASE Poll
    <2>1. CASE aborted /\ Return("zero")
        BY <1>3, <2>1, ReturnIsExit DEF Poll, Polled
    <2>2. CASE EnterPoll
        BY <2>2 DEF EnterPoll, Task!vars
    <2> QED BY <1>3, <2>1, <2>2 DEF Poll
<1>4. CASE Suspend \/ EndPass
    BY <1>4, PendingIsExit DEF Suspend, EndPass, InPoll
<1>5. CASE StartTrigger
    <2>1. futures[next] \in Type
        BY <1>5 DEF StartTrigger, IInv, TypeOK
    <2>2. verdict[futures[next]] = "pending"
        BY <1>5, <2>1 DEF StartTrigger, InPoll, IInv, Serving
    <2>3. Task!Open(futures[next])
        BY <1>5, <2>2 DEF StartTrigger, InPoll, Task!Open
    <2> QED BY <2>1, <2>3
<1>6. CASE PassTrigger
    BY <1>6 DEF PassTrigger, Task!vars
<1>7. CASE SelectFirst
    <2>1. futures[next] \in Type /\ result = "none"
        BY <1>7 DEF SelectFirst, InPoll, IInv, TypeOK
    <2>2. CASE verdict[futures[next]] = "ok" /\ Return("zero")
        BY <2>1, <2>2, ReturnIsExit
    <2>3. CASE verdict[futures[next]] = "err" /\ Return("error")
        BY <2>1, <2>3, ReturnIsExit
    <2> QED BY <1>7, <2>2, <2>3 DEF SelectFirst
<1>8. CASE \E t \in Type, v \in {"ok", "err"} : TriggerEnds(t, v)
    BY <1>8 DEF TriggerEnds, Task!Report
<1>9. CASE UNCHANGED vars
    BY <1>9 DEF vars, Task!vars
<1> QED BY <1>1, <1>2, <1>3, <1>4, <1>5, <1>6, <1>7, <1>8, <1>9 DEF Next, Step, Exited

\* Every behaviour of the engine is one the container task allows.
THEOREM EngineImplementsTask == Spec => ImplementsTaskSteps
<1>1. Init => Task!Init
    BY DEF Init, Task!Init
<1>2. IInv /\ [Next]_vars => [Task!Next]_(Task!vars)
    BY StepIsTaskStep
<1> QED BY <1>1, <1>2, InductiveInvariant, PTL DEF Spec, ImplementsTaskSteps
=============================================================================
