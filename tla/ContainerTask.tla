--------------------------- MODULE ContainerTask ---------------------------
(* What a Spin container promises to the container runtime that started it, *)
(* without saying how: triggers open, may report a verdict, and the task    *)
(* exits once, closing everything.  The exit status is earned: zero needs a *)
(* stop request or a trigger that ended well, nonzero needs a trigger that  *)
(* failed or a start that failed before anything was opened.  A task that   *)
(* was asked to stop, or one of whose triggers ended, does exit.  Module    *)
(* Engine is shown to implement it.                                         *)

CONSTANT TriggerType

VARIABLES
    open,      \* the trigger types that are accepting work
    verdict,   \* how each trigger ended: "pending" until it does
    stopping,  \* a stop was requested
    exit       \* "none" while the task runs, then "zero" or "nonzero"

vars == <<open, verdict, stopping, exit>>

Init ==
    /\ open = {}
    /\ verdict = [t \in TriggerType |-> "pending"]
    /\ stopping = FALSE
    /\ exit = "none"

RequestStop ==
    /\ exit = "none"
    /\ stopping' = TRUE
    /\ UNCHANGED <<open, verdict, exit>>

Open(t) ==
    /\ exit = "none"
    /\ verdict[t] = "pending"
    /\ open' = open \cup {t}
    /\ UNCHANGED <<verdict, stopping, exit>>

Report(t, v) ==
    /\ t \in open
    /\ verdict[t] = "pending"
    /\ verdict' = [verdict EXCEPT ![t] = v]
    /\ UNCHANGED <<open, stopping, exit>>

Ended(v) == \E t \in TriggerType : verdict[t] = v

Exit ==
    /\ exit = "none"
    /\ \/ exit' = "zero" /\ (stopping \/ Ended("ok"))
       \/ exit' = "nonzero" /\ (Ended("err") \/ open = {})
    /\ open' = {}
    /\ UNCHANGED <<verdict, stopping>>

Next ==
    \/ RequestStop
    \/ \E t \in TriggerType : Open(t) \/ \E v \in {"ok", "err"} : Report(t, v)
    \/ Exit

Due == stopping \/ Ended("ok") \/ Ended("err")

Spec == Init /\ [][Next]_vars /\ WF_vars(Due /\ Exit)
=============================================================================
