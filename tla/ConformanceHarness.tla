------------------------- MODULE ConformanceHarness -------------------------
(* The conformance test runner, conformance-tests/src/main.rs: run_test and *)
(* SpinShim, with the `ctr run` process and the container behind each test. *)
(*                                                                          *)
(* A test finds a port nobody listens on, gives it back and names it to the *)
(* container it starts; it connects to the port until somebody answers,     *)
(* `ctr run` has exited or two minutes have gone; sends its requests; and   *)
(* on any way out drops the SpinShim, which sends SIGTERM to `ctr run` and  *)
(* waits for nothing.  Tests run in parallel, and all containers share the  *)
(* ports of the host (--net-host).                                          *)
EXTENDS Naturals

CONSTANTS
    Test,      \* the tests, each with a container id of its own
    Port,      \* the ports of the host
    NoPort,    \* no port was chosen yet
    Nobody,    \* no request was answered yet
    Requests,  \* the number of invocations of a test
    MaxTries   \* bound: the attempts to connect that fit into two minutes

ASSUME ConformanceAssumption ==
    /\ NoPort \notin Port
    /\ Nobody \notin Test
    /\ Requests \in Nat \ {0}
    /\ MaxTries \in Nat \ {0}

VARIABLES
    stage,    \* where a test's thread is
    port,     \* SpinShim.io_mode
    tries,    \* failed attempts to connect
    left,     \* invocations still to run
    answer,   \* whose container answered the request
    verdict,  \* none, ok or failed
    ctr,      \* the process `ctr run`: it forwards signals once attached
    task,     \* the container
    sigterm   \* what became of the signal the drop sent

vars == <<stage, port, tries, left, answer, verdict, ctr, task, sigterm>>

Container == <<ctr, task, sigterm>>

TypeOK ==
    /\ stage \in [Test -> {"idle", "services", "push", "pull", "start", "connect", "check",
                           "ready", "send", "sent", "received", "over"}]
    /\ port \in [Test -> Port \cup {NoPort}]
    /\ tries \in [Test -> 0..MaxTries]
    /\ left \in [Test -> 0..Requests]
    /\ answer \in [Test -> Test \cup {Nobody}]
    /\ verdict \in [Test -> {"none", "ok", "failed"}]
    /\ ctr \in [Test -> {"none", "early", "attached", "exited"}]
    /\ task \in [Test -> {"none", "setup", "running", "listening", "exited"}]
    /\ sigterm \in [Test -> {"none", "ctr", "lost", "handled", "late"}]

Init ==
    /\ stage = [t \in Test |-> "idle"]
    /\ port = [t \in Test |-> NoPort]
    /\ tries = [t \in Test |-> 0]
    /\ left = [t \in Test |-> Requests]
    /\ answer = [t \in Test |-> Nobody]
    /\ verdict = [t \in Test |-> "none"]
    /\ ctr = [t \in Test |-> "none"]
    /\ task = [t \in Test |-> "none"]
    /\ sigterm = [t \in Test |-> "none"]

\* The tests whose container accepts connections on port p.
Listeners(p) == {t \in Test : task[t] = "listening" /\ port[t] = p}

Goto(t, s) == stage' = [stage EXCEPT ![t] = s]

try_wait(t) == ctr[t] = "exited"

----------------------------------------------------------------------------
(* The end of a test.                                                       *)

\* mutant: no Drop
drop_quietly(t) == UNCHANGED Container

\* Drop: SIGTERM to the process id of `ctr run`, if one was spawned.  Before it
\* forwards signals the process dies of it; afterwards the container gets it,
\* which ignores it until the shim has installed its handler.  Once try_wait has
\* seen the exit the id is not the child's any more.
drop(t) ==
    /\ sigterm' = [sigterm EXCEPT ![t] =
           CASE ctr[t] = "none"   -> "none"
             [] ctr[t] = "early"  -> "ctr"
             [] ctr[t] = "exited" -> "late"
             [] OTHER -> IF task[t] = "setup" THEN "lost" ELSE "handled"]
    /\ ctr' = [ctr EXCEPT ![t] = IF @ = "early" THEN "exited" ELSE @]
    /\ UNCHANGED task

\* The thread leaves run_test, by an error, a panic or at the end.
End(t, v) ==
    /\ Goto(t, "over")
    /\ verdict' = [verdict EXCEPT ![t] = v]
    /\ drop(t)

----------------------------------------------------------------------------
(* run_test.                                                                *)

\* What the container needs before it starts: services, the app pushed to the
\* registry and pulled into containerd.  Each may fail.
Prepare(t, from, to) ==
    /\ stage[t] = from
    /\ \/ Goto(t, to) /\ UNCHANGED <<verdict, Container>>
       \/ End(t, "failed")
    /\ UNCHANGED <<port, tries, left, answer>>

Preconditions(t) == Prepare(t, "idle", "services")
Services(t) == Prepare(t, "services", "push")
registry_push(t) == Prepare(t, "push", "pull")
image_pull(t) == Prepare(t, "pull", "start")

Free == {p \in Port : Listeners(p) = {}}

\* get_available_port, whose listener is closed when it returns, and the spawn.
start(t) ==
    /\ stage[t] = "start"
    /\ \/ /\ \E p \in Free : port' = [port EXCEPT ![t] = p]
          /\ ctr' = [ctr EXCEPT ![t] = "early"]
          /\ Goto(t, "connect")
          /\ UNCHANGED <<verdict, task, sigterm>>
       \/ End(t, "failed") /\ UNCHANGED port
    /\ UNCHANGED <<tries, left, answer>>

\* One attempt: whoever listens there makes it succeed.
Connect(t) ==
    /\ stage[t] = "connect"
    /\ Goto(t, IF Listeners(port[t]) # {} THEN "ready" ELSE "check")
    /\ UNCHANGED <<port, tries, left, answer, verdict, Container>>

\* mutant: the time limit is looked at after the next attempt was counted
CheckLate(t) ==
    /\ stage[t] = "check"
    /\ \/ try_wait(t) /\ End(t, "failed") /\ UNCHANGED tries
       \/ ~try_wait(t) /\ tries[t] > MaxTries /\ End(t, "failed") /\ UNCHANGED tries
       \/ /\ ~try_wait(t) /\ tries[t] <= MaxTries
          /\ Goto(t, "connect")
          /\ tries' = [tries EXCEPT ![t] = @ + 1]
          /\ UNCHANGED <<verdict, Container>>
    /\ UNCHANGED <<port, left, answer>>

\* mutant: no time limit
CheckForever(t) ==
    /\ stage[t] = "check"
    /\ \/ try_wait(t) /\ End(t, "failed")
       \/ ~try_wait(t) /\ Goto(t, "connect") /\ UNCHANGED <<verdict, Container>>
    /\ UNCHANGED <<port, tries, left, answer>>

\* After an attempt that failed: has `ctr run` exited, is the time over?
Check(t) ==
    /\ stage[t] = "check"
    /\ \/ (try_wait(t) \/ tries[t] = MaxTries) /\ End(t, "failed") /\ UNCHANGED tries
       \/ /\ ~try_wait(t) /\ tries[t] < MaxTries
          /\ Goto(t, "connect")
          /\ tries' = [tries EXCEPT ![t] = @ + 1]
          /\ UNCHANGED <<verdict, Container>>
    /\ UNCHANGED <<port, left, answer>>

\* make_http_request: the first look at `ctr run`.
Ready(t) ==
    /\ stage[t] = "ready"
    /\ \/ try_wait(t) /\ End(t, "failed")
       \/ ~try_wait(t) /\ Goto(t, "send") /\ UNCHANGED <<verdict, Container>>
    /\ UNCHANGED <<port, tries, left, answer>>

\* The request goes to whoever listens on the port now.
Send(t) ==
    /\ stage[t] = "send"
    /\ \/ /\ \E u \in Listeners(port[t]) : answer' = [answer EXCEPT ![t] = u]
          /\ Goto(t, "sent")
          /\ UNCHANGED <<verdict, Container>>
       \/ Listeners(port[t]) = {} /\ End(t, "failed") /\ UNCHANGED answer
    /\ UNCHANGED <<port, tries, left>>

\* An answer comes, unless that container has gone or is too slow.
Receive(t) ==
    /\ stage[t] = "sent"
    /\ \/ task[answer[t]] = "listening" /\ Goto(t, "received") /\ UNCHANGED <<verdict, Container>>
       \/ End(t, "failed")
    /\ UNCHANGED <<port, tries, left, answer>>

\* The answer is taken: it is the one the test expects, or the test fails.
Take(t) ==
    /\ left' = [left EXCEPT ![t] = @ - 1]
    /\ \/ left[t] > 1 /\ Goto(t, "ready") /\ UNCHANGED <<verdict, Container>>
       \/ left[t] = 1 /\ End(t, "ok")
       \/ End(t, "failed")

\* mutant: the answer is taken without another look at `ctr run`
AcceptAnyhow(t) ==
    /\ stage[t] = "received"
    /\ Take(t)
    /\ UNCHANGED <<port, tries, answer>>

\* The second look at `ctr run`.
Accept(t) ==
    /\ stage[t] = "received"
    /\ \/ try_wait(t) /\ End(t, "failed") /\ UNCHANGED left
       \/ ~try_wait(t) /\ Take(t)
    /\ UNCHANGED <<port, tries, answer>>

Harness(t) ==
    \/ Preconditions(t) \/ Services(t) \/ registry_push(t) \/ image_pull(t) \/ start(t)
    \/ Connect(t) \/ Check(t) \/ Ready(t) \/ Send(t) \/ Receive(t) \/ Accept(t)

----------------------------------------------------------------------------
(* `ctr run` and the container, as Engine has it.                           *)

Thread == <<stage, port, tries, left, answer, verdict, sigterm>>

Attach(t) ==
    /\ ctr[t] = "early"
    /\ ctr' = [ctr EXCEPT ![t] = "attached"]
    /\ task' = [task EXCEPT ![t] = "setup"]
    /\ UNCHANGED Thread

\* The signal handler is installed.
Handle(t) ==
    /\ task[t] = "setup"
    /\ task' = [task EXCEPT ![t] = "running"]
    /\ UNCHANGED <<Thread, ctr>>

\* The HTTP trigger binds its port, which must be free.
Bind(t) ==
    /\ task[t] = "running"
    /\ task' = [task EXCEPT ![t] = IF port[t] \in Free THEN "listening" ELSE "exited"]
    /\ UNCHANGED <<Thread, ctr>>

\* The container ends by itself.
TaskEnds(t) ==
    /\ task[t] \in {"setup", "running", "listening"}
    /\ task' = [task EXCEPT ![t] = "exited"]
    /\ UNCHANGED <<Thread, ctr>>

\* The container ends because of the signal.
TaskAborts(t) ==
    /\ sigterm[t] = "handled"
    /\ TaskEnds(t)

\* `ctr run` ends with its container, or fails before it has one.
CtrExits(t) ==
    /\ \/ ctr[t] = "attached" /\ task[t] = "exited"
       \/ ctr[t] = "early"
    /\ ctr' = [ctr EXCEPT ![t] = "exited"]
    /\ UNCHANGED <<Thread, task>>

\* `ctr run` goes on to attach or to exit.
Ctr(t) == Attach(t) \/ CtrExits(t)

Finished == (\A t \in Test : stage[t] = "over") /\ UNCHANGED vars

Next ==
    \/ \E t \in Test : Harness(t) \/ Ctr(t) \/ Handle(t) \/ Bind(t) \/ TaskEnds(t)
    \/ Finished

\* The threads of the runner and `ctr run` go on, and an aborted container ends.
\* Nothing makes a container listen.
Spec ==
    /\ Init /\ [][Next]_vars
    /\ \A t \in Test :
           WF_vars(Harness(t)) /\ WF_vars(Ctr(t)) /\ WF_vars(TaskAborts(t))

----------------------------------------------------------------------------
(* Properties.                                                              *)

\* Every test comes to an end, even when its container neither listens nor exits
\* (the two minutes of main.rs:219).
EveryTestEnds == \A t \in Test : stage[t] = "services" ~> stage[t] = "over"

\* A test does not pass on what was answered after `ctr run` exited, whoever may
\* have taken the port since ("Will fail if the shim has already exited",
\* main.rs:232).
FailsAfterExit ==
    [][\A t \in Test : left'[t] < left[t] => ctr[t] # "exited"]_vars

\* However a test ends, its container and its `ctr run` end too, by the drop of
\* SpinShim alone; the exception is a signal that reached the container before it
\* listened to signals.
StopsWhatItStarted ==
    \A t \in Test :
        stage[t] = "over" /\ sigterm[t] # "lost" ~>
            ctr[t] \in {"none", "exited"} /\ task[t] \in {"none", "exited"}

\* What the message of main.rs:201 says, "Spin shim started on port {port}.": when
\* the wait ends well it is this test's container that listens.
StartedIsOwn ==
    [][\A t \in Test : stage[t] = "connect" /\ stage'[t] = "ready" =>
           task[t] = "listening"]_vars
=============================================================================
