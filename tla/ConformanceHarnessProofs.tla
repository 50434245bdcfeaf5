---------------------- MODULE ConformanceHarnessProofs -----------------------
(* Theorems about ConformanceHarness, for any number of tests in parallel,  *)
(* any ports, and any number of requests and attempts to connect.           *)
EXTENDS ConformanceHarness, TLAPS

Before == {"idle", "services", "push", "pull", "start"}

\* A test that is not over has an invocation left, so that the count never goes
\* below zero.
Unfinished == \A t \in Test : stage[t] # "over" => left[t] > 0

\* Before the spawn there is no process and no container.
Unstarted == \A t \in Test : stage[t] \in Before => ctr[t] = "none" /\ task[t] = "none"

\* The container is there while `ctr run` is attached to it, and was gone before
\* `ctr run` exits.
Attached ==
    \A t \in Test :
        /\ ctr[t] \in {"none", "early"} => task[t] = "none"
        /\ ctr[t] = "attached" => task[t] # "none"
        /\ ctr[t] = "exited" => task[t] \in {"none", "exited"}

\* When a test is over nothing it started is left, or the signal was sent: to a
\* container that listens to signals, if it was not lost.
Signalled ==
    \A t \in Test :
        stage[t] = "over" =>
            \/ ctr[t] \in {"none", "exited"} /\ task[t] \in {"none", "exited"}
            \/ sigterm[t] = "handled" /\ task[t] \in {"running", "listening", "exited"}
            \/ sigterm[t] = "lost"

IInv == TypeOK /\ Unfinished /\ Unstarted /\ Attached /\ Signalled

----------------------------------------------------------------------------
LEMMA InitIInv == Init => IInv
<1> SUFFICES ASSUME Init PROVE IInv
    OBVIOUS
<1>1. TypeOK
    BY ConformanceAssumption DEF Init, TypeOK
<1>2. Unfinished /\ Unstarted /\ Attached /\ Signalled
    BY ConformanceAssumption DEF Init, Unfinished, Unstarted, Attached, Signalled
<1> QED BY <1>1, <1>2 DEF IInv

\* The drop ends a test: it touches its `ctr run' and its signal only.
LEMMA EndEffect ==
    ASSUME TypeOK, NEW t \in Test, NEW v \in {"ok", "failed"}, End(t, v)
    PROVE  /\ stage' \in [Test -> {"idle", "services", "push", "pull", "start", "connect",
                                   "check", "ready", "send", "sent", "received", "over"}]
           /\ stage'[t] = "over"
           /\ \A u \in Test : u # t => stage'[u] = stage[u] /\ ctr'[u] = ctr[u]
           /\ verdict' \in [Test -> {"none", "ok", "failed"}]
           /\ ctr' \in [Test -> {"none", "early", "attached", "exited"}]
           /\ sigterm' \in [Test -> {"none", "ctr", "lost", "handled", "late"}]
           /\ task' = task
<1>1. stage' = [stage EXCEPT ![t] = "over"] /\ verdict' = [verdict EXCEPT ![t] = v] /\ drop(t)
    BY DEF End, Goto
<1>2. sigterm' \in [Test -> {"none", "ctr", "lost", "handled", "late"}]
    <2> DEFINE sent == CASE ctr[t] = "none"   -> "none"
                         [] ctr[t] = "early"  -> "ctr"
                         [] ctr[t] = "exited" -> "late"
                         [] OTHER -> IF task[t] = "setup" THEN "lost" ELSE "handled"
    <2>1. sigterm' = [sigterm EXCEPT ![t] = sent]
        BY <1>1 DEF drop
    <2>2. sent \in {"none", "ctr", "lost", "handled", "late"}
        BY DEF TypeOK
    <2> HIDE DEF sent
    <2> QED BY <2>1, <2>2 DEF TypeOK
<1>3. ctr' = [ctr EXCEPT ![t] = IF @ = "early" THEN "exited" ELSE @] /\ task' = task
    BY <1>1 DEF drop
<1> QED BY <1>1, <1>2, <1>3 DEF TypeOK

\* What a step of a test's thread may do.
LEMMA HarnessEffect ==
    ASSUME IInv, NEW t \in Test, Harness(t)
    PROVE  /\ TypeOK' /\ task' = task
           /\ \A u \in Test : u # t => stage'[u] = stage[u] /\ left'[u] = left[u]
                                       /\ port'[u] = port[u]
           /\ stage'[t] # "over" => left'[t] > 0
           /\ port'[t] # port[t] => stage[t] = "start"
           /\ \A u \in Test : stage'[u] \in Before => stage[u] \in Before /\ ctr'[u] = ctr[u]
           /\ left'[t] < left[t] => ~try_wait(t)
<1> USE DEF IInv
<1>1. ASSUME NEW s \in {"services", "push", "pull", "start", "connect", "check", "ready",
                        "send", "sent", "received", "over"}, Goto(t, s)
      PROVE  /\ stage' = [stage EXCEPT ![t] = s]
             /\ stage' \in [Test -> {"idle", "services", "push", "pull", "start", "connect",
                                     "check", "ready", "send", "sent", "received", "over"}]
             /\ stage'[t] = s /\ \A u \in Test : u # t => stage'[u] = stage[u]
    BY <1>1 DEF Goto, TypeOK
<1>2. stage[t] # "over" /\ left[t] \in Nat /\ left[t] > 0
    BY ConformanceAssumption DEF Harness, Preconditions, Services, registry_push, image_pull, Prepare, start,
       Connect, Check, Ready, Send, Receive, Accept, Unfinished, TypeOK
<1>3. CASE Preconditions(t) \/ Services(t) \/ registry_push(t) \/ image_pull(t)
    <2>1. PICK from \in Before, to \in {"services", "push", "pull", "start"} : Prepare(t, from, to)
        BY <1>3 DEF Preconditions, Services, registry_push, image_pull, Before
    <2>2. stage[t] \in Before /\ UNCHANGED <<port, tries, left, answer>>
        BY <2>1 DEF Prepare
    <2>3. CASE Goto(t, to) /\ UNCHANGED <<verdict, Container>>
        BY <1>1, <1>2, <2>2, <2>3 DEF Container, TypeOK
    <2>4. CASE End(t, "failed")
        BY <1>2, <2>2, <2>4, EndEffect DEF TypeOK, Before
    <2> QED BY <2>1, <2>3, <2>4 DEF Prepare
<1>4. CASE start(t)
    <2>1. stage[t] = "start" /\ UNCHANGED <<tries, left, answer>>
        BY <1>4 DEF start
    <2>2. CASE End(t, "failed") /\ UNCHANGED port
        BY <1>2, <2>1, <2>2, EndEffect DEF TypeOK, Before
    <2>3. CASE /\ \E p \in Free : port' = [port EXCEPT ![t] = p]
               /\ ctr' = [ctr EXCEPT ![t] = "early"]
               /\ Goto(t, "connect")
               /\ UNCHANGED <<verdict, task, sigterm>>
        <3>1. Free \subseteq Port
            BY DEF Free
        <3> QED BY <1>1, <1>2, <2>1, <2>3, <3>1 DEF TypeOK, Before
    <2> QED BY <1>4, <2>2, <2>3 DEF start
<1>5. CASE Connect(t)
    BY <1>1, <1>2, <1>5 DEF Connect, Container, TypeOK, Before
<1>6. CASE Check(t)
    <2>1. stage[t] = "check" /\ UNCHANGED <<port, left, answer>>
        BY <1>6 DEF Check
    <2>2. CASE End(t, "failed") /\ UNCHANGED tries
        BY <1>2, <2>1, <2>2, EndEffect DEF TypeOK, Before
    <2>3. CASE /\ tries[t] < MaxTries
               /\ Goto(t, "connect")
               /\ tries' = [tries EXCEPT ![t] = @ + 1]
               /\ UNCHANGED <<verdict, Container>>
        <3>1. tries' \in [Test -> 0..MaxTries]
            BY <2>3, ConformanceAssumption DEF TypeOK
        <3> QED BY <1>1, <1>2, <2>1, <2>3, <3>1 DEF Container, TypeOK, Before
    <2> QED BY <1>6, <2>2, <2>3 DEF Check
<1>7. CASE Ready(t)
    <2>1. CASE End(t, "failed")
        BY <1>2, <1>7, <2>1, EndEffect DEF Ready, TypeOK, Before
    <2>2. CASE Goto(t, "send") /\ UNCHANGED <<verdict, Container>>
        BY <1>1, <1>2, <1>7, <2>2 DEF Ready, Container, TypeOK, Before
    <2> QED BY <1>7, <2>1, <2>2 DEF Ready
<1>8. CASE Send(t)
    <2>1. stage[t] = "send" /\ UNCHANGED <<port, tries, left>>
        BY <1>8 DEF Send
    <2>2. CASE End(t, "failed") /\ UNCHANGED answer
        BY <1>2, <2>1, <2>2, EndEffect DEF TypeOK, Before
    <2>3. CASE /\ \E u \in Listeners(port[t]) : answer' = [answer EXCEPT ![t] = u]
               /\ Goto(t, "sent")
               /\ UNCHANGED <<verdict, Container>>
        <3>1. answer' \in [Test -> Test \cup {Nobody}]
            BY <2>3 DEF Listeners, TypeOK
        <3> QED BY <1>1, <1>2, <2>1, <2>3, <3>1 DEF Container, TypeOK, Before
    <2> QED BY <1>8, <2>2, <2>3 DEF Send
<1>9. CASE Receive(t)
    <2>1. CASE End(t, "failed")
        BY <1>2, <1>9, <2>1, EndEffect DEF Receive, TypeOK, Before
    <2>2. CASE Goto(t, "received") /\ UNCHANGED <<verdict, Container>>
        BY <1>1, <1>2, <1>9, <2>2 DEF Receive, Container, TypeOK, Before
    <2> QED BY <1>9, <2>1, <2>2 DEF Receive
<1>10. CASE Accept(t)
    <2>1. stage[t] = "received" /\ UNCHANGED <<port, tries, answer>>
        BY <1>10 DEF Accept
    <2>2. CASE End(t, "failed") /\ UNCHANGED left
        BY <1>2, <2>1, <2>2, EndEffect DEF TypeOK, Before
    <2>3. CASE ~try_wait(t) /\ Take(t)
        <3>1. left' = [left EXCEPT ![t] = @ - 1]
            BY <2>3 DEF Take
        <3>2. /\ left' \in [Test -> 0..Requests] /\ left'[t] = left[t] - 1
              /\ \A u \in Test : u # t => left'[u] = left[u]
            BY <1>2, <3>1, ConformanceAssumption DEF TypeOK
        <3>3. CASE left[t] > 1 /\ Goto(t, "ready") /\ UNCHANGED <<verdict, Container>>
            BY <1>1, <1>2, <2>1, <2>3, <3>2, <3>3 DEF Container, TypeOK, Before
        <3>4. CASE \E v \in {"ok", "failed"} : End(t, v)
            BY <1>2, <2>1, <2>3, <3>2, <3>4, EndEffect DEF TypeOK, Before
        <3> QED BY <2>3, <3>3, <3>4 DEF Take
    <2> QED BY <1>10, <2>2, <2>3 DEF Accept
<1> QED BY <1>3, <1>4, <1>5, <1>6, <1>7, <1>8, <1>9, <1>10 DEF Harness

\* What it may do to the process and the signal.
LEMMA SignalEffect ==
    ASSUME IInv, NEW t \in Test, Harness(t)
    PROVE  /\ \A u \in Test : u # t => ctr'[u] = ctr[u] /\ sigterm'[u] = sigterm[u]
           /\ \/ /\ stage'[t] # "over" /\ sigterm' = sigterm
                 /\ ctr' = ctr \/ (ctr[t] = "none" /\ ctr'[t] = "early")
              \/ /\ stage'[t] = "over"
                 /\ \/ ctr[t] \in {"early", "exited"} /\ ctr'[t] = "exited"
                    \/ ctr[t] = "none" /\ ctr'[t] = "none"
                    \/ /\ ctr[t] = "attached" /\ ctr'[t] = "attached"
                       /\ sigterm'[t] = IF task[t] = "setup" THEN "lost" ELSE "handled"
<1> USE DEF IInv
<1>1. CASE \E v \in {"ok", "failed"} : End(t, v)
    BY <1>1 DEF End, Goto, drop, TypeOK
<1>2. CASE ~\E v \in {"ok", "failed"} : End(t, v)
    <2>1. CASE start(t)
        BY <1>2, <2>1 DEF start, Goto, Unstarted, Before, TypeOK
    <2>2. CASE ~start(t)
        <3>1. UNCHANGED Container /\ \E s \in {"services", "push", "pull", "start", "connect",
                  "check", "ready", "send", "sent", "received"} : Goto(t, s)
            BY <1>2, <2>2 DEF Harness, Preconditions, Services, registry_push, image_pull,
               Prepare, Connect, Check, Ready, Send, Receive, Accept, Take
        <3> QED BY <3>1 DEF Container, Goto, TypeOK
    <2> QED BY <2>1, <2>2
<1> QED BY <1>1, <1>2

LEMMA HarnessIInv == ASSUME IInv, NEW t \in Test, Harness(t) PROVE IInv'
<1> USE DEF IInv
<1>1. TypeOK' /\ Unfinished'
    BY HarnessEffect DEF Unfinished
<1>2. Unstarted'
    BY HarnessEffect DEF Unstarted
<1>3. Attached'
    BY HarnessEffect, SignalEffect DEF Attached
<1>4. Signalled'
    <2>1. task' = task /\ \A u \in Test : u # t => stage'[u] = stage[u]
        BY HarnessEffect
    <2>2. \A u \in Test : task[u] \in {"none", "setup", "running", "listening", "exited"}
        BY DEF TypeOK
    <2> QED BY <2>1, <2>2, SignalEffect DEF Signalled, Attached
<1> QED BY <1>1, <1>2, <1>3, <1>4

\* What happens to `ctr run' and the container leaves the harness alone.
LEMMA ContainerIInv ==
    ASSUME IInv, NEW t \in Test, Ctr(t) \/ Handle(t) \/ Bind(t) \/ TaskEnds(t)
    PROVE  IInv'
<1> USE DEF IInv, Ctr
<1>1. UNCHANGED <<stage, port, tries, left, answer, verdict, sigterm>>
    BY DEF Attach, CtrExits, Handle, Bind, TaskEnds, Thread
<1>2. /\ ctr' \in [Test -> {"none", "early", "attached", "exited"}]
      /\ task' \in [Test -> {"none", "setup", "running", "listening", "exited"}]
      /\ ctr[t] # "none" \/ task[t] # "none"
      /\ \A u \in Test : u # t => ctr'[u] = ctr[u] /\ task'[u] = task[u]
    BY DEF Attach, CtrExits, Handle, Bind, TaskEnds, TypeOK
<1>3. TypeOK' /\ Unfinished'
    BY <1>1, <1>2 DEF TypeOK, Unfinished
<1>4. Unstarted'
    BY <1>1, <1>2 DEF Unstarted
<1>5. Attached'
    BY <1>2 DEF Attach, CtrExits, Handle, Bind, TaskEnds, Attached, TypeOK
<1>6. Signalled'
    BY <1>1, <1>2 DEF Attach, CtrExits, Handle, Bind, TaskEnds, Attached, Signalled, TypeOK
<1> QED BY <1>3, <1>4, <1>5, <1>6

LEMMA NextIInv == IInv /\ [Next]_vars => IInv'
<1> SUFFICES ASSUME IInv, [Next]_vars PROVE IInv'
    OBVIOUS
<1>1. CASE UNCHANGED vars
    BY <1>1 DEF vars, IInv, TypeOK, Unfinished, Unstarted, Attached, Signalled
<1>2. CASE \E t \in Test : Harness(t) \/ Ctr(t) \/ Handle(t) \/ Bind(t) \/ TaskEnds(t)
    BY <1>2, HarnessIInv, ContainerIInv
<1> QED BY <1>1, <1>2 DEF Next, Finished

LEMMA AlwaysIInv == Spec => []IInv
<1>1. Init => IInv
    BY InitIInv
<1>2. IInv /\ [Next]_vars => IInv'
    BY NextIInv
<1> QED BY <1>1, <1>2, PTL DEF Spec

----------------------------------------------------------------------------
\* Every variable keeps its type; in particular a test never runs more invocations
\* than it has, nor tries to connect more often than two minutes allow.
THEOREM TypeCorrect == Spec => []TypeOK
<1>1. IInv => TypeOK
    BY DEF IInv
<1> QED BY <1>1, AlwaysIInv, PTL

\* No test ends without SIGTERM having been sent for what it started: what is left
\* then is a container that heard it, or one that could not hear it yet.
THEOREM EndsSignalled == Spec => []Signalled
<1>1. IInv => Signalled
    BY DEF IInv
<1> QED BY <1>1, AlwaysIInv, PTL

\* No answer that was taken after `ctr run' exited counts: every invocation that is
\* passed was followed by a look at the process.
THEOREM ExitIsNoticed == Spec => FailsAfterExit
<1>1. ASSUME IInv, [Next]_vars, NEW t \in Test, left'[t] < left[t]
      PROVE  ctr[t] # "exited"
    <2>1. CASE UNCHANGED left
        <3>1. left[t] \in Nat
            BY <1>1, ConformanceAssumption DEF IInv, TypeOK
        <3> QED BY <1>1, <2>1, <3>1
    <2>2. CASE \E u \in Test : Harness(u)
        <3>1. PICK u \in Test : Harness(u)
            BY <2>2
        <3>2. CASE u = t
            BY <1>1, <3>1, <3>2, HarnessEffect DEF try_wait
        <3>3. CASE u # t
            <4>1. left'[t] = left[t] /\ left[t] \in Nat
                BY <1>1, <3>1, <3>3, HarnessEffect, ConformanceAssumption DEF IInv, TypeOK
            <4> QED BY <1>1, <4>1
        <3> QED BY <3>2, <3>3
    <2> QED BY <1>1, <2>1, <2>2 DEF Next, Finished, vars, Ctr, Attach, CtrExits, Handle, Bind,
            TaskEnds, Thread
<1>2. IInv /\ [Next]_vars => [\A t \in Test : left'[t] < left[t] => ctr[t] # "exited"]_vars
    BY <1>1
<1> QED BY <1>2, AlwaysIInv, PTL DEF Spec, FailsAfterExit
=============================================================================
