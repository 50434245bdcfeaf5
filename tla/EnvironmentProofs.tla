------------------------- MODULE EnvironmentProofs ---------------------------
(* Theorems about Environment, for all variables, values and lists of       *)
(* container variables.                                                     *)
EXTENDS Environment, TLAPS

PrefixedUpTo(n) == {Prefixed[Variables[k]] : k \in 1..n}

\* These names have the values the container gave them.
KeepsGiven(keys) == \A key \in keys : env[key] = Given(key)

PlainAt(m) ==
    /\ Own[Variables[m]] \notin ShimKeys
    /\ \A k \in 1..(m - 1) : Own[Variables[m]] # Prefixed[Variables[k]]

\* The first n application variables are done, the plain ones as they were meant.
MeantUpTo(n) ==
    \A m \in 1..n : PlainAt(m) => env[Prefixed[Variables[m]]] = Meant(Variables[m])

\* How much of the environment is the container's own, from step to step.
Progress ==
    /\ pc = "export" =>
           /\ at \in 1..(Len(container) + 1)
           /\ \A key \in Key : env[key] = LastUpTo(key, at - 1)
    /\ pc = "cache" => KeepsGiven(Key)
    /\ pc = "layers" => KeepsGiven(Key \ ShimKeys)
    /\ pc = "configure" =>
           /\ at \in 1..(Len(Variables) + 1)
           /\ KeepsGiven(Key \ (ShimKeys \cup PrefixedUpTo(at - 1)))
           /\ MeantUpTo(at - 1)
    /\ pc \in {"triggers", "serve", "error"} =>
           /\ KeepsGiven(Key \ (ShimKeys \cup PrefixedUpTo(Len(Variables))))
           /\ MeantUpTo(Len(Variables))

Late == {"layers", "configure", "triggers", "serve", "error"}

\* The two names the shim sets itself, and the ones that triggers take options from.
Settings ==
    /\ pc \in Late => env["XDG_CACHE_HOME"] = CacheDir
    /\ pc \in Late /\ Given("TMPDIR") # Unset => env["TMPDIR"] = Given("TMPDIR")
    /\ \A key \in OptionKeys : env[key] \in Value \cup {Unset}

\* Triggers are built when the environment is complete.
BuiltLast == built # {} => pc \in {"triggers", "serve", "error"}

IInv == TypeOK /\ Progress /\ Settings /\ BuiltLast /\ OptionsAsGiven

----------------------------------------------------------------------------
\* One more entry takes the place of the earlier ones of its name.
LEMMA LastUpToNext ==
    ASSUME NEW key, NEW n \in Nat
    PROVE  LastUpTo(key, n + 1) =
               IF container[n + 1][1] = key THEN container[n + 1][2] ELSE LastUpTo(key, n)
<1>1. CASE container[n + 1][1] = key
    <2> DEFINE all  == EntriesUpTo(key, n + 1)
               last == Latest(all)
    <2>1. n + 1 \in all /\ \A m \in all : m \in Nat /\ m <= n + 1
        BY <1>1 DEF EntriesUpTo
    <2>2. LastUpTo(key, n + 1) = container[last][2]
        BY <2>1 DEF LastUpTo
    <2> HIDE DEF all
    <2>3. last \in all /\ \A k \in all : k <= last
        BY <2>1 DEF Latest
    <2> HIDE DEF last
    <2>4. last = n + 1
        BY <2>1, <2>3
    <2> QED BY <1>1, <2>2, <2>4
<1>2. CASE container[n + 1][1] # key
    <2>1. EntriesUpTo(key, n + 1) = EntriesUpTo(key, n)
        BY <1>2 DEF EntriesUpTo
    <2> QED BY <1>2, <2>1 DEF LastUpTo
<1> QED BY <1>1, <1>2

LEMMA LastUpToNone == \A key : LastUpTo(key, 0) = Unset
<1>1. 1..0 = {}
    OBVIOUS
<1>2. \A key : EntriesUpTo(key, 0) = {}
    BY <1>1 DEF EntriesUpTo
<1> QED BY <1>2 DEF LastUpTo

\* What the container gives does not change with the environment.
LEMMA GivenFrame ==
    ASSUME container' = container
    PROVE  /\ \A key, n : LastUpTo(key, n)' = LastUpTo(key, n)
           /\ \A key : Given(key)' = Given(key)
           /\ \A v : Meant(v)' = Meant(v)
BY DEF LastUpTo, EntriesUpTo, Given, Meant

\* No name under the prefix is one of the shim's or of the triggers' options.
LEMMA PrefixedApart ==
    \A n \in 0..Len(Variables) : PrefixedUpTo(n) \cap (ShimKeys \cup OptionKeys) = {}
BY EnvironmentAssumption DEF PrefixedUpTo

LEMMA EntryType ==
    ASSUME TypeOK, NEW n \in DOMAIN container
    PROVE  container[n][1] \in Key \cup {NoName} /\ container[n][2] \in Value
<1>1. container \in Seq((Key \cup {NoName}) \X Value)
    BY EnvironmentAssumption DEF TypeOK
<1> QED BY <1>1

LEMMA ContainerSeq == TypeOK => Len(container) \in Nat /\ DOMAIN container = 1..Len(container)
<1>1. TypeOK => container \in Seq((Key \cup {NoName}) \X Value)
    BY EnvironmentAssumption DEF TypeOK
<1> QED BY <1>1

LEMMA InitIInv == Init => IInv
<1> SUFFICES ASSUME Init PROVE IInv
    OBVIOUS
<1> USE DEF Init
<1>1. TypeOK
    BY DEF TypeOK
<1>2. Progress
    <2>1. Len(container) \in Nat
        BY <1>1, ContainerSeq
    <2> QED BY <2>1, LastUpToNone DEF Progress
<1>3. Settings
    BY EnvironmentAssumption DEF Settings, Late
<1>4. BuiltLast /\ OptionsAsGiven
    BY DEF BuiltLast, OptionsAsGiven
<1> QED BY <1>1, <1>2, <1>3, <1>4 DEF IInv

LEMMA ExportIInv == ASSUME IInv, Export PROVE IInv'
<1> USE DEF IInv
<1> DEFINE key == container[at][1]
<1>0. pc = "export" /\ built = {} /\ at \in 1..Len(container) /\ at \in DOMAIN container
    BY ContainerSeq DEF Export, BuiltLast, Progress
<1>1. CASE key = NoName
    <2> USE <1>1 DEF Export, Goto, Triggers
    <2>1. pc' = "panic" /\ UNCHANGED <<container, archive, at, env, toBuild, built>>
        BY <1>1
    <2>2. TypeOK'
        BY <2>1 DEF TypeOK
    <2>3. Progress' /\ BuiltLast' /\ OptionsAsGiven'
        BY <1>0, <2>1 DEF Progress, BuiltLast, OptionsAsGiven
    <2>4. Settings'
        BY <2>1 DEF Settings, Late
    <2> QED BY <2>2, <2>3, <2>4
<1>2. CASE key # NoName
    <2>1. /\ env' = [env EXCEPT ![key] = container[at][2]]
          /\ at' = at + 1 /\ pc' = "export"
          /\ UNCHANGED <<container, archive, toBuild, built>>
        BY <1>2 DEF Export, Goto, Triggers, SetVar
    <2>2. key \in Key /\ container[at][2] \in Value
        BY <1>0, <1>2, EntryType
    <2>3. TypeOK'
        BY <2>1, <2>2 DEF TypeOK
    <2>4. Progress'
        <3> SUFFICES ASSUME NEW k \in Key
                     PROVE  env'[k] = LastUpTo(k, at' - 1)
            BY <1>0, <2>1, ContainerSeq, GivenFrame DEF Progress
        <3>1. at - 1 \in Nat /\ (at - 1) + 1 = at /\ at' - 1 = at
            BY <1>0, <2>1
        <3>2. LastUpTo(k, at) = IF key = k THEN container[at][2] ELSE LastUpTo(k, at - 1)
            BY <3>1, LastUpToNext
        <3>3. env[k] = LastUpTo(k, at - 1)
            BY <1>0 DEF Progress
        <3> QED BY <2>1, <2>2, <3>1, <3>2, <3>3 DEF TypeOK
    <2>5. Settings'
        BY <2>1, <2>2, EnvironmentAssumption DEF Settings, Late, TypeOK
    <2>6. BuiltLast' /\ OptionsAsGiven'
        BY <1>0, <2>1 DEF BuiltLast, OptionsAsGiven
    <2> QED BY <2>3, <2>4, <2>5, <2>6
<1> QED BY <1>1, <1>2

LEMMA ExportedIInv == ASSUME IInv, Exported PROVE IInv'
<1> USE DEF IInv
<1>1. /\ pc = "export" /\ pc' = "cache" /\ at = Len(container) + 1
      /\ UNCHANGED <<container, archive, at, env, toBuild, built>>
    BY ContainerSeq DEF Exported, Goto, Triggers, Progress
<1>2. TypeOK'
    BY <1>1 DEF TypeOK
<1>3. Progress'
    BY <1>1, ContainerSeq, GivenFrame DEF Progress, KeepsGiven, Given
<1>4. Settings' /\ BuiltLast' /\ OptionsAsGiven'
    BY <1>1 DEF Settings, Late, BuiltLast, OptionsAsGiven
<1> QED BY <1>2, <1>3, <1>4

LEMMA CacheIInv == ASSUME IInv, initialize_cache PROVE IInv'
<1> USE DEF IInv
<1>1. /\ pc = "cache" /\ pc' = "layers" /\ env' = [env EXCEPT !["XDG_CACHE_HOME"] = CacheDir]
      /\ UNCHANGED <<container, archive, at, toBuild, built>>
    BY DEF initialize_cache, Goto, Triggers, SetVar
<1>2. ShimKeys \cup OptionKeys \subseteq Key /\ env \in [Key -> Value \cup {Unset, CacheDir, WorkingDir}]
    BY EnvironmentAssumption DEF TypeOK
<1>3. TypeOK'
    BY <1>1, <1>2 DEF TypeOK
<1>4. Progress'
    BY <1>1, <1>2, GivenFrame DEF Progress, KeepsGiven, ShimKeys
<1>5. Settings'
    BY <1>1, <1>2, GivenFrame DEF Settings, Late, Progress, KeepsGiven, ShimKeys, OptionKeys
<1>6. BuiltLast' /\ OptionsAsGiven'
    BY <1>1 DEF BuiltLast, OptionsAsGiven
<1> QED BY <1>3, <1>4, <1>5, <1>6

LEMMA ArchiveIInv == ASSUME IInv, handle_archive_layer PROVE IInv'
<1> USE DEF IInv
<1>1. /\ pc = "layers" /\ archive' = FALSE /\ UNCHANGED <<container, pc, at, toBuild, built>>
      /\ env' = IF env["TMPDIR"] = Unset THEN [env EXCEPT !["TMPDIR"] = WorkingDir] ELSE env
    BY DEF handle_archive_layer, Triggers, SetVar
<1>2. ShimKeys \cup OptionKeys \subseteq Key /\ env \in [Key -> Value \cup {Unset, CacheDir, WorkingDir}]
    BY EnvironmentAssumption DEF TypeOK
<1>3. TypeOK'
    BY <1>1, <1>2 DEF TypeOK
<1>4. Progress'
    BY <1>1, <1>2, GivenFrame DEF Progress, KeepsGiven, ShimKeys
<1>5. Settings'
    BY <1>1, <1>2, GivenFrame DEF Settings, Late, ShimKeys, OptionKeys
<1>6. BuiltLast' /\ OptionsAsGiven'
    BY <1>1 DEF BuiltLast, OptionsAsGiven
<1> QED BY <1>3, <1>4, <1>5, <1>6

LEMMA LoadedIInv == ASSUME IInv, Loaded PROVE IInv'
<1> USE DEF IInv
<1>1. /\ pc = "layers" /\ pc' = "configure" /\ at' = 1
      /\ UNCHANGED <<container, archive, env, toBuild, built>>
    BY DEF Loaded, Goto, Triggers
<1>2. TypeOK'
    BY <1>1 DEF TypeOK
<1>3. Progress'
    <2>1. Len(Variables) \in Nat
        BY EnvironmentAssumption
    <2>2. PrefixedUpTo(0) = {}
        BY DEF PrefixedUpTo
    <2> QED BY <1>1, <2>1, <2>2, GivenFrame DEF Progress, KeepsGiven, MeantUpTo
<1>4. Settings'
    BY <1>1, GivenFrame DEF Settings, Late
<1>5. BuiltLast' /\ OptionsAsGiven'
    BY <1>1 DEF BuiltLast, OptionsAsGiven
<1> QED BY <1>2, <1>3, <1>4, <1>5

\* One application variable more: it gets the value it was meant to have, if it is
\* plain, and no variable before it loses its own.
LEMMA ConfigureIInv == ASSUME IInv, ConfigureVariable PROVE IInv'
<1> USE DEF IInv
<1> DEFINE own  == Own[Variables[at]]
           pref == Prefixed[Variables[at]]
<1>1. /\ pc = "configure" /\ pc' = "configure" /\ at' = at + 1
      /\ env' = IF env[own] # Unset THEN [env EXCEPT ![pref] = env[own]] ELSE env
      /\ UNCHANGED <<container, archive, toBuild, built>>
    BY DEF ConfigureVariable, Goto, Triggers, SetVar
<1>2. /\ Variables \in Seq(DOMAIN Prefixed) /\ Len(Variables) \in Nat
      /\ at \in 1..Len(Variables) /\ at \in DOMAIN Variables
    BY EnvironmentAssumption DEF ConfigureVariable, Progress
<1>3. /\ own \in Key /\ pref \in Key /\ pref \notin ShimKeys \cup OptionKeys
      /\ \A m \in 1..(at - 1) : Prefixed[Variables[m]] # pref
    BY <1>2, EnvironmentAssumption
<1>4. env \in [Key -> Value \cup {Unset, CacheDir, WorkingDir}] /\ ShimKeys \cup OptionKeys \subseteq Key
    BY EnvironmentAssumption DEF TypeOK
<1>5. TypeOK'
    BY <1>1, <1>2, <1>3, <1>4 DEF TypeOK
<1>6. KeepsGiven(Key \ (ShimKeys \cup PrefixedUpTo(at - 1))) /\ MeantUpTo(at - 1)
    BY <1>1 DEF Progress
<1>7. PrefixedUpTo(at) = PrefixedUpTo(at - 1) \cup {pref}
    BY <1>2 DEF PrefixedUpTo
<1>8. Progress'
    <2>1. \A k \in Key \ (ShimKeys \cup PrefixedUpTo(at)) : env'[k] = Given(k)
        BY <1>1, <1>3, <1>4, <1>6, <1>7 DEF KeepsGiven
    <2>2. ASSUME NEW m \in 1..at, PlainAt(m)
          PROVE  env'[Prefixed[Variables[m]]] = Meant(Variables[m])
        <3>1. CASE m # at
            <4>1. m \in 1..(at - 1)
                BY <1>2, <3>1
            <4>2. env[Prefixed[Variables[m]]] = Meant(Variables[m])
                BY <1>6, <2>2, <4>1 DEF MeantUpTo
            <4>3. Prefixed[Variables[m]] # pref
                BY <1>3, <4>1
            <4> QED BY <1>1, <1>4, <4>2, <4>3
        <3>2. CASE m = at
            <4>1. own \notin ShimKeys \cup PrefixedUpTo(at - 1)
                BY <2>2, <3>2 DEF PlainAt, PrefixedUpTo
            <4>2. pref \notin ShimKeys \cup PrefixedUpTo(at - 1)
                BY <1>3 DEF PrefixedUpTo
            <4>3. env[own] = Given(own) /\ env[pref] = Given(pref)
                BY <1>3, <1>6, <4>1, <4>2 DEF KeepsGiven
            <4>4. env'[pref] = IF env[own] # Unset THEN env[own] ELSE env[pref]
                BY <1>1, <1>3, <1>4
            <4> QED BY <3>2, <4>3, <4>4 DEF Meant
        <3> QED BY <3>1, <3>2
    <2>3. at' - 1 = at /\ at' \in 1..(Len(Variables) + 1)
        BY <1>1, <1>2
    <2>4. KeepsGiven(Key \ (ShimKeys \cup PrefixedUpTo(at - 1)))'
        BY <1>1, <2>1, <2>3, GivenFrame DEF KeepsGiven
    <2>5. MeantUpTo(at - 1)'
        BY <1>1, <2>2, <2>3, GivenFrame DEF MeantUpTo, PlainAt
    <2> QED BY <1>1, <2>3, <2>4, <2>5 DEF Progress
<1>9. Settings'
    BY <1>1, <1>3, <1>4, GivenFrame DEF Settings, Late, ShimKeys, OptionKeys
<1>10. BuiltLast' /\ OptionsAsGiven'
    BY <1>1 DEF BuiltLast, OptionsAsGiven
<1> QED BY <1>5, <1>8, <1>9, <1>10

LEMMA ConfiguredIInv == ASSUME IInv, Configured PROVE IInv'
<1> USE DEF IInv
<1>1. /\ pc = "configure" /\ pc' = "triggers" /\ at = Len(Variables) + 1
      /\ UNCHANGED <<container, archive, at, env, toBuild, built>>
    BY EnvironmentAssumption DEF Configured, Goto, Triggers, Progress
<1>2. TypeOK'
    BY <1>1 DEF TypeOK
<1>3. Progress'
    <2>1. at - 1 = Len(Variables)
        BY <1>1, EnvironmentAssumption
    <2> QED BY <1>1, <2>1, GivenFrame DEF Progress, KeepsGiven, MeantUpTo
<1>4. Settings'
    BY <1>1, GivenFrame DEF Settings, Late
<1>5. BuiltLast' /\ OptionsAsGiven'
    BY <1>1 DEF BuiltLast, OptionsAsGiven
<1> QED BY <1>2, <1>3, <1>4, <1>5

\* Every option is read as it was given.
LEMMA BuildIInv == ASSUME IInv, NEW t \in Types, BuildTrigger(t) PROVE IInv'
<1> USE DEF IInv
<1>0. pc = "triggers" /\ UNCHANGED <<container, archive, at, env>>
    BY DEF BuildTrigger, Goto, Triggers
<1>1. \A key \in OptionKeys : env[key] = Given(key) /\ env[key] \in Value \cup {Unset}
    <2>1. OptionKeys \subseteq Key \ (ShimKeys \cup PrefixedUpTo(Len(Variables)))
        <3>1. Len(Variables) \in 0..Len(Variables)
            BY EnvironmentAssumption
        <3>2. OptionKeys \cap ShimKeys = {}
            BY DEF OptionKeys, ShimKeys
        <3> QED BY <3>1, <3>2, PrefixedApart, EnvironmentAssumption
    <2> QED BY <1>0, <2>1 DEF Progress, KeepsGiven, Settings
<1>2. Settings'
    BY <1>0, GivenFrame DEF Settings, Late, BuildTrigger, Goto
<1>3. CASE pc' = "triggers" /\ toBuild' = toBuild \ {t} /\ built' = built \cup {Trigger(t)}
            /\ (t = "http" => parse_addr(Address))
    <2>1. /\ Trigger(t).type = t
          /\ Trigger(t).app_id = Var("HOSTNAME", Unknown)
          /\ Trigger(t).max_instance_memory = Limit
          /\ t = "http" => Trigger(t).address = Address
        BY DEF Trigger
    <2>2. TypeOK'
        <3>1. Trigger(t) \in [type : Types, app_id : Value \cup {Unknown},
                              address : Valid \cup {DefaultAddr, Unset},
                              max_instance_memory : Valid \cup {Unset}]
            <4>1. Var("HOSTNAME", Unknown) \in Value \cup {Unknown}
                BY <1>1 DEF Var, OptionKeys
            <4>2. Limit \in Valid \cup {Unset}
                BY DEF Limit
            <4>3. (IF t = "http" THEN Address ELSE Unset) \in Valid \cup {DefaultAddr, Unset}
                BY <1>3 DEF parse_addr
            <4> QED BY <4>1, <4>2, <4>3 DEF Trigger
        <3> QED BY <1>0, <1>3, <3>1 DEF TypeOK
    <2>3. Progress'
        BY <1>0, <1>3, GivenFrame DEF Progress, KeepsGiven, MeantUpTo
    <2>4. OptionsAsGiven'
        <3>1. /\ Address = IF Given("SPIN_HTTP_LISTEN_ADDR") = Unset THEN DefaultAddr
                           ELSE Given("SPIN_HTTP_LISTEN_ADDR")
              /\ Limit = IF Given("SPIN_MAX_INSTANCE_MEMORY") \in Valid
                         THEN Given("SPIN_MAX_INSTANCE_MEMORY") ELSE Unset
              /\ Var("HOSTNAME", Unknown) = IF Given("HOSTNAME") = Unset THEN Unknown
                                            ELSE Given("HOSTNAME")
            BY <1>1 DEF Address, Limit, Var, OptionKeys
        <3> QED BY <1>0, <1>3, <2>1, <3>1, GivenFrame DEF OptionsAsGiven
    <2> QED BY <1>2, <1>3, <2>2, <2>3, <2>4 DEF BuiltLast
<1>4. CASE pc' = "error" /\ UNCHANGED <<toBuild, built>>
    <2>1. TypeOK'
        BY <1>0, <1>4 DEF TypeOK
    <2>2. Progress'
        BY <1>0, <1>4, GivenFrame DEF Progress, KeepsGiven, MeantUpTo
    <2>3. OptionsAsGiven'
        BY <1>0, <1>4, GivenFrame DEF OptionsAsGiven
    <2> QED BY <1>2, <1>4, <2>1, <2>2, <2>3 DEF BuiltLast
<1> QED BY <1>0, <1>3, <1>4 DEF BuildTrigger, Goto, Triggers

LEMMA ServeIInv == ASSUME IInv, Serve PROVE IInv'
<1> USE DEF IInv
<1>1. /\ pc = "triggers" /\ pc' = "serve"
      /\ UNCHANGED <<container, archive, at, env, toBuild, built>>
    BY DEF Serve, Goto, Triggers
<1>2. TypeOK'
    BY <1>1 DEF TypeOK
<1>3. Progress'
    BY <1>1, GivenFrame DEF Progress, KeepsGiven, MeantUpTo
<1>4. Settings'
    BY <1>1, GivenFrame DEF Settings, Late
<1>5. BuiltLast' /\ OptionsAsGiven'
    BY <1>1, GivenFrame DEF BuiltLast, OptionsAsGiven
<1> QED BY <1>2, <1>3, <1>4, <1>5

LEMMA StutterIInv == ASSUME IInv, UNCHANGED vars PROVE IInv'
<1> USE DEF IInv, vars
<1>1. TypeOK'
    BY DEF TypeOK
<1>2. Progress'
    BY GivenFrame DEF Progress, KeepsGiven, MeantUpTo
<1>3. Settings'
    BY GivenFrame DEF Settings
<1>4. BuiltLast' /\ OptionsAsGiven'
    BY GivenFrame DEF BuiltLast, OptionsAsGiven
<1> QED BY <1>1, <1>2, <1>3, <1>4

LEMMA NextIInv == IInv /\ [Next]_vars => IInv'
BY ExportIInv, ExportedIInv, CacheIInv, ArchiveIInv, LoadedIInv, ConfigureIInv, ConfiguredIInv,
   BuildIInv, ServeIInv, StutterIInv DEF Next, Ended

LEMMA Invariant == Spec => []IInv
<1>1. Init => IInv
    BY InitIInv
<1>2. IInv /\ [Next]_vars => IInv'
    BY NextIInv
<1> QED BY <1>1, <1>2, PTL DEF Spec

----------------------------------------------------------------------------
\* Every variable of the model keeps its type (run_wasi to run_trigger).
THEOREM TypeCorrect == Spec => []TypeOK
<1>1. IInv => TypeOK
    BY DEF IInv
<1> QED BY <1>1, Invariant, PTL

\* configure_application_variables_from_environment_variables gives every plain
\* variable the value the container meant, in whatever order the map has them.
THEOREM VariablesArriveAsMeant == Spec => []VariablesAsMeant
<1>1. IInv => VariablesAsMeant
    <2> SUFFICES ASSUME IInv, pc = "serve", NEW v \in Plain
                 PROVE  env[Prefixed[v]] = Meant(v)
        BY DEF VariablesAsMeant
    <2>1. PICK n \in DOMAIN Variables : v = Variables[n] /\ PlainAt(n)
        BY DEF Plain, PlainAt
    <2>2. DOMAIN Variables = 1..Len(Variables)
        BY EnvironmentAssumption
    <2>3. MeantUpTo(Len(Variables))
        BY DEF IInv, Progress
    <2> QED BY <2>1, <2>2, <2>3 DEF MeantUpTo
<1> QED BY <1>1, Invariant, PTL

\* What the container gives last for a name is what triggers see, but for the
\* cache directory and the names with the prefix (run_wasi, handle_archive_layer).
THEOREM SettingsArrive == Spec => []SettingsSurvive
<1>1. IInv => SettingsSurvive
    <2> DEFINE prefixed == {Prefixed[Variables[n]] : n \in DOMAIN Variables}
    <2> SUFFICES ASSUME IInv, pc = "serve",
                        NEW key \in Key \ ({"XDG_CACHE_HOME"} \cup prefixed),
                        Given(key) # Unset
                 PROVE  env[key] = Given(key)
        BY DEF SettingsSurvive
    <2>1. PrefixedUpTo(Len(Variables)) = prefixed
        BY EnvironmentAssumption DEF PrefixedUpTo
    <2>2. CASE key = "TMPDIR"
        BY <2>2 DEF IInv, Settings, Late
    <2>3. CASE key # "TMPDIR"
        <3>1. key \in Key \ (ShimKeys \cup PrefixedUpTo(Len(Variables)))
            BY <2>1, <2>3 DEF ShimKeys
        <3> QED BY <3>1 DEF IInv, Progress, KeepsGiven
    <2> QED BY <2>2, <2>3
<1> QED BY <1>1, Invariant, PTL

\* The loader finds the cache that initialize_cache made, whatever the container
\* and the application variables say.
THEOREM CacheStaysFound == Spec => []CacheIsFound
<1>1. IInv => CacheIsFound
    BY DEF IInv, Settings, Late, CacheIsFound
<1> QED BY <1>1, Invariant, PTL

\* run_trigger gives each trigger the options the container gave last.
THEOREM OptionsArrive == Spec => []OptionsAsGiven
<1>1. IInv => OptionsAsGiven
    BY DEF IInv
<1> QED BY <1>1, Invariant, PTL

\* run_trigger's loop builds triggers when all writes to the environment are done.
THEOREM NoWriteAfterBuild == Spec => EnvironmentSettles
<1>1. IInv /\ [Next]_vars => [built # {} => env' = env]_vars
    <2> SUFFICES ASSUME IInv, [Next]_vars, built # {} PROVE env' = env
        OBVIOUS
    <2>1. pc \in {"triggers", "serve", "error"}
        BY DEF IInv, BuiltLast
    <2> QED BY <2>1 DEF Next, Export, Exported, initialize_cache, handle_archive_layer, Loaded,
            ConfigureVariable, Configured, BuildTrigger, Serve, Ended, vars, Goto, Triggers
<1> QED BY <1>1, Invariant, PTL DEF Spec, EnvironmentSettles
=============================================================================
