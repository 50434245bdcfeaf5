---------------------------- MODULE Environment -----------------------------
(* The process environment from run_wasi to the last trigger that is built  *)
(* (containerd-shim-spin/src/engine.rs, utils.rs, trigger.rs).  The         *)
(* container's variables are exported one by one, the shim adds two of its  *)
(* own, then every application variable that has a namesake in the          *)
(* environment is duplicated under the prefix that Spin's variable provider *)
(* looks at, and each trigger takes its options from what is there by then. *)
(* All of it is one mutable table: what one step writes the next one reads. *)
EXTENDS Naturals, Sequences

CONSTANTS
    Key,         \* names of environment variables
    Value,       \* values a container gives
    Containers,  \* the lists of <<key, value>> considered, as in the OCI spec
    Variables,   \* application variables, in the order of LockedApp's map
    Own,         \* the name of an application variable in upper case
    Prefixed,    \* that name behind SPIN_VARIABLE_
    Unset,       \* no such variable
    NoName,      \* the empty name, of an entry that is empty or begins with =
    CacheDir,    \* the directory initialize_cache creates
    WorkingDir,  \* the current directory
    Types,       \* the trigger types of the app
    Valid,       \* the values that parse, as an address or as a number
    DefaultAddr, \* SPIN_ADDR_DEFAULT
    Unknown      \* the id of an app without a HOSTNAME

ShimKeys == {"XDG_CACHE_HOME", "TMPDIR"}
OptionKeys == {"SPIN_HTTP_LISTEN_ADDR", "SPIN_MAX_INSTANCE_MEMORY", "HOSTNAME"}

ASSUME EnvironmentAssumption ==
    /\ ShimKeys \cup OptionKeys \subseteq Key
    /\ Valid \subseteq Value
    /\ Containers \subseteq Seq((Key \cup {NoName}) \X Value)
    /\ Variables \in Seq(DOMAIN Prefixed)
    /\ \A n \in DOMAIN Variables :
           /\ {Own[Variables[n]], Prefixed[Variables[n]]} \subseteq Key
           /\ Prefixed[Variables[n]] \notin ShimKeys \cup OptionKeys
           /\ \A m \in DOMAIN Variables : Prefixed[Variables[m]] = Prefixed[Variables[n]] => m = n

VARIABLES
    container,  \* ctx.envs()
    archive,    \* the image has an archive layer that is still to be unpacked
    pc,         \* what run_wasi does
    at,         \* the entry or the application variable it is at
    env,        \* the process environment
    toBuild,    \* trigger types run_trigger has still to visit
    built       \* the triggers it has built, with the options they were given

vars == <<container, archive, pc, at, env, toBuild, built>>

Triggers == <<toBuild, built>>

TypeOK ==
    /\ container \in Containers
    /\ archive \in BOOLEAN
    /\ pc \in {"export", "cache", "layers", "configure", "triggers", "serve", "error", "panic"}
    /\ at \in Nat
    /\ env \in [Key -> Value \cup {Unset, CacheDir, WorkingDir}]
    /\ toBuild \subseteq Types
    /\ built \subseteq [type : Types, app_id : Value \cup {Unknown},
                       address : Valid \cup {DefaultAddr, Unset},
                       max_instance_memory : Valid \cup {Unset}]

Init ==
    /\ container \in Containers
    /\ archive \in BOOLEAN
    /\ pc = "export"
    /\ at = 1
    /\ env = [key \in Key |-> Unset]
    /\ toBuild = Types
    /\ built = {}

Goto(p) == pc' = p /\ UNCHANGED <<container, archive, Triggers>>

SetVar(key, value) == env' = [env EXCEPT ![key] = value]

\* mutant: the value is the whole entry
ExportEntry ==
    /\ pc = "export"
    /\ at <= Len(container)
    /\ LET key == container[at][1]
       IN  \/ key # NoName /\ SetVar(key, container[at]) /\ at' = at + 1 /\ Goto("export")
           \/ key = NoName /\ Goto("panic") /\ UNCHANGED <<at, env>>

\* mutant: a variable that is there is not overwritten
ExportUnlessSet ==
    /\ pc = "export"
    /\ at <= Len(container)
    /\ LET key == container[at][1]
       IN  \/ /\ key # NoName
              /\ IF env[key] = Unset THEN SetVar(key, container[at][2]) ELSE UNCHANGED env
              /\ at' = at + 1
              /\ Goto("export")
           \/ key = NoName /\ Goto("panic") /\ UNCHANGED <<at, env>>

\* One turn of run_wasi's loop; set_var panics on an empty name.
Export ==
    /\ pc = "export"
    /\ at <= Len(container)
    /\ LET key == container[at][1]
       IN  \/ key # NoName /\ SetVar(key, container[at][2]) /\ at' = at + 1 /\ Goto("export")
           \/ key = NoName /\ Goto("panic") /\ UNCHANGED <<at, env>>

Exported ==
    /\ pc = "export"
    /\ at > Len(container)
    /\ Goto("cache")
    /\ UNCHANGED <<at, env>>

\* mutant: the container's own cache directory is respected here
InitializeCacheUnset ==
    /\ pc = "cache"
    /\ IF env["XDG_CACHE_HOME"] = Unset THEN SetVar("XDG_CACHE_HOME", CacheDir)
                                        ELSE UNCHANGED env
    /\ Goto("layers")
    /\ UNCHANGED at

\* The cache is made in CacheDir, and the loader, which looks the directory up in
\* the environment, is pointed at it.
initialize_cache ==
    /\ pc = "cache"
    /\ SetVar("XDG_CACHE_HOME", CacheDir)
    /\ Goto("layers")
    /\ UNCHANGED at

\* mutant: TMPDIR is always set
ArchiveAlwaysSets ==
    /\ pc = "layers"
    /\ archive
    /\ archive' = FALSE
    /\ SetVar("TMPDIR", WorkingDir)
    /\ UNCHANGED <<container, pc, at, Triggers>>

\* Unpacking needs a temporary directory that exists.
handle_archive_layer ==
    /\ pc = "layers"
    /\ archive
    /\ archive' = FALSE
    /\ \/ env["TMPDIR"] = Unset /\ SetVar("TMPDIR", WorkingDir)
       \/ env["TMPDIR"] # Unset /\ UNCHANGED env
    /\ UNCHANGED <<container, pc, at, Triggers>>

Loaded ==
    /\ pc = "layers"
    /\ ~archive
    /\ Goto("configure")
    /\ at' = 1
    /\ UNCHANGED env

\* mutant: a prefixed variable the container gave is kept
ConfigureUnlessGiven ==
    /\ pc = "configure"
    /\ at <= Len(Variables)
    /\ LET v == Variables[at]
       IN  IF env[Own[v]] # Unset /\ env[Prefixed[v]] = Unset
           THEN SetVar(Prefixed[v], env[Own[v]]) ELSE UNCHANGED env
    /\ at' = at + 1
    /\ Goto("configure")

\* One turn of configure_application_variables_from_environment_variables.
ConfigureVariable ==
    /\ pc = "configure"
    /\ at <= Len(Variables)
    /\ LET v == Variables[at]
       IN  \/ env[Own[v]] # Unset /\ SetVar(Prefixed[v], env[Own[v]])
           \/ env[Own[v]] = Unset /\ UNCHANGED env
    /\ at' = at + 1
    /\ Goto("configure")

Configured ==
    /\ pc = "configure"
    /\ at > Len(Variables)
    /\ Goto("triggers")
    /\ UNCHANGED <<at, env>>

\* env::var(key).unwrap_or(default)
Var(key, default) == IF env[key] = Unset THEN default ELSE env[key]

Address == Var("SPIN_HTTP_LISTEN_ADDR", DefaultAddr)

\* The call succeeds.
parse_addr(addr) == addr \in Valid \cup {DefaultAddr}

\* A limit that is no number is dropped (limit.parse().ok()).
Limit ==
    IF env["SPIN_MAX_INSTANCE_MEMORY"] \in Valid THEN env["SPIN_MAX_INSTANCE_MEMORY"] ELSE Unset

Trigger(t) ==
    [type |-> t, app_id |-> Var("HOSTNAME", Unknown), max_instance_memory |-> Limit,
     address |-> IF t = "http" THEN Address ELSE Unset]

\* mutant: the address in use is exported for the guests to see
BuildAndExport(t) ==
    /\ pc = "triggers"
    /\ t \in toBuild
    /\ \/ /\ t = "http" => parse_addr(Address)
          /\ toBuild' = toBuild \ {t}
          /\ built' = built \cup {Trigger(t)}
          /\ IF t = "http" /\ Address = DefaultAddr
             THEN SetVar("SPIN_HTTP_LISTEN_ADDR", WorkingDir) ELSE UNCHANGED env
          /\ UNCHANGED <<container, archive, pc, at>>
       \/ /\ t = "http" /\ ~parse_addr(Address)
          /\ Goto("error")
          /\ UNCHANGED <<at, env>>

\* One turn of run_trigger's loop: the options are read again for every trigger,
\* and parse_addr refuses an address that is none.
BuildTrigger(t) ==
    /\ pc = "triggers"
    /\ t \in toBuild
    /\ \/ /\ t = "http" => parse_addr(Address)
          /\ toBuild' = toBuild \ {t}
          /\ built' = built \cup {Trigger(t)}
          /\ UNCHANGED <<container, archive, pc, at, env>>
       \/ /\ t = "http" /\ ~parse_addr(Address)
          /\ Goto("error")
          /\ UNCHANGED <<at, env>>

\* select_all begins.
Serve ==
    /\ pc = "triggers"
    /\ toBuild = {}
    /\ Goto("serve")
    /\ UNCHANGED <<at, env>>

Ended == pc \in {"serve", "error", "panic"} /\ UNCHANGED vars

Next ==
    \/ Export \/ Exported \/ initialize_cache \/ handle_archive_layer \/ Loaded
    \/ ConfigureVariable \/ Configured
    \/ \E t \in Types : BuildTrigger(t)
    \/ Serve \/ Ended

Spec == Init /\ [][Next]_vars

----------------------------------------------------------------------------
(* Properties.                                                              *)

EntriesUpTo(key, n) == {m \in 1..n : container[m][1] = key}
Latest(entries) == CHOOSE m \in entries : \A k \in entries : k <= m

\* What the first n entries give for a name: the last one of that name counts.
LastUpTo(key, n) ==
    IF EntriesUpTo(key, n) = {} THEN Unset ELSE container[Latest(EntriesUpTo(key, n))][2]

\* What the container gives for a name.
Given(key) == LastUpTo(key, Len(container))

\* What the provider is meant to find for an application variable: the value the
\* container gives its namesake, else the one it gives the prefixed name.
Meant(v) == IF Given(Own[v]) # Unset THEN Given(Own[v]) ELSE Given(Prefixed[v])

\* The variables whose namesake neither the shim nor an earlier variable sets.
Plain ==
    {Variables[n] : n \in {m \in DOMAIN Variables :
        /\ Own[Variables[m]] \notin ShimKeys
        /\ \A k \in 1..(m - 1) : Own[Variables[m]] # Prefixed[Variables[k]]}}

\* When triggers start every plain application variable has the value the
\* container meant it to have, aliases and repeated entries included.
VariablesAsMeant == pc = "serve" => \A v \in Plain : env[Prefixed[v]] = Meant(v)

\* The container's own settings reach the triggers as they were given last; a
\* TMPDIR it gives is kept although the shim has a default for it.
SettingsSurvive ==
    pc = "serve" =>
        \A key \in Key \ ({"XDG_CACHE_HOME"} \cup {Prefixed[Variables[n]] : n \in DOMAIN Variables}) :
            Given(key) # Unset => env[key] = Given(key)

\* From the moment the cache exists the loader looks for it where it is, whatever
\* the container says about XDG_CACHE_HOME.
CacheIsFound ==
    pc \in {"layers", "configure", "triggers", "serve"} => env["XDG_CACHE_HOME"] = CacheDir

\* Every trigger gets the options the container gave last, whatever repeats or
\* aliases them: its address or the default, never one that does not parse; its
\* memory limit, none if that is no number; the host name as the id of the app.
OptionsAsGiven ==
    LET given(key, default) == IF Given(key) = Unset THEN default ELSE Given(key)
        limit == Given("SPIN_MAX_INSTANCE_MEMORY")
    IN  \A t \in built :
            /\ t.type = "http" => t.address = given("SPIN_HTTP_LISTEN_ADDR", DefaultAddr)
            /\ t.max_instance_memory = IF limit \in Valid THEN limit ELSE Unset
            /\ t.app_id = given("HOSTNAME", Unknown)

\* Nothing writes the environment once a trigger is built, as its own threads may
\* read it from then on (set_var is not safe next to another thread).
EnvironmentSettles == [][built # {} => env' = env]_vars

\* utils.rs:66: "checks if a container environment variable with the same name
\* exists".  The process environment is asked, which also has what the shim set.
OnlyContainerVariables ==
    pc = "serve" => \A n \in DOMAIN Variables : env[Prefixed[Variables[n]]] = Meant(Variables[n])
=============================================================================
