--------------------------- MODULE NodeInstaller ----------------------------
(* The installer that puts the shim on a Kubernetes node                    *)
(* (node-installer/script/installer.sh), run again until it exits 0 and     *)
(* again for every new version, on a node whose disk outlives its crashes.  *)
(*                                                                          *)
(* The script copies the binary, appends what is missing to containerd's    *)
(* configuration file, and restarts the service unless the marker file      *)
(* $KWASM_DIR/active says that nothing changed.  A configuration file is    *)
(* the sequence of the sections about Spin in it.                           *)
EXTENDS Naturals, Sequences

CONSTANTS
    Distros,   \* the kinds of node considered
    MaxFaults  \* bound on crashes and on commands that fail

Section == {"runtime", "legacy", "options"}

\* k3s and rke2 write config.toml from the template next to it when they start;
\* the script copies it back before it edits the template.
Templated == {"k3s", "rke2"}

ASSUME InstallerAssumption ==
    /\ Distros \subseteq {"plain", "microk8s", "k3s", "rke2", "k0s"}
    /\ MaxFaults \in Nat

VARIABLES
    distro,       \* kind of node
    requested,    \* SYSTEMD_CGROUP of the installer's pod, "unset" if it is not there
    hasPackages,  \* the node has a package manager the script knows
    dbus,         \* dbus-daemon is installed
    bin,          \* the shim binary of the node
    generated,    \* config.toml, where it is made from the template
    conf,         \* CONTAINERD_CONF, the file the script edits
    active,       \* the marker file exists
    loaded,       \* the configuration the running containerd has read
    pc,           \* the command the script is at, "idle" when it does not run
    cgroup,       \* the script's SYSTEMD_CGROUP
    stranded,     \* later runs take the node for done, although containerd has not read it
    faults

vars == <<distro, requested, hasPackages, dbus, bin, generated, conf, active, loaded,
          pc, cgroup, stranded, faults>>

Pod == <<distro, requested, hasPackages>>
Files == <<bin, generated, conf, active>>

Changing == {"forget", "options", "migrate", "activate", "restart_dbus", "restart"}
Done == {"restarted", "no_change"}

TypeOK ==
    /\ distro \in Distros
    /\ requested \in {"unset", "true", "false"}
    /\ hasPackages \in BOOLEAN /\ dbus \in BOOLEAN
    /\ bin \in {"none", "partial", "whole"}
    /\ generated \in Seq(Section) /\ conf \in Seq(Section) /\ loaded \in Seq(Section)
    /\ active \in BOOLEAN /\ cgroup \in BOOLEAN /\ stranded \in BOOLEAN
    /\ pc \in {"idle", "detect", "dbus", "copy", "copying", "append"} \cup Changing \cup Done
    /\ faults \in 0..MaxFaults

\* grep -q of a section.
Has(file, sections) == \E i \in DOMAIN file : file[i] \in sections

\* What an earlier installer, or none, has left: the runtime without options, and
\* with the marker; or a section k3s made for a shim it found by itself.
Init ==
    /\ distro \in Distros
    /\ requested \in {"unset", "true", "false"}
    /\ hasPackages \in BOOLEAN
    /\ dbus \in BOOLEAN
    /\ \/ bin = "none" /\ active = FALSE /\ conf = <<>>
       \/ bin = "whole" /\ active = TRUE /\ conf = <<"runtime">>
       \/ bin = "none" /\ active = FALSE /\ conf = <<"legacy">> /\ distro = "k3s"
    /\ generated = conf
    /\ loaded = conf
    /\ pc = "idle"
    /\ cgroup = FALSE
    /\ stranded = FALSE
    /\ faults = 0

Goto(p) == pc' = p /\ UNCHANGED <<Pod, loaded, stranded, faults>>

Begin ==
    /\ pc = "idle"
    /\ Goto("detect")
    /\ UNCHANGED <<dbus, Files, cgroup>>

\* The distro gives the file to edit; the cgroup driver defaults to systemd but
\* on microk8s.
Detect ==
    /\ pc = "detect"
    /\ conf' = IF distro \in Templated THEN generated ELSE conf
    /\ cgroup' = IF requested = "unset" THEN distro # "microk8s" ELSE requested = "true"
    /\ Goto("dbus")
    /\ UNCHANGED <<dbus, bin, generated, active>>

\* systemd cgroups need D-Bus; without a package manager they are given up.
EnsureDbus ==
    /\ pc = "dbus"
    /\ dbus' = (dbus \/ (cgroup /\ hasPackages))
    /\ cgroup' = (cgroup /\ dbus')
    /\ Goto("copy")
    /\ UNCHANGED Files

\* mutant: a failing cp does not stop the script
CopyOrGoOn ==
    /\ pc = "copy"
    /\ \/ bin' = "partial" /\ Goto("copying")
       \/ Goto("append") /\ UNCHANGED bin
    /\ UNCHANGED <<dbus, generated, conf, active, cgroup>>

\* cp truncates the binary in place, then fills it.
Copy ==
    /\ pc = "copy"
    /\ bin' = "partial"
    /\ Goto("copying")
    /\ UNCHANGED <<dbus, generated, conf, active, cgroup>>

Copied ==
    /\ pc = "copying"
    /\ bin' = "whole"
    /\ Goto("append")
    /\ UNCHANGED <<dbus, generated, conf, active, cgroup>>

\* mutant: the runtime is added without a look at what is there
AppendAlways ==
    /\ pc = "append"
    /\ conf' = Append(conf, "runtime")
    /\ Goto("forget")
    /\ UNCHANGED <<dbus, bin, generated, active, cgroup>>

\* mutant: under set -e a grep that finds nothing to do ends the script
AppendOrDie ==
    /\ pc = "append"
    /\ \/ /\ ~Has(conf, Section)
          /\ conf' = Append(conf, "runtime")
          /\ Goto("forget")
       \/ /\ Has(conf, Section)
          /\ Goto("idle")
          /\ UNCHANGED conf
    /\ UNCHANGED <<dbus, bin, generated, active, cgroup>>

\* The runtime's section is appended unless the file mentions Spin.
AppendRuntime ==
    /\ pc = "append"
    /\ \/ /\ ~Has(conf, Section)
          /\ conf' = Append(conf, "runtime")
          /\ Goto("forget")
       \/ /\ Has(conf, Section)
          /\ Goto("options")
          /\ UNCHANGED conf
    /\ UNCHANGED <<dbus, bin, generated, active, cgroup>>

\* mutant: the marker survives the change
KeepActive ==
    /\ pc = "forget"
    /\ Goto("options")
    /\ UNCHANGED <<dbus, Files, cgroup>>

\* rm -Rf active: the file was changed.
ForgetActive ==
    /\ pc = "forget"
    /\ active' = FALSE
    /\ Goto("options")
    /\ UNCHANGED <<dbus, bin, generated, conf, cgroup>>

AppendOptions ==
    /\ pc = "options"
    /\ conf' = IF cgroup /\ ~Has(conf, {"options"}) THEN Append(conf, "options") ELSE conf
    /\ Goto("migrate")
    /\ UNCHANGED <<dbus, bin, generated, active, cgroup>>

\* mutant: the replacement is not a section that containerd knows
MigrateToPath ==
    /\ pc = "migrate"
    /\ conf' = IF distro # "k3s" THEN conf
               ELSE [i \in DOMAIN conf |-> IF conf[i] = "legacy" THEN "path" ELSE conf[i]]
    /\ Goto("activate")
    /\ UNCHANGED <<dbus, bin, generated, active, cgroup>>

\* On k3s a runtime_type that k3s chose is replaced by the installed binary.
Migrate ==
    /\ pc = "migrate"
    /\ conf' = IF distro # "k3s" THEN conf
               ELSE [i \in DOMAIN conf |-> IF conf[i] = "legacy" THEN "runtime" ELSE conf[i]]
    /\ Goto("activate")
    /\ UNCHANGED <<dbus, bin, generated, active, cgroup>>

\* With the marker in place the script is done and says that nothing changed.
Activate ==
    /\ pc = "activate"
    /\ active' = TRUE
    /\ Goto(IF active THEN "no_change" ELSE IF cgroup THEN "restart_dbus" ELSE "restart")
    /\ UNCHANGED <<dbus, bin, generated, conf, cgroup>>

RestartDbus ==
    /\ pc = "restart_dbus"
    /\ Goto("restart")
    /\ UNCHANGED <<dbus, Files, cgroup>>

\* The service reads its configuration when it starts.
Reload ==
    /\ generated' = conf
    /\ loaded' = conf

Restart ==
    /\ pc = "restart"
    /\ Reload
    /\ stranded' = FALSE
    /\ pc' = "restarted"
    /\ UNCHANGED <<Pod, dbus, bin, conf, active, cgroup, faults>>

\* The file that the next run will look at.
NextConf == IF distro \in Templated THEN generated ELSE conf

\* A run that ends here leaves the marker beside a file that it changed and that
\* containerd has not read: either the section is appended and the old marker not yet
\* removed, or the new marker is there and containerd not yet restarted.
Strands ==
    /\ pc \in {"forget", "restart_dbus", "restart"}
    /\ active
    /\ Has(NextConf, Section)
    /\ ~Has(loaded, {"runtime"})

\* The pod dies or a command fails, which ends the script (set -e).
Fault ==
    /\ pc \notin {"idle"} \cup Done
    /\ faults < MaxFaults
    /\ faults' = faults + 1
    /\ stranded' = (stranded \/ Strands)
    /\ pc' = "idle"
    /\ UNCHANGED <<Pod, dbus, Files, loaded, cgroup>>

\* The installer is started again after a success: a new version, a new pod.
Again ==
    /\ pc \in Done
    /\ pc' = "idle"
    /\ UNCHANGED <<Pod, dbus, Files, loaded, cgroup, stranded, faults>>

\* An administrator or an upgrade of the distro rewrites the file without Spin.
ResetConf ==
    /\ pc = "idle"
    /\ faults < MaxFaults
    /\ faults' = faults + 1
    /\ conf' = <<>>
    /\ generated' = <<>>
    /\ stranded' = FALSE
    /\ UNCHANGED <<Pod, dbus, bin, active, loaded, pc, cgroup>>

\* The node reboots and containerd reads what is on disk.
Reboot ==
    /\ pc = "idle"
    /\ Reload
    /\ stranded' = (stranded /\ ~Has(loaded', {"runtime"}))
    /\ UNCHANGED <<Pod, dbus, bin, conf, active, pc, cgroup, faults>>

Script ==
    \/ Begin \/ Detect \/ EnsureDbus \/ Copy \/ Copied \/ AppendRuntime \/ ForgetActive
    \/ AppendOptions \/ Migrate \/ Activate \/ RestartDbus \/ Restart

Next == Script \/ Fault \/ Again \/ ResetConf \/ Reboot

Spec == Init /\ [][Next]_vars /\ WF_vars(Script)

----------------------------------------------------------------------------
(* Properties.                                                              *)

\* However many runs were cut short and wherever, no section is there twice:
\* containerd does not start on a file that defines a table twice.
OneSectionEach ==
    LET kind(section) == IF section = "options" THEN section ELSE "runtime"
    IN  \A i, j \in DOMAIN conf : kind(conf[i]) = kind(conf[j]) => i = j

\* A run that succeeds leaves a containerd that knows the runtime, restarted or not,
\* also after other runs were cut short, the configuration was reset or the node
\* rebooted, but for the one case that Strands describes: a run cut short between
\* the append and rm active (line 92), or between touch active (line 118) and the
\* restart.  On a node stranded like that every run succeeds, and none of them, until
\* the node reboots or its configuration is reset, makes containerd read the runtime.
SuccessMeansLoaded == pc \in Done => (Has(loaded, {"runtime"}) <=> ~stranded)

\* Wherever a run is cut short and whenever the node reboots, a containerd that knows
\* the runtime has a binary to start, and a whole one when a run says it is done: the
\* binary is there before the configuration that names it.
RuntimeHasBinary ==
    Has(loaded, {"runtime"}) => bin # "none" /\ (pc \in Done => bin = "whole")

\* The installer, run until it succeeds, does succeed once faults are over, and
\* containerd then knows the runtime, unless a fault left the node stranded: what
\* was cut short at any other command is made good by the next run.
EventuallyInstalled == []<>(stranded \/ (pc \in Done /\ Has(loaded, {"runtime"})))

\* installer.sh:144 reports "No change in containerd/config.toml".  The marker is
\* removed with the runtime's section only (line 92), not when options are
\* appended (lines 98-111), and it is there before the restart is done (line 118).
ReportsNoChangeTruly == pc = "no_change" => conf = loaded
=============================================================================
