------------------------ MODULE NodeInstallerProofs --------------------------
(* Theorems about NodeInstaller, for all kinds of node and any number of    *)
(* faults.                                                                  *)
EXTENDS NodeInstaller, TLAPS

Kind(section) == IF section = "options" THEN section ELSE "runtime"

\* A file without a section that is there twice.
OneEach(file) == \A i, j \in DOMAIN file : Kind(file[i]) = Kind(file[j]) => i = j

\* Options never stand alone, and only k3s has a section of its own making.
Founded(file) ==
    Has(file, Section) => Has(file, {"runtime"}) \/ (Has(file, {"legacy"}) /\ distro = "k3s")

\* What containerd may read next, or has read, names no binary that is not there.
BinaryFirst ==
    /\ Has(conf, {"runtime"}) \/ Has(generated, {"runtime"}) \/ Has(loaded, {"runtime"}) =>
           bin # "none"
    /\ pc \in {"append"} \cup Changing \cup Done => bin = "whole"

\* How much of the file the run has made sure of.
Written ==
    /\ pc \in {"forget", "options", "migrate"} => Has(conf, Section)
    /\ pc \in {"activate", "restart_dbus", "restart"} => Has(conf, {"runtime"})

\* What config.toml says containerd has read, and a section of k3s's own making is in
\* the template only while it is in config.toml.
Linked ==
    /\ Has(generated, Section) => generated = loaded
    /\ Has(conf, {"legacy"}) => Has(generated, {"legacy"})

\* What the marker stands for, but on a stranded node: a file that mentions Spin has
\* the runtime, and containerd has read it.  It stands for the file that the next run
\* looks at, and for the file that this run looks at.
Trusted(file) ==
    Has(file, Section) => Has(file, {"runtime"}) /\ Has(loaded, {"runtime"})

MarkerMeansLoaded ==
    active /\ ~stranded /\ pc \notin {"forget", "restart_dbus", "restart"} =>
        /\ Trusted(NextConf)
        /\ pc \notin {"idle", "detect"} => Trusted(conf)

StrandedIsNotLoaded == stranded => ~Has(loaded, {"runtime"})

Marker == MarkerMeansLoaded /\ StrandedIsNotLoaded /\ SuccessMeansLoaded

IInv ==
    /\ TypeOK
    /\ OneEach(conf) /\ OneEach(generated) /\ Founded(conf) /\ Founded(generated)
    /\ BinaryFirst /\ Written /\ Linked /\ Marker

----------------------------------------------------------------------------
LEMMA EmptyFile ==
    /\ <<>> \in Seq(Section) /\ OneEach(<<>>) /\ Founded(<<>>)
    /\ \A sections : ~Has(<<>>, sections)
BY DEF OneEach, Founded, Has

LEMMA OneSection ==
    ASSUME NEW s \in Section
    PROVE  /\ <<s>> \in Seq(Section) /\ OneEach(<<s>>)
           /\ \A sections : Has(<<s>>, sections) <=> s \in sections
BY DEF OneEach, Has

\* A section that is appended is one more, and the others stay.
LEMMA AppendHas ==
    ASSUME NEW file \in Seq(Section), NEW s \in Section
    PROVE  /\ Append(file, s) \in Seq(Section)
           /\ \A sections : Has(Append(file, s), sections) <=> Has(file, sections) \/ s \in sections
<1> DEFINE longer == Append(file, s)
<1>1. /\ longer \in Seq(Section) /\ Len(longer) = Len(file) + 1 /\ Len(file) \in Nat
      /\ DOMAIN file = 1..Len(file) /\ DOMAIN longer = 1..(Len(file) + 1)
      /\ longer[Len(file) + 1] = s /\ \A k \in 1..Len(file) : longer[k] = file[k]
    OBVIOUS
<1> HIDE DEF longer
<1> SUFFICES ASSUME NEW sections
             PROVE  Has(longer, sections) <=> Has(file, sections) \/ s \in sections
    BY <1>1 DEF longer
<1> QED BY <1>1 DEF Has

\* Appending a section of a kind that is not there leaves one of each.
LEMMA AppendEach ==
    ASSUME NEW file \in Seq(Section), NEW s \in Section, OneEach(file),
           \A k \in DOMAIN file : Kind(file[k]) # Kind(s)
    PROVE  OneEach(Append(file, s))
<1> DEFINE longer == Append(file, s)
<1>1. /\ Len(file) \in Nat /\ DOMAIN file = 1..Len(file) /\ DOMAIN longer = 1..(Len(file) + 1)
      /\ longer[Len(file) + 1] = s /\ \A k \in 1..Len(file) : longer[k] = file[k]
    OBVIOUS
<1> HIDE DEF longer
<1>2. OneEach(longer)
    BY <1>1 DEF OneEach
<1> QED BY <1>2 DEF longer

Migrated(file) == [k \in DOMAIN file |-> IF file[k] = "legacy" THEN "runtime" ELSE file[k]]

\* Migrating changes no kind of section and leaves none that k3s made.
LEMMA MigratedFile ==
    ASSUME NEW file \in Seq(Section), OneEach(file)
    PROVE  /\ Migrated(file) \in Seq(Section) /\ OneEach(Migrated(file))
           /\ Has(Migrated(file), Section) <=> Has(file, Section)
           /\ Has(Migrated(file), {"runtime"}) <=>
                  Has(file, {"runtime"}) \/ Has(file, {"legacy"})
           /\ ~Has(Migrated(file), {"legacy"})
<1> DEFINE other == Migrated(file)
<1>1. /\ Len(file) \in Nat /\ DOMAIN file = 1..Len(file) /\ DOMAIN other = DOMAIN file
      /\ \A k \in DOMAIN file : file[k] \in Section
      /\ \A k \in DOMAIN file : other[k] = IF file[k] = "legacy" THEN "runtime" ELSE file[k]
    BY DEF Migrated
<1>2. other \in Seq(Section)
    <2>1. \A k \in 1..Len(file) : other[k] \in Section
        BY <1>1 DEF Section
    <2>2. other = [k \in 1..Len(file) |-> other[k]]
        BY <1>1 DEF Migrated
    <2> QED BY <1>1, <2>1, <2>2
<1> HIDE DEF other
<1>3. OneEach(other)
    <2>1. \A k \in DOMAIN file : Kind(other[k]) = Kind(file[k])
        BY <1>1 DEF Kind
    <2> QED BY <1>1, <2>1 DEF OneEach
<1>4. Has(other, Section) <=> Has(file, Section)
    BY <1>1 DEF Has, Section
<1>5. Has(other, {"runtime"}) <=> Has(file, {"runtime"}) \/ Has(file, {"legacy"})
    BY <1>1 DEF Has
<1>6. ~Has(other, {"legacy"})
    BY <1>1 DEF Has
<1> QED BY <1>2, <1>3, <1>4, <1>5, <1>6 DEF other

\* What is said of the files stays true while they and what is read stay the same.
LEMMA SameFiles ==
    ASSUME UNCHANGED <<distro, generated, conf, loaded>>
    PROVE  /\ (Linked' <=> Linked) /\ NextConf' = NextConf
           /\ (Trusted(conf)' <=> Trusted(conf)) /\ (Trusted(NextConf)' <=> Trusted(NextConf))
           /\ \A s : Has(loaded, s)' <=> Has(loaded, s)
<1>1. NextConf' = NextConf
    BY DEF NextConf
<1>2. \A s : Has(loaded', s) <=> Has(loaded, s)
    OBVIOUS
<1> QED BY <1>1, <1>2 DEF Linked, Trusted

LEMMA InitIInv == Init => IInv
<1> SUFFICES ASSUME Init PROVE IInv
    OBVIOUS
<1>1. conf \in Seq(Section) /\ OneEach(conf) /\ Founded(conf)
    BY EmptyFile, OneSection DEF Init, Section, Founded
<1>2. TypeOK
    <2>1. conf \in Seq(Section) /\ generated \in Seq(Section) /\ loaded \in Seq(Section)
        BY <1>1 DEF Init
    <2>2. active \in BOOLEAN /\ cgroup \in BOOLEAN /\ stranded \in BOOLEAN
        BY DEF Init
    <2>3. bin \in {"none", "partial", "whole"} /\ faults \in 0..MaxFaults
        BY InstallerAssumption DEF Init
    <2> QED BY <2>1, <2>2, <2>3 DEF Init, TypeOK
<1>3. BinaryFirst
    BY EmptyFile, OneSection DEF Init, BinaryFirst, Section, Changing, Done
<1>4. Linked /\ Marker
    BY EmptyFile, OneSection DEF Init, Linked, Marker, MarkerMeansLoaded, NextConf, Trusted,
       StrandedIsNotLoaded, SuccessMeansLoaded, Section, Done
<1>5. Written
    BY DEF Init, Written
<1> QED BY <1>1, <1>2, <1>3, <1>4, <1>5 DEF IInv, Init, Founded

\* A step that only moves on, before the script has changed anything.
LEMMA QuietIInv ==
    ASSUME IInv, pc \in {"idle", "dbus"} \cup Done,
           pc' \in {"idle", "detect"} \/ (pc = "dbus" /\ pc' = "copy"),
           dbus' \in BOOLEAN, cgroup' \in BOOLEAN,
           UNCHANGED <<distro, requested, hasPackages, Files, loaded, stranded, faults>>
    PROVE  IInv'
<1> USE DEF IInv, Files
<1>1. TypeOK'
    BY DEF TypeOK
<1>2. (OneEach(conf) /\ OneEach(generated) /\ Founded(conf) /\ Founded(generated))'
    BY DEF OneEach, Founded, Has
<1>3. (BinaryFirst /\ Written)'
    BY DEF BinaryFirst, Written, Has, Changing, Done
<1>4. /\ (Linked' <=> Linked) /\ (Trusted(conf)' <=> Trusted(conf))
      /\ (Trusted(NextConf)' <=> Trusted(NextConf))
      /\ Has(loaded, {"runtime"})' <=> Has(loaded, {"runtime"})
    BY SameFiles
<1>5. MarkerMeansLoaded'
    <2>1. CASE pc \in Done
        BY <1>4, <2>1 DEF Marker, MarkerMeansLoaded, Done
    <2>2. CASE pc \in {"idle", "dbus"}
        BY <1>4, <2>2 DEF Marker, MarkerMeansLoaded
    <2> QED BY <2>1, <2>2
<1>6. StrandedIsNotLoaded' /\ SuccessMeansLoaded'
    BY <1>4 DEF Marker, StrandedIsNotLoaded, SuccessMeansLoaded, Done
<1> QED BY <1>1, <1>2, <1>3, <1>4, <1>5, <1>6 DEF Marker

\* On k3s and rke2 the file to edit is the one the service has made.
LEMMA DetectIInv == ASSUME IInv, Detect PROVE IInv'
<1> USE DEF IInv
<1>1. /\ pc = "detect" /\ pc' = "dbus" /\ conf' = NextConf /\ cgroup' \in BOOLEAN
      /\ UNCHANGED <<distro, requested, hasPackages, dbus, bin, generated, active, loaded,
                     stranded, faults>>
    BY DEF Detect, Goto, Pod, NextConf
<1>2. NextConf' = NextConf /\ conf' \in {conf, generated}
    BY <1>1 DEF NextConf
<1>3. TypeOK'
    BY <1>1, <1>2 DEF TypeOK
<1>4. (OneEach(conf) /\ OneEach(generated) /\ Founded(conf) /\ Founded(generated))'
    BY <1>1, <1>2 DEF Founded
<1>5. (BinaryFirst /\ Written)'
    BY <1>1, <1>2 DEF BinaryFirst, Written, Changing, Done
<1>6. Linked'
    BY <1>1, <1>2 DEF Linked
<1>7. Marker'
    BY <1>1, <1>2 DEF Marker, MarkerMeansLoaded, Trusted, StrandedIsNotLoaded,
       SuccessMeansLoaded, Done
<1> QED BY <1>3, <1>4, <1>5, <1>6, <1>7

LEMMA CopyIInv == ASSUME IInv, Copy \/ Copied PROVE IInv'
<1> USE DEF IInv
<1>1. /\ pc \in {"copy", "copying"}
      /\ \/ bin' = "partial" /\ pc' = "copying"
         \/ bin' = "whole" /\ pc' = "append"
      /\ UNCHANGED <<distro, requested, hasPackages, dbus, generated, conf, active, loaded,
                     cgroup, stranded, faults>>
    BY DEF Copy, Copied, Goto, Pod
<1>2. TypeOK'
    BY <1>1 DEF TypeOK
<1>3. (OneEach(conf) /\ OneEach(generated) /\ Founded(conf) /\ Founded(generated))'
    BY <1>1 DEF Founded
<1>4. BinaryFirst'
    BY <1>1 DEF BinaryFirst, Changing, Done
<1>5. (Written /\ Linked /\ Marker)'
    BY <1>1 DEF Written, Linked, Marker, MarkerMeansLoaded, NextConf, Trusted,
       StrandedIsNotLoaded, SuccessMeansLoaded, Done
<1> QED BY <1>2, <1>3, <1>4, <1>5

\* The runtime is appended only to a file that has no section at all.
LEMMA AppendRuntimeIInv == ASSUME IInv, AppendRuntime PROVE IInv'
<1> USE DEF IInv
<1>1. /\ pc = "append"
      /\ UNCHANGED <<distro, requested, hasPackages, dbus, bin, generated, active, loaded,
                     cgroup, stranded, faults>>
    BY DEF AppendRuntime, Goto, Pod
<1>2. CASE ~Has(conf, Section) /\ conf' = Append(conf, "runtime") /\ pc' = "forget"
    <2>1. conf \in Seq(Section) /\ "runtime" \in Section /\ Has(conf', {"runtime"})
          /\ conf' \in Seq(Section) /\ Has(conf', Section)
          /\ (Has(conf', {"legacy"}) => Has(conf, {"legacy"}))
        BY <1>2, AppendHas DEF TypeOK, Section
    <2>2. TypeOK'
        BY <1>1, <1>2, <2>1 DEF TypeOK, Changing
    <2>3. OneEach(conf')
        <3>1. \A k \in DOMAIN conf : FALSE
            BY <1>2, <2>1 DEF Has
        <3> QED BY <1>2, <2>1, <3>1, AppendEach
    <2>4. (OneEach(conf) /\ OneEach(generated) /\ Founded(conf) /\ Founded(generated))'
        BY <1>1, <2>1, <2>3 DEF Founded
    <2>5. BinaryFirst'
        BY <1>1, <1>2 DEF BinaryFirst, Changing, Done
    <2>6. (Written /\ Linked)'
        BY <1>1, <1>2, <2>1 DEF Written, Linked
    <2>7. Marker'
        BY <1>1, <1>2 DEF Marker, MarkerMeansLoaded, StrandedIsNotLoaded,
           SuccessMeansLoaded, Done
    <2> QED BY <2>2, <2>4, <2>5, <2>6, <2>7
<1>3. CASE Has(conf, Section) /\ UNCHANGED conf /\ pc' = "options"
    <2>1. TypeOK'
        BY <1>1, <1>3 DEF TypeOK, Changing
    <2>2. (OneEach(conf) /\ OneEach(generated) /\ Founded(conf) /\ Founded(generated))'
        BY <1>1, <1>3 DEF Founded
    <2>3. BinaryFirst'
        BY <1>1, <1>3 DEF BinaryFirst, Changing, Done
    <2>4. (Written /\ Linked /\ Marker)'
        BY <1>1, <1>3 DEF Written, Linked, Marker, MarkerMeansLoaded, NextConf, Trusted,
           StrandedIsNotLoaded, SuccessMeansLoaded, Done
    <2> QED BY <2>1, <2>2, <2>3, <2>4
<1> QED BY <1>2, <1>3 DEF AppendRuntime, Goto

\* Without the marker nothing is trusted.
LEMMA ForgetIInv == ASSUME IInv, ForgetActive PROVE IInv'
<1> USE DEF IInv
<1>1. /\ pc = "forget" /\ pc' = "options" /\ active' = FALSE
      /\ UNCHANGED <<distro, requested, hasPackages, dbus, bin, generated, conf, loaded,
                     cgroup, stranded, faults>>
    BY DEF ForgetActive, Goto, Pod
<1>2. TypeOK'
    BY <1>1 DEF TypeOK, Changing
<1>3. (OneEach(conf) /\ OneEach(generated) /\ Founded(conf) /\ Founded(generated))'
    BY <1>1 DEF Founded
<1>4. (BinaryFirst /\ Written /\ Linked /\ Marker)'
    BY <1>1 DEF BinaryFirst, Written, Linked, Marker, MarkerMeansLoaded, NextConf, Trusted,
       StrandedIsNotLoaded, SuccessMeansLoaded, Changing, Done
<1> QED BY <1>2, <1>3, <1>4

LEMMA OptionsIInv == ASSUME IInv, AppendOptions PROVE IInv'
<1> USE DEF IInv
<1>1. /\ pc = "options" /\ pc' = "migrate"
      /\ conf' = IF cgroup /\ ~Has(conf, {"options"}) THEN Append(conf, "options") ELSE conf
      /\ UNCHANGED <<distro, requested, hasPackages, dbus, bin, generated, active, loaded,
                     cgroup, stranded, faults>>
    BY DEF AppendOptions, Goto, Pod
<1>2. conf \in Seq(Section) /\ "options" \in Section /\ Has(conf, Section)
    BY <1>1 DEF TypeOK, Section, Written
<1>3. /\ conf' \in Seq(Section) /\ Has(conf', Section)
      /\ Has(conf', {"runtime"}) <=> Has(conf, {"runtime"})
      /\ Has(conf', {"legacy"}) <=> Has(conf, {"legacy"})
    BY <1>1, <1>2, AppendHas
<1>4. OneEach(conf')
    <2>1. CASE ~Has(conf, {"options"})
        <3>1. \A k \in DOMAIN conf : Kind(conf[k]) # Kind("options")
            BY <2>1 DEF Has, Kind
        <3> QED BY <1>1, <1>2, <3>1, AppendEach
    <2>2. CASE Has(conf, {"options"})
        BY <1>1, <2>2
    <2> QED BY <2>1, <2>2
<1>5. TypeOK'
    BY <1>1, <1>3 DEF TypeOK, Changing
<1>6. (OneEach(conf) /\ OneEach(generated) /\ Founded(conf) /\ Founded(generated))'
    BY <1>1, <1>2, <1>3, <1>4 DEF Founded
<1>7. BinaryFirst'
    BY <1>1, <1>3 DEF BinaryFirst, Changing, Done
<1>8. (Written /\ Linked /\ Marker)'
    BY <1>1, <1>2, <1>3 DEF Written, Linked, Marker, MarkerMeansLoaded, NextConf, Trusted,
       StrandedIsNotLoaded, SuccessMeansLoaded, Done
<1> QED BY <1>5, <1>6, <1>7, <1>8

\* From here on the file has the runtime.
LEMMA MigrateIInv == ASSUME IInv, Migrate PROVE IInv'
<1> USE DEF IInv
<1>1. /\ pc = "migrate" /\ pc' = "activate"
      /\ conf' = IF distro # "k3s" THEN conf ELSE Migrated(conf)
      /\ UNCHANGED <<distro, requested, hasPackages, dbus, bin, generated, active, loaded,
                     cgroup, stranded, faults>>
    BY DEF Migrate, Goto, Pod, Migrated
<1>2. conf \in Seq(Section) /\ Has(conf, Section)
    BY <1>1 DEF TypeOK, Written
<1>3. conf' \in Seq(Section) /\ OneEach(conf') /\ Has(conf', Section) /\ Has(conf', {"runtime"})
    BY <1>1, <1>2, MigratedFile DEF Founded
<1>4. TypeOK'
    BY <1>1, <1>3 DEF TypeOK, Changing
<1>5. (OneEach(conf) /\ OneEach(generated) /\ Founded(conf) /\ Founded(generated))'
    BY <1>1, <1>3 DEF Founded
<1>6. BinaryFirst'
    BY <1>1 DEF BinaryFirst, Changing, Done
<1>7. Written' /\ Linked'
    BY <1>1, <1>2, <1>3, MigratedFile DEF Written, Linked
<1>8. active /\ ~stranded => Has(loaded, {"runtime"}) /\ Trusted(NextConf)
    BY <1>1, <1>2 DEF Marker, MarkerMeansLoaded, Trusted
<1>9. Trusted(NextConf)' \/ ~active \/ stranded
    <2>1. CASE NextConf' = NextConf
        BY <1>1, <1>8, <2>1 DEF Trusted
    <2>2. CASE NextConf' = conf'
        BY <1>1, <1>3, <1>8, <2>2 DEF Trusted
    <2> QED BY <1>1, <2>1, <2>2 DEF NextConf
<1>10. Marker'
    BY <1>1, <1>3, <1>8, <1>9 DEF Marker, MarkerMeansLoaded, Trusted, StrandedIsNotLoaded,
       SuccessMeansLoaded, Done
<1> QED BY <1>4, <1>5, <1>6, <1>7, <1>10

\* With the marker the run is done, and the marker is right.
LEMMA ActivateIInv == ASSUME IInv, Activate \/ RestartDbus PROVE IInv'
<1> USE DEF IInv
<1>1. /\ \/ pc = "activate" /\ active' = TRUE
            /\ pc' = IF active THEN "no_change" ELSE IF cgroup THEN "restart_dbus" ELSE "restart"
         \/ pc = "restart_dbus" /\ active' = active /\ pc' = "restart"
      /\ UNCHANGED <<distro, requested, hasPackages, dbus, bin, generated, conf, loaded,
                     cgroup, stranded, faults>>
    BY DEF Activate, RestartDbus, Goto, Pod, Files
<1>2. Has(conf, {"runtime"}) /\ Has(conf, Section)
    BY <1>1 DEF Written, Has, Section
<1>3. TypeOK'
    BY <1>1 DEF TypeOK, Changing, Done
<1>4. (OneEach(conf) /\ OneEach(generated) /\ Founded(conf) /\ Founded(generated))'
    BY <1>1 DEF Founded
<1>5. BinaryFirst'
    BY <1>1 DEF BinaryFirst, Changing, Done
<1>6. (Written /\ Linked /\ Marker)'
    BY <1>1, <1>2 DEF Written, Linked, Marker, MarkerMeansLoaded, NextConf, Trusted,
       StrandedIsNotLoaded, SuccessMeansLoaded, Done
<1> QED BY <1>3, <1>4, <1>5, <1>6

LEMMA RestartIInv == ASSUME IInv, Restart PROVE IInv'
<1> USE DEF IInv
<1>1. /\ pc = "restart" /\ pc' = "restarted" /\ generated' = conf /\ loaded' = conf
      /\ stranded' = FALSE
      /\ UNCHANGED <<distro, requested, hasPackages, dbus, bin, conf, active, cgroup, faults>>
    BY DEF Restart, Reload, Pod
<1>2. Has(conf, {"runtime"})
    BY <1>1 DEF Written
<1>3. TypeOK'
    BY <1>1 DEF TypeOK, Done
<1>4. (OneEach(conf) /\ OneEach(generated) /\ Founded(conf) /\ Founded(generated))'
    BY <1>1 DEF Founded
<1>5. BinaryFirst'
    BY <1>1 DEF BinaryFirst, Changing, Done
<1>6. (Written /\ Linked /\ Marker)'
    BY <1>1, <1>2 DEF Written, Linked, Marker, MarkerMeansLoaded, NextConf, Trusted,
       StrandedIsNotLoaded, SuccessMeansLoaded, Done
<1> QED BY <1>3, <1>4, <1>5, <1>6

LEMMA FaultIInv == ASSUME IInv, Fault PROVE IInv'
<1> USE DEF IInv
<1>1. /\ pc' = "idle" /\ pc \notin Done /\ faults' = faults + 1 /\ faults < MaxFaults
      /\ stranded' = (stranded \/ Strands)
      /\ UNCHANGED <<distro, requested, hasPackages, dbus, bin, generated, conf, active,
                     loaded, cgroup>>
    BY DEF Fault, Pod, Files
<1>2. TypeOK'
    BY <1>1, InstallerAssumption DEF TypeOK
<1>3. (OneEach(conf) /\ OneEach(generated) /\ Founded(conf) /\ Founded(generated))'
    BY <1>1 DEF Founded
<1>4. (BinaryFirst /\ Written)'
    BY <1>1 DEF BinaryFirst, Written, Changing, Done
<1>5. Linked' /\ Trusted(NextConf)' = Trusted(NextConf)
    BY <1>1, SameFiles DEF Trusted
<1>6. ASSUME active, ~stranded, ~Strands PROVE Trusted(NextConf)
    <2>1. CASE pc \notin {"forget", "restart_dbus", "restart"}
        BY <1>6, <2>1 DEF Marker, MarkerMeansLoaded
    <2>2. CASE pc \in {"forget", "restart_dbus", "restart"}
        <3>1. ~Has(NextConf, Section) \/ Has(loaded, {"runtime"})
            BY <1>6, <2>2 DEF Strands
        <3>2. CASE Has(loaded, {"runtime"}) /\ Has(NextConf, Section)
            <4>1. CASE distro \in Templated
                BY <3>2, <4>1 DEF Linked, Trusted, NextConf
            <4>2. CASE distro \notin Templated
                <5>1. NextConf = conf /\ distro # "k3s"
                    BY <4>2 DEF NextConf, Templated
                <5> QED BY <3>2, <5>1 DEF Trusted, Founded
            <4> QED BY <4>1, <4>2
        <3> QED BY <3>1, <3>2 DEF Trusted
    <2> QED BY <2>1, <2>2
<1>7. StrandedIsNotLoaded'
    BY <1>1 DEF Marker, StrandedIsNotLoaded, Strands
<1>8. MarkerMeansLoaded'
    BY <1>1, <1>5, <1>6 DEF MarkerMeansLoaded
<1>9. Marker'
    BY <1>1, <1>7, <1>8 DEF Marker, SuccessMeansLoaded, Done
<1> QED BY <1>2, <1>3, <1>4, <1>5, <1>9

LEMMA ResetIInv == ASSUME IInv, ResetConf PROVE IInv'
<1> USE DEF IInv
<1>1. /\ pc = "idle" /\ conf' = <<>> /\ generated' = <<>> /\ faults' = faults + 1
      /\ faults < MaxFaults
      /\ stranded' = FALSE
      /\ UNCHANGED <<distro, requested, hasPackages, dbus, bin, active, loaded, pc, cgroup>>
    BY DEF ResetConf, Pod
<1>2. TypeOK'
    <2>1. conf' \in Seq(Section) /\ generated' \in Seq(Section)
        BY <1>1, EmptyFile
    <2>2. faults' \in 0..MaxFaults
        BY <1>1, InstallerAssumption DEF TypeOK
    <2>3. stranded' \in BOOLEAN
        BY <1>1
    <2> QED BY <1>1, <2>1, <2>2, <2>3 DEF TypeOK
<1>3. (OneEach(conf) /\ OneEach(generated) /\ Founded(conf) /\ Founded(generated))'
    BY <1>1, EmptyFile DEF Founded
<1>4. (BinaryFirst /\ Written)'
    BY <1>1, EmptyFile DEF BinaryFirst, Written, Changing, Done
<1>5. (Linked /\ Marker)'
    BY <1>1, EmptyFile DEF Linked, Marker, MarkerMeansLoaded, NextConf, Trusted,
       StrandedIsNotLoaded, SuccessMeansLoaded, Done
<1> QED BY <1>2, <1>3, <1>4, <1>5

LEMMA RebootIInv == ASSUME IInv, Reboot PROVE IInv'
<1> USE DEF IInv
<1>1. /\ pc = "idle" /\ generated' = conf /\ loaded' = conf
      /\ stranded' = (stranded /\ ~Has(loaded', {"runtime"}))
      /\ UNCHANGED <<distro, requested, hasPackages, dbus, bin, conf, active, pc, cgroup,
                     faults>>
    BY DEF Reboot, Reload, Pod
<1>2. TypeOK'
    BY <1>1 DEF TypeOK
<1>3. (OneEach(conf) /\ OneEach(generated) /\ Founded(conf) /\ Founded(generated))'
    BY <1>1 DEF Founded
<1>4. (BinaryFirst /\ Written)'
    BY <1>1 DEF BinaryFirst, Written, Changing, Done
<1>5. Linked' /\ NextConf' = conf
    BY <1>1 DEF Linked, NextConf
<1>6. StrandedIsNotLoaded'
    BY <1>1 DEF StrandedIsNotLoaded
<1>7. ASSUME active, ~stranded, Has(conf, Section), ~Has(conf, {"runtime"}) PROVE FALSE
    <2>1. Has(conf, {"legacy"}) /\ distro = "k3s"
        BY <1>7 DEF Founded
    <2>2. NextConf = generated /\ Has(generated, {"legacy"})
        BY <2>1 DEF NextConf, Templated, Linked
    <2>3. Has(generated, Section)
        BY <2>2 DEF Has, Section
    <2>4. Has(generated, {"runtime"})
        BY <1>1, <1>7, <2>2, <2>3 DEF Marker, MarkerMeansLoaded, Trusted
    <2> QED BY <2>2, <2>4 DEF OneEach, Has, Kind
<1>8. MarkerMeansLoaded'
    <2>1. stranded => (stranded' \/ Has(conf, {"runtime"}))
        BY <1>1
    <2> QED BY <1>1, <1>5, <1>7, <2>1 DEF MarkerMeansLoaded, Trusted
<1>9. Marker'
    BY <1>1, <1>6, <1>8 DEF Marker, SuccessMeansLoaded, Done
<1> QED BY <1>2, <1>3, <1>4, <1>5, <1>9

LEMMA NextIInv == IInv /\ [Next]_vars => IInv'
<1> SUFFICES ASSUME IInv, [Next]_vars PROVE IInv'
    OBVIOUS
<1>1. CASE Begin \/ EnsureDbus \/ Again
    <2>1. dbus \in BOOLEAN /\ cgroup \in BOOLEAN /\ hasPackages \in BOOLEAN
        BY DEF IInv, TypeOK
    <2>2. dbus' \in BOOLEAN /\ cgroup' \in BOOLEAN
        BY <1>1, <2>1 DEF Begin, EnsureDbus, Again
    <2> QED BY <1>1, <2>2, QuietIInv DEF Begin, EnsureDbus, Again, Goto, Pod, Files
<1>2. CASE UNCHANGED vars
    BY <1>2 DEF vars, IInv, TypeOK, OneEach, Founded, Has, BinaryFirst, Written,
                Linked, Marker, MarkerMeansLoaded, NextConf, Trusted,
                StrandedIsNotLoaded, SuccessMeansLoaded
<1> QED BY <1>1, <1>2, DetectIInv, CopyIInv, AppendRuntimeIInv, ForgetIInv, OptionsIInv,
           MigrateIInv, ActivateIInv, RestartIInv, FaultIInv, ResetIInv, RebootIInv
        DEF Next, Script

LEMMA Invariant == Spec => []IInv
<1>1. Init => IInv
    BY InitIInv
<1>2. IInv /\ [Next]_vars => IInv'
    BY NextIInv
<1> QED BY <1>1, <1>2, PTL DEF Spec

----------------------------------------------------------------------------
\* Every variable of the model keeps its type (installer.sh).
THEOREM TypeCorrect == Spec => []TypeOK
<1>1. IInv => TypeOK
    BY DEF IInv
<1> QED BY <1>1, Invariant, PTL

\* No run of installer.sh, cut short or not, appends a section that is there.
THEOREM NoSectionTwice == Spec => []OneSectionEach
<1>1. IInv => OneSectionEach
    BY DEF IInv, OneEach, Kind, OneSectionEach
<1> QED BY <1>1, Invariant, PTL

\* After a success of installer.sh containerd knows the runtime, on every node but
\* those that a run cut short between append and rm active, or between touch active
\* and the restart, has left stranded.
THEOREM SuccessIsLoaded == Spec => []SuccessMeansLoaded
<1>1. IInv => SuccessMeansLoaded
    BY DEF IInv, Marker
<1> QED BY <1>1, Invariant, PTL

\* installer.sh copies the binary before it names it: containerd never knows a
\* runtime without one.
THEOREM BinaryIsThere == Spec => []RuntimeHasBinary
<1>1. IInv => RuntimeHasBinary
    BY DEF IInv, BinaryFirst, RuntimeHasBinary
<1> QED BY <1>1, Invariant, PTL
=============================================================================
