------------------------- MODULE VersionScriptProofs -------------------------
(* Theorems about VersionScript, for any manifests and documents, any bound *)
(* on versions, and any number of interruptions and failing commands.       *)
EXTENDS VersionScript, TLAPS

\* Which files a loop has still to visit.
Visits ==
    /\ pc \in {"manifests", "lock"} => todo \subseteq Manifest
    /\ pc = "docs" => todo \subseteq Doc

\* The lock file always has a version.  A run that missed nothing has one too, not
\* earlier than the lock file's until it is written there.
Bumped ==
    /\ baseLock \in Version
    /\ ~missed /\ pc \notin {"idle", "failed"} =>
           /\ new \in Version
           /\ pc \in {"base", "base_lock"} => new = baseLock \/ Later(new, baseLock)

Done(m) == manifest[m] = new /\ lock[m] = new

\* And has given it to the files it has visited.
Written ==
    ~missed =>
        /\ pc \in {"base_lock", "manifests", "lock", "docs", "done"} => base = new
        /\ pc \in {"manifests", "lock", "docs", "done"} => baseLock = new
        /\ pc = "manifests" => \A m \in Manifest \ todo : Done(m)
        /\ pc = "lock" => /\ manifest[current] = new
                          /\ \A m \in Manifest \ (todo \cup {current}) : Done(m)
        /\ pc \in {"docs", "done"} => \A m \in Manifest : Done(m)

\* As long as nothing failed and nothing was interrupted, documents name the version
\* from before the base changed until they are visited.
Documents ==
    faults = 0 =>
        /\ ~missed /\ base # Garbage /\ pc # "failed"
        /\ pc \notin {"idle", "done"} => old # Garbage
        /\ pc \in {"idle", "base", "done"} => baseLock = base
        /\ pc = "base" => old = base
        /\ pc \in {"idle", "done"} => \A d \in Doc : doc[d] = base
        /\ pc \in {"base", "base_lock", "manifests", "lock"} => \A d \in Doc : doc[d] = old
        /\ pc = "docs" => \A d \in Doc : doc[d] = IF d \in todo THEN old ELSE new

IInv == TypeOK /\ Visits /\ Bumped /\ Written /\ Documents

----------------------------------------------------------------------------
LEMMA Zero == <<0, 0, 0>> \in Version
BY VersionAssumption DEF Version, Part

\* The version a run is about to write: the one there is or a later one.
LEMMA NewVersion ==
    ASSUME NEW v \in Version, Small(v), NEW o \in SUBSET Option
    PROVE  /\ new_version(v, o) \in Version
           /\ new_version(v, o) = v \/ Later(new_version(v, o), v)
<1>1. PICK x \in Part, y \in Part, z \in Part : v = <<x, y, z>>
    BY DEF Version
<1>2. v # Garbage /\ x + 1 \in Part /\ y + 1 \in Part /\ z + 1 \in Part /\ 0 \in Part
    BY <1>1, VersionAssumption DEF Small, Part
<1>3. \/ new_version(v, o) = v
      \/ new_version(v, o) = <<x + 1, 0, 0>>
      \/ new_version(v, o) = <<x, y + 1, 0>>
      \/ new_version(v, o) = <<x, y, z + 1>>
    BY <1>1, <1>2 DEF new_version
<1>4. new_version(v, o) \in Version
    BY <1>1, <1>2, <1>3 DEF Version
<1>5. ASSUME NEW w, NEW i \in 1..3, w[i] > v[i], \A j \in 1..(i - 1) : w[j] = v[j]
      PROVE  Later(w, v)
    BY <1>5 DEF Later
<1>6. Later(<<x + 1, 0, 0>>, v)
    <2>1. (x + 1) > x
        BY DEF Part
    <2> QED BY <1>1, <1>5, <2>1
<1>7. Later(<<x, y + 1, 0>>, v)
    <2>1. (y + 1) > y
        BY DEF Part
    <2> QED BY <1>1, <1>5, <2>1
<1>8. Later(<<x, y, z + 1>>, v)
    <2>1. (z + 1) > z
        BY DEF Part
    <2> QED BY <1>1, <1>5, <2>1
<1> QED BY <1>3, <1>4, <1>6, <1>7, <1>8

\* Without an old version it is a version or garbage.
LEMMA NewGarbage ==
    ASSUME NEW o \in SUBSET Option
    PROVE  new_version(Garbage, o) \in Known
<1>1. <<1, 0, 0>> \in Version
    BY VersionAssumption DEF Version, Part
<1> QED BY <1>1 DEF new_version, Known

LEMMA ReplacedType ==
    ASSUME TypeOK, NEW v \in Known
    PROVE  Replaced(v) \subseteq Known
BY DEF Replaced, TypeOK, Known

LEMMA InitIInv == Init => IInv
<1> SUFFICES ASSUME Init PROVE IInv
    OBVIOUS
<1>1. base \in Version /\ base \in Known
    BY Zero DEF Init, Known
<1>2. TypeOK
    <2>1. manifest \in [Manifest -> Known] /\ lock \in [Manifest -> Known] /\ doc \in [Doc -> Known]
        BY <1>1 DEF Init
    <2>2. missed \in BOOLEAN /\ opts \subseteq Option
        BY DEF Init
    <2>3. faults \in 0..MaxFaults
        BY VersionAssumption DEF Init
    <2>4. /\ baseLock \in Known /\ old \in Known /\ new \in Known /\ current \in Manifest
          /\ pc = "idle" /\ todo \subseteq Manifest \cup Doc
        BY <1>1 DEF Init
    <2> QED BY <1>1, <2>1, <2>2, <2>3, <2>4 DEF TypeOK
<1>3. Visits /\ Bumped /\ Written /\ Documents
    BY <1>1, VersionAssumption DEF Init, Visits, Bumped, Written, Documents
<1> QED BY <1>2, <1>3 DEF IInv

\* Counting a fault keeps the count within its bound and is never undone.
LEMMA FaultsGrow ==
    ASSUME TypeOK, Fails \/ UNCHANGED faults
    PROVE  faults' \in 0..MaxFaults /\ (faults' = 0 => faults = 0 /\ UNCHANGED faults)
BY VersionAssumption DEF TypeOK, Fails

LEMMA BeginIInv == ASSUME IInv, Begin PROVE IInv'
<1> USE DEF IInv
<1>1. /\ pc = "idle" /\ pc' = "base" /\ Small(get_version) /\ opts' \in SUBSET Option
      /\ new' = new_version(old', opts') /\ UNCHANGED <<Tree, todo, current>>
      /\ \/ old' = get_version /\ missed' = (get_version = Garbage) /\ UNCHANGED faults
         \/ old' = Garbage /\ Fails
    BY DEF Begin
<1>2. faults' \in 0..MaxFaults /\ (faults' = 0 => faults = 0 /\ UNCHANGED faults)
    BY <1>1, FaultsGrow
<1>3. /\ get_version \in Known /\ baseLock \in Version
      /\ get_version # Garbage => get_version = baseLock /\ base # Garbage
      /\ faults = 0 => get_version = base /\ get_version # Garbage
    BY <1>1 DEF TypeOK, Known, Bumped, Documents, get_version
<1>4. /\ old' \in Known /\ new' \in Known /\ missed' \in BOOLEAN
      /\ ~missed' => /\ old' = baseLock /\ old' # Garbage /\ new' \in Version
                     /\ new' = baseLock \/ Later(new', baseLock)
    <2>1. CASE old' = get_version /\ get_version # Garbage
        BY <1>1, <1>3, <2>1, NewVersion DEF Known, Fails
    <2>2. CASE old' = Garbage
        BY <1>1, <2>2, NewGarbage DEF Known, Fails
    <2> QED BY <1>1, <2>1, <2>2
<1>5. TypeOK'
    BY <1>1, <1>2, <1>4 DEF TypeOK, Tree
<1>6. Bumped'
    BY <1>1, <1>3, <1>4 DEF Bumped, Tree, Later
<1>7. Visits' /\ Written'
    BY <1>1 DEF Visits, Written
<1>8. Documents'
    <2>1. faults' = 0 => faults = 0 /\ ~missed'
        <3>1. CASE Fails
            BY <1>2, <3>1, VersionAssumption DEF Fails, TypeOK
        <3>2. CASE missed' = (get_version = Garbage)
            BY <1>2, <1>3, <3>2 DEF Documents
        <3> QED BY <1>1, <3>1, <3>2
    <2> QED BY <1>1, <1>3, <1>4, <2>1 DEF Documents, Tree
<1> QED BY <1>5, <1>6, <1>7, <1>8

\* The script stops, or is stopped, and is called again.
LEMMA StopIInv == ASSUME IInv, Refused \/ Interrupt \/ Again PROVE IInv'
<1> USE DEF IInv
<1>1. /\ UNCHANGED <<Tree, Args, todo, current>> /\ pc' \in {"idle", "failed"}
      /\ missed' \in BOOLEAN
    BY DEF Refused, Interrupt, Again, Fails, TypeOK
<1>2. faults' \in 0..MaxFaults /\ (faults' = 0 => faults = 0 /\ UNCHANGED <<faults, missed>>)
    BY VersionAssumption DEF Refused, Interrupt, Again, Fails, TypeOK
<1>3. TypeOK'
    BY <1>1, <1>2 DEF TypeOK, Tree, Args
<1>4. Visits' /\ Bumped' /\ Written'
    BY <1>1 DEF Visits, Bumped, Written, Tree
<1>5. Documents'
    <2>1. CASE Again
        BY <1>1, <1>2, <2>1 DEF Again, Documents, Tree
    <2>2. CASE Interrupt
        <3>1. faults' # 0
            BY <2>2, VersionAssumption DEF Interrupt, TypeOK
        <3> QED BY <3>1 DEF Documents
    <2>3. CASE Refused
        <3>1. faults' # 0
            <4>1. CASE Fails
                BY <4>1, VersionAssumption DEF Fails, TypeOK
            <4>2. CASE pc = "docs" /\ old = Garbage /\ UNCHANGED faults
                BY <4>2 DEF Documents
            <4> QED BY <2>3, <4>1, <4>2 DEF Refused
        <3> QED BY <3>1 DEF Documents
    <2> QED BY <2>1, <2>2, <2>3
<1> QED BY <1>3, <1>4, <1>5

\* What the commands of a step do to faults and missed.
LEMMA CommandEffect ==
    ASSUME IInv, Works \/ Fails
    PROVE  /\ missed' \in BOOLEAN /\ faults' \in 0..MaxFaults
           /\ ~missed' => ~missed /\ Works
           /\ faults' = 0 => faults = 0 /\ ~missed /\ ~missed' /\ Works
<1>1. CASE Works
    BY <1>1, FaultsGrow DEF Works, IInv, TypeOK, Documents
<1>2. CASE Fails
    <2>1. faults' # 0 /\ missed' = TRUE
        BY <1>2, VersionAssumption DEF Fails, IInv, TypeOK
    <2> QED BY <1>2, <2>1, FaultsGrow DEF IInv
<1> QED BY <1>1, <1>2

LEMMA UpdateBaseIInv == ASSUME IInv, UpdateBase PROVE IInv'
<1> USE DEF IInv
<1>1. /\ pc = "base" /\ pc' = "base_lock"
      /\ UNCHANGED <<baseLock, manifest, lock, doc, Args, todo, current>>
      /\ \/ base' = new /\ Works
         \/ Fails /\ UNCHANGED base
    BY DEF UpdateBase, Update
<1>2. /\ missed' \in BOOLEAN /\ faults' \in 0..MaxFaults
      /\ ~missed' => ~missed /\ base' = new
      /\ faults' = 0 => faults = 0 /\ ~missed /\ ~missed' /\ base' = new
    BY <1>1, CommandEffect DEF Fails
<1>3. TypeOK' /\ Visits'
    BY <1>1, <1>2 DEF TypeOK, Visits, Args
<1>4. Bumped' /\ Written'
    BY <1>1, <1>2 DEF Bumped, Written, Args
<1>5. Documents'
    BY <1>1, <1>2, VersionAssumption DEF Documents, Bumped, Args
<1> QED BY <1>3, <1>4, <1>5

LEMMA CheckBaseIInv == ASSUME IInv, CheckBase PROVE IInv'
<1> USE DEF IInv
<1>1. /\ pc = "base_lock" /\ pc' = "manifests" /\ todo' = Manifest
      /\ UNCHANGED <<base, manifest, lock, doc, Args, current>>
      /\ Works \/ Fails
      /\ (base # Garbage /\ baseLock' = base) \/ UNCHANGED baseLock
      /\ base # Garbage /\ Works /\ baseLock' # base => FALSE
    BY DEF CheckBase, Check, Works, Fails, TypeOK
<1>2. /\ missed' \in BOOLEAN /\ faults' \in 0..MaxFaults
      /\ ~missed' => ~missed /\ Works
      /\ faults' = 0 => faults = 0 /\ ~missed /\ ~missed'
    BY <1>1, CommandEffect
<1>3. ~missed' => base = new /\ new \in Version /\ baseLock' = new
    BY <1>1, <1>2, VersionAssumption DEF Written, Bumped
<1>4. baseLock' \in Version
    BY <1>1 DEF Bumped, TypeOK, Known
<1>5. TypeOK' /\ Visits'
    BY <1>1, <1>2 DEF TypeOK, Visits, Args
<1>6. Bumped' /\ Written'
    BY <1>1, <1>2, <1>3, <1>4 DEF Bumped, Written, Args
<1>7. Documents'
    BY <1>1, <1>2 DEF Documents, Args
<1> QED BY <1>5, <1>6, <1>7

LEMMA UpdateManifestIInv == ASSUME IInv, UpdateManifest PROVE IInv'
<1> USE DEF IInv
<1>1. PICK m \in todo :
          /\ pc = "manifests" /\ pc' = "lock" /\ current' = m /\ todo' = todo \ {m}
          /\ UNCHANGED <<base, baseLock, lock, doc, Args>>
          /\ \/ manifest' = [manifest EXCEPT ![m] = new] /\ Works
             \/ Fails /\ UNCHANGED manifest
    BY DEF UpdateManifest, Update
<1>2. /\ missed' \in BOOLEAN /\ faults' \in 0..MaxFaults
      /\ ~missed' => ~missed /\ manifest' = [manifest EXCEPT ![m] = new]
      /\ faults' = 0 => faults = 0 /\ ~missed /\ ~missed'
    BY <1>1, CommandEffect DEF Fails
<1>3. m \in Manifest /\ todo \subseteq Manifest
    BY <1>1 DEF Visits
<1>4. manifest' \in [Manifest -> Known]
    BY <1>1, <1>3 DEF TypeOK
<1>5. TypeOK' /\ Visits'
    BY <1>1, <1>2, <1>3, <1>4 DEF TypeOK, Visits, Args
<1>6. Bumped' /\ Documents'
    BY <1>1, <1>2 DEF Bumped, Documents, Args
<1>7. Written'
    <2>1. ASSUME ~missed'
          PROVE  /\ manifest'[m] = new
                 /\ \A k \in Manifest \ (todo' \cup {m}) : manifest'[k] = new /\ lock'[k] = new
        BY <1>1, <1>2, <1>3, <2>1 DEF Written, Done, TypeOK
    <2> QED BY <1>1, <1>2, <2>1 DEF Written, Done, Args
<1> QED BY <1>5, <1>6, <1>7

LEMMA CheckManifestIInv == ASSUME IInv, CheckManifest PROVE IInv'
<1> USE DEF IInv
<1>1. /\ pc = "lock" /\ pc' = "manifests"
      /\ UNCHANGED <<base, baseLock, manifest, doc, Args, todo, current>>
      /\ Works \/ Fails
      /\ lock' = [lock EXCEPT ![current] = manifest[current]] \/ UNCHANGED lock
      /\ ~missed' /\ manifest[current] # Garbage =>
             lock' = [lock EXCEPT ![current] = manifest[current]]
    BY DEF CheckManifest, Check, Works, Fails
<1>2. /\ missed' \in BOOLEAN /\ faults' \in 0..MaxFaults
      /\ ~missed' => ~missed
      /\ faults' = 0 => faults = 0 /\ ~missed /\ ~missed'
    BY <1>1, CommandEffect
<1>3. lock' \in [Manifest -> Known]
    BY <1>1 DEF TypeOK
<1>4. TypeOK' /\ Visits'
    BY <1>1, <1>2, <1>3 DEF TypeOK, Visits, Args
<1>5. Bumped' /\ Documents'
    BY <1>1, <1>2 DEF Bumped, Documents, Args
<1>6. Written'
    <2>1. ASSUME ~missed'
          PROVE  \A k \in Manifest \ todo : manifest[k] = new /\ lock'[k] = new
        <3>1. manifest[current] = new /\ new \in Version
            BY <1>1, <1>2, <2>1 DEF Written, Bumped
        <3>2. lock' = [lock EXCEPT ![current] = new]
            BY <1>1, <2>1, <3>1, VersionAssumption
        <3> QED BY <1>1, <1>2, <2>1, <3>1, <3>2 DEF Written, Done, TypeOK
    <2> QED BY <1>1, <1>2, <2>1 DEF Written, Done, Args
<1> QED BY <1>4, <1>5, <1>6

LEMMA EndLoopIInv == ASSUME IInv, EndManifests \/ EndDocs PROVE IInv'
<1> USE DEF IInv
<1>1. /\ todo = {} /\ UNCHANGED <<Tree, Args, missed, current, faults>>
      /\ \/ pc = "manifests" /\ pc' = "docs" /\ todo' = Doc
         \/ pc = "docs" /\ pc' = "done" /\ todo' = {}
    BY DEF EndManifests, EndDocs
<1>2. TypeOK' /\ Visits'
    BY <1>1 DEF TypeOK, Visits, Tree, Args
<1>3. Bumped'
    BY <1>1 DEF Bumped, Tree, Args
<1>4. Written'
    BY <1>1 DEF Written, Done, Tree, Args
<1>5. Documents'
    BY <1>1 DEF Documents, Written, Tree, Args
<1> QED BY <1>2, <1>3, <1>4, <1>5

LEMMA UpdateDocIInv == ASSUME IInv, UpdateDoc PROVE IInv'
<1> USE DEF IInv
<1>0. PICK d \in todo :
          /\ todo' = todo \ {d}
          /\ \E v \in Replaced(doc[d]) : Update(doc' = [doc EXCEPT ![d] = v], doc, "docs")
    BY DEF UpdateDoc
<1>1. PICK v \in Replaced(doc[d]) :
          /\ pc = "docs" /\ pc' = "docs" /\ todo' = todo \ {d}
          /\ UNCHANGED <<base, baseLock, manifest, lock, Args, current>>
          /\ \/ doc' = [doc EXCEPT ![d] = v] /\ Works
             \/ Fails /\ UNCHANGED doc
    BY <1>0 DEF UpdateDoc, Update
<1>2. /\ missed' \in BOOLEAN /\ faults' \in 0..MaxFaults
      /\ ~missed' => ~missed
      /\ faults' = 0 => faults = 0 /\ ~missed /\ ~missed' /\ doc' = [doc EXCEPT ![d] = v]
    BY <1>1, CommandEffect DEF Fails
<1>3. d \in Doc /\ todo \subseteq Doc
    BY <1>1 DEF Visits
<1>4. v \in Known
    BY <1>1, <1>3, ReplacedType DEF TypeOK
<1>5. doc' \in [Doc -> Known]
    BY <1>1, <1>4 DEF TypeOK
<1>6. TypeOK' /\ Visits'
    BY <1>1, <1>2, <1>3, <1>5 DEF TypeOK, Visits, Args
<1>7. Bumped' /\ Written'
    BY <1>1, <1>2 DEF Bumped, Written, Done, Args
<1>8. Documents'
    <2>1. ASSUME faults' = 0
          PROVE  \A k \in Doc : doc'[k] = IF k \in todo' THEN old ELSE new
        <3>1. doc[d] = old /\ old # Garbage
            BY <1>1, <1>2, <1>3, <2>1 DEF Documents
        <3>2. v = new
            BY <1>1, <3>1 DEF Replaced
        <3> QED BY <1>1, <1>2, <1>3, <2>1, <3>2 DEF Documents, TypeOK
    <2> QED BY <1>1, <1>2, <2>1 DEF Documents, Args
<1> QED BY <1>6, <1>7, <1>8

LEMMA NextIInv == IInv /\ [Next]_vars => IInv'
<1> SUFFICES ASSUME IInv, [Next]_vars PROVE IInv'
    OBVIOUS
<1>1. CASE UNCHANGED vars
    BY <1>1 DEF vars, IInv, TypeOK, Visits, Bumped, Written, Done, Documents, Later
<1>2. CASE Begin
    BY <1>2, BeginIInv
<1>3. CASE Refused \/ Interrupt \/ Again
    BY <1>3, StopIInv
<1>4. CASE UpdateBase \/ CheckBase
    BY <1>4, UpdateBaseIInv, CheckBaseIInv
<1>5. CASE UpdateManifest \/ CheckManifest
    BY <1>5, UpdateManifestIInv, CheckManifestIInv
<1>6. CASE EndManifests \/ UpdateDoc \/ EndDocs
    BY <1>6, EndLoopIInv, UpdateDocIInv
<1> QED BY <1>1, <1>2, <1>3, <1>4, <1>5, <1>6 DEF Next, Exhausted

LEMMA AlwaysIInv == Spec => []IInv
<1>1. Init => IInv
    BY InitIInv
<1>2. IInv /\ [Next]_vars => IInv'
    BY NextIInv
<1> QED BY <1>1, <1>2, PTL DEF Spec

----------------------------------------------------------------------------
\* Every variable keeps its type; what awk and sed make of a version is a version or
\* the garbage the model has.
THEOREM TypeCorrect == Spec => []TypeOK
<1>1. IInv => TypeOK
    BY DEF IInv
<1> QED BY <1>1, AlwaysIInv, PTL

\* A run of version.sh whose commands all worked leaves every manifest and every lock
\* file with the new version, whatever earlier runs left behind.
THEOREM RunsRepair == Spec => []ManifestsAgree
<1>1. IInv => ManifestsAgree
    BY DEF IInv, Written, Done, ManifestsAgree
<1> QED BY <1>1, AlwaysIInv, PTL

\* Until a command fails or a run is interrupted the documents name the base's
\* version whenever the script is not at work.
THEOREM DocumentsFollow == Spec => []DocsInStep
<1>1. IInv => DocsInStep
    BY DEF IInv, Documents, DocsInStep
<1> QED BY <1>1, AlwaysIInv, PTL

\* However many runs of version.sh were interrupted, the version that cargo pkgid
\* answers with changes to a later one only, in runs that missed nothing.
THEOREM LockNeverGoesBack == Spec => LockGoesForward
<1>1. ASSUME IInv, [Next]_vars, baseLock' # baseLock, ~missed
      PROVE  Later(baseLock', baseLock)
    <2>1. CheckBase
        BY <1>1 DEF Next, Begin, Refused, UpdateBase, UpdateManifest, CheckManifest,
           EndManifests, UpdateDoc, EndDocs, Interrupt, Again, Exhausted, Tree, vars
    <2>2. pc = "base_lock" /\ baseLock' = base
        BY <1>1, <2>1 DEF CheckBase, Check
    <2>3. base = new
        BY <1>1, <2>2 DEF IInv, Written
    <2> QED BY <1>1, <2>2, <2>3 DEF IInv, Bumped
<1>2. IInv /\ [Next]_vars =>
          [baseLock' # baseLock /\ ~missed => Later(baseLock', baseLock)]_vars
    BY <1>1
<1> QED BY <1>2, AlwaysIInv, PTL DEF Spec, LockGoesForward
=============================================================================
