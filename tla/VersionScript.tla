--------------------------- MODULE VersionScript ----------------------------
(* scripts/version.sh, which bumps the version for a release: the base      *)
(* Cargo.toml, the manifests of the test images, their lock files, and the  *)
(* documents that name the version.  The script does not stop when a        *)
(* command fails, it may be interrupted between any two of them, and it is  *)
(* run again and again on the same tree.                                    *)
EXTENDS Naturals

CONSTANTS
    Manifest,  \* the Cargo.toml files under images/
    Doc,       \* OTHER_FILES
    Garbage,   \* what is written when the old version is not known
    MaxPart,   \* bound on each number of a version
    MaxFaults  \* bound on interruptions and failing commands

Part == 0..MaxPart
Version == {<<x, y, z>> : x \in Part, y \in Part, z \in Part}

ASSUME VersionAssumption ==
    /\ MaxPart \in Nat \ {0}
    /\ MaxFaults \in Nat
    /\ Garbage \notin Version

Option == {"s", "m", "n", "p"}

VARIABLES
    base,      \* the version in the base Cargo.toml
    baseLock,  \* and in the workspace's lock file, where it is looked up
    manifest,  \* the versions in the images' manifests
    lock,      \* and in their lock files
    doc,       \* the version each document names
    pc,        \* the step of the script; "done" is exit 0, "failed" exit 1
    todo,      \* the files its loop has still to visit
    current,   \* the manifest it is at
    opts,      \* the options given
    old,       \* OLD_VERSION
    new,       \* NEW_VERSION
    missed,    \* a command of this run failed and the script went on
    faults

vars == <<base, baseLock, manifest, lock, doc, pc, todo, current, opts, old, new,
          missed, faults>>

Known == Version \cup {Garbage}

TypeOK ==
    /\ base \in Known /\ baseLock \in Known
    /\ manifest \in [Manifest -> Known] /\ lock \in [Manifest -> Known]
    /\ doc \in [Doc -> Known]
    /\ pc \in {"idle", "base", "base_lock", "manifests", "lock", "docs", "done", "failed"}
    /\ todo \subseteq Manifest \cup Doc
    /\ current \in Manifest
    /\ opts \subseteq Option
    /\ old \in Known /\ new \in Known
    /\ missed \in BOOLEAN
    /\ faults \in 0..MaxFaults

\* A tree that agrees with itself.
Init ==
    /\ base = <<0, 0, 0>>
    /\ baseLock = base
    /\ manifest = [m \in Manifest |-> base]
    /\ lock = manifest
    /\ doc = [d \in Doc |-> base]
    /\ pc = "idle"
    /\ todo = {}
    /\ current \in Manifest
    /\ opts = {}
    /\ old = base
    /\ new = base
    /\ missed = FALSE
    /\ faults = 0

Tree == <<base, baseLock, manifest, lock, doc>>
Args == <<opts, old, new>>

\* mutant: suffixes are kept (version.sh:31)
new_version_suffixed(v, o) ==
    CASE "s" \in o -> v
      [] "s" \notin o -> <<v[1], v[2], v[3] + 1, "rc">>

\* The first of -s, -m, -n counts, and PATCH is set from the start.  awk takes
\* the parts of an empty version for zero where it adds and prints nothing for
\* them elsewhere: only -m makes a version of it.
new_version(v, o) ==
    CASE "s" \in o                           -> v
      [] v = Garbage /\ "s" \notin o         -> IF "m" \in o THEN <<1, 0, 0>> ELSE Garbage
      [] v # Garbage /\ o \cap {"s", "m"} = {"m"}           -> <<v[1] + 1, 0, 0>>
      [] v # Garbage /\ o \cap {"s", "m", "n"} = {"n"}      -> <<v[1], v[2] + 1, 0>>
      [] v # Garbage /\ o \cap {"s", "m", "n"} = {}         -> <<v[1], v[2], v[3] + 1>>

\* mutant: the version is read from an image's manifest
get_version_image == CHOOSE v \in Known : \E m \in Manifest : manifest[m] = v

\* cargo pkgid --package, which answers from the workspace's lock file, and not at
\* all when the base manifest has garbage in it.  Between the sed on the manifest
\* and cargo check the two name different versions.
get_version == IF base = Garbage THEN Garbage ELSE baseLock

\* A command may fail as long as faults are left.
Fails == faults < MaxFaults /\ faults' = faults + 1 /\ missed' = TRUE
Works == UNCHANGED <<faults, missed>>

----------------------------------------------------------------------------
Small(v) == v # Garbage => \A i \in 1..3 : v[i] < MaxPart

\* An invocation.
Begin ==
    /\ pc = "idle"
    /\ Small(get_version)
    /\ opts' \in SUBSET Option
    /\ \/ old' = get_version /\ missed' = (get_version = Garbage) /\ UNCHANGED faults
       \/ old' = Garbage /\ Fails
    /\ new' = new_version(old', opts')
    /\ pc' = "base"
    /\ UNCHANGED <<Tree, todo, current>>

\* update_file_version, whose sed works, or fails with a status that is not 1 (a
\* file it cannot read or write) and the script goes on to the next step.
Update(works, file, next) ==
    /\ pc' = next
    /\ \/ works /\ Works
       \/ Fails /\ UNCHANGED file

\* Its sed fails with status 1, the one the script looks for.
Refused ==
    /\ pc \in {"base", "manifests", "docs"}
    /\ pc \in {"manifests", "docs"} => todo # {}
    /\ \/ Fails
       \/ pc = "docs" /\ old = Garbage /\ "s" \in opts /\ UNCHANGED <<faults, missed>>
    /\ pc' = "failed"
    /\ UNCHANGED <<Tree, Args, todo, current>>

UpdateBase ==
    /\ pc = "base"
    /\ Update(base' = new, base, "base_lock")
    /\ UNCHANGED <<baseLock, manifest, lock, doc, Args, todo, current>>

\* cargo check, whose status is not looked at: it writes the lock file of a
\* manifest it can read, or it fails.
Check(version, file, written) ==
    \/ version # Garbage /\ written /\ Works
    \/ version = Garbage /\ UNCHANGED <<file, faults, missed>>
    \/ Fails /\ UNCHANGED file

CheckBase ==
    /\ pc = "base_lock"
    /\ Check(base, baseLock, baseLock' = base)
    /\ pc' = "manifests"
    /\ todo' = Manifest
    /\ UNCHANGED <<base, manifest, lock, doc, Args, current>>

\* mutant: only a manifest that has the old version is changed
UpdateMatchingManifest ==
    /\ pc = "manifests"
    /\ \E m \in todo :
          /\ current' = m
          /\ todo' = todo \ {m}
          /\ Update(manifest' = [manifest EXCEPT ![m] = IF @ = old THEN new ELSE @],
                    manifest, "lock")
    /\ UNCHANGED <<base, baseLock, lock, doc, Args>>

\* The next manifest, in the order find has them; whatever its version is, it is
\* replaced.
UpdateManifest ==
    /\ pc = "manifests"
    /\ \E m \in todo :
          /\ current' = m
          /\ todo' = todo \ {m}
          /\ Update(manifest' = [manifest EXCEPT ![m] = new], manifest, "lock")
    /\ UNCHANGED <<base, baseLock, lock, doc, Args>>

CheckManifest ==
    /\ pc = "lock"
    /\ Check(manifest[current], lock, lock' = [lock EXCEPT ![current] = manifest[current]])
    /\ pc' = "manifests"
    /\ UNCHANGED <<base, baseLock, manifest, doc, Args, todo, current>>

EndManifests ==
    /\ pc = "manifests"
    /\ todo = {}
    /\ pc' = "docs"
    /\ todo' = Doc
    /\ UNCHANGED <<Tree, Args, missed, current, faults>>

\* mutant: the old version is read when the documents' turn comes
ReplacedLate(v) == {IF v = base THEN new ELSE v}

\* What s/OLD/NEW/g makes of a document.  The arguments are not quoted: without an
\* old version the new one is searched and erased.
Replaced(v) ==
    IF old # Garbage THEN {IF v = old THEN new ELSE v}
    ELSE IF new = Garbage THEN {v, Garbage}
    ELSE {IF v = new THEN Garbage ELSE v}

UpdateDoc ==
    /\ pc = "docs"
    /\ old = Garbage => "s" \notin opts
    /\ \E d \in todo :
          /\ todo' = todo \ {d}
          /\ \E v \in Replaced(doc[d]) : Update(doc' = [doc EXCEPT ![d] = v], doc, "docs")
    /\ UNCHANGED <<base, baseLock, manifest, lock, Args, current>>

EndDocs ==
    /\ pc = "docs"
    /\ todo = {}
    /\ pc' = "done"
    /\ UNCHANGED <<Tree, Args, todo, missed, current, faults>>

\* The script is interrupted.
Interrupt ==
    /\ pc \notin {"idle", "done", "failed"}
    /\ faults < MaxFaults
    /\ faults' = faults + 1
    /\ pc' = "idle"
    /\ UNCHANGED <<Tree, Args, todo, missed, current>>

\* The next release, or another attempt.
Again ==
    /\ pc \in {"done", "failed"}
    /\ pc' = "idle"
    /\ UNCHANGED <<Tree, Args, todo, missed, current, faults>>

\* The bound on versions is reached.
Exhausted == pc = "idle" /\ ~Small(get_version) /\ UNCHANGED vars

Next ==
    \/ Begin \/ Refused \/ UpdateBase \/ CheckBase \/ UpdateManifest \/ CheckManifest
    \/ EndManifests \/ UpdateDoc \/ EndDocs \/ Interrupt \/ Again \/ Exhausted

Spec == Init /\ [][Next]_vars

----------------------------------------------------------------------------
(* Properties.                                                              *)

\* v is a later release than w.
Later(v, w) ==
    \E i \in 1..3 : v[i] > w[i] /\ \A j \in 1..(i - 1) : v[j] = w[j]

\* A run none of whose commands failed leaves all manifests and all lock files with
\* one version, whatever interrupted runs before it left behind.
ManifestsAgree ==
    pc = "done" /\ ~missed =>
        /\ base = new /\ baseLock = new
        /\ \A m \in Manifest : manifest[m] = new /\ lock[m] = new

\* The version that the next bump starts from, the one in the lock file, never goes
\* back in a run that missed nothing, whichever runs were interrupted before and
\* wherever.  The base Cargo.toml may: a run cut short between its sed (version.sh:90)
\* and cargo check (line 92) has it ahead of the lock file, and the next run begins
\* at the lock file again.
LockGoesForward ==
    [][baseLock' # baseLock /\ ~missed => Later(baseLock', baseLock)]_vars

\* Only a run that was cut short or had a failing command can leave a document
\* behind: the version that is replaced is the one from before the base changed.
DocsInStep == faults = 0 /\ pc \in {"idle", "done"} => \A d \in Doc : doc[d] = base

\* "-s updates all files to reflect the current base Cargo.toml version"
\* (version.sh:68): a run with -s whose commands all worked leaves no file behind.
SameUpdatesAll ==
    pc = "done" /\ ~missed /\ "s" \in opts => \A d \in Doc : doc[d] = base
=============================================================================
