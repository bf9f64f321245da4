------------------------------ MODULE Versioning ------------------------------
(* Which specification, runtime and generator a checkout was made from, and   *)
(* what of it is released (devtools/scripts/axtp-versioning.mjs, the scripts  *)
(* beside it that call it, and .github/workflows/release.yml).                *)
(*                                                                            *)
(* Commands read the lock, the version and the generator of the checkout one  *)
(* after the other and write a manifest and constants in the runtime's        *)
(* languages one after the other, while others edit, commit and check out.    *)
EXTENDS Integers, FiniteSets

CONSTANTS
    Undef,           \* undefined; a file that is not there
    Procs,           \* processes, each of which runs a command at a time
    Targets,         \* number of files with version constants
    Locks,           \* contents of the lock: [repository, tag, version, commit]
    Versions,        \* versions of the runtime
    Generators,      \* versions of the generator
    Stamps,          \* values of generatedAt: seconds, or what the environment says
    Repository,      \* the only repository a lock may name
    SpecVersion(_),  \* X.Y.Z of X.Y.Z.R
    SpecTag(_),      \* "spec/v" + version
    Revision(_),     \* R of X.Y.Z.R, 0 without one
    Within(_),       \* the substrings of a value that are values
    Checkouts,       \* locks and versions to begin with: [lock, version, generator]
    MaxRuns,         \* bound on commands
    MaxChanges,      \* bound on edits from outside
    MaxTags          \* bound on tags

NoFile == Undef
Refused == Undef

ASSUME UndefAssumption ==
    Undef \notin Procs \cup Versions \cup {"generate", "check", "prepare"}
ASSUME BoundsAssumption == {Targets, MaxRuns, MaxChanges, MaxTags} \subseteq Nat
ASSUME CheckoutsAssumption ==
    Checkouts \subseteq [lock : Locks \cup {NoFile}, version : Versions, generator : Generators]

(* A stamp has seconds and looks like nothing else that is written down. *)
ASSUME StampsAssumption ==
    \A s \in Stamps :
        /\ \A v \in Versions \cup Generators \cup UNION {{l.version, l.tag, l.commit} : l \in Locks} :
             s \notin Within(v)
        /\ \A r \in Stamps : s \in Within(r) => s = r

(* What the manifest says. Commits of the runtime and hashes of the inputs are *)
(* never looked at again, and no other repository gets past the lock.         *)
Manifests ==
    [version : Versions, specVersion : {l.version : l \in Locks}, specTag : {l.tag : l \in Locks},
     specCommit : {l.commit : l \in Locks}, generator : Generators, at : Stamps]
Manifest(lock, generator, version, stamp) ==
    [version |-> version, specVersion |-> lock.version, specTag |-> lock.tag,
     specCommit |-> lock.commit, generator |-> generator, at |-> stamp]
ASSUME ManifestsAssumption == Undef \notin Manifests

(* What a constants file says of it, in each language under these names.      *)
VersionFields(m) ==
    [runtimeVersion |-> m.version, specVersion |-> m.specVersion, specTag |-> m.specTag,
     specCommit |-> m.specCommit, generatorVersion |-> m.generator, generatedAt |-> m.at]
RenderConstant(m) == VersionFields(m)

(* readSpecLock does not throw. *)
ReadSpecLock(lock) ==
    /\ lock # NoFile
    /\ Undef \notin {lock.tag, lock.version, lock.commit}
    /\ lock.repository = Repository

(* check-axtp-spec-lock.sh. *)
LockIsReleased(lock) == ReadSpecLock(lock) /\ lock.tag = SpecTag(lock.version)

(* What checkVersionMetadata asks of the files it has read; the tag is that   *)
(* of a release, Undef for a check of the checkout.                           *)
MatchesTag(lock, version, tag) ==
    /\ version = tag
    /\ lock.version = SpecVersion(tag)
    /\ lock.tag = SpecTag(SpecVersion(tag))
\* Wrong form of AssertEqual: the version is not compared.
AssertEqualButVersion(lock, manifest, version, generator) ==
    manifest = Manifest(lock, generator, manifest.version, manifest.at)
AssertEqual(lock, manifest, version, generator) ==
    manifest = Manifest(lock, generator, version, manifest.at)
CheckFields(lock, manifest, version, generator, tag) ==
    /\ tag # Undef => MatchesTag(lock, version, tag)
    /\ AssertEqual(lock, manifest, version, generator)

\* Wrong form of ConstantAgrees: the time of generation is not compared.
ConstantAgreesButTime(text, manifest) ==
    /\ text # NoFile
    /\ LET fields == VersionFields(manifest)
       IN  \A key \in DOMAIN fields \ {"generatedAt"} :
             \E k \in DOMAIN text : fields[key] \in Within(text[k])

(* A constants file agrees with the manifest when it has all its values       *)
(* somewhere in its text.                                                     *)
Includes(text, value) == \E k \in DOMAIN text : value \in Within(text[k])
ConstantAgrees(text, manifest) ==
    /\ text # NoFile
    /\ LET fields == VersionFields(manifest)
       IN  \A key \in DOMAIN fields : Includes(text, fields[key])

VARIABLES
    files,     \* the checkout: [lock, version, generator, manifest, constants]
    releases,  \* the commit each tag is on, and the notes published with it, or Refused
    pc, cmd,   \* where each process is, and the command it runs
    tag,       \* the version it checks a release for
    held,      \* what it has read
    at,        \* the constants file it is at
    calm,      \* nobody else has touched the checkout since it started
    used,      \* stamps that were given out
    reused,    \* one of them was given out twice
    runs,      \* commands so far
    changes    \* edits from outside so far

procVars == <<pc, cmd, tag, held, at>>
vars == <<files, releases, procVars, calm, used, reused, runs, changes>>

Nothing == [lock |-> Undef, generator |-> Undef, version |-> Undef, stamp |-> Undef,
            manifest |-> Undef, pinned |-> Undef]
Phases == {"idle", "generate", "generator", "version", "manifest", "constants",
           "check", "check manifest", "check version", "check generator", "check constants",
           "passed"}

Init ==
    /\ \E c \in Checkouts :
         files = [lock |-> c.lock, version |-> c.version, generator |-> c.generator,
                  manifest |-> NoFile, constants |-> [t \in 1..Targets |-> NoFile]]
    /\ releases = <<>>
    /\ pc = [p \in Procs |-> "idle"] /\ cmd = [p \in Procs |-> Undef]
    /\ tag = [p \in Procs |-> Undef] /\ held = [p \in Procs |-> Nothing]
    /\ at = [p \in Procs |-> 1] /\ calm = [p \in Procs |-> TRUE]
    /\ used = {} /\ reused = FALSE /\ runs = 0 /\ changes = 0

(* The checkout changes under everybody but its author. *)
Disturb(author) == calm' = [p \in Procs |-> calm[p] /\ (p = author \/ pc[p] = "idle")]

(* ---- from outside ---- *)

Edit(f) ==
    /\ changes < MaxChanges
    /\ files' = f /\ changes' = changes + 1
    /\ Disturb(Undef)
    /\ UNCHANGED <<releases, procVars, used, reused, runs>>

SetRuntimeVersion(v) == Edit([files EXCEPT !.version = v])
SetGenerator(g) == Edit([files EXCEPT !.generator = g])
Checkout(c) == Edit(c)

(* What a release job asks of the commit it is for. *)
ReleaseCheck(c, v) ==
    /\ LockIsReleased(c.lock)
    /\ c.manifest # NoFile
    /\ CheckFields(c.lock, c.manifest, c.version, c.generator, v)
    /\ \A t \in 1..Targets : ConstantAgrees(c.constants[t], c.manifest)
WriteReleaseNotes(c) ==
    [version |-> c.manifest.version, specTag |-> c.manifest.specTag,
     specVersion |-> c.manifest.specVersion, specCommit |-> c.manifest.specCommit,
     generator |-> c.manifest.generator]

(* Somebody or the automation commits the checkout as it is and pushes the    *)
(* tag of a version, which is not pushed twice; the job for it publishes the  *)
(* commit or refuses to.                                                      *)
PushTag(v) ==
    /\ v \notin DOMAIN releases /\ Cardinality(DOMAIN releases) < MaxTags
    /\ LET release == [files |-> files,
                       notes |-> IF ReleaseCheck(files, v) THEN WriteReleaseNotes(files)
                                 ELSE Refused]
       IN  releases' = [x \in DOMAIN releases \cup {v} |-> IF x = v THEN release ELSE releases[x]]
    /\ UNCHANGED <<files, procVars, calm, used, reused, runs, changes>>

(* ---- commands ---- *)

Start(p, c, v, lock, first) ==
    /\ pc[p] = "idle" /\ runs < MaxRuns
    /\ runs' = runs + 1
    /\ cmd' = [cmd EXCEPT ![p] = c]
    /\ tag' = [tag EXCEPT ![p] = v]
    /\ held' = [held EXCEPT ![p].pinned = lock]
    /\ pc' = [pc EXCEPT ![p] = first]
    /\ UNCHANGED <<releases, at, used, reused, changes>>

Generate(p) == Start(p, "generate", Undef, Undef, "generate") /\ UNCHANGED <<files, calm>>
Check(p, v) == Start(p, "check", v, Undef, "check") /\ UNCHANGED <<files, calm>>

(* upgrade-axtp-spec.sh: a new lock, and new files. Where the generator is    *)
(* not built it ends after the lock, as if killed there.                      *)
Upgrade(p, lock) ==
    /\ LockIsReleased(lock)
    /\ Start(p, "generate", Undef, Undef, "generate")
    /\ files' = [files EXCEPT !.lock = lock]
    /\ Disturb(p)

(* prepare-runtime-revision.sh: a later revision for the locked               *)
(* specification, new files, and their check as a release; nobody may have    *)
(* changed the lock meanwhile. Reading the lock and the version and writing   *)
(* the version are one step here; the check before the last is left out.      *)
Prepare(p, v) ==
    /\ files.lock # NoFile
    /\ files.lock.version = SpecVersion(files.version)
    /\ files.lock.version = SpecVersion(v)
    /\ Revision(v) > Revision(files.version)
    /\ Start(p, "prepare", v, files.lock, "generate")
    /\ files' = [files EXCEPT !.version = v]
    /\ Disturb(p)

Goto(p, next, what) ==
    /\ pc' = [pc EXCEPT ![p] = next]
    /\ held' = [held EXCEPT ![p] = what]
    /\ UNCHANGED <<releases, cmd, tag, runs, changes>>
Reads(p, next, what) == Goto(p, next, what) /\ UNCHANGED <<files, at, calm, used, reused>>

(* A command ends, done, failed or killed, and its process is free again. *)
Exit(p) ==
    /\ pc' = [pc EXCEPT ![p] = "idle"] /\ cmd' = [cmd EXCEPT ![p] = Undef]
    /\ tag' = [tag EXCEPT ![p] = Undef] /\ held' = [held EXCEPT ![p] = Nothing]
    /\ at' = [at EXCEPT ![p] = 1] /\ calm' = [calm EXCEPT ![p] = TRUE]
    /\ UNCHANGED <<files, releases, used, reused, runs, changes>>

(* Either command begins with the lock. *)
ReadLock(p) ==
    /\ pc[p] \in {"generate", "check"}
    /\ IF ReadSpecLock(files.lock)
       THEN Reads(p, IF pc[p] = "generate" THEN "generator" ELSE "check manifest",
                  [held[p] EXCEPT !.lock = files.lock])
       ELSE Exit(p)

ReadGenerator(p) ==
    /\ pc[p] = "generator"
    /\ \E s \in Stamps :
         /\ Goto(p, "version", [held[p] EXCEPT !.generator = files.generator, !.stamp = s])
         /\ used' = used \cup {s}
         /\ reused' = (reused \/ s \in used)
    /\ UNCHANGED <<files, calm, at>>

ReadVersion(p) ==
    /\ pc[p] = "version"
    /\ Reads(p, "manifest",
             [held[p] EXCEPT !.manifest = Manifest(held[p].lock, held[p].generator,
                                                   files.version, held[p].stamp)])

WriteManifest(p) ==
    /\ pc[p] = "manifest"
    /\ files' = [files EXCEPT !.manifest = held[p].manifest]
    /\ Disturb(p)
    /\ Goto(p, "constants", held[p])
    /\ at' = [at EXCEPT ![p] = 1]
    /\ UNCHANGED <<used, reused>>

\* Wrong form of WriteConstant: one file too many.
WriteConstantBeyond(p) ==
    /\ pc[p] = "constants" /\ at[p] <= Targets + 1
    /\ at' = [at EXCEPT ![p] = @ + 1]
    /\ UNCHANGED <<files, releases, pc, cmd, tag, held, calm, used, reused, runs, changes>>

WriteConstant(p) ==
    /\ pc[p] = "constants" /\ at[p] <= Targets
    /\ files' = [files EXCEPT !.constants[at[p]] = RenderConstant(held[p].manifest)]
    /\ Disturb(p)
    /\ at' = [at EXCEPT ![p] = @ + 1]
    /\ UNCHANGED <<releases, pc, cmd, tag, held, used, reused, runs, changes>>

(* Only a prepared revision is checked at once, beginning with its lock. *)
Generated(p) ==
    /\ pc[p] = "constants" /\ at[p] > Targets
    /\ IF cmd[p] = "prepare" /\ LockIsReleased(files.lock)
       THEN Reads(p, "check", [Nothing EXCEPT !.pinned = held[p].pinned])
       ELSE Exit(p)

CheckManifest(p) ==
    /\ pc[p] = "check manifest"
    /\ IF files.manifest = NoFile THEN Exit(p)
       ELSE Reads(p, "check version", [held[p] EXCEPT !.manifest = files.manifest])

CheckVersion(p) ==
    /\ pc[p] = "check version"
    /\ Reads(p, "check generator", [held[p] EXCEPT !.version = files.version])

CheckGenerator(p) ==
    /\ pc[p] = "check generator"
    /\ IF CheckFields(held[p].lock, held[p].manifest, held[p].version, files.generator, tag[p])
       THEN /\ Goto(p, "check constants", held[p])
            /\ at' = [at EXCEPT ![p] = 1]
            /\ UNCHANGED <<files, calm, used, reused>>
       ELSE Exit(p)

CheckConstant(p) ==
    /\ pc[p] = "check constants" /\ at[p] <= Targets
    /\ IF ConstantAgrees(files.constants[at[p]], held[p].manifest)
       THEN /\ at' = [at EXCEPT ![p] = @ + 1]
            /\ UNCHANGED <<files, releases, pc, cmd, tag, held, calm, used, reused, runs, changes>>
       ELSE Exit(p)

Checked(p) ==
    /\ pc[p] = "check constants" /\ at[p] > Targets
    /\ IF cmd[p] = "prepare" /\ files.lock # held[p].pinned
       THEN Exit(p) ELSE Reads(p, "passed", Nothing)

Leave(p) == pc[p] # "idle" /\ Exit(p)

Next ==
    \/ \E v \in Versions : SetRuntimeVersion(v)
    \/ \E g \in Generators : SetGenerator(g)
    \/ \E v \in DOMAIN releases : Checkout(releases[v].files)
    \/ \E v \in Versions : PushTag(v)
    \/ \E p \in Procs :
         \/ Generate(p)
         \/ \E v \in Versions \cup {Undef} : Check(p, v)
         \/ \E lock \in Locks : Upgrade(p, lock)
         \/ \E v \in Versions : Prepare(p, v)
         \/ ReadLock(p) \/ ReadGenerator(p) \/ ReadVersion(p)
         \/ WriteManifest(p) \/ WriteConstant(p) \/ Generated(p)
         \/ CheckManifest(p) \/ CheckVersion(p) \/ CheckGenerator(p)
         \/ CheckConstant(p) \/ Checked(p)
         \/ Leave(p)

Spec == Init /\ [][Next]_vars
-----------------------------------------------------------------------------
(* Processes are in known phases, and only a check of a release has a tag.    *)
VersioningTypeOK ==
    /\ pc \in [Procs -> Phases]
    /\ \A p \in Procs :
         /\ pc[p] = "idle" <=> cmd[p] = Undef
         /\ cmd[p] = "generate" => tag[p] = Undef
         /\ cmd[p] = "prepare" => tag[p] # Undef
         /\ at[p] \in 1..(Targets + 1)
    /\ DOMAIN releases \subseteq Versions
    /\ runs \in 0..MaxRuns /\ changes \in 0..MaxChanges

(* The files are what the generator would make of this checkout, the time of  *)
(* generation aside; the constants are those of the manifest if every run of  *)
(* the generator had a stamp of its own, as the check only looks for values   *)
(* somewhere in a text, where another version may have them too.              *)
ManifestIsCurrent(f) ==
    /\ f.manifest # NoFile
    /\ f.manifest = Manifest(f.lock, f.generator, f.version, f.manifest.at)
ConstantsAreCurrent(f) == \A t \in 1..Targets : f.constants[t] = RenderConstant(f.manifest)

(* A check that passes while nobody else touches the checkout says the truth  *)
(* about it, although the check reads file after file, and the generator may  *)
(* have been killed between any two of them (axtp-versioning.mjs:295-388).    *)
PassedCheckIsCurrent ==
    \A p \in Procs : pc[p] = "passed" /\ calm[p] =>
        /\ ManifestIsCurrent(files)
        /\ tag[p] # Undef => MatchesTag(files.lock, files.version, tag[p])
        /\ ~reused => ConstantsAreCurrent(files)

(* A release is of the version in its tag and of the specification of that    *)
(* version; the notes, the manifest and the constants say so, whatever was    *)
(* half generated when it was committed, and whoever pushed the tag           *)
(* (axtp-versioning.mjs:348-438, release.yml:80-85).                          *)
ReleasesAreStamped ==
    \A v \in {w \in DOMAIN releases : releases[w].notes # Refused} :
        LET f == releases[v].files
            n == releases[v].notes
        IN  /\ MatchesTag(f.lock, f.version, v)
            /\ ManifestIsCurrent(f)
            /\ n.version = v /\ n.specVersion = SpecVersion(v) /\ n.specTag = SpecTag(SpecVersion(v))
            /\ n.specCommit = f.lock.commit /\ n.generator = f.generator
            /\ ~reused => ConstantsAreCurrent(f)
=============================================================================
