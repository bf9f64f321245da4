--------------------------- MODULE VersioningProofs ---------------------------
(* A check that passes undisturbed tells the truth, and so does a release,    *)
(* for any number of processes, of constants files, of commands and of        *)
(* changes from outside.                                                      *)
EXTENDS Versioning, TLAPS

ConstantTypes ==
    [runtimeVersion : Versions, specVersion : {l.version : l \in Locks}, specTag : {l.tag : l \in Locks},
     specCommit : {l.commit : l \in Locks}, generatorVersion : Generators, generatedAt : Stamps]
FilesTypes ==
    [lock : Locks \cup {NoFile}, version : Versions, generator : Generators,
     manifest : Manifests \cup {NoFile}, constants : [1..Targets -> ConstantTypes \cup {NoFile}]]
HeldTypes ==
    [lock : Locks \cup {Undef}, generator : Generators \cup {Undef}, version : Versions \cup {Undef},
     stamp : Stamps \cup {Undef}, manifest : Manifests \cup {Undef}, pinned : Locks \cup {Undef}]

(* The values of the variables. *)
ValuesOK ==
    /\ files \in FilesTypes
    /\ \A v \in DOMAIN releases : releases[v].files \in FilesTypes
    /\ held \in [Procs -> HeldTypes]
    /\ pc \in [Procs -> Phases]
    /\ cmd \in [Procs -> {Undef, "generate", "check", "prepare"}]
    /\ tag \in [Procs -> Versions \cup {Undef}]
    /\ at \in [Procs -> 1..(Targets + 1)]
    /\ calm \in [Procs -> BOOLEAN]
    /\ used \subseteq Stamps

(* What a process has read in each phase. *)
HeldOK ==
    \A p \in Procs :
        /\ pc[p] \in {"generator", "version"} => held[p].lock \in Locks
        /\ pc[p] = "version" => held[p].generator \in Generators /\ held[p].stamp \in used
        /\ pc[p] \in {"manifest", "constants"} => held[p].manifest \in Manifests

(* ---- the values ---- *)

LEMMA ManifestFacts ==
    ASSUME NEW l \in Locks, NEW g \in Generators, NEW v \in Versions, NEW s \in Stamps
    PROVE  Manifest(l, g, v, s) \in Manifests
  BY DEF Manifest, Manifests

LEMMA RenderFacts ==
    ASSUME NEW m \in Manifests
    PROVE  RenderConstant(m) \in ConstantTypes /\ RenderConstant(m).generatedAt = m.at
  BY DEF Manifests, ConstantTypes, RenderConstant, VersionFields

LEMMA HeldUpdates ==
    ASSUME NEW h \in HeldTypes
    PROVE  /\ \A l \in Locks \cup {Undef} : /\ [h EXCEPT !.lock = l] \in HeldTypes
                                           /\ [h EXCEPT !.lock = l].lock = l
                                           /\ [h EXCEPT !.pinned = l] \in HeldTypes
           /\ \A m \in Manifests \cup {Undef} : [h EXCEPT !.manifest = m] \in HeldTypes
           /\ \A v \in Versions : [h EXCEPT !.version = v] \in HeldTypes
  BY DEF HeldTypes

LEMMA HeldSelects ==
    ASSUME NEW h \in HeldTypes, NEW x, NEW g
    PROVE  /\ g = [h EXCEPT !.manifest = x] => g.manifest = x /\ g.lock = h.lock
           /\ g = [h EXCEPT !.version = x] => g.version = x /\ g.lock = h.lock /\ g.manifest = h.manifest
  BY DEF HeldTypes

LEMMA FilesFacts ==
    ASSUME NEW f \in FilesTypes
    PROVE  /\ f.lock \in Locks \cup {Undef} /\ f.version \in Versions /\ f.generator \in Generators
           /\ f.manifest \in Manifests \cup {Undef}
  BY DEF FilesTypes, NoFile

LEMMA ValuesInit == Init => ValuesOK /\ HeldOK
<1> SUFFICES ASSUME Init PROVE ValuesOK /\ HeldOK
  OBVIOUS
<1>1. files \in FilesTypes
  <2>1. PICK c \in Checkouts :
           files = [lock |-> c.lock, version |-> c.version, generator |-> c.generator,
                    manifest |-> NoFile, constants |-> [t \in 1..Targets |-> NoFile]]
    BY DEF Init
  <2>2. c \in [lock : Locks \cup {NoFile}, version : Versions, generator : Generators]
    BY CheckoutsAssumption
  <2> QED BY <2>1, <2>2 DEF FilesTypes
<1>2. Nothing \in HeldTypes
  BY DEF Nothing, HeldTypes
<1>3. 1 \in 1..(Targets + 1)
  BY BoundsAssumption
<1>4. DOMAIN releases = {}
  BY DEF Init
<1> QED BY <1>1, <1>2, <1>3, <1>4 DEF Init, ValuesOK, HeldOK, Phases

LEMMA EditKeepsValues ==
    ASSUME ValuesOK, HeldOK, NEW f \in FilesTypes, Edit(f) PROVE ValuesOK' /\ HeldOK'
<1>1. calm' \in [Procs -> BOOLEAN]
  BY DEF Edit, Disturb, ValuesOK
<1> QED BY <1>1 DEF Edit, procVars, ValuesOK, HeldOK

LEMMA StartKeepsValues ==
    ASSUME ValuesOK, HeldOK, NEW p \in Procs, NEW c \in {"generate", "check", "prepare"},
           NEW v \in Versions \cup {Undef}, NEW lock \in Locks \cup {Undef},
           NEW first \in {"generate", "check"}, Start(p, c, v, lock, first),
           files' \in FilesTypes, calm' \in [Procs -> BOOLEAN]
    PROVE  ValuesOK' /\ HeldOK'
<1>1. held' \in [Procs -> HeldTypes]
  <2>1. [held[p] EXCEPT !.pinned = lock] \in HeldTypes
    BY DEF ValuesOK, HeldTypes
  <2> QED BY <2>1 DEF Start, ValuesOK
<1>2. pc' \in [Procs -> Phases]
  BY DEF Start, ValuesOK, Phases
<1>3. cmd' \in [Procs -> {Undef, "generate", "check", "prepare"}]
      /\ tag' \in [Procs -> Versions \cup {Undef}]
  BY DEF Start, ValuesOK
<1>4. ValuesOK'
  BY <1>1, <1>2, <1>3 DEF Start, ValuesOK
<1>5. HeldOK'
  BY DEF Start, ValuesOK, HeldOK
<1> QED BY <1>4, <1>5

LEMMA ExitKeepsValues ==
    ASSUME ValuesOK, HeldOK, NEW p \in Procs, Exit(p) PROVE ValuesOK' /\ HeldOK'
<1>1. Nothing \in HeldTypes
  BY DEF Nothing, HeldTypes
<1>2. 1 \in 1..(Targets + 1)
  BY BoundsAssumption
<1> QED BY <1>1, <1>2 DEF Exit, ValuesOK, HeldOK, Phases

LEMMA GotoKeepsValues ==
    ASSUME ValuesOK, HeldOK, NEW p \in Procs, NEW next \in Phases, NEW what \in HeldTypes,
           Goto(p, next, what),
           files' \in FilesTypes, calm' \in [Procs -> BOOLEAN], at' \in [Procs -> 1..(Targets + 1)],
           used \subseteq used', used' \subseteq Stamps,
           next \in {"generator", "version"} => what.lock \in Locks,
           next = "version" => what.generator \in Generators /\ what.stamp \in used',
           next \in {"manifest", "constants"} => what.manifest \in Manifests
    PROVE  ValuesOK' /\ HeldOK'
<1>1. ValuesOK'
  BY DEF Goto, ValuesOK
<1>2. HeldOK'
  <2> SUFFICES ASSUME NEW q \in Procs
               PROVE  /\ pc'[q] \in {"generator", "version"} => held'[q].lock \in Locks
                      /\ pc'[q] = "version" => held'[q].generator \in Generators /\ held'[q].stamp \in used'
                      /\ pc'[q] \in {"manifest", "constants"} => held'[q].manifest \in Manifests
    BY DEF HeldOK
  <2>1. CASE q = p
    BY <2>1 DEF Goto, ValuesOK
  <2>2. CASE q # p
    <3>1. pc'[q] = pc[q] /\ held'[q] = held[q]
      BY <2>2 DEF Goto, ValuesOK
    <3> QED BY <3>1 DEF HeldOK
  <2> QED BY <2>1, <2>2
<1> QED BY <1>1, <1>2

LEMMA PushTagKeepsValues ==
    ASSUME ValuesOK, HeldOK, NEW v \in Versions, PushTag(v) PROVE ValuesOK' /\ HeldOK'
<1>1. \A x \in DOMAIN releases' : releases'[x].files \in FilesTypes
  BY DEF PushTag, ValuesOK
<1> QED BY <1>1 DEF PushTag, procVars, ValuesOK, HeldOK

LEMMA ValuesNext == ValuesOK /\ HeldOK /\ [Next]_vars => ValuesOK' /\ HeldOK'
<1> SUFFICES ASSUME ValuesOK, HeldOK, [Next]_vars PROVE ValuesOK' /\ HeldOK'
  OBVIOUS
<1>1. CASE UNCHANGED vars
  BY <1>1 DEF vars, procVars, ValuesOK, HeldOK
<1>2. ASSUME NEW v \in Versions, SetRuntimeVersion(v) PROVE ValuesOK' /\ HeldOK'
  <2>1. [files EXCEPT !.version = v] \in FilesTypes
    BY DEF ValuesOK, FilesTypes
  <2> QED BY <1>2, <2>1, EditKeepsValues DEF SetRuntimeVersion
<1>3. ASSUME NEW g \in Generators, SetGenerator(g) PROVE ValuesOK' /\ HeldOK'
  <2>1. [files EXCEPT !.generator = g] \in FilesTypes
    BY DEF ValuesOK, FilesTypes
  <2> QED BY <1>3, <2>1, EditKeepsValues DEF SetGenerator
<1>4. ASSUME NEW v \in DOMAIN releases, Checkout(releases[v].files) PROVE ValuesOK' /\ HeldOK'
  BY <1>4, EditKeepsValues DEF Checkout, ValuesOK
<1>5. ASSUME NEW v \in Versions, PushTag(v) PROVE ValuesOK' /\ HeldOK'
  BY <1>5, PushTagKeepsValues
<1>6. ASSUME NEW p \in Procs, Generate(p) PROVE ValuesOK' /\ HeldOK'
  <2>1. files' \in FilesTypes /\ calm' \in [Procs -> BOOLEAN]
    BY <1>6 DEF Generate, ValuesOK
  <2> QED BY <1>6, <2>1, StartKeepsValues DEF Generate
<1>7. ASSUME NEW p \in Procs, NEW v \in Versions \cup {Undef}, Check(p, v) PROVE ValuesOK' /\ HeldOK'
  <2>1. files' \in FilesTypes /\ calm' \in [Procs -> BOOLEAN]
    BY <1>7 DEF Check, ValuesOK
  <2> QED BY <1>7, <2>1, StartKeepsValues DEF Check
<1>8. ASSUME NEW p \in Procs, NEW lock \in Locks, Upgrade(p, lock) PROVE ValuesOK' /\ HeldOK'
  <2>1. files' \in FilesTypes /\ calm' \in [Procs -> BOOLEAN]
    BY <1>8 DEF Upgrade, Disturb, ValuesOK, FilesTypes
  <2> QED BY <1>8, <2>1, StartKeepsValues DEF Upgrade
<1>9. ASSUME NEW p \in Procs, NEW v \in Versions, Prepare(p, v) PROVE ValuesOK' /\ HeldOK'
  <2>1. files' \in FilesTypes /\ calm' \in [Procs -> BOOLEAN]
    BY <1>9 DEF Prepare, Disturb, ValuesOK, FilesTypes
  <2>2. files.lock \in Locks \cup {Undef}
    BY DEF ValuesOK, FilesTypes, NoFile
  <2> QED BY <1>9, <2>1, <2>2, StartKeepsValues DEF Prepare
<1>10. ASSUME NEW p \in Procs, ReadLock(p) PROVE ValuesOK' /\ HeldOK'
  <2>1. CASE ReadSpecLock(files.lock)
    <3>1. files.lock \in Locks
      BY <2>1 DEF ReadSpecLock, ValuesOK, FilesTypes
    <3>2. [held[p] EXCEPT !.lock = files.lock] \in HeldTypes
          /\ [held[p] EXCEPT !.lock = files.lock].lock \in Locks
      BY <3>1 DEF ValuesOK, HeldTypes
    <3> DEFINE next == IF pc[p] = "generate" THEN "generator" ELSE "check manifest"
               what == [held[p] EXCEPT !.lock = files.lock]
    <3>3. next \in {"generator", "check manifest"} /\ next \in Phases
      BY DEF Phases
    <3>4. Goto(p, next, what) /\ UNCHANGED <<files, at, calm, used, reused>>
      BY <1>10, <2>1 DEF ReadLock, Reads
    <3>5. what \in HeldTypes /\ what.lock \in Locks
      BY <3>2
    <3> HIDE DEF next, what
    <3> QED BY <3>3, <3>4, <3>5, GotoKeepsValues DEF ValuesOK
  <2>2. CASE ~ReadSpecLock(files.lock)
    BY <1>10, <2>2, ExitKeepsValues DEF ReadLock
  <2> QED BY <2>1, <2>2
<1>11. ASSUME NEW p \in Procs, ReadGenerator(p) PROVE ValuesOK' /\ HeldOK'
  <2>1. PICK s \in Stamps :
           /\ Goto(p, "version", [held[p] EXCEPT !.generator = files.generator, !.stamp = s])
           /\ used' = used \cup {s}
    BY <1>11 DEF ReadGenerator
  <2> DEFINE what == [held[p] EXCEPT !.generator = files.generator, !.stamp = s]
  <2>2. what \in HeldTypes /\ what.lock \in Locks /\ what.generator \in Generators /\ what.stamp = s
    <3>1. held[p] \in HeldTypes /\ held[p].lock \in Locks /\ files.generator \in Generators
      BY <1>11, FilesFacts DEF ReadGenerator, ValuesOK, HeldOK
    <3> DEFINE h == held[p]
               g == files.generator
    <3>2. h \in HeldTypes /\ h.lock \in Locks /\ g \in Generators
      BY <3>1
    <3> HIDE DEF h, g
    <3>3. LET w == [h EXCEPT !.generator = g, !.stamp = s]
          IN  w \in HeldTypes /\ w.lock \in Locks /\ w.generator \in Generators /\ w.stamp = s
      BY <3>2 DEF HeldTypes
    <3> QED BY <3>3 DEF h, g
  <2>3. files' \in FilesTypes /\ calm' \in [Procs -> BOOLEAN] /\ at' \in [Procs -> 1..(Targets + 1)]
        /\ used \subseteq used' /\ used' \subseteq Stamps
    BY <1>11, <2>1 DEF ReadGenerator, ValuesOK
  <2>4. Goto(p, "version", what) /\ what.stamp \in used' /\ "version" \in Phases
    BY <2>1, <2>2 DEF Phases
  <2> HIDE DEF what
  <2> QED BY <2>2, <2>3, <2>4, GotoKeepsValues
<1>12. ASSUME NEW p \in Procs, ReadVersion(p) PROVE ValuesOK' /\ HeldOK'
  <2> DEFINE m == Manifest(held[p].lock, held[p].generator, files.version, held[p].stamp)
             what == [held[p] EXCEPT !.manifest = m]
  <2>1. m \in Manifests
    BY <1>12, ManifestFacts DEF ReadVersion, ValuesOK, HeldOK, FilesTypes
  <2>2. Goto(p, "manifest", what) /\ UNCHANGED <<files, at, calm, used, reused>> /\ "manifest" \in Phases
    BY <1>12 DEF ReadVersion, Reads, Phases
  <2> HIDE DEF m
  <2>3. what \in HeldTypes /\ what.manifest \in Manifests
    BY <2>1 DEF ValuesOK, HeldTypes
  <2> HIDE DEF what
  <2> QED BY <2>2, <2>3, GotoKeepsValues DEF ValuesOK
<1>13. ASSUME NEW p \in Procs, WriteManifest(p) PROVE ValuesOK' /\ HeldOK'
  <2>1. held[p].manifest \in Manifests /\ held[p] \in HeldTypes
    BY <1>13 DEF WriteManifest, ValuesOK, HeldOK
  <2>2. files' \in FilesTypes
    BY <1>13, <2>1 DEF WriteManifest, ValuesOK, FilesTypes
  <2>3. calm' \in [Procs -> BOOLEAN] /\ at' \in [Procs -> 1..(Targets + 1)]
    BY <1>13, BoundsAssumption DEF WriteManifest, Disturb, ValuesOK
  <2>4. Goto(p, "constants", held[p]) /\ UNCHANGED <<used, reused>> /\ "constants" \in Phases
    BY <1>13 DEF WriteManifest, Phases
  <2> QED BY <2>1, <2>2, <2>3, <2>4, GotoKeepsValues DEF ValuesOK
<1>14. ASSUME NEW p \in Procs, WriteConstant(p) PROVE ValuesOK' /\ HeldOK'
  <2>1. held[p].manifest \in Manifests /\ at[p] \in 1..Targets
    BY <1>14, BoundsAssumption DEF WriteConstant, ValuesOK, HeldOK
  <2>2. files' \in FilesTypes
    BY <1>14, <2>1, RenderFacts DEF WriteConstant, ValuesOK, FilesTypes
  <2>3. calm' \in [Procs -> BOOLEAN] /\ at' \in [Procs -> 1..(Targets + 1)]
    <3>1. at[p] + 1 \in 1..(Targets + 1)
      BY <2>1, BoundsAssumption
    <3> QED BY <1>14, <3>1 DEF WriteConstant, Disturb, ValuesOK
  <2> QED BY <1>14, <2>2, <2>3 DEF WriteConstant, ValuesOK, HeldOK
<1>15. ASSUME NEW p \in Procs, Generated(p) PROVE ValuesOK' /\ HeldOK'
  <2>1. [Nothing EXCEPT !.pinned = held[p].pinned] \in HeldTypes /\ "check" \in Phases
    BY DEF Nothing, ValuesOK, HeldTypes, Phases
  <2> QED BY <1>15, <2>1, GotoKeepsValues, ExitKeepsValues DEF Generated, Reads, ValuesOK
<1>16. ASSUME NEW p \in Procs, CheckManifest(p) PROVE ValuesOK' /\ HeldOK'
  <2>1. [held[p] EXCEPT !.manifest = files.manifest] \in HeldTypes /\ "check version" \in Phases
    BY HeldUpdates, FilesFacts DEF ValuesOK, Phases
  <2> QED BY <1>16, <2>1, GotoKeepsValues, ExitKeepsValues DEF CheckManifest, Reads, ValuesOK
<1>17. ASSUME NEW p \in Procs, CheckVersion(p) PROVE ValuesOK' /\ HeldOK'
  <2>1. [held[p] EXCEPT !.version = files.version] \in HeldTypes /\ "check generator" \in Phases
    BY HeldUpdates, FilesFacts DEF ValuesOK, Phases
  <2> QED BY <1>17, <2>1, GotoKeepsValues DEF CheckVersion, Reads, ValuesOK
<1>18. ASSUME NEW p \in Procs, CheckGenerator(p) PROVE ValuesOK' /\ HeldOK'
  <2>1. held[p] \in HeldTypes /\ "check constants" \in Phases /\ 1 \in 1..(Targets + 1)
    <3>1. 1 \in 1..(Targets + 1)
      BY BoundsAssumption
    <3> QED BY <3>1 DEF ValuesOK, Phases
  <2> QED BY <1>18, <2>1, GotoKeepsValues, ExitKeepsValues DEF CheckGenerator, ValuesOK
<1>19. ASSUME NEW p \in Procs, CheckConstant(p) PROVE ValuesOK' /\ HeldOK'
  <2>1. CASE ConstantAgrees(files.constants[at[p]], held[p].manifest)
    <3>1. at[p] + 1 \in 1..(Targets + 1)
      <4>1. at[p] \in 1..Targets
        <5>1. at[p] \in 1..(Targets + 1) /\ at[p] <= Targets
          BY <1>19 DEF CheckConstant, ValuesOK
        <5> QED BY <5>1, BoundsAssumption
      <4> QED BY <4>1, BoundsAssumption
    <3> QED BY <1>19, <2>1, <3>1 DEF CheckConstant, ValuesOK, HeldOK
  <2> QED BY <1>19, <2>1, ExitKeepsValues DEF CheckConstant
<1>20. ASSUME NEW p \in Procs, Checked(p) PROVE ValuesOK' /\ HeldOK'
  <2>1. Nothing \in HeldTypes /\ "passed" \in Phases
    BY DEF Nothing, HeldTypes, Phases
  <2> QED BY <1>20, <2>1, GotoKeepsValues, ExitKeepsValues DEF Checked, Reads, ValuesOK
<1>21. ASSUME NEW p \in Procs, Leave(p) PROVE ValuesOK' /\ HeldOK'
  BY <1>21, ExitKeepsValues DEF Leave
<1> QED BY <1>1, <1>2, <1>3, <1>4, <1>5, <1>6, <1>7, <1>8, <1>9, <1>10, <1>11, <1>12, <1>13,
           <1>14, <1>15, <1>16, <1>17, <1>18, <1>19, <1>20, <1>21 DEF Next

(* ---- type correctness ---- *)

Commands == {"generate", "check", "prepare"}

\* A command begins.
Begins ==
    \E p \in Procs, c \in Commands, v \in Versions \cup {Undef}, lock \in Locks \cup {Undef},
       first \in {"generate", "check"} :
        /\ Start(p, c, v, lock, first)
        /\ c = "generate" => v = Undef
        /\ c = "prepare" => v # Undef

\* A command goes on from one phase to another.
GoesOn ==
    \E p \in Procs, next \in Phases \ {"idle"} : \E what :
        pc[p] # "idle" /\ Goto(p, next, what)

\* No command begins, goes on or ends.
Stays ==
    /\ UNCHANGED <<pc, cmd, tag, runs>>
    /\ DOMAIN releases' \subseteq DOMAIN releases \cup Versions
    /\ changes' \in {changes, changes + 1} /\ (changes' # changes => changes < MaxChanges)

LEMMA Kinds ==
    ASSUME ValuesOK, [Next]_vars
    PROVE  Begins \/ GoesOn \/ (\E p \in Procs : Exit(p)) \/ Stays
<1>1. CASE UNCHANGED vars
  BY <1>1 DEF vars, procVars, Stays
<1>2. ASSUME NEW f, Edit(f) PROVE Stays
  BY <1>2 DEF Edit, procVars, Stays
<1>3. ASSUME NEW v \in Versions, PushTag(v) PROVE Stays
  BY <1>3 DEF PushTag, procVars, Stays
<1>4. ASSUME NEW p \in Procs, Generate(p) PROVE Begins
  BY <1>4 DEF Generate, Begins, Commands
<1>5. ASSUME NEW p \in Procs, NEW v \in Versions \cup {Undef}, Check(p, v) PROVE Begins
  BY <1>5 DEF Check, Begins, Commands
<1>6. ASSUME NEW p \in Procs, NEW lock \in Locks, Upgrade(p, lock) PROVE Begins
  BY <1>6 DEF Upgrade, Begins, Commands
<1>7. ASSUME NEW p \in Procs, NEW v \in Versions, Prepare(p, v) PROVE Begins
  <2>1. files.lock \in Locks \cup {Undef} /\ v # Undef
    BY FilesFacts, UndefAssumption DEF ValuesOK
  <2>2. Start(p, "prepare", v, files.lock, "generate")
    BY <1>7 DEF Prepare
  <2> QED BY <2>1, <2>2 DEF Begins, Commands
<1>8. ASSUME NEW p \in Procs, ReadLock(p) PROVE GoesOn \/ Exit(p)
  BY <1>8 DEF ReadLock, Reads, GoesOn, Phases
<1>9. ASSUME NEW p \in Procs, ReadGenerator(p) PROVE GoesOn
  BY <1>9 DEF ReadGenerator, GoesOn, Phases
<1>10. ASSUME NEW p \in Procs, ReadVersion(p) PROVE GoesOn
  BY <1>10 DEF ReadVersion, Reads, GoesOn, Phases
<1>11. ASSUME NEW p \in Procs, WriteManifest(p) PROVE GoesOn
  BY <1>11 DEF WriteManifest, GoesOn, Phases
<1>12. ASSUME NEW p \in Procs, WriteConstant(p) PROVE Stays
  BY <1>12 DEF WriteConstant, Stays
<1>13. ASSUME NEW p \in Procs, Generated(p) PROVE GoesOn \/ Exit(p)
  BY <1>13 DEF Generated, Reads, GoesOn, Phases
<1>14. ASSUME NEW p \in Procs, CheckManifest(p) PROVE GoesOn \/ Exit(p)
  BY <1>14 DEF CheckManifest, Reads, GoesOn, Phases
<1>15. ASSUME NEW p \in Procs, CheckVersion(p) PROVE GoesOn
  BY <1>15 DEF CheckVersion, Reads, GoesOn, Phases
<1>16. ASSUME NEW p \in Procs, CheckGenerator(p) PROVE GoesOn \/ Exit(p)
  BY <1>16 DEF CheckGenerator, GoesOn, Phases
<1>17. ASSUME NEW p \in Procs, CheckConstant(p) PROVE Stays \/ Exit(p)
  BY <1>17 DEF CheckConstant, Stays
<1>18. ASSUME NEW p \in Procs, Checked(p) PROVE GoesOn \/ Exit(p)
  BY <1>18 DEF Checked, Reads, GoesOn, Phases
<1> QED BY <1>1, <1>2, <1>3, <1>4, <1>5, <1>6, <1>7, <1>8, <1>9, <1>10, <1>11, <1>12, <1>13, <1>14,
           <1>15, <1>16, <1>17, <1>18 DEF Next, SetRuntimeVersion, SetGenerator, Checkout, Leave

LEMMA TypeInit == Init => VersioningTypeOK
<1> SUFFICES ASSUME Init PROVE VersioningTypeOK
  OBVIOUS
<1>1. 1 \in 1..(Targets + 1) /\ 0 \in 0..MaxRuns /\ 0 \in 0..MaxChanges
  BY BoundsAssumption
<1>2. DOMAIN releases = {}
  BY DEF Init
<1> QED BY <1>1, <1>2, UndefAssumption DEF Init, VersioningTypeOK, Phases

LEMMA TypeNext == ValuesOK /\ ValuesOK' /\ VersioningTypeOK /\ [Next]_vars => VersioningTypeOK'
<1> SUFFICES ASSUME ValuesOK, ValuesOK', VersioningTypeOK, [Next]_vars PROVE VersioningTypeOK'
  OBVIOUS
<1> DEFINE Fits(q) == /\ pc[q] = "idle" <=> cmd[q] = Undef
                      /\ cmd[q] = "generate" => tag[q] = Undef
                      /\ cmd[q] = "prepare" => tag[q] # Undef
<1>1. \A q \in Procs : Fits(q)
  BY DEF VersioningTypeOK
<1>2. pc' \in [Procs -> Phases] /\ \A q \in Procs : at'[q] \in 1..(Targets + 1)
  BY DEF ValuesOK
<1>3. MaxRuns \in Nat /\ MaxChanges \in Nat /\ runs \in 0..MaxRuns /\ changes \in 0..MaxChanges
  BY BoundsAssumption DEF VersioningTypeOK
<1>4. CASE Begins
  <2>1. PICK p \in Procs, c \in Commands, v \in Versions \cup {Undef}, lock \in Locks \cup {Undef},
             first \in {"generate", "check"} :
          /\ Start(p, c, v, lock, first)
          /\ c = "generate" => v = Undef
          /\ c = "prepare" => v # Undef
    BY <1>4 DEF Begins
  <2>2. runs' \in 0..MaxRuns /\ changes' \in 0..MaxChanges /\ releases' = releases
    BY <1>3, <2>1 DEF Start
  <2>3. \A q \in Procs : Fits(q)'
    <3>1. c # Undef
      BY UndefAssumption DEF Commands
    <3> QED BY <1>1, <2>1, <3>1 DEF Start, ValuesOK
  <2> QED BY <1>2, <2>2, <2>3 DEF VersioningTypeOK
<1>5. CASE GoesOn
  <2>1. PICK p \in Procs, next \in Phases \ {"idle"} : pc[p] # "idle" /\ \E what : Goto(p, next, what)
    BY <1>5 DEF GoesOn
  <2>2. \A q \in Procs : Fits(q)'
    BY <1>1, <2>1 DEF Goto, ValuesOK
  <2> QED BY <1>2, <1>3, <2>1, <2>2 DEF Goto, VersioningTypeOK
<1>6. ASSUME NEW p \in Procs, Exit(p) PROVE VersioningTypeOK'
  <2>1. \A q \in Procs : Fits(q)'
    BY <1>1, <1>6, UndefAssumption DEF Exit, ValuesOK
  <2> QED BY <1>2, <1>3, <1>6, <2>1 DEF Exit, VersioningTypeOK
<1>7. CASE Stays
  <2>1. changes' \in 0..MaxChanges
    BY <1>3, <1>7 DEF Stays
  <2> QED BY <1>1, <1>2, <1>3, <1>7, <2>1 DEF Stays, VersioningTypeOK
<1> QED BY <1>4, <1>5, <1>6, <1>7, Kinds

\* Processes are in known phases, and only a check of a release has a tag
\* (axtp-versioning.mjs:295-388, prepare-runtime-revision.sh:76-131).
THEOREM TypeCorrect == Spec => []VersioningTypeOK
  BY ValuesInit, ValuesNext, TypeInit, TypeNext, PTL DEF Spec

(* ---- what a check knows ---- *)

\* As long as nobody else touches the checkout, what a check has read is what is
\* there, and what it has compared is equal.
Knows(p) ==
    calm[p] =>
        /\ pc[p] \in {"check manifest", "check version", "check generator"} => held[p].lock = files.lock
        /\ pc[p] \in {"check version", "check generator", "check constants"} =>
             held[p].manifest = files.manifest
        /\ pc[p] \in {"check version", "check generator", "check constants", "passed"} =>
             files.manifest # NoFile
        /\ pc[p] = "check generator" => held[p].version = files.version
        /\ pc[p] \in {"check constants", "passed"} =>
             CheckFields(files.lock, files.manifest, files.version, files.generator, tag[p])
        /\ pc[p] = "check constants" =>
             \A t \in 1..(at[p] - 1) : ConstantAgrees(files.constants[t], files.manifest)
        /\ pc[p] = "passed" => \A t \in 1..Targets : ConstantAgrees(files.constants[t], files.manifest)

\* The checkout changes under a process, or not at all.
Watches(q) ==
    /\ pc'[q] = pc[q] /\ held'[q] = held[q] /\ at'[q] = at[q] /\ tag'[q] = tag[q]
    /\ \/ files' = files /\ calm'[q] = calm[q]
       \/ ~calm'[q]
       \/ pc[q] = "idle"

LEMMA WatchingKnows ==
    ASSUME NEW q \in Procs, Knows(q), Watches(q) PROVE Knows(q)'
<1>1. CASE files' = files /\ calm'[q] = calm[q]
  BY <1>1 DEF Knows, Watches, CheckFields, MatchesTag, AssertEqual, ConstantAgrees, Includes
<1>2. CASE ~calm'[q]
  BY <1>2 DEF Knows
<1>3. CASE pc[q] = "idle"
  BY <1>3 DEF Knows, Watches
<1> QED BY <1>1, <1>2, <1>3 DEF Watches

LEMMA DisturbedWatches ==
    ASSUME ValuesOK, NEW a, Disturb(a), NEW q \in Procs, q # a,
           pc'[q] = pc[q], held'[q] = held[q], at'[q] = at[q], tag'[q] = tag[q]
    PROVE  Watches(q)
<1>1. CASE pc[q] = "idle"
  BY <1>1 DEF Watches
<1>2. CASE pc[q] # "idle"
  <2>1. ~calm'[q]
    BY <1>2 DEF Disturb
  <2> QED BY <2>1 DEF Watches
<1> QED BY <1>1, <1>2

\* Every step is by one process, or by none.
By(p) == /\ \A q \in Procs \ {p} : Watches(q)
         /\ Knows(p)'

LEMMA EditIsWatched ==
    ASSUME ValuesOK, NEW f, Edit(f), NEW q \in Procs PROVE Watches(q)
<1>1. q # Undef
  BY UndefAssumption
<1> QED BY <1>1, DisturbedWatches DEF Edit, procVars

LEMMA StartIsWatched ==
    ASSUME ValuesOK, NEW p \in Procs, NEW c, NEW v, NEW lock, NEW first \in {"generate", "check"},
           Start(p, c, v, lock, first), UNCHANGED <<files, calm>> \/ Disturb(p)
    PROVE  By(p)
<1>1. ASSUME NEW q \in Procs \ {p} PROVE Watches(q)
  <2>1. pc'[q] = pc[q] /\ held'[q] = held[q] /\ at'[q] = at[q] /\ tag'[q] = tag[q]
    BY DEF Start, ValuesOK
  <2>2. CASE UNCHANGED <<files, calm>>
    BY <2>1, <2>2 DEF Watches
  <2>3. CASE Disturb(p)
    BY <2>1, <2>3, DisturbedWatches
  <2> QED BY <2>2, <2>3
<1>2. pc'[p] \in {"generate", "check"}
  BY DEF Start, ValuesOK
<1>3. Knows(p)'
  BY <1>2 DEF Knows
<1> QED BY <1>1, <1>3 DEF By

LEMMA ExitIsWatched ==
    ASSUME ValuesOK, NEW p \in Procs, Exit(p) PROVE By(p)
<1>1. ASSUME NEW q \in Procs \ {p} PROVE Watches(q)
  BY DEF Exit, ValuesOK, Watches
<1>2. pc'[p] = "idle"
  BY DEF Exit, ValuesOK
<1> QED BY <1>1, <1>2 DEF By, Knows

LEMMA GotoIsWatched ==
    ASSUME ValuesOK, NEW p \in Procs, NEW next, NEW what, Goto(p, next, what),
           \A q \in Procs \ {p} : at'[q] = at[q],
           UNCHANGED <<files, calm>> \/ Disturb(p)
    PROVE  /\ \A q \in Procs \ {p} : Watches(q)
           /\ pc'[p] = next /\ held'[p] = what /\ tag'[p] = tag[p]
<1>1. ASSUME NEW q \in Procs \ {p} PROVE Watches(q)
  <2>1. pc'[q] = pc[q] /\ held'[q] = held[q] /\ at'[q] = at[q] /\ tag'[q] = tag[q]
    BY DEF Goto, ValuesOK
  <2>2. CASE UNCHANGED <<files, calm>>
    BY <2>1, <2>2 DEF Watches
  <2>3. CASE Disturb(p)
    BY <2>1, <2>3, DisturbedWatches
  <2> QED BY <2>2, <2>3
<1>2. pc'[p] = next /\ held'[p] = what /\ tag'[p] = tag[p]
  BY DEF Goto, ValuesOK
<1> QED BY <1>1, <1>2

\* Commands that are not checking know nothing.
LEMMA MakingIsWatched ==
    ASSUME ValuesOK, NEW p \in Procs, NEW next \in {"generator", "version", "manifest", "constants", "check"},
           NEW what, Goto(p, next, what),
           \A q \in Procs \ {p} : at'[q] = at[q],
           UNCHANGED <<files, calm>> \/ Disturb(p)
    PROVE  By(p)
<1>1. pc'[p] = next /\ \A q \in Procs \ {p} : Watches(q)
  BY GotoIsWatched
<1>2. Knows(p)'
  BY <1>1 DEF Knows
<1> QED BY <1>1, <1>2 DEF By

LEMMA CheckIsWatched ==
    ASSUME ValuesOK, NEW p \in Procs, NEW next, NEW what, Reads(p, next, what)
    PROVE  /\ \A q \in Procs \ {p} : Watches(q)
           /\ pc'[p] = next /\ held'[p] = what /\ tag'[p] = tag[p]
           /\ UNCHANGED <<files, at, calm>>
<1>1. Goto(p, next, what) /\ UNCHANGED <<files, at, calm>>
  BY DEF Reads
<1> QED BY <1>1, GotoIsWatched

LEMMA ReadLockKnows ==
    ASSUME ValuesOK, NEW p \in Procs, ReadLock(p) PROVE By(p)
<1>1. CASE ~ReadSpecLock(files.lock)
  BY <1>1, ExitIsWatched DEF ReadLock
<1>2. CASE ReadSpecLock(files.lock) /\ pc[p] = "generate"
  <2>1. Goto(p, "generator", [held[p] EXCEPT !.lock = files.lock]) /\ UNCHANGED <<files, at, calm>>
    BY <1>2 DEF ReadLock, Reads
  <2> QED BY <2>1, MakingIsWatched
<1>3. CASE ReadSpecLock(files.lock) /\ pc[p] # "generate"
  <2>1. Reads(p, "check manifest", [held[p] EXCEPT !.lock = files.lock])
    BY <1>3 DEF ReadLock
  <2>2. /\ \A q \in Procs \ {p} : Watches(q)
        /\ pc'[p] = "check manifest" /\ held'[p] = [held[p] EXCEPT !.lock = files.lock]
        /\ files' = files
    BY <2>1, CheckIsWatched
  <2>3. held'[p].lock = files.lock
    BY <2>2 DEF ValuesOK, HeldTypes
  <2> QED BY <2>2, <2>3 DEF By, Knows
<1> QED BY <1>1, <1>2, <1>3

LEMMA CheckManifestKnows ==
    ASSUME ValuesOK, NEW p \in Procs, Knows(p), CheckManifest(p) PROVE By(p)
<1>1. CASE files.manifest = NoFile
  BY <1>1, ExitIsWatched DEF CheckManifest
<1>2. CASE files.manifest # NoFile
  <2>1. Reads(p, "check version", [held[p] EXCEPT !.manifest = files.manifest])
    BY <1>2 DEF CheckManifest
  <2>2. /\ \A q \in Procs \ {p} : Watches(q)
        /\ pc'[p] = "check version" /\ held'[p] = [held[p] EXCEPT !.manifest = files.manifest]
        /\ files' = files /\ calm' = calm
    BY <2>1, CheckIsWatched
  <2>3. held'[p].manifest = files.manifest /\ held'[p].lock = held[p].lock
    <3>1. held[p] \in HeldTypes
      BY DEF ValuesOK
    <3> DEFINE h == held[p]
               g == held'[p]
               x == files.manifest
    <3>2. h \in HeldTypes /\ g = [h EXCEPT !.manifest = x]
      BY <2>2, <3>1
    <3> HIDE DEF h, g, x
    <3>3. g.manifest = x /\ g.lock = h.lock
      BY <3>2, HeldSelects
    <3> QED BY <3>3 DEF h, g, x
  <2>4. calm[p] => held[p].lock = files.lock
    BY DEF CheckManifest, Knows
  <2> QED BY <1>2, <2>2, <2>3, <2>4 DEF By, Knows
<1> QED BY <1>1, <1>2

LEMMA CheckVersionKnows ==
    ASSUME ValuesOK, NEW p \in Procs, Knows(p), CheckVersion(p) PROVE By(p)
<1>1. /\ \A q \in Procs \ {p} : Watches(q)
      /\ pc'[p] = "check generator" /\ held'[p] = [held[p] EXCEPT !.version = files.version]
      /\ files' = files /\ calm' = calm
  <2>1. Reads(p, "check generator", [held[p] EXCEPT !.version = files.version])
    BY DEF CheckVersion
  <2> QED BY <2>1, CheckIsWatched
<1>2. /\ held'[p].version = files.version /\ held'[p].lock = held[p].lock
      /\ held'[p].manifest = held[p].manifest
  <2>1. held[p] \in HeldTypes
    BY DEF ValuesOK
  <2> DEFINE h == held[p]
             g == held'[p]
             x == files.version
  <2>2. h \in HeldTypes /\ g = [h EXCEPT !.version = x]
    BY <1>1, <2>1
  <2> HIDE DEF h, g, x
  <2>3. g.version = x /\ g.lock = h.lock /\ g.manifest = h.manifest
    BY <2>2, HeldSelects
  <2> QED BY <2>3 DEF h, g, x
<1>3. calm[p] => /\ held[p].lock = files.lock /\ held[p].manifest = files.manifest
                 /\ files.manifest # NoFile
  BY DEF CheckVersion, Knows
<1> QED BY <1>1, <1>2, <1>3 DEF By, Knows

LEMMA CheckGeneratorKnows ==
    ASSUME ValuesOK, NEW p \in Procs, Knows(p), CheckGenerator(p) PROVE By(p)
<1> DEFINE Equal == CheckFields(held[p].lock, held[p].manifest, held[p].version, files.generator, tag[p])
<1>1. CASE ~Equal
  BY <1>1, ExitIsWatched DEF CheckGenerator
<1>2. CASE Equal
  <2>1. Goto(p, "check constants", held[p]) /\ UNCHANGED <<files, calm>> /\ at' = [at EXCEPT ![p] = 1]
    BY <1>2 DEF CheckGenerator
  <2>2. /\ \A q \in Procs \ {p} : Watches(q)
        /\ pc'[p] = "check constants" /\ held'[p] = held[p] /\ tag'[p] = tag[p]
    <3>1. \A q \in Procs \ {p} : at'[q] = at[q]
      BY <2>1 DEF ValuesOK
    <3> QED BY <2>1, <3>1, GotoIsWatched
  <2>3. at'[p] = 1
    BY <2>1 DEF ValuesOK
  <2>4. calm[p] => /\ held[p].lock = files.lock /\ held[p].manifest = files.manifest
                   /\ files.manifest # NoFile /\ held[p].version = files.version
    BY DEF CheckGenerator, Knows
  <2>5. calm[p] => CheckFields(files.lock, files.manifest, files.version, files.generator, tag[p])
    BY <1>2, <2>4
  <2>6. calm[p] => CheckFields(files.lock, files.manifest, files.version, files.generator, tag[p])'
    BY <2>1, <2>2, <2>5 DEF CheckFields, MatchesTag, AssertEqual
  <2>7. \A t \in 1..(at'[p] - 1) : FALSE
    BY <2>3
  <2> QED BY <2>1, <2>2, <2>4, <2>6, <2>7 DEF By, Knows
<1> QED BY <1>1, <1>2

LEMMA CheckConstantKnows ==
    ASSUME ValuesOK, NEW p \in Procs, Knows(p), CheckConstant(p) PROVE By(p)
<1>1. CASE ~ConstantAgrees(files.constants[at[p]], held[p].manifest)
  BY <1>1, ExitIsWatched DEF CheckConstant
<1>2. CASE ConstantAgrees(files.constants[at[p]], held[p].manifest)
  <2>1. at' = [at EXCEPT ![p] = @ + 1] /\ UNCHANGED <<files, pc, tag, held, calm>>
    BY <1>2 DEF CheckConstant
  <2>2. \A q \in Procs \ {p} : Watches(q)
    BY <2>1 DEF ValuesOK, Watches
  <2>3. at'[p] = at[p] + 1 /\ at[p] \in 1..(Targets + 1)
    BY <2>1 DEF ValuesOK
  <2>4. calm[p] => /\ held[p].manifest = files.manifest /\ files.manifest # NoFile
                   /\ CheckFields(files.lock, files.manifest, files.version, files.generator, tag[p])
                   /\ \A t \in 1..(at[p] - 1) : ConstantAgrees(files.constants[t], files.manifest)
    BY DEF CheckConstant, Knows
  <2>5. ASSUME calm[p], NEW t \in 1..(at'[p] - 1)
        PROVE  ConstantAgrees(files.constants[t], files.manifest)
    <3>1. t \in 1..(at[p] - 1) \/ t = at[p]
      BY <2>3, BoundsAssumption
    <3> QED BY <1>2, <2>4, <2>5, <3>1
  <2>6. Knows(p)'
    BY <2>1, <2>4, <2>5 DEF CheckConstant, Knows, CheckFields, MatchesTag, AssertEqual, ConstantAgrees, Includes
  <2> QED BY <2>2, <2>6 DEF By
<1> QED BY <1>1, <1>2

LEMMA CheckedKnows ==
    ASSUME ValuesOK, NEW p \in Procs, Knows(p), Checked(p) PROVE By(p)
<1>1. CASE Exit(p)
  BY <1>1, ExitIsWatched
<1>2. CASE Reads(p, "passed", Nothing)
  <2>1. /\ \A q \in Procs \ {p} : Watches(q)
        /\ pc'[p] = "passed" /\ tag'[p] = tag[p] /\ files' = files /\ calm' = calm
    BY <1>2, CheckIsWatched
  <2>2. calm[p] => /\ files.manifest # NoFile
                   /\ CheckFields(files.lock, files.manifest, files.version, files.generator, tag[p])
                   /\ \A t \in 1..(at[p] - 1) : ConstantAgrees(files.constants[t], files.manifest)
    BY DEF Checked, Knows
  <2>3. 1..Targets \subseteq 1..(at[p] - 1)
    <3>1. at[p] \in 1..(Targets + 1) /\ at[p] > Targets /\ Targets \in Nat
      BY BoundsAssumption DEF Checked, ValuesOK
    <3> QED BY <3>1
  <2>4. Knows(p)'
    BY <2>1, <2>2, <2>3 DEF Knows, CheckFields, MatchesTag, AssertEqual, ConstantAgrees, Includes
  <2> QED BY <2>1, <2>4 DEF By
<1> QED BY <1>1, <1>2 DEF Checked

LEMMA KnowsNext ==
    ASSUME ValuesOK, \A q \in Procs : Knows(q), [Next]_vars PROVE \A q \in Procs : Knows(q)'
<1>1. ASSUME NEW p \in Procs, By(p) PROVE \A q \in Procs : Knows(q)'
  BY <1>1, WatchingKnows DEF By
<1>2. ASSUME \A q \in Procs : Watches(q) PROVE \A q \in Procs : Knows(q)'
  BY <1>2, WatchingKnows
<1>3. CASE UNCHANGED vars
  BY <1>2, <1>3 DEF vars, procVars, Watches
<1>4. ASSUME NEW f, Edit(f) PROVE \A q \in Procs : Knows(q)'
  BY <1>2, <1>4, EditIsWatched
<1>5. ASSUME NEW v \in Versions, PushTag(v) PROVE \A q \in Procs : Knows(q)'
  BY <1>2, <1>5 DEF PushTag, procVars, Watches
<1>6. ASSUME NEW p \in Procs, NEW v, NEW lock, Generate(p) \/ Check(p, v) \/ Upgrade(p, lock) \/ Prepare(p, v)
      PROVE  By(p)
  BY <1>6, StartIsWatched DEF Generate, Check, Upgrade, Prepare
<1>7. ASSUME NEW p \in Procs, ReadGenerator(p) PROVE By(p)
  BY <1>7, MakingIsWatched DEF ReadGenerator
<1>8. ASSUME NEW p \in Procs, ReadVersion(p) PROVE By(p)
  <2>1. PICK what : Goto(p, "manifest", what) /\ UNCHANGED <<files, at, calm>>
    BY <1>8 DEF ReadVersion, Reads
  <2> QED BY <2>1, MakingIsWatched
<1>9. ASSUME NEW p \in Procs, WriteManifest(p) PROVE By(p)
  <2>1. Goto(p, "constants", held[p]) /\ Disturb(p) /\ \A q \in Procs \ {p} : at'[q] = at[q]
    BY <1>9 DEF WriteManifest, ValuesOK
  <2> QED BY <2>1, MakingIsWatched
<1>10. ASSUME NEW p \in Procs, WriteConstant(p) PROVE By(p)
  <2>1. Disturb(p) /\ UNCHANGED <<pc, tag, held>> /\ \A q \in Procs \ {p} : at'[q] = at[q]
    BY <1>10 DEF WriteConstant, ValuesOK
  <2>2. \A q \in Procs \ {p} : Watches(q)
    BY <2>1, DisturbedWatches
  <2>3. pc'[p] = "constants"
    BY <1>10 DEF WriteConstant
  <2> QED BY <2>2, <2>3 DEF By, Knows
<1>11. ASSUME NEW p \in Procs, Generated(p) PROVE By(p)
  BY <1>11, MakingIsWatched, ExitIsWatched DEF Generated, Reads
<1>12. ASSUME NEW p \in Procs, Leave(p) PROVE By(p)
  BY <1>12, ExitIsWatched DEF Leave
<1>13. ASSUME NEW p \in Procs, ReadLock(p) PROVE By(p)
  BY <1>13, ReadLockKnows
<1>14. ASSUME NEW p \in Procs, CheckManifest(p) PROVE By(p)
  BY <1>14, CheckManifestKnows
<1>15. ASSUME NEW p \in Procs, CheckVersion(p) PROVE By(p)
  BY <1>15, CheckVersionKnows
<1>16. ASSUME NEW p \in Procs, CheckGenerator(p) PROVE By(p)
  BY <1>16, CheckGeneratorKnows
<1>17. ASSUME NEW p \in Procs, CheckConstant(p) PROVE By(p)
  BY <1>17, CheckConstantKnows
<1>18. ASSUME NEW p \in Procs, Checked(p) PROVE By(p)
  BY <1>18, CheckedKnows
<1> QED BY <1>1, <1>3, <1>4, <1>5, <1>6, <1>7, <1>8, <1>9, <1>10, <1>11, <1>12, <1>13, <1>14, <1>15,
           <1>16, <1>17, <1>18 DEF Next, SetRuntimeVersion, SetGenerator, Checkout

(* ---- stamps ---- *)

Tells(manifest, m) == manifest # Undef /\ m = RenderConstant(manifest)
Says(f, m) ==
    \/ Tells(f.manifest, m)
    \/ \E t \in 1..Targets : f.constants[t] # Undef /\ m = f.constants[t]

\* What the checkout, a release or a process says of a version.
IsText(m) ==
    \/ \E p \in Procs : Tells(held[p].manifest, m)
    \/ Says(files, m)
    \/ \E v \in DOMAIN releases : Says(releases[v].files, m)

\* Texts have stamps that were given out, and as long as no stamp was given out
\* twice, texts with one stamp are the same, and a stamp that is not in a text yet
\* is in no other process.
StampsTell ==
    /\ \A m : IsText(m) => m.generatedAt \in used
    /\ ~reused =>
         /\ \A m, n : IsText(m) /\ IsText(n) /\ m.generatedAt = n.generatedAt => m = n
         /\ \A p \in Procs : pc[p] = "version" =>
              /\ \A m : IsText(m) => m.generatedAt # held[p].stamp
              /\ \A q \in Procs : q # p /\ pc[q] = "version" => held[q].stamp # held[p].stamp

\* No new text, no new stamp.
Copies ==
    /\ \A m : IsText(m)' => IsText(m)
    /\ UNCHANGED <<used, reused>>
    /\ \A p \in Procs : pc'[p] = "version" => pc[p] = "version" /\ held'[p].stamp = held[p].stamp

LEMMA CopiesTell == StampsTell /\ Copies => StampsTell'
  BY DEF StampsTell, Copies

\* Where the texts come from when a process moves, or a commit or a checkout does.
LEMMA CopiedTexts ==
    ASSUME ValuesOK,
           \A q \in Procs : \/ held'[q].manifest = held[q].manifest
                            \/ held'[q].manifest \in {Undef, files.manifest},
           \A m : Says(files', m) => IsText(m),
           \A v \in DOMAIN releases' : \/ v \in DOMAIN releases /\ releases'[v] = releases[v]
                                       \/ releases'[v].files = files
    PROVE  \A m : IsText(m)' => IsText(m)
<1> SUFFICES ASSUME NEW m,
                    \/ \E p \in Procs : Tells(held'[p].manifest, m)
                    \/ Says(files', m)
                    \/ \E v \in DOMAIN releases' : Says(releases'[v].files, m)
             PROVE  IsText(m)
  BY DEF IsText, Says, Tells, RenderConstant, VersionFields
<1>1. CASE \E p \in Procs : Tells(held'[p].manifest, m)
  BY <1>1 DEF IsText, Says, Tells
<1>2. CASE Says(files', m)
  BY <1>2
<1>3. CASE \E v \in DOMAIN releases' : Says(releases'[v].files, m)
  BY <1>3 DEF IsText
<1> QED BY <1>1, <1>2, <1>3

LEMMA FilesAreTexts ==
    ASSUME NEW f, f.manifest = files.manifest, f.constants = files.constants
    PROVE  \A m : Says(f, m) => IsText(m)
  BY DEF Says, IsText

LEMMA EditCopies ==
    ASSUME ValuesOK, NEW f, Edit(f), \A m : Says(f, m) => IsText(m) PROVE Copies
<1>1. \A m : IsText(m)' => IsText(m)
  BY CopiedTexts DEF Edit, procVars
<1> QED BY <1>1 DEF Edit, procVars, Copies

LEMMA PushTagCopies ==
    ASSUME ValuesOK, NEW v \in Versions, PushTag(v) PROVE Copies
<1>1. \A x \in DOMAIN releases' : \/ x \in DOMAIN releases /\ releases'[x] = releases[x]
                                  \/ releases'[x].files = files
  BY DEF PushTag
<1>2. UNCHANGED <<files, held, pc, used, reused>>
  BY DEF PushTag, procVars
<1>3. \A m : Says(files', m) => IsText(m)
  BY <1>2, FilesAreTexts
<1>4. \A m : IsText(m)' => IsText(m)
  BY <1>1, <1>2, <1>3, CopiedTexts
<1> QED BY <1>2, <1>4 DEF Copies

LEMMA StartCopies ==
    ASSUME ValuesOK, NEW p \in Procs, NEW c, NEW v, NEW lock, NEW first \in {"generate", "check"},
           Start(p, c, v, lock, first),
           files'.manifest = files.manifest, files'.constants = files.constants
    PROVE  Copies
<1>1. \A q \in Procs : held'[q].manifest = held[q].manifest
  <2>1. ASSUME NEW q \in Procs \ {p} PROVE held'[q] = held[q]
    BY DEF Start, ValuesOK
  <2>2. held'[p].manifest = held[p].manifest
    <3> DEFINE h == held[p]
               g == held'[p]
    <3>1. h \in HeldTypes /\ g = [h EXCEPT !.pinned = lock]
      BY DEF Start, ValuesOK
    <3> HIDE DEF h, g
    <3>2. g.manifest = h.manifest
      BY <3>1 DEF HeldTypes
    <3> QED BY <3>2 DEF h, g
  <2> QED BY <2>1, <2>2
<1>2. \A m : Says(files', m) => IsText(m)
  BY FilesAreTexts
<1>3. \A m : IsText(m)' => IsText(m)
  BY <1>1, <1>2, CopiedTexts DEF Start
<1>4. \A q \in Procs : pc'[q] = "version" => pc[q] = "version" /\ held'[q].stamp = held[q].stamp
  BY DEF Start, ValuesOK
<1> QED BY <1>3, <1>4 DEF Start, Copies

\* A process ends or goes on, with no manifest, with the one it had, or with the
\* one that is there.
LEMMA GotoCopies ==
    ASSUME ValuesOK, NEW p \in Procs, NEW next, NEW what, next # "version",
           pc' = [pc EXCEPT ![p] = next], held' = [held EXCEPT ![p] = what],
           what.manifest \in {Undef, held[p].manifest, files.manifest},
           \A m : Says(files', m) => IsText(m),
           UNCHANGED <<releases, used, reused>>
    PROVE  Copies
<1>1. \A q \in Procs : \/ held'[q].manifest = held[q].manifest
                       \/ held'[q].manifest \in {Undef, files.manifest}
  BY DEF ValuesOK
<1>2. \A m : IsText(m)' => IsText(m)
  BY <1>1, CopiedTexts
<1>3. \A q \in Procs : pc'[q] = "version" => pc[q] = "version" /\ held'[q].stamp = held[q].stamp
  BY DEF ValuesOK
<1> QED BY <1>2, <1>3 DEF Copies

LEMMA ReadsCopies ==
    ASSUME ValuesOK, NEW p \in Procs, NEW next, NEW what, next # "version", Reads(p, next, what),
           what.manifest \in {Undef, held[p].manifest, files.manifest}
    PROVE  Copies
<1>1. \A m : Says(files', m) => IsText(m)
  BY FilesAreTexts DEF Reads
<1> QED BY <1>1, GotoCopies DEF Reads, Goto

LEMMA ExitCopies ==
    ASSUME ValuesOK, NEW p \in Procs, Exit(p) PROVE Copies
<1>1. \A m : Says(files', m) => IsText(m)
  BY FilesAreTexts DEF Exit
<1>2. Nothing.manifest = Undef
  BY DEF Nothing
<1> QED BY <1>1, <1>2, GotoCopies DEF Exit

LEMMA ReadGeneratorTells ==
    ASSUME ValuesOK, HeldOK, StampsTell, NEW p \in Procs, ReadGenerator(p) PROVE StampsTell'
<1>1. PICK s \in Stamps :
         /\ Goto(p, "version", [held[p] EXCEPT !.generator = files.generator, !.stamp = s])
         /\ used' = used \cup {s}
         /\ reused' = (reused \/ s \in used)
  BY DEF ReadGenerator
<1>2. held'[p].manifest = held[p].manifest /\ held'[p].stamp = s
  <2> DEFINE h == held[p]
             g == held'[p]
             x == files.generator
  <2>1. h \in HeldTypes /\ g = [h EXCEPT !.generator = x, !.stamp = s]
    BY <1>1 DEF Goto, ValuesOK
  <2> HIDE DEF h, g, x
  <2>2. g.manifest = h.manifest /\ g.stamp = s
    BY <2>1 DEF HeldTypes
  <2> QED BY <2>2 DEF h, g
<1>3. \A q \in Procs : q # p => held'[q] = held[q] /\ pc'[q] = pc[q]
  BY <1>1 DEF Goto, ValuesOK
<1>4. \A m : IsText(m)' => IsText(m)
  <2>1. \A q \in Procs : held'[q].manifest = held[q].manifest
    BY <1>2, <1>3
  <2>2. files' = files /\ releases' = releases
    BY <1>1 DEF ReadGenerator, Goto
  <2>3. \A m : Says(files', m) => IsText(m)
    BY <2>2, FilesAreTexts
  <2> QED BY <2>1, <2>2, <2>3, CopiedTexts
<1>5. \A m : IsText(m)' => m.generatedAt \in used'
  BY <1>1, <1>4 DEF StampsTell
<1>6. ASSUME ~reused' PROVE ~reused /\ s \notin used
  BY <1>1, <1>6
<1>7. ASSUME ~reused', NEW q \in Procs, pc'[q] = "version"
      PROVE  /\ \A m : IsText(m)' => m.generatedAt # held'[q].stamp
             /\ \A r \in Procs : r # q /\ pc'[r] = "version" => held'[r].stamp # held'[q].stamp
  <2>1. \A r \in Procs : pc[r] = "version" => held[r].stamp \in used
    BY DEF HeldOK
  <2>2. CASE q = p
    BY <1>2, <1>3, <1>4, <1>6, <1>7, <2>1, <2>2 DEF StampsTell
  <2>3. CASE q # p
    BY <1>2, <1>3, <1>4, <1>6, <1>7, <2>1, <2>3 DEF StampsTell
  <2> QED BY <2>2, <2>3
<1>8. ASSUME ~reused' PROVE \A m, n : IsText(m)' /\ IsText(n)' /\ m.generatedAt = n.generatedAt => m = n
  BY <1>4, <1>6, <1>8 DEF StampsTell
<1> QED BY <1>5, <1>7, <1>8 DEF StampsTell

LEMMA ReadVersionTells ==
    ASSUME ValuesOK, HeldOK, StampsTell, NEW p \in Procs, ReadVersion(p) PROVE StampsTell'
<1> DEFINE manifest == Manifest(held[p].lock, held[p].generator, files.version, held[p].stamp)
           made == RenderConstant(manifest)
<1>1. /\ pc[p] = "version" /\ pc' = [pc EXCEPT ![p] = "manifest"]
      /\ held' = [held EXCEPT ![p] = [held[p] EXCEPT !.manifest = manifest]]
      /\ UNCHANGED <<files, releases, used, reused>>
  BY DEF ReadVersion, Reads, Goto
<1>2. made.generatedAt = held[p].stamp /\ held[p].stamp \in used
  BY <1>1 DEF Manifest, HeldOK, RenderConstant, VersionFields
<1> HIDE DEF manifest
<1>3. held'[p].manifest = manifest
  <2> DEFINE h == held[p]
             g == held'[p]
  <2>1. h \in HeldTypes /\ g = [h EXCEPT !.manifest = manifest]
    BY <1>1 DEF ValuesOK
  <2> HIDE DEF h, g
  <2>2. g.manifest = manifest
    BY <2>1, HeldSelects
  <2> QED BY <2>2 DEF g
<1>4. \A q \in Procs : q # p => held'[q] = held[q] /\ pc'[q] = pc[q]
  BY <1>1 DEF ValuesOK
<1>5. pc'[p] # "version"
  BY <1>1 DEF ValuesOK
<1>6. ASSUME NEW m, IsText(m)' PROVE IsText(m) \/ m = made
  BY <1>1, <1>3, <1>4, <1>6 DEF IsText, Says, Tells
<1> HIDE DEF made
<1>7. \A m : IsText(m)' => m.generatedAt \in used'
  BY <1>1, <1>2, <1>6 DEF StampsTell
<1>8. ASSUME ~reused', NEW m, NEW n, IsText(m)', IsText(n)', m.generatedAt = n.generatedAt PROVE m = n
  <2>1. ~reused /\ (IsText(m) \/ m = made) /\ (IsText(n) \/ n = made)
    BY <1>1, <1>6, <1>8
  <2>2. \A x : IsText(x) => x.generatedAt # made.generatedAt
    BY <1>1, <1>2, <2>1 DEF StampsTell
  <2> QED BY <1>8, <2>1, <2>2 DEF StampsTell
<1>9. ASSUME ~reused', NEW q \in Procs, pc'[q] = "version"
      PROVE  /\ \A m : IsText(m)' => m.generatedAt # held'[q].stamp
             /\ \A r \in Procs : r # q /\ pc'[r] = "version" => held'[r].stamp # held'[q].stamp
  <2>1. ~reused /\ q # p /\ pc[q] = "version" /\ held'[q] = held[q]
    BY <1>1, <1>4, <1>5, <1>9
  <2>2. held[p].stamp # held[q].stamp
    BY <1>1, <2>1 DEF StampsTell
  <2>3. \A m : IsText(m)' => m.generatedAt # held'[q].stamp
    BY <1>2, <1>6, <2>1, <2>2 DEF StampsTell
  <2>4. \A r \in Procs : r # q /\ pc'[r] = "version" => held'[r].stamp # held'[q].stamp
    BY <1>4, <1>5, <2>1 DEF StampsTell
  <2> QED BY <2>3, <2>4
<1> QED BY <1>7, <1>8, <1>9 DEF StampsTell

LEMMA WriteConstantCopies ==
    ASSUME ValuesOK, HeldOK, NEW p \in Procs, WriteConstant(p) PROVE Copies
<1> DEFINE text == RenderConstant(held[p].manifest)
<1>1. /\ files' = [files EXCEPT !.constants = [@ EXCEPT ![at[p]] = text]]
      /\ UNCHANGED <<releases, pc, held, used, reused>>
  BY DEF WriteConstant
<1>2. held[p].manifest # Undef
  BY ManifestsAssumption DEF WriteConstant, HeldOK
<1>3. IsText(text)
  BY <1>2 DEF IsText, Tells
<1> HIDE DEF text
<1>4. /\ files'.manifest = files.manifest
      /\ \A t \in 1..Targets : files'.constants[t] \in {files.constants[t], text}
  BY <1>1 DEF ValuesOK, FilesTypes
<1>5. ASSUME NEW m, Says(files', m) PROVE IsText(m)
  <2>1. CASE Tells(files'.manifest, m)
    BY <1>4, <2>1 DEF Says, IsText
  <2>2. CASE \E t \in 1..Targets : files'.constants[t] # Undef /\ m = files'.constants[t]
    BY <1>3, <1>4, <2>2 DEF Says, IsText
  <2> QED BY <1>5, <2>1, <2>2 DEF Says
<1>6. \A m : IsText(m)' => IsText(m)
  BY <1>1, <1>5, CopiedTexts
<1> QED BY <1>1, <1>6 DEF Copies

LEMMA WriteManifestCopies ==
    ASSUME ValuesOK, NEW p \in Procs, WriteManifest(p) PROVE Copies
<1>1. /\ files' = [files EXCEPT !.manifest = held[p].manifest]
      /\ Goto(p, "constants", held[p]) /\ UNCHANGED <<used, reused>>
  BY DEF WriteManifest
<1>2. files'.manifest = held[p].manifest /\ files'.constants = files.constants
  BY <1>1 DEF ValuesOK, FilesTypes
<1>3. \A m : Says(files', m) => IsText(m)
  BY <1>2 DEF Says, IsText
<1> QED BY <1>1, <1>3, GotoCopies DEF Goto

LEMMA StampsNext ==
    ASSUME ValuesOK, HeldOK, StampsTell, [Next]_vars PROVE StampsTell'
<1>1. CASE UNCHANGED vars
  <2>1. Copies
    BY <1>1 DEF vars, procVars, Copies, IsText, Says
  <2> QED BY <2>1, CopiesTell
<1>2. ASSUME NEW v, SetRuntimeVersion(v) PROVE Copies
  <2> DEFINE f == [files EXCEPT !.version = v]
  <2>1. f.manifest = files.manifest /\ f.constants = files.constants
    BY DEF ValuesOK, FilesTypes
  <2>2. Edit(f)
    BY <1>2 DEF SetRuntimeVersion
  <2> HIDE DEF f
  <2> QED BY <2>1, <2>2, FilesAreTexts, EditCopies
<1>3. ASSUME NEW g, SetGenerator(g) PROVE Copies
  <2> DEFINE f == [files EXCEPT !.generator = g]
  <2>1. f.manifest = files.manifest /\ f.constants = files.constants
    BY DEF ValuesOK, FilesTypes
  <2>2. Edit(f)
    BY <1>3 DEF SetGenerator
  <2> HIDE DEF f
  <2> QED BY <2>1, <2>2, FilesAreTexts, EditCopies
<1>4. ASSUME NEW v \in DOMAIN releases, Checkout(releases[v].files) PROVE Copies
  <2>1. \A m : Says(releases[v].files, m) => IsText(m)
    BY DEF IsText
  <2> QED BY <1>4, <2>1, EditCopies DEF Checkout
<1>5. ASSUME NEW v \in Versions, PushTag(v) PROVE Copies
  BY <1>5, PushTagCopies
<1>6. ASSUME NEW p \in Procs, NEW v, Generate(p) \/ Check(p, v) PROVE Copies
  BY <1>6, StartCopies DEF Generate, Check
<1>7. ASSUME NEW p \in Procs, NEW lock \in Locks, Upgrade(p, lock) PROVE Copies
  <2>1. files'.manifest = files.manifest /\ files'.constants = files.constants
    BY <1>7 DEF Upgrade, ValuesOK, FilesTypes
  <2> QED BY <1>7, <2>1, StartCopies DEF Upgrade
<1>8. ASSUME NEW p \in Procs, NEW v \in Versions, Prepare(p, v) PROVE Copies
  <2>1. files'.manifest = files.manifest /\ files'.constants = files.constants
    BY <1>8 DEF Prepare, ValuesOK, FilesTypes
  <2> QED BY <1>8, <2>1, StartCopies DEF Prepare
<1>9. ASSUME NEW p \in Procs, ReadLock(p) PROVE Copies
  <2> DEFINE what == [held[p] EXCEPT !.lock = files.lock]
  <2>1. what.manifest = held[p].manifest
    BY DEF ValuesOK, HeldTypes
  <2> HIDE DEF what
  <2>2. Reads(p, "generator", what) \/ Reads(p, "check manifest", what) \/ Exit(p)
    BY <1>9 DEF ReadLock, what
  <2> QED BY <2>1, <2>2, ReadsCopies, ExitCopies
<1>10. ASSUME NEW p \in Procs, Generated(p) PROVE Copies
  <2> DEFINE what == [Nothing EXCEPT !.pinned = held[p].pinned]
  <2>1. what.manifest = Undef
    BY DEF Nothing
  <2> HIDE DEF what
  <2>2. Reads(p, "check", what) \/ Exit(p)
    BY <1>10 DEF Generated, what
  <2> QED BY <2>1, <2>2, ReadsCopies, ExitCopies
<1>11. ASSUME NEW p \in Procs, CheckManifest(p) PROVE Copies
  <2> DEFINE what == [held[p] EXCEPT !.manifest = files.manifest]
  <2>1. what.manifest = files.manifest
    BY DEF ValuesOK, HeldTypes
  <2> HIDE DEF what
  <2>2. Reads(p, "check version", what) \/ Exit(p)
    BY <1>11 DEF CheckManifest, what
  <2> QED BY <2>1, <2>2, ReadsCopies, ExitCopies
<1>12. ASSUME NEW p \in Procs, CheckVersion(p) PROVE Copies
  <2> DEFINE what == [held[p] EXCEPT !.version = files.version]
  <2>1. what.manifest = held[p].manifest
    BY DEF ValuesOK, HeldTypes
  <2> HIDE DEF what
  <2>2. Reads(p, "check generator", what)
    BY <1>12 DEF CheckVersion, what
  <2> QED BY <2>1, <2>2, ReadsCopies
<1>13. ASSUME NEW p \in Procs, CheckGenerator(p) PROVE Copies
  <2>1. \A m : Says(files, m) => IsText(m)
    BY DEF IsText
  <2>2. CASE Goto(p, "check constants", held[p]) /\ UNCHANGED <<files, used, reused>>
    BY <2>1, <2>2, GotoCopies DEF Goto
  <2> QED BY <1>13, <2>2, ExitCopies DEF CheckGenerator
<1>14. ASSUME NEW p \in Procs, CheckConstant(p) PROVE Copies
  <2>1. CASE UNCHANGED <<files, releases, pc, held, used, reused>>
    BY <2>1 DEF Copies, IsText, Says
  <2> QED BY <1>14, <2>1, ExitCopies DEF CheckConstant
<1>15. ASSUME NEW p \in Procs, Checked(p) PROVE Copies
  <2>1. Nothing.manifest = Undef
    BY DEF Nothing
  <2> QED BY <1>15, <2>1, ReadsCopies, ExitCopies DEF Checked
<1>16. ASSUME NEW p \in Procs, Leave(p) PROVE Copies
  BY <1>16, ExitCopies DEF Leave
<1> QED BY <1>1, <1>2, <1>3, <1>4, <1>5, <1>6, <1>7, <1>8, <1>9, <1>10, <1>11, <1>12, <1>13, <1>14,
           <1>15, <1>16, CopiesTell, WriteManifestCopies, WriteConstantCopies, ReadGeneratorTells,
           ReadVersionTells DEF Next

LEMMA StampsInit == Init => StampsTell
<1> SUFFICES ASSUME Init, NEW m, IsText(m) PROVE FALSE
  BY DEF Init, StampsTell
<1>1. \A p \in Procs : held[p].manifest = Undef
  BY DEF Init, Nothing
<1>2. files.manifest = Undef /\ \A t \in 1..Targets : files.constants[t] = Undef
  BY DEF Init, NoFile
<1>3. DOMAIN releases = {}
  BY DEF Init
<1> QED BY <1>1, <1>2, <1>3 DEF IsText, Says, Tells

\* A text that has a manifest's stamp somewhere in it has it as its stamp.
LEMMA StampsMatch ==
    ASSUME NEW text \in ConstantTypes, NEW m \in Manifests, ConstantAgrees(text, m)
    PROVE  text.generatedAt = m.at
<1>1. m.at \in Stamps /\ Includes(text, m.at)
  BY DEF Manifests, ConstantAgrees, VersionFields
<1>2. PICK k \in DOMAIN text : m.at \in Within(text[k])
  BY <1>1 DEF Includes
<1>3. text.generatedAt \in Stamps
  BY DEF ConstantTypes
<1>4. \/ text[k] = text.generatedAt
      \/ text[k] \in Versions \cup Generators \cup UNION {{l.version, l.tag, l.commit} : l \in Locks}
  BY <1>2 DEF ConstantTypes
<1>5. text[k] = text.generatedAt
  BY <1>1, <1>2, <1>4, StampsAssumption
<1> QED BY <1>1, <1>2, <1>3, <1>5, StampsAssumption

\* If every stamp was given out once, constants that agree with their manifest in
\* every value are those made with it.
LEMMA AgreeingIsCurrent ==
    ASSUME StampsTell, ~reused, NEW f \in FilesTypes, \A m : Says(f, m) => IsText(m),
           f.manifest # NoFile, \A t \in 1..Targets : ConstantAgrees(f.constants[t], f.manifest)
    PROVE  ConstantsAreCurrent(f)
<1> SUFFICES ASSUME NEW t \in 1..Targets PROVE f.constants[t] = RenderConstant(f.manifest)
  BY DEF ConstantsAreCurrent
<1>1. f.constants[t] # NoFile
  BY DEF ConstantAgrees
<1>2. f.constants[t] \in ConstantTypes /\ f.manifest \in Manifests
  BY <1>1 DEF FilesTypes
<1>3. f.constants[t].generatedAt = RenderConstant(f.manifest).generatedAt
  BY <1>2, StampsMatch, RenderFacts
<1>4. IsText(f.constants[t]) /\ IsText(RenderConstant(f.manifest))
  BY <1>1 DEF Says, Tells, NoFile
<1> QED BY <1>3, <1>4 DEF StampsTell

-----------------------------------------------------------------------------
IInv == ValuesOK /\ HeldOK /\ StampsTell /\ \A p \in Procs : Knows(p)

\* The inductive invariant: what processes know of a checkout nobody else touches,
\* and that a stamp tells which text it is in.
THEOREM Invariant == Spec => []IInv
<1>1. Init => IInv
  BY ValuesInit, StampsInit DEF Init, IInv, Knows
<1>2. IInv /\ [Next]_vars => IInv'
  BY ValuesNext, StampsNext, KnowsNext DEF IInv
<1> QED BY <1>1, <1>2, PTL DEF Spec

\* A check that passes while nobody else touches the checkout says the truth
\* about it (checkVersionMetadata, axtp-versioning.mjs:348-388).
THEOREM ChecksAreTrue == Spec => []PassedCheckIsCurrent
<1>1. IInv => PassedCheckIsCurrent
  <2> SUFFICES ASSUME IInv, NEW p \in Procs, pc[p] = "passed", calm[p]
               PROVE  /\ ManifestIsCurrent(files)
                      /\ tag[p] # Undef => MatchesTag(files.lock, files.version, tag[p])
                      /\ ~reused => ConstantsAreCurrent(files)
    BY DEF PassedCheckIsCurrent
  <2>1. /\ files.manifest # NoFile
        /\ CheckFields(files.lock, files.manifest, files.version, files.generator, tag[p])
        /\ \A t \in 1..Targets : ConstantAgrees(files.constants[t], files.manifest)
    BY DEF IInv, Knows
  <2>2. /\ ManifestIsCurrent(files)
        /\ tag[p] # Undef => MatchesTag(files.lock, files.version, tag[p])
    BY <2>1 DEF CheckFields, AssertEqual, ManifestIsCurrent
  <2>3. ASSUME ~reused PROVE ConstantsAreCurrent(files)
    <3>1. \A m : Says(files, m) => IsText(m)
      BY DEF IsText
    <3>2. files \in FilesTypes
      BY DEF IInv, ValuesOK
    <3> QED BY <2>1, <2>3, <3>1, <3>2, AgreeingIsCurrent DEF IInv
  <2> QED BY <2>2, <2>3
<1> QED BY <1>1, Invariant, PTL

\* What was published was asked for.
Asked == \A v \in DOMAIN releases :
    releases[v].notes # Refused =>
        /\ ReleaseCheck(releases[v].files, v)
        /\ releases[v].notes = WriteReleaseNotes(releases[v].files)

LEMMA AskedNext == Asked /\ [Next]_vars => Asked'
<1> SUFFICES ASSUME Asked, [Next]_vars PROVE Asked'
  OBVIOUS
<1>1. ASSUME releases' = releases PROVE Asked'
  BY <1>1 DEF Asked, ReleaseCheck, WriteReleaseNotes, LockIsReleased, ReadSpecLock, CheckFields, MatchesTag,
              AssertEqual, ConstantAgrees, Includes
<1>2. ASSUME NEW v \in Versions, PushTag(v) PROVE Asked'
  <2>1. releases' = [x \in DOMAIN releases \cup {v} |->
                       IF x = v THEN [files |-> files,
                                      notes |-> IF ReleaseCheck(files, v) THEN WriteReleaseNotes(files)
                                                ELSE Refused]
                       ELSE releases[x]]
    BY <1>2 DEF PushTag
  <2> SUFFICES ASSUME NEW x \in DOMAIN releases \cup {v}, releases'[x].notes # Refused
               PROVE  /\ ReleaseCheck(releases'[x].files, x)
                      /\ releases'[x].notes = WriteReleaseNotes(releases'[x].files)
    BY <2>1 DEF Asked, ReleaseCheck, WriteReleaseNotes, LockIsReleased, ReadSpecLock, CheckFields, MatchesTag,
                AssertEqual, ConstantAgrees, Includes
  <2>2. CASE x = v
    BY <2>1, <2>2
  <2>3. CASE x # v
    BY <2>1, <2>3 DEF Asked
  <2> QED BY <2>2, <2>3
<1>3. CASE ~\E v \in Versions : PushTag(v)
  BY <1>1, <1>3 DEF Next, vars, SetRuntimeVersion, SetGenerator, Checkout, Edit, Generate, Check, Upgrade,
                    Prepare, Start, ReadLock, ReadGenerator, ReadVersion, WriteManifest, WriteConstant,
                    Generated, CheckManifest, CheckVersion, CheckGenerator, CheckConstant, Checked, Leave,
                    Reads, Goto, Exit
<1> QED BY <1>2, <1>3

\* A release is of the version in its tag and of the specification of that version,
\* and its notes, manifest and constants say so (axtp-versioning.mjs:348-438,
\* release.yml:80-85).
THEOREM ReleasesAreTrue == Spec => []ReleasesAreStamped
<1>1. Init => Asked
  <2>1. Init => DOMAIN releases = {}
    BY DEF Init
  <2> QED BY <2>1 DEF Asked
<1>2. IInv /\ VersioningTypeOK /\ Asked => ReleasesAreStamped
  <2> SUFFICES ASSUME IInv, VersioningTypeOK, Asked, NEW v \in DOMAIN releases, releases[v].notes # Refused
               PROVE  LET f == releases[v].files
                          n == releases[v].notes
                      IN  /\ MatchesTag(f.lock, f.version, v)
                          /\ ManifestIsCurrent(f)
                          /\ n.version = v /\ n.specVersion = SpecVersion(v)
                          /\ n.specTag = SpecTag(SpecVersion(v))
                          /\ n.specCommit = f.lock.commit /\ n.generator = f.generator
                          /\ ~reused => ConstantsAreCurrent(f)
    BY DEF ReleasesAreStamped
  <2> DEFINE f == releases[v].files
  <2>1. ReleaseCheck(f, v) /\ releases[v].notes = WriteReleaseNotes(f)
    BY DEF Asked
  <2>2. f \in FilesTypes /\ \A m : Says(f, m) => IsText(m)
    BY DEF IInv, ValuesOK, IsText
  <2>3. v # Undef
    BY UndefAssumption DEF VersioningTypeOK
  <2>4. f.manifest # NoFile /\ CheckFields(f.lock, f.manifest, f.version, f.generator, v)
        /\ \A t \in 1..Targets : ConstantAgrees(f.constants[t], f.manifest)
    BY <2>1 DEF ReleaseCheck
  <2>5. MatchesTag(f.lock, f.version, v) /\ f.manifest = Manifest(f.lock, f.generator, f.version, f.manifest.at)
    BY <2>3, <2>4 DEF CheckFields, AssertEqual
  <2>6. ~reused => ConstantsAreCurrent(f)
    BY <2>2, <2>4, AgreeingIsCurrent DEF IInv
  <2>7. LET n == releases[v].notes
        IN  /\ n.version = v /\ n.specVersion = SpecVersion(v) /\ n.specTag = SpecTag(SpecVersion(v))
            /\ n.specCommit = f.lock.commit /\ n.generator = f.generator
    <3> HIDE DEF f
    <3>1. /\ f.manifest.version = f.version /\ f.manifest.specVersion = f.lock.version
          /\ f.manifest.specTag = f.lock.tag /\ f.manifest.specCommit = f.lock.commit
          /\ f.manifest.generator = f.generator
      BY <2>5 DEF Manifest
    <3>2. f.version = v /\ f.lock.version = SpecVersion(v) /\ f.lock.tag = SpecTag(SpecVersion(v))
      BY <2>5 DEF MatchesTag
    <3> QED BY <2>1, <3>1, <3>2 DEF WriteReleaseNotes
  <2> QED BY <2>4, <2>5, <2>6, <2>7 DEF ManifestIsCurrent
<1> QED BY <1>1, <1>2, Invariant, TypeCorrect, AskedNext, PTL DEF Spec
=============================================================================
