------------------------------ MODULE Generator ------------------------------
(* The commands of the protocol generator (devtools/generators/src/cli.ts) at *)
(* work on one directory: each reads what is there at several moments, checks *)
(* it, and writes its files one by one, in any order and possibly while       *)
(* another command or an editor changes the directory. A file is written at   *)
(* once.                                                                      *)
EXTENDS Emitters

CONSTANTS
    Procs,        \* processes, each of which runs one command
    Commands,     \* the commands they run
    Together,     \* pairs of commands, the second started while the first one runs
    Later,        \* pairs of commands, the second started when the first one has ended
    Trees,        \* source trees at the start: [registry, files, topLevelDomains, docs]
    SavedTrees,   \* source trees that an editor or a checkout leaves later
    Definitions,  \* protocol definitions put there by hand
    MaxSaves      \* bound on changes from outside

(* What the parser of YAML makes of any text: a list that is none counts as   *)
(* empty, a key that is left out has the value Undef, and what has no number  *)
(* is found out by loading it (LoadSourcesThrows).                            *)
IsList(list, keys) == list \in Seq(ToSet(list)) /\ \A x \in ToSet(list) : keys \subseteq DOMAIN x
Parsed(from) ==
    /\ \A list \in {from.methods, from.events, from.errors, from.capabilities} :
         /\ IsList(list, {"id", "name", "domain", "status"})
         /\ \A x \in ToSet(list) : x.id = Undef \/ x.id \in Int
    /\ IsList(from.schemas, {"name", "fields"})
ParsedRegistry(r) == Parsed(r) /\ IsList(r.meta.transports, {"name"})
ParsedTree(t) ==
    /\ {"registry", "files"} \subseteq DOMAIN t /\ ParsedRegistry(t.registry)
    /\ IsFiniteSet(DOMAIN t.files) /\ DOMAIN t.files \subseteq Int
    /\ \A path \in DOMAIN t.files :
         /\ Parsed(t.files[path])
         /\ IsList(t.files[path].profiles,
                   {"name", "requiredMethods", "requiredEvents", "requiredErrors"})

ASSUME GeneratorAssumption ==
    /\ MaxSaves \in Nat
    /\ Undef \notin Commands \cup {"", "Empty", "mvp", "stable", "draft"}
    /\ \A t \in Trees \cup SavedTrees : ParsedTree(t)
    /\ \A def \in Definitions :
         /\ \A list \in RegistryLists : IsList(def[list], {"id", "name"})
         /\ LoadProtocolDefinitionFromRaw(def) # Undef

DocFiles == {"docs/protocol.json", "docs/protocol.md"}
RegistryFiles == {"docs/tables.md", "mcp/registry.json", "test-vectors"}
StagedFiles == {"out/cpp", "out/method_traits.h", "out/dart", "out/ts", "out/registry.json",
                "out/tables.md", "out/test-vectors"}
Yaml == "protocol/axtp.protocol.yaml"

(* What each command writes; the codecs, a constant text that is written      *)
(* after the method traits, count as one file with them.                      *)
Outputs(c) ==
    CASE c = "generate"           -> {Yaml} \cup DocFiles \cup RegistryFiles
      [] c = "generate --out"     -> {Yaml, "out/protocol.json", "out/protocol.md"} \cup StagedFiles
      [] c = "generate-registry"  -> RegistryFiles
      [] c = "generate-registry --out" -> StagedFiles
      [] c = "build-protocol"     -> {Yaml}
      [] c = "emit-protocol"      -> DocFiles
      [] c = "generate-protocol"  -> {"generated/protocol.json", "generated/protocol.md"}
      [] c = "doc"                -> {"docs/tables.md"}
      [] c = "test-vector"        -> {"test-vectors"}
      [] OTHER                    -> {}

(* Commands that read the definition and not the sources; those that build a  *)
(* definition from the sources; and those that do not ask the specification.  *)
ReadsProtocol == {"emit-protocol", "generate-protocol", "validate-protocol"}
BuildsProtocol == {"generate", "generate --out", "build-protocol", "validate-sources"}
IgnoresDocs == {"build-protocol"}

Vectors == {"test-vectors", "out/test-vectors"}
Files == {Yaml, "out/protocol.json", "out/protocol.md", "generated/protocol.json",
          "generated/protocol.md"} \cup DocFiles \cup RegistryFiles \cup StagedFiles

Content(file, spec, model) ==
    CASE file = Yaml -> model.raw
      [] file \in {"docs/protocol.json", "out/protocol.json", "generated/protocol.json"} -> ToProtocolJson(model)
      [] file \in {"docs/protocol.md", "out/protocol.md", "generated/protocol.md"} -> RenderProtocolMarkdown(model)
      [] file \in {"docs/tables.md", "out/tables.md"} -> EmitMarkdown(spec)
      [] file \in {"mcp/registry.json", "out/registry.json"} -> EmitJson(spec)
      [] file \in Vectors -> EmitTestVectors
      [] file = "out/cpp" -> EmitCpp(spec)
      [] file = "out/method_traits.h" -> EmitMethodTraits(spec)
      [] file = "out/dart" -> EmitDart(spec)
      [] file = "out/ts" -> EmitTs(spec)

VARIABLES
    tree,      \* the sources and the specification's prose
    disk,      \* the content of each file that is there
    byHand,    \* the definition on disk was put there by hand
    saves,     \* changes from outside so far
    pc,        \* where each process is
    cmd,       \* the command it runs
    registry,  \* the central registry it has read
    sources,   \* its source model
    model,     \* its protocol model
    todo,      \* the files it has not written
    cleared,   \* it has removed the directory of the test vectors
    failed,    \* one of its files could not be made
    alone      \* no other command ran, and nobody touched the definition, since it started

procVars == <<pc, cmd, registry, sources, model, todo, cleared, failed>>
vars == <<tree, disk, byHand, saves, procVars, alone>>

Running == {"registry", "files", "protocol", "check", "writing"}
Active(p) == pc[p] \in Running

Init ==
    /\ tree \in Trees
    /\ disk = [f \in {} |-> Undef]
    /\ byHand = FALSE /\ saves = 0
    /\ pc = [p \in Procs |-> "idle"] /\ cmd = [p \in Procs |-> Undef]
    /\ registry = [p \in Procs |-> Undef] /\ sources = [p \in Procs |-> Undef]
    /\ model = [p \in Procs |-> Undef] /\ todo = [p \in Procs |-> {}]
    /\ cleared = [p \in Procs |-> FALSE] /\ failed = [p \in Procs |-> FALSE]
    /\ alone = [p \in Procs |-> FALSE]

(* The files when one has been written or removed. *)
Written(f, content) == [g \in DOMAIN disk \cup {f} |-> IF g = f THEN content ELSE disk[g]]
Removed(f) == [g \in DOMAIN disk \ {f} |-> disk[g]]

(* ---- from outside ---- *)

SaveTree(t) ==
    /\ saves < MaxSaves
    /\ tree' = t /\ saves' = saves + 1
    /\ UNCHANGED <<disk, byHand, procVars, alone>>

PutDefinition(def) ==
    /\ saves < MaxSaves
    /\ disk' = Written(Yaml, def)
    /\ byHand' = TRUE /\ saves' = saves + 1
    /\ alone' = [p \in Procs |-> FALSE]
    /\ UNCHANGED <<tree, procVars>>

(* ---- a command ---- *)

Start(p, c) ==
    /\ pc[p] = "idle"
    /\ \A q \in Procs : pc[q] # "idle" =>
         <<cmd[q], c>> \in (IF Active(q) THEN Together ELSE Later)
    /\ pc' = [pc EXCEPT ![p] = IF c \in ReadsProtocol THEN "protocol" ELSE "registry"]
    /\ cmd' = [cmd EXCEPT ![p] = c]
    /\ todo' = [todo EXCEPT ![p] = Outputs(c)]
    /\ alone' = [q \in Procs |-> IF q = p THEN \A r \in Procs : ~Active(r)
                                 ELSE alone[q] /\ ~Active(q)]
    /\ UNCHANGED <<tree, disk, byHand, saves, registry, sources, model, cleared, failed>>

(* A process that ends takes what it has read with it. *)
End(p, how) ==
    /\ pc' = [pc EXCEPT ![p] = how]
    /\ registry' = [registry EXCEPT ![p] = Undef]
    /\ sources' = [sources EXCEPT ![p] = Undef]
    /\ model' = [model EXCEPT ![p] = Undef]

ReadRegistry(p) ==
    /\ pc[p] = "registry"
    /\ IF tree.topLevelDomains \/ LoadSpecThrows(tree.registry)
       THEN End(p, "failed")
       ELSE /\ registry' = [registry EXCEPT ![p] = tree.registry]
            /\ pc' = [pc EXCEPT ![p] = "files"]
            /\ UNCHANGED <<sources, model>>
    /\ UNCHANGED <<tree, disk, byHand, saves, cmd, todo, cleared, failed, alone>>

(* The sources, accepted; Undef when they are rejected. *)
LoadAndValidate(t) ==
    IF LoadSourcesThrows(t) THEN Undef
    ELSE LET spec == LoadProtocolSources(t) IN IF ValidateSpec(spec) THEN spec ELSE Undef

BuildProtocolDefinition(spec) ==
    LET raw == BuildProtocolDefinitionRaw(spec)
    IN  IF LoadProtocolThrows(raw) THEN Undef ELSE LoadProtocolDefinitionFromRaw(raw)

(* The domain files are read after the registry, and go with what it said. *)
ReadFiles(p) ==
    /\ pc[p] = "files"
    /\ LET spec  == LoadAndValidate([tree EXCEPT !.registry = registry[p]])
           built == IF spec = Undef THEN Undef ELSE BuildProtocolDefinition(spec)
       IN  CASE spec = Undef -> End(p, "failed")
             [] spec # Undef /\ cmd[p] \notin BuildsProtocol ->
                  /\ sources' = [sources EXCEPT ![p] = spec]
                  /\ pc' = [pc EXCEPT ![p] = "writing"]
                  /\ UNCHANGED <<registry, model>>
             [] spec # Undef /\ cmd[p] \in BuildsProtocol /\ built = Undef -> End(p, "failed")
             [] spec # Undef /\ cmd[p] \in BuildsProtocol /\ built # Undef ->
                  /\ sources' = [sources EXCEPT ![p] = spec]
                  /\ model' = [model EXCEPT ![p] = built]
                  /\ pc' = [pc EXCEPT ![p] = "check"]
                  /\ UNCHANGED registry
    /\ UNCHANGED <<tree, disk, byHand, saves, cmd, todo, cleared, failed, alone>>

\* Wrong form of LoadProtocolDefinition: the definition read is not kept.
LoadProtocolDefinitionLost(p) ==
    /\ pc[p] = "protocol" /\ Yaml \in DOMAIN disk
    /\ pc' = [pc EXCEPT ![p] = "check"]
    /\ UNCHANGED <<tree, disk, byHand, saves, cmd, registry, sources, model, todo, cleared, failed, alone>>

LoadProtocolDefinition(p) ==
    /\ pc[p] = "protocol"
    /\ IF Yaml \notin DOMAIN disk \/ LoadProtocolThrows(disk[Yaml])
       THEN End(p, "failed")
       ELSE /\ model' = [model EXCEPT ![p] = LoadProtocolDefinitionFromRaw(disk[Yaml])]
            /\ pc' = [pc EXCEPT ![p] = "check"]
            /\ UNCHANGED <<registry, sources>>
    /\ UNCHANGED <<tree, disk, byHand, saves, cmd, todo, cleared, failed, alone>>

\* Wrong form of Accepted: what was built from valid sources is not validated.
AcceptedAsBuilt(def, docs, c) == c \in BuildsProtocol \/ ValidateProtocolDefinition(def)

(* What is asked of a definition before anything is written; the prose        *)
(* specification is read only now.                                            *)
Accepted(def, docs, c) ==
    /\ ValidateProtocolDefinition(def)
    /\ c \in IgnoresDocs \/ ValidateProtocolDocsConsistency(def, docs)

\* Wrong form of CheckProtocol: the registries are made from sources read anew.
CheckProtocolReloads(p) ==
    /\ pc[p] = "check"
    /\ IF Accepted(model[p], tree.docs, cmd[p]) /\ (cmd[p] \in BuildsProtocol => LoadAndValidate(tree) # Undef)
       THEN /\ pc' = [pc EXCEPT ![p] = "writing"]
            /\ sources' = [sources EXCEPT ![p] = IF cmd[p] \in BuildsProtocol THEN LoadAndValidate(tree) ELSE @]
            /\ UNCHANGED <<registry, model>>
       ELSE End(p, "failed")
    /\ UNCHANGED <<tree, disk, byHand, saves, cmd, todo, cleared, failed, alone>>

CheckProtocol(p) ==
    /\ pc[p] = "check"
    /\ IF Accepted(model[p], tree.docs, cmd[p])
       THEN /\ pc' = [pc EXCEPT ![p] = "writing"]
            /\ UNCHANGED <<registry, sources, model>>
       ELSE End(p, "failed")
    /\ UNCHANGED <<tree, disk, byHand, saves, cmd, todo, cleared, failed, alone>>

WriteProtocol(p) ==
    /\ pc[p] = "writing" /\ Yaml \in todo[p]
    /\ disk' = Written(Yaml, Content(Yaml, sources[p], model[p]))
    /\ byHand' = FALSE
    /\ todo' = [todo EXCEPT ![p] = @ \ {Yaml}]
    /\ UNCHANGED <<tree, saves, pc, cmd, registry, sources, model, cleared, failed, alone>>

\* Wrong form of CanWrite: files are written while the definition is checked.
CanWriteUnchecked(p, f) == pc[p] \in {"check", "writing"} /\ f \in todo[p] /\ Yaml \notin todo[p]

(* The definition comes first; the other files are written side by side. *)
CanWrite(p, f) == pc[p] = "writing" /\ f \in todo[p] /\ Yaml \notin todo[p]

(* A file that cannot be made fails the command, but not its other files. *)
CannotMake(p, f) == f = "out/method_traits.h" /\ EmitMethodTraitsThrows(sources[p])

ClearVectors(p) ==
    /\ \E f \in Vectors :
         /\ CanWrite(p, f) /\ ~cleared[p]
         /\ disk' = Removed(f)
    /\ cleared' = [cleared EXCEPT ![p] = TRUE]
    /\ UNCHANGED <<tree, byHand, saves, pc, cmd, registry, sources, model, todo, failed, alone>>

WriteFile(p, f) ==
    /\ f # Yaml /\ CanWrite(p, f) /\ ~CannotMake(p, f)
    /\ f \in Vectors => cleared[p]
    /\ disk' = Written(f, Content(f, sources[p], model[p]))
    /\ todo' = [todo EXCEPT ![p] = @ \ {f}]
    /\ UNCHANGED <<tree, byHand, saves, pc, cmd, registry, sources, model, cleared, failed, alone>>

FailFile(p, f) ==
    /\ CanWrite(p, f) /\ CannotMake(p, f) /\ ~failed[p]
    /\ failed' = [failed EXCEPT ![p] = TRUE]
    /\ UNCHANGED <<tree, disk, byHand, saves, pc, cmd, registry, sources, model, todo, cleared, alone>>

Finish(p) ==
    /\ pc[p] = "writing"
    /\ \A f \in todo[p] : failed[p] /\ CannotMake(p, f)
    /\ End(p, IF failed[p] THEN "failed" ELSE "done")
    /\ UNCHANGED <<tree, disk, byHand, saves, cmd, todo, cleared, failed, alone>>

Kill(p) ==
    /\ Active(p)
    /\ End(p, "killed")
    /\ UNCHANGED <<tree, disk, byHand, saves, cmd, todo, cleared, failed, alone>>

Next ==
    \/ \E t \in SavedTrees : SaveTree(t)
    \/ \E def \in Definitions : PutDefinition(def)
    \/ \E p \in Procs :
         \/ \E c \in Commands : Start(p, c)
         \/ ReadRegistry(p) \/ ReadFiles(p) \/ LoadProtocolDefinition(p) \/ CheckProtocol(p)
         \/ WriteProtocol(p) \/ ClearVectors(p)
         \/ \E f \in Files : WriteFile(p, f) \/ FailFile(p, f)
         \/ Finish(p) \/ Kill(p)

Spec == Init /\ [][Next]_vars
-----------------------------------------------------------------------------
(* Phases are those of the commands, and what a process holds fits its phase. *)
GeneratorTypeOK ==
    /\ DOMAIN disk \subseteq Files
    /\ pc \in [Procs -> Running \cup {"idle", "done", "failed", "killed"}]
    /\ saves \in 0..MaxSaves /\ byHand \in BOOLEAN
    /\ \A p \in Procs :
         /\ pc[p] = "idle" <=> cmd[p] = Undef
         /\ cmd[p] # Undef => cmd[p] \in Commands /\ todo[p] \subseteq Outputs(cmd[p])
         /\ pc[p] \in {"registry", "files", "protocol", "check"} => todo[p] = Outputs(cmd[p])
         /\ pc[p] \in {"check", "writing"} => \E held \in {sources[p], model[p]} : held # Undef

(* A reader's reference: everything a definition names is in it, named        *)
(* entries have numbers and names of their own, the bits of a domain's        *)
(* methods are those from 0 up, and a domain has one high byte.               *)
NumbersAreNames(entries) ==
    \A x, y \in entries :
        /\ x.id = y.id /\ Truthy(x.name) /\ Truthy(y.name) => x.name = y.name
        /\ x.name = y.name /\ Truthy(x.name) => x.id = y.id

ReferencesResolve(def) ==
    /\ \A m \in ToSet(def.methods) :
         /\ {m.request, m.response} \subseteq NamesOf(def.schemas)
         /\ m.events \subseteq NamesOf(def.events)
         /\ m.errors \subseteq NamesOf(def.errors)
         /\ m.capabilities \subseteq NamesOf(def.capabilities)
    /\ \A e \in ToSet(def.events) : /\ e.payload \in NamesOf(def.schemas)
                                    /\ e.capabilities \subseteq NamesOf(def.capabilities)
    /\ \A p \in ToSet(def.profiles) : /\ p.requiredMethods \subseteq NamesOf(def.methods)
                                      /\ p.requiredEvents \subseteq NamesOf(def.events)
                                      /\ p.requiredErrors \subseteq NamesOf(def.errors)

BitsAreDense(entries) ==
    \A x \in entries :
        /\ \A b \in 0..(x.bitOffset - 1) : \E y \in entries : y.domain = x.domain /\ y.bitOffset = b
        /\ \A y \in entries : x.domain = y.domain /\ x.bitOffset = y.bitOffset => x = y

Closed(def) ==
    /\ ReferencesResolve(def)
    /\ \A list \in RegistryLists : NumbersAreNames(ToSet(def[list]))
    /\ BitsAreDense(ToSet(def.methods)) /\ BitsAreDense(ToSet(def.events))
    /\ \A m \in ToSet(def.methods) : \A x \in ToSet(def.methods) \cup ToSet(def.events) :
         x.domain = m.domain => HighByte(x.id) = HighByte(m.id)

(* What the generator has published is closed, however commands and editors   *)
(* interleave and whatever is killed: the definition unless somebody replaced *)
(* it by hand, and every JSON form of it (cli.ts:42-54, 156-184).             *)
JsonIsClosed ==
    \A f \in {"docs/protocol.json", "out/protocol.json", "generated/protocol.json"} \cap DOMAIN disk :
        Closed(disk[f])
PublishedIsClosed ==
    /\ Yaml \in DOMAIN disk /\ ~byHand => Closed(disk[Yaml])
    /\ JsonIsClosed

(* A registry's numbers fit the two bytes that C++ gives them. A number of    *)
(* more than a word is beyond the claim: the shift does not see its top.      *)
FitsTwoBytes(rows) ==
    \A r \in rows : 2 * r.id >= -Word /\ r.id < Word => 0 <= r.id /\ r.id < 65536

LookupsAgree(rows) ==
    (\A r \in rows : Truthy(r.name)) =>
        \A r \in rows : /\ MethodIdByName(rows, r.name) = r.id
                        /\ MethodById(rows, r.id) = {r}
                        /\ FromGeneratedDefaults(rows).nameToId[r.name] = r.id
                        /\ FromGeneratedDefaults(rows).idToName[r.id] = r.name

(* Every registry on disk, also one from a command that checks the sources    *)
(* only, has numbers of two bytes, one name to a number, and lookups that are *)
(* each other's inverse (ts.ts:116-186, cpp.ts:69-93).                        *)
RegistriesAreSound ==
    \A f \in {"docs/tables.md", "mcp/registry.json", "out/registry.json", "out/tables.md",
              "out/cpp", "out/dart", "out/ts"} \cap DOMAIN disk :
        /\ \A list \in RegistryLists : /\ FitsTwoBytes(disk[f].registry[list])
                                       /\ NumbersAreNames(disk[f].registry[list])
        /\ LookupsAgree(disk[f].registry.methods)

(* The document says of each path with a name what is true of its transports, *)
(* and shows every method and event under its domain, which its contents list *)
(* (protocolMarkdown.ts:345-381, 542-681). Paths without a name, of which the *)
(* validator lets several pass, are one to its reader.                        *)
DocumentIsTrue(def, doc) ==
    /\ \A t \in {u \in doc.connections : Truthy(u.name)} :
         IF t.name \in doc.framework.framed THEN t.control = TRUE /\ t.stream = TRUE
         ELSE t.control = FALSE /\ t.stream = FALSE /\ t.encodings = <<"JSON">>
    /\ doc.toc.methods = DOMAIN doc.methods /\ doc.toc.events = DOMAIN doc.events
    /\ \A list \in {"methods", "events"} :
         /\ NamesOf(def[list]) = {x.name : x \in UNION {doc[list][d] : d \in DOMAIN doc[list]}}
         /\ \A d \in DOMAIN doc[list] : \A x \in doc[list][d] : NamePrefix(x.name) = d

(* A command that fails has written none of its files, or all but the one     *)
(* that could not be made (cli.ts:156-184, cpp.ts:293-329).                   *)
FailedAllOrNothing ==
    \A p \in Procs : pc[p] = "failed" =>
        IF failed[p] THEN todo[p] = {"out/method_traits.h"} ELSE todo[p] = Outputs(cmd[p])

Numbers(entries) == {<<x.id, x.name>> : x \in entries}

(* The files of a generate tell the same story: numbers and names of the      *)
(* definition, its JSON and its document are those of every registry.         *)
InStep(files) ==
    /\ files \subseteq DOMAIN disk
    /\ \A f \in files \cap {"docs/protocol.json", "out/protocol.json"} : \A list \in RegistryLists :
         ToSet(disk[f][list]) = ToSet(LoadProtocolDefinitionFromRaw(disk[Yaml])[list])
    /\ \A f \in files \cap {"docs/protocol.md", "out/protocol.md"} : DocumentIsTrue(disk[Yaml], disk[f])
    /\ \A f \in files \cap {"docs/tables.md", "mcp/registry.json", "out/registry.json",
                            "out/tables.md", "out/cpp", "out/dart", "out/ts"} :
         \A list \in RegistryLists :
             Numbers(disk[f].registry[list]) = Numbers(ToSet(disk[Yaml][list]))

(* When a generate that no other command overlapped reports success, its      *)
(* files are all there and in step, even if the sources changed meanwhile     *)
(* (cli.ts:156-184).                                                          *)
GeneratedInStep ==
    [][\A p \in Procs :
        pc[p] = "writing" /\ pc'[p] = "done" /\ alone[p] /\ cmd[p] \in {"generate", "generate --out"}
            => InStep(Outputs(cmd[p]))]_vars
=============================================================================
