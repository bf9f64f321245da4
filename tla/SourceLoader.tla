---------------------------- MODULE SourceLoader ----------------------------
(* Reading the YAML sources of a specification into one source model          *)
(* (devtools/generators/src/loader.ts, sourceLoader.ts).                      *)
(*                                                                            *)
(* A source tree has two parts. The central registry: its lists, the protocol *)
(* meta data, and which of its files are absent or do not parse. The domain   *)
(* files: a function from their paths, which are numbers and so ordered, to   *)
(* documents. References between entries are sets, as their order is never    *)
(* looked at.                                                                 *)
EXTENDS DomainRegistry

(* The files loadSpec and loadProtocolSources cannot do without; those it     *)
(* reads when they are there are named in ListOf below.                       *)
RequiredFiles ==
    {"generator.yaml", "version.yaml", "core", "error_code.yaml",
     "capability_registry.yaml", "mvp_profile.yaml", "protocol_meta.yaml", "schema"}

(* normalizeId takes integers, and strings that read as one. *)
HasId(x) == x.id # Undef
HasBit(x) == x.bitOffset # Undef
HasLegacyNumbers(x) == x.cmd # Undef /\ x.methodId # Undef

(* The list of an optional file, empty when the file is absent. *)
ListOf(registry, file, list) == IF file \in registry.absent THEN <<>> ELSE list

MapMethod(item, defaultDomain, defaultStatus) ==
    [item EXCEPT !.name = Str(@), !.domain = Str(Or(@, defaultDomain)),
                 !.status = Or(@, defaultStatus)]
MapEvent(item, defaultDomain, defaultStatus) ==
    [item EXCEPT !.name = Str(@), !.domain = Str(Or(@, defaultDomain)),
                 !.status = Or(@, defaultStatus)]
MapErrorCode(item, defaultDomain, defaultStatus) ==
    [item EXCEPT !.name = Str(@), !.domain = Str(Or(@, defaultDomain)),
                 !.status = Or(@, defaultStatus)]
MapCapability(item, defaultDomain, defaultStatus) ==
    [item EXCEPT !.name = Str(@), !.domain = Str(Or(@, defaultDomain)),
                 !.status = Or(@, defaultStatus)]

(* The entries of the central registry have no domain to fall back on. *)
RegistryMethod(item) == MapMethod(item, Undef, "mvp")
RegistryEvent(item) == MapEvent(item, Undef, "mvp")
RegistryErrorCode(item) == MapErrorCode(item, Undef, "mvp")
RegistryCapability(item) == MapCapability(item, Undef, "mvp")
RegistryDomainRange(item) == [highByte |-> item.highByte, domain |-> Str(item.domain)]

(* A field keeps what it says of its elements in a domain file, and loses it  *)
(* in the central schema files.                                               *)
MapField(field) == [field EXCEPT !.name = Str(@), !.type = Str(@)]
RegistryField(field) == [MapField(field) EXCEPT !.itemType = Undef, !.itemSchema = Undef]
MapSchemas(schemas) ==
    [i \in DOMAIN schemas |-> [name   |-> schemas[i].name,
                               kind   |-> Or(schemas[i].kind, "object"),
                               fields |-> [j \in DOMAIN schemas[i].fields |->
                                             MapField(schemas[i].fields[j])]]]
RegistrySchemas(schemas) ==
    [i \in DOMAIN schemas |-> [MapSchemas(schemas)[i] EXCEPT
        !.fields = [j \in DOMAIN @ |-> RegistryField(@[j])]]]
MapLegacy(item) == [item EXCEPT !.statuses = {Str(s) : s \in @}]

Map(list, Op(_)) == [i \in DOMAIN list |-> Op(list[i])]

(* loadSpec throws: a required file is missing, a file does not parse or an   *)
(* entry lacks a number.                                                      *)
LoadSpecThrows(registry) ==
    \/ registry.unparsable # {}
    \/ registry.absent \cap RequiredFiles # {}
    \/ \E list \in {registry.methods, registry.events, registry.errors,
                    registry.capabilities} : \E x \in ToSet(list) : ~HasId(x)
    \/ \E x \in ToSet(registry.methods) \cup ToSet(registry.events) : ~HasBit(x)
    \/ \E x \in ToSet(registry.legacy) : ~HasLegacyNumbers(x)
    \/ \E d \in ToSet(registry.domains) : d.highByte = Undef
    \/ \E s \in ToSet(registry.schemas) : \E f \in ToSet(s.fields) : ~HasId(f)

LoadSpec(registry) ==
    [domainRegistry |-> Map(ListOf(registry, "domain_registry.yaml", registry.domains),
                            RegistryDomainRange),
     methods        |-> Map(ListOf(registry, "method_registry.yaml", registry.methods),
                            RegistryMethod),
     events         |-> Map(ListOf(registry, "event_registry.yaml", registry.events),
                            RegistryEvent),
     errors         |-> Map(registry.errors, RegistryErrorCode),
     capabilities   |-> Map(registry.capabilities, RegistryCapability),
     legacyMappings |-> Map(ListOf(registry, "legacy_mapping.yaml", registry.legacy),
                            MapLegacy),
     schemas        |-> RegistrySchemas(registry.schemas),
     mvpProfile     |-> registry.mvp]

(* sort: the elements of a set by their keys, no two of which are the same.   *)
(* (The proofs know nothing of the library's SortSeq.)                        *)
InOrder(S, key) ==
    [i \in 1..Cardinality(S) |->
        CHOOSE x \in S : Cardinality({y \in S : key[y] < key[x]}) = i - 1]

(* The domain files, in the order of their paths; other files are passed over. *)
ListYamlFiles(files) ==
    LET yaml == {p \in DOMAIN files : files[p].yaml}
    IN  Map(InOrder(yaml, [p \in yaml |-> p]), LAMBDA p : files[p])

(* The domain of a file's entries that name none. *)
DefaultDomain(doc) == Str(Or(doc.domain, doc.directory))

LoadSourcesThrows(tree) ==
    \/ tree.topLevelDomains
    \/ LoadSpecThrows(tree.registry)
    \/ \E doc \in ToSet(ListYamlFiles(tree.files)) :
         \/ doc.unparsable
         \/ \E x \in UNION {ToSet(doc.methods), ToSet(doc.events), ToSet(doc.errors),
                            ToSet(doc.capabilities)} : ~HasId(x)
         \/ \E x \in ToSet(doc.methods) \cup ToSet(doc.events) : ~HasBit(x)
         \/ \E x \in ToSet(doc.legacy) : ~HasLegacyNumbers(x)
         \/ \E s \in ToSet(doc.schemas) : \E f \in ToSet(s.fields) : ~HasId(f)

(* The central lists, each followed by the lists of the domain files. *)
LoadProtocolSources(tree) ==
    LET spec == LoadSpec(tree.registry)
        docs == ListYamlFiles(tree.files)
        With(list, MapDoc(_)) == list \o FlattenSeq(Map(docs, MapDoc))
    IN  [domainRegistry |-> spec.domainRegistry,
         methods        |-> With(spec.methods, LAMBDA d :
                              Map(d.methods, LAMBDA x : MapMethod(x, DefaultDomain(d), "draft"))),
         events         |-> With(spec.events, LAMBDA d :
                              Map(d.events, LAMBDA x : MapEvent(x, DefaultDomain(d), "draft"))),
         errors         |-> With(spec.errors, LAMBDA d :
                              Map(d.errors, LAMBDA x : MapErrorCode(x, DefaultDomain(d), "draft"))),
         capabilities   |-> With(spec.capabilities, LAMBDA d :
                              Map(d.capabilities, LAMBDA x : MapCapability(x, DefaultDomain(d), "draft"))),
         legacyMappings |-> With(spec.legacyMappings, LAMBDA d : Map(d.legacy, MapLegacy)),
         schemas        |-> With(spec.schemas, LAMBDA d : MapSchemas(d.schemas)),
         mvpProfile     |-> spec.mvpProfile,
         protocolMeta   |-> tree.registry.meta,
         profiles       |-> FlattenSeq(Map(docs, LAMBDA d : d.profiles))]
=============================================================================
