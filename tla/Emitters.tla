------------------------------ MODULE Emitters ------------------------------
(* What the generator writes (devtools/generators/src/emitters). A file is    *)
(* what it says: its tables are sets of rows, as their order is that of the   *)
(* numbers in them. Which name becomes which enumerator is a constant.        *)
EXTENDS ProtocolValidator

CONSTANT CppName(_)   \* words in capitals, run together

(* ---- the registries: C++, Dart, TypeScript, JSON and Markdown ---- *)

RegistryLists == {"methods", "events", "errors", "capabilities"}

(* The enumerators of the four lists; the names of the file's other enums do  *)
(* not come from the sources the validators look at.                          *)
EnumBlock(items) == {[name |-> CppName(x.name), id |-> x.id] : x \in ToSet(items)}
EmitIds(spec) == [list \in RegistryLists |-> EnumBlock(spec[list])]

DescribeMethod(m) == [id |-> m.id, name |-> m.name, domain |-> m.domain,
                      request |-> m.requestSchema, response |-> m.responseSchema]
DescribeEvent(e) == [id |-> e.id, name |-> e.name, domain |-> e.domain, payload |-> e.eventSchema]
DescribeError(e) == [id |-> e.id, name |-> e.name, domain |-> e.domain]
DescribeCapability(c) == [id |-> c.id, name |-> c.name, domain |-> c.domain, schema |-> c.schema]
EmitRegistries(spec) ==
    [methods      |-> {DescribeMethod(m) : m \in ToSet(spec.methods)},
     events       |-> {DescribeEvent(e) : e \in ToSet(spec.events)},
     errors       |-> {DescribeError(e) : e \in ToSet(spec.errors)},
     capabilities |-> {DescribeCapability(c) : c \in ToSet(spec.capabilities)}]

(* descriptor.find: the first of the rows, which are sorted by their numbers. *)
FirstById(rows) == CHOOSE r \in rows : \A q \in rows : r.id <= q.id

MethodIdByName(rows, name) ==
    LET found == {r \in rows : r.name = name} IN IF found = {} THEN Undef ELSE FirstById(found).id
MethodById(rows, id) == {r \in rows : r.id = id}

(* MethodRegistry.addMethod, and the registry of all generated methods.       *)
AddMethod(reg, row) ==
    LET names == DOMAIN reg.nameToId
            \ (IF row.id \in DOMAIN reg.idToName THEN {reg.idToName[row.id]} ELSE {})
        ids   == DOMAIN reg.idToName
            \ (IF row.name \in names THEN {reg.nameToId[row.name]} ELSE {})
    IN  [nameToId |-> [n \in names \cup {row.name} |-> IF n = row.name THEN row.id ELSE reg.nameToId[n]],
         idToName |-> [i \in ids \cup {row.id} |-> IF i = row.id THEN row.name ELSE reg.idToName[i]]]
FromGeneratedDefaults(rows) ==
    LET sorted == InOrder(rows, [r \in rows |-> r.id])
        added[n \in 0..Len(sorted)] ==
            IF n = 0 THEN [nameToId |-> <<>>, idToName |-> <<>>]
            ELSE AddMethod(added[n - 1], sorted[n])
    IN  added[Len(sorted)]

EmitTs(spec) == [ids |-> EmitIds(spec), registry |-> EmitRegistries(spec)]
EmitDart(spec) == [ids |-> EmitIds(spec), registry |-> EmitRegistries(spec)]

(* The schemas as C++ descriptors, as field numbers and as structures. *)
EmitSchema(spec) == {[name |-> s.name, fields |-> s.fields] : s \in ToSet(spec.schemas)}
EmitTlvSkeleton(spec) == {[name |-> CppName(s.name), fields |-> NamesOf(s.fields)] : s \in ToSet(spec.schemas)}
EmitCpp(spec) == [ids |-> EmitIds(spec), registry |-> EmitRegistries(spec),
                  schemas |-> EmitSchema(spec), tlv |-> EmitTlvSkeleton(spec)]

(* The types of methods and events by their enumerators. A method or an event *)
(* that names no schema cannot be written: cppName has no name to convert.    *)
EmitMethodTraitsThrows(spec) ==
    \/ \E m \in ToSet(spec.methods) : Undef \in {m.requestSchema, m.responseSchema}
    \/ \E e \in ToSet(spec.events) : e.eventSchema = Undef
EmitMethodTraits(spec) ==
    [methods |-> {[of |-> CppName(m.name), request |-> CppName(m.requestSchema),
                   response |-> CppName(m.responseSchema)] : m \in ToSet(spec.methods)},
     events  |-> {[of |-> CppName(e.name), event |-> CppName(e.eventSchema)] : e \in ToSet(spec.events)}]

EmitJson(spec) == [registry |-> EmitRegistries(spec), schemas |-> ToSet(spec.schemas),
                   legacy |-> ToSet(spec.legacyMappings)]

MethodTable(spec) == EmitRegistries(spec).methods
EventTable(spec) == EmitRegistries(spec).events
ErrorTable(spec) == EmitRegistries(spec).errors
CapabilityTable(spec) == EmitRegistries(spec).capabilities
LegacyTable(spec) == {[protocol |-> x.protocol, cmd |-> x.cmd, methodId |-> x.methodId] :
                        x \in ToSet(spec.legacyMappings)}
EmitMarkdown(spec) ==
    [registry |-> [methods |-> MethodTable(spec), events |-> EventTable(spec),
                   errors |-> ErrorTable(spec), capabilities |-> CapabilityTable(spec)],
     legacy   |-> LegacyTable(spec)]

(* The test vectors are the same whatever the sources say. *)
EmitTestVectors == [vectors |-> {"control_open", "rpc_request", "event", "stream", "crc_error"}]

(* ---- the protocol definition as JSON and as a document ---- *)

ToProtocolJson(model) ==
    [list \in {"wire", "frameProfiles", "transports", "control", "stream", "schemas", "methods",
               "events", "errors", "capabilities", "profiles"} |-> model[list]]

DomainsFor(items) == {x.domain : x \in ToSet(items)}
InDomain(items, domain) == {x \in ToSet(items) : x.domain = domain}

(* The types that the document shows where they are used, or takes for shown. *)
ReferencedTypeNames(model) ==
    UNION {{m.request, m.response} : m \in ToSet(model.methods)}
        \cup {e.payload : e \in ToSet(model.events)}
        \cup {t \in {c.schema : c \in ToSet(model.capabilities)}
                    \cup UNION {UNION {{f.schema, f.itemSchema} : f \in ToSet(s.fields)} :
                                s \in ToSet(model.schemas)} : Truthy(t)}

RenderFields(model, type) ==
    IF type \in NamesOf(model.schemas) THEN ToSet(LastNamed(model.schemas, type).fields) ELSE {}

RenderMethod(model, m) ==
    [name |-> m.name, id |-> m.id, domain |-> m.domain, bitOffset |-> m.bitOffset,
     request |-> RenderFields(model, m.request), response |-> RenderFields(model, m.response)]
RenderEvent(model, e) ==
    [name |-> e.name, id |-> e.id, domain |-> e.domain, bitOffset |-> e.bitOffset,
     payload |-> RenderFields(model, e.payload)]

AdditionalTypes(model) == {s \in ToSet(model.schemas) : s.name \notin ReferencedTypeNames(model)}

RenderMainToc(model) ==
    [methods |-> DomainsFor(model.methods), events |-> DomainsFor(model.events),
     additional |-> AdditionalTypes(model) # {}]

RenderImplementedDomainDirectory(model) ==
    {[domain |-> d, methods |-> Cardinality(InDomain(model.methods, d)),
      events |-> Cardinality(InDomain(model.events, d))] : d \in DomainsFor(model.methods)}

(* Of the framed transports it says that all support control and streams, and *)
(* of the others that all speak JSON only.                                    *)
RenderProtocolFramework(model) ==
    [framed   |-> {t.name : t \in {u \in ToSet(model.transports) : u.frameProfile # "none"}},
     unframed |-> {t.name : t \in {u \in ToSet(model.transports) : u.frameProfile = "none"}}]

(* Each transport's row, where what it says of CONTROL is taken as it is, and *)
(* of STREAM only for framed transports.                                      *)
RenderConnectionProfiles(model) ==
    {[name |-> t.name, encodings |-> t.encodings, control |-> t.control,
      stream |-> IF t.frameProfile = "none" THEN FALSE ELSE t.stream] : t \in ToSet(model.transports)}

RenderCapabilityDiscovery(model) == ToSet(model.capabilities)

RenderProtocolMarkdown(model) ==
    [toc          |-> RenderMainToc(model),
     implemented  |-> RenderImplementedDomainDirectory(model),
     framework    |-> RenderProtocolFramework(model),
     connections  |-> RenderConnectionProfiles(model),
     capabilities |-> RenderCapabilityDiscovery(model),
     methods      |-> [d \in DomainsFor(model.methods) |->
                         {RenderMethod(model, m) : m \in InDomain(model.methods, d)}],
     events       |-> [d \in DomainsFor(model.events) |->
                         {RenderEvent(model, e) : e \in InDomain(model.events, d)}],
     additional   |-> AdditionalTypes(model),
     errors       |-> ToSet(model.errors),
     profiles     |-> ToSet(model.profiles)]
=============================================================================
