--------------------------- MODULE SourceValidator ---------------------------
(* What the generator asks of a source model before it builds anything from   *)
(* it (devtools/generators/src/validator.ts). Every assertion of the code     *)
(* that throws is the negation of a predicate here.                           *)
EXTENDS DomainRegistry

(* No two entries have the same key. A look-up that finds an entry without a  *)
(* name counts as having found nothing, so such an entry hides its twin.      *)
UniqueKey(items, Key(_)) ==
    \A i, j \in DOMAIN items :
        i < j /\ Key(items[i]) = Key(items[j]) => ~Truthy(items[i].name)

AssertUniqueIds(items) == UniqueKey(items, LAMBDA x : x.id)

AssertUniqueNames(items) ==
    \A i, j \in DOMAIN items : i # j => items[i].name # items[j].name

AssertSchemaFields(schema) == AssertUniqueIds(schema.fields) /\ AssertUniqueNames(schema.fields)

(* The bits of each domain's entries are those from 0 up without a gap. *)
AssertDomainBitOffsets(items) ==
    /\ \A x \in ToSet(items) : x.bitOffset \in Nat
    /\ \A i, j \in DOMAIN items :
         i < j /\ items[i].domain = items[j].domain /\ items[i].bitOffset = items[j].bitOffset
             => ~Truthy(items[i].name)
    /\ \A x \in ToSet(items) : \A b \in 0..(x.bitOffset - 1) :
         \E y \in ToSet(items) : y.domain = x.domain /\ y.bitOffset = b

AssertRegistryDomainRanges(items, zeroByte, domainByHighByte) ==
    \A x \in ToSet(items) :
        LET byte     == HighByte(x.id)
            expected == DomainAt(domainByHighByte, byte)
        IN  IF Truthy(expected) THEN x.domain = expected
            ELSE \/ byte = 0 /\ x.domain \in zeroByte
                 \/ byte \in 112..126 /\ x.domain = "vendor"
                 \/ byte = 127 /\ x.domain = "legacy"

AssertKnownSchema(schema, schemas) == Truthy(schema) => schema \in schemas

Builtins == {"bool", "uint8", "uint16", "uint32", "uint64", "int8", "int16", "int32",
             "int64", "number", "string", "bytes", "enum", "bitmap", "array"}
AssertKnownFieldItemType(type, schemas) == Truthy(type) => type \in Builtins \cup schemas

(* Map.get over entries of one name: the last of them. *)
LastNamed(items, name) ==
    items[CHOOSE i \in DOMAIN items : /\ items[i].name = name
                                      /\ \A j \in DOMAIN items : items[j].name = name => j <= i]

(* No method refers to a reserved entry; one that does not exist passes. *)
AssertReservedReferences(spec) ==
    \A m \in ToSet(spec.methods) :
        \A ref \in {<<m.capabilities, spec.capabilities>>, <<m.events, spec.events>>,
                    <<m.errors, spec.errors>>} :
            \A name \in ref[1] \cap NamesOf(ref[2]) : LastNamed(ref[2], name).status # "reserved"

AssertMvpItems(actual, required) == required \subseteq NamesOf(actual)

AssertLegacyMappings(spec) ==
    /\ UniqueKey(spec.legacyMappings, LAMBDA x : <<x.protocol, x.cmd>>)
    /\ \A x \in ToSet(spec.legacyMappings) :
         /\ \E m \in ToSet(spec.methods) : m.id = x.methodId
         /\ x.statuses \subseteq NamesOf(spec.errors)

(* The schemas that methods, events, capabilities and fields name are there. *)
SchemasAreKnown(spec) ==
    LET schemas == NamesOf(spec.schemas)
    IN  /\ \A m \in ToSet(spec.methods) : /\ AssertKnownSchema(m.requestSchema, schemas)
                                          /\ AssertKnownSchema(m.responseSchema, schemas)
        /\ \A e \in ToSet(spec.events) : AssertKnownSchema(e.eventSchema, schemas)
        /\ \A c \in ToSet(spec.capabilities) : AssertKnownSchema(c.schema, schemas)
        /\ \A s \in ToSet(spec.schemas) : \A f \in ToSet(s.fields) :
             /\ AssertKnownSchema(f.schema, schemas)
             /\ AssertKnownSchema(f.itemSchema, schemas)
             /\ AssertKnownFieldItemType(f.itemType, schemas)
             /\ f.type = "array" => \E v \in {f.schema, f.itemType, f.itemSchema} : Truthy(v)

ValidateSpec(spec) ==
    LET candidates == SourceDomainByHighByte(spec)
        map        == AddDomain(candidates)
    IN  /\ ~AddDomainThrows(candidates)
        /\ AssertUniqueIds(spec.methods) /\ AssertUniqueNames(spec.methods)
        /\ AssertUniqueIds(spec.events) /\ AssertUniqueNames(spec.events)
        /\ AssertRegistryDomainRanges(spec.methods, {}, map)
        /\ AssertRegistryDomainRanges(spec.events, {}, map)
        /\ AssertDomainBitOffsets(spec.methods)
        /\ AssertDomainBitOffsets(spec.events)
        /\ AssertUniqueIds(spec.errors) /\ AssertUniqueNames(spec.errors)
        /\ AssertUniqueIds(spec.capabilities) /\ AssertUniqueNames(spec.capabilities)
        /\ AssertRegistryDomainRanges(spec.errors, {"common", "frame", "control", "rpc"}, map)
        /\ AssertRegistryDomainRanges(spec.capabilities, {"protocol", "common", "reserved"}, map)
        /\ AssertUniqueNames(spec.schemas)
        /\ \A s \in ToSet(spec.schemas) : AssertSchemaFields(s)
        /\ SchemasAreKnown(spec)
        /\ AssertReservedReferences(spec)
        /\ AssertMvpItems(spec.methods, spec.mvpProfile.methods)
        /\ AssertMvpItems(spec.events, spec.mvpProfile.events)
        /\ AssertMvpItems(spec.errors, spec.mvpProfile.errors)
        /\ AssertMvpItems(spec.capabilities, spec.mvpProfile.capabilities)
        /\ AssertLegacyMappings(spec)
=============================================================================
