-------------------------- MODULE ProtocolValidator --------------------------
(* What the generator asks of a protocol definition before it writes anything *)
(* for it (devtools/generators/src/protocolValidator.ts), and whether the     *)
(* prose specification agrees with it (protocolDocsValidator.ts).             *)
EXTENDS ProtocolModel, SourceValidator

AssertUnique(items) ==
    AssertUniqueIds(items) /\ UniqueKey(items, LAMBDA x : x.name)

AssertNoForbiddenKeys(raw) ==
    {"bitmapId", "requests", "requiredRequests"}
        \cap UNION ({raw.meta.keys} \cup {p.keys : p \in ToSet(raw.profiles)}) = {}

AssertNoUnsupportedProfileKeys(raw) ==
    \A p \in ToSet(raw.profiles) : "requiredCapabilities" \notin p.keys

(* As AssertDomainBitOffsets, and no entry hides its twin. *)
AssertDomainBits(items) ==
    /\ \A i, j \in DOMAIN items :
         i # j /\ items[i].domain = items[j].domain => items[i].bitOffset # items[j].bitOffset
    /\ \A x \in ToSet(items) :
         /\ x.bitOffset >= 0
         /\ \A b \in 0..(x.bitOffset - 1) :
              \E y \in ToSet(items) : y.domain = x.domain /\ y.bitOffset = b

AssertDomainName(x) == NamePrefix(x.name) = x.domain

AssertMethodReferences(model) ==
    \A m \in ToSet(model.methods) :
        /\ AssertDomainName(m)
        /\ Truthy(m.description)
        /\ {m.request, m.response} \subseteq NamesOf(model.schemas)
        /\ m.events \subseteq NamesOf(model.events)
        /\ m.errors \subseteq NamesOf(model.errors)
        /\ m.capabilities \subseteq NamesOf(model.capabilities)

AssertEventReferences(model) ==
    \A e \in ToSet(model.events) :
        /\ AssertDomainName(e)
        /\ e.payload \in NamesOf(model.schemas)
        /\ e.capabilities \subseteq NamesOf(model.capabilities)

AssertCapabilityReferences(model) ==
    \A c \in ToSet(model.capabilities) :
        AssertDomainName(c) /\ AssertKnownSchema(c.schema, NamesOf(model.schemas))

(* The methods of a domain have one high byte, and its events have it too. *)
AssertDomainIdAlignment(model) ==
    \A m \in ToSet(model.methods) : \A x \in ToSet(model.methods) \cup ToSet(model.events) :
        x.domain = m.domain => HighByte(x.id) = HighByte(m.id)

AssertSchemaDefinitions(schemas) ==
    LET names == NamesOf(schemas)
    IN  \A s \in ToSet(schemas) :
            /\ s.kind \in {"object", "enum", "bitmap", "alias", "bytes"}
            /\ s.kind = "object" =>
                 /\ AssertUniqueIds(s.fields)
                 /\ \A f \in ToSet(s.fields) :
                      /\ f.id \in 1..255
                      /\ f.type \in Builtins \cup names
                      /\ AssertKnownSchema(f.schema, names)
                      /\ AssertKnownSchema(f.itemSchema, names)
                      /\ AssertKnownFieldItemType(f.itemType, names)

AssertEmptySchemaUsage(model) ==
    /\ "Empty" \in NamesOf(model.schemas)
    /\ LET empty == LastNamed(model.schemas, "Empty")
       IN  empty.kind = "object" /\ empty.fields = <<>>
    /\ \A m \in ToSet(model.methods) :
         \A type \in {m.request, m.response} \cap NamesOf(model.schemas) :
             LastNamed(model.schemas, type).fields = <<>> => type = "Empty"

AllowedErrorCategories(code, domainByHighByte) ==
    LET byte   == HighByte(code)
        domain == DomainAt(domainByHighByte, byte)
    IN  CASE code <= 255         -> {"common", "frame", "control", "rpc"}
          [] code > 255 /\ Truthy(domain) -> {domain}
          [] byte \in 112..126   -> {"vendor"}
          [] byte = 127          -> {"legacy"}
          [] OTHER               -> {}

AssertErrorRanges(errors, domainByHighByte) ==
    \A e \in ToSet(errors) : e.category \in AllowedErrorCategories(e.id, domainByHighByte)

StreamHeaderFields == <<<<"streamId", "uint32">>, <<"seqId", "uint32">>, <<"cursor", "uint64">>>>
AssertStreamHeader(stream) == stream.size = 16 /\ stream.fields = StreamHeaderFields

AssertWireByteOrder(wire) ==
    wire.byteOrder = "big-endian" /\ wire.byteOrderAlias = "network"
        /\ wire.crcByteOrder = "big-endian" /\ wire.integerEncoding = "big-endian"

(* What the control section must and must not list, by both validators. *)
RequiredOpcodes(control) ==
    /\ {"OPEN", "ACCEPT", "HEARTBEAT", "HEARTBEAT_ACK", "CLOSE", "CLOSE_ACK"} \subseteq control.required
    /\ {"READY", "ACK", "NACK"} \cap control.required = {}
    /\ {"READY", "ACK", "NACK"} \subseteq control.optional
AssertControlOpcodes(control) ==
    /\ RequiredOpcodes(control)
    /\ {"ACK", "NACK", "RESUME", "HEARTBEAT", "HEARTBEAT_ACK", "CLOSE", "CLOSE_ACK"}
         \cap control.reserved = {}

(* Names that start with COMPACT_, or have HID-64 in them. *)
Compact == {"COMPACT_FRAME"}
Hid64 == {"AXTP-HID-64"}

AssertCurrentTransportPolicy(model) ==
    /\ ToSet(model.frameProfiles) \cap Compact = {}
    /\ \A t \in ToSet(model.transports) :
         /\ t.name \notin Hid64
         /\ IF t.frameProfile = "none"
            THEN t.control = FALSE /\ t.stream = FALSE /\ t.encodings = <<"JSON">>
            ELSE /\ t.frameProfile = "STANDARD_FRAME"
                 /\ t.control = TRUE /\ t.stream = TRUE
                 /\ {"JSON", "CBOR", "MSGPACK", "JSON_BINARY"} \subseteq ToSet(t.encodings)
    /\ \A p \in ToSet(model.profiles) :
         p.transportProfiles \cap Hid64 = {} /\ ({p.frameProfile} \cup p.frameProfiles) \cap Compact = {}

(* The optional answer that lists the supported methods masks them by their bits. *)
AssertYamlCapability(model) ==
    \A s \in ToSet(model.schemas) : s.name = "CapabilitySupportedMethodsResponse" =>
        \E i \in DOMAIN s.fields : /\ s.fields[i].name = "methodMasks"
                                   /\ s.fields[i].derivedFrom = "methods[].bitOffset"
                                   /\ \A j \in 1..(i - 1) : s.fields[j].name # "methodMasks"

TransportFrameProfiles(model) ==
    \A t \in ToSet(model.transports) : t.frameProfile \in ToSet(model.frameProfiles) \cup {"none"}

(* What a profile requires exists, and its frame profiles are those its       *)
(* transports use.                                                            *)
ProfileReferences(model) ==
    \A p \in ToSet(model.profiles) :
        LET known == ToSet(model.frameProfiles)
            used  == {t.frameProfile : t \in {u \in ToSet(model.transports) :
                                                u.name \in p.transportProfiles}}
                     \ {"none", ""}
        IN  /\ p.requiredMethods \subseteq NamesOf(model.methods)
            /\ p.requiredEvents \subseteq NamesOf(model.events)
            /\ p.requiredErrors \subseteq NamesOf(model.errors)
            /\ p.requiredTypes \subseteq NamesOf(model.schemas)
            /\ p.transportProfiles \subseteq NamesOf(model.transports)
            /\ Truthy(p.frameProfile) => used \subseteq {p.frameProfile} /\ p.frameProfile \in known
            /\ p.frameProfiles \subseteq known
            /\ p.frameProfiles # {} => p.frameProfiles = used

ValidateProtocolDefinition(model) ==
    /\ ~AddDomainThrows(AddItemDomain(model.methods) \o AddItemDomain(model.events))
    /\ AssertNoForbiddenKeys(model.raw)
    /\ AssertNoUnsupportedProfileKeys(model.raw)
    /\ AssertWireByteOrder(model.wire)
    /\ AssertStreamHeader(model.stream)
    /\ AssertControlOpcodes(model.control)
    /\ AssertUnique(model.methods) /\ AssertUnique(model.events)
    /\ AssertUnique(model.errors) /\ AssertUnique(model.capabilities)
    /\ UniqueKey(model.schemas, LAMBDA s : s.name)
    /\ UniqueKey(model.transports, LAMBDA t : t.name)
    /\ UniqueKey(model.profiles, LAMBDA p : p.name)
    /\ AssertDomainBits(model.methods) /\ AssertDomainBits(model.events)
    /\ AssertDomainIdAlignment(model)
    /\ AssertSchemaDefinitions(model.schemas)
    /\ AssertEmptySchemaUsage(model)
    /\ AssertErrorRanges(model.errors, ProtocolDomainByHighByte(model))
    /\ AssertCurrentTransportPolicy(model)
    /\ AssertCapabilityReferences(model)
    /\ AssertMethodReferences(model)
    /\ AssertEventReferences(model)
    /\ AssertYamlCapability(model)
    /\ TransportFrameProfiles(model)
    /\ ProfileReferences(model)

(* The facts the prose specification must state; "docs" is the set of facts   *)
(* it does state, and Undef when one of its files cannot be read.             *)
DocFacts == {"wire order", "stream header", "stream order", "codec order", "open accept",
             "heartbeat", "close", "ready is optional", "no ack in phase 1"}

ValidateProtocolDocsConsistency(model, docs) ==
    /\ docs # Undef /\ DocFacts \subseteq docs
    /\ model.wire.byteOrder = "big-endian" /\ model.wire.byteOrderAlias = "network"
    /\ AssertStreamHeader(model.stream)
    /\ RequiredOpcodes(model.control)
    /\ AssertYamlCapability(model)
=============================================================================
