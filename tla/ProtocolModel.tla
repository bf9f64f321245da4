---------------------------- MODULE ProtocolModel ----------------------------
(* The protocol definition: what is built from a source model                 *)
(* (devtools/generators/src/protocolBuilder.ts), written as a YAML file, and  *)
(* read back from such a file or from what was built (protocolLoader.ts).     *)
(*                                                                            *)
(* The meta data of a definition is a record of the sections the validators   *)
(* look at; its "keys" are those the loader does not know, found anywhere in  *)
(* it, and "missing" the sections that are no objects.                        *)
EXTENDS SourceLoader

ProtocolStatus(status) == IF status = "mvp" THEN "stable" ELSE status

EmptySchemaNames(schemas) == {s.name : s \in {t \in ToSet(schemas) : t.fields = <<>>}}

SchemaRef(name, emptyNames) == IF ~Truthy(name) \/ name \in emptyNames THEN "Empty" ELSE name

(* Only an array keeps what is said of its elements; either way of saying it  *)
(* stands in for the other.                                                   *)
FieldToTypeField(f) ==
    LET itemSchema == Or(f.itemSchema, f.schema)
        isArray    == f.type = "array" \/ f.repeated
    IN  [f EXCEPT !.itemType = IF isArray THEN Or(@, itemSchema) ELSE Undef,
                  !.itemSchema = IF isArray THEN itemSchema ELSE Undef]

(* Schemas without fields go, and all that is left of them is Empty. *)
BuildSchemas(schemas) ==
    LET kept == FlattenSeq(Map(schemas, LAMBDA s : IF s.fields = <<>> THEN <<>> ELSE <<s>>))
    IN  (IF "Empty" \in NamesOf(kept) THEN <<>>
         ELSE <<[name |-> "Empty", kind |-> "object", fields |-> <<>>]>>)
        \o Map(kept, LAMBDA s : [s EXCEPT !.fields = Map(@, FieldToTypeField)])

MethodToProtocol(m, emptyNames) ==
    [id |-> m.id, bitOffset |-> m.bitOffset, name |-> m.name, domain |-> m.domain,
     status |-> ProtocolStatus(m.status), description |-> m.description,
     request |-> SchemaRef(m.requestSchema, emptyNames),
     response |-> SchemaRef(m.responseSchema, emptyNames),
     capabilities |-> m.capabilities, events |-> m.events, errors |-> m.errors]

EventToProtocol(e, emptyNames) ==
    [id |-> e.id, bitOffset |-> e.bitOffset, name |-> e.name, domain |-> e.domain,
     status |-> ProtocolStatus(e.status), payload |-> SchemaRef(e.eventSchema, emptyNames),
     capabilities |-> e.capabilities]

(* A loaded error always has a domain, so its category is never worked out    *)
(* from its code.                                                             *)
ErrorToProtocol(e) ==
    [id |-> e.id, name |-> e.name, category |-> Or(e.category, e.domain),
     status |-> ProtocolStatus(e.status)]

CapabilityToProtocol(c) == [c EXCEPT !.status = ProtocolStatus(@)]

Profile(name, mvp, transports, frameProfile, frameProfiles) ==
    [name |-> name, requiredMethods |-> mvp.methods, requiredEvents |-> mvp.events,
     requiredErrors |-> mvp.errors, requiredTypes |-> {}, transportProfiles |-> transports,
     frameProfile |-> frameProfile, frameProfiles |-> frameProfiles, keys |-> {}]

DefaultProfiles(source) ==
    <<Profile("AXTP-MVP", source.mvpProfile,
              {"AXTP-USB-HID", "AXTP-TCP", "AXTP-WS-JSON", "AXTP-WS-CLOUD-REVERSE"},
              Undef, {"STANDARD_FRAME"}),
      Profile("AXTP-MVP-HID", source.mvpProfile, {"AXTP-USB-HID"}, "STANDARD_FRAME", {})>>

(* The definition keeps the meta data, and takes its lists from the sources. *)
BuildProtocolDefinitionRaw(source) ==
    LET emptyNames == EmptySchemaNames(source.schemas)
    IN  [meta         |-> source.protocolMeta,
         schemas      |-> BuildSchemas(source.schemas),
         methods      |-> Map(source.methods, LAMBDA m : MethodToProtocol(m, emptyNames)),
         events       |-> Map(source.events, LAMBDA e : EventToProtocol(e, emptyNames)),
         errors       |-> Map(source.errors, ErrorToProtocol),
         capabilities |-> Map(source.capabilities, CapabilityToProtocol),
         profiles     |-> DefaultProfiles(source) \o source.profiles]

RequiredSections ==
    {"protocol", "overview", "architecture", "wire", "control", "stream", "compatibility"}

(* A section is missing, or an entry without a number. *)
LoadProtocolThrows(raw) ==
    \/ raw.meta.missing \cap RequiredSections # {}
    \/ \E x \in ToSet(raw.methods) \cup ToSet(raw.events) : ~HasId(x) \/ ~HasBit(x)
    \/ \E x \in ToSet(raw.errors) \cup ToSet(raw.capabilities) : ~HasId(x)
    \/ \E s \in ToSet(raw.schemas) : \E f \in ToSet(s.fields) : ~HasId(f)

(* What the loader fills in where a definition says nothing. *)
MapMethods(methods) ==
    Map(methods, LAMBDA m : [m EXCEPT !.name = Str(@), !.domain = Str(@), !.status = Or(@, "draft"),
                                      !.request = Or(@, ""), !.response = Or(@, "")])
MapEvents(events) ==
    Map(events, LAMBDA e : [e EXCEPT !.name = Str(@), !.domain = Str(@), !.status = Or(@, "draft"),
                                     !.payload = Or(@, "")])
MapErrors(errors) ==
    Map(errors, LAMBDA e : [e EXCEPT !.name = Str(@), !.category = Str(@), !.status = Or(@, "draft")])
MapCapabilities(capabilities) ==
    Map(capabilities, LAMBDA c : [c EXCEPT !.name = Str(@), !.domain = Str(@), !.status = Or(@, "draft")])
MapTypes(schemas) ==
    Map(schemas, LAMBDA s : [s EXCEPT !.kind = Or(@, "object"), !.fields = Map(@, MapField)])
MapProfiles(profiles) == Map(profiles, LAMBDA p : [p EXCEPT !.name = Str(@)])
MapTransports(transports) ==
    Map(transports, LAMBDA t : [t EXCEPT !.name = Str(@), !.frameProfile = Str(@)])
MapWire(wire) ==
    [wire EXCEPT !.byteOrder = Str(@), !.integerEncoding = Str(@), !.crcByteOrder = Str(@)]
MapControl(control) == control
MapStream(stream) ==
    [stream EXCEPT !.fields = Map(@, LAMBDA f : <<Str(f[1]), Str(f[2])>>)]

LoadProtocolDefinitionFromRaw(raw) ==
    [raw           |-> raw,
     wire          |-> MapWire(raw.meta.wire),
     frameProfiles |-> Map(raw.meta.frameProfiles, Str),
     transports    |-> MapTransports(raw.meta.transports),
     control       |-> MapControl(raw.meta.control),
     stream        |-> MapStream(raw.meta.stream),
     schemas       |-> MapTypes(raw.schemas),
     methods       |-> MapMethods(raw.methods),
     events        |-> MapEvents(raw.events),
     errors        |-> MapErrors(raw.errors),
     capabilities  |-> MapCapabilities(raw.capabilities),
     profiles      |-> MapProfiles(raw.profiles)]
=============================================================================
