------------------------------ MODULE MCGenerator ------------------------------
(* Small source trees for Generator: a sound one, one with the same entries   *)
(* placed otherwise, and one tree for every way of being unsound.             *)
EXTENDS Generator

MCWord == 4 * 65536

MCNamePrefix(n) ==
    CASE n \in {"audio.play", "audio.Play", "audio.stop", "audio.done", "audio.level"} -> "audio"
      [] n = "video.show" -> "video"
      [] OTHER -> n
MCCppName(n) == IF n = "audio.Play" THEN "audio.play" ELSE n

Method(id, bit, name, request, response) ==
    [id |-> id, bitOffset |-> bit, name |-> name, domain |-> "audio", status |-> "mvp",
     description |-> "text", requestSchema |-> request, responseSchema |-> response,
     capabilities |-> {}, events |-> {}, errors |-> {}]
Play == [Method(256, 0, "audio.play", "Playlist", "Nothing")
            EXCEPT !.capabilities = {"audio.level"}, !.events = {"audio.done"}, !.errors = {"OK"}]
Stop == [Method(257, 1, "audio.stop", Undef, "Volume") EXCEPT !.requestSchema = "Nothing",
            !.domain = Undef, !.status = Undef]
Done == [id |-> 272, bitOffset |-> 0, name |-> "audio.done", domain |-> "audio",
         status |-> "mvp", eventSchema |-> "Volume", capabilities |-> {}]
OK == [id |-> 0, name |-> "OK", domain |-> "common", status |-> Undef, category |-> Undef]
Busy == [id |-> 258, name |-> "BUSY", domain |-> "audio", status |-> "mvp", category |-> Undef]
Level == [id |-> 259, name |-> "audio.level", domain |-> "audio", status |-> "mvp",
          schema |-> "Volume"]
Old == [protocol |-> "old", cmd |-> 1, name |-> "PLAY", methodId |-> 256, statuses |-> {"OK"}]

Field(id, name, type) ==
    [id |-> id, name |-> name, type |-> type, schema |-> Undef, itemType |-> Undef,
     itemSchema |-> Undef, derivedFrom |-> Undef, repeated |-> FALSE]
Volume == [name |-> "Volume", kind |-> Undef, fields |-> <<Field(1, "level", "uint8")>>]
Nothing == [name |-> "Nothing", kind |-> "object", fields |-> <<>>]
Playlist == [name |-> "Playlist", kind |-> "object",
             fields |-> <<[Field(1, "volumes", "array") EXCEPT !.itemSchema = "Volume"]>>]

Extra == [name |-> "EXTRA", requiredMethods |-> {"audio.stop"}, requiredEvents |-> {},
          requiredErrors |-> {}, requiredTypes |-> {"Volume"}, transportProfiles |-> {"AXTP-TCP"},
          frameProfile |-> "STANDARD_FRAME", frameProfiles |-> {}, keys |-> {}]

Framed(name) == [name |-> name, frameProfile |-> "STANDARD_FRAME", control |-> TRUE,
                 stream |-> TRUE, encodings |-> <<"JSON", "CBOR", "MSGPACK", "JSON_BINARY">>]
Unframed(name) == [name |-> name, frameProfile |-> "none", control |-> FALSE, stream |-> FALSE,
                   encodings |-> <<"JSON">>]
Meta ==
    [keys |-> {}, missing |-> {},
     wire |-> [byteOrder |-> "big-endian", byteOrderAlias |-> "network",
               crcByteOrder |-> "big-endian", integerEncoding |-> "big-endian"],
     control |-> [required |-> {"OPEN", "ACCEPT", "HEARTBEAT", "HEARTBEAT_ACK", "CLOSE", "CLOSE_ACK"},
                  optional |-> {"READY", "ACK", "NACK"}, reserved |-> {}],
     stream |-> [size |-> 16, fields |-> StreamHeaderFields],
     frameProfiles |-> <<"STANDARD_FRAME">>,
     transports |-> <<Framed("AXTP-USB-HID"), Framed("AXTP-TCP"), Unframed("AXTP-WS-JSON"),
                      Unframed("AXTP-WS-CLOUD-REVERSE")>>]

File(methods, schemas) ==
    [yaml |-> TRUE, unparsable |-> FALSE, domain |-> Undef, directory |-> "audio",
     methods |-> methods, events |-> <<>>, errors |-> <<Busy>>, capabilities |-> <<Level>>,
     legacy |-> <<>>, schemas |-> schemas, profiles |-> <<Extra>>]
Notes == [File(<<>>, <<>>) EXCEPT !.yaml = FALSE]

Base ==
    [topLevelDomains |-> FALSE,
     registry |-> [absent |-> {"error_registry.yaml"}, unparsable |-> {},
                   domains |-> <<[highByte |-> 1, domain |-> "audio"],
                                 [highByte |-> 2, domain |-> "video"]>>,
                   methods |-> <<Play>>, events |-> <<Done>>, errors |-> <<OK>>,
                   capabilities |-> <<>>, legacy |-> <<Old>>, schemas |-> <<Volume, Nothing>>,
                   mvp |-> [methods |-> {"audio.play"}, events |-> {}, errors |-> {"OK"},
                            capabilities |-> {}],
                   meta |-> Meta],
     files |-> (1 :> File(<<Stop>>, <<Playlist>>) @@ 2 :> Notes),
     docs |-> DocFacts]

(* The same entries, the second method in the registry and under another      *)
(* number.                                                                    *)
Moved == [Base EXCEPT !.registry.methods = <<Play, [Stop EXCEPT !.id = 260, !.domain = "audio"]>>,
                      !.files[1].methods = <<>>]

InRegistry(methods) == [Base EXCEPT !.registry.methods = methods]
InFile(methods) == [Base EXCEPT !.files[1].methods = methods]

(* Trees with an unnamed entry; without declared ranges, without a schema     *)
(* for a request, and with a number beyond a word; and without the prose: not *)
(* all commands reject them.                                                  *)
Unnamed == InFile(<<[Stop EXCEPT !.name = ""], [Stop EXCEPT !.name = "audio.Play", !.bitOffset = 2]>>)
Loose == [InFile(<<[Stop EXCEPT !.requestSchema = Undef, !.id = Word + 257]>>)
            EXCEPT !.registry.absent = @ \cup {"domain_registry.yaml"}]
NoProse == [Base EXCEPT !.docs = Undef]

(* Trees that every command that reads them rejects. *)
Broken ==
    {[Base EXCEPT !.registry.absent = {"protocol_meta.yaml"}],
     [Base EXCEPT !.files[1].unparsable = TRUE],
     InFile(<<[Stop EXCEPT !.id = 256]>>),                    \* a number twice
     InFile(<<[Stop EXCEPT !.name = "audio.play"]>>),         \* a name twice
     InFile(<<[Stop EXCEPT !.bitOffset = Undef]>>),           \* a method without a bit
     InFile(<<[Stop EXCEPT !.bitOffset = 2]>>),               \* a gap in the bits
     InFile(<<[Stop EXCEPT !.id = 513]>>),                    \* the range of another domain
     InFile(<<[Stop EXCEPT !.id = 65536 + 257]>>),            \* more than two bytes
     InFile(<<[Stop EXCEPT !.responseSchema = "Gone"]>>),
     [Base EXCEPT !.files[1].capabilities[1].status = "reserved"],
     [Base EXCEPT !.registry.legacy[1].methodId = 999]}

(* Trees that pass as sources, and whose definition is rejected. *)
Refused ==
    {[Base EXCEPT !.registry.meta.missing = {"compatibility"}],
     [Base EXCEPT !.registry.meta.keys = {"bitmapId"}],
     [Base EXCEPT !.registry.meta.stream.size = 12],
     [Base EXCEPT !.registry.meta.transports[3].stream = TRUE],
     InRegistry(<<[Play EXCEPT !.events = {"audio.gone"}]>>),
     InFile(<<[Stop EXCEPT !.name = "video.show"]>>),
     [Base EXCEPT !.files[1].profiles[1].requiredMethods = {"audio.gone"}]}

MCTrees == {Base, Unnamed, Loose, NoProse} \cup Broken \cup Refused
MCSavedTrees == {Moved}

Built == BuildProtocolDefinitionRaw(LoadProtocolSources(Base))
MCDefinitions ==
    {[Built EXCEPT !.meta.missing = {"compatibility"}],
     [Built EXCEPT !.methods = <<@[1], [@[2] EXCEPT !.response = "Gone"]>>],
     [Built EXCEPT !.methods = <<@[1], [@[2] EXCEPT !.status = Undef]>>]}

MCCommands ==
    {"generate", "generate --out", "generate-registry", "generate-registry --out", "build-protocol",
     "emit-protocol", "generate-protocol", "doc", "test-vector", "validate", "validate-sources",
     "validate-protocol"}
MCTogether ==
    LET some == {"generate-registry", "build-protocol", "emit-protocol"} IN some \X some
MCLater ==
    {"generate", "build-protocol"}
        \X {"generate", "generate-registry", "emit-protocol", "validate-protocol"}

Symmetry == Permutations(Procs)
=============================================================================
