--------------------------- MODULE DomainRegistry ---------------------------
(* The values the protocol generator (devtools/generators) passes around, and *)
(* its domain registry: which domain owns which high byte of an identifier.   *)
(*                                                                            *)
(* A name is a string, a list of entries a sequence, a key that a YAML file   *)
(* leaves out the value Undef. A JavaScript Map is a function.                *)
EXTENDS Integers, Sequences, FiniteSets, SequencesExt

CONSTANTS Undef,          \* undefined
          NamePrefix(_),  \* name.split(".")[0]
          Word            \* 2^32, where the operators on bits wrap

(* if (value): neither undefined nor the empty string. *)
Truthy(v) == v \notin {Undef, ""}

(* String(value). *)
Str(v) == IF v = Undef THEN "undefined" ELSE v

(* value ?? other. *)
Or(v, other) == IF v = Undef THEN other ELSE v

NamesOf(s) == {x.name : x \in ToSet(s)}

(* An identifier has two bytes; the shift does not insist on it. *)
ASSUME WordAssumption == Word \in Nat /\ Word >= 4 * 65536

\* Wrong form of HighByte: only the byte itself is looked at.
HighByteMasked(id) == (id \div 256) % 256

(* id >> 8, which takes the identifier for a signed word first. *)
HighByte(id) ==
    LET word == id % Word IN (IF 2 * word < Word THEN word ELSE word - Word) \div 256

IsRegistryHighByte(b) == b > 0 /\ b < 112

(* What addItemDomain hands to addDomain for each entry of a list. *)
AddItemDomain(items) ==
    SelectSeq([i \in DOMAIN items |-> [byte   |-> HighByte(items[i].id),
                                       domain |-> items[i].domain]],
              LAMBDA c : IsRegistryHighByte(c.byte))

(* Adding the candidates one after the other throws: one is no byte, or is    *)
(* given to another domain already. An empty domain does not count as given.  *)
AddDomainThrows(cs) ==
    \E j \in DOMAIN cs :
        \/ cs[j].byte \notin 0..255
        \/ \E i \in DOMAIN cs : /\ i < j
                                /\ cs[i].byte = cs[j].byte
                                /\ Truthy(cs[i].domain)
                                /\ cs[i].domain # cs[j].domain

(* The map the candidates leave: the last one of a byte stays. *)
AddDomain(cs) ==
    [b \in {c.byte : c \in ToSet(cs)} |->
        cs[CHOOSE i \in DOMAIN cs : /\ cs[i].byte = b
                                    /\ \A j \in DOMAIN cs : cs[j].byte = b => j <= i].domain]

(* Map.get. *)
DomainAt(map, b) == IF b \in DOMAIN map THEN map[b] ELSE Undef

DomainByHighByteFromRegistry(ranges) ==
    [i \in DOMAIN ranges |-> [byte |-> ranges[i].highByte, domain |-> ranges[i].domain]]

(* The candidates of a source model: the declared ranges, or else its entries. *)
SourceDomainByHighByte(source) ==
    IF source.domainRegistry # <<>>
    THEN DomainByHighByteFromRegistry(source.domainRegistry)
    ELSE AddItemDomain(source.methods) \o AddItemDomain(source.events)
                                       \o AddItemDomain(source.errors)

(* The map of a protocol model. An error gives its byte to its category only  *)
(* where no method, no event and no earlier error has the byte.               *)
ProtocolDomainByHighByte(model) ==
    LET used == AddDomain(AddItemDomain(model.methods) \o AddItemDomain(model.events))
        errs == model.errors
        free == ({HighByte(e.id) : e \in ToSet(errs)} \cap (1..111)) \ DOMAIN used
    IN  [b \in DOMAIN used \cup free |->
            IF b \in DOMAIN used THEN used[b]
            ELSE errs[CHOOSE i \in DOMAIN errs :
                        /\ HighByte(errs[i].id) = b
                        /\ \A j \in DOMAIN errs : HighByte(errs[j].id) = b => i <= j].category]
=============================================================================
