--------------------------- MODULE MethodRegistry ---------------------------
(***************************************************************************)
(* MethodRegistry (src/axtp_runtime/generated/registry.py): two            *)
(* dictionaries that name methods by id and find ids by name.              *)
(***************************************************************************)
EXTENDS Functions

CONSTANTS Ids, Names

VARIABLES
    idToName,  \* _id_to_name
    nameToId   \* _name_to_id

vars == <<idToName, nameToId>>

Empty == [x \in {} |-> x]

Init == idToName = Empty /\ nameToId = Empty

\* dict.pop(key, None) and dict[key] = value
Without(f, key) == Restrict(f, DOMAIN f \ {key})
With(f, key, value) == [x \in DOMAIN f \cup {key} |-> IF x = key THEN value ELSE f[x]]

\* The names left when the name an id had is dropped, and the ids left when the
\* id a name then has is dropped.
NamesWithoutId(id) ==
    IF id \in DOMAIN idToName THEN Without(nameToId, idToName[id]) ELSE nameToId

\* Wrong form of IdsWithoutName: what the name meant before stays.
IdsKept(name, names) == idToName

IdsWithoutName(name, names) ==
    IF name \in DOMAIN names THEN Without(idToName, names[name]) ELSE idToName

\* add_method
AddMethod(id, name) ==
    LET names == NamesWithoutId(id) IN
    /\ nameToId' = With(names, name, id)
    /\ idToName' = With(IdsWithoutName(name, names), id, name)

Next == \E id \in Ids, name \in Names : AddMethod(id, name)

Spec == Init /\ [][Next]_vars
-----------------------------------------------------------------------------
(* Properties *)

\* The dictionaries hold ids and names, and each is the inverse of the other,
\* whatever ids and names were used before: a method found by its name is the one
\* that has this name (add_method).
Inverses ==
    /\ DOMAIN idToName \subseteq Ids /\ DOMAIN nameToId \subseteq Names
    /\ \A id \in DOMAIN idToName :
          idToName[id] \in DOMAIN nameToId /\ nameToId[idToName[id]] = id
    /\ \A name \in DOMAIN nameToId :
          nameToId[name] \in DOMAIN idToName /\ idToName[nameToId[name]] = name
=============================================================================
