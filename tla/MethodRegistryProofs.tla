------------------------ MODULE MethodRegistryProofs ------------------------
(***************************************************************************)
(* The two dictionaries of MethodRegistry are each other's inverse, for    *)
(* any ids and names.  Inverses is inductive as it stands.                 *)
(***************************************************************************)
EXTENDS MethodRegistry, TLAPS

\* What is left of inverse dictionaries when the new id's name and the new name's
\* id are dropped: the pairs that share neither the id nor the name.
LEMMA DropFacts ==
    ASSUME NEW id, NEW name, Inverses
    PROVE  LET names == NamesWithoutId(id)
               ids == IdsWithoutName(name, names)
           IN  /\ \A n : n \in DOMAIN names <=> n \in DOMAIN nameToId /\ nameToId[n] # id
               /\ \A n \in DOMAIN names : names[n] = nameToId[n]
               /\ \A i \in DOMAIN ids : i \in DOMAIN idToName /\ ids[i] = idToName[i]
               /\ \A i : i \in DOMAIN idToName /\ i # id =>
                            (i \in DOMAIN ids <=> idToName[i] # name)
  <1> DEFINE names == NamesWithoutId(id)
             ids == IdsWithoutName(name, names)
  <1>1. /\ \A n : n \in DOMAIN names <=> n \in DOMAIN nameToId /\ nameToId[n] # id
        /\ \A n \in DOMAIN names : names[n] = nameToId[n]
    <2>1. CASE id \in DOMAIN idToName
      <3>1. names = Without(nameToId, idToName[id])
        BY <2>1 DEF NamesWithoutId
      <3>2. \A n \in DOMAIN nameToId : n = idToName[id] <=> nameToId[n] = id
        BY <2>1 DEF Inverses
      <3> QED BY <3>1, <3>2 DEF Without, Restrict
    <2>2. CASE id \notin DOMAIN idToName
      BY <2>2 DEF NamesWithoutId, Inverses
    <2> QED BY <2>1, <2>2
  <1>2. /\ \A i \in DOMAIN ids : i \in DOMAIN idToName /\ ids[i] = idToName[i]
        /\ \A i : i \in DOMAIN idToName /\ i # id => (i \in DOMAIN ids <=> idToName[i] # name)
    <2> HIDE DEF names
    <2>1. CASE name \in DOMAIN names
      <3>1. ids = Without(idToName, names[name])
        BY <2>1 DEF IdsWithoutName
      <3>2. names[name] = nameToId[name] /\ name \in DOMAIN nameToId
        BY <1>1, <2>1
      <3>3. \A i \in DOMAIN idToName : i = nameToId[name] <=> idToName[i] = name
        BY <3>2 DEF Inverses
      <3> QED BY <3>1, <3>2, <3>3 DEF Without, Restrict
    <2>2. CASE name \notin DOMAIN names
      <3>1. ids = idToName
        BY <2>2 DEF IdsWithoutName
      <3>2. \A i \in DOMAIN idToName : i # id => idToName[i] # name
        BY <1>1, <2>2 DEF Inverses
      <3> QED BY <3>1, <3>2
    <2> QED BY <2>1, <2>2
  <1> QED BY <1>1, <1>2

\* add_method keeps the dictionaries inverse.
LEMMA AddMethodKeepsInverses ==
    ASSUME NEW id \in Ids, NEW name \in Names, Inverses, AddMethod(id, name)
    PROVE  Inverses'
  <1> DEFINE names == NamesWithoutId(id)
             ids == IdsWithoutName(name, names)
  <1>1. nameToId' = With(names, name, id) /\ idToName' = With(ids, id, name)
    BY DEF AddMethod
  <1>2. /\ \A n : n \in DOMAIN names <=> n \in DOMAIN nameToId /\ nameToId[n] # id
        /\ \A n \in DOMAIN names : names[n] = nameToId[n]
        /\ \A i \in DOMAIN ids : i \in DOMAIN idToName /\ ids[i] = idToName[i]
        /\ \A i : i \in DOMAIN idToName /\ i # id => (i \in DOMAIN ids <=> idToName[i] # name)
    BY DropFacts
  <1> HIDE DEF names, ids
  <1>3. /\ DOMAIN nameToId' = DOMAIN names \cup {name}
        /\ nameToId'[name] = id
        /\ \A n \in DOMAIN names : n # name => nameToId'[n] = names[n]
    BY <1>1 DEF With
  <1>4. /\ DOMAIN idToName' = DOMAIN ids \cup {id}
        /\ idToName'[id] = name
        /\ \A i \in DOMAIN ids : i # id => idToName'[i] = ids[i]
    BY <1>1 DEF With
  <1>5. DOMAIN idToName' \subseteq Ids /\ DOMAIN nameToId' \subseteq Names
    BY <1>2, <1>3, <1>4 DEF Inverses
  <1>6. \A i \in DOMAIN idToName' :
           idToName'[i] \in DOMAIN nameToId' /\ nameToId'[idToName'[i]] = i
    <2> SUFFICES ASSUME NEW i \in DOMAIN idToName', i # id
                 PROVE  idToName'[i] \in DOMAIN nameToId' /\ nameToId'[idToName'[i]] = i
      BY <1>3, <1>4
    <2>1. i \in DOMAIN ids /\ i \in DOMAIN idToName /\ idToName'[i] = idToName[i]
          /\ idToName[i] # name
      BY <1>2, <1>4
    <2>2. idToName[i] \in DOMAIN nameToId /\ nameToId[idToName[i]] = i
      BY <2>1 DEF Inverses
    <2> QED BY <2>1, <2>2, <1>2, <1>3
  <1>7. \A n \in DOMAIN nameToId' :
           nameToId'[n] \in DOMAIN idToName' /\ idToName'[nameToId'[n]] = n
    <2> SUFFICES ASSUME NEW n \in DOMAIN nameToId', n # name
                 PROVE  nameToId'[n] \in DOMAIN idToName' /\ idToName'[nameToId'[n]] = n
      BY <1>3, <1>4
    <2>1. n \in DOMAIN names /\ n \in DOMAIN nameToId /\ nameToId'[n] = nameToId[n]
          /\ nameToId[n] # id
      BY <1>2, <1>3
    <2>2. nameToId[n] \in DOMAIN idToName /\ idToName[nameToId[n]] = n
      BY <2>1 DEF Inverses
    <2>3. nameToId[n] \in DOMAIN ids
      BY <1>2, <2>1, <2>2
    <2> QED BY <2>1, <2>2, <2>3, <1>2, <1>4
  <1> QED BY <1>5, <1>6, <1>7 DEF Inverses

\* Whatever was added, in whatever order, names and ids map to each other: the
\* client that resolves a method by name and the tables that name it by id agree.
THEOREM AlwaysInverses == Spec => []Inverses
  <1>1. Init => Inverses
    BY DEF Init, Empty, Inverses
  <1>2. Inverses /\ [Next]_vars => Inverses'
    <2> SUFFICES ASSUME Inverses, [Next]_vars PROVE Inverses'
      OBVIOUS
    <2>1. CASE Next
      BY <2>1, AddMethodKeepsInverses DEF Next
    <2>2. CASE UNCHANGED vars
      BY <2>2 DEF vars, Inverses
    <2> QED BY <2>1, <2>2
  <1> QED BY <1>1, <1>2, PTL DEF Spec
=============================================================================
