--------------------------- MODULE GeneratorProofs ---------------------------
(* Whatever the sources, the definitions put there by hand, and the commands  *)
(* that run side by side: a command that fails has written nothing or all but *)
(* one file, every definition that a command writes is closed, with its JSON  *)
(* forms, every registry is sound, and what an undisturbed generate leaves is *)
(* in step.                                                                   *)
(*                                                                            *)
(* First what the loader, the builder, the validators and the emitters make   *)
(* of any input, then the commands at work.                                   *)
EXTENDS Generator, FiniteSetTheorems, SequenceTheorems, WellFoundedInduction, TLAPS

\* What was made text is text.
LEMMA StrTwice == \A v : Str(Str(v)) = Str(v)
  BY DEF Str

\* Induction over the naturals, about a set.
LEMMA Induction ==
    ASSUME NEW A, 0 \in A, \A n \in Nat : n \in A => n + 1 \in A
    PROVE  Nat \subseteq A
<1> DEFINE T == Nat \ A
<1> SUFFICES ASSUME T # {} PROVE FALSE
  OBVIOUS
<1>1. PICK x \in T : \A y \in T : ~ (y < x)
  <2>1. IsWellFoundedOn(OpToRel(<, Nat), Nat)
    BY NatLessThanWellFounded
  <2>2. PICK x \in T : \A y \in T : <<y, x>> \notin OpToRel(<, Nat)
    BY <2>1, WFMin
  <2> QED BY <2>2 DEF OpToRel
<1>2. x # 0 /\ x \in Nat
  OBVIOUS
<1>3. x - 1 \in Nat /\ x - 1 \notin T
  BY <1>1, <1>2
<1>4. (x - 1) + 1 \in A
  BY <1>3
<1> QED BY <1>2, <1>4

(* ---- sequences of sequences ---- *)

\* The concatenations of the first sequences, one after the other.
Joins(f, ss, n) == \A i \in 1..n : f[i] = IF i = 1 THEN ss[i] ELSE f[i - 1] \o ss[i]

\* There is such a function for any sequences.
LEMMA JoinsExist ==
    ASSUME NEW ss, NEW n \in Nat
    PROVE  \E f : f = [i \in 1..n |-> IF i = 1 THEN ss[i] ELSE f[i - 1] \o ss[i]]
<1> DEFINE P(k) == \E f : f = [i \in 1..k |-> f[i]] /\ Joins(f, ss, k)
           A == {k \in Nat : P(k)}
<1>1. P(0)
  <2> DEFINE f == [i \in 1..0 |-> ss[i]]
  <2>1. f = [i \in 1..0 |-> f[i]] /\ Joins(f, ss, 0)
    BY DEF Joins
  <2> QED BY <2>1
<1>2. ASSUME NEW k \in Nat, P(k) PROVE P(k + 1)
  <2>1. PICK f : f = [i \in 1..k |-> f[i]] /\ Joins(f, ss, k)
    BY <1>2
  <2> DEFINE last == IF k + 1 = 1 THEN ss[k + 1] ELSE f[k] \o ss[k + 1]
             g == [i \in 1..(k + 1) |-> IF i = k + 1 THEN last ELSE f[i]]
  <2>2. g[k + 1] = last /\ \A i \in 1..k : g[i] = f[i]
    <3> HIDE DEF last
    <3> QED OBVIOUS
  <2>3. g = [i \in 1..(k + 1) |-> g[i]]
    OBVIOUS
  <2> HIDE DEF g
  <2>4. ASSUME NEW i \in 1..(k + 1) PROVE g[i] = IF i = 1 THEN ss[i] ELSE g[i - 1] \o ss[i]
    <3>1. CASE i = k + 1
      <4>1. k + 1 # 1 => g[k] = f[k]
        BY <2>2
      <4>2. (k + 1) - 1 = k
        OBVIOUS
      <4> QED BY <2>2, <3>1, <4>1, <4>2
    <3>2. CASE i # k + 1
      <4>1. i \in 1..k /\ (i # 1 => i - 1 \in 1..k)
        BY <3>2
      <4>2. g[i] = f[i] /\ (i # 1 => g[i - 1] = f[i - 1])
        BY <2>2, <4>1
      <4>3. f[i] = IF i = 1 THEN ss[i] ELSE f[i - 1] \o ss[i]
        BY <2>1, <4>1 DEF Joins
      <4> QED BY <4>2, <4>3
    <3> QED BY <3>1, <3>2
  <2> QED BY <2>3, <2>4 DEF Joins
<1> HIDE DEF P
<1>3. 0 \in A /\ \A k \in Nat : k \in A => k + 1 \in A
  BY <1>1, <1>2
<1> HIDE DEF A
<1>4. P(n)
  <2>1. n \in A
    BY <1>3, Induction
  <2> QED BY <2>1 DEF A
<1>5. PICK f : f = [i \in 1..n |-> f[i]] /\ Joins(f, ss, n)
  BY <1>4 DEF P
<1>6. f = [i \in 1..n |-> IF i = 1 THEN ss[i] ELSE f[i - 1] \o ss[i]]
  BY <1>5 DEF Joins
<1> QED BY <1>6

\* Sequences over a set, one after the other, are one over it.
LEMMA FlattenedIn ==
    ASSUME NEW S, NEW ss \in Seq(Seq(S)) PROVE FlattenSeq(ss) \in Seq(S)
<1> DEFINE n == Len(ss)
           IsJoin(f) == f = [i \in 1..Len(ss) |-> IF i = 1 THEN ss[i] ELSE f[i - 1] \o ss[i]]
           c == CHOOSE f : IsJoin(f)
<1>0. n \in Nat /\ DOMAIN ss = 1..n
  OBVIOUS
<1>1. CASE n = 0
  <2>1. FlattenSeq(ss) = ss
    BY <1>1 DEF FlattenSeq
  <2>2. ss = <<>>
    BY <1>1
  <2> QED BY <2>1, <2>2
<1>2. CASE n # 0
  <2>1. FlattenSeq(ss) = c[n]
    BY <1>2, Zenon DEF FlattenSeq
  <2>2. \E f : IsJoin(f)
    BY <1>0, JoinsExist
  <2>3. IsJoin(c)
    <3> HIDE DEF IsJoin
    <3> QED BY <2>2
  <2> HIDE DEF c
  <2>4. \A i \in 1..n : c[i] = IF i = 1 THEN ss[i] ELSE c[i - 1] \o ss[i]
    BY <2>3
  <2> HIDE DEF IsJoin, n
  <2> DEFINE A == {k \in Nat : k \in 1..n => c[k] \in Seq(S)}
  <2>5. ASSUME NEW k \in Nat, k \in A PROVE k + 1 \in A
    <3> SUFFICES ASSUME k + 1 \in 1..n PROVE c[k + 1] \in Seq(S)
      OBVIOUS
    <3>1. ss[k + 1] \in Seq(S)
      BY <1>0
    <3>2. CASE k = 0
      BY <2>4, <3>1, <3>2
    <3>3. CASE k # 0
      <4>1. k \in 1..n /\ k + 1 # 1 /\ (k + 1) - 1 = k
        BY <1>0, <3>3
      <4>2. c[k] \in Seq(S)
        BY <2>5, <4>1
      <4>3. c[k + 1] = c[k] \o ss[k + 1]
        BY <2>4, <4>1
      <4> QED BY <3>1, <4>2, <4>3
    <3> QED BY <3>2, <3>3
  <2>6. 0 \in A
    OBVIOUS
  <2> HIDE DEF A
  <2>7. n \in A
    BY <1>0, <2>5, <2>6, Induction
  <2>8. n \in 1..n
    BY <1>0, <1>2
  <2> QED BY <2>1, <2>7, <2>8 DEF A
<1> QED BY <1>1, <1>2

\* The elements of sequences put one after the other are elements of one of them.
Elements(s) == s \in Seq(ToSet(s))

\* A sequence over any set is one over its own elements.
LEMMA ElementsOf == ASSUME NEW S, NEW s \in Seq(S) PROVE Elements(s) /\ ToSet(s) \subseteq S
<1>1. s \in [1..Len(s) -> S] /\ DOMAIN s = 1..Len(s) /\ Len(s) \in Nat
  OBVIOUS
<1>2. s \in [1..Len(s) -> ToSet(s)]
  BY <1>1 DEF ToSet
<1> QED BY <1>1, <1>2 DEF Elements, ToSet

\* The flattened list is a sequence of the elements of its parts.
LEMMA FlattenElements ==
    ASSUME NEW ss, Elements(ss), \A i \in DOMAIN ss : Elements(ss[i])
    PROVE  /\ Elements(FlattenSeq(ss))
           /\ \A x \in ToSet(FlattenSeq(ss)) : \E i \in DOMAIN ss : x \in ToSet(ss[i])
<1> DEFINE S == UNION {ToSet(ss[i]) : i \in DOMAIN ss}
<1>1. ASSUME NEW i \in DOMAIN ss PROVE ss[i] \in Seq(S)
  <2>1. ss[i] \in Seq(ToSet(ss[i])) /\ ToSet(ss[i]) \subseteq S
    BY DEF Elements
  <2> HIDE DEF S
  <2> QED BY <2>1
<1>2. ss \in Seq(Seq(S))
  <2> HIDE DEF S
  <2>1. ss \in [1..Len(ss) -> ToSet(ss)] /\ Len(ss) \in Nat /\ DOMAIN ss = 1..Len(ss)
    BY DEF Elements
  <2>2. ss \in [1..Len(ss) -> Seq(S)]
    BY <1>1, <2>1
  <2> QED BY <2>1, <2>2
<1> HIDE DEF S
<1>3. FlattenSeq(ss) \in Seq(S)
  BY <1>2, FlattenedIn
<1>4. Elements(FlattenSeq(ss)) /\ ToSet(FlattenSeq(ss)) \subseteq S
  BY <1>3, ElementsOf
<1> QED BY <1>4 DEF S

\* The same of two sequences.
LEMMA JoinElements ==
    ASSUME NEW s, NEW t, Elements(s), Elements(t)
    PROVE  Elements(s \o t) /\ ToSet(s \o t) \subseteq ToSet(s) \cup ToSet(t)
<1> DEFINE S == ToSet(s) \cup ToSet(t)
<1>1. s \in Seq(S) /\ t \in Seq(S)
  <2>1. s \in Seq(ToSet(s)) /\ t \in Seq(ToSet(t)) /\ ToSet(s) \subseteq S /\ ToSet(t) \subseteq S
    BY DEF Elements
  <2> HIDE DEF S
  <2> QED BY <2>1
<1> HIDE DEF S
<1>2. s \o t \in Seq(S)
  BY <1>1
<1> QED BY <1>2, ElementsOf DEF S

(* ---- sorting ---- *)

\* The number of elements before one tells it from all others, and each number
\* below that of all elements is taken.
LEMMA InOrderFacts ==
    ASSUME NEW S, IsFiniteSet(S), NEW key, \A x \in S : key[x] \in Int,
           \A x, y \in S : key[x] = key[y] => x = y
    PROVE  /\ Elements(InOrder(S, key)) /\ ToSet(InOrder(S, key)) = S
           /\ \A i, j \in DOMAIN InOrder(S, key) : InOrder(S, key)[i] = InOrder(S, key)[j] => i = j
<1> DEFINE Before(x) == {y \in S : key[y] < key[x]}
           n == Cardinality(S)
           rank == [x \in S |-> Cardinality(Before(x)) + 1]
           s == InOrder(S, key)
<1>1. n \in Nat /\ ExistsBijection(1..n, S) /\ IsFiniteSet(1..n) /\ Cardinality(1..n) = n
  BY FS_CardinalityType, FS_Interval
<1>2. ASSUME NEW x \in S
      PROVE  /\ IsFiniteSet(Before(x)) /\ Cardinality(Before(x)) \in Nat /\ Cardinality(Before(x)) < n
             /\ rank[x] \in 1..n
  <2>1. Before(x) \in SUBSET S /\ x \in S /\ x \notin Before(x)
    OBVIOUS
  <2> HIDE DEF Before, rank
  <2>2. IsFiniteSet(Before(x)) /\ Cardinality(Before(x)) <= n /\ Cardinality(Before(x)) # n
    BY <2>1, FS_Subset
  <2>3. Cardinality(Before(x)) \in Nat
    BY <2>2, FS_CardinalityType
  <2>4. rank[x] \in 1..n
    BY <1>1, <2>2, <2>3 DEF rank
  <2> QED BY <1>1, <2>2, <2>3, <2>4
<1>3. ASSUME NEW x \in S, NEW y \in S, key[x] < key[y] PROVE Cardinality(Before(x)) < Cardinality(Before(y))
  <2>1. Before(x) \in SUBSET Before(y) /\ x \in Before(y) /\ x \notin Before(x)
    BY <1>3
  <2>2. IsFiniteSet(Before(y)) /\ Cardinality(Before(y)) \in Nat /\ Cardinality(Before(x)) \in Nat
    BY <1>2
  <2> HIDE DEF Before
  <2>3. Cardinality(Before(x)) <= Cardinality(Before(y)) /\ Cardinality(Before(x)) # Cardinality(Before(y))
    BY <2>1, <2>2, FS_Subset
  <2> QED BY <2>2, <2>3
<1>4. rank \in Injection(S, 1..n)
  <2>1. rank \in [S -> 1..n]
    BY <1>2
  <2>2. ASSUME NEW x \in S, NEW y \in S, x # y PROVE rank[x] # rank[y]
    <3>1. key[x] < key[y] \/ key[y] < key[x]
      BY <2>2
    <3>2. Cardinality(Before(x)) # Cardinality(Before(y))
      <4>1. Cardinality(Before(x)) \in Nat /\ Cardinality(Before(y)) \in Nat
        BY <1>2
      <4> HIDE DEF Before
      <4> QED BY <1>3, <3>1, <4>1
    <3>3. Cardinality(Before(x)) \in Nat /\ Cardinality(Before(y)) \in Nat
      BY <1>2
    <3>4. rank[x] = Cardinality(Before(x)) + 1 /\ rank[y] = Cardinality(Before(y)) + 1
      OBVIOUS
    <3> HIDE DEF rank, Before
    <3> QED BY <3>2, <3>3, <3>4
  <2> HIDE DEF rank
  <2> QED BY <2>1, <2>2 DEF Injection, IsInjective
<1>5. rank \in Surjection(S, 1..n)
  <2> HIDE DEF rank, Before
  <2>1. Cardinality(S) = Cardinality(1..n)
    BY <1>1
  <2> QED BY <1>1, <1>4, <2>1, FS_Injection
<1>6. ASSUME NEW i \in 1..n PROVE s[i] \in S /\ rank[s[i]] = i
  <2>1. PICK x \in S : rank[x] = i
    <3> HIDE DEF rank
    <3> QED BY <1>5 DEF Surjection
  <2>2. Cardinality(Before(x)) = i - 1
    <3>1. Cardinality(Before(x)) \in Nat /\ rank[x] = Cardinality(Before(x)) + 1
      BY <1>2
    <3> HIDE DEF rank, Before
    <3> QED BY <2>1, <3>1
  <2>3. s[i] = CHOOSE z \in S : Cardinality(Before(z)) = i - 1
    BY DEF InOrder
  <2>4. s[i] \in S /\ Cardinality(Before(s[i])) = i - 1
    <3> HIDE DEF s, Before
    <3> QED BY <2>2, <2>3
  <2>5. rank[s[i]] = Cardinality(Before(s[i])) + 1
    BY <2>4
  <2> HIDE DEF s, Before, rank
  <2> QED BY <2>4, <2>5
<1>7. s \in [1..n -> S] /\ DOMAIN s = 1..n
  <2>1. s = [i \in 1..n |-> s[i]]
    <3> DEFINE at(i) == CHOOSE x \in S : Cardinality({y \in S : key[y] < key[x]}) = i - 1
    <3>1. s = [i \in 1..n |-> at(i)]
      BY Zenon DEF InOrder
    <3> HIDE DEF s, at
    <3> QED BY <3>1
  <2> HIDE DEF s
  <2> QED BY <1>6, <2>1
<1> HIDE DEF s
<1>8. s \in Seq(S)
  BY <1>1, <1>7
<1>9. Elements(s) /\ ToSet(s) \subseteq S
  BY <1>8, ElementsOf
<1>10. ASSUME NEW x \in S PROVE x \in ToSet(s)
  <2>1. rank[x] \in 1..n /\ rank \in [S -> 1..n]
    BY <1>2
  <2> HIDE DEF rank
  <2>2. s[rank[x]] \in S /\ rank[s[rank[x]]] = rank[x]
    BY <1>6, <2>1
  <2>3. s[rank[x]] = x
    BY <1>4, <2>2 DEF Injection, IsInjective
  <2> QED BY <1>7, <2>1, <2>3 DEF ToSet
<1>11. \A i, j \in DOMAIN s : s[i] = s[j] => i = j
  <2> HIDE DEF rank
  <2> QED BY <1>6, <1>7
<1>12. Elements(s) /\ ToSet(s) = S /\ \A i, j \in DOMAIN s : s[i] = s[j] => i = j
  BY <1>9, <1>10, <1>11
<1> QED BY <1>12 DEF s

(* ---- what has been loaded ---- *)

\* An entry whose number, name, domain and status are there.
NamedEntry(x) ==
    /\ {"id", "name", "domain", "status"} \subseteq DOMAIN x
    /\ x.id \in Int /\ Str(x.name) = x.name /\ Str(x.domain) = x.domain /\ x.status # Undef
Named(list) == Elements(list) /\ \A x \in ToSet(list) : NamedEntry(x)

\* What the loader makes of the entries of a file.
Filled(list, domain, status) ==
    [i \in DOMAIN list |-> [list[i] EXCEPT !.name = Str(@), !.domain = Str(Or(@, domain)),
                                           !.status = Or(@, status)]]

\* Entries that have numbers are named once the loader has filled them in.
LEMMA FilledIsNamed ==
    ASSUME NEW list, IsList(list, {"id", "name", "domain", "status"}), NEW domain, NEW status, status # Undef,
           \A x \in ToSet(list) : (x.id = Undef \/ x.id \in Int) /\ HasId(x)
    PROVE  Named(Filled(list, domain, status))
<1> DEFINE f == Filled(list, domain, status)
<1>1. list \in [1..Len(list) -> ToSet(list)] /\ Len(list) \in Nat /\ DOMAIN list = 1..Len(list)
  BY DEF IsList
<1>2. ASSUME NEW i \in DOMAIN list PROVE NamedEntry(f[i])
  <2>1. list[i] \in ToSet(list)
    BY DEF ToSet
  <2>2. {"id", "name", "domain", "status"} \subseteq DOMAIN list[i] /\ list[i].id \in Int
    BY <2>1 DEF IsList, HasId
  <2> DEFINE x == list[i]
             y == [x EXCEPT !.name = Str(@), !.domain = Str(Or(@, domain)), !.status = Or(@, status)]
  <2>3. f[i] = y
    BY DEF Filled
  <2> HIDE DEF x
  <2>4. {"id", "name", "domain", "status"} \subseteq DOMAIN x /\ x.id \in Int
    BY <2>2 DEF x
  <2>5. /\ DOMAIN y = DOMAIN x /\ y.id = x.id /\ y.name = Str(x.name)
        /\ y.domain = Str(Or(x.domain, domain)) /\ y.status = Or(x.status, status)
    BY <2>4
  <2> HIDE DEF y, f
  <2>6. y.status # Undef
    BY <2>5 DEF Or
  <2>7. NamedEntry(y)
    BY <2>4, <2>5, <2>6, StrTwice DEF NamedEntry
  <2> QED BY <2>3, <2>7
<1>3. f \in [1..Len(list) -> ToSet(f)]
  BY <1>1 DEF Filled, ToSet
<1>4. Elements(f) /\ DOMAIN f = DOMAIN list
  <2>1. DOMAIN f = DOMAIN list
    BY DEF Filled
  <2> HIDE DEF f
  <2> QED BY <1>1, <1>3, <2>1 DEF Elements
<1> HIDE DEF f
<1>5. Named(f)
  BY <1>2, <1>4 DEF Named, ToSet
<1> QED BY <1>5 DEF f

\* A list of the sources: of the central registry, then of the files.
LEMMA JoinedIsNamed ==
    ASSUME NEW list, Named(list), NEW more, Elements(more), \A i \in DOMAIN more : Named(more[i])
    PROVE  Named(list \o FlattenSeq(more))
<1>1. \A i \in DOMAIN more : Elements(more[i])
  BY DEF Named
<1>2. /\ Elements(FlattenSeq(more))
      /\ \A x \in ToSet(FlattenSeq(more)) : \E i \in DOMAIN more : x \in ToSet(more[i])
  BY <1>1, FlattenElements
<1>3. /\ Elements(list \o FlattenSeq(more))
      /\ ToSet(list \o FlattenSeq(more)) \subseteq ToSet(list) \cup ToSet(FlattenSeq(more))
  BY <1>2, JoinElements DEF Named
<1> QED BY <1>2, <1>3 DEF Named

\* What is known of a source model that has been loaded.
Keyed(list, keys) == Elements(list) /\ \A x \in ToSet(list) : keys \subseteq DOMAIN x
Required == {"name", "requiredMethods", "requiredEvents", "requiredErrors"}
Sourced(spec) ==
    /\ \A list \in RegistryLists : Named(spec[list])
    /\ Keyed(spec.schemas, {"name", "fields"})
    /\ Keyed(spec.profiles, Required)
    /\ Elements(spec.protocolMeta.transports)

\* The files that are read are files of the tree.
LEMMA FilesRead ==
    ASSUME NEW t, ParsedTree(t)
    PROVE  LET docs == ListYamlFiles(t.files)
           IN  Elements(docs) /\ \A i \in DOMAIN docs : \E path \in DOMAIN t.files : docs[i] = t.files[path]
<1> DEFINE yaml == {p \in DOMAIN t.files : t.files[p].yaml}
           key == [p \in yaml |-> p]
           s == InOrder(yaml, key)
           docs == ListYamlFiles(t.files)
<1>1. yaml \in SUBSET DOMAIN t.files /\ IsFiniteSet(DOMAIN t.files) /\ DOMAIN t.files \subseteq Int
  BY DEF ParsedTree
<1>2. docs = [i \in DOMAIN s |-> t.files[s[i]]]
  BY Zenon DEF ListYamlFiles, Map
<1> HIDE DEF yaml
<1>3. IsFiniteSet(yaml) /\ \A x \in yaml : key[x] = x /\ key[x] \in Int
  BY <1>1, FS_Subset
<1> HIDE DEF key
<1>4. Elements(s) /\ ToSet(s) = yaml
  BY <1>3, InOrderFacts
<1> HIDE DEF s, docs
<1>5. s \in [1..Len(s) -> ToSet(s)] /\ Len(s) \in Nat /\ DOMAIN s = 1..Len(s)
  BY <1>4 DEF Elements
<1>6. docs \in [1..Len(s) -> ToSet(docs)] /\ DOMAIN docs = DOMAIN s
  BY <1>2, <1>5 DEF ToSet
<1>7. Elements(docs)
  BY <1>5, <1>6 DEF Elements
<1>8. \A i \in DOMAIN docs : \E path \in DOMAIN t.files : docs[i] = t.files[path]
  BY <1>1, <1>2, <1>4, <1>5, <1>6
<1> QED BY <1>7, <1>8 DEF docs

\* The list of a file that may be absent.
LEMMA ListOfIsList ==
    ASSUME NEW r, NEW file, NEW list, NEW keys, IsList(list, keys)
    PROVE  /\ IsList(ListOf(r, file, list), keys)
           /\ ToSet(ListOf(r, file, list)) \subseteq ToSet(list)
<1>1. IsList(<<>>, keys) /\ ToSet(<<>>) = {}
  BY DEF IsList, ToSet
<1> QED BY <1>1 DEF ListOf

\* Two ways of saying what a list is.
LEMMA ListIsKeyed == \A list, keys : IsList(list, keys) => Keyed(list, keys)
  BY DEF IsList, Keyed, Elements

\* The lists of a registry, and those of the files.
LEMMA RegistryIsNamed ==
    ASSUME NEW r, Parsed(r), ~LoadSpecThrows(r)
    PROVE  /\ Named(LoadSpec(r).methods) /\ Named(LoadSpec(r).events)
           /\ Named(LoadSpec(r).errors) /\ Named(LoadSpec(r).capabilities)
<1>1. /\ LoadSpec(r).methods = Filled(ListOf(r, "method_registry.yaml", r.methods), Undef, "mvp")
      /\ LoadSpec(r).events = Filled(ListOf(r, "event_registry.yaml", r.events), Undef, "mvp")
      /\ LoadSpec(r).errors = Filled(r.errors, Undef, "mvp")
      /\ LoadSpec(r).capabilities = Filled(r.capabilities, Undef, "mvp")
  BY DEF LoadSpec, Map, Filled, RegistryMethod, MapMethod, RegistryEvent, MapEvent,
         RegistryErrorCode, MapErrorCode, RegistryCapability, MapCapability
<1>2. "mvp" # Undef
  BY GeneratorAssumption
<1> DEFINE keys == {"id", "name", "domain", "status"}
<1>3. ASSUME NEW list \in {r.methods, r.events, r.errors, r.capabilities}, NEW file
      PROVE  Named(Filled(ListOf(r, file, list), Undef, "mvp")) /\ Named(Filled(list, Undef, "mvp"))
  <2>1. IsList(list, keys) /\ \A x \in ToSet(list) : (x.id = Undef \/ x.id \in Int) /\ HasId(x)
    BY DEF Parsed, LoadSpecThrows
  <2>2. IsList(ListOf(r, file, list), keys) /\ ToSet(ListOf(r, file, list)) \subseteq ToSet(list)
    BY <2>1, ListOfIsList
  <2> QED BY <1>2, <2>1, <2>2, FilledIsNamed
<1> QED BY <1>1, <1>3

\* The four lists of a domain file.
LEMMA FileIsNamed ==
    ASSUME NEW d, Parsed(d), NEW domain,
           \A x \in UNION {ToSet(d.methods), ToSet(d.events), ToSet(d.errors), ToSet(d.capabilities)} : HasId(x)
    PROVE  /\ Named(Filled(d.methods, domain, "draft")) /\ Named(Filled(d.events, domain, "draft"))
           /\ Named(Filled(d.errors, domain, "draft")) /\ Named(Filled(d.capabilities, domain, "draft"))
<1>1. "draft" # Undef
  BY GeneratorAssumption
<1>2. ASSUME NEW list \in {d.methods, d.events, d.errors, d.capabilities}
      PROVE  Named(Filled(list, domain, "draft"))
  <2>1. /\ IsList(list, {"id", "name", "domain", "status"})
        /\ \A x \in ToSet(list) : (x.id = Undef \/ x.id \in Int) /\ HasId(x)
    BY DEF Parsed
  <2> QED BY <1>1, <2>1, FilledIsNamed
<1> QED BY <1>2

\* A list of which every place is known.
LEMMA ElementsAt ==
    ASSUME NEW docs, Elements(docs), NEW f, f = [i \in DOMAIN docs |-> f[i]]
    PROVE  Elements(f) /\ DOMAIN f = DOMAIN docs
<1>1. docs \in [1..Len(docs) -> ToSet(docs)] /\ Len(docs) \in Nat /\ DOMAIN docs = 1..Len(docs)
  BY DEF Elements
<1>2. f \in [1..Len(docs) -> ToSet(f)]
  BY <1>1 DEF ToSet
<1> QED BY <1>1, <1>2 DEF Elements

\* Schemas keep their places, names and fields when they are read.
LEMMA MappedSchemas ==
    ASSUME NEW list, IsList(list, {"name", "fields"})
    PROVE  /\ Keyed(MapSchemas(list), {"name", "fields"})
           /\ Keyed(RegistrySchemas(list), {"name", "fields"})
<1> DEFINE m == MapSchemas(list)
           r == RegistrySchemas(list)
<1>0. Elements(list)
  BY DEF IsList, Elements
<1>1. ASSUME NEW i \in DOMAIN list PROVE {"name", "fields"} \subseteq DOMAIN m[i]
  BY DEF MapSchemas
<1>2. DOMAIN m = DOMAIN list /\ m = [i \in DOMAIN list |-> m[i]]
  BY DEF MapSchemas
<1>3. Keyed(m, {"name", "fields"})
  <2> HIDE DEF m
  <2> QED BY <1>0, <1>1, <1>2, ElementsAt DEF Keyed, ToSet
<1>4. \A i \in DOMAIN list : DOMAIN r[i] = DOMAIN m[i]
  <2> HIDE DEF m
  <2> QED BY DEF RegistrySchemas, m
<1>5. DOMAIN r = DOMAIN list /\ r = [i \in DOMAIN list |-> r[i]]
  BY DEF RegistrySchemas
<1>6. Keyed(r, {"name", "fields"})
  <2> HIDE DEF m, r
  <2> QED BY <1>0, <1>1, <1>4, <1>5, ElementsAt DEF Keyed, ToSet
<1> QED BY <1>3, <1>6

\* Lists put together, each of which has keys.
LEMMA KeyedFlat ==
    ASSUME NEW more, Elements(more), NEW keys, \A i \in DOMAIN more : Keyed(more[i], keys)
    PROVE  Keyed(FlattenSeq(more), keys)
<1>1. \A i \in DOMAIN more : Elements(more[i])
  BY DEF Keyed
<1>2. /\ Elements(FlattenSeq(more))
      /\ \A x \in ToSet(FlattenSeq(more)) : \E i \in DOMAIN more : x \in ToSet(more[i])
  BY <1>1, FlattenElements
<1> QED BY <1>2 DEF Keyed

\* The same of two lists.
LEMMA KeyedJoin ==
    ASSUME NEW s, NEW t, NEW keys, Keyed(s, keys), Keyed(t, keys) PROVE Keyed(s \o t, keys)
<1>1. Elements(s \o t) /\ ToSet(s \o t) \subseteq ToSet(s) \cup ToSet(t)
  BY JoinElements DEF Keyed
<1> QED BY <1>1 DEF Keyed

\* What the loader makes of a tree that it accepts: in all four lists every entry has a
\* number, a name, a domain and a status (sourceLoader.ts, loader.ts).
LEMMA LoadedIsSourced ==
    ASSUME NEW t, ParsedTree(t), ~LoadSourcesThrows(t) PROVE Sourced(LoadProtocolSources(t))
<1> DEFINE docs == ListYamlFiles(t.files)
           spec == LoadSpec(t.registry)
           all == LoadProtocolSources(t)
           methods == [i \in DOMAIN docs |-> Filled(docs[i].methods, DefaultDomain(docs[i]), "draft")]
           events == [i \in DOMAIN docs |-> Filled(docs[i].events, DefaultDomain(docs[i]), "draft")]
           errors == [i \in DOMAIN docs |-> Filled(docs[i].errors, DefaultDomain(docs[i]), "draft")]
           capabilities == [i \in DOMAIN docs |-> Filled(docs[i].capabilities, DefaultDomain(docs[i]), "draft")]
           schemas == [i \in DOMAIN docs |-> MapSchemas(docs[i].schemas)]
           profiles == [i \in DOMAIN docs |-> docs[i].profiles]
<1>1. /\ all.methods = spec.methods \o FlattenSeq(methods)
      /\ all.events = spec.events \o FlattenSeq(events)
      /\ all.errors = spec.errors \o FlattenSeq(errors)
      /\ all.capabilities = spec.capabilities \o FlattenSeq(capabilities)
      /\ all.schemas = spec.schemas \o FlattenSeq(schemas)
      /\ all.profiles = FlattenSeq(profiles)
      /\ all.protocolMeta = t.registry.meta
  <2> HIDE DEF docs, spec
  <2> QED BY DEF LoadProtocolSources, Map, Filled, MapMethod, MapEvent, MapErrorCode, MapCapability,
                 docs, spec
<1>2. Elements(docs) /\ \A i \in DOMAIN docs : \E path \in DOMAIN t.files : docs[i] = t.files[path]
  BY FilesRead
<1>3. /\ ~LoadSpecThrows(t.registry) /\ Parsed(t.registry) /\ IsList(t.registry.meta.transports, {"name"})
      /\ \A doc \in ToSet(docs) : \A x \in UNION {ToSet(doc.methods), ToSet(doc.events), ToSet(doc.errors),
                                                  ToSet(doc.capabilities)} : HasId(x)
  BY DEF LoadSourcesThrows, ParsedTree, ParsedRegistry
<1>4. ASSUME NEW i \in DOMAIN docs
      PROVE  /\ Named(methods[i]) /\ Named(events[i]) /\ Named(errors[i]) /\ Named(capabilities[i])
             /\ Keyed(schemas[i], {"name", "fields"}) /\ Keyed(profiles[i], Required)
  <2>1. docs[i] \in ToSet(docs)
    BY DEF ToSet
  <2>2. PICK path \in DOMAIN t.files : docs[i] = t.files[path]
    BY <1>2
  <2>3. Parsed(docs[i]) /\ IsList(docs[i].profiles, Required)
    BY <2>2 DEF ParsedTree, Required
  <2>4. IsList(docs[i].schemas, {"name", "fields"})
    BY <2>3 DEF Parsed
  <2> HIDE DEF docs
  <2>5. /\ methods[i] = Filled(docs[i].methods, DefaultDomain(docs[i]), "draft")
        /\ events[i] = Filled(docs[i].events, DefaultDomain(docs[i]), "draft")
        /\ errors[i] = Filled(docs[i].errors, DefaultDomain(docs[i]), "draft")
        /\ capabilities[i] = Filled(docs[i].capabilities, DefaultDomain(docs[i]), "draft")
        /\ schemas[i] = MapSchemas(docs[i].schemas) /\ profiles[i] = docs[i].profiles
    OBVIOUS
  <2>6. /\ Named(Filled(docs[i].methods, DefaultDomain(docs[i]), "draft"))
        /\ Named(Filled(docs[i].events, DefaultDomain(docs[i]), "draft"))
        /\ Named(Filled(docs[i].errors, DefaultDomain(docs[i]), "draft"))
        /\ Named(Filled(docs[i].capabilities, DefaultDomain(docs[i]), "draft"))
    BY <1>3, <2>1, <2>3, FileIsNamed
  <2>7. Keyed(MapSchemas(docs[i].schemas), {"name", "fields"}) /\ Keyed(docs[i].profiles, Required)
    BY <2>3, <2>4, MappedSchemas, ListIsKeyed
  <2> QED BY <2>5, <2>6, <2>7
<1> HIDE DEF docs
<1>5. /\ Elements(methods) /\ DOMAIN methods = DOMAIN docs /\ Elements(events) /\ DOMAIN events = DOMAIN docs
      /\ Elements(errors) /\ DOMAIN errors = DOMAIN docs
      /\ Elements(capabilities) /\ DOMAIN capabilities = DOMAIN docs
      /\ Elements(schemas) /\ DOMAIN schemas = DOMAIN docs
      /\ Elements(profiles) /\ DOMAIN profiles = DOMAIN docs
  <2>1. /\ methods = [i \in DOMAIN docs |-> methods[i]] /\ events = [i \in DOMAIN docs |-> events[i]]
        /\ errors = [i \in DOMAIN docs |-> errors[i]]
        /\ capabilities = [i \in DOMAIN docs |-> capabilities[i]]
        /\ schemas = [i \in DOMAIN docs |-> schemas[i]] /\ profiles = [i \in DOMAIN docs |-> profiles[i]]
    OBVIOUS
  <2> HIDE DEF methods, events, errors, capabilities, schemas, profiles
  <2> QED BY <1>2, <2>1, ElementsAt
<1> HIDE DEF methods, events, errors, capabilities, schemas, profiles
<1>6. /\ Named(spec.methods) /\ Named(spec.events) /\ Named(spec.errors) /\ Named(spec.capabilities)
  BY <1>3, RegistryIsNamed
<1>7. Keyed(spec.schemas, {"name", "fields"})
  <2>1. spec.schemas = RegistrySchemas(t.registry.schemas)
    BY DEF LoadSpec
  <2>2. IsList(t.registry.schemas, {"name", "fields"})
    BY <1>3 DEF Parsed
  <2> QED BY <2>1, <2>2, MappedSchemas
<1> HIDE DEF spec, all
<1>8. /\ Named(all.methods) /\ Named(all.events) /\ Named(all.errors) /\ Named(all.capabilities)
  <2>1. Named(all.methods)
    BY <1>1, <1>4, <1>5, <1>6, JoinedIsNamed
  <2>2. Named(all.events)
    BY <1>1, <1>4, <1>5, <1>6, JoinedIsNamed
  <2>3. Named(all.errors)
    BY <1>1, <1>4, <1>5, <1>6, JoinedIsNamed
  <2>4. Named(all.capabilities)
    BY <1>1, <1>4, <1>5, <1>6, JoinedIsNamed
  <2> QED BY <2>1, <2>2, <2>3, <2>4
<1>9. Keyed(all.profiles, Required)
  BY <1>1, <1>4, <1>5, KeyedFlat
<1>10. Keyed(all.schemas, {"name", "fields"})
  <2>1. Keyed(FlattenSeq(schemas), {"name", "fields"})
    BY <1>4, <1>5, KeyedFlat
  <2> QED BY <1>1, <1>7, <2>1, KeyedJoin
<1>11. Elements(all.protocolMeta.transports)
  BY <1>1, <1>3 DEF IsList, Elements
<1>12. Sourced(all)
  <2>1. ASSUME NEW list \in RegistryLists PROVE Named(all[list])
    BY <1>8 DEF RegistryLists
  <2> QED BY <1>9, <1>10, <1>11, <2>1 DEF Sourced
<1> QED BY <1>12 DEF all

(* ---- a definition made from the sources ---- *)

\* What a built definition says of a status, the loader leaves as it is.
LEMMA StatusStays ==
    ASSUME NEW status, status # Undef
    PROVE  Or(ProtocolStatus(status), "draft") = ProtocolStatus(status)
  BY GeneratorAssumption DEF Or, ProtocolStatus

\* And what it says of a schema.
LEMMA SchemaRefStays == \A name, empty : Or(SchemaRef(name, empty), "") = SchemaRef(name, empty)
  BY GeneratorAssumption DEF Or, SchemaRef, Truthy

\* Functions with the same values are the same.
LEMMA SameFunctions ==
    ASSUME NEW D, NEW f, f = [i \in D |-> f[i]], NEW g, g = [i \in D |-> g[i]],
           \A i \in D : f[i] = g[i]
    PROVE  f = g
  OBVIOUS

\* A method that was built is read as it stands, and so are the other entries.
LEMMA MethodStays ==
    ASSUME NEW m, NamedEntry(m), NEW empty, NEW r, r = MethodToProtocol(m, empty)
    PROVE  [r EXCEPT !.name = Str(@), !.domain = Str(@), !.status = Or(@, "draft"),
            !.request = Or(@, ""), !.response = Or(@, "")] = r
<1> DEFINE D == {"id", "bitOffset", "name", "domain", "status", "description", "request", "response",
                 "capabilities", "events", "errors"}
<1>1. /\ Str(r.name) = r.name /\ Str(r.domain) = r.domain /\ Or(r.status, "draft") = r.status
      /\ Or(r.request, "") = r.request /\ Or(r.response, "") = r.response
  <2>1. r.name = m.name /\ r.domain = m.domain /\ r.status = ProtocolStatus(m.status)
        /\ r.request = SchemaRef(m.requestSchema, empty) /\ r.response = SchemaRef(m.responseSchema, empty)
    BY DEF MethodToProtocol
  <2> QED BY <2>1, StatusStays, SchemaRefStays DEF NamedEntry
<1>2. r = [k \in D |-> r[k]] /\ {"name", "domain", "status", "request", "response"} \subseteq D
  BY DEF MethodToProtocol
<1> HIDE DEF D
<1>3. [r EXCEPT !.name = r.name, !.domain = r.domain, !.status = r.status,
                !.request = r.request, !.response = r.response] = r
  BY <1>2
<1>4. [r EXCEPT !.name = Str(@), !.domain = Str(@), !.status = Or(@, "draft"),
                !.request = Or(@, ""), !.response = Or(@, "")]
      = [r EXCEPT !.name = r.name, !.domain = r.domain, !.status = r.status,
                  !.request = r.request, !.response = r.response]
  BY <1>1, <1>2
<1> QED BY <1>3, <1>4

\* The same of an event.
LEMMA EventStays ==
    ASSUME NEW e, NamedEntry(e), NEW empty, NEW r, r = EventToProtocol(e, empty)
    PROVE  [r EXCEPT !.name = Str(@), !.domain = Str(@), !.status = Or(@, "draft"),
            !.payload = Or(@, "")] = r
<1> DEFINE D == {"id", "bitOffset", "name", "domain", "status", "payload", "capabilities"}
<1>1. /\ Str(r.name) = r.name /\ Str(r.domain) = r.domain /\ Or(r.status, "draft") = r.status
      /\ Or(r.payload, "") = r.payload
  <2>1. r.name = e.name /\ r.domain = e.domain /\ r.status = ProtocolStatus(e.status)
        /\ r.payload = SchemaRef(e.eventSchema, empty)
    BY DEF EventToProtocol
  <2> QED BY <2>1, StatusStays, SchemaRefStays DEF NamedEntry
<1>2. r = [k \in D |-> r[k]] /\ {"name", "domain", "status", "payload"} \subseteq D
  BY DEF EventToProtocol
<1> HIDE DEF D
<1>3. [r EXCEPT !.name = r.name, !.domain = r.domain, !.status = r.status, !.payload = r.payload] = r
  BY <1>2
<1>4. [r EXCEPT !.name = Str(@), !.domain = Str(@), !.status = Or(@, "draft"), !.payload = Or(@, "")]
      = [r EXCEPT !.name = r.name, !.domain = r.domain, !.status = r.status, !.payload = r.payload]
  BY <1>1, <1>2
<1> QED BY <1>3, <1>4

\* The same of an error.
LEMMA ErrorStays ==
    ASSUME NEW e, NamedEntry(e), NEW r, r = ErrorToProtocol(e)
    PROVE  [r EXCEPT !.name = Str(@), !.category = Str(@), !.status = Or(@, "draft")] = r
<1> DEFINE D == {"id", "name", "category", "status"}
<1>1. Str(r.name) = r.name /\ Str(r.category) = r.category /\ Or(r.status, "draft") = r.status
  <2>1. r.name = e.name /\ r.category = Or(e.category, e.domain) /\ r.status = ProtocolStatus(e.status)
    BY DEF ErrorToProtocol
  <2>2. Str(Or(e.category, e.domain)) = Or(e.category, e.domain)
    BY DEF Str, Or, NamedEntry
  <2> QED BY <2>1, <2>2, StatusStays DEF NamedEntry
<1>2. r = [k \in D |-> r[k]] /\ {"name", "category", "status"} \subseteq D
  BY DEF ErrorToProtocol
<1> HIDE DEF D
<1>3. [r EXCEPT !.name = r.name, !.category = r.category, !.status = r.status] = r
  BY <1>2
<1>4. [r EXCEPT !.name = Str(@), !.category = Str(@), !.status = Or(@, "draft")]
      = [r EXCEPT !.name = r.name, !.category = r.category, !.status = r.status]
  BY <1>1, <1>2
<1> QED BY <1>3, <1>4

\* The same of a capability.
LEMMA CapabilityStays ==
    ASSUME NEW c, NamedEntry(c), NEW r, r = CapabilityToProtocol(c)
    PROVE  [r EXCEPT !.name = Str(@), !.domain = Str(@), !.status = Or(@, "draft")] = r
<1> DEFINE D == DOMAIN c
<1>0. {"id", "name", "domain", "status"} \subseteq D
  BY DEF NamedEntry
<1>1. Str(r.name) = r.name /\ Str(r.domain) = r.domain /\ Or(r.status, "draft") = r.status
  <2>1. r.name = c.name /\ r.domain = c.domain /\ r.status = ProtocolStatus(c.status)
    BY <1>0 DEF CapabilityToProtocol
  <2> QED BY <2>1, StatusStays DEF NamedEntry
<1>2. r = [k \in D |-> r[k]] /\ {"name", "domain", "status"} \subseteq D
  BY <1>0 DEF CapabilityToProtocol
<1> HIDE DEF D
<1>3. [r EXCEPT !.name = r.name, !.domain = r.domain, !.status = r.status] = r
  BY <1>2
<1>4. [r EXCEPT !.name = Str(@), !.domain = Str(@), !.status = Or(@, "draft")]
      = [r EXCEPT !.name = r.name, !.domain = r.domain, !.status = r.status]
  BY <1>1, <1>2
<1> QED BY <1>3, <1>4

\* Reading a definition made from the sources changes none of its four lists.
LEMMA BuiltIsLoaded ==
    ASSUME NEW spec, Sourced(spec)
    PROVE  LET raw == BuildProtocolDefinitionRaw(spec)
               def == LoadProtocolDefinitionFromRaw(raw)
           IN  \A list \in RegistryLists :
                   /\ def[list] = raw[list] /\ Elements(raw[list])
                   /\ DOMAIN raw[list] = DOMAIN spec[list]
                   /\ \A i \in DOMAIN raw[list] : /\ raw[list][i].id = spec[list][i].id
                                                  /\ raw[list][i].name = spec[list][i].name
<1> DEFINE empty == EmptySchemaNames(spec.schemas)
           raw == BuildProtocolDefinitionRaw(spec)
           def == LoadProtocolDefinitionFromRaw(raw)
<1>1. /\ raw.methods = [i \in DOMAIN spec.methods |-> MethodToProtocol(spec.methods[i], empty)]
      /\ raw.events = [i \in DOMAIN spec.events |-> EventToProtocol(spec.events[i], empty)]
      /\ raw.errors = [i \in DOMAIN spec.errors |-> ErrorToProtocol(spec.errors[i])]
      /\ raw.capabilities = [i \in DOMAIN spec.capabilities |-> CapabilityToProtocol(spec.capabilities[i])]
  <2> HIDE DEF empty
  <2> QED BY DEF BuildProtocolDefinitionRaw, Map, empty
<1> HIDE DEF raw, empty
<1>2. /\ def.methods = [i \in DOMAIN raw.methods |->
             [raw.methods[i] EXCEPT !.name = Str(@), !.domain = Str(@), !.status = Or(@, "draft"),
                                    !.request = Or(@, ""), !.response = Or(@, "")]]
      /\ def.events = [i \in DOMAIN raw.events |->
             [raw.events[i] EXCEPT !.name = Str(@), !.domain = Str(@), !.status = Or(@, "draft"),
                                   !.payload = Or(@, "")]]
      /\ def.errors = [i \in DOMAIN raw.errors |->
             [raw.errors[i] EXCEPT !.name = Str(@), !.category = Str(@), !.status = Or(@, "draft")]]
      /\ def.capabilities = [i \in DOMAIN raw.capabilities |->
             [raw.capabilities[i] EXCEPT !.name = Str(@), !.domain = Str(@), !.status = Or(@, "draft")]]
  BY DEF LoadProtocolDefinitionFromRaw, MapMethods, MapEvents, MapErrors, MapCapabilities, Map
<1> HIDE DEF def
<1>3. ASSUME NEW list \in RegistryLists, NEW i \in DOMAIN spec[list] PROVE NamedEntry(spec[list][i])
  BY DEF Sourced, Named, ToSet
<1>4. Elements(spec.methods) /\ Elements(spec.events) /\ Elements(spec.errors) /\ Elements(spec.capabilities)
  BY DEF Sourced, Named, RegistryLists
<1>5. def.methods = raw.methods
  <2>1. ASSUME NEW i \in DOMAIN spec.methods PROVE def.methods[i] = raw.methods[i]
    <3>1. raw.methods[i] = MethodToProtocol(spec.methods[i], empty) /\ i \in DOMAIN raw.methods
      BY <1>1
    <3>2. def.methods[i] = [raw.methods[i] EXCEPT !.name = Str(@), !.domain = Str(@), !.status = Or(@, "draft"),
                                    !.request = Or(@, ""), !.response = Or(@, "")]
      BY <1>2, <3>1
    <3>3. NamedEntry(spec.methods[i])
      BY <1>3 DEF RegistryLists
    <3>4. PICK r : r = raw.methods[i]
      OBVIOUS
    <3>5. [r EXCEPT !.name = Str(@), !.domain = Str(@), !.status = Or(@, "draft"),
                                    !.request = Or(@, ""), !.response = Or(@, "")] = r
      BY <3>1, <3>3, <3>4, MethodStays
    <3> QED BY <3>2, <3>4, <3>5
  <2>2. /\ raw.methods = [i \in DOMAIN spec.methods |-> raw.methods[i]] /\ DOMAIN raw.methods = DOMAIN spec.methods
        /\ def.methods = [i \in DOMAIN raw.methods |-> def.methods[i]]
    BY <1>1, <1>2
  <2> QED BY <2>1, <2>2, SameFunctions
<1>6. def.events = raw.events
  <2>1. ASSUME NEW i \in DOMAIN spec.events PROVE def.events[i] = raw.events[i]
    <3>1. raw.events[i] = EventToProtocol(spec.events[i], empty) /\ i \in DOMAIN raw.events
      BY <1>1
    <3>2. def.events[i] = [raw.events[i] EXCEPT !.name = Str(@), !.domain = Str(@), !.status = Or(@, "draft"), !.payload = Or(@, "")]
      BY <1>2, <3>1
    <3>3. NamedEntry(spec.events[i])
      BY <1>3 DEF RegistryLists
    <3>4. PICK r : r = raw.events[i]
      OBVIOUS
    <3>5. [r EXCEPT !.name = Str(@), !.domain = Str(@), !.status = Or(@, "draft"), !.payload = Or(@, "")] = r
      BY <3>1, <3>3, <3>4, EventStays
    <3> QED BY <3>2, <3>4, <3>5
  <2>2. /\ raw.events = [i \in DOMAIN spec.events |-> raw.events[i]] /\ DOMAIN raw.events = DOMAIN spec.events
        /\ def.events = [i \in DOMAIN raw.events |-> def.events[i]]
    BY <1>1, <1>2
  <2> QED BY <2>1, <2>2, SameFunctions
<1>7. def.errors = raw.errors
  <2>1. ASSUME NEW i \in DOMAIN spec.errors PROVE def.errors[i] = raw.errors[i]
    <3>1. raw.errors[i] = ErrorToProtocol(spec.errors[i]) /\ i \in DOMAIN raw.errors
      BY <1>1
    <3>2. def.errors[i] = [raw.errors[i] EXCEPT !.name = Str(@), !.category = Str(@), !.status = Or(@, "draft")]
      BY <1>2, <3>1
    <3>3. NamedEntry(spec.errors[i])
      BY <1>3 DEF RegistryLists
    <3> QED BY <3>1, <3>2, <3>3, ErrorStays
  <2>2. /\ raw.errors = [i \in DOMAIN spec.errors |-> raw.errors[i]] /\ DOMAIN raw.errors = DOMAIN spec.errors
        /\ def.errors = [i \in DOMAIN raw.errors |-> def.errors[i]]
    BY <1>1, <1>2
  <2> QED BY <2>1, <2>2, SameFunctions
<1>8. def.capabilities = raw.capabilities
  <2>1. ASSUME NEW i \in DOMAIN spec.capabilities PROVE def.capabilities[i] = raw.capabilities[i]
    <3>1. raw.capabilities[i] = CapabilityToProtocol(spec.capabilities[i]) /\ i \in DOMAIN raw.capabilities
      BY <1>1
    <3>2. def.capabilities[i] = [raw.capabilities[i] EXCEPT !.name = Str(@), !.domain = Str(@), !.status = Or(@, "draft")]
      BY <1>2, <3>1
    <3>3. NamedEntry(spec.capabilities[i])
      BY <1>3 DEF RegistryLists
    <3> QED BY <3>1, <3>2, <3>3, CapabilityStays
  <2>2. /\ raw.capabilities = [i \in DOMAIN spec.capabilities |-> raw.capabilities[i]] /\ DOMAIN raw.capabilities = DOMAIN spec.capabilities
        /\ def.capabilities = [i \in DOMAIN raw.capabilities |-> def.capabilities[i]]
    BY <1>1, <1>2
  <2> QED BY <2>1, <2>2, SameFunctions
<1>9. /\ \A i \in DOMAIN raw.methods : /\ raw.methods[i].id = spec.methods[i].id
                                      /\ raw.methods[i].name = spec.methods[i].name
      /\ \A i \in DOMAIN raw.events : /\ raw.events[i].id = spec.events[i].id
                                      /\ raw.events[i].name = spec.events[i].name
      /\ \A i \in DOMAIN raw.errors : /\ raw.errors[i].id = spec.errors[i].id
                                      /\ raw.errors[i].name = spec.errors[i].name
  BY <1>1 DEF MethodToProtocol, EventToProtocol, ErrorToProtocol
<1>10. \A i \in DOMAIN raw.capabilities : /\ raw.capabilities[i].id = spec.capabilities[i].id
                                          /\ raw.capabilities[i].name = spec.capabilities[i].name
  <2> SUFFICES ASSUME NEW i \in DOMAIN spec.capabilities
               PROVE  /\ CapabilityToProtocol(spec.capabilities[i]).id = spec.capabilities[i].id
                      /\ CapabilityToProtocol(spec.capabilities[i]).name = spec.capabilities[i].name
    BY <1>1
  <2>1. {"id", "name", "domain", "status"} \subseteq DOMAIN spec.capabilities[i]
    BY <1>3 DEF RegistryLists, NamedEntry
  <2> QED BY <2>1 DEF CapabilityToProtocol
<1>11. /\ Elements(raw.methods) /\ Elements(raw.events) /\ Elements(raw.errors) /\ Elements(raw.capabilities)
       /\ DOMAIN raw.methods = DOMAIN spec.methods /\ DOMAIN raw.events = DOMAIN spec.events
       /\ DOMAIN raw.errors = DOMAIN spec.errors /\ DOMAIN raw.capabilities = DOMAIN spec.capabilities
  <2>1. /\ raw.methods = [i \in DOMAIN spec.methods |-> raw.methods[i]]
        /\ raw.events = [i \in DOMAIN spec.events |-> raw.events[i]]
        /\ raw.errors = [i \in DOMAIN spec.errors |-> raw.errors[i]]
        /\ raw.capabilities = [i \in DOMAIN spec.capabilities |-> raw.capabilities[i]]
    BY <1>1
  <2> QED BY <1>4, <2>1, ElementsAt
<1>12. \A list \in RegistryLists :
          /\ def[list] = raw[list] /\ Elements(raw[list])
          /\ DOMAIN raw[list] = DOMAIN spec[list]
          /\ \A i \in DOMAIN raw[list] : /\ raw[list][i].id = spec[list][i].id
                                         /\ raw[list][i].name = spec[list][i].name
  BY <1>5, <1>6, <1>7, <1>8, <1>9, <1>10, <1>11 DEF RegistryLists
<1> QED BY <1>12 DEF raw, def

\* Bits without gaps and without twins.
LEMMA BitsFollow ==
    ASSUME NEW items, AssertDomainBits(items) PROVE BitsAreDense(ToSet(items))
<1> SUFFICES ASSUME NEW i \in DOMAIN items
             PROVE  /\ \A b \in 0..(items[i].bitOffset - 1) :
                         \E y \in ToSet(items) : y.domain = items[i].domain /\ y.bitOffset = b
                    /\ \A j \in DOMAIN items : items[i].domain = items[j].domain
                          /\ items[i].bitOffset = items[j].bitOffset => items[i] = items[j]
  BY DEF BitsAreDense, ToSet
<1>1. items[i] \in ToSet(items)
  BY DEF ToSet
<1> QED BY <1>1 DEF AssertDomainBits

\* Entries with numbers and names of their own, but for those without a name.
LEMMA UniqueIsNames ==
    ASSUME NEW items, Elements(items), AssertUniqueIds(items),
           \A i, j \in DOMAIN items :
               i < j /\ items[i].name = items[j].name => ~Truthy(items[i].name)
    PROVE  NumbersAreNames(ToSet(items))
<1>1. DOMAIN items \subseteq Int
  BY DEF Elements
<1> SUFFICES ASSUME NEW i \in DOMAIN items, NEW j \in DOMAIN items
             PROVE  /\ items[i].id = items[j].id /\ Truthy(items[i].name) /\ Truthy(items[j].name)
                          => items[i].name = items[j].name
                    /\ items[i].name = items[j].name /\ Truthy(items[i].name) => items[i].id = items[j].id
  BY DEF NumbersAreNames, ToSet
<1>2. i = j \/ i < j \/ j < i
  BY <1>1
<1>3. \A a, b \in DOMAIN items : a < b /\ items[a].id = items[b].id => ~Truthy(items[a].name)
  BY DEF AssertUniqueIds, UniqueKey
<1> QED BY <1>2, <1>3

\* Names and numbers that passed as unique.
LEMMA AssertUniqueIsNames ==
    ASSUME NEW items, Elements(items), AssertUnique(items) PROVE NumbersAreNames(ToSet(items))
<1>1. AssertUniqueIds(items)
  BY DEF AssertUnique
<1>2. \A i, j \in DOMAIN items : i < j /\ items[i].name = items[j].name => ~Truthy(items[i].name)
  BY DEF AssertUnique, UniqueKey
<1> QED BY <1>1, <1>2, UniqueIsNames

Lists(def) == \A list \in RegistryLists : Elements(def[list])

\* What the validator of definitions accepts is closed, whatever it was made from
\* (protocolValidator.ts:309-417).
LEMMA ValidIsClosed ==
    ASSUME NEW def, Lists(def), ValidateProtocolDefinition(def) PROVE Closed(def)
<1>1. /\ AssertMethodReferences(def) /\ AssertEventReferences(def) /\ ProfileReferences(def)
      /\ AssertDomainBits(def.methods) /\ AssertDomainBits(def.events)
      /\ AssertDomainIdAlignment(def)
      /\ AssertUnique(def.methods) /\ AssertUnique(def.events)
      /\ AssertUnique(def.errors) /\ AssertUnique(def.capabilities)
  BY DEF ValidateProtocolDefinition
<1>2. ReferencesResolve(def)
  BY <1>1 DEF AssertMethodReferences, AssertEventReferences, ProfileReferences, ReferencesResolve
<1>3. BitsAreDense(ToSet(def.methods)) /\ BitsAreDense(ToSet(def.events))
  BY <1>1, BitsFollow
<1>4. ASSUME NEW list \in RegistryLists PROVE NumbersAreNames(ToSet(def[list]))
  <2>1. AssertUnique(def[list]) /\ Elements(def[list])
    BY <1>1 DEF RegistryLists, Lists
  <2> QED BY <2>1, AssertUniqueIsNames
<1> QED BY <1>1, <1>2, <1>3, <1>4 DEF Closed, AssertDomainIdAlignment

\* A definition is closed with another that has the same lists, schemas of the same
\* names, and profiles that ask for the same.
Alike(a, b) ==
    /\ \A list \in RegistryLists : a[list] = b[list]
    /\ NamesOf(a.schemas) = NamesOf(b.schemas)
    /\ \A p \in ToSet(b.profiles) : \E q \in ToSet(a.profiles) :
         /\ p.requiredMethods = q.requiredMethods /\ p.requiredEvents = q.requiredEvents
         /\ p.requiredErrors = q.requiredErrors

\* Being closed is a matter of what Alike compares.
LEMMA AlikeIsClosed ==
    ASSUME NEW a, NEW b, Alike(a, b), Closed(a) PROVE Closed(b)
<1>1. a.methods = b.methods /\ a.events = b.events /\ a.errors = b.errors /\ a.capabilities = b.capabilities
  BY DEF Alike, RegistryLists
<1>2. ReferencesResolve(b)
  <2>1. ReferencesResolve(a)
    BY DEF Closed
  <2>2. ASSUME NEW p \in ToSet(b.profiles)
        PROVE  /\ p.requiredMethods \subseteq NamesOf(b.methods)
               /\ p.requiredEvents \subseteq NamesOf(b.events)
               /\ p.requiredErrors \subseteq NamesOf(b.errors)
    <3>1. PICK q \in ToSet(a.profiles) : /\ p.requiredMethods = q.requiredMethods
                                         /\ p.requiredEvents = q.requiredEvents
                                         /\ p.requiredErrors = q.requiredErrors
      BY DEF Alike
    <3>2. /\ q.requiredMethods \subseteq NamesOf(a.methods)
          /\ q.requiredEvents \subseteq NamesOf(a.events)
          /\ q.requiredErrors \subseteq NamesOf(a.errors)
      BY <2>1 DEF ReferencesResolve
    <3> QED BY <1>1, <3>1, <3>2
  <2>3. NamesOf(a.schemas) = NamesOf(b.schemas)
    BY DEF Alike
  <2> QED BY <1>1, <2>1, <2>2, <2>3 DEF ReferencesResolve
<1>3. \A list \in RegistryLists : NumbersAreNames(ToSet(b[list]))
  <2>1. \A list \in RegistryLists : NumbersAreNames(ToSet(a[list])) /\ a[list] = b[list]
    BY DEF Closed, Alike
  <2> QED BY <2>1
<1> QED BY <1>1, <1>2, <1>3 DEF Closed

\* The JSON form holds the same lists.
LEMMA JsonIsAlike == ASSUME NEW def PROVE Alike(def, ToProtocolJson(def))
<1> DEFINE json == ToProtocolJson(def)
<1>1. /\ json.methods = def.methods /\ json.events = def.events /\ json.errors = def.errors
      /\ json.schemas = def.schemas /\ json.capabilities = def.capabilities
      /\ json.profiles = def.profiles
  BY DEF ToProtocolJson
<1> HIDE DEF json
<1>2. Alike(def, json)
  BY <1>1 DEF Alike, RegistryLists
<1> QED BY <1>2 DEF json

\* Schemas keep their names, and profiles what they ask for, when they are read.
LEMMA BuiltSchemas ==
    ASSUME NEW schemas, Keyed(schemas, {"name", "fields"}) PROVE Keyed(BuildSchemas(schemas), {"name", "fields"})
<1> DEFINE more == [i \in DOMAIN schemas |-> IF schemas[i].fields = <<>> THEN <<>> ELSE <<schemas[i]>>]
           kept == FlattenSeq(more)
           first == IF "Empty" \in NamesOf(kept) THEN <<>>
                    ELSE <<[name |-> "Empty", kind |-> "object", fields |-> <<>>]>>
           rest == [i \in DOMAIN kept |-> [kept[i] EXCEPT !.fields = Map(@, FieldToTypeField)]]
<1>1. BuildSchemas(schemas) = first \o rest
  BY Zenon DEF BuildSchemas, Map
<1>2. Elements(more) /\ DOMAIN more = DOMAIN schemas
  <2>1. more = [i \in DOMAIN schemas |-> more[i]]
    OBVIOUS
  <2> HIDE DEF more
  <2> QED BY <2>1, ElementsAt DEF Keyed
<1>3. ASSUME NEW i \in DOMAIN more PROVE Keyed(more[i], {"name", "fields"})
  <2>1. schemas[i] \in ToSet(schemas)
    BY <1>2 DEF ToSet
  <2>2. {"name", "fields"} \subseteq DOMAIN schemas[i]
    BY <2>1 DEF Keyed
  <2>3. more[i] = <<>> \/ more[i] = <<schemas[i]>>
    BY <1>2
  <2>4. Keyed(<<>>, {"name", "fields"})
    BY DEF Keyed, Elements, ToSet
  <2>5. Keyed(<<schemas[i]>>, {"name", "fields"})
    <3>1. PICK x : x = schemas[i]
      OBVIOUS
    <3>2. <<x>> \in Seq({x}) /\ ToSet(<<x>>) = {x}
      BY DEF ToSet
    <3> QED BY <2>2, <3>1, <3>2 DEF Keyed, Elements
  <2> HIDE DEF more
  <2> QED BY <2>3, <2>4, <2>5
<1> HIDE DEF more
<1>4. Keyed(kept, {"name", "fields"})
  BY <1>2, <1>3, KeyedFlat
<1> HIDE DEF kept
<1>5. Keyed(first, {"name", "fields"})
  <2> DEFINE x == [name |-> "Empty", kind |-> "object", fields |-> <<>>]
  <2>1. {"name", "fields"} \subseteq DOMAIN x
    OBVIOUS
  <2>2. first = <<>> \/ first = <<x>>
    OBVIOUS
  <2> HIDE DEF x, first
  <2>3. <<x>> \in Seq({x}) /\ ToSet(<<x>>) = {x} /\ <<>> \in Seq({}) /\ ToSet(<<>>) = {}
    BY DEF ToSet
  <2> QED BY <2>1, <2>2, <2>3 DEF Keyed, Elements
<1>6. Keyed(rest, {"name", "fields"})
  <2>1. Elements(rest) /\ DOMAIN rest = DOMAIN kept
    <3>1. rest = [i \in DOMAIN kept |-> rest[i]]
      OBVIOUS
    <3> HIDE DEF rest
    <3> QED BY <1>4, <3>1, ElementsAt DEF Keyed
  <2>2. \A i \in DOMAIN rest : DOMAIN rest[i] = DOMAIN kept[i]
    BY <2>1
  <2> HIDE DEF rest
  <2> QED BY <1>4, <2>1, <2>2 DEF Keyed, ToSet
<1> HIDE DEF first, rest
<1> QED BY <1>1, <1>5, <1>6, KeyedJoin

\* The profiles that the builder adds ask for something.
LEMMA DefaultProfilesAsk ==
    ASSUME NEW spec PROVE Keyed(DefaultProfiles(spec), Required)
<1>0. \A name, mvp, transports, frameProfile, frameProfiles :
         Required \subseteq DOMAIN Profile(name, mvp, transports, frameProfile, frameProfiles)
  BY DEF Profile, Required
<1>1. PICK a, b : DefaultProfiles(spec) = <<a, b>> /\ Required \subseteq DOMAIN a /\ Required \subseteq DOMAIN b
  BY <1>0, Zenon DEF DefaultProfiles
<1>2. <<a, b>> \in Seq({a, b}) /\ ToSet(<<a, b>>) = {a, b}
  BY DEF ToSet
<1> QED BY <1>1, <1>2 DEF Keyed, Elements

\* A definition that was built, before and after it is read.
LEMMA LoadedIsAlike ==
    ASSUME NEW spec, Sourced(spec)
    PROVE  LET raw == BuildProtocolDefinitionRaw(spec)
           IN  Alike(LoadProtocolDefinitionFromRaw(raw), raw)
<1> DEFINE raw == BuildProtocolDefinitionRaw(spec)
           def == LoadProtocolDefinitionFromRaw(raw)
<1>1. \A list \in RegistryLists : def[list] = raw[list]
  BY BuiltIsLoaded
<1>2. raw.schemas = BuildSchemas(spec.schemas) /\ raw.profiles = DefaultProfiles(spec) \o spec.profiles
  BY DEF BuildProtocolDefinitionRaw
<1> HIDE DEF raw
<1>3. /\ def.schemas = [i \in DOMAIN raw.schemas |->
                           [raw.schemas[i] EXCEPT !.kind = Or(@, "object"), !.fields = Map(@, MapField)]]
      /\ def.profiles = [i \in DOMAIN raw.profiles |-> [raw.profiles[i] EXCEPT !.name = Str(@)]]
  BY DEF LoadProtocolDefinitionFromRaw, MapTypes, MapProfiles, Map
<1> HIDE DEF def
<1>4. Keyed(raw.schemas, {"name", "fields"})
  BY <1>2, BuiltSchemas DEF Sourced
<1>5. NamesOf(def.schemas) = NamesOf(raw.schemas)
  <2>1. ASSUME NEW i \in DOMAIN raw.schemas PROVE def.schemas[i].name = raw.schemas[i].name
    <3>1. raw.schemas[i] \in ToSet(raw.schemas)
      BY DEF ToSet
    <3>2. "name" \in DOMAIN raw.schemas[i]
      BY <1>4, <3>1 DEF Keyed
    <3>3. PICK r : r = raw.schemas[i]
      OBVIOUS
    <3>4. def.schemas[i] = [r EXCEPT !.kind = Or(@, "object"), !.fields = Map(@, MapField)]
      BY <1>3, <3>3
    <3>5. [r EXCEPT !.kind = Or(@, "object"), !.fields = Map(@, MapField)].name = r.name
      BY <3>2, <3>3
    <3> QED BY <3>3, <3>4, <3>5
  <2>2. DOMAIN def.schemas = DOMAIN raw.schemas
    BY <1>3
  <2> QED BY <2>1, <2>2 DEF NamesOf, ToSet
<1>6. Keyed(raw.profiles, Required)
  <2>1. Keyed(spec.profiles, Required)
    BY DEF Sourced
  <2> QED BY <1>2, <2>1, DefaultProfilesAsk, KeyedJoin
<1>7. ASSUME NEW p \in ToSet(raw.profiles)
      PROVE  \E q \in ToSet(def.profiles) :
               /\ p.requiredMethods = q.requiredMethods /\ p.requiredEvents = q.requiredEvents
               /\ p.requiredErrors = q.requiredErrors
  <2>1. PICK i \in DOMAIN raw.profiles : p = raw.profiles[i]
    BY DEF ToSet
  <2>2. Required \subseteq DOMAIN p
    BY <1>6 DEF Keyed
  <2>3. def.profiles[i] = [p EXCEPT !.name = Str(@)] /\ i \in DOMAIN def.profiles
    BY <1>3, <2>1
  <2>4. def.profiles[i] \in ToSet(def.profiles)
    BY <2>3 DEF ToSet
  <2>5. PICK q : q = [p EXCEPT !.name = Str(@)]
    OBVIOUS
  <2>6. /\ p.requiredMethods = q.requiredMethods /\ p.requiredEvents = q.requiredEvents
        /\ p.requiredErrors = q.requiredErrors
    BY <2>2, <2>5 DEF Required
  <2> QED BY <2>3, <2>4, <2>5, <2>6
<1>8. Alike(def, raw)
  BY <1>1, <1>5, <1>7 DEF Alike
<1> QED BY <1>8 DEF def, raw

\* What is made from loaded sources, and passes as a definition, is closed as it is
\* written and as it is read.
LEMMA BuiltIsClosed ==
    ASSUME NEW spec, Sourced(spec), NEW def,
           def = LoadProtocolDefinitionFromRaw(BuildProtocolDefinitionRaw(spec)),
           ValidateProtocolDefinition(def)
    PROVE  Closed(BuildProtocolDefinitionRaw(spec))
<1>1. PICK raw : raw = BuildProtocolDefinitionRaw(spec)
  OBVIOUS
<1>2. def = LoadProtocolDefinitionFromRaw(raw)
  BY <1>1
<1>3. Lists(def) /\ Alike(def, raw)
  <2>1. \A list \in RegistryLists : def[list] = raw[list] /\ Elements(raw[list])
    BY <1>1, <1>2, BuiltIsLoaded
  <2>2. Alike(LoadProtocolDefinitionFromRaw(BuildProtocolDefinitionRaw(spec)), BuildProtocolDefinitionRaw(spec))
    BY LoadedIsAlike
  <2> QED BY <1>1, <1>2, <2>1, <2>2 DEF Lists
<1>4. Closed(def)
  BY <1>3, ValidIsClosed
<1> QED BY <1>1, <1>3, <1>4, AlikeIsClosed

\* A definition on disk, and what is read from it.
LEMMA LoadedLists ==
    ASSUME NEW raw, Lists(raw) PROVE Lists(LoadProtocolDefinitionFromRaw(raw))
<1> DEFINE def == LoadProtocolDefinitionFromRaw(raw)
<1>1. /\ def.methods = MapMethods(raw.methods) /\ def.events = MapEvents(raw.events)
      /\ def.errors = MapErrors(raw.errors) /\ def.capabilities = MapCapabilities(raw.capabilities)
  BY DEF LoadProtocolDefinitionFromRaw
<1> HIDE DEF def
<1>2. /\ \E f : def.methods = [i \in DOMAIN raw.methods |-> f[i]]
      /\ \E f : def.events = [i \in DOMAIN raw.events |-> f[i]]
      /\ \E f : def.errors = [i \in DOMAIN raw.errors |-> f[i]]
      /\ \E f : def.capabilities = [i \in DOMAIN raw.capabilities |-> f[i]]
  <2>1. /\ def.methods = [i \in DOMAIN raw.methods |-> def.methods[i]]
        /\ def.events = [i \in DOMAIN raw.events |-> def.events[i]]
    BY <1>1 DEF MapMethods, MapEvents, Map
  <2>2. /\ def.errors = [i \in DOMAIN raw.errors |-> def.errors[i]]
        /\ def.capabilities = [i \in DOMAIN raw.capabilities |-> def.capabilities[i]]
    BY <1>1 DEF MapErrors, MapCapabilities, Map
  <2> QED BY <2>1, <2>2
<1>3. ASSUME NEW list \in RegistryLists PROVE Elements(def[list])
  <2>1. PICK f : def[list] = [i \in DOMAIN raw[list] |-> f[i]]
    BY <1>2 DEF RegistryLists
  <2>2. def[list] = [i \in DOMAIN raw[list] |-> def[list][i]]
    BY <2>1
  <2>3. Elements(raw[list])
    BY DEF Lists
  <2> QED BY <2>2, <2>3, ElementsAt
<1>4. Lists(def)
  BY <1>3 DEF Lists
<1> QED BY <1>4 DEF def

IsByte(b) == 0 <= b /\ b < 256
\* The numbers of bytes, for the arithmetic below.
LEMMA Bytes == \A b \in 0..255 : IsByte(b)
  BY DEF IsByte

(* ---- what the checks of the sources say of a registry ---- *)

\* Where the shifted number is a byte, the number has two bytes, if it is a word.
LEMMA ByteIsTwoBytes ==
    ASSUME NEW id \in Int, 2 * id >= -Word, id < Word, IsByte(HighByte(id))
    PROVE  0 <= id /\ id < 65536
<1>1. Word \in Nat /\ Word >= 4 * 65536
  BY WordAssumption
<1> DEFINE word == id % Word
<1>2. word = IF id >= 0 THEN id ELSE id + Word
  BY <1>1
<1>3. HighByte(id) = IF 2 * word < Word THEN word \div 256 ELSE (word - Word) \div 256
  BY DEF HighByte
<1> HIDE DEF word
<1>4. CASE 2 * word < Word
  <2>1. id >= 0 /\ word = id
    BY <1>1, <1>2, <1>4
  <2>2. 0 <= id \div 256 /\ id \div 256 < 256
    BY <1>3, <1>4, <2>1 DEF IsByte
  <2>3. id < 65536
    BY <2>1, <2>2
  <2> QED BY <2>1, <2>3
<1>5. CASE ~(2 * word < Word)
  <2>1. word - Word \in Int /\ word - Word < 0
    BY <1>1, <1>2
  <2>2. (word - Word) \div 256 < 0
    BY <2>1
  <2>3. PICK h : h = (word - Word) \div 256
    OBVIOUS
  <2>4. HighByte(id) = h
    BY <1>3, <1>5, <2>3
  <2>5. h \in Int /\ h < 0
    BY <2>1, <2>2, <2>3
  <2> QED BY <2>4, <2>5 DEF IsByte
<1> QED BY <1>4, <1>5

\* A range that was declared, or that the entries claim, is a byte.
LEMMA RangesAreBytes ==
    ASSUME NEW cs, ~AddDomainThrows(cs), NEW b, Truthy(DomainAt(AddDomain(cs), b)) PROVE IsByte(b)
<1>1. b \in DOMAIN AddDomain(cs)
  BY DEF DomainAt, Truthy
<1>2. PICK c \in ToSet(cs) : b = c.byte
  BY <1>1 DEF AddDomain
<1>3. c.byte \in 0..255
  BY <1>2, Zenon DEF AddDomainThrows, ToSet
<1> QED BY <1>2, <1>3, Bytes

\* So the high byte of every accepted number is a byte.
LEMMA RangesFit ==
    ASSUME NEW items, NEW zero, NEW cs, ~AddDomainThrows(cs),
           AssertRegistryDomainRanges(items, zero, AddDomain(cs)), NEW x \in ToSet(items)
    PROVE  IsByte(HighByte(x.id))
<1> DEFINE byte == HighByte(x.id)
<1>1. CASE Truthy(DomainAt(AddDomain(cs), byte))
  BY <1>1, RangesAreBytes
<1>2. CASE ~Truthy(DomainAt(AddDomain(cs), byte))
  <2>1. byte = 0 \/ byte \in 112..126 \/ byte = 127
    BY <1>2 DEF AssertRegistryDomainRanges
  <2> QED BY <2>1 DEF IsByte
<1> QED BY <1>1, <1>2

\* The rows of a list in a registry.
RowsOf(rows, items) ==
    /\ \A r \in rows : \E x \in ToSet(items) : r.id = x.id /\ r.name = x.name
    /\ \A r, q \in rows : r.name = q.name /\ (\A i, j \in DOMAIN items : items[i].name = items[j].name => i = j)
                              => r = q

\* Rows are as unique as their items.
LEMMA RowsAreNames ==
    ASSUME NEW items, NumbersAreNames(ToSet(items)), NEW rows, RowsOf(rows, items) PROVE NumbersAreNames(rows)
<1> SUFFICES ASSUME NEW r \in rows, NEW q \in rows
             PROVE  /\ r.id = q.id /\ Truthy(r.name) /\ Truthy(q.name) => r.name = q.name
                    /\ r.name = q.name /\ Truthy(r.name) => r.id = q.id
  BY DEF NumbersAreNames
<1>1. PICK x \in ToSet(items) : r.id = x.id /\ r.name = x.name
  BY DEF RowsOf
<1>2. PICK y \in ToSet(items) : q.id = y.id /\ q.name = y.name
  BY DEF RowsOf
<1> QED BY <1>1, <1>2 DEF NumbersAreNames

\* Every table of the registries has rows of its list.
LEMMA RegistryRows ==
    ASSUME NEW spec, NEW list \in RegistryLists PROVE RowsOf(EmitRegistries(spec)[list], spec[list])
<1> DEFINE rows == EmitRegistries(spec)[list]
           items == spec[list]
<1>1. PICK f : /\ \A r \in rows : \E i \in DOMAIN items : r = f[i]
               /\ \A i \in DOMAIN items : f[i].id = items[i].id /\ f[i].name = items[i].name
  <2>1. CASE list = "methods"
    <3> DEFINE f == [i \in DOMAIN items |-> DescribeMethod(items[i])]
    <3>1. \A r \in rows : \E i \in DOMAIN items : r = f[i]
      BY <2>1 DEF EmitRegistries, ToSet
    <3>2. \A i \in DOMAIN items : f[i].id = items[i].id /\ f[i].name = items[i].name
      BY DEF DescribeMethod
    <3> QED BY <3>1, <3>2
  <2>2. CASE list = "events"
    <3> DEFINE f == [i \in DOMAIN items |-> DescribeEvent(items[i])]
    <3>1. \A r \in rows : \E i \in DOMAIN items : r = f[i]
      BY <2>2 DEF EmitRegistries, ToSet
    <3>2. \A i \in DOMAIN items : f[i].id = items[i].id /\ f[i].name = items[i].name
      BY DEF DescribeEvent
    <3> QED BY <3>1, <3>2
  <2>3. CASE list = "errors"
    <3> DEFINE f == [i \in DOMAIN items |-> DescribeError(items[i])]
    <3>1. \A r \in rows : \E i \in DOMAIN items : r = f[i]
      BY <2>3 DEF EmitRegistries, ToSet
    <3>2. \A i \in DOMAIN items : f[i].id = items[i].id /\ f[i].name = items[i].name
      BY DEF DescribeError
    <3> QED BY <3>1, <3>2
  <2>4. CASE list = "capabilities"
    <3> DEFINE f == [i \in DOMAIN items |-> DescribeCapability(items[i])]
    <3>1. \A r \in rows : \E i \in DOMAIN items : r = f[i]
      BY <2>4 DEF EmitRegistries, ToSet
    <3>2. \A i \in DOMAIN items : f[i].id = items[i].id /\ f[i].name = items[i].name
      BY DEF DescribeCapability
    <3> QED BY <3>1, <3>2
  <2> QED BY <2>1, <2>2, <2>3, <2>4 DEF RegistryLists
<1> HIDE DEF rows, items
<1>2. RowsOf(rows, items)
  BY <1>1 DEF RowsOf, ToSet
<1> QED BY <1>2 DEF rows, items

\* Names of their own, numbers of their own for named entries, and two bytes each.
LEMMA ValidSpecRegistries ==
    ASSUME NEW spec, Sourced(spec), ValidateSpec(spec), NEW list \in RegistryLists
    PROVE  /\ NumbersAreNames(ToSet(spec[list])) /\ FitsTwoBytes(ToSet(spec[list]))
           /\ AssertUniqueNames(spec[list])
<1> DEFINE cs == SourceDomainByHighByte(spec)
           zero == IF list = "errors" THEN {"common", "frame", "control", "rpc"}
                   ELSE IF list = "capabilities" THEN {"protocol", "common", "reserved"} ELSE {}
<1>1. /\ ~AddDomainThrows(cs) /\ AssertUniqueIds(spec[list]) /\ AssertUniqueNames(spec[list])
      /\ AssertRegistryDomainRanges(spec[list], zero, AddDomain(cs))
  <2> HIDE DEF cs
  <2>1. \/ list = "methods" /\ zero = {}
        \/ list = "events" /\ zero = {}
        \/ list = "errors" /\ zero = {"common", "frame", "control", "rpc"}
        \/ list = "capabilities" /\ zero = {"protocol", "common", "reserved"}
    BY DEF RegistryLists
  <2> HIDE DEF zero
  <2> QED BY <2>1 DEF ValidateSpec, cs
<1> HIDE DEF cs, zero
<1>2. Elements(spec[list])
  BY DEF Sourced, Named
<1>3. NumbersAreNames(ToSet(spec[list]))
  <2>1. \A i, j \in DOMAIN spec[list] :
           i < j /\ spec[list][i].name = spec[list][j].name => ~Truthy(spec[list][i].name)
    <3>1. DOMAIN spec[list] \subseteq Int
      BY <1>2 DEF Elements
    <3> QED BY <1>1, <3>1 DEF AssertUniqueNames
  <2> QED BY <1>1, <1>2, <2>1, UniqueIsNames
<1>4. FitsTwoBytes(ToSet(spec[list]))
  <2> SUFFICES ASSUME NEW x \in ToSet(spec[list]), 2 * x.id >= -Word, x.id < Word
               PROVE  0 <= x.id /\ x.id < 65536
    BY DEF FitsTwoBytes
  <2>1. IsByte(HighByte(x.id))
    BY <1>1, RangesFit
  <2>2. x.id \in Int
    BY DEF Sourced, Named, NamedEntry
  <2> QED BY <2>1, <2>2, ByteIsTwoBytes
<1> QED BY <1>1, <1>3, <1>4

(* ---- the registry of the generated methods ---- *)

NoMethods == [nameToId |-> <<>>, idToName |-> <<>>]

\* The registry after each of the first methods of a list.
LEMMA AddedExists ==
    ASSUME NEW s, NEW n \in Nat
    PROVE  \E f : f = [i \in 0..n |-> IF i = 0 THEN NoMethods ELSE AddMethod(f[i - 1], s[i])]
<1> DEFINE Is(f, k) == \A i \in 0..k : f[i] = IF i = 0 THEN NoMethods ELSE AddMethod(f[i - 1], s[i])
           P(k) == \E f : f = [i \in 0..k |-> f[i]] /\ Is(f, k)
           A == {k \in Nat : P(k)}
<1>1. P(0)
  <2> DEFINE f == [i \in 0..0 |-> NoMethods]
  <2>1. f = [i \in 0..0 |-> f[i]] /\ Is(f, 0)
    <3> HIDE DEF NoMethods
    <3> QED OBVIOUS
  <2> QED BY <2>1
<1>2. ASSUME NEW k \in Nat, P(k) PROVE P(k + 1)
  <2>1. PICK f : f = [i \in 0..k |-> f[i]] /\ Is(f, k)
    BY <1>2
  <2>2. PICK last : last = AddMethod(f[k], s[k + 1])
    OBVIOUS
  <2> DEFINE g == [i \in 0..(k + 1) |-> IF i = k + 1 THEN last ELSE f[i]]
  <2>3. g[k + 1] = last /\ \A i \in 0..k : g[i] = f[i]
    OBVIOUS
  <2>4. g = [i \in 0..(k + 1) |-> g[i]]
    OBVIOUS
  <2> HIDE DEF g
  <2>5. ASSUME NEW i \in 0..(k + 1) PROVE g[i] = IF i = 0 THEN NoMethods ELSE AddMethod(g[i - 1], s[i])
    <3>1. CASE i = k + 1
      <4>1. i # 0 /\ i - 1 = k /\ g[k] = f[k]
        BY <2>3, <3>1
      <4>2. g[i] = AddMethod(g[i - 1], s[i])
        BY <2>2, <2>3, <3>1, <4>1
      <4> QED BY <4>1, <4>2
    <3>2. CASE i # k + 1
      <4>1. i \in 0..k /\ (i # 0 => i - 1 \in 0..k)
        BY <3>2
      <4>2. g[i] = f[i] /\ (i # 0 => g[i - 1] = f[i - 1])
        BY <2>3, <4>1
      <4>3. f[i] = IF i = 0 THEN NoMethods ELSE AddMethod(f[i - 1], s[i])
        BY <2>1, <4>1
      <4> QED BY <4>2, <4>3
    <3> QED BY <3>1, <3>2
  <2> QED BY <2>4, <2>5
<1> HIDE DEF P
<1>3. 0 \in A /\ \A k \in Nat : k \in A => k + 1 \in A
  BY <1>1, <1>2
<1> HIDE DEF A
<1>4. P(n)
  <2>1. n \in A
    BY <1>3, Induction
  <2> QED BY <2>1 DEF A
<1>5. PICK f : f = [i \in 0..n |-> f[i]] /\ Is(f, n)
  BY <1>4 DEF P
<1>6. f = [i \in 0..n |-> IF i = 0 THEN NoMethods ELSE AddMethod(f[i - 1], s[i])]
  BY <1>5
<1> QED BY <1>6

\* A registry that has the first methods of a list, and no others.
Registers(reg, s, n) ==
    /\ DOMAIN reg.nameToId = {s[i].name : i \in 1..n} /\ DOMAIN reg.idToName = {s[i].id : i \in 1..n}
    /\ \A i \in 1..n : reg.nameToId[s[i].name] = s[i].id /\ reg.idToName[s[i].id] = s[i].name

\* A method that shares neither number nor name leaves the others where they are.
LEMMA AddedRegisters ==
    ASSUME NEW reg, NEW s, NEW n \in Nat, Registers(reg, s, n),
           \A i \in 1..n : s[i].name # s[n + 1].name /\ s[i].id # s[n + 1].id
    PROVE  Registers(AddMethod(reg, s[n + 1]), s, n + 1)
<1>1. PICK row : row = s[n + 1]
  OBVIOUS
<1>2. row.name \notin DOMAIN reg.nameToId /\ row.id \notin DOMAIN reg.idToName
  BY <1>1 DEF Registers
<1> DEFINE new == AddMethod(reg, row)
           names == DOMAIN reg.nameToId \cup {row.name}
           ids == DOMAIN reg.idToName \cup {row.id}
<1>3. /\ new.nameToId = [a \in names |-> IF a = row.name THEN row.id ELSE reg.nameToId[a]]
      /\ new.idToName = [a \in ids |-> IF a = row.id THEN row.name ELSE reg.idToName[a]]
  BY <1>2 DEF AddMethod
<1> HIDE DEF new
<1>4. DOMAIN new.nameToId = names /\ DOMAIN new.idToName = ids
  BY <1>3
<1>5. names = {s[i].name : i \in 1..(n + 1)} /\ ids = {s[i].id : i \in 1..(n + 1)}
  <2>1. 1..(n + 1) = 1..n \cup {n + 1}
    OBVIOUS
  <2> QED BY <1>1, <2>1 DEF Registers
<1>6. ASSUME NEW i \in 1..(n + 1)
      PROVE  new.nameToId[s[i].name] = s[i].id /\ new.idToName[s[i].id] = s[i].name
  <2>1. CASE i = n + 1
    BY <1>1, <1>3, <2>1
  <2>2. CASE i # n + 1
    <3>1. i \in 1..n
      BY <2>2
    <3>2. s[i].name # row.name /\ s[i].id # row.id
      BY <1>1, <3>1
    <3>3. reg.nameToId[s[i].name] = s[i].id /\ reg.idToName[s[i].id] = s[i].name
      BY <3>1 DEF Registers
    <3>4. s[i].name \in names /\ s[i].id \in ids
      BY <1>5
    <3> HIDE DEF names, ids
    <3> QED BY <1>3, <3>2, <3>3, <3>4
  <2> QED BY <2>1, <2>2
<1>7. Registers(new, s, n + 1)
  BY <1>4, <1>5, <1>6 DEF Registers
<1> QED BY <1>1, <1>7 DEF new

\* Methods with numbers and names of their own are all in the registry of generated
\* methods, under both.
LEMMA DefaultsRegister ==
    ASSUME NEW rows, IsFiniteSet(rows), \A r \in rows : r.id \in Int,
           \A r, q \in rows : r.id = q.id \/ r.name = q.name => r = q
    PROVE  \A r \in rows : /\ FromGeneratedDefaults(rows).nameToId[r.name] = r.id
                           /\ FromGeneratedDefaults(rows).idToName[r.id] = r.name
<1> DEFINE key == [r \in rows |-> r.id]
           s == InOrder(rows, key)
           IsAdded(f) == f = [i \in 0..Len(s) |-> IF i = 0 THEN [nameToId |-> <<>>, idToName |-> <<>>]
                                                 ELSE AddMethod(f[i - 1], s[i])]
           c == CHOOSE f : IsAdded(f)
<1>1. \A r \in rows : key[r] = r.id
  OBVIOUS
<1>2. Elements(s) /\ ToSet(s) = rows /\ \A i, j \in DOMAIN s : s[i] = s[j] => i = j
  <2> HIDE DEF key
  <2> QED BY <1>1, InOrderFacts
<1>3. FromGeneratedDefaults(rows) = c[Len(s)]
  BY Zenon DEF FromGeneratedDefaults
<1> HIDE DEF s
<1>4. Len(s) \in Nat /\ DOMAIN s = 1..Len(s)
  BY <1>2 DEF Elements
<1>5. IsAdded(c)
  <2>1. \E f : IsAdded(f)
    BY <1>4, AddedExists DEF NoMethods
  <2> HIDE DEF IsAdded
  <2> QED BY <2>1
<1> HIDE DEF c
<1>6. c[0] = NoMethods /\ \A i \in 1..Len(s) : c[i] = AddMethod(c[i - 1], s[i])
  <2>1. c = [i \in 0..Len(s) |-> IF i = 0 THEN NoMethods ELSE AddMethod(c[i - 1], s[i])]
    BY <1>5 DEF NoMethods
  <2> HIDE DEF NoMethods, IsAdded
  <2> QED BY <1>4, <2>1
<1> HIDE DEF IsAdded
<1> DEFINE A == {n \in Nat : n <= Len(s) => Registers(c[n], s, n)}
<1>7. 0 \in A
  <2>1. NoMethods.nameToId = <<>> /\ NoMethods.idToName = <<>> /\ DOMAIN <<>> = {}
    BY DEF NoMethods
  <2>2. 1..0 = {}
    OBVIOUS
  <2>3. Registers(NoMethods, s, 0)
    BY <2>1, <2>2 DEF Registers
  <2> QED BY <1>6, <2>3
<1>8. ASSUME NEW n \in Nat, n \in A PROVE n + 1 \in A
  <2> SUFFICES ASSUME n + 1 <= Len(s) PROVE Registers(c[n + 1], s, n + 1)
    OBVIOUS
  <2>1. n + 1 \in 1..Len(s) /\ (n + 1) - 1 = n /\ n <= Len(s)
    BY <1>4
  <2>2. c[n + 1] = AddMethod(c[n], s[n + 1])
    BY <1>6, <2>1
  <2>3. Registers(c[n], s, n)
    BY <1>8, <2>1
  <2>4. ASSUME NEW i \in 1..n PROVE s[i].name # s[n + 1].name /\ s[i].id # s[n + 1].id
    <3>1. i \in DOMAIN s /\ n + 1 \in DOMAIN s /\ i # n + 1
      BY <1>4, <2>1
    <3>2. s[i] \in rows /\ s[n + 1] \in rows /\ s[i] # s[n + 1]
      BY <1>2, <3>1 DEF ToSet
    <3> QED BY <3>2
  <2> QED BY <2>2, <2>3, <2>4, AddedRegisters
<1> HIDE DEF A
<1>9. Registers(c[Len(s)], s, Len(s))
  <2>1. Len(s) \in A
    BY <1>4, <1>7, <1>8, Induction
  <2> QED BY <1>4, <2>1 DEF A
<1> SUFFICES ASSUME NEW r \in rows
             PROVE  c[Len(s)].nameToId[r.name] = r.id /\ c[Len(s)].idToName[r.id] = r.name
  BY <1>3
<1>10. PICK i \in 1..Len(s) : r = s[i]
  BY <1>2, <1>4 DEF ToSet
<1> QED BY <1>9, <1>10 DEF Registers

\* And every way of looking one up finds it (ts.ts:116-186).
LEMMA LookupsFollow ==
    ASSUME NEW rows, IsFiniteSet(rows), \A r \in rows : r.id \in Int,
           \A r, q \in rows : r.name = q.name => r = q, NumbersAreNames(rows)
    PROVE  LookupsAgree(rows)
<1> SUFFICES ASSUME \A r \in rows : Truthy(r.name), NEW r \in rows
             PROVE  /\ MethodIdByName(rows, r.name) = r.id
                    /\ MethodById(rows, r.id) = {r}
                    /\ FromGeneratedDefaults(rows).nameToId[r.name] = r.id
                    /\ FromGeneratedDefaults(rows).idToName[r.id] = r.name
  BY DEF LookupsAgree
<1>1. \A p, q \in rows : p.id = q.id \/ p.name = q.name => p = q
  BY DEF NumbersAreNames
<1>2. MethodById(rows, r.id) = {r}
  BY <1>1 DEF MethodById
<1>3. MethodIdByName(rows, r.name) = r.id
  <2>1. {q \in rows : q.name = r.name} = {r}
    BY <1>1
  <2>2. FirstById({r}) = r
    <3>1. \A q \in {r} : r.id <= q.id
      OBVIOUS
    <3> QED BY <3>1 DEF FirstById
  <2> QED BY <2>1, <2>2 DEF MethodIdByName
<1> QED BY <1>1, <1>2, <1>3, DefaultsRegister

(* ---- what is written ---- *)

SoundRegistry(reg) ==
    /\ \A list \in RegistryLists : FitsTwoBytes(reg[list]) /\ NumbersAreNames(reg[list])
    /\ LookupsAgree(reg.methods)

\* The table of methods has a row for each place in the list.
LEMMA MethodRows ==
    ASSUME NEW spec, Named(spec.methods), AssertUniqueNames(spec.methods)
    PROVE  LET rows == EmitRegistries(spec).methods
           IN  IsFiniteSet(rows) /\ (\A r \in rows : r.id \in Int)
               /\ \A r, q \in rows : r.name = q.name => r = q
<1> DEFINE items == spec.methods
           rows == EmitRegistries(spec).methods
           f == [i \in DOMAIN items |-> DescribeMethod(items[i])]
<1>1. rows = {f[i] : i \in DOMAIN items}
  BY DEF EmitRegistries, ToSet
<1>2. \A i \in DOMAIN items : f[i].id = items[i].id /\ f[i].name = items[i].name
  BY DEF DescribeMethod
<1>3. f = [i \in DOMAIN items |-> f[i]]
  OBVIOUS
<1>4. Elements(items) /\ \A i \in DOMAIN items : items[i].id \in Int
  BY DEF Named, NamedEntry, ToSet
<1> HIDE DEF f, rows
<1>5. IsFiniteSet(rows)
  <2>1. IsFiniteSet(DOMAIN items)
    <3>1. DOMAIN items = 1..Len(items) /\ Len(items) \in Nat
      BY <1>4 DEF Elements
    <3>2. IsFiniteSet(1..Len(items))
      BY <3>1, FS_Interval
    <3> QED BY <3>1, <3>2
  <2>2. f \in Surjection(DOMAIN items, rows)
    BY <1>1, <1>3 DEF Surjection
  <2> QED BY <2>1, <2>2, FS_Surjection
<1>6. \A r \in rows : r.id \in Int
  BY <1>1, <1>2, <1>4
<1>7. ASSUME NEW r \in rows, NEW q \in rows, r.name = q.name PROVE r = q
  <2>1. PICK i \in DOMAIN items : r = f[i]
    BY <1>1
  <2>2. PICK j \in DOMAIN items : q = f[j]
    BY <1>1
  <2>3. items[i].name = items[j].name
    BY <1>2, <1>7, <2>1, <2>2
  <2>4. i = j
    BY <2>3 DEF AssertUniqueNames
  <2> QED BY <2>1, <2>2, <2>4
<1> QED BY <1>5, <1>6, <1>7 DEF rows

\* What is emitted from sources that passed their checks is sound.
LEMMA EmittedIsSound ==
    ASSUME NEW spec, Sourced(spec), ValidateSpec(spec)
    PROVE  SoundRegistry(EmitRegistries(spec))
<1>1. ASSUME NEW list \in RegistryLists
      PROVE  FitsTwoBytes(EmitRegistries(spec)[list]) /\ NumbersAreNames(EmitRegistries(spec)[list])
  <2> DEFINE rows == EmitRegistries(spec)[list]
             items == spec[list]
  <2>1. RowsOf(rows, items)
    BY RegistryRows
  <2>2. NumbersAreNames(ToSet(items)) /\ FitsTwoBytes(ToSet(items))
    BY ValidSpecRegistries
  <2> HIDE DEF rows, items
  <2>3. NumbersAreNames(rows)
    BY <2>1, <2>2, RowsAreNames
  <2>4. FitsTwoBytes(rows)
    <3> SUFFICES ASSUME NEW r \in rows, 2 * r.id >= -Word, r.id < Word
                 PROVE  0 <= r.id /\ r.id < 65536
      BY DEF FitsTwoBytes
    <3>1. PICK x \in ToSet(items) : r.id = x.id
      BY <2>1 DEF RowsOf
    <3> QED BY <2>2, <3>1 DEF FitsTwoBytes
  <2> QED BY <2>3, <2>4 DEF rows
<1> DEFINE rows == EmitRegistries(spec).methods
<1>2. "methods" \in RegistryLists /\ EmitRegistries(spec)["methods"] = rows
  BY DEF RegistryLists
<1>3. AssertUniqueNames(spec.methods) /\ Named(spec.methods)
  <2>1. AssertUniqueNames(spec["methods"]) /\ Named(spec["methods"])
    BY <1>2, ValidSpecRegistries DEF Sourced
  <2> QED BY <2>1
<1>4. IsFiniteSet(rows) /\ (\A r \in rows : r.id \in Int) /\ \A r, q \in rows : r.name = q.name => r = q
  BY <1>3, MethodRows
<1>5. NumbersAreNames(rows)
  BY <1>1, <1>2
<1> HIDE DEF rows
<1>6. LookupsAgree(rows)
  BY <1>4, <1>5, LookupsFollow
<1> QED BY <1>1, <1>6 DEF SoundRegistry, rows

JsonFiles == {"docs/protocol.json", "out/protocol.json", "generated/protocol.json"}
Registries == {"docs/tables.md", "mcp/registry.json", "out/registry.json", "out/tables.md",
               "out/cpp", "out/dart", "out/ts"}

\* Every file with a registry has the one of the sources.
LEMMA RegistryContent ==
    ASSUME NEW f \in Registries, NEW spec, NEW def
    PROVE  \A list \in RegistryLists : Content(f, spec, def).registry[list] = EmitRegistries(spec)[list]
<1>1. f \in {"docs/tables.md", "out/tables.md"} \/ f \in {"mcp/registry.json", "out/registry.json"}
      \/ f = "out/cpp" \/ f = "out/dart" \/ f = "out/ts"
  BY DEF Registries
<1>2. CASE f \in {"docs/tables.md", "out/tables.md"}
  <2>1. Content(f, spec, def) = EmitMarkdown(spec)
    BY <1>2 DEF Content, Yaml, Vectors
  <2>2. \A list \in RegistryLists : EmitMarkdown(spec).registry[list] = EmitRegistries(spec)[list]
    BY DEF EmitMarkdown, RegistryLists, MethodTable, EventTable, ErrorTable, CapabilityTable
  <2> QED BY <2>1, <2>2
<1>3. CASE f \in {"mcp/registry.json", "out/registry.json"}
  <2>1. Content(f, spec, def) = EmitJson(spec)
    BY <1>3 DEF Content, Yaml, Vectors
  <2> QED BY <2>1 DEF EmitJson
<1>4. CASE f = "out/cpp"
  <2>1. Content(f, spec, def) = EmitCpp(spec)
    BY <1>4 DEF Content, Yaml, Vectors
  <2> QED BY <2>1 DEF EmitCpp
<1>5. CASE f = "out/dart"
  <2>1. Content(f, spec, def) = EmitDart(spec)
    BY <1>5 DEF Content, Yaml, Vectors
  <2> QED BY <2>1 DEF EmitDart
<1>6. CASE f = "out/ts"
  <2>1. Content(f, spec, def) = EmitTs(spec)
    BY <1>6 DEF Content, Yaml, Vectors
  <2> QED BY <2>1 DEF EmitTs
<1> QED BY <1>1, <1>2, <1>3, <1>4, <1>5, <1>6

\* So every file with a registry is sound.
LEMMA RegistryFileIsSound ==
    ASSUME NEW f \in Registries, NEW spec, Sourced(spec), ValidateSpec(spec), NEW def
    PROVE  SoundRegistry(Content(f, spec, def).registry)
<1> DEFINE written == Content(f, spec, def).registry
           emitted == EmitRegistries(spec)
<1>1. \A list \in RegistryLists : written[list] = emitted[list]
  BY RegistryContent
<1>2. SoundRegistry(emitted)
  BY EmittedIsSound
<1> HIDE DEF written, emitted
<1>3. "methods" \in RegistryLists
  BY DEF RegistryLists
<1>4. written.methods = emitted.methods
  BY <1>1, <1>3
<1>5. LookupsAgree(written.methods)
  BY <1>2, <1>4 DEF SoundRegistry
<1>6. SoundRegistry(written)
  BY <1>1, <1>2, <1>5 DEF SoundRegistry
<1> QED BY <1>6 DEF written

\* And every JSON form of a closed definition is closed.
LEMMA JsonFileIsClosed ==
    ASSUME NEW f \in JsonFiles, NEW spec, NEW def, Closed(def)
    PROVE  Closed(Content(f, spec, def))
<1>1. Content(f, spec, def) = ToProtocolJson(def)
  BY DEF Content, JsonFiles, Yaml, Vectors
<1>2. Closed(ToProtocolJson(def))
  BY JsonIsAlike, AlikeIsClosed
<1> QED BY <1>1, <1>2

Traits == "out/method_traits.h"

(* ---- a command that fails ---- *)

\* Nothing is written before the checks are over, and a file that could not be made
\* stays to be made.
Unwritten(p) ==
    /\ pc[p] = "idle" => ~failed[p]
    /\ pc[p] \in {"registry", "files", "protocol", "check"} => ~failed[p] /\ todo[p] = Outputs(cmd[p])
    /\ pc[p] = "writing" /\ failed[p] => Traits \in todo[p] /\ EmitMethodTraitsThrows(sources[p])
    /\ pc[p] = "failed" => IF failed[p] THEN todo[p] = {Traits} ELSE todo[p] = Outputs(cmd[p])

\* The values of the variables that a step of one process changes.
FunctionsOK ==
    /\ pc = [p \in Procs |-> pc[p]] /\ DOMAIN cmd = Procs /\ DOMAIN registry = Procs
    /\ DOMAIN sources = Procs /\ DOMAIN model = Procs /\ DOMAIN todo = Procs
    /\ DOMAIN cleared = Procs /\ DOMAIN failed = Procs
    /\ DOMAIN disk \subseteq Files

Others(p) ==
    \A q \in Procs \ {p} :
        /\ pc'[q] = pc[q] /\ cmd'[q] = cmd[q] /\ todo'[q] = todo[q] /\ failed'[q] = failed[q]
        /\ registry'[q] = registry[q] /\ sources'[q] = sources[q] /\ model'[q] = model[q]

\* A step of another process leaves this one's files as they are.
LEMMA OthersUnwritten ==
    ASSUME NEW p \in Procs, NEW q \in Procs \ {p}, Others(p), Unwritten(q) PROVE Unwritten(q)'
<1>1. EmitMethodTraitsThrows(sources[q]) => EmitMethodTraitsThrows(sources'[q])
  BY DEF Others
<1> QED BY <1>1 DEF Others, Unwritten

\* The steps before anything is written: the command fails, or goes on to the next
\* phase, and its list of files stays as it is.
Prepares(p) ==
    /\ pc[p] \in {"registry", "files", "protocol", "check"}
    /\ pc'[p] \in {"files", "check", "writing", "failed"}
    /\ pc'[p] = "writing" => pc[p] \in {"files", "check"}
    /\ UNCHANGED <<tree, disk, byHand, saves, cmd, todo, cleared, failed, alone>>

\* What the end of a process changes.
LEMMA EndFacts ==
    ASSUME FunctionsOK, NEW p \in Procs, NEW how, End(p, how)
    PROVE  /\ pc'[p] = how /\ pc' = [q \in Procs |-> pc'[q]]
           /\ DOMAIN registry' = Procs /\ DOMAIN sources' = Procs /\ DOMAIN model' = Procs
           /\ \A q \in Procs \ {p} : /\ pc'[q] = pc[q] /\ registry'[q] = registry[q]
                                   /\ sources'[q] = sources[q] /\ model'[q] = model[q]
  BY DEF End, FunctionsOK

\* Reading the registry.
LEMMA ReadRegistryPrepares ==
    ASSUME FunctionsOK, NEW p \in Procs, ReadRegistry(p)
    PROVE  FunctionsOK' /\ Others(p) /\ Prepares(p) /\ pc'[p] # "writing"
<1>1. pc[p] = "registry" /\ UNCHANGED <<tree, disk, byHand, saves, cmd, todo, cleared, failed, alone>>
  BY DEF ReadRegistry
<1>2. CASE End(p, "failed")
  BY <1>1, <1>2, EndFacts DEF FunctionsOK, Others, Prepares
<1>3. CASE ~End(p, "failed")
  <2>1. /\ pc' = [pc EXCEPT ![p] = "files"] /\ registry' = [registry EXCEPT ![p] = tree.registry]
        /\ UNCHANGED <<sources, model>>
    BY <1>3 DEF ReadRegistry
  <2> QED BY <1>1, <2>1 DEF FunctionsOK, Others, Prepares
<1> QED BY <1>2, <1>3

\* What a command makes of the sources it has read: nothing, what it writes from, or
\* what it checks first.
ReadTree(p) == [tree EXCEPT !.registry = registry[p]]

\* The three ways of reading the domain files.
LEMMA ReadFilesOutcome ==
    ASSUME NEW p, ReadFiles(p), NEW spec, spec = LoadAndValidate(ReadTree(p))
    PROVE  \/ End(p, "failed")
           \/ /\ spec # Undef /\ cmd[p] \notin BuildsProtocol
              /\ sources' = [sources EXCEPT ![p] = spec]
              /\ pc' = [pc EXCEPT ![p] = "writing"]
              /\ UNCHANGED <<registry, model>>
           \/ /\ spec # Undef /\ cmd[p] \in BuildsProtocol /\ BuildProtocolDefinition(spec) # Undef
              /\ sources' = [sources EXCEPT ![p] = spec]
              /\ model' = [model EXCEPT ![p] = BuildProtocolDefinition(spec)]
              /\ pc' = [pc EXCEPT ![p] = "check"]
              /\ UNCHANGED registry
<1> DEFINE built == IF spec = Undef THEN Undef ELSE BuildProtocolDefinition(spec)
<1>1. spec # Undef => built = BuildProtocolDefinition(spec)
  OBVIOUS
<1> HIDE DEF built
<1>2. CASE spec = Undef
  BY <1>2 DEF ReadFiles, ReadTree
<1>3. CASE spec # Undef /\ cmd[p] \notin BuildsProtocol
  BY <1>3 DEF ReadFiles, ReadTree
<1>4. CASE spec # Undef /\ cmd[p] \in BuildsProtocol /\ built = Undef
  BY <1>4 DEF ReadFiles, ReadTree, built
<1>5. CASE spec # Undef /\ cmd[p] \in BuildsProtocol /\ built # Undef
  <2>1. /\ sources' = [sources EXCEPT ![p] = spec]
        /\ model' = [model EXCEPT ![p] = built]
        /\ pc' = [pc EXCEPT ![p] = "check"]
        /\ UNCHANGED registry
    BY <1>5 DEF ReadFiles, ReadTree, built
  <2> QED BY <1>1, <1>5, <2>1
<1> QED BY <1>2, <1>3, <1>4, <1>5

\* Reading the domain files.
LEMMA ReadFilesPrepares ==
    ASSUME FunctionsOK, NEW p \in Procs, ReadFiles(p)
    PROVE  FunctionsOK' /\ Others(p) /\ Prepares(p) /\ pc[p] = "files"
<1>1. pc[p] = "files" /\ UNCHANGED <<tree, disk, byHand, saves, cmd, todo, cleared, failed, alone>>
  BY DEF ReadFiles
<1>2. CASE End(p, "failed")
  BY <1>1, <1>2, EndFacts DEF FunctionsOK, Others, Prepares
<1>3. CASE ~End(p, "failed")
  <2>1. PICK spec : spec = LoadAndValidate(ReadTree(p))
    OBVIOUS
  <2>2. PICK def : def = BuildProtocolDefinition(spec)
    OBVIOUS
  <2>3. \/ /\ sources' = [sources EXCEPT ![p] = spec]
           /\ pc' = [pc EXCEPT ![p] = "writing"]
           /\ UNCHANGED <<registry, model>>
        \/ /\ sources' = [sources EXCEPT ![p] = spec]
           /\ model' = [model EXCEPT ![p] = def]
           /\ pc' = [pc EXCEPT ![p] = "check"]
           /\ UNCHANGED registry
    BY <1>3, <2>1, <2>2, ReadFilesOutcome
  <2> QED BY <1>1, <2>3 DEF FunctionsOK, Others, Prepares
<1> QED BY <1>2, <1>3

\* Loading a definition.
LEMMA LoadPrepares ==
    ASSUME FunctionsOK, NEW p \in Procs, LoadProtocolDefinition(p)
    PROVE  FunctionsOK' /\ Others(p) /\ Prepares(p) /\ pc'[p] \notin {"files", "writing"}
<1>1. pc[p] = "protocol" /\ UNCHANGED <<tree, disk, byHand, saves, cmd, todo, cleared, failed, alone>>
  BY DEF LoadProtocolDefinition
<1>2. CASE End(p, "failed")
  BY <1>1, <1>2, EndFacts DEF FunctionsOK, Others, Prepares
<1>3. CASE ~End(p, "failed")
  <2>1. \E def : /\ model' = [model EXCEPT ![p] = def]
                 /\ pc' = [pc EXCEPT ![p] = "check"]
                 /\ UNCHANGED <<registry, sources>>
    BY <1>3 DEF LoadProtocolDefinition
  <2> QED BY <1>1, <2>1 DEF FunctionsOK, Others, Prepares
<1> QED BY <1>2, <1>3

\* Checking it: whoever goes on to write holds a definition that passed.
LEMMA CheckPrepares ==
    ASSUME FunctionsOK, NEW p \in Procs, CheckProtocol(p)
    PROVE  /\ FunctionsOK' /\ Others(p) /\ Prepares(p)
           /\ pc'[p] # "files"
           /\ pc'[p] = "writing" => ValidateProtocolDefinition(model[p]) /\ model'[p] = model[p]
<1>1. pc[p] = "check" /\ UNCHANGED <<tree, disk, byHand, saves, cmd, todo, cleared, failed, alone>>
  BY DEF CheckProtocol
<1>2. CASE End(p, "failed")
  BY <1>1, <1>2, EndFacts DEF FunctionsOK, Others, Prepares
<1>3. CASE ~End(p, "failed")
  <2>1. /\ ValidateProtocolDefinition(model[p])
        /\ pc' = [pc EXCEPT ![p] = "writing"] /\ UNCHANGED <<registry, sources, model>>
    BY <1>3 DEF CheckProtocol, Accepted
  <2> QED BY <1>1, <2>1 DEF FunctionsOK, Others, Prepares
<1> QED BY <1>2, <1>3

\* The files when one is written or removed.
LEMMA WrittenFiles ==
    ASSUME NEW f, NEW content, NEW files, files = Written(f, content)
    PROVE  /\ DOMAIN files = DOMAIN disk \cup {f} /\ files[f] = content
           /\ \A g \in DOMAIN disk : g # f => files[g] = disk[g]
  BY DEF Written

\* The files when one is removed.
LEMMA RemovedFiles ==
    ASSUME NEW f, NEW files, files = Removed(f)
    PROVE  DOMAIN files = DOMAIN disk \ {f} /\ \A g \in DOMAIN files : files[g] = disk[g]
  BY DEF Removed

\* A step of a process that writes.
Writes(p) ==
    /\ pc[p] = "writing" /\ pc' = pc
    /\ UNCHANGED <<tree, saves, cmd, registry, sources, model, alone>>

\* Writing the definition.
LEMMA WriteProtocolWrites ==
    ASSUME FunctionsOK, NEW p \in Procs, WriteProtocol(p)
    PROVE  FunctionsOK' /\ Others(p) /\ Writes(p) /\ todo'[p] = todo[p] \ {Yaml} /\ UNCHANGED failed
<1>1. DOMAIN disk' \subseteq Files
  <2>1. PICK content : disk' = Written(Yaml, content)
    BY DEF WriteProtocol
  <2>2. DOMAIN disk' = DOMAIN disk \cup {Yaml}
    BY <2>1, WrittenFiles
  <2> QED BY <2>2 DEF FunctionsOK, Files
<1> QED BY <1>1 DEF WriteProtocol, FunctionsOK, Others, Writes

\* Removing the vectors.
LEMMA ClearVectorsWrites ==
    ASSUME FunctionsOK, NEW p \in Procs, ClearVectors(p)
    PROVE  FunctionsOK' /\ Others(p) /\ Writes(p) /\ UNCHANGED <<todo, failed>>
<1>1. DOMAIN disk' \subseteq Files
  <2>1. PICK f : disk' = Removed(f)
    BY DEF ClearVectors
  <2> QED BY <2>1, RemovedFiles DEF FunctionsOK
<1> QED BY <1>1 DEF ClearVectors, CanWrite, FunctionsOK, Others, Writes

\* Writing another file.
LEMMA WriteFileWrites ==
    ASSUME FunctionsOK, NEW p \in Procs, NEW f \in Files, WriteFile(p, f)
    PROVE  /\ FunctionsOK' /\ Others(p) /\ Writes(p) /\ todo'[p] = todo[p] \ {f} /\ UNCHANGED failed
           /\ f = Traits => ~EmitMethodTraitsThrows(sources[p])
<1>1. DOMAIN disk' \subseteq Files
  <2>1. PICK content : disk' = Written(f, content)
    BY DEF WriteFile
  <2>2. DOMAIN disk' = DOMAIN disk \cup {f}
    BY <2>1, WrittenFiles
  <2> QED BY <2>2 DEF FunctionsOK
<1>2. FunctionsOK' /\ Others(p) /\ Writes(p) /\ todo'[p] = todo[p] \ {f} /\ UNCHANGED failed
  BY <1>1 DEF WriteFile, CanWrite, FunctionsOK, Others, Writes
<1> QED BY <1>2 DEF WriteFile, CannotMake, Traits

\* The file that cannot be made.
LEMMA FailFileWrites ==
    ASSUME FunctionsOK, NEW p \in Procs, NEW f \in Files, FailFile(p, f)
    PROVE  /\ FunctionsOK' /\ Others(p) /\ Writes(p) /\ UNCHANGED todo
           /\ Traits \in todo[p] /\ EmitMethodTraitsThrows(sources[p])
<1>1. FunctionsOK' /\ Others(p) /\ Writes(p) /\ UNCHANGED todo
  BY DEF FailFile, CanWrite, FunctionsOK, Others, Writes
<1> QED BY <1>1 DEF FailFile, CanWrite, CannotMake, Traits

\* Starting a command.
LEMMA StartStarts ==
    ASSUME FunctionsOK, NEW p \in Procs, NEW c \in Commands, Start(p, c)
    PROVE  /\ FunctionsOK' /\ Others(p) /\ pc[p] = "idle"
           /\ cmd'[p] = c /\ todo'[p] = Outputs(c) /\ UNCHANGED <<disk, failed>>
           /\ pc'[p] = IF c \in ReadsProtocol THEN "protocol" ELSE "registry"
  BY DEF Start, FunctionsOK, Others

\* Finishing one, or killing it.
LEMMA StopStops ==
    ASSUME FunctionsOK, NEW p \in Procs, Finish(p) \/ Kill(p)
    PROVE  /\ FunctionsOK' /\ Others(p) /\ UNCHANGED <<disk, cmd, todo, failed>>
           /\ pc'[p] \in {"failed", "done", "killed"}
           /\ pc'[p] = "failed" => /\ pc[p] = "writing" /\ failed[p]
                                   /\ todo[p] \subseteq {Traits}
<1>1. CASE Finish(p)
  <2>1. End(p, IF failed[p] THEN "failed" ELSE "done") /\ pc[p] = "writing"
        /\ UNCHANGED <<tree, disk, byHand, saves, cmd, todo, cleared, failed, alone>>
    BY <1>1 DEF Finish
  <2>2. failed[p] => todo[p] \subseteq {Traits}
    BY <1>1 DEF Finish, CannotMake, Traits
  <2>3. CASE failed[p]
    BY <2>1, <2>2, <2>3, EndFacts DEF FunctionsOK, Others
  <2>4. CASE ~failed[p]
    BY <2>1, <2>4, EndFacts DEF FunctionsOK, Others
  <2> QED BY <2>3, <2>4
<1>2. CASE Kill(p)
  BY <1>2, EndFacts DEF Kill, FunctionsOK, Others
<1> QED BY <1>1, <1>2

\* What comes from outside leaves every process where it is.
LEMMA OutsideLeaves ==
    ASSUME FunctionsOK, (\E t \in SavedTrees : SaveTree(t)) \/ (\E def \in Definitions : PutDefinition(def))
                        \/ UNCHANGED vars
    PROVE  FunctionsOK' /\ UNCHANGED procVars
<1>1. CASE \E t \in SavedTrees : SaveTree(t)
  BY <1>1 DEF SaveTree, procVars, FunctionsOK
<1>2. CASE \E def \in Definitions : PutDefinition(def)
  <2>1. PICK def \in Definitions : PutDefinition(def)
    BY <1>2
  <2>2. UNCHANGED procVars /\ disk' = Written(Yaml, def)
    BY <2>1 DEF PutDefinition
  <2>3. DOMAIN disk' = DOMAIN disk \cup {Yaml}
    BY <2>2, WrittenFiles
  <2>4. DOMAIN disk' \subseteq Files
    BY <2>3 DEF FunctionsOK, Files
  <2> QED BY <2>2, <2>4 DEF procVars, FunctionsOK
<1>3. CASE UNCHANGED vars
  BY <1>3 DEF vars, procVars, FunctionsOK
<1> QED BY <1>1, <1>2, <1>3

\* Every step keeps what is unwritten unwritten.
LEMMA UnwrittenNext ==
    ASSUME FunctionsOK, \A p \in Procs : Unwritten(p), [Next]_vars
    PROVE  FunctionsOK' /\ \A p \in Procs : Unwritten(p)'
<1> DEFINE Done == FunctionsOK' /\ \A p \in Procs : Unwritten(p)'
<1>1. ASSUME NEW p \in Procs, FunctionsOK', Others(p), Unwritten(p)' PROVE Done
  BY <1>1, OthersUnwritten
<1>2. CASE (\E t \in SavedTrees : SaveTree(t)) \/ (\E def \in Definitions : PutDefinition(def)) \/ UNCHANGED vars
  BY <1>2, OutsideLeaves DEF procVars, Unwritten
<1>3. ASSUME NEW p \in Procs, FunctionsOK', Others(p), Prepares(p) PROVE Done
  <2>1. Unwritten(p)'
    BY <1>3 DEF Prepares, Unwritten
  <2> QED BY <1>1, <1>3, <2>1
<1>4. ASSUME NEW p \in Procs, FunctionsOK', Others(p), Writes(p), todo'[p] \subseteq todo[p],
             failed'[p] => Traits \in todo'[p] /\ EmitMethodTraitsThrows(sources[p])
      PROVE  Done
  <2>1. pc'[p] = "writing" /\ sources'[p] = sources[p]
    BY <1>4 DEF Writes
  <2>2. Unwritten(p)'
    BY <1>4, <2>1 DEF Unwritten
  <2> QED BY <1>1, <1>4, <2>2
<1>5. ASSUME NEW p \in Procs, NEW c \in Commands, Start(p, c) PROVE Done
  <2>1. /\ FunctionsOK' /\ Others(p) /\ pc[p] = "idle" /\ cmd'[p] = c /\ todo'[p] = Outputs(c)
        /\ failed' = failed /\ pc'[p] \in {"protocol", "registry"}
    BY <1>5, StartStarts
  <2>2. Unwritten(p)'
    BY <2>1 DEF Unwritten
  <2> QED BY <1>1, <2>1, <2>2
<1>6. ASSUME NEW p \in Procs, WriteProtocol(p) PROVE Done
  <2>1. Traits # Yaml
    BY DEF Traits, Yaml
  <2>2. /\ FunctionsOK' /\ Others(p) /\ Writes(p) /\ todo'[p] = todo[p] \ {Yaml} /\ UNCHANGED failed
    BY <1>6, WriteProtocolWrites
  <2>3. failed'[p] => Traits \in todo'[p] /\ EmitMethodTraitsThrows(sources[p])
    BY <2>1, <2>2 DEF Writes, Unwritten
  <2> QED BY <1>4, <2>2, <2>3
<1>7. ASSUME NEW p \in Procs, ClearVectors(p) PROVE Done
  <2>1. FunctionsOK' /\ Others(p) /\ Writes(p) /\ UNCHANGED <<todo, failed>>
    BY <1>7, ClearVectorsWrites
  <2>2. failed'[p] => Traits \in todo'[p] /\ EmitMethodTraitsThrows(sources[p])
    BY <2>1 DEF Writes, Unwritten
  <2> QED BY <1>4, <2>1, <2>2
<1>8. ASSUME NEW p \in Procs, NEW f \in Files, WriteFile(p, f) PROVE Done
  <2>1. /\ FunctionsOK' /\ Others(p) /\ Writes(p) /\ todo'[p] = todo[p] \ {f} /\ UNCHANGED failed
        /\ f = Traits => ~EmitMethodTraitsThrows(sources[p])
    BY <1>8, WriteFileWrites
  <2>2. failed'[p] => Traits \in todo'[p] /\ EmitMethodTraitsThrows(sources[p])
    BY <2>1 DEF Writes, Unwritten
  <2> QED BY <1>4, <2>1, <2>2
<1>9. ASSUME NEW p \in Procs, NEW f \in Files, FailFile(p, f) PROVE Done
  <2>1. /\ FunctionsOK' /\ Others(p) /\ Writes(p) /\ UNCHANGED todo
        /\ Traits \in todo[p] /\ EmitMethodTraitsThrows(sources[p])
    BY <1>9, FailFileWrites
  <2> QED BY <1>4, <2>1
<1>10. ASSUME NEW p \in Procs, Finish(p) \/ Kill(p) PROVE Done
  <2>1. /\ FunctionsOK' /\ Others(p) /\ UNCHANGED <<disk, cmd, todo, failed>>
        /\ pc'[p] \in {"failed", "done", "killed"}
        /\ pc'[p] = "failed" => pc[p] = "writing" /\ failed[p] /\ todo[p] \subseteq {Traits}
    BY <1>10, StopStops
  <2>2. pc'[p] = "failed" => failed'[p] /\ todo'[p] = {Traits}
    BY <2>1 DEF Unwritten
  <2>3. Unwritten(p)'
    BY <2>1, <2>2 DEF Unwritten
  <2> QED BY <1>1, <2>1, <2>3
<1>11. ASSUME NEW p \in Procs, ReadRegistry(p) \/ ReadFiles(p) \/ LoadProtocolDefinition(p) \/ CheckProtocol(p)
       PROVE  Done
  BY <1>3, <1>11, ReadRegistryPrepares, ReadFilesPrepares, LoadPrepares, CheckPrepares
<1> QED BY <1>2, <1>5, <1>6, <1>7, <1>8, <1>9, <1>10, <1>11 DEF Next

\* And so it starts.
LEMMA UnwrittenInit == Init => FunctionsOK /\ \A p \in Procs : Unwritten(p)
  BY DEF Init, FunctionsOK, Unwritten

NothingUnchecked == FunctionsOK /\ \A p \in Procs : Unwritten(p)

\* The inductive invariant of both theorems below.
THEOREM NothingBeforeChecks == Spec => []NothingUnchecked
<1>1. Init => NothingUnchecked
  BY UnwrittenInit DEF NothingUnchecked
<1>2. NothingUnchecked /\ [Next]_vars => NothingUnchecked'
  BY UnwrittenNext DEF NothingUnchecked
<1> QED BY <1>1, <1>2, PTL DEF Spec

\* A command that fails has written none of its files, or all but the one that could
\* not be made, whatever it read and whatever ran beside it (cli.ts:156-184,
\* cpp.ts:293-329).
THEOREM AllOrNothing == Spec => []FailedAllOrNothing
<1>1. NothingUnchecked => FailedAllOrNothing
  BY DEF NothingUnchecked, Unwritten, FailedAllOrNothing, Traits
<1> QED BY <1>1, NothingBeforeChecks, PTL

(* ---- what a process holds and what is on disk ---- *)

Checked(spec) == Sourced(spec) /\ ValidateSpec(spec) /\ spec # Undef
BuiltFrom(def, spec) == def = LoadProtocolDefinitionFromRaw(BuildProtocolDefinitionRaw(spec))
Loaded(def) == Lists(def) /\ def # Undef
HasModel(c) == c \in ReadsProtocol \cup BuildsProtocol

\* A process holds what its command has read by now: sources that passed their checks, a
\* definition that was loaded and, once it writes, passed its own.
Holds(p) ==
    /\ pc[p] = "files" => ParsedRegistry(registry[p])
    /\ pc[p] \in {"registry", "files"} => cmd[p] \notin ReadsProtocol
    /\ pc[p] = "protocol" => cmd[p] \in ReadsProtocol
    /\ pc[p] = "check" => HasModel(cmd[p])
    /\ pc[p] \in {"check", "writing"} =>
         /\ cmd[p] \notin ReadsProtocol => Checked(sources[p])
         /\ cmd[p] \in BuildsProtocol => BuiltFrom(model[p], sources[p])
         /\ HasModel(cmd[p]) => Loaded(model[p])
    /\ pc[p] = "writing" /\ HasModel(cmd[p]) => ValidateProtocolDefinition(model[p])

Phases(p) ==
    /\ pc[p] \in Running \cup {"idle", "done", "failed", "killed"}
    /\ pc[p] = "idle" <=> cmd[p] = Undef
    /\ cmd[p] # Undef => cmd[p] \in Commands /\ todo[p] \subseteq Outputs(cmd[p])

\* A definition on disk has lists and can be loaded, and unless it was put there by hand
\* it is closed; its JSON forms are closed, and registries sound.
FileOK(f, content, hand) ==
    /\ f = Yaml => /\ Lists(content) /\ LoadProtocolDefinitionFromRaw(content) # Undef
                   /\ ~hand => Closed(content)
    /\ f \in JsonFiles => Closed(content)
    /\ f \in Registries => SoundRegistry(content.registry)
DiskOK == \A f \in DOMAIN disk : FileOK(f, disk[f], byHand)

\* The sources that a command goes on with have been checked.
LEMMA AcceptedSources ==
    ASSUME NEW t, ParsedTree(t), NEW spec, spec = LoadAndValidate(t), spec # Undef
    PROVE  Checked(spec)
<1>1. ~LoadSourcesThrows(t)
  BY DEF LoadAndValidate
<1>2. PICK loaded : loaded = LoadProtocolSources(t)
  OBVIOUS
<1>3. spec = loaded /\ ValidateSpec(loaded)
  BY <1>1, <1>2 DEF LoadAndValidate
<1>4. Sourced(loaded)
  BY <1>1, <1>2, LoadedIsSourced
<1> QED BY <1>3, <1>4 DEF Checked

\* A built definition, as it is written and as it is read, has lists.
LEMMA BuiltFacts ==
    ASSUME NEW spec, Sourced(spec), NEW def, BuiltFrom(def, spec)
    PROVE  Lists(def) /\ Lists(BuildProtocolDefinitionRaw(spec))
<1> DEFINE raw == BuildProtocolDefinitionRaw(spec)
<1>1. \A list \in RegistryLists : Elements(raw[list])
  BY BuiltIsLoaded
<1> HIDE DEF raw
<1>2. Lists(raw)
  BY <1>1 DEF Lists
<1>3. Lists(LoadProtocolDefinitionFromRaw(raw))
  BY <1>2, LoadedLists
<1> QED BY <1>2, <1>3 DEF BuiltFrom, raw

\* A definition that could be built is the one read from what was built.
LEMMA BuiltDefinition ==
    ASSUME NEW spec, NEW def, def = BuildProtocolDefinition(spec), def # Undef
    PROVE  BuiltFrom(def, spec)
  BY DEF BuildProtocolDefinition, BuiltFrom

\* What each command may write.
LEMMA OutputsFollow ==
    ASSUME NEW c, NEW f \in Outputs(c)
    PROVE  /\ f = Yaml => c \in BuildsProtocol
           /\ f \in JsonFiles => HasModel(c)
           /\ f \in Registries => c \notin ReadsProtocol
<1>1. f = Yaml => c \in BuildsProtocol
  BY DEF Outputs, Yaml, DocFiles, RegistryFiles, StagedFiles, BuildsProtocol
<1>2. f \in JsonFiles => HasModel(c)
  BY DEF Outputs, JsonFiles, Yaml, DocFiles, RegistryFiles, StagedFiles, BuildsProtocol, ReadsProtocol, HasModel
<1>3. f \in Registries => c \notin ReadsProtocol
  BY DEF Outputs, Registries, DocFiles, ReadsProtocol
<1> QED BY <1>1, <1>2, <1>3

\* A file is of one kind, and a command reads or builds a definition.
LEMMA OneKind ==
    /\ Yaml \notin JsonFiles /\ Yaml \notin Registries
    /\ BuildsProtocol \cap ReadsProtocol = {}
  BY DEF Yaml, JsonFiles, Registries, BuildsProtocol, ReadsProtocol

\* What a process writes is as it should be.
LEMMA WrittenIsOK ==
    ASSUME NEW p, Holds(p), pc[p] = "writing", NEW f, f \in Outputs(cmd[p]), NEW hand
    PROVE  FileOK(f, Content(f, sources[p], model[p]), hand)
<1> DEFINE spec == sources[p]
           def == model[p]
           c == cmd[p]
<1>1. /\ c \notin ReadsProtocol => Checked(spec)
      /\ c \in BuildsProtocol => BuiltFrom(def, spec)
      /\ HasModel(c) => Loaded(def) /\ ValidateProtocolDefinition(def)
  BY DEF Holds
<1>2. f \in Outputs(c)
  OBVIOUS
<1> HIDE DEF spec, def, c
<1>3. CASE f = Yaml
  <2>1. c \in BuildsProtocol /\ c \notin ReadsProtocol /\ HasModel(c)
    BY <1>2, <1>3, OutputsFollow, OneKind DEF HasModel
  <2>2. PICK raw : raw = BuildProtocolDefinitionRaw(spec)
    OBVIOUS
  <2>3. Sourced(spec) /\ BuiltFrom(def, spec) /\ def # Undef /\ ValidateProtocolDefinition(def)
    BY <1>1, <2>1 DEF Checked, Loaded
  <2>4. def = LoadProtocolDefinitionFromRaw(raw)
    BY <2>2, <2>3 DEF BuiltFrom
  <2>5. Content(f, spec, def) = raw
    <3>1. LoadProtocolDefinitionFromRaw(raw).raw = raw
      BY DEF LoadProtocolDefinitionFromRaw
    <3>2. Content(f, spec, def) = def.raw
      BY <1>3 DEF Content, Yaml, Vectors
    <3> QED BY <2>4, <3>1, <3>2
  <2>6. Lists(raw)
    BY <2>2, <2>3, BuiltFacts
  <2>7. Closed(raw)
    BY <2>2, <2>3, <2>4, BuiltIsClosed
  <2>8. FileOK(f, raw, hand)
    BY <1>3, <2>3, <2>4, <2>6, <2>7, OneKind DEF FileOK
  <2> QED BY <2>5, <2>8 DEF spec, def
<1>4. CASE f \in JsonFiles
  <2>1. Lists(def) /\ ValidateProtocolDefinition(def)
    BY <1>1, <1>2, <1>4, OutputsFollow DEF Loaded
  <2>2. Closed(def)
    BY <2>1, ValidIsClosed
  <2>3. PICK content : content = Content(f, spec, def)
    OBVIOUS
  <2>4. Closed(content)
    BY <1>4, <2>2, <2>3, JsonFileIsClosed
  <2>5. f # Yaml /\ f \notin Registries
    BY <1>4 DEF JsonFiles, Yaml, Registries
  <2>6. FileOK(f, content, hand)
    BY <2>4, <2>5 DEF FileOK
  <2> QED BY <2>3, <2>6 DEF spec, def
<1>5. CASE f \in Registries
  <2>1. Sourced(spec) /\ ValidateSpec(spec)
    BY <1>1, <1>2, <1>5, OutputsFollow DEF Checked
  <2>2. PICK content : content = Content(f, spec, def)
    OBVIOUS
  <2>3. SoundRegistry(content.registry)
    BY <1>5, <2>1, <2>2, RegistryFileIsSound
  <2>4. f # Yaml /\ f \notin JsonFiles
    BY <1>5 DEF JsonFiles, Yaml, Registries
  <2>5. FileOK(f, content, hand)
    BY <2>3, <2>4 DEF FileOK
  <2> QED BY <2>2, <2>5 DEF spec, def
<1>6. CASE f # Yaml /\ f \notin JsonFiles /\ f \notin Registries
  BY <1>6 DEF FileOK
<1> QED BY <1>3, <1>4, <1>5, <1>6

\* One file is written; only that of the definition may change what is said of hands.
LEMMA DiskStep ==
    ASSUME DiskOK, NEW f, NEW content, disk' = Written(f, content), FileOK(f, content, byHand'),
           f # Yaml => byHand' = byHand
    PROVE  DiskOK'
<1> SUFFICES ASSUME NEW g \in DOMAIN disk' PROVE FileOK(g, disk'[g], byHand')
  BY DEF DiskOK
<1>0. /\ DOMAIN disk' = DOMAIN disk \cup {f} /\ disk'[f] = content
      /\ \A h \in DOMAIN disk : h # f => disk'[h] = disk[h]
  BY DEF Written
<1>1. CASE g = f
  <2>1. disk'[g] = content
    BY <1>0, <1>1
  <2> QED BY <1>1, <2>1
<1>2. CASE g # f
  <2>1. g \in DOMAIN disk /\ disk'[g] = disk[g]
    BY <1>0, <1>2
  <2>2. PICK kept : kept = disk[g]
    OBVIOUS
  <2>3. FileOK(g, kept, byHand)
    BY <2>1, <2>2 DEF DiskOK
  <2>4. FileOK(g, kept, byHand')
    BY <1>2, <2>3 DEF FileOK
  <2> QED BY <2>1, <2>2, <2>4
<1> QED BY <1>1, <1>2

StoreOK ==
    /\ ParsedTree(tree)
    /\ saves \in 0..MaxSaves /\ byHand \in BOOLEAN
    /\ DiskOK

GenInv ==
    /\ NothingUnchecked
    /\ \A p \in Procs : Phases(p) /\ Holds(p)
    /\ StoreOK

\* A step of one process leaves the others as they are.
LEMMA OthersHold ==
    ASSUME NEW p \in Procs, NEW q \in Procs \ {p}, Others(p), Phases(q), Holds(q)
    PROVE  Phases(q)' /\ Holds(q)'
<1>1. /\ pc'[q] = pc[q] /\ cmd'[q] = cmd[q] /\ todo'[q] = todo[q]
      /\ registry'[q] = registry[q] /\ sources'[q] = sources[q] /\ model'[q] = model[q]
  BY DEF Others
<1>2. Phases(q)'
  BY <1>1 DEF Phases
<1>3. /\ ParsedRegistry(registry[q]) => ParsedRegistry(registry'[q])
      /\ Checked(sources[q]) => Checked(sources'[q])
      /\ BuiltFrom(model[q], sources[q]) => BuiltFrom(model'[q], sources'[q])
      /\ Loaded(model[q]) => Loaded(model'[q])
      /\ ValidateProtocolDefinition(model[q]) => ValidateProtocolDefinition(model'[q])
  BY <1>1
<1>4. Holds(q)'
  BY <1>1, <1>3 DEF Holds
<1> QED BY <1>2, <1>4

\* Trees at any time are what the parser makes of some text.
LEMMA SavedIsParsed == \A t \in Trees \cup SavedTrees : ParsedTree(t)
  BY GeneratorAssumption DEF GeneratorAssumption

\* A definition put there by hand.
LEMMA PutIsOK ==
    ASSUME NEW def \in Definitions PROVE FileOK(Yaml, def, TRUE)
<1>1. /\ \A list \in RegistryLists : IsList(def[list], {"id", "name"})
      /\ LoadProtocolDefinitionFromRaw(def) # Undef
  BY GeneratorAssumption DEF GeneratorAssumption
<1>2. Lists(def)
  BY <1>1 DEF Lists, IsList, Elements
<1> QED BY <1>1, <1>2, OneKind DEF FileOK

\* The steps from outside.
LEMMA OutsideStore ==
    ASSUME FunctionsOK, StoreOK,
           (\E t \in SavedTrees : SaveTree(t)) \/ (\E def \in Definitions : PutDefinition(def))
               \/ UNCHANGED vars
    PROVE  StoreOK'
<1> USE DEF StoreOK
<1>0. MaxSaves \in Nat
  BY GeneratorAssumption DEF GeneratorAssumption
<1>1. ASSUME NEW t \in SavedTrees, SaveTree(t) PROVE StoreOK'
  <2>1. tree' = t /\ saves < MaxSaves /\ saves' = saves + 1 /\ UNCHANGED <<disk, byHand>>
    BY <1>1 DEF SaveTree
  <2>2. ParsedTree(t)
    BY SavedIsParsed
  <2>3. ParsedTree(tree')
    BY <2>1, <2>2
  <2>4. DiskOK'
    BY <2>1 DEF DiskOK
  <2>5. saves' \in 0..MaxSaves
    BY <1>0, <2>1
  <2> QED BY <2>1, <2>3, <2>4, <2>5
<1>2. ASSUME NEW def \in Definitions, PutDefinition(def) PROVE StoreOK'
  <2>1. /\ disk' = Written(Yaml, def) /\ byHand' = TRUE /\ tree' = tree
        /\ saves < MaxSaves /\ saves' = saves + 1
    BY <1>2 DEF PutDefinition
  <2>2. FileOK(Yaml, def, byHand')
    BY <2>1, PutIsOK
  <2>3. DiskOK'
    BY <2>1, <2>2, DiskStep
  <2>4. saves' \in 0..MaxSaves
    BY <1>0, <2>1
  <2>5. ParsedTree(tree')
    BY <2>1
  <2> QED BY <2>1, <2>3, <2>4, <2>5
<1>3. CASE UNCHANGED vars
  <2>1. tree' = tree /\ saves' = saves /\ byHand' = byHand /\ disk' = disk
    BY <1>3 DEF vars
  <2> QED BY <2>1 DEF DiskOK
<1> QED BY <1>1, <1>2, <1>3

\* A step before anything is written leaves the files alone.
LEMMA PreparesStore ==
    ASSUME NEW p, Prepares(p), StoreOK PROVE StoreOK'
<1>1. tree' = tree /\ saves' = saves /\ byHand' = byHand /\ disk' = disk
  BY DEF Prepares
<1> QED BY <1>1 DEF StoreOK, DiskOK

\* The steps of a process before it writes.
LEMMA PreparesPhases ==
    ASSUME NEW p, Prepares(p), Phases(p), Unwritten(p) PROVE Phases(p)'
<1>1. /\ pc[p] # "idle" /\ pc'[p] \in {"files", "check", "writing", "failed"}
      /\ cmd'[p] = cmd[p] /\ todo'[p] = todo[p]
  BY DEF Prepares
<1>2. pc'[p] \in Running \cup {"idle", "done", "failed", "killed"} /\ pc'[p] # "idle"
  BY <1>1 DEF Running
<1> QED BY <1>1, <1>2 DEF Phases

\* A process that has ended holds nothing that matters.
LEMMA FailedHolds ==
    ASSUME NEW p, pc'[p] \in {"failed", "done", "killed"} PROVE Holds(p)'
  BY DEF Holds

\* Each step leaves a process with what its phase asks for: reading the registry,
LEMMA ReadRegistryHolds ==
    ASSUME FunctionsOK, NEW p \in Procs, ReadRegistry(p), Holds(p), ParsedTree(tree) PROVE Holds(p)'
<1>1. pc[p] = "registry" /\ UNCHANGED cmd
  BY DEF ReadRegistry
<1>2. CASE End(p, "failed")
  <2>1. pc'[p] = "failed"
    BY <1>2, EndFacts
  <2> QED BY <2>1, FailedHolds
<1>3. CASE ~End(p, "failed")
  <2>1. /\ pc' = [pc EXCEPT ![p] = "files"] /\ registry' = [registry EXCEPT ![p] = tree.registry]
    BY <1>3 DEF ReadRegistry
  <2>2. pc'[p] = "files" /\ registry'[p] = tree.registry
    BY <2>1 DEF FunctionsOK
  <2>3. ParsedRegistry(registry'[p])
    BY <2>2 DEF ParsedTree
  <2> QED BY <1>1, <2>2, <2>3 DEF Holds
<1> QED BY <1>2, <1>3

\* A registry that was read goes with files that were read later.
LEMMA ReadTreeIsParsed ==
    ASSUME NEW p, ParsedTree(tree), ParsedRegistry(registry[p]) PROVE ParsedTree(ReadTree(p))
<1>1. PICK t : t = ReadTree(p)
  OBVIOUS
<1>2. DOMAIN t = DOMAIN tree /\ t.registry = registry[p] /\ t.files = tree.files
  BY <1>1 DEF ReadTree, ParsedTree
<1>3. ParsedTree(t)
  <2>1. ParsedRegistry(t.registry)
    BY <1>2
  <2> QED BY <1>2, <2>1 DEF ParsedTree
<1> QED BY <1>1, <1>3

\* reading the domain files,
LEMMA ReadFilesHolds ==
    ASSUME FunctionsOK, NEW p \in Procs, ReadFiles(p), Holds(p), ParsedTree(tree) PROVE Holds(p)'
<1>1. pc[p] = "files" /\ UNCHANGED cmd
  BY DEF ReadFiles
<1>2. CASE End(p, "failed")
  <2>1. pc'[p] = "failed"
    BY <1>2, EndFacts
  <2> QED BY <2>1, FailedHolds
<1>3. PICK t : t = ReadTree(p)
  OBVIOUS
<1>4. PICK spec : spec = LoadAndValidate(t)
  OBVIOUS
<1>5. ParsedTree(t) /\ cmd[p] \notin ReadsProtocol
  BY <1>1, <1>3, ReadTreeIsParsed DEF Holds
<1>6. spec # Undef => Checked(spec)
  BY <1>4, <1>5, AcceptedSources
<1>7. PICK def : def = BuildProtocolDefinition(spec)
  OBVIOUS
<1>8. \/ End(p, "failed")
      \/ /\ spec # Undef /\ cmd[p] \notin BuildsProtocol
         /\ sources' = [sources EXCEPT ![p] = spec]
         /\ pc' = [pc EXCEPT ![p] = "writing"]
      \/ /\ spec # Undef /\ cmd[p] \in BuildsProtocol /\ def # Undef
         /\ sources' = [sources EXCEPT ![p] = spec]
         /\ model' = [model EXCEPT ![p] = def]
         /\ pc' = [pc EXCEPT ![p] = "check"]
  BY <1>3, <1>4, <1>7, ReadFilesOutcome
<1>9. CASE /\ spec # Undef /\ cmd[p] \notin BuildsProtocol
           /\ sources' = [sources EXCEPT ![p] = spec]
           /\ pc' = [pc EXCEPT ![p] = "writing"]
  <2>1. pc'[p] = "writing" /\ sources'[p] = spec /\ cmd'[p] = cmd[p]
    BY <1>1, <1>9 DEF FunctionsOK
  <2>2. Checked(sources'[p]) /\ ~HasModel(cmd'[p]) /\ cmd'[p] \notin BuildsProtocol
    BY <1>5, <1>6, <1>9, <2>1 DEF HasModel
  <2> QED BY <2>1, <2>2 DEF Holds
<1>10. CASE /\ spec # Undef /\ cmd[p] \in BuildsProtocol /\ def # Undef
            /\ sources' = [sources EXCEPT ![p] = spec]
            /\ model' = [model EXCEPT ![p] = def]
            /\ pc' = [pc EXCEPT ![p] = "check"]
  <2>1. pc'[p] = "check" /\ sources'[p] = spec /\ model'[p] = def /\ cmd'[p] = cmd[p]
    BY <1>1, <1>10 DEF FunctionsOK
  <2>2. BuiltFrom(def, spec)
    BY <1>7, <1>10, BuiltDefinition
  <2>3. Loaded(def)
    <3>1. Sourced(spec)
      BY <1>6, <1>10 DEF Checked
    <3> QED BY <1>10, <2>2, <3>1, BuiltFacts DEF Loaded
  <2>4. Checked(sources'[p]) /\ BuiltFrom(model'[p], sources'[p]) /\ Loaded(model'[p]) /\ HasModel(cmd'[p])
    BY <1>6, <1>10, <2>1, <2>2, <2>3 DEF HasModel
  <2> QED BY <2>1, <2>4 DEF Holds
<1> QED BY <1>2, <1>8, <1>9, <1>10

\* loading a definition,
LEMMA LoadHolds ==
    ASSUME FunctionsOK, NEW p \in Procs, LoadProtocolDefinition(p), Holds(p), DiskOK PROVE Holds(p)'
<1>1. pc[p] = "protocol" /\ UNCHANGED cmd
  BY DEF LoadProtocolDefinition
<1>2. CASE End(p, "failed")
  <2>1. pc'[p] = "failed"
    BY <1>2, EndFacts
  <2> QED BY <2>1, FailedHolds
<1>3. CASE ~End(p, "failed")
  <2>1. PICK raw : raw = disk[Yaml]
    OBVIOUS
  <2>2. PICK def : def = LoadProtocolDefinitionFromRaw(raw)
    OBVIOUS
  <2>3. /\ Yaml \in DOMAIN disk /\ model' = [model EXCEPT ![p] = def]
        /\ pc' = [pc EXCEPT ![p] = "check"]
    BY <1>3, <2>1, <2>2 DEF LoadProtocolDefinition
  <2>4. FileOK(Yaml, raw, byHand)
    BY <2>1, <2>3 DEF DiskOK
  <2>5. Lists(raw) /\ def # Undef
    BY <2>2, <2>4 DEF FileOK
  <2>6. Loaded(def)
    BY <2>2, <2>5, LoadedLists DEF Loaded
  <2>7. pc'[p] = "check" /\ model'[p] = def /\ cmd'[p] = cmd[p]
    BY <1>1, <2>3 DEF FunctionsOK
  <2>8. Loaded(model'[p]) /\ cmd'[p] \in ReadsProtocol /\ cmd'[p] \notin BuildsProtocol /\ HasModel(cmd'[p])
    BY <1>1, <2>6, <2>7, OneKind DEF Holds, HasModel
  <2> QED BY <2>7, <2>8 DEF Holds
<1> QED BY <1>2, <1>3

\* checking it,
LEMMA CheckHolds ==
    ASSUME FunctionsOK, NEW p \in Procs, CheckProtocol(p), Holds(p) PROVE Holds(p)'
<1>1. pc[p] = "check" /\ UNCHANGED cmd
  BY DEF CheckProtocol
<1>2. CASE End(p, "failed")
  <2>1. pc'[p] = "failed"
    BY <1>2, EndFacts
  <2> QED BY <2>1, FailedHolds
<1>3. CASE ~End(p, "failed")
  <2>1. /\ ValidateProtocolDefinition(model[p])
        /\ pc' = [pc EXCEPT ![p] = "writing"] /\ UNCHANGED <<registry, sources, model>>
    BY <1>3 DEF CheckProtocol, Accepted
  <2>2. pc'[p] = "writing" /\ UNCHANGED <<cmd, registry, sources, model>>
    BY <1>1, <2>1 DEF FunctionsOK
  <2> QED BY <1>1, <2>1, <2>2 DEF Holds
<1> QED BY <1>2, <1>3

\* The steps of a process that writes.
LEMMA WritesHolds ==
    ASSUME NEW p, Writes(p), Phases(p), Holds(p), todo'[p] \subseteq todo[p]
    PROVE  Phases(p)' /\ Holds(p)'
<1>1. UNCHANGED <<pc, cmd, registry, sources, model>>
  BY DEF Writes
<1>2. Phases(p)'
  BY <1>1 DEF Phases
<1>3. Holds(p)'
  BY <1>1 DEF Holds
<1> QED BY <1>2, <1>3

\* writing, which keeps the disk sound when what is written is,
LEMMA WritesStore ==
    ASSUME NEW p, Writes(p), StoreOK, NEW f, NEW content, disk' = Written(f, content),
           byHand' \in BOOLEAN, FileOK(f, content, byHand'),
           f # Yaml => byHand' = byHand
    PROVE  StoreOK'
<1>1. tree' = tree /\ saves' = saves
  BY DEF Writes
<1>2. DiskOK'
  BY DiskStep DEF StoreOK
<1> QED BY <1>1, <1>2 DEF StoreOK

\* starting,
LEMMA StartHolds ==
    ASSUME FunctionsOK, NEW p \in Procs, NEW c \in Commands, Start(p, c), StoreOK
    PROVE  Phases(p)' /\ Holds(p)' /\ StoreOK'
<1>1. /\ cmd'[p] = c /\ todo'[p] = Outputs(c)
      /\ pc'[p] = IF c \in ReadsProtocol THEN "protocol" ELSE "registry"
  BY StartStarts
<1>2. tree' = tree /\ saves' = saves /\ byHand' = byHand /\ disk' = disk
  BY DEF Start
<1>3. c # Undef
  BY GeneratorAssumption DEF GeneratorAssumption
<1>4. Phases(p)'
  BY <1>1, <1>3 DEF Phases, Running
<1>5. Holds(p)'
  BY <1>1 DEF Holds
<1>6. StoreOK'
  BY <1>2 DEF StoreOK, DiskOK
<1> QED BY <1>4, <1>5, <1>6

\* and ending.
LEMMA StopHolds ==
    ASSUME FunctionsOK, NEW p \in Procs, Finish(p) \/ Kill(p), Phases(p), StoreOK
    PROVE  Phases(p)' /\ Holds(p)' /\ StoreOK'
<1>1. UNCHANGED <<disk, cmd, todo>> /\ pc'[p] \in {"failed", "done", "killed"}
  BY StopStops
<1>2. pc[p] # "idle" /\ tree' = tree /\ saves' = saves /\ byHand' = byHand
  BY DEF Finish, Kill, Active, Running
<1>3. Phases(p)'
  BY <1>1, <1>2 DEF Phases
<1>4. StoreOK'
  BY <1>1, <1>2 DEF StoreOK, DiskOK
<1> QED BY <1>1, <1>3, <1>4, FailedHolds

\* The invariant holds at the start.
LEMMA GenInit == Init => GenInv
<1> SUFFICES ASSUME Init PROVE GenInv
  OBVIOUS
<1>1. NothingUnchecked
  BY UnwrittenInit DEF NothingUnchecked
<1>2. ASSUME NEW p \in Procs PROVE Phases(p) /\ Holds(p)
  <2>1. pc[p] = "idle" /\ cmd[p] = Undef
    BY DEF Init
  <2> QED BY <2>1 DEF Phases, Holds, Running
<1>3. StoreOK
  <2>1. ParsedTree(tree)
    BY SavedIsParsed DEF Init
  <2>2. saves \in 0..MaxSaves /\ byHand \in BOOLEAN
    <3>1. MaxSaves \in Nat
      BY GeneratorAssumption DEF GeneratorAssumption
    <3>2. saves = 0 /\ byHand = FALSE
      BY DEF Init
    <3>3. saves \in 0..MaxSaves
      BY <3>1, <3>2
    <3> QED BY <3>2, <3>3
  <2>3. DiskOK
    BY DEF Init, DiskOK
  <2> QED BY <2>1, <2>2, <2>3 DEF StoreOK
<1> QED BY <1>1, <1>2, <1>3 DEF GenInv

\* Every step keeps the invariant.
LEMMA GenNext == GenInv /\ [Next]_vars => GenInv'
<1> SUFFICES ASSUME GenInv, [Next]_vars PROVE GenInv'
  OBVIOUS
<1>0. /\ NothingUnchecked' /\ FunctionsOK /\ FunctionsOK' /\ StoreOK /\ ParsedTree(tree) /\ DiskOK
      /\ \A p \in Procs : Phases(p) /\ Holds(p) /\ Unwritten(p)
  <2>1. NothingUnchecked'
    BY UnwrittenNext DEF NothingUnchecked, GenInv
  <2> QED BY <2>1 DEF NothingUnchecked, GenInv, StoreOK
<1> DEFINE Done == (\A p \in Procs : Phases(p) /\ Holds(p))' /\ StoreOK'
<1>1. ASSUME NEW p \in Procs, Others(p), Phases(p)' /\ Holds(p)', StoreOK' PROVE Done
  <2>1. ASSUME NEW q \in Procs PROVE Phases(q)' /\ Holds(q)'
    <3>1. CASE q = p
      BY <1>1, <3>1
    <3>2. CASE q # p
      BY <1>0, <1>1, <3>2, OthersHold
    <3> QED BY <3>1, <3>2
  <2> QED BY <1>1, <2>1
<1>2. ASSUME (\E t \in SavedTrees : SaveTree(t)) \/ (\E def \in Definitions : PutDefinition(def))
                 \/ UNCHANGED vars
      PROVE  Done
  <2>1. StoreOK'
    BY <1>0, <1>2, OutsideStore
  <2>2. UNCHANGED procVars
    BY <1>0, <1>2, OutsideLeaves
  <2>3. UNCHANGED <<pc, cmd, registry, sources, model, todo>>
    BY <2>2 DEF procVars
  <2>4. ASSUME NEW p \in Procs PROVE Phases(p)' /\ Holds(p)'
    <3>1. Phases(p) /\ Holds(p)
      BY <1>0
    <3>2. Phases(p)'
      BY <2>3, <3>1 DEF Phases
    <3>3. Holds(p)'
      BY <2>3, <3>1 DEF Holds
    <3> QED BY <3>2, <3>3
  <2> QED BY <2>1, <2>4
<1>3. ASSUME NEW p \in Procs, NEW c \in Commands, Start(p, c) PROVE Done
  BY <1>0, <1>1, <1>3, StartStarts, StartHolds
<1>4. ASSUME NEW p \in Procs, Others(p), Prepares(p), Holds(p)' PROVE Done
  BY <1>0, <1>1, <1>4, PreparesPhases, PreparesStore
<1>5. ASSUME NEW p \in Procs, ReadRegistry(p) PROVE Done
  BY <1>0, <1>4, <1>5, ReadRegistryPrepares, ReadRegistryHolds
<1>6. ASSUME NEW p \in Procs, ReadFiles(p) PROVE Done
  BY <1>0, <1>4, <1>6, ReadFilesPrepares, ReadFilesHolds
<1>7. ASSUME NEW p \in Procs, LoadProtocolDefinition(p) PROVE Done
  BY <1>0, <1>4, <1>7, LoadPrepares, LoadHolds
<1>8. ASSUME NEW p \in Procs, CheckProtocol(p) PROVE Done
  BY <1>0, <1>4, <1>8, CheckPrepares, CheckHolds
<1>9. ASSUME NEW p \in Procs, Others(p), Writes(p), todo'[p] \subseteq todo[p], StoreOK' PROVE Done
  BY <1>0, <1>1, <1>9, WritesHolds
<1>10. ASSUME NEW p \in Procs, NEW f \in todo[p], pc[p] = "writing", NEW hand
       PROVE  FileOK(f, Content(f, sources[p], model[p]), hand)
  <2>1. f \in Outputs(cmd[p])
    <3>1. Phases(p) /\ cmd[p] # Undef
      BY <1>0, <1>10 DEF Phases
    <3> QED BY <3>1 DEF Phases
  <2> QED BY <1>0, <1>10, <2>1, WrittenIsOK
<1>11. ASSUME NEW p \in Procs, WriteProtocol(p) PROVE Done
  <2>1. FunctionsOK' /\ Others(p) /\ Writes(p) /\ todo'[p] \subseteq todo[p]
    BY <1>0, <1>11, WriteProtocolWrites
  <2>2. PICK content : content = Content(Yaml, sources[p], model[p])
    OBVIOUS
  <2>3. /\ Yaml \in todo[p] /\ pc[p] = "writing" /\ byHand' = FALSE
        /\ disk' = Written(Yaml, content)
    BY <1>11, <2>2 DEF WriteProtocol
  <2>4. FileOK(Yaml, content, byHand')
    BY <1>10, <2>2, <2>3
  <2>5. StoreOK'
    BY <1>0, <2>1, <2>3, <2>4, WritesStore
  <2> QED BY <1>9, <2>1, <2>5
<1>12. ASSUME NEW p \in Procs, ClearVectors(p) PROVE Done
  <2>1. FunctionsOK' /\ Others(p) /\ Writes(p) /\ todo'[p] \subseteq todo[p]
    BY <1>0, <1>12, ClearVectorsWrites
  <2>2. PICK f \in Vectors : disk' = Removed(f)
    BY <1>12 DEF ClearVectors
  <2>3. byHand' = byHand /\ tree' = tree /\ saves' = saves
    BY <1>12 DEF ClearVectors
  <2>4. DOMAIN disk' \subseteq DOMAIN disk /\ \A g \in DOMAIN disk' : disk'[g] = disk[g]
    BY <2>2, RemovedFiles
  <2>5. StoreOK'
    BY <1>0, <2>3, <2>4 DEF StoreOK, DiskOK
  <2> QED BY <1>9, <2>1, <2>5
<1>13. ASSUME NEW p \in Procs, NEW f \in Files, WriteFile(p, f) PROVE Done
  <2>1. FunctionsOK' /\ Others(p) /\ Writes(p) /\ todo'[p] \subseteq todo[p]
    BY <1>0, <1>13, WriteFileWrites
  <2>2. PICK content : content = Content(f, sources[p], model[p])
    OBVIOUS
  <2>3. /\ f \in todo[p] /\ pc[p] = "writing" /\ byHand' = byHand
        /\ disk' = Written(f, content)
    BY <1>13, <2>2 DEF WriteFile, CanWrite
  <2>4. FileOK(f, content, byHand')
    BY <1>10, <2>2, <2>3
  <2>5. byHand' \in BOOLEAN
    BY <1>0, <2>3 DEF StoreOK
  <2>6. StoreOK'
    BY <1>0, <2>1, <2>3, <2>4, <2>5, WritesStore
  <2> QED BY <1>9, <2>1, <2>6
<1>14. ASSUME NEW p \in Procs, NEW f \in Files, FailFile(p, f) PROVE Done
  <2>1. FunctionsOK' /\ Others(p) /\ Writes(p) /\ todo' = todo
    BY <1>0, <1>14, FailFileWrites
  <2>2. tree' = tree /\ saves' = saves /\ byHand' = byHand /\ disk' = disk
    BY <1>14 DEF FailFile
  <2>3. StoreOK'
    BY <1>0, <2>2 DEF StoreOK, DiskOK
  <2> QED BY <1>9, <2>1, <2>3
<1>15. ASSUME NEW p \in Procs, Finish(p) \/ Kill(p) PROVE Done
  BY <1>0, <1>1, <1>15, StopStops, StopHolds
<1> HIDE DEF Done
<1>16. ASSUME NEW p \in Procs,
              \/ \E c \in Commands : Start(p, c)
              \/ ReadRegistry(p) \/ ReadFiles(p) \/ LoadProtocolDefinition(p) \/ CheckProtocol(p)
              \/ WriteProtocol(p) \/ ClearVectors(p)
              \/ \E f \in Files : WriteFile(p, f) \/ FailFile(p, f)
              \/ Finish(p) \/ Kill(p)
       PROVE  Done
  BY <1>3, <1>5, <1>6, <1>7, <1>8, <1>11, <1>12, <1>13, <1>14, <1>15, <1>16
<1>17. Done
  BY <1>2, <1>16 DEF Next
<1> QED BY <1>0, <1>17 DEF GenInv, Done

\* The inductive invariant of the three theorems below.
THEOREM HeldIsChecked == Spec => []GenInv
  BY GenInit, GenNext, PTL DEF Spec

\* Commands go through their phases, and a process that checks or writes holds sources
\* or a definition (cli.ts:30-214).
THEOREM TypeCorrect == Spec => []GeneratorTypeOK
<1>1. GenInv => GeneratorTypeOK
  <2> SUFFICES ASSUME GenInv PROVE GeneratorTypeOK
    OBVIOUS
  <2>1. DOMAIN disk \subseteq Files /\ DOMAIN pc = Procs /\ saves \in 0..MaxSaves /\ byHand \in BOOLEAN
    BY DEF GenInv, NothingUnchecked, FunctionsOK, StoreOK
  <2>2. ASSUME NEW p \in Procs
        PROVE  /\ pc[p] \in Running \cup {"idle", "done", "failed", "killed"}
               /\ pc[p] = "idle" <=> cmd[p] = Undef
               /\ cmd[p] # Undef => cmd[p] \in Commands /\ todo[p] \subseteq Outputs(cmd[p])
               /\ pc[p] \in {"registry", "files", "protocol", "check"} => todo[p] = Outputs(cmd[p])
               /\ pc[p] \in {"check", "writing"} => \E held \in {sources[p], model[p]} : held # Undef
    <3>1. Phases(p) /\ Holds(p) /\ Unwritten(p)
      BY DEF GenInv, NothingUnchecked
    <3>2. pc[p] \in {"check", "writing"} => sources[p] # Undef \/ model[p] # Undef
      BY <3>1 DEF Holds, Checked, Loaded, HasModel
    <3> QED BY <3>1, <3>2 DEF Phases, Unwritten
  <2>3. pc = [p \in Procs |-> pc[p]]
    BY DEF GenInv, NothingUnchecked, FunctionsOK
  <2> QED BY <2>1, <2>2, <2>3 DEF GeneratorTypeOK
<1> QED BY <1>1, HeldIsChecked, PTL

\* A definition on disk that nobody put there by hand, and every JSON form of any, names
\* nothing that it does not hold, has names and numbers that go together, and the bits
\* of its domains follow each other under one high byte, whatever the sources are,
\* however commands overlap and wherever they are killed (protocolValidator.ts:309-417,
\* cli.ts:42-54, 156-184).
THEOREM PublishedClosed == Spec => []PublishedIsClosed
<1>1. GenInv => PublishedIsClosed
  <2> SUFFICES ASSUME DiskOK PROVE PublishedIsClosed
    BY DEF GenInv, StoreOK
  <2>1. Yaml \in DOMAIN disk /\ ~byHand => Closed(disk[Yaml])
    BY DEF DiskOK, FileOK
  <2>2. \A f \in JsonFiles \cap DOMAIN disk : Closed(disk[f])
    BY DEF DiskOK, FileOK
  <2> QED BY <2>1, <2>2 DEF PublishedIsClosed, JsonIsClosed, JsonFiles
<1> QED BY <1>1, HeldIsChecked, PTL

\* Every registry on disk, in any language, has numbers of two bytes, one name to a
\* number, and lookups that are each other's inverse (validator.ts:10-150, ts.ts:116-186,
\* cpp.ts:69-93).
THEOREM RegistriesSound == Spec => []RegistriesAreSound
<1>1. GenInv => RegistriesAreSound
  <2> SUFFICES ASSUME DiskOK, NEW f \in Registries \cap DOMAIN disk PROVE SoundRegistry(disk[f].registry)
    BY DEF GenInv, StoreOK, RegistriesAreSound, Registries, SoundRegistry
  <2> QED BY DEF DiskOK, FileOK
<1> QED BY <1>1, HeldIsChecked, PTL

(* ---- a generate that nobody interferes with ---- *)

\* The rows of a registry have the numbers and names of the list, all of them.
LEMMA RowsAreAll ==
    ASSUME NEW spec, NEW list \in RegistryLists
    PROVE  Numbers(EmitRegistries(spec)[list]) = Numbers(ToSet(spec[list]))
<1>1. CASE list = "methods"
  <2> DEFINE items == ToSet(spec.methods)
             rows == EmitRegistries(spec).methods
  <2>1. rows = {DescribeMethod(x) : x \in items}
    BY DEF EmitRegistries
  <2>2. \A x \in items : DescribeMethod(x).id = x.id /\ DescribeMethod(x).name = x.name
    BY DEF DescribeMethod
  <2> HIDE DEF rows, items
  <2>3. Numbers(rows) = Numbers(items)
    <3>1. ASSUME NEW x \in items PROVE <<x.id, x.name>> \in Numbers(rows)
      <4>1. DescribeMethod(x) \in rows
        BY <2>1
      <4>2. <<DescribeMethod(x).id, DescribeMethod(x).name>> = <<x.id, x.name>>
        BY <2>2
      <4> QED BY <4>1, <4>2 DEF Numbers
    <3>2. ASSUME NEW r \in rows PROVE <<r.id, r.name>> \in Numbers(items)
      <4>1. PICK x \in items : r = DescribeMethod(x)
        BY <2>1
      <4>2. <<r.id, r.name>> = <<x.id, x.name>>
        BY <2>2, <4>1
      <4> QED BY <4>2 DEF Numbers
    <3> QED BY <3>1, <3>2 DEF Numbers
  <2> QED BY <1>1, <2>3 DEF rows, items
<1>2. CASE list = "events"
  <2> DEFINE items == ToSet(spec.events)
             rows == EmitRegistries(spec).events
  <2>1. rows = {DescribeEvent(x) : x \in items}
    BY DEF EmitRegistries
  <2>2. \A x \in items : DescribeEvent(x).id = x.id /\ DescribeEvent(x).name = x.name
    BY DEF DescribeEvent
  <2> HIDE DEF rows, items
  <2>3. Numbers(rows) = Numbers(items)
    <3>1. ASSUME NEW x \in items PROVE <<x.id, x.name>> \in Numbers(rows)
      <4>1. DescribeEvent(x) \in rows
        BY <2>1
      <4>2. <<DescribeEvent(x).id, DescribeEvent(x).name>> = <<x.id, x.name>>
        BY <2>2
      <4> QED BY <4>1, <4>2 DEF Numbers
    <3>2. ASSUME NEW r \in rows PROVE <<r.id, r.name>> \in Numbers(items)
      <4>1. PICK x \in items : r = DescribeEvent(x)
        BY <2>1
      <4>2. <<r.id, r.name>> = <<x.id, x.name>>
        BY <2>2, <4>1
      <4> QED BY <4>2 DEF Numbers
    <3> QED BY <3>1, <3>2 DEF Numbers
  <2> QED BY <1>2, <2>3 DEF rows, items
<1>3. CASE list = "errors"
  <2> DEFINE items == ToSet(spec.errors)
             rows == EmitRegistries(spec).errors
  <2>1. rows = {DescribeError(x) : x \in items}
    BY DEF EmitRegistries
  <2>2. \A x \in items : DescribeError(x).id = x.id /\ DescribeError(x).name = x.name
    BY DEF DescribeError
  <2> HIDE DEF rows, items
  <2>3. Numbers(rows) = Numbers(items)
    <3>1. ASSUME NEW x \in items PROVE <<x.id, x.name>> \in Numbers(rows)
      <4>1. DescribeError(x) \in rows
        BY <2>1
      <4>2. <<DescribeError(x).id, DescribeError(x).name>> = <<x.id, x.name>>
        BY <2>2
      <4> QED BY <4>1, <4>2 DEF Numbers
    <3>2. ASSUME NEW r \in rows PROVE <<r.id, r.name>> \in Numbers(items)
      <4>1. PICK x \in items : r = DescribeError(x)
        BY <2>1
      <4>2. <<r.id, r.name>> = <<x.id, x.name>>
        BY <2>2, <4>1
      <4> QED BY <4>2 DEF Numbers
    <3> QED BY <3>1, <3>2 DEF Numbers
  <2> QED BY <1>3, <2>3 DEF rows, items
<1>4. CASE list = "capabilities"
  <2> DEFINE items == ToSet(spec.capabilities)
             rows == EmitRegistries(spec).capabilities
  <2>1. rows = {DescribeCapability(x) : x \in items}
    BY DEF EmitRegistries
  <2>2. \A x \in items : DescribeCapability(x).id = x.id /\ DescribeCapability(x).name = x.name
    BY DEF DescribeCapability
  <2> HIDE DEF rows, items
  <2>3. Numbers(rows) = Numbers(items)
    <3>1. ASSUME NEW x \in items PROVE <<x.id, x.name>> \in Numbers(rows)
      <4>1. DescribeCapability(x) \in rows
        BY <2>1
      <4>2. <<DescribeCapability(x).id, DescribeCapability(x).name>> = <<x.id, x.name>>
        BY <2>2
      <4> QED BY <4>1, <4>2 DEF Numbers
    <3>2. ASSUME NEW r \in rows PROVE <<r.id, r.name>> \in Numbers(items)
      <4>1. PICK x \in items : r = DescribeCapability(x)
        BY <2>1
      <4>2. <<r.id, r.name>> = <<x.id, x.name>>
        BY <2>2, <4>1
      <4> QED BY <4>2 DEF Numbers
    <3> QED BY <3>1, <3>2 DEF Numbers
  <2> QED BY <1>4, <2>3 DEF rows, items
<1> QED BY <1>1, <1>2, <1>3, <1>4 DEF RegistryLists

\* The definition's lists have the numbers and names of the sources'.
LEMMA BuiltNumbers ==
    ASSUME NEW spec, Sourced(spec), NEW raw, raw = BuildProtocolDefinitionRaw(spec),
           NEW list \in RegistryLists
    PROVE  Numbers(ToSet(raw[list])) = Numbers(ToSet(spec[list]))
<1> DEFINE a == raw[list]
           b == spec[list]
<1>1. /\ DOMAIN a = DOMAIN b
      /\ \A i \in DOMAIN a : a[i].id = b[i].id /\ a[i].name = b[i].name
  BY BuiltIsLoaded
<1> HIDE DEF a, b
<1>2. Numbers(ToSet(a)) = Numbers(ToSet(b))
  BY <1>1 DEF Numbers, ToSet
<1> QED BY <1>2 DEF a, b

\* What the document says of the transports.
LEMMA PathsAreTrue ==
    ASSUME NEW def, Elements(def.transports), UniqueKey(def.transports, LAMBDA t : t.name),
           AssertCurrentTransportPolicy(def), NEW doc, doc = RenderProtocolMarkdown(def),
           NEW t \in doc.connections, Truthy(t.name)
    PROVE  IF t.name \in doc.framework.framed THEN t.control = TRUE /\ t.stream = TRUE
           ELSE t.control = FALSE /\ t.stream = FALSE /\ t.encodings = <<"JSON">>
<1> DEFINE all == ToSet(def.transports)
           framed == {u.name : u \in {v \in all : v.frameProfile # "none"}}
<1>1. doc.framework.framed = framed
  BY DEF RenderProtocolMarkdown, RenderProtocolFramework
<1>2. PICK u \in all :
         t = [name |-> u.name, encodings |-> u.encodings, control |-> u.control,
              stream |-> IF u.frameProfile = "none" THEN FALSE ELSE u.stream]
  BY DEF RenderProtocolMarkdown, RenderConnectionProfiles
<1>3. /\ t.name = u.name /\ t.encodings = u.encodings /\ t.control = u.control
      /\ t.stream = IF u.frameProfile = "none" THEN FALSE ELSE u.stream
  BY <1>2
<1>4. IF u.frameProfile = "none"
      THEN u.control = FALSE /\ u.stream = FALSE /\ u.encodings = <<"JSON">>
      ELSE u.control = TRUE /\ u.stream = TRUE
  BY <1>2 DEF AssertCurrentTransportPolicy
<1>5. CASE u.frameProfile = "none"
  <2>1. ASSUME NEW v \in all, v.frameProfile # "none", v.name = u.name PROVE FALSE
    <3>1. PICK i \in DOMAIN def.transports : u = def.transports[i]
      BY <1>2 DEF ToSet
    <3>2. PICK j \in DOMAIN def.transports : v = def.transports[j]
      BY <2>1 DEF ToSet
    <3>3. i \in Int /\ j \in Int /\ i # j
      <4>1. DOMAIN def.transports \subseteq Int
        BY DEF Elements
      <4> QED BY <1>5, <2>1, <3>1, <3>2, <4>1
    <3>4. def.transports[i].name = def.transports[j].name /\ Truthy(def.transports[i].name)
          /\ Truthy(def.transports[j].name)
      BY <1>3, <2>1, <3>1, <3>2
    <3>5. CASE i < j
      BY <3>1, <3>2, <3>4, <3>5 DEF UniqueKey
    <3>6. CASE j < i
      BY <3>1, <3>2, <3>4, <3>6 DEF UniqueKey
    <3> QED BY <3>3, <3>5, <3>6
  <2>2. t.name \notin framed
    BY <1>3, <2>1
  <2> QED BY <1>1, <1>3, <1>4, <1>5, <2>2
<1>6. CASE u.frameProfile # "none"
  <2>1. t.name \in framed
    BY <1>2, <1>3, <1>6
  <2> QED BY <1>1, <1>3, <1>4, <1>6, <2>1
<1> QED BY <1>5, <1>6

\* And of the methods and events.
LEMMA EntriesAreShown ==
    ASSUME NEW def, AssertMethodReferences(def), AssertEventReferences(def),
           NEW doc, doc = RenderProtocolMarkdown(def), NEW list \in {"methods", "events"}
    PROVE  /\ doc.toc[list] = DOMAIN doc[list]
           /\ NamesOf(def[list]) = {x.name : x \in UNION {doc[list][d] : d \in DOMAIN doc[list]}}
           /\ \A d \in DOMAIN doc[list] : \A x \in doc[list][d] : NamePrefix(x.name) = d
<1>1. CASE list = "methods"
  <2> DEFINE all == ToSet(def.methods)
             shown == doc.methods
  <2>1. /\ doc.toc.methods = DomainsFor(def.methods)
        /\ shown = [d \in DomainsFor(def.methods) |-> {RenderMethod(def, m) : m \in InDomain(def.methods, d)}]
    BY DEF RenderProtocolMarkdown, RenderMainToc
  <2>2. /\ DOMAIN shown = {m.domain : m \in all}
        /\ \A d \in DOMAIN shown : shown[d] = {RenderMethod(def, m) : m \in {x \in all : x.domain = d}}
    BY <2>1 DEF DomainsFor, InDomain
  <2>3. \A m \in all : RenderMethod(def, m).name = m.name /\ NamePrefix(m.name) = m.domain
    BY DEF RenderMethod, AssertMethodReferences, AssertDomainName
  <2>4. doc.toc.methods = DOMAIN shown
    BY <2>1
  <2> HIDE DEF shown, all
  <2>5. {m.name : m \in all} = {x.name : x \in UNION {shown[d] : d \in DOMAIN shown}}
    <3>1. ASSUME NEW m \in all PROVE \E x \in UNION {shown[d] : d \in DOMAIN shown} : x.name = m.name
      <4>1. m.domain \in DOMAIN shown /\ RenderMethod(def, m) \in shown[m.domain]
        BY <2>2
      <4> QED BY <2>3, <4>1
    <3>2. ASSUME NEW d \in DOMAIN shown, NEW x \in shown[d] PROVE \E m \in all : x.name = m.name
      BY <2>2, <2>3, <3>2
    <3> QED BY <3>1, <3>2
  <2>6. \A d \in DOMAIN shown : \A x \in shown[d] : NamePrefix(x.name) = d
    BY <2>2, <2>3
  <2>7. NamesOf(def.methods) = {m.name : m \in all}
    BY DEF NamesOf, all
  <2> QED BY <1>1, <2>4, <2>5, <2>6, <2>7 DEF shown
<1>2. CASE list = "events"
  <2> DEFINE all == ToSet(def.events)
             shown == doc.events
  <2>1. /\ doc.toc.events = DomainsFor(def.events)
        /\ shown = [d \in DomainsFor(def.events) |-> {RenderEvent(def, m) : m \in InDomain(def.events, d)}]
    BY DEF RenderProtocolMarkdown, RenderMainToc
  <2>2. /\ DOMAIN shown = {m.domain : m \in all}
        /\ \A d \in DOMAIN shown : shown[d] = {RenderEvent(def, m) : m \in {x \in all : x.domain = d}}
    BY <2>1 DEF DomainsFor, InDomain
  <2>3. \A m \in all : RenderEvent(def, m).name = m.name /\ NamePrefix(m.name) = m.domain
    BY DEF RenderEvent, AssertEventReferences, AssertDomainName
  <2>4. doc.toc.events = DOMAIN shown
    BY <2>1
  <2> HIDE DEF shown, all
  <2>5. {m.name : m \in all} = {x.name : x \in UNION {shown[d] : d \in DOMAIN shown}}
    <3>1. ASSUME NEW m \in all PROVE \E x \in UNION {shown[d] : d \in DOMAIN shown} : x.name = m.name
      <4>1. m.domain \in DOMAIN shown /\ RenderEvent(def, m) \in shown[m.domain]
        BY <2>2
      <4> QED BY <2>3, <4>1
    <3>2. ASSUME NEW d \in DOMAIN shown, NEW x \in shown[d] PROVE \E m \in all : x.name = m.name
      BY <2>2, <2>3, <3>2
    <3> QED BY <3>1, <3>2
  <2>6. \A d \in DOMAIN shown : \A x \in shown[d] : NamePrefix(x.name) = d
    BY <2>2, <2>3
  <2>7. NamesOf(def.events) = {m.name : m \in all}
    BY DEF NamesOf, all
  <2> QED BY <1>2, <2>4, <2>5, <2>6, <2>7 DEF shown
<1> QED BY <1>1, <1>2

\* The document of an accepted definition is true of it as it is written.
LEMMA DocumentFollows ==
    ASSUME NEW spec, Sourced(spec), NEW raw, raw = BuildProtocolDefinitionRaw(spec),
           NEW def, def = LoadProtocolDefinitionFromRaw(raw), ValidateProtocolDefinition(def),
           NEW doc, doc = RenderProtocolMarkdown(def)
    PROVE  DocumentIsTrue(raw, doc)
<1>1. /\ UniqueKey(def.transports, LAMBDA t : t.name) /\ AssertCurrentTransportPolicy(def)
      /\ AssertMethodReferences(def) /\ AssertEventReferences(def)
  BY DEF ValidateProtocolDefinition
<1>2. Elements(def.transports)
  <2> DEFINE written == raw.meta.transports
  <2>1. written = spec.protocolMeta.transports
    BY DEF BuildProtocolDefinitionRaw
  <2>2. Elements(written)
    BY <2>1 DEF Sourced
  <2>3. def.transports = MapTransports(written)
    BY DEF LoadProtocolDefinitionFromRaw
  <2> HIDE DEF written
  <2>4. MapTransports(written) =
          [i \in DOMAIN written |-> [written[i] EXCEPT !.name = Str(@), !.frameProfile = Str(@)]]
    BY DEF MapTransports, Map
  <2>5. Elements(MapTransports(written))
    BY <2>2, <2>4, ElementsAt
  <2> QED BY <2>3, <2>5
<1>3. \A list \in {"methods", "events"} : raw[list] = def[list]
  BY BuiltIsLoaded DEF RegistryLists
<1>4. \A t \in {u \in doc.connections : Truthy(u.name)} :
         IF t.name \in doc.framework.framed THEN t.control = TRUE /\ t.stream = TRUE
         ELSE t.control = FALSE /\ t.stream = FALSE /\ t.encodings = <<"JSON">>
  BY <1>1, <1>2, PathsAreTrue
<1>5. \A list \in {"methods", "events"} :
         /\ doc.toc[list] = DOMAIN doc[list]
         /\ NamesOf(def[list]) = {x.name : x \in UNION {doc[list][d] : d \in DOMAIN doc[list]}}
         /\ \A d \in DOMAIN doc[list] : \A x \in doc[list][d] : NamePrefix(x.name) = d
  BY <1>1, EntriesAreShown
<1> HIDE DEF Truthy
<1>6. doc.toc.methods = DOMAIN doc.methods /\ doc.toc.events = DOMAIN doc.events
  BY <1>5
<1>7. \A list \in {"methods", "events"} :
         /\ NamesOf(raw[list]) = {x.name : x \in UNION {doc[list][d] : d \in DOMAIN doc[list]}}
         /\ \A d \in DOMAIN doc[list] : \A x \in doc[list][d] : NamePrefix(x.name) = d
  <2> SUFFICES ASSUME NEW list \in {"methods", "events"}
               PROVE  /\ NamesOf(raw[list]) = {x.name : x \in UNION {doc[list][d] : d \in DOMAIN doc[list]}}
                      /\ \A d \in DOMAIN doc[list] : \A x \in doc[list][d] : NamePrefix(x.name) = d
    OBVIOUS
  <2>1. NamesOf(raw[list]) = NamesOf(def[list])
    BY <1>3
  <2> QED BY <1>5, <2>1
<1> QED BY <1>4, <1>6, <1>7 DEF DocumentIsTrue

\* These files are there, as a command with these sources and this model writes them.
Complete(files, spec, def) ==
    files \subseteq DOMAIN disk /\ \A f \in files : disk[f] = Content(f, spec, def)

\* So the files of a generate are in step when they are all there.
LEMMA InStepFollows ==
    ASSUME NEW spec, Checked(spec), NEW def, BuiltFrom(def, spec), ValidateProtocolDefinition(def),
           NEW c \in {"generate", "generate --out"}, Complete(Outputs(c), spec, def)
    PROVE  InStep(Outputs(c))
<1>1. PICK raw : raw = BuildProtocolDefinitionRaw(spec)
  OBVIOUS
<1>2. Sourced(spec) /\ def = LoadProtocolDefinitionFromRaw(raw)
  BY <1>1 DEF Checked, BuiltFrom
<1>3. PICK files : files = Outputs(c)
  OBVIOUS
<1>4. Yaml \in files
  BY <1>3 DEF Outputs
<1>5. files \subseteq DOMAIN disk /\ \A f \in files : disk[f] = Content(f, spec, def)
  BY <1>3 DEF Complete
<1>6. disk[Yaml] = raw
  <2>1. LoadProtocolDefinitionFromRaw(raw).raw = raw
    BY DEF LoadProtocolDefinitionFromRaw
  <2>2. Content(Yaml, spec, def) = def.raw
    BY DEF Content, Yaml, Vectors
  <2> QED BY <1>2, <1>4, <1>5, <2>1, <2>2
<1>7. ASSUME NEW f \in files \cap {"docs/protocol.json", "out/protocol.json"}, NEW list \in RegistryLists
      PROVE  ToSet(disk[f][list]) = ToSet(LoadProtocolDefinitionFromRaw(disk[Yaml])[list])
  <2>1. Content(f, spec, def) = ToProtocolJson(def)
    BY <1>7 DEF Content, Yaml, Vectors
  <2>2. def[list] = ToProtocolJson(def)[list]
    BY JsonIsAlike DEF Alike
  <2>3. disk[f][list] = def[list]
    BY <1>5, <1>7, <2>1, <2>2
  <2> QED BY <1>2, <1>6, <2>3
<1>8. ASSUME NEW f \in files \cap {"docs/protocol.md", "out/protocol.md"}
      PROVE  DocumentIsTrue(disk[Yaml], disk[f])
  <2>1. Content(f, spec, def) = RenderProtocolMarkdown(def)
    BY <1>8 DEF Content, Yaml, Vectors
  <2>2. disk[f] = RenderProtocolMarkdown(def)
    BY <1>5, <1>8, <2>1
  <2>3. PICK doc : doc = disk[f]
    OBVIOUS
  <2>4. DocumentIsTrue(raw, doc)
    BY <1>1, <1>2, <2>2, <2>3, DocumentFollows
  <2> QED BY <1>6, <2>3, <2>4
<1>9. ASSUME NEW f \in files \cap Registries, NEW list \in RegistryLists
      PROVE  Numbers(disk[f].registry[list]) = Numbers(ToSet(disk[Yaml][list]))
  <2>1. Content(f, spec, def).registry[list] = EmitRegistries(spec)[list]
    BY <1>9, RegistryContent
  <2>2. disk[f].registry[list] = EmitRegistries(spec)[list]
    BY <1>5, <1>9, <2>1
  <2>3. Numbers(EmitRegistries(spec)[list]) = Numbers(ToSet(spec[list]))
    BY RowsAreAll
  <2>4. Numbers(ToSet(raw[list])) = Numbers(ToSet(spec[list]))
    BY <1>1, <1>2, BuiltNumbers
  <2> QED BY <1>6, <2>2, <2>3, <2>4
<1>10. InStep(files)
  BY <1>5, <1>7, <1>8, <1>9 DEF InStep, Registries
<1> QED BY <1>3, <1>10

\* A process that is alone is the only one at work, and all that it has written is there.
Undisturbed(p) ==
    alone[p] /\ Active(p) =>
        /\ \A q \in Procs : Active(q) => q = p
        /\ pc[p] = "writing" => Complete(Outputs(cmd[p]) \ todo[p], sources[p], model[p])

AllUndisturbed ==
    alone = [p \in Procs |-> alone[p]] /\ \A p \in Procs : Undisturbed(p)

\* A step of one process does not disturb another that is alone.
LEMMA OthersUndisturbed ==
    ASSUME NEW p \in Procs, NEW q \in Procs, q # p, Others(p), alone' = alone, Undisturbed(q),
           Active(p)' => Active(p), disk' = disk \/ Active(p)
    PROVE  Undisturbed(q)'
<1> SUFFICES ASSUME alone[q], Active(q)'
             PROVE  /\ \A r \in Procs : Active(r)' => r = q
                    /\ pc'[q] = "writing" => Complete(Outputs(cmd[q]) \ todo[q], sources[q], model[q])'
  BY DEF Undisturbed
<1>1. /\ pc'[q] = pc[q] /\ cmd'[q] = cmd[q] /\ todo'[q] = todo[q]
      /\ sources'[q] = sources[q] /\ model'[q] = model[q]
  BY DEF Others
<1>2. Active(q)
  BY <1>1 DEF Active
<1>3. \A r \in Procs : Active(r) => r = q
  BY <1>2 DEF Undisturbed
<1>4. \A r \in Procs : Active(r)' => r = q
  <2>1. \A r \in Procs : r # p => (Active(r)' => Active(r))
    BY DEF Others, Active
  <2> QED BY <1>3, <2>1
<1>5. disk' = disk
  BY <1>3
<1>6. ASSUME pc'[q] = "writing" PROVE Complete(Outputs(cmd[q]) \ todo[q], sources[q], model[q])'
  <2>1. Complete(Outputs(cmd[q]) \ todo[q], sources[q], model[q])
    BY <1>1, <1>2, <1>6 DEF Undisturbed
  <2> QED BY <1>1, <1>5, <2>1 DEF Complete
<1> QED BY <1>4, <1>6

\* The steps of the process itself.
LEMMA OwnUndisturbed ==
    ASSUME NEW p \in Procs, Others(p), alone' = alone, Active(p), Undisturbed(p),
           alone[p] /\ pc'[p] = "writing" =>
               Complete(Outputs(cmd[p]) \ todo[p], sources[p], model[p])'
    PROVE  Undisturbed(p)'
<1> SUFFICES ASSUME alone[p], Active(p)' PROVE \A r \in Procs : Active(r)' => r = p
  BY DEF Undisturbed
<1>1. \A r \in Procs : Active(r) => r = p
  BY DEF Undisturbed
<1>2. \A r \in Procs : r # p => (Active(r)' => Active(r))
  BY DEF Others, Active
<1> QED BY <1>1, <1>2

\* One more file is written.
LEMMA CompleteWritten ==
    ASSUME NEW files, NEW spec, NEW def, Complete(files, spec, def), NEW f,
           NEW content, content = Content(f, spec, def), disk' = Written(f, content)
    PROVE  Complete(files \cup {f}, spec, def)'
<1>1. /\ DOMAIN disk' = DOMAIN disk \cup {f} /\ disk'[f] = content
      /\ \A g \in DOMAIN disk : g # f => disk'[g] = disk[g]
  BY WrittenFiles
<1>2. files \subseteq DOMAIN disk /\ \A g \in files : disk[g] = Content(g, spec, def)
  BY DEF Complete
<1>3. ASSUME NEW g \in files \cup {f} PROVE disk'[g] = Content(g, spec, def)
  <2>1. CASE g = f
    BY <1>1, <2>1
  <2>2. CASE g # f
    BY <1>1, <1>2, <2>2
  <2> QED BY <2>1, <2>2
<1>4. files \cup {f} \subseteq DOMAIN disk'
  BY <1>1, <1>2
<1> QED BY <1>3, <1>4 DEF Complete

\* And when one is removed that was still to be written.
LEMMA CompleteRemoved ==
    ASSUME NEW files, NEW spec, NEW def, Complete(files, spec, def), NEW f, f \notin files,
           disk' = Removed(f)
    PROVE  Complete(files, spec, def)'
<1>1. DOMAIN disk' = DOMAIN disk \ {f} /\ \A g \in DOMAIN disk' : disk'[g] = disk[g]
  BY RemovedFiles
<1>2. files \subseteq DOMAIN disk /\ \A g \in files : disk[g] = Content(g, spec, def)
  BY DEF Complete
<1>3. files \subseteq DOMAIN disk'
  BY <1>1, <1>2
<1> QED BY <1>1, <1>2, <1>3 DEF Complete

\* A process before it writes.
LEMMA PreparesUndisturbed ==
    ASSUME NEW p \in Procs, Others(p), Prepares(p), Unwritten(p), AllUndisturbed
    PROVE  AllUndisturbed'
<1>1. /\ alone' = alone /\ disk' = disk /\ cmd'[p] = cmd[p] /\ todo'[p] = todo[p]
      /\ todo[p] = Outputs(cmd[p])
  BY DEF Prepares, Unwritten
<1>2. Active(p)
  BY DEF Prepares, Active, Running
<1>3. Outputs(cmd'[p]) \ todo'[p] = {}
  BY <1>1
<1>4. Complete(Outputs(cmd[p]) \ todo[p], sources[p], model[p])'
  BY <1>3 DEF Complete
<1>5. Undisturbed(p) /\ \A q \in Procs : Undisturbed(q)
  BY DEF AllUndisturbed
<1>6. Undisturbed(p)'
  BY <1>1, <1>2, <1>4, <1>5, OwnUndisturbed
<1>7. ASSUME NEW q \in Procs PROVE Undisturbed(q)'
  BY <1>1, <1>2, <1>5, <1>6, OthersUndisturbed
<1> QED BY <1>1, <1>7 DEF AllUndisturbed

\* A process that writes: what is on disk changes as it should.
LEMMA WritesUndisturbed ==
    ASSUME NEW p \in Procs, Others(p), Writes(p), AllUndisturbed,
           Complete(Outputs(cmd[p]) \ todo[p], sources[p], model[p])
               => Complete(Outputs(cmd[p]) \ todo[p], sources[p], model[p])'
    PROVE  AllUndisturbed'
<1>1. alone' = alone /\ pc[p] = "writing"
  BY DEF Writes
<1>2. Active(p)
  BY <1>1 DEF Active, Running
<1>3. \A q \in Procs : Undisturbed(q)
  BY DEF AllUndisturbed
<1>4. alone[p] => Complete(Outputs(cmd[p]) \ todo[p], sources[p], model[p])
  BY <1>1, <1>2, <1>3 DEF Undisturbed
<1>5. Undisturbed(p)
  BY <1>3
<1>6. Undisturbed(p)'
  BY <1>1, <1>2, <1>4, <1>5, OwnUndisturbed
<1>7. ASSUME NEW q \in Procs PROVE Undisturbed(q)'
  BY <1>1, <1>2, <1>3, <1>6, OthersUndisturbed
<1> QED BY <1>1, <1>7 DEF AllUndisturbed

\* A process that starts is no longer alone with one that runs.
LEMMA StartUndisturbed ==
    ASSUME FunctionsOK, NEW p \in Procs, NEW c \in Commands, Start(p, c), AllUndisturbed
    PROVE  AllUndisturbed'
<1>1. /\ pc[p] = "idle" /\ pc'[p] \in {"protocol", "registry"} /\ Others(p)
  BY StartStarts
<1>2. alone' = [q \in Procs |-> IF q = p THEN \A r \in Procs : ~Active(r) ELSE alone[q] /\ ~Active(q)]
  BY DEF Start
<1>3. \A q \in Procs : q # p => (Active(q)' => Active(q))
  BY <1>1 DEF Others, Active
<1>4. Undisturbed(p)'
  <2>1. alone'[p] => \A r \in Procs : ~Active(r)
    BY <1>2
  <2>2. alone'[p] => \A r \in Procs : Active(r)' => r = p
    BY <1>3, <2>1
  <2> QED BY <1>1, <2>2 DEF Undisturbed
<1>5. ASSUME NEW q \in Procs, q # p PROVE Undisturbed(q)'
  <2>1. alone'[q] => ~Active(q)
    BY <1>2, <1>5
  <2>2. alone'[q] => ~Active(q)'
    BY <1>3, <1>5, <2>1
  <2> QED BY <2>2 DEF Undisturbed
<1>6. alone' = [q \in Procs |-> alone'[q]]
  BY <1>2
<1>7. \A q \in Procs : Undisturbed(q)'
  BY <1>4, <1>5
<1> QED BY <1>6, <1>7 DEF AllUndisturbed

\* A process that ends.
LEMMA StopUndisturbed ==
    ASSUME FunctionsOK, NEW p \in Procs, Finish(p) \/ Kill(p), AllUndisturbed
    PROVE  AllUndisturbed'
<1>1. /\ Others(p) /\ disk' = disk /\ pc'[p] \in {"failed", "done", "killed"}
  BY StopStops
<1>2. alone' = alone
  BY DEF Finish, Kill
<1>3. ~Active(p)'
  BY <1>1 DEF Active, Running
<1>4. Undisturbed(p)'
  BY <1>3 DEF Undisturbed
<1>5. \A q \in Procs : Undisturbed(q)
  BY DEF AllUndisturbed
<1>6. ASSUME NEW q \in Procs PROVE Undisturbed(q)'
  BY <1>1, <1>2, <1>3, <1>4, <1>5, OthersUndisturbed
<1> QED BY <1>2, <1>6 DEF AllUndisturbed

\* Somebody who replaces the definition disturbs everybody.
LEMMA OutsideUndisturbed ==
    ASSUME (\E t \in SavedTrees : SaveTree(t)) \/ (\E def \in Definitions : PutDefinition(def))
               \/ UNCHANGED vars,
           AllUndisturbed
    PROVE  AllUndisturbed'
<1>1. CASE \E def \in Definitions : PutDefinition(def)
  <2>1. alone' = [p \in Procs |-> FALSE]
    BY <1>1 DEF PutDefinition
  <2>2. \A p \in Procs : Undisturbed(p)'
    BY <2>1 DEF Undisturbed
  <2> QED BY <2>1, <2>2 DEF AllUndisturbed
<1>2. CASE (\E t \in SavedTrees : SaveTree(t)) \/ UNCHANGED vars
  <2>1. UNCHANGED <<pc, cmd, todo, sources, model, disk, alone>>
    BY <1>2 DEF SaveTree, vars, procVars
  <2>2. ASSUME NEW p \in Procs PROVE Undisturbed(p)'
    <3>1. Undisturbed(p)
      BY DEF AllUndisturbed
    <3> QED BY <2>1, <3>1 DEF Undisturbed, Active, Complete
  <2> QED BY <2>1, <2>2 DEF AllUndisturbed
<1> QED BY <1>1, <1>2

UndisturbedInv == GenInv /\ AllUndisturbed

\* The strengthened invariant, step by step.
LEMMA UndisturbedNext == UndisturbedInv /\ [Next]_vars => UndisturbedInv'
<1> SUFFICES ASSUME UndisturbedInv, [Next]_vars PROVE UndisturbedInv'
  OBVIOUS
<1>0. /\ GenInv /\ GenInv' /\ AllUndisturbed /\ FunctionsOK
      /\ \A p \in Procs : Phases(p) /\ Unwritten(p)
  BY GenNext DEF UndisturbedInv, GenInv, NothingUnchecked
<1> DEFINE Done == AllUndisturbed'
<1>1. ASSUME (\E t \in SavedTrees : SaveTree(t)) \/ (\E def \in Definitions : PutDefinition(def))
                 \/ UNCHANGED vars
      PROVE  Done
  BY <1>0, <1>1, OutsideUndisturbed
<1>2. ASSUME NEW p \in Procs, NEW c \in Commands, Start(p, c) PROVE Done
  BY <1>0, <1>2, StartUndisturbed
<1>3. ASSUME NEW p \in Procs,
             ReadRegistry(p) \/ ReadFiles(p) \/ LoadProtocolDefinition(p) \/ CheckProtocol(p)
      PROVE  Done
  <2>1. Others(p) /\ Prepares(p)
    BY <1>0, <1>3, ReadRegistryPrepares, ReadFilesPrepares, LoadPrepares, CheckPrepares
  <2> QED BY <1>0, <2>1, PreparesUndisturbed
<1>4. ASSUME NEW p \in Procs, NEW f \in todo[p], Others(p), Writes(p), todo'[p] = todo[p] \ {f},
             disk' = Written(f, Content(f, sources[p], model[p]))
      PROVE  Done
  <2>1. f \in Outputs(cmd[p])
    <3>1. pc[p] # "idle"
      BY <1>4 DEF Writes
    <3>2. todo[p] \subseteq Outputs(cmd[p])
      BY <1>0, <3>1 DEF Phases
    <3> QED BY <3>2
  <2>2. cmd' = cmd /\ sources' = sources /\ model' = model
    BY <1>4 DEF Writes
  <2>3. Outputs(cmd'[p]) \ todo'[p] = (Outputs(cmd[p]) \ todo[p]) \cup {f}
    BY <1>4, <2>1, <2>2
  <2>4. PICK files : files = Outputs(cmd[p]) \ todo[p]
    OBVIOUS
  <2>5. PICK spec : spec = sources[p]
    OBVIOUS
  <2>6. PICK def : def = model[p]
    OBVIOUS
  <2>7. PICK content : content = Content(f, spec, def)
    OBVIOUS
  <2>8. disk' = Written(f, content)
    BY <1>4, <2>5, <2>6, <2>7
  <2>9. Complete(files, spec, def) => Complete(files \cup {f}, spec, def)'
    BY <2>7, <2>8, CompleteWritten
  <2>10. /\ Outputs(cmd'[p]) \ todo'[p] = files \cup {f} /\ sources'[p] = spec /\ model'[p] = def
    BY <2>2, <2>3, <2>4, <2>5, <2>6
  <2>11. Complete(Outputs(cmd[p]) \ todo[p], sources[p], model[p])
             => Complete(Outputs(cmd[p]) \ todo[p], sources[p], model[p])'
    BY <2>4, <2>5, <2>6, <2>9, <2>10 DEF Complete
  <2> QED BY <1>0, <1>4, <2>11, WritesUndisturbed
<1>5. ASSUME NEW p \in Procs, WriteProtocol(p) PROVE Done
  <2>1. Others(p) /\ Writes(p) /\ todo'[p] = todo[p] \ {Yaml}
    BY <1>0, <1>5, WriteProtocolWrites
  <2>2. Yaml \in todo[p] /\ disk' = Written(Yaml, Content(Yaml, sources[p], model[p]))
    BY <1>5 DEF WriteProtocol
  <2> QED BY <1>4, <2>1, <2>2
<1>6. ASSUME NEW p \in Procs, NEW f \in Files, WriteFile(p, f) PROVE Done
  <2>1. Others(p) /\ Writes(p) /\ todo'[p] = todo[p] \ {f}
    BY <1>0, <1>6, WriteFileWrites
  <2>2. f \in todo[p] /\ disk' = Written(f, Content(f, sources[p], model[p]))
    BY <1>6 DEF WriteFile, CanWrite
  <2> QED BY <1>4, <2>1, <2>2
<1>7. ASSUME NEW p \in Procs, ClearVectors(p) PROVE Done
  <2>1. Others(p) /\ Writes(p) /\ todo' = todo
    BY <1>0, <1>7, ClearVectorsWrites
  <2>2. PICK f \in todo[p] : disk' = Removed(f)
    BY <1>7 DEF ClearVectors, CanWrite
  <2>3. cmd' = cmd /\ sources' = sources /\ model' = model
    BY <2>1 DEF Writes
  <2>4. PICK files : files = Outputs(cmd[p]) \ todo[p]
    OBVIOUS
  <2>5. f \notin files
    BY <2>2, <2>4
  <2>6. PICK spec : spec = sources[p]
    OBVIOUS
  <2>7. PICK def : def = model[p]
    OBVIOUS
  <2>8. Complete(files, spec, def) => Complete(files, spec, def)'
    BY <2>2, <2>5, CompleteRemoved
  <2>9. Outputs(cmd'[p]) \ todo'[p] = files /\ sources'[p] = spec /\ model'[p] = def
    BY <2>1, <2>3, <2>4, <2>6, <2>7
  <2>10. Complete(Outputs(cmd[p]) \ todo[p], sources[p], model[p])
             => Complete(Outputs(cmd[p]) \ todo[p], sources[p], model[p])'
    BY <2>4, <2>6, <2>7, <2>8, <2>9 DEF Complete
  <2> QED BY <1>0, <2>1, <2>10, WritesUndisturbed
<1>8. ASSUME NEW p \in Procs, NEW f \in Files, FailFile(p, f) PROVE Done
  <2>1. Others(p) /\ Writes(p) /\ todo' = todo
    BY <1>0, <1>8, FailFileWrites
  <2>2. cmd' = cmd /\ sources' = sources /\ model' = model /\ disk' = disk
    BY <1>8 DEF FailFile
  <2>3. Complete(Outputs(cmd[p]) \ todo[p], sources[p], model[p])
             => Complete(Outputs(cmd[p]) \ todo[p], sources[p], model[p])'
    BY <2>1, <2>2 DEF Complete
  <2> QED BY <1>0, <2>1, <2>3, WritesUndisturbed
<1>9. ASSUME NEW p \in Procs, Finish(p) \/ Kill(p) PROVE Done
  BY <1>0, <1>9, StopUndisturbed
<1> HIDE DEF Done
<1>10. ASSUME NEW p \in Procs,
              \/ \E c \in Commands : Start(p, c)
              \/ ReadRegistry(p) \/ ReadFiles(p) \/ LoadProtocolDefinition(p) \/ CheckProtocol(p)
              \/ WriteProtocol(p) \/ ClearVectors(p)
              \/ \E f \in Files : WriteFile(p, f) \/ FailFile(p, f)
              \/ Finish(p) \/ Kill(p)
       PROVE  Done
  BY <1>2, <1>3, <1>5, <1>6, <1>7, <1>8, <1>9, <1>10
<1>11. Done
  BY <1>1, <1>10 DEF Next
<1> QED BY <1>0, <1>11 DEF UndisturbedInv, Done

\* The step in which a process is done: it is Finish, and nothing is left to write.
LEMMA DoneFacts ==
    ASSUME FunctionsOK, [Next]_vars, NEW p \in Procs, pc[p] = "writing", pc'[p] = "done"
    PROVE  todo[p] = {} /\ UNCHANGED <<disk, cmd, todo>>
<1> DEFINE Done == Finish(p)
<1>1. ASSUME NEW q \in Procs, Others(q), Prepares(q) \/ Writes(q) PROVE Done
  <2>1. CASE q = p
    BY <1>1, <2>1 DEF Prepares, Writes
  <2>2. CASE q # p
    BY <1>1, <2>2 DEF Others
  <2> QED BY <2>1, <2>2
<1>2. ASSUME NEW q \in Procs, Others(q), q # p PROVE Done
  BY <1>2 DEF Others
<1>3. ASSUME NEW q \in Procs, NEW c \in Commands, Start(q, c) PROVE Done
  <2>1. Others(q) /\ pc[q] = "idle"
    BY <1>3, StartStarts
  <2> QED BY <1>2, <2>1
<1>4. ASSUME NEW q \in Procs,
             ReadRegistry(q) \/ ReadFiles(q) \/ LoadProtocolDefinition(q) \/ CheckProtocol(q)
      PROVE  Done
  BY <1>1, <1>4, ReadRegistryPrepares, ReadFilesPrepares, LoadPrepares, CheckPrepares
<1>5. ASSUME NEW q \in Procs, WriteProtocol(q) \/ ClearVectors(q) PROVE Done
  BY <1>1, <1>5, WriteProtocolWrites, ClearVectorsWrites
<1>6. ASSUME NEW q \in Procs, NEW f \in Files, WriteFile(q, f) \/ FailFile(q, f) PROVE Done
  BY <1>1, <1>6, WriteFileWrites, FailFileWrites
<1>7. ASSUME NEW q \in Procs, Finish(q) PROVE Done
  BY <1>2, <1>7, StopStops
<1>8. ASSUME NEW q \in Procs, Kill(q) PROVE Done
  <2>1. Others(q) /\ pc'[q] = "killed"
    BY <1>8, StopStops, EndFacts DEF Kill
  <2> QED BY <1>2, <2>1
<1>9. ASSUME (\E t \in SavedTrees : SaveTree(t)) \/ (\E def \in Definitions : PutDefinition(def))
                 \/ UNCHANGED vars
      PROVE  Done
  BY <1>9, OutsideLeaves DEF procVars
<1>10. Done
  <2> HIDE DEF Done
  <2> QED BY <1>3, <1>4, <1>5, <1>6, <1>7, <1>8, <1>9 DEF Next
<1>11. failed[p] => pc'[p] = "failed"
  BY <1>10, EndFacts DEF Finish
<1>12. ~failed[p]
  BY <1>11
<1> QED BY <1>10, <1>12 DEF Finish

\* A generate that no other command overlapped, and whose definition nobody replaced
\* meanwhile, leaves all its files behind when it reports success, and they agree: the
\* definition, its JSON, the document and every registry have the same numbers and
\* names, whatever was saved to the sources while it ran (cli.ts:156-184).
THEOREM InStepAlone == Spec => GeneratedInStep
<1> DEFINE Ends(p) == pc[p] = "writing" /\ pc'[p] = "done" /\ alone[p]
                      /\ cmd[p] \in {"generate", "generate --out"}
<1>1. Init => UndisturbedInv
  BY GenInit DEF UndisturbedInv, Init, AllUndisturbed, Undisturbed
<1>2. UndisturbedInv /\ [Next]_vars => \A p \in Procs : Ends(p) => InStep(Outputs(cmd[p]))
  <2> SUFFICES ASSUME UndisturbedInv, [Next]_vars, NEW p \in Procs, Ends(p) PROVE InStep(Outputs(cmd[p]))
    OBVIOUS
  <2>1. FunctionsOK /\ Holds(p) /\ Undisturbed(p)
    BY DEF UndisturbedInv, GenInv, NothingUnchecked, AllUndisturbed
  <2>2. todo[p] = {}
    BY <2>1, DoneFacts
  <2>3. PICK c : c = cmd[p]
    OBVIOUS
  <2>4. c \in BuildsProtocol /\ c \notin ReadsProtocol /\ HasModel(c)
    BY <2>3 DEF BuildsProtocol, ReadsProtocol, HasModel
  <2>5. PICK spec : spec = sources[p]
    OBVIOUS
  <2>6. PICK def : def = model[p]
    OBVIOUS
  <2>7. Checked(spec) /\ BuiltFrom(def, spec) /\ ValidateProtocolDefinition(def)
    BY <2>1, <2>3, <2>4, <2>5, <2>6 DEF Holds
  <2>8. Complete(Outputs(c), spec, def)
    <3>1. Complete(Outputs(cmd[p]) \ todo[p], sources[p], model[p])
      BY <2>1 DEF Undisturbed, Active, Running
    <3>2. Outputs(cmd[p]) \ todo[p] = Outputs(c)
      BY <2>2, <2>3
    <3> QED BY <2>5, <2>6, <3>1, <3>2
  <2> QED BY <2>3, <2>7, <2>8, InStepFollows
<1>3. UndisturbedInv /\ [Next]_vars => [\A p \in Procs : Ends(p) => InStep(Outputs(cmd[p]))]_vars
  BY <1>2
<1>4. Spec => [][\A p \in Procs : Ends(p) => InStep(Outputs(cmd[p]))]_vars
  BY <1>1, <1>3, UndisturbedNext, PTL DEF Spec
<1> QED BY <1>4 DEF GeneratedInStep
=============================================================================
