------------------------- MODULE FilterEngine_proof -------------------------
(***************************************************************************)
(* What the parsers and matchers of FilterEngine compute, for every list.  *)
(*                                                                         *)
(* The parsers are loops over a list, recursive functions of the number of *)
(* entries read.  Each proof about one first shows that the function       *)
(* exists, and then what it holds after n entries, by induction on n: a    *)
(* statement about numbers is the set of numbers it is true of.            *)
(***************************************************************************)
EXTENDS FilterEngine, WellFoundedInduction, SequenceTheorems, TLAPS

(* Induction over the natural numbers, on the set of numbers for which a   *)
(* statement is true: its complement has no least element.                 *)
LEMMA NatSetInduction ==
  ASSUME NEW S, 0 \in S, \A n \in Nat : n \in S => n + 1 \in S
  PROVE  \A n \in Nat : n \in S
<1> DEFINE T == Nat \ S
           R == OpToRel(<, Nat)
<1>1. SUFFICES ASSUME T # {} PROVE FALSE
  OBVIOUS
<1>2. IsWellFoundedOn(R, Nat)
  BY NatLessThanWellFounded
<1>3. \A x, y \in Nat : x < y => <<x, y>> \in R
  BY DEF OpToRel
<1>4. T \subseteq Nat
  OBVIOUS
<1> HIDE DEF T, R
<1>5. PICK x \in T : \A y \in T : ~(<<y, x>> \in R)
  BY <1>1, <1>2, <1>4, WFMin
<1>6. x \in Nat /\ x \notin S
  BY <1>5 DEF T
<1>7. x - 1 \in Nat /\ x - 1 < x /\ (x - 1) + 1 = x
  BY <1>6
<1>8. x - 1 \in T
  BY <1>6, <1>7 DEF T
<1> QED
  BY <1>3, <1>5, <1>6, <1>7, <1>8

-----------------------------------------------------------------------------
(* Entries and their masks.                                                *)

EntryList(names) == Seq([name : names, cmds : SUBSET CommandBits])

(* parse_cmd_qualifier yields command bits only. *)
LEMMA QualMaskIsCommands ==
  ASSUME NEW quals, GoodQuals(quals)
  PROVE  QualMask(quals) \subseteq CommandBits
<1>1. \A tok \in DOMAIN cmd_tokens : cmd_tokens[tok] \subseteq CommandBits
  BY DEF cmd_tokens, CommandBits, DML, DDL, TCL
<1> QED
  BY <1>1 DEF GoodQuals, QualMask

(* What MaskOf collects, bit by bit. *)
LEMMA InMaskOf ==
  ASSUME NEW list, NEW x, NEW bit
  PROVE  bit \in MaskOf(list, x) <=>
           \E i \in DOMAIN list : list[i].name = x /\ bit \in list[i].cmds
BY DEF MaskOf

(* add_entry keeps a list a list, and adds exactly its mask to what the    *)
(* list says of its name: whether a first entry or a duplicate.            *)
LEMMA AddEntryAddsMask ==
  ASSUME NEW names, NEW list \in EntryList(names), NEW name \in names,
         NEW cmds \in SUBSET CommandBits
  PROVE  /\ add_entry(list, name, cmds) \in EntryList(names)
         /\ \A x : MaskOf(add_entry(list, name, cmds), x) =
                     MaskOf(list, x) \union (IF x = name THEN cmds ELSE {})
<1> DEFINE E == [name : names, cmds : SUBSET CommandBits]
<1>a. list \in Seq(E)
  BY DEF EntryList
<1> HIDE DEF E
<1>b. Len(list) \in Nat /\ DOMAIN list = 1..Len(list)
  BY <1>a
<1>c. \A i \in DOMAIN list : list[i] \in E
  BY <1>a
<1> DEFINE Added(x) == IF x = name THEN cmds ELSE {}
<1>1. CASE \E i \in DOMAIN list : list[i].name = name
  <2> DEFINE new == [i \in DOMAIN list |->
                       IF list[i].name = name
                         THEN [list[i] EXCEPT !.cmds = @ \union cmds]
                         ELSE list[i]]
  <2>1. add_entry(list, name, cmds) = new
    BY <1>1 DEF add_entry
  <2>2. \A i \in DOMAIN list :
          /\ new[i] \in E
          /\ new[i].name = list[i].name
          /\ new[i].cmds = IF list[i].name = name THEN list[i].cmds \union cmds
                           ELSE list[i].cmds
    BY <1>c DEF E
  <2>3. DOMAIN new = DOMAIN list
    OBVIOUS
  <2>4. new \in Seq(E)
    BY <1>a, <1>b, <1>c, <2>2, <2>3
  <2> HIDE DEF new
  <2>5. ASSUME NEW x
        PROVE  MaskOf(new, x) = MaskOf(list, x) \union Added(x)
    <3>1. ASSUME NEW bit
          PROVE  bit \in MaskOf(new, x) <=>
                   bit \in MaskOf(list, x) \/ bit \in Added(x)
      <4>1. bit \in MaskOf(new, x) <=>
              \E i \in DOMAIN list : new[i].name = x /\ bit \in new[i].cmds
        BY <2>3, InMaskOf
      <4>2. bit \in MaskOf(list, x) <=>
              \E i \in DOMAIN list : list[i].name = x /\ bit \in list[i].cmds
        BY InMaskOf
      <4>3. \A i \in DOMAIN list :
              bit \in new[i].cmds <=>
                bit \in list[i].cmds \/ (list[i].name = name /\ bit \in cmds)
        BY <2>2
      <4> QED
        BY <1>1, <2>2, <4>1, <4>2, <4>3
    <3> HIDE DEF Added
    <3> QED
      BY <3>1
  <2> QED
    BY <2>1, <2>4, <2>5 DEF EntryList, E
<1>2. CASE ~\E i \in DOMAIN list : list[i].name = name
  <2> DEFINE e == [name |-> name, cmds |-> cmds]
             new == Append(list, e)
  <2>1. add_entry(list, name, cmds) = new
    BY <1>2 DEF add_entry
  <2>a. e \in E
    BY DEF E
  <2> HIDE DEF e
  <2>2. new \in Seq(E) /\ DOMAIN new = 1..Len(list) + 1
    BY <1>a, <1>b, <2>a
  <2>3. \A i \in 1..Len(list) : new[i] = list[i]
    BY <1>a, <1>b
  <2>4. new[Len(list) + 1] = e /\ e.name = name /\ e.cmds = cmds
    BY <1>a, <1>b DEF e
  <2>5. 1..Len(list) + 1 = 1..Len(list) \union {Len(list) + 1}
    BY <1>b
  <2> HIDE DEF new
  <2>6. ASSUME NEW x
        PROVE  MaskOf(new, x) = MaskOf(list, x) \union Added(x)
    <3>1. ASSUME NEW bit
          PROVE  bit \in MaskOf(new, x) <=>
                   bit \in MaskOf(list, x) \/ bit \in Added(x)
      BY <1>b, <1>2, <2>2, <2>3, <2>4, <2>5, InMaskOf
    <3> HIDE DEF Added
    <3> QED
      BY <3>1
  <2> QED
    BY <2>1, <2>2, <2>6 DEF EntryList, E
<1> QED
  BY <1>1, <1>2

-----------------------------------------------------------------------------
(* The loop over a list.                                                   *)

AddStep(list, csv, names, take, n) ==
  IF n \in take THEN add_entry(list, names[n], QualMask(csv[n].quals))
  ELSE list

(* g[n] is the vector after n entries, up to k. *)
IsLoop(g, csv, names, take, k) ==
  g = [n \in 0..k |-> IF n = 0 THEN <<>>
                      ELSE AddStep(g[n - 1], csv, names, take, n)]

(* There is such a function, for every number of entries. *)
LEMMA LoopExists ==
  ASSUME NEW csv, NEW names, NEW take
  PROVE  \A k \in Nat : \E g : IsLoop(g, csv, names, take, k)
<1> DEFINE S == {k \in Nat : \E g : IsLoop(g, csv, names, take, k)}
<1>1. 0 \in S
  <2> DEFINE g == [n \in 0..0 |-> <<>>]
  <2>1. IsLoop(g, csv, names, take, 0)
    BY DEF IsLoop
  <2> QED
    BY <2>1
<1>2. ASSUME NEW k \in Nat, k \in S
      PROVE  k + 1 \in S
  <2>1. PICK g : IsLoop(g, csv, names, take, k)
    BY <1>2
  <2> DEFINE h == [n \in 0..k + 1 |->
                     IF n = k + 1 THEN AddStep(g[k], csv, names, take, n)
                     ELSE g[n]]
  <2>2. \A n \in 0..k + 1 :
          h[n] = IF n = 0 THEN <<>>
                 ELSE AddStep(h[n - 1], csv, names, take, n)
    <3> SUFFICES ASSUME NEW n \in 0..k + 1
                 PROVE  h[n] = IF n = 0 THEN <<>>
                               ELSE AddStep(h[n - 1], csv, names, take, n)
      OBVIOUS
    <3>1. CASE n = k + 1
      <4>1. h[n] = AddStep(g[k], csv, names, take, n)
        BY <3>1
      <4>2. h[n - 1] = g[k] /\ n # 0
        BY <3>1
      <4> QED
        BY <4>1, <4>2
    <3>2. CASE n # k + 1
      <4>1. n \in 0..k /\ h[n] = g[n] /\ (n # 0 => h[n - 1] = g[n - 1])
        BY <3>2
      <4>2. g[n] = IF n = 0 THEN <<>> ELSE AddStep(g[n - 1], csv, names, take, n)
        BY <2>1, <4>1 DEF IsLoop
      <4> QED
        BY <4>1, <4>2
    <3> QED
      BY <3>1, <3>2
  <2>3. h = [n \in 0..k + 1 |-> h[n]]
    OBVIOUS
  <2> HIDE DEF h
  <2>4. IsLoop(h, csv, names, take, k + 1)
    BY <2>2, <2>3 DEF IsLoop
  <2> QED
    BY <2>4
<1> HIDE DEF S
<1>3. \A k \in Nat : k \in S
  BY <1>1, <1>2, NatSetInduction
<1> QED
  BY <1>3 DEF S

(* add_entries is the last value of the loop. *)
LEMMA AddEntriesIsLoop ==
  ASSUME NEW csv, NEW names, NEW take, Len(csv) \in Nat
  PROVE  \E g : /\ IsLoop(g, csv, names, take, Len(csv))
                /\ add_entries(csv, names, take) = g[Len(csv)]
<1> DEFINE g == CHOOSE g : IsLoop(g, csv, names, take, Len(csv))
<1>1. IsLoop(g, csv, names, take, Len(csv))
  BY LoopExists
<1>2. add_entries(csv, names, take) = g[Len(csv)]
  BY Zenon DEF add_entries, IsLoop, AddStep
<1> QED
  BY <1>1, <1>2

(* A list says of a name what the entries of that name say together,       *)
(* duplicates merged: add_entries, entry by entry.                         *)
LEMMA AddEntriesMask ==
  ASSUME NEW csv, Len(csv) \in Nat, NEW names,
         NEW take \in SUBSET (1..Len(csv)),
         \A i \in take : GoodQuals(csv[i].quals)
  PROVE  \A x, bit :
           bit \in MaskOf(add_entries(csv, names, take), x) <=>
             \E i \in take : names[i] = x /\ bit \in QualMask(csv[i].quals)
<1>1. PICK g : /\ IsLoop(g, csv, names, take, Len(csv))
               /\ add_entries(csv, names, take) = g[Len(csv)]
  BY AddEntriesIsLoop
<1> DEFINE all == {names[i] : i \in take}
           Says(n, x, bit) ==
             \E i \in take : /\ i <= n /\ names[i] = x
                             /\ bit \in QualMask(csv[i].quals)
           Holds(n) == /\ g[n] \in EntryList(all)
                       /\ \A x, bit : bit \in MaskOf(g[n], x) <=> Says(n, x, bit)
           S == {n \in Nat : n <= Len(csv) => Holds(n)}
<1>a. \A i \in take : names[i] \in all
  OBVIOUS
<1> HIDE DEF all
<1>2. 0 \in S
  <2>1. g[0] = <<>>
    BY <1>1 DEF IsLoop
  <2>2. g[0] \in EntryList(all) /\ DOMAIN g[0] = {}
    BY <2>1 DEF EntryList
  <2>3. ASSUME NEW x, NEW bit PROVE bit \notin MaskOf(g[0], x)
    BY <2>2, InMaskOf
  <2>4. ASSUME NEW x, NEW bit PROVE ~Says(0, x, bit)
    OBVIOUS
  <2> QED
    BY <2>2, <2>3, <2>4
<1>3. ASSUME NEW n \in Nat, n \in S
      PROVE  n + 1 \in S
  <2> SUFFICES ASSUME n + 1 <= Len(csv) PROVE Holds(n + 1)
    OBVIOUS
  <2>1. Holds(n)
    BY <1>3
  <2>2. g[n + 1] = AddStep(g[n], csv, names, take, n + 1)
    BY <1>1 DEF IsLoop
  <2>3. ASSUME NEW i \in take
        PROVE  i <= n + 1 <=> i <= n \/ i = n + 1
    OBVIOUS
  <2>4. CASE n + 1 \notin take
    <3>1. g[n + 1] = g[n]
      BY <2>2, <2>4 DEF AddStep
    <3>2. ASSUME NEW x, NEW bit PROVE Says(n + 1, x, bit) <=> Says(n, x, bit)
      BY <2>3, <2>4
    <3> HIDE DEF Says
    <3> QED
      BY <2>1, <3>1, <3>2
  <2>5. CASE n + 1 \in take
    <3> DEFINE name == names[n + 1]
               cmds == QualMask(csv[n + 1].quals)
    <3>1. g[n + 1] = add_entry(g[n], name, cmds)
      BY <2>2, <2>5 DEF AddStep
    <3>2. name \in all /\ cmds \in SUBSET CommandBits
      BY <1>a, <2>5, QualMaskIsCommands
    <3>3. ASSUME NEW x, NEW bit
          PROVE  Says(n + 1, x, bit) <=>
                   Says(n, x, bit) \/ (x = name /\ bit \in cmds)
      BY <2>3, <2>5
    <3> HIDE DEF Says, name, cmds
    <3>4. /\ g[n + 1] \in EntryList(all)
          /\ \A x : MaskOf(g[n + 1], x) =
                      MaskOf(g[n], x) \union (IF x = name THEN cmds ELSE {})
      BY <2>1, <3>1, <3>2, AddEntryAddsMask
    <3>5. ASSUME NEW x, NEW bit
          PROVE  bit \in MaskOf(g[n + 1], x) <=> Says(n + 1, x, bit)
      BY <2>1, <3>3, <3>4
    <3> QED
      BY <3>4, <3>5
  <2> QED
    BY <2>4, <2>5
<1> HIDE DEF S
<1>4. Len(csv) \in S
  BY <1>2, <1>3, NatSetInduction
<1>5. Holds(Len(csv))
  BY <1>4 DEF S
<1>6. ASSUME NEW x, NEW bit
      PROVE  Says(Len(csv), x, bit) <=>
               \E i \in take : names[i] = x /\ bit \in QualMask(csv[i].quals)
  OBVIOUS
<1> HIDE DEF Says
<1> QED
  BY <1>1, <1>5, <1>6

-----------------------------------------------------------------------------
(* The rules of three lists.                                               *)

(* The shape of the lists: what split_csv yields. *)
IsText(lists) ==
  /\ lists.schemas \in Seq(EntryText)
  /\ lists.tables \in Seq(EntryText)

(* What a successful parse leaves in FilterRules, and what it says of the  *)
(* entries.                                                                *)
LEMMA ParsedRules ==
  ASSUME NEW lists, ParseAll(lists).ok
  PROVE  LET s == lists.schemas
             t == lists.tables
             rules == ParseAll(lists).rules
         IN  /\ \A i \in DOMAIN s : GoodSchemaEntry(s[i])
             /\ \A i \in DOMAIN t : GoodTableEntry(t[i])
             /\ rules.schemas = add_entries(s, SchemaName(s), DOMAIN s)
             /\ rules.wildcard_schemas =
                  add_entries(t, SchemaName(t), Wildcards(t))
             /\ rules.tables =
                  add_entries(t, FullName(t), DOMAIN t \ Wildcards(t))
             /\ rules.connections = {IdValue(lists.connections[i]) :
                                       i \in DOMAIN lists.connections}
             /\ \A i \in DOMAIN lists.connections :
                  \A k \in DOMAIN lists.connections[i] :
                    lists.connections[i][k] # NotADigit
<1> DEFINE s == lists.schemas
           t == lists.tables
           f == parse_filter_lists(s, t, EmptyRules)
           c == parse_connection_list(lists.connections, f.rules)
<1>1. ParseAll(lists) = [ok |-> f.ok /\ c.ok, rules |-> c.rules]
  BY DEF ParseAll
<1>2. f.ok /\ c.ok
  <2> HIDE DEF f, c
  <2>1. PICK b \in BOOLEAN : b = (f.ok /\ c.ok)
    OBVIOUS
  <2>2. ParseAll(lists) = [ok |-> b, rules |-> c.rules]
    BY <1>1, <2>1, Zenon
  <2>3. b
    BY <2>2
  <2> QED
    BY <2>1, <2>3, Zenon
<1>3. /\ \A i \in DOMAIN s : GoodSchemaEntry(s[i])
      /\ \A i \in DOMAIN t : GoodTableEntry(t[i])
  BY <1>2 DEF parse_filter_lists
<1>4. f.rules = [EmptyRules EXCEPT
                   !.schemas = add_entries(s, SchemaName(s), DOMAIN s),
                   !.wildcard_schemas =
                     add_entries(t, SchemaName(t), Wildcards(t)),
                   !.tables =
                     add_entries(t, FullName(t), DOMAIN t \ Wildcards(t))]
  BY <1>3 DEF parse_filter_lists
<1>5. \A i \in DOMAIN lists.connections :
        \A k \in DOMAIN lists.connections[i] :
          lists.connections[i][k] # NotADigit
  BY <1>2 DEF parse_connection_list
<1>6. c.rules = [f.rules EXCEPT !.connections =
                   {IdValue(lists.connections[i]) :
                      i \in DOMAIN lists.connections}]
  BY <1>5 DEF parse_connection_list
<1> HIDE DEF f, c
<1>7. /\ c.rules.schemas = add_entries(s, SchemaName(s), DOMAIN s)
      /\ c.rules.wildcard_schemas = add_entries(t, SchemaName(t), Wildcards(t))
      /\ c.rules.tables = add_entries(t, FullName(t), DOMAIN t \ Wildcards(t))
      /\ c.rules.connections = {IdValue(lists.connections[i]) :
                                  i \in DOMAIN lists.connections}
  BY <1>4, <1>6 DEF EmptyRules
<1> QED
  BY <1>1, <1>3, <1>5, <1>7

(* A sequence of one or of two names is told by the names. *)
LEMMA ShortNames ==
  ASSUME NEW s \in Seq(STRING), NEW a, NEW b
  PROVE  /\ Len(s) = 1 => (s = <<a>> <=> s[1] = a)
         /\ Len(s) = 2 => (s = <<a, b>> <=> s[1] = a /\ s[2] = b)
<1>1. ASSUME Len(s) = 1, s[1] = a PROVE s = <<a>>
  BY <1>1
<1>2. ASSUME Len(s) = 2, s[1] = a, s[2] = b PROVE s = <<a, b>>
  BY <1>2
<1> QED
  BY <1>1, <1>2

(* An entry of the table list that is good is a pair of names. *)
LEMMA TableEntryIsPair ==
  ASSUME NEW e \in EntryText, GoodTableEntry(e)
  PROVE  /\ \A a, b : e.parts = <<a, b>> <=> e.parts[1] = a /\ e.parts[2] = b
         /\ e.parts[1] # "" /\ e.parts[2] # "" /\ GoodQuals(e.quals)
<1>1. e.parts \in Seq(STRING) /\ Len(e.parts) = 2
  BY DEF EntryText, GoodTableEntry
<1>2. ASSUME NEW a, NEW b
      PROVE  e.parts = <<a, b>> <=> e.parts[1] = a /\ e.parts[2] = b
  BY <1>1, ShortNames
<1> QED
  BY <1>2 DEF GoodTableEntry

(* An entry of the schema list that is good is one name. *)
LEMMA SchemaEntryIsName ==
  ASSUME NEW e \in EntryText, GoodSchemaEntry(e)
  PROVE  /\ \A a : e.parts = <<a>> <=> e.parts[1] = a
         /\ e.parts[1] # "" /\ GoodQuals(e.quals)
<1>1. e.parts \in Seq(STRING) /\ Len(e.parts) = 1
  BY DEF EntryText, GoodSchemaEntry
<1>2. ASSUME NEW a
      PROVE  e.parts = <<a>> <=> e.parts[1] = a
  BY <1>1, ShortNames
<1> QED
  BY <1>2 DEF GoodSchemaEntry

(* The names and qualifiers of good entries. *)
NamesOf(s, t) ==
  /\ \A i \in DOMAIN s :
       /\ \A a : s[i].parts = <<a>> <=> s[i].parts[1] = a
       /\ s[i].parts[1] # "" /\ GoodQuals(s[i].quals)
  /\ \A i \in DOMAIN t :
       /\ \A a, b : t[i].parts = <<a, b>> <=>
                       t[i].parts[1] = a /\ t[i].parts[2] = b
       /\ t[i].parts[1] # "" /\ GoodQuals(t[i].quals)

(* What the vectors of the rules say, in terms of the entries. *)
VectorsOf(rules, s, t) ==
  /\ \A db, bit : bit \in MaskOf(rules.schemas, db) <=>
       \E i \in DOMAIN s : s[i].parts[1] = db /\ bit \in QualMask(s[i].quals)
  /\ \A db, bit : bit \in MaskOf(rules.wildcard_schemas, db) <=>
       \E i \in DOMAIN t :
         /\ t[i].parts[1] = db /\ t[i].parts[2] = "*"
         /\ bit \in QualMask(t[i].quals)
  /\ \A name, bit : bit \in MaskOf(rules.tables, name) <=>
       \E i \in DOMAIN t :
         /\ t[i].parts = name /\ t[i].parts[2] # "*"
         /\ bit \in QualMask(t[i].quals)

(* Lists that parse have good names, and their rules say what the entries  *)
(* say.                                                                    *)
LEMMA ParsedVectors ==
  ASSUME NEW lists, IsText(lists), ParseAll(lists).ok
  PROVE  /\ NamesOf(lists.schemas, lists.tables)
         /\ VectorsOf(ParseAll(lists).rules, lists.schemas, lists.tables)
<1>a. PICK s, t, rules : /\ s = lists.schemas /\ t = lists.tables
                         /\ rules = ParseAll(lists).rules
  OBVIOUS
<1>1. /\ s \in Seq(EntryText) /\ t \in Seq(EntryText)
      /\ Len(s) \in Nat /\ DOMAIN s = 1..Len(s)
      /\ Len(t) \in Nat /\ DOMAIN t = 1..Len(t)
  BY <1>a DEF IsText
<1>2. /\ \A i \in DOMAIN s : GoodSchemaEntry(s[i])
      /\ \A i \in DOMAIN t : GoodTableEntry(t[i])
      /\ rules.schemas = add_entries(s, SchemaName(s), DOMAIN s)
      /\ rules.wildcard_schemas = add_entries(t, SchemaName(t), Wildcards(t))
      /\ rules.tables = add_entries(t, FullName(t), DOMAIN t \ Wildcards(t))
  BY <1>a, ParsedRules
<1>3. /\ \A i \in DOMAIN s : GoodQuals(s[i].quals)
      /\ \A i \in DOMAIN t : GoodQuals(t[i].quals)
  BY <1>2 DEF GoodSchemaEntry, GoodTableEntry
<1>4. ASSUME NEW db, NEW bit
      PROVE  bit \in MaskOf(rules.schemas, db) <=>
               \E i \in DOMAIN s :
                 s[i].parts[1] = db /\ bit \in QualMask(s[i].quals)
  <2> DEFINE names == SchemaName(s)
  <2>1. \A i \in DOMAIN s : names[i] = s[i].parts[1]
    BY DEF SchemaName
  <2>2. DOMAIN s \in SUBSET (1..Len(s))
    BY <1>1
  <2>3. \A i \in DOMAIN s : GoodQuals(s[i].quals)
    BY <1>3
  <2> HIDE DEF names
  <2>4. bit \in MaskOf(add_entries(s, names, DOMAIN s), db) <=>
          \E i \in DOMAIN s : names[i] = db /\ bit \in QualMask(s[i].quals)
    BY <1>1, <2>2, <2>3, AddEntriesMask
  <2> QED
    BY <1>2, <2>1, <2>4 DEF names
<1>5. ASSUME NEW db, NEW bit
      PROVE  bit \in MaskOf(rules.wildcard_schemas, db) <=>
               \E i \in DOMAIN t :
                 /\ t[i].parts[1] = db /\ t[i].parts[2] = "*"
                 /\ bit \in QualMask(t[i].quals)
  <2> DEFINE names == SchemaName(t)
             take == Wildcards(t)
  <2>1. \A i \in DOMAIN t : names[i] = t[i].parts[1]
    BY DEF SchemaName
  <2>2. take \in SUBSET (1..Len(t))
    BY <1>1 DEF Wildcards
  <2>3. \A i \in take : GoodQuals(t[i].quals)
    BY <1>3 DEF Wildcards
  <2>4. \A i : i \in take <=> i \in DOMAIN t /\ t[i].parts[2] = "*"
    BY DEF Wildcards, IsWildcard
  <2> HIDE DEF names, take
  <2>5. bit \in MaskOf(add_entries(t, names, take), db) <=>
          \E i \in take : names[i] = db /\ bit \in QualMask(t[i].quals)
    BY <1>1, <2>2, <2>3, AddEntriesMask
  <2> QED
    BY <1>2, <2>1, <2>4, <2>5 DEF names, take
<1>6. ASSUME NEW name, NEW bit
      PROVE  bit \in MaskOf(rules.tables, name) <=>
               \E i \in DOMAIN t :
                 /\ t[i].parts = name /\ t[i].parts[2] # "*"
                 /\ bit \in QualMask(t[i].quals)
  <2> DEFINE names == FullName(t)
             take == DOMAIN t \ Wildcards(t)
  <2>1. \A i \in DOMAIN t : names[i] = t[i].parts
    BY DEF FullName
  <2>2. take \in SUBSET (1..Len(t))
    BY <1>1
  <2>3. \A i \in take : GoodQuals(t[i].quals)
    BY <1>3
  <2>4. \A i : i \in take <=> i \in DOMAIN t /\ t[i].parts[2] # "*"
    BY DEF Wildcards, IsWildcard
  <2> HIDE DEF names, take
  <2>5. bit \in MaskOf(add_entries(t, names, take), name) <=>
          \E i \in take : names[i] = name /\ bit \in QualMask(t[i].quals)
    BY <1>1, <2>2, <2>3, AddEntriesMask
  <2> QED
    BY <1>2, <2>1, <2>4, <2>5 DEF names, take
<1>7. VectorsOf(rules, s, t)
  BY <1>4, <1>5, <1>6 DEF VectorsOf
<1>8. NamesOf(s, t)
  <2>1. \A i \in DOMAIN s : s[i] \in EntryText
    BY <1>1
  <2>2. \A i \in DOMAIN t : t[i] \in EntryText
    BY <1>1
  <2>3. ASSUME NEW i \in DOMAIN s
        PROVE  /\ \A a : s[i].parts = <<a>> <=> s[i].parts[1] = a
               /\ s[i].parts[1] # "" /\ GoodQuals(s[i].quals)
    BY <1>2, <2>1, SchemaEntryIsName
  <2>4. ASSUME NEW i \in DOMAIN t
        PROVE  /\ \A a, b : t[i].parts = <<a, b>> <=>
                               t[i].parts[1] = a /\ t[i].parts[2] = b
               /\ t[i].parts[1] # "" /\ GoodQuals(t[i].quals)
    BY <1>2, <2>2, TableEntryIsPair
  <2> QED
    BY <2>3, <2>4 DEF NamesOf
<1> QED
  BY <1>a, <1>7, <1>8

(* A table's commands are those of the entries that name the table, or its *)
(* whole schema.                                                           *)
TableSays(rules, t, table) ==
  \A db, bit :
    bit \in match_table(rules, db, table) <=>
      \E i \in DOMAIN t :
        /\ t[i].parts[1] = db
        /\ t[i].parts[2] = table \/ t[i].parts[2] = "*"
        /\ bit \in QualMask(t[i].quals)

(* A schema's commands are those of its entries and of the wildcard        *)
(* entries of its tables.                                                  *)
SchemaSays(rules, s, t) ==
  \A db, bit :
    bit \in match_schema(rules, db) <=>
      \/ \E i \in DOMAIN s :
           s[i].parts = <<db>> /\ bit \in QualMask(s[i].quals)
      \/ \E i \in DOMAIN t :
           t[i].parts = <<db, "*">> /\ bit \in QualMask(t[i].quals)

(* match_table is the union of a table's entries. *)
LEMMA MatchTableSays ==
  ASSUME NEW rules, NEW s, NEW t, NamesOf(s, t), VectorsOf(rules, s, t),
         NEW table, table # ""
  PROVE  TableSays(rules, t, table)
<1> SUFFICES ASSUME NEW db, NEW bit
             PROVE  bit \in match_table(rules, db, table) <=>
                      \E i \in DOMAIN t :
                        /\ t[i].parts[1] = db
                        /\ t[i].parts[2] = table \/ t[i].parts[2] = "*"
                        /\ bit \in QualMask(t[i].quals)
  BY DEF TableSays
<1>1. ASSUME NEW i \in DOMAIN t
      PROVE  /\ t[i].parts = <<db, table>> <=>
                  t[i].parts[1] = db /\ t[i].parts[2] = table
             /\ t[i].parts[1] # ""
  <2>1. \A a, b : t[i].parts = <<a, b>> <=>
                    t[i].parts[1] = a /\ t[i].parts[2] = b
    BY DEF NamesOf
  <2>2. t[i].parts[1] # ""
    BY DEF NamesOf
  <2> QED
    BY <2>1, <2>2, Zenon
<1>2. bit \in MaskOf(rules.wildcard_schemas, db) <=>
        \E i \in DOMAIN t :
          /\ t[i].parts[1] = db /\ t[i].parts[2] = "*"
          /\ bit \in QualMask(t[i].quals)
  BY DEF VectorsOf
<1>3. bit \in MaskOf(rules.tables, <<db, table>>) <=>
        \E i \in DOMAIN t :
          /\ t[i].parts = <<db, table>> /\ t[i].parts[2] # "*"
          /\ bit \in QualMask(t[i].quals)
  BY DEF VectorsOf
<1>4. bit \in match_table(rules, db, table) <=>
        /\ db # ""
        /\ \/ bit \in MaskOf(rules.wildcard_schemas, db)
           \/ bit \in MaskOf(rules.tables, <<db, table>>)
  BY DEF match_table
<1> QED
  BY <1>1, <1>2, <1>3, <1>4

(* match_schema is the union of a schema's entries. *)
LEMMA MatchSchemaSays ==
  ASSUME NEW rules, NEW s, NEW t, NamesOf(s, t), VectorsOf(rules, s, t)
  PROVE  SchemaSays(rules, s, t)
<1> SUFFICES ASSUME NEW db, NEW bit
             PROVE  bit \in match_schema(rules, db) <=>
                      \/ \E i \in DOMAIN s :
                           /\ s[i].parts = <<db>>
                           /\ bit \in QualMask(s[i].quals)
                      \/ \E i \in DOMAIN t :
                           /\ t[i].parts = <<db, "*">>
                           /\ bit \in QualMask(t[i].quals)
  BY DEF SchemaSays
<1>1. \A i \in DOMAIN s :
        (s[i].parts = <<db>> <=> s[i].parts[1] = db) /\ s[i].parts[1] # ""
  BY DEF NamesOf
<1>2. ASSUME NEW i \in DOMAIN t
      PROVE  /\ t[i].parts = <<db, "*">> <=>
                  t[i].parts[1] = db /\ t[i].parts[2] = "*"
             /\ t[i].parts[1] # ""
  <2>1. \A a, b : t[i].parts = <<a, b>> <=>
                    t[i].parts[1] = a /\ t[i].parts[2] = b
    BY DEF NamesOf
  <2>2. t[i].parts[1] # ""
    BY DEF NamesOf
  <2> QED
    BY <2>1, <2>2, Zenon
<1>3. bit \in MaskOf(rules.schemas, db) <=>
        \E i \in DOMAIN s :
          s[i].parts[1] = db /\ bit \in QualMask(s[i].quals)
  BY DEF VectorsOf
<1>4. bit \in MaskOf(rules.wildcard_schemas, db) <=>
        \E i \in DOMAIN t :
          /\ t[i].parts[1] = db /\ t[i].parts[2] = "*"
          /\ bit \in QualMask(t[i].quals)
  BY DEF VectorsOf
<1>5. bit \in match_schema(rules, db) <=>
        /\ db # ""
        /\ \/ bit \in MaskOf(rules.schemas, db)
           \/ bit \in MaskOf(rules.wildcard_schemas, db)
  BY DEF match_schema
<1>6. (\E i \in DOMAIN s : s[i].parts = <<db>> /\ bit \in QualMask(s[i].quals))
      <=> db # "" /\ bit \in MaskOf(rules.schemas, db)
  BY <1>1, <1>3
<1>7. (\E i \in DOMAIN t : /\ t[i].parts = <<db, "*">>
                           /\ bit \in QualMask(t[i].quals))
      <=> db # "" /\ bit \in MaskOf(rules.wildcard_schemas, db)
  BY <1>2, <1>4
<1> QED
  BY <1>5, <1>6, <1>7

(* Whatever is asked of parsed rules, the answer is a set of command bits. *)
LEMMA MatchIsCommands ==
  ASSUME NEW lists, IsText(lists), ParseAll(lists).ok, NEW db, NEW table
  PROVE  /\ match_table(ParseAll(lists).rules, db, table) \subseteq CommandBits
         /\ match_schema(ParseAll(lists).rules, db) \subseteq CommandBits
<1>a. PICK s, t, rules : /\ s = lists.schemas /\ t = lists.tables
                         /\ rules = ParseAll(lists).rules
  OBVIOUS
<1>1. NamesOf(s, t) /\ VectorsOf(rules, s, t)
  BY <1>a, ParsedVectors
<1>2. \A i \in DOMAIN s : QualMask(s[i].quals) \subseteq CommandBits
  BY <1>1, QualMaskIsCommands DEF NamesOf
<1>3. \A i \in DOMAIN t : QualMask(t[i].quals) \subseteq CommandBits
  BY <1>1, QualMaskIsCommands DEF NamesOf
<1>4. match_schema(rules, db) \subseteq CommandBits
  <2>1. SchemaSays(rules, s, t)
    BY <1>1, MatchSchemaSays
  <2> QED
    BY <1>2, <1>3, <2>1 DEF SchemaSays
<1>5. match_table(rules, db, table) \subseteq CommandBits
  <2>1. CASE table = ""
    BY <2>1 DEF match_table
  <2>2. CASE table # ""
    <3>1. ASSUME NEW bit \in match_table(rules, db, table)
          PROVE  \E i \in DOMAIN t : bit \in QualMask(t[i].quals)
      <4>1. TableSays(rules, t, table)
        BY <1>1, <2>2, MatchTableSays
      <4> QED
        BY <4>1 DEF TableSays
    <3> QED
      BY <1>3, <3>1
  <2> QED
    BY <2>1, <2>2
<1> QED
  BY <1>a, <1>4, <1>5

-----------------------------------------------------------------------------
(* Loops over digits.                                                      *)

(* g has the values of a loop over k steps from v0, step n from g[n - 1]   *)
(* to F[g[n - 1], n].                                                      *)
ValuesOf(g, V, v0, k, F) ==
  /\ g \in [0..k -> V] /\ g[0] = v0
  /\ \A n \in 1..k : g[n] = F[<<g[n - 1], n>>]

(* A loop whose steps stay in a set has its values. *)
LEMMA LoopHasValues ==
  ASSUME NEW V, NEW v0 \in V, NEW K \in Nat, NEW F \in [V \X (1..K) -> V]
  PROVE  \E g : ValuesOf(g, V, v0, K, F)
<1> DEFINE Upto(k) == \E g : ValuesOf(g, V, v0, k, F)
           S == {k \in Nat : k <= K => Upto(k)}
<1>1. 0 \in S
  <2> DEFINE g == [n \in 0..0 |-> v0]
  <2>1. g \in [0..0 -> V] /\ g[0] = v0 /\ 1..0 = {}
    OBVIOUS
  <2> HIDE DEF g
  <2>2. Upto(0)
    BY <2>1 DEF ValuesOf
  <2> QED
    BY <2>2
<1>2. ASSUME NEW k \in Nat, k \in S
      PROVE  k + 1 \in S
  <2> SUFFICES ASSUME k + 1 <= K PROVE Upto(k + 1)
    OBVIOUS
  <2>0. PICK g : ValuesOf(g, V, v0, k, F)
    BY <1>2
  <2>1. /\ g \in [0..k -> V] /\ g[0] = v0
        /\ \A n \in 1..k : g[n] = F[<<g[n - 1], n>>]
    BY <2>0 DEF ValuesOf
  <2> DEFINE h == [n \in 0..k + 1 |->
                     IF n = k + 1 THEN F[<<g[k], k + 1>>] ELSE g[n]]
  <2>2. F[<<g[k], k + 1>>] \in V
    BY <2>1
  <2>3. h \in [0..k + 1 -> V]
    BY <2>1, <2>2
  <2>4. h[0] = v0
    BY <2>1
  <2>5. ASSUME NEW n \in 1..k + 1 PROVE h[n] = F[<<h[n - 1], n>>]
    <3>1. CASE n = k + 1
      <4>1. h[n - 1] = g[k] /\ h[n] = F[<<g[k], k + 1>>]
        BY <3>1
      <4> QED
        BY <3>1, <4>1
    <3>2. CASE n # k + 1
      <4>1. n \in 1..k /\ h[n - 1] = g[n - 1] /\ h[n] = g[n]
        BY <3>2
      <4> QED
        BY <2>1, <4>1
    <3> QED
      BY <3>1, <3>2
  <2> HIDE DEF h
  <2> QED
    BY <2>3, <2>4, <2>5 DEF ValuesOf
<1> HIDE DEF S
<1>3. K \in S
  BY <1>1, <1>2, NatSetInduction
<1> QED
  BY <1>3 DEF S
=============================================================================
