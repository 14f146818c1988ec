----------------------- MODULE FilterEngineCheck_proof -----------------------
(***************************************************************************)
(* The filter engine agrees with its reference for lists of every length,  *)
(* over every set of entries.  The lists are sequences of entries          *)
(* (ListsInv); that is all the lemmas of FilterEngine_proof ask for.       *)
(***************************************************************************)
EXTENDS FilterEngineCheck, FilterEngine_proof

ListsInv ==
  lists \in [schemas : Seq(EntryText), tables : Seq(EntryText),
             connections : Seq(ConnectionText)]

(* Editing a list keeps it a list of entries. *)
LEMMA ListsInvariant == Spec => []ListsInv
<1>1. Init => ListsInv
  BY DEF Init, EmptyLists, ListsInv
<1>2. ListsInv /\ [Next]_lists => ListsInv'
  <2> SUFFICES ASSUME ListsInv, [Next]_lists PROVE ListsInv'
    OBVIOUS
  <2>0. /\ \A e \in SchemaEntries : e \in EntryText
        /\ \A e \in TableEntries : e \in EntryText
        /\ \A e \in ConnEntries : e \in ConnectionText
    BY FilterEngineCheckAssumption
  <2>1. CASE AddSchema
    <3>1. PICK e \in EntryText :
            lists' = [lists EXCEPT !.schemas = Append(@, e)]
      BY <2>0, <2>1 DEF AddSchema, AddTo
    <3>2. Append(lists.schemas, e) \in Seq(EntryText)
      BY DEF ListsInv
    <3> QED
      BY <3>1, <3>2 DEF ListsInv
  <2>2. CASE AddTable
    <3>1. PICK e \in EntryText :
            lists' = [lists EXCEPT !.tables = Append(@, e)]
      BY <2>0, <2>2 DEF AddTable, AddTo
    <3>2. Append(lists.tables, e) \in Seq(EntryText)
      BY DEF ListsInv
    <3> QED
      BY <3>1, <3>2 DEF ListsInv
  <2>3. CASE AddConnection
    <3>1. PICK e \in ConnectionText :
            lists' = [lists EXCEPT !.connections = Append(@, e)]
      BY <2>0, <2>3 DEF AddConnection, AddTo
    <3>2. Append(lists.connections, e) \in Seq(ConnectionText)
      BY DEF ListsInv
    <3> QED
      BY <3>1, <3>2 DEF ListsInv
  <2>4. CASE Clear
    BY <2>4 DEF Clear, EmptyLists, ListsInv
  <2>5. CASE UNCHANGED lists
    BY <2>5 DEF ListsInv
  <2> QED
    BY <2>1, <2>2, <2>3, <2>4, <2>5 DEF Next
<1> QED
  BY <1>1, <1>2, PTL DEF Spec

(* A command is traced on a table exactly when an entry says so: whatever  *)
(* the duplicates, their order and their number, add_entry's merge and     *)
(* match_table's union lose nothing and add nothing.                       *)
THEOREM TableMatchIsUnion == Spec => []MatchTableIsUnion
<1>1. ListsInv => MatchTableIsUnion
  <2> SUFFICES ASSUME ListsInv, Parsed.ok,
                      NEW db \in Databases, NEW table \in TableNames
               PROVE  match_table(Parsed.rules, db, table) =
                        {c \in CommandBits : \E i \in DOMAIN lists.tables :
                           /\ lists.tables[i].parts[1] = db
                           /\ lists.tables[i].parts[2] \in {table, "*"}
                           /\ c \in QualMask(lists.tables[i].quals)}
    BY DEF MatchTableIsUnion
  <2>1. IsText(lists) /\ ParseAll(lists).ok
    BY DEF ListsInv, IsText, Parsed
  <2>2. PICK s, t, rules : /\ s = lists.schemas /\ t = lists.tables
                           /\ rules = Parsed.rules
    OBVIOUS
  <2>3. NamesOf(s, t) /\ VectorsOf(rules, s, t)
    BY <2>1, <2>2, ParsedVectors DEF Parsed
  <2>4. match_table(rules, db, table) \subseteq CommandBits
    BY <2>1, <2>2, MatchIsCommands DEF Parsed
  <2>5. table # ""
    BY FilterEngineCheckAssumption
  <2>6. match_table(rules, db, table) =
          {c \in CommandBits : \E i \in DOMAIN t :
             /\ t[i].parts[1] = db /\ t[i].parts[2] \in {table, "*"}
             /\ c \in QualMask(t[i].quals)}
    <3>1. ASSUME NEW c
          PROVE  c \in match_table(rules, db, table) <=>
                   \E i \in DOMAIN t :
                     /\ t[i].parts[1] = db /\ t[i].parts[2] \in {table, "*"}
                     /\ c \in QualMask(t[i].quals)
      <4>1. TableSays(rules, t, table)
        BY <2>3, <2>5, MatchTableSays
      <4>2. c \in match_table(rules, db, table) <=>
              \E i \in DOMAIN t :
                /\ t[i].parts[1] = db
                /\ t[i].parts[2] = table \/ t[i].parts[2] = "*"
                /\ c \in QualMask(t[i].quals)
        BY <4>1 DEF TableSays
      <4> QED
        BY <4>2
    <3> QED
      BY <2>4, <3>1
  <2> QED
    BY <2>2, <2>6
<1> QED
  BY <1>1, ListsInvariant, PTL

(* A command is traced on a session schema exactly when an entry of the    *)
(* schema list or a wildcard entry of the table list says so               *)
(* (match_schema).                                                         *)
THEOREM SchemaMatchIsUnion == Spec => []MatchSchemaIsUnion
<1>1. ListsInv => MatchSchemaIsUnion
  <2> SUFFICES ASSUME ListsInv, Parsed.ok, NEW db \in Databases
               PROVE  match_schema(Parsed.rules, db) =
                        {c \in CommandBits :
                           \/ \E i \in DOMAIN lists.schemas :
                                /\ lists.schemas[i].parts = <<db>>
                                /\ c \in QualMask(lists.schemas[i].quals)
                           \/ \E i \in DOMAIN lists.tables :
                                /\ lists.tables[i].parts = <<db, "*">>
                                /\ c \in QualMask(lists.tables[i].quals)}
    BY DEF MatchSchemaIsUnion
  <2>1. IsText(lists) /\ ParseAll(lists).ok
    BY DEF ListsInv, IsText, Parsed
  <2>2. PICK s, t, rules : /\ s = lists.schemas /\ t = lists.tables
                           /\ rules = Parsed.rules
    OBVIOUS
  <2>3. NamesOf(s, t) /\ VectorsOf(rules, s, t)
    BY <2>1, <2>2, ParsedVectors DEF Parsed
  <2>4. match_schema(rules, db) \subseteq CommandBits
    BY <2>1, <2>2, MatchIsCommands DEF Parsed
  <2>5. match_schema(rules, db) =
          {c \in CommandBits :
             \/ \E i \in DOMAIN s :
                  s[i].parts = <<db>> /\ c \in QualMask(s[i].quals)
             \/ \E i \in DOMAIN t :
                  t[i].parts = <<db, "*">> /\ c \in QualMask(t[i].quals)}
    <3>1. ASSUME NEW c
          PROVE  c \in match_schema(rules, db) <=>
                   \/ \E i \in DOMAIN s :
                        s[i].parts = <<db>> /\ c \in QualMask(s[i].quals)
                   \/ \E i \in DOMAIN t :
                        t[i].parts = <<db, "*">> /\ c \in QualMask(t[i].quals)
      <4>1. SchemaSays(rules, s, t)
        BY <2>3, MatchSchemaSays
      <4> QED
        BY <4>1 DEF SchemaSays
    <3> QED
      BY <2>4, <3>1
  <2> QED
    BY <2>2, <2>5
<1> QED
  BY <1>1, ListsInvariant, PTL

-----------------------------------------------------------------------------
(* Connection ids.                                                         *)

Digits == Seq(0..9)

(* Division with remainder, as machine words wrap. *)
LEMMA DivMod ==
  ASSUME NEW x \in Nat
  PROVE  /\ x \div WordSize \in Nat /\ x % WordSize \in 0..WordSize - 1
         /\ x = WordSize * (x \div WordSize) + (x % WordSize)
<1>1. x % WordSize \in 0..WordSize - 1
  BY WordSizeAssumption
<1>2. x = WordSize * (x \div WordSize) + (x % WordSize)
  BY WordSizeAssumption
<1>3. x \div WordSize \in Nat
  BY WordSizeAssumption
<1> QED
  BY <1>1, <1>2, <1>3

(* A word holds r after the number x was written to it. *)
Wraps(x, r) == \E q \in Nat : x = WordSize * q + r

(* One digit read modulo the word, from a value read modulo the word. *)
LEMMA DigitInWord ==
  ASSUME NEW r \in Nat, NEW d \in Nat, NEW D \in Nat, Wraps(D, r)
  PROVE  Wraps(D * 10 + d, (r * 10 + d) % WordSize)
<1>0. PICK q \in Nat : D = WordSize * q + r
  BY DEF Wraps
<1> DEFINE x == r * 10 + d
           p == x \div WordSize
           s == x % WordSize
<1>1. WordSize \in Nat /\ x \in Nat
  BY WordSizeAssumption
<1>2. p \in Nat /\ s \in Nat /\ x = WordSize * p + s
  BY <1>1, DivMod
<1> HIDE DEF p, s
<1>3. WordSize * (q * 10 + p) = (WordSize * q) * 10 + WordSize * p
  BY <1>1, <1>2
<1>4. WordSize * q \in Nat /\ WordSize * p \in Nat
  BY <1>1, <1>2
<1>5. D * 10 + d = WordSize * (q * 10 + p) + s
  BY <1>0, <1>2, <1>3, <1>4
<1>6. q * 10 + p \in Nat
  BY <1>2
<1> QED
  BY <1>5, <1>6 DEF s, Wraps

(* Both readers as loops: their values after n digits. *)
LEMMA ReadersAreLoops ==
  ASSUME NEW tok \in Digits
  PROVE  \E id, dec :
           /\ IdValue(tok) = id[Len(tok)] /\ DecimalValue(tok) = dec[Len(tok)]
           /\ id[0] = 0 /\ dec[0] = 0
           /\ \A n \in 1..Len(tok) :
                /\ id[n] = (id[n - 1] * 10 + tok[n]) % WordSize
                /\ dec[n] = dec[n - 1] * 10 + tok[n]
<1> DEFINE IsId(g) == g = [n \in 0..Len(tok) |->
                 IF n = 0 THEN 0 ELSE (g[n - 1] * 10 + tok[n]) % WordSize]
           IsDec(g) == g = [n \in 0..Len(tok) |->
                 IF n = 0 THEN 0 ELSE g[n - 1] * 10 + tok[n]]
<1>1. Len(tok) \in Nat /\ \A n \in 1..Len(tok) : tok[n] \in Nat
  BY DEF Digits
<1>2. PICK K \in Nat : K = Len(tok)
  BY <1>1
<1>3. PICK id \in [0..K -> Nat] :
        id[0] = 0 /\ \A n \in 1..K : id[n] = (id[n - 1] * 10 + tok[n]) % WordSize
  <2> DEFINE F == [x \in Nat \X (1..K) |-> (x[1] * 10 + tok[x[2]]) % WordSize]
  <2>1. \A v \in Nat, n \in 1..K : (v * 10 + tok[n]) % WordSize \in Nat
    <3> SUFFICES ASSUME NEW v \in Nat, NEW n \in 1..K
                 PROVE  (v * 10 + tok[n]) % WordSize \in Nat
      OBVIOUS
    <3>1. v * 10 + tok[n] \in Nat
      BY <1>1, <1>2
    <3> QED
      BY <3>1, DivMod, WordSizeAssumption
  <2>2. F \in [Nat \X (1..K) -> Nat]
    BY <2>1
  <2>3. \A v \in Nat, n \in 1..K :
          F[<<v, n>>] = (v * 10 + tok[n]) % WordSize
    OBVIOUS
  <2> HIDE DEF F
  <2>4. PICK g : ValuesOf(g, Nat, 0, K, F)
    BY <2>2, LoopHasValues
  <2>5. /\ g \in [0..K -> Nat] /\ g[0] = 0
        /\ \A n \in 1..K : g[n] = F[<<g[n - 1], n>>]
    BY <2>4 DEF ValuesOf
  <2>6. \A n \in 1..K : g[n - 1] \in Nat
    BY <2>5
  <2> QED
    BY <2>3, <2>5, <2>6
<1>4. PICK dec \in [0..K -> Nat] :
        dec[0] = 0 /\ \A n \in 1..K : dec[n] = dec[n - 1] * 10 + tok[n]
  <2> DEFINE F == [x \in Nat \X (1..K) |-> x[1] * 10 + tok[x[2]]]
  <2>1. \A v \in Nat, n \in 1..K : v * 10 + tok[n] \in Nat
    BY <1>1, <1>2
  <2>2. F \in [Nat \X (1..K) -> Nat]
    BY <2>1
  <2>3. \A v \in Nat, n \in 1..K : F[<<v, n>>] = v * 10 + tok[n]
    OBVIOUS
  <2> HIDE DEF F
  <2>4. PICK g : ValuesOf(g, Nat, 0, K, F)
    BY <2>2, LoopHasValues
  <2>5. /\ g \in [0..K -> Nat] /\ g[0] = 0
        /\ \A n \in 1..K : g[n] = F[<<g[n - 1], n>>]
    BY <2>4 DEF ValuesOf
  <2>6. \A n \in 1..K : g[n - 1] \in Nat
    BY <2>5
  <2> QED
    BY <2>3, <2>5, <2>6
<1>5. \E g : IsId(g)
  <2>1. IsId(id)
    BY <1>2, <1>3
  <2> QED
    BY <2>1
<1>6. \E g : IsDec(g)
  <2>1. IsDec(dec)
    BY <1>2, <1>4
  <2> QED
    BY <2>1
<1> DEFINE i == CHOOSE g : IsId(g)
           d == CHOOSE g : IsDec(g)
<1>7. IdValue(tok) = i[Len(tok)] /\ DecimalValue(tok) = d[Len(tok)]
  BY Zenon DEF IdValue, DecimalValue
<1>8. IsId(i) /\ IsDec(d)
  BY <1>5, <1>6, Zenon
<1> HIDE DEF i, d
<1>9. /\ i[0] = 0
      /\ \A n \in 1..Len(tok) : i[n] = (i[n - 1] * 10 + tok[n]) % WordSize
  <2>1. ASSUME NEW n \in 0..Len(tok)
        PROVE  i[n] = IF n = 0 THEN 0
                      ELSE (i[n - 1] * 10 + tok[n]) % WordSize
    BY <1>8, Zenon
  <2> QED
    BY <1>1, <2>1
<1>10. /\ d[0] = 0
       /\ \A n \in 1..Len(tok) : d[n] = d[n - 1] * 10 + tok[n]
  BY <1>1, <1>8
<1> HIDE DEF IsId, IsDec
<1> QED
  BY <1>7, <1>9, <1>10

(* What parse_connection_list stores for an entry is its number modulo the *)
(* word.                                                                   *)
LEMMA IdIsRemainder ==
  ASSUME NEW tok \in Digits
  PROVE  /\ IdValue(tok) \in 0..WordSize - 1 /\ DecimalValue(tok) \in Nat
         /\ Wraps(DecimalValue(tok), IdValue(tok))
<1>1. PICK id, dec :
        /\ IdValue(tok) = id[Len(tok)] /\ DecimalValue(tok) = dec[Len(tok)]
        /\ id[0] = 0 /\ dec[0] = 0
        /\ \A n \in 1..Len(tok) :
             /\ id[n] = (id[n - 1] * 10 + tok[n]) % WordSize
             /\ dec[n] = dec[n - 1] * 10 + tok[n]
  BY ReadersAreLoops
<1>2. Len(tok) \in Nat /\ \A n \in 1..Len(tok) : tok[n] \in Nat
  BY DEF Digits
<1> DEFINE Holds(n) == /\ id[n] \in 0..WordSize - 1 /\ dec[n] \in Nat
                       /\ Wraps(dec[n], id[n])
           S == {n \in Nat : n <= Len(tok) => Holds(n)}
<1>3. 0 \in S
  <2>1. WordSize * 0 + 0 = 0 /\ 0 \in 0..WordSize - 1
    BY WordSizeAssumption
  <2>2. Holds(0)
    BY <1>1, <2>1 DEF Wraps
  <2> QED
    BY <2>2
<1>4. ASSUME NEW n \in Nat, n \in S
      PROVE  n + 1 \in S
  <2> SUFFICES ASSUME n + 1 <= Len(tok) PROVE Holds(n + 1)
    OBVIOUS
  <2>1. PICK D \in Nat, r \in Nat, d \in Nat :
          D = dec[n] /\ r = id[n] /\ d = tok[n + 1]
    BY <1>2, <1>4
  <2>2. n + 1 \in 1..Len(tok) /\ (n + 1) - 1 = n
    OBVIOUS
  <2>3. id[n + 1] = (r * 10 + d) % WordSize /\ dec[n + 1] = D * 10 + d
    BY <1>1, <2>1, <2>2
  <2>4. Wraps(D, r)
    BY <1>4, <2>1
  <2>5. Wraps(dec[n + 1], id[n + 1])
    BY <2>3, <2>4, DigitInWord
  <2>6. r * 10 + d \in Nat /\ D * 10 + d \in Nat
    OBVIOUS
  <2>7. (r * 10 + d) % WordSize \in 0..WordSize - 1
    BY <2>6, DivMod
  <2> QED
    BY <2>3, <2>5, <2>6, <2>7
<1> HIDE DEF S
<1>5. Len(tok) \in S
  BY <1>2, <1>3, <1>4, NatSetInduction
<1>6. Holds(Len(tok))
  BY <1>2, <1>5 DEF S
<1> QED
  BY <1>1, <1>6

(* A number that fits the word is stored as it is. *)
LEMMA IdBelowWord ==
  ASSUME NEW tok \in Digits, DecimalValue(tok) < WordSize
  PROVE  IdValue(tok) = DecimalValue(tok)
<1>1. PICK q \in Nat, r \in 0..WordSize - 1 :
        r = IdValue(tok) /\ DecimalValue(tok) = WordSize * q + r
  BY IdIsRemainder DEF Wraps
<1>2. WordSize \in Nat \ {0}
  BY WordSizeAssumption
<1>3. ASSUME q >= 1 PROVE FALSE
  <2>1. WordSize * q >= WordSize
    BY <1>2, <1>3
  <2>2. WordSize * q \in Nat
    BY <1>2
  <2>3. WordSize * q + r < WordSize
    BY <1>1
  <2> QED
    BY <1>2, <2>1, <2>2, <2>3
<1>4. q = 0
  BY <1>3
<1> QED
  BY <1>1, <1>2, <1>4

(* While every entry of the connection list is a number below 2^64, the    *)
(* plugin traces exactly the connections listed: parse_connection_list     *)
(* checks no range, and needs none there.                                  *)
THEOREM IdsFaithfulBelowWord ==
  Spec => []((\A i \in DOMAIN lists.connections :
                DecimalValue(lists.connections[i]) < WordSize)
             => ConnectionIdsFaithful)
<1> DEFINE Fits == \A i \in DOMAIN lists.connections :
                     DecimalValue(lists.connections[i]) < WordSize
<1>1. ListsInv => (Fits => ConnectionIdsFaithful)
  <2> SUFFICES ASSUME ListsInv, Fits, Parsed.ok
               PROVE  Parsed.rules.connections =
                        {DecimalValue(lists.connections[i]) :
                           i \in DOMAIN lists.connections}
    BY DEF ConnectionIdsFaithful
  <2>1. PICK c : c = lists.connections
    OBVIOUS
  <2>2. /\ Parsed.rules.connections = {IdValue(c[i]) : i \in DOMAIN c}
        /\ \A i \in DOMAIN c : \A k \in DOMAIN c[i] : c[i][k] # NotADigit
    <3>1. ParseAll(lists).ok /\ Parsed.rules = ParseAll(lists).rules
      BY DEF Parsed
    <3>2. /\ ParseAll(lists).rules.connections =
               {IdValue(lists.connections[i]) : i \in DOMAIN lists.connections}
          /\ \A i \in DOMAIN lists.connections :
               \A k \in DOMAIN lists.connections[i] :
                 lists.connections[i][k] # NotADigit
      BY <3>1, ParsedRules
    <3> QED
      BY <2>1, <3>1, <3>2
  <2>3. c \in Seq(ConnectionText)
    BY <2>1 DEF ListsInv
  <2>4. \A i \in DOMAIN c : c[i] \in ConnectionText
    BY <2>3
  <2>5. ASSUME NEW i \in DOMAIN c PROVE c[i] \in Digits
    <3>1. PICK tok \in Seq(0..10) : tok = c[i]
      BY <2>4 DEF ConnectionText, NotADigit
    <3>2. Len(tok) \in Nat /\ DOMAIN tok = 1..Len(tok)
      OBVIOUS
    <3>3. \A k \in 1..Len(tok) : tok[k] \in 0..10 /\ tok[k] # 10
      BY <2>2, <3>1, <3>2 DEF NotADigit
    <3>4. \A k \in 1..Len(tok) : tok[k] \in 0..9
      BY <3>3
    <3>5. tok \in Seq(0..9)
      BY <3>2, <3>4, IsASeq
    <3> QED
      BY <3>1, <3>5 DEF Digits
  <2>6. \A i \in DOMAIN c : IdValue(c[i]) = DecimalValue(c[i])
    BY <2>1, <2>5, IdBelowWord
  <2>7. {IdValue(c[i]) : i \in DOMAIN c} = {DecimalValue(c[i]) : i \in DOMAIN c}
    BY <2>6
  <2> QED
    BY <2>1, <2>2, <2>7
<1> QED
  BY <1>1, ListsInvariant, PTL
=============================================================================
