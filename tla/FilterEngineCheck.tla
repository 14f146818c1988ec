-------------------------- MODULE FilterEngineCheck --------------------------
(***************************************************************************)
(* The filter engine against its reference: the lists grow entry by entry, *)
(* as an administrator edits them, and after every edit the parsed rules   *)
(* must match exactly what the entries say.                                *)
(***************************************************************************)
EXTENDS FilterEngine

CONSTANTS SchemaEntries,   \* entries of selective_trace_schemas
          TableEntries,    \* entries of selective_trace_tables
          ConnEntries,     \* entries of selective_trace_connections
          Databases, TableNames,
          MaxEntries       \* bound: entries in one list

ASSUME FilterEngineCheckAssumption ==
  /\ SchemaEntries \subseteq EntryText /\ TableEntries \subseteq EntryText
  /\ ConnEntries \subseteq ConnectionText
  /\ "" \notin TableNames

VARIABLE lists

EmptyLists == [schemas |-> <<>>, tables |-> <<>>, connections |-> <<>>]

Init == lists = EmptyLists

AddTo(list, entries) ==
  /\ Len(lists[list]) < MaxEntries
  /\ \E e \in entries : lists' = [lists EXCEPT ![list] = Append(@, e)]

AddSchema     == AddTo("schemas", SchemaEntries)
AddTable      == AddTo("tables", TableEntries)
AddConnection == AddTo("connections", ConnEntries)

Clear == lists # EmptyLists /\ lists' = EmptyLists

Next == AddSchema \/ AddTable \/ AddConnection \/ Clear

Spec == Init /\ [][Next]_lists

Parsed == ParseAll(lists)

(* A command is traced on a table exactly when some entry of the table     *)
(* list names the table, or its whole schema, and allows the command:      *)
(* duplicates, their order and overlapping entries neither add nor remove  *)
(* anything (add_entry's merge and match_table's union).                   *)
MatchTableIsUnion ==
  Parsed.ok => \A db \in Databases, t \in TableNames :
    match_table(Parsed.rules, db, t) =
      {c \in CommandBits : \E i \in DOMAIN lists.tables :
         /\ lists.tables[i].parts[1] = db
         /\ lists.tables[i].parts[2] \in {t, "*"}
         /\ c \in QualMask(lists.tables[i].quals)}

(* A command is traced on a session schema exactly when an entry of the    *)
(* schema list, or a schema.* entry of the table list, allows it: the      *)
(* wildcard is worth as much as the schema listed, as filter_engine.h has  *)
(* it.                                                                     *)
MatchSchemaIsUnion ==
  Parsed.ok => \A db \in Databases :
    match_schema(Parsed.rules, db) =
      {c \in CommandBits :
         \/ \E i \in DOMAIN lists.schemas :
              /\ lists.schemas[i].parts = <<db>>
              /\ c \in QualMask(lists.schemas[i].quals)
         \/ \E i \in DOMAIN lists.tables :
              /\ lists.tables[i].parts = <<db, "*">>
              /\ c \in QualMask(lists.tables[i].quals)}

(* The value a decimal string denotes, in a word as wide as it needs. *)
DecimalValue(tok) ==
  LET v[n \in 0..Len(tok)] == IF n = 0 THEN 0 ELSE v[n - 1] * 10 + tok[n]
  IN  v[Len(tok)]

(* An entry parse_connection_list accepts makes the plugin trace the       *)
(* connection of that id, and no other.  It checks the digits of an entry  *)
(* and not its range, which test_filter_logic.cc gives as its contract, so *)
(* this holds only while the entries fit the word; beyond it they wrap.    *)
ConnectionIdsFaithful ==
  Parsed.ok => Parsed.rules.connections =
                 {DecimalValue(lists.connections[i]) :
                    i \in DOMAIN lists.connections}
=============================================================================
