---------------------------- MODULE FilterEngine ----------------------------
(***************************************************************************)
(* The filter lists of selective_trace and what they match                 *)
(* (core/filter_engine.cc).  A command mask is a set of command bits.      *)
(*                                                                         *)
(* Text is abstracted to its parts.  An entry of a schema or table list is *)
(* a record [parts |-> the identifiers between its dots, quals |-> the     *)
(* tokens after its colon, or <<>> without a colon], trimmed, in lower     *)
(* case and without backticks; an identifier may be empty.  An entry of    *)
(* the connection list is the sequence of its characters, digits 0..9 or   *)
(* NotADigit.                                                              *)
(***************************************************************************)
EXTENDS Naturals, SequencesExt

CONSTANT WordSize    \* 2^64: connection ids are unsigned long long

ASSUME WordSizeAssumption == WordSize \in Nat \ {0}

NotADigit == 10

EntryText == [parts : Seq(STRING), quals : Seq(STRING)]

(* A token that is blank is skipped (split_csv): it is no entry. *)
ConnectionText == Seq(0..NotADigit) \ {<<>>}

DML == {"INSERT", "UPDATE", "DELETE", "REPLACE", "LOAD"}
DDL == {"CREATE", "ALTER", "DROP", "TRUNCATE", "RENAME"}
TCL == {"COMMIT", "ROLLBACK", "BEGIN", "SAVEPOINT"}

CommandBits == DML \union DDL \union TCL \union {"SELECT", "CALL", "OTHER"}

(* command_bit *)
command_bit(cmd) ==
  CASE cmd = "WITH"        -> "SELECT"
    [] cmd \in CommandBits -> cmd
    [] OTHER               -> "OTHER"

(* The masks of the qualifier tokens: a group, or one command. *)
cmd_tokens ==
  [tok \in CommandBits \union {"dml", "ddl", "tcl", "all"} |->
     CASE tok = "dml" -> DML
       [] tok = "ddl" -> DDL
       [] tok = "tcl" -> TCL
       [] tok = "all" -> CommandBits
       [] OTHER       -> {tok}]

(* split_cmd_qualifier: fails on a token it does not know; no qualifier    *)
(* means every command.                                                    *)
GoodQuals(quals) == \A i \in DOMAIN quals : quals[i] \in DOMAIN cmd_tokens

QualMask(quals) ==
  IF quals = <<>> THEN CommandBits
  ELSE UNION {cmd_tokens[quals[i]] : i \in DOMAIN quals}

(* An entry the schema list accepts: one identifier, and no dot. *)
GoodSchemaEntry(e) ==
  GoodQuals(e.quals) /\ Len(e.parts) = 1 /\ e.parts[1] # ""

(* An entry the table list accepts: schema.table or schema.* *)
GoodTableEntry(e) ==
  GoodQuals(e.quals) /\ Len(e.parts) = 2 /\ e.parts[1] # "" /\ e.parts[2] # ""

(* add_entry: a duplicate merges its mask into the first one. *)
add_entry_Replaces(list, name, cmds) ==
  IF \E i \in DOMAIN list : list[i].name = name
    THEN [i \in DOMAIN list |->
            IF list[i].name = name THEN [list[i] EXCEPT !.cmds = cmds]
                                   ELSE list[i]]
    ELSE Append(list, [name |-> name, cmds |-> cmds])

add_entry(list, name, cmds) ==
  IF \E i \in DOMAIN list : list[i].name = name
    THEN [i \in DOMAIN list |->
            IF list[i].name = name
              THEN [list[i] EXCEPT !.cmds = @ \union cmds]
              ELSE list[i]]
    ELSE Append(list, [name |-> name, cmds |-> cmds])

IsWildcard(e) == e.parts[2] = "*"

EmptyRules == [schemas |-> <<>>, wildcard_schemas |-> <<>>, tables |-> <<>>,
               connections |-> {}]

(* A loop of parse_filter_lists: it adds the entries of take, under their  *)
(* names, to one of the three vectors, in the order of the list.           *)
add_entries(csv, names, take) ==
  LET list[n \in 0..Len(csv)] ==
        IF n = 0 THEN <<>>
        ELSE IF n \in take
          THEN add_entry(list[n - 1], names[n], QualMask(csv[n].quals))
          ELSE list[n - 1]
  IN  list[Len(csv)]

SchemaName(csv) == [i \in DOMAIN csv |-> csv[i].parts[1]]

FullName(csv) == [i \in DOMAIN csv |-> csv[i].parts]

Wildcards(csv) == {i \in DOMAIN csv : IsWildcard(csv[i])}

(* parse_filter_lists: *out is written only when every entry of both lists *)
(* is good.                                                                *)
parse_filter_lists(schemas_csv, tables_csv, out) ==
  IF /\ \A i \in DOMAIN schemas_csv : GoodSchemaEntry(schemas_csv[i])
     /\ \A i \in DOMAIN tables_csv : GoodTableEntry(tables_csv[i])
    THEN [ok |-> TRUE,
          rules |-> [out EXCEPT
            !.schemas = add_entries(schemas_csv, SchemaName(schemas_csv),
                                    DOMAIN schemas_csv),
            !.wildcard_schemas = add_entries(tables_csv, SchemaName(tables_csv),
                                             Wildcards(tables_csv)),
            !.tables = add_entries(tables_csv, FullName(tables_csv),
                                   DOMAIN tables_csv \ Wildcards(tables_csv))]]
    ELSE [ok |-> FALSE, rules |-> out]

(* The digits of one connection id, accumulated in a machine word. *)
IdValue(tok) ==
  LET v[n \in 0..Len(tok)] ==
        IF n = 0 THEN 0 ELSE (v[n - 1] * 10 + tok[n]) % WordSize
  IN  v[Len(tok)]

(* parse_connection_list: the sorted vector without duplicates is a set. *)
parse_connection_list(conns_csv, out) ==
  IF \A i \in DOMAIN conns_csv : \A k \in DOMAIN conns_csv[i] :
       conns_csv[i][k] # NotADigit
    THEN [ok |-> TRUE,
          rules |-> [out EXCEPT !.connections =
                       {IdValue(conns_csv[i]) : i \in DOMAIN conns_csv}]]
    ELSE [ok |-> FALSE, rules |-> out]

MaskOf(list, name) ==
  UNION {list[i].cmds : i \in {k \in DOMAIN list : list[k].name = name}}

match_connection(rules, conn_id) == conn_id \in rules.connections

match_schema_NoWildcards(rules, db) ==
  IF db = "" THEN {} ELSE MaskOf(rules.schemas, db)

match_schema(rules, db) ==
  IF db = "" THEN {}
  ELSE MaskOf(rules.schemas, db) \union MaskOf(rules.wildcard_schemas, db)

match_table(rules, db, table) ==
  IF db = "" \/ table = "" THEN {}
  ELSE MaskOf(rules.wildcard_schemas, db) \union
       MaskOf(rules.tables, <<db, table>>)

(* rebuild_rules_locked on the three lists: both parsers into one fresh    *)
(* FilterRules.                                                            *)
ParseAll(lists) ==
  LET filters == parse_filter_lists(lists.schemas, lists.tables, EmptyRules)
      conns   == parse_connection_list(lists.connections, filters.rules)
  IN  [ok |-> filters.ok /\ conns.ok, rules |-> conns.rules]
=============================================================================
