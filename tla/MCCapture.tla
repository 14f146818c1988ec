------------------------------ MODULE MCCapture ------------------------------
(***************************************************************************)
(* Filter lists for Capture: none, a schema, a table and the statistics    *)
(* table, these with a connection, and the statistics table both by its    *)
(* schema and by itself, for different commands.                           *)
(***************************************************************************)
EXTENDS Capture

NoLists == [schemas |-> <<>>, tables |-> <<>>, connections |-> <<>>]

Entry(parts, quals) == [parts |-> parts, quals |-> quals]

TableList ==
  [NoLists EXCEPT !.tables = <<Entry(<<"a", "t">>, <<"INSERT">>),
                               Entry(StatsTable, <<>>)>>]

SchemaList == [NoLists EXCEPT !.schemas = <<Entry(<<"a">>, <<"SELECT">>)>>]

(* The connection adds what the table entries do not allow. *)
ConnectionList == [TableList EXCEPT !.connections = <<<<1>>>>]

MysqlList ==
  [NoLists EXCEPT !.schemas = <<Entry(<<"mysql">>, <<"SELECT">>)>>,
                  !.tables  = <<Entry(StatsTable, <<"INSERT">>)>>]

MCLists == {NoLists, TableList, SchemaList, ConnectionList, MysqlList}

(* For what the lists have no say in. *)
MCNoLists == {NoLists}

MCDatabase  == {"a"}
MCScanned   == {"x"}
MCTableName == {"t"}
=============================================================================
