--------------------------- MODULE MCFilterEngine ---------------------------
(***************************************************************************)
(* Entries for FilterEngineCheck: two schemas, qualified and not, the      *)
(* wildcard, and the ill-formed shapes the parsers must refuse.            *)
(***************************************************************************)
EXTENDS FilterEngineCheck

Entry(parts, quals) == [parts |-> parts, quals |-> quals]

MCSchemaEntries ==
  {Entry(<<"a">>, <<>>), Entry(<<"a">>, <<"INSERT">>),
   Entry(<<"a">>, <<"SELECT", "ddl">>), Entry(<<"b">>, <<"dml">>),
   Entry(<<"a", "t">>, <<>>), Entry(<<"b">>, <<"unknown">>)}

MCTableEntries ==
  {Entry(<<"a", "t">>, <<"SELECT">>), Entry(<<"a", "t">>, <<"dml">>),
   Entry(<<"a", "*">>, <<"INSERT">>), Entry(<<"a", "*">>, <<"tcl", "CALL">>),
   Entry(<<"b", "t">>, <<>>), Entry(<<"a">>, <<>>)}

MCDatabases == {"a", "b"}

MCTableNames == {"t", "u"}

(* 7, 257 (which is 1 in a word of 8 bits) and a token that is no number. *)
MCConnEntries == {<<7>>, <<2, 5, 7>>, <<1, NotADigit>>}
=============================================================================
