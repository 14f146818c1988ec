----------------------------- MODULE SqlTextCheck -----------------------------
(***************************************************************************)
(* The scanners of SqlText against what SQL, JSON and the documentation    *)
(* say a text means.  A text is put together piece by piece, each piece    *)
(* with its meaning, and closed by a last piece; the scanners must find    *)
(* what was put together.                                                  *)
(***************************************************************************)
EXTENDS SqlText

CONSTANTS Tasks,      \* the kinds of text: see Pieces
          MaxPieces   \* bound: pieces before the last one

ASSUME SqlTextAssumption == MaxPieces \in Nat

VARIABLES task, text, meaning, pieces, closed

vars == <<task, text, meaning, pieces, closed>>

Piece(t, m) == [text |-> t, meaning |-> m]

Silent(texts) == {Piece(t, <<>>) : t \in texts}

-----------------------------------------------------------------------------
(* A statement with a command.  In front: what SQL takes for blank, begin  *)
(* marks of executable comments, and an opening parenthesis.               *)

Comments == {<<"/", "*", "SELECT", "*", "/">>, <<"/", "*", "*", "/">>,
             <<"/", "*", "/", "x", "*", "/">>, <<"/", "*", "#", "*", "*", "/">>,
             <<"-", "-", " ", "DROP", "\n">>, <<"-", "-", "\n">>,
             <<"#", "/", "*", "\n">>}

Leads == Comments \union {<<" ">>, <<"(">>, <<"/", "*", "!", "1", "0">>,
                          <<"/", "*", "M", "!", " ">>}

Statements ==
  {Piece(<<"SELECT", "*">>, <<"SELECT">>),
   Piece(<<"INSERT", "/", "*", "x">>, <<"INSERT">>),
   Piece(<<"DROP", "_", "x", " ", "SELECT">>, <<"DROP", "_", "x">>),
   Piece(<<"START", "\n", " ", "TRANSACTION", ";">>, <<"BEGIN">>),
   Piece(<<"START", " ", "SLAVE">>, <<"START">>),
   Piece(<<"COMMIT">>, <<"COMMIT">>)}
  \union {Piece(t, <<"OTHER">>) :
            t \in {<<>>, <<"-", "-", "1">>, <<"-", "-">>, <<"#", "SELECT">>,
                   <<"/", "*", "SELECT", "*">>, <<"\"", "SELECT">>}}

(* A USE statement, behind blanks or a block comment: the schema it names. *)
(* Its scan counts characters, so every symbol of it is one.               *)
BlockComments == {<<"/", "*", " ", "x", " ", "*", "/">>, <<"/", "*", "*", "/">>}

Uses ==
  {Piece(UseKeyword \o <<" ", "d">>, <<"d">>),
   Piece(UseKeyword \o <<"\n", " ", "d", "$", "1", ";">>, <<"d", "$", "1">>),
   Piece(UseKeyword \o <<"tick", "d", "-", " ", "tick", ";">>,
         <<"d", "-", " ">>),
   Piece(UseKeyword \o <<" ", "d", "/", "*", "x", "*", "/">>, <<"d">>),
   Piece(UseKeyword, <<>>), Piece(UseKeyword \o <<" ", ";">>, <<>>),
   Piece(UseKeyword \o <<"_", " ", "d">>, <<>>), Piece(<<"U", "S">>, <<>>),
   Piece(<<"SELECT", " ", "d">>, <<>>)}

-----------------------------------------------------------------------------
(* A statement with credentials.  The literals of the two quotes, with     *)
(* escapes, the other quote and a trigger inside, a hexadecimal one, and   *)
(* the keywords mask_secrets knows right in front of them.                 *)

Literals ==
  {Piece(<<"'", "s", "'">>, <<"'", Mask, "'">>),
   Piece(<<"'", "'">>, <<"'", Mask, "'">>),
   Piece(<<"'", "s", "\\", "'", "\"", " ", "s", "'">>, <<"'", Mask, "'">>),
   Piece(<<"'", "s", "\\", "\\", "'">>, <<"'", Mask, "'">>),
   Piece(<<"\"", "PASSWORD", " ", "'", "s", "'", "\"">>, <<"\"", Mask, "\"">>),
   Piece(<<"0", "x", "1", "f">>, <<"0", "x", Mask>>)}

Unterminated ==
  {Piece(<<"'", "s", " ", "\"", "s">>, <<"'", Mask>>),
   Piece(<<"\"", "s", "\\">>, <<"\"", Mask>>)}

Announcements ==
  {<<" ", "IDENTIFIED", " ", "BY", " ">>,
   <<" ", "IDENTIFIED", " ", "BY", " ", "PASSWORD", "\n">>,
   <<" ", "IDENTIFIED", " ", "WITH", " ", "BY_", "x", " ", "AS", " ">>,
   <<" ", "IDENTIFIED", " ", "WITH", " ", "x", " ", "USING", " ">>,
   <<" ", "IDENTIFIED", " ", "VIA", " ", "x", " ", "USING", " ">>,
   <<" ", "IDENTIFIED", " ">>,
   <<" ", "PASSWORD", "(">>, <<" ", "PASSWORD", " ", "=", " ">>,
   <<" ", "PASSWORD", " ", "FOR", " ", "u", " ", "=", " ", "PASSWORD", "(">>,
   <<";", "OLD_", "PASSWORD", " ", "(", " ">>}

Credentials(literals) ==
  {Piece(a \o l.text, a \o l.meaning) : a \in Announcements, l \in literals}

(* Text without credentials keeps its meaning: words that only contain a   *)
(* trigger, a trigger without a literal, a literal without a trigger or    *)
(* with one that is not its last word.                                     *)
Harmless ==
  {Piece(t, t) :
     t \in {<<" ", "x_", "PASSWORD", " ", "'", "s", "'">>,
            <<" ", "PASSWORD", "1", "(", "'", "s", "'", ")">>,
            <<" ", "IDENTIFIED", "_", "BY", "=", "0", "x", "1">>,
            <<" ", "SELECT", "'", "s", "'">>, <<" ", "PASSWORD", ",">>,
            <<"=", "'", "s", " ", "PASSWORD", " ", "s", "'">>}}

(* What the documentation says of masking beyond that, one statement after *)
(* the other as in the body of a procedure: SET PASSWORD ... = '...', the  *)
(* doubled quotes of a literal, X'...', and a literal that is no           *)
(* credential, ending in a keyword.                                        *)
Documented ==
  <<Piece(<<"SET", " ", "PASSWORD", " ", "FOR", " ", "u", "=", "'", "s", "'",
            ";">>,
          <<"SET", " ", "PASSWORD", " ", "FOR", " ", "u", "=", "'", Mask, "'",
            ";">>),
    Piece(<<"IDENTIFIED", " ", "BY", " ", "'", "s", "'", "'", "s", "'", ";">>,
          <<"IDENTIFIED", " ", "BY", " ", "'", Mask, "'", ";">>),
    Piece(<<"IDENTIFIED", " ", "WITH", " ", "x", " ", "AS", " ",
            "X", "'", "1", "f", "'", ";">>,
          <<"IDENTIFIED", " ", "WITH", " ", "x", " ", "AS", " ",
            "X", "'", Mask, "'", ";">>),
    Piece(<<"SELECT", "'", "s", " ", "PASSWORD", "'", ";", "END">>,
          <<"SELECT", "'", "s", " ", "PASSWORD", "'", ";", "END">>)>>

Body ==
  Piece(FlattenSeq([i \in DOMAIN Documented |-> Documented[i].text]),
        FlattenSeq([i \in DOMAIN Documented |-> Documented[i].meaning]))

-----------------------------------------------------------------------------
(* A filter list: blanks, blank entries, case, backticks, qualifiers.      *)

Entry(parts, quals) == <<[parts |-> parts, quals |-> quals]>>

Entries ==
  {Piece(<<>>, <<>>), Piece(<<" ", "\n">>, <<>>),
   Piece(<<" ", "A", "b", " ">>, Entry(<<<<"a", "b">>>>, <<>>)),
   Piece(<<"tick", "a", " ", "tick">>, Entry(<<<<"a", " ">>>>, <<>>)),
   Piece(<<"tick", "tick">>, Entry(<<<<>>>>, <<>>)),
   Piece(<<"tick">>, Entry(<<<<"tick">>>>, <<>>)),
   Piece(<<"A", ".", "*", " ", ":", " ", "dml", " ", "|", "SELECT">>,
         Entry(<<<<"a">>, <<"*">>>>, <<<<"dml">>, <<"SELECT">>>>)),
   Piece(<<"tick", "a", "tick", ".", "tick", "b", "tick", ":", "ddl", " ">>,
         Entry(<<<<"a">>, <<"b">>>>, <<<<"ddl">>>>)),
   Piece(<<"a", ":">>, Entry(<<<<"a">>>>, <<<<>>>>)),
   Piece(<<".", "b", "|">>, Entry(<<<<>>, <<"b", "|">>>>, <<>>))}

-----------------------------------------------------------------------------
(* Characters with a meaning in JSON, in SQL or in both, and some without. *)

Characters ==
  {0, 8, 9, 10, 12, 13, 26, 31, 34, 37, 39, 47, 48, 90, 92, 98, 110, 117, 127,
   195}

Pieces(t) ==
  CASE t = "command"       -> Silent(Leads)
    [] t = "use"           -> Silent({<<" ">>, <<"\n">>, <<"(">>})
    [] t = "commented use" -> Silent({<<" ">>} \union BlockComments)
    [] t \in {"mask", "documented mask"} ->
         Credentials(Literals) \union Harmless
    [] t = "list"          -> {Piece(Append(e.text, ","), e.meaning) :
                                 e \in Entries}
    [] t = "escape"        -> {Piece(<<c>>, <<c>>) : c \in Characters}

LastPieces(t) ==
  CASE t = "command" -> Statements
    [] t \in {"use", "commented use"} -> Uses
    [] t = "mask"    -> Credentials(Unterminated) \union Silent({<<>>})
    [] t = "documented mask" -> {Body}
    [] t = "list"    -> Entries
    [] t = "escape"  -> Silent({<<>>})

-----------------------------------------------------------------------------
Init ==
  /\ task \in Tasks
  /\ text = <<>> /\ meaning = <<>> /\ pieces = 0 /\ closed = FALSE

Put(p) == text' = text \o p.text /\ meaning' = meaning \o p.meaning

AddPiece ==
  /\ ~closed /\ pieces < MaxPieces
  /\ \E p \in Pieces(task) : Put(p)
  /\ pieces' = pieces + 1
  /\ UNCHANGED <<task, closed>>

AddLast ==
  /\ ~closed /\ closed' = TRUE
  /\ \E p \in LastPieces(task) : Put(p)
  /\ UNCHANGED <<task, pieces>>

Next == AddPiece \/ AddLast

Spec == Init /\ [][Next]_vars

Complete(t) == closed /\ task = t

-----------------------------------------------------------------------------
(* Reference readers.                                                      *)

Bad == <<-1>>

HexValue(d) == IF d \in 48..57 THEN d - 48 ELSE d - 87

HexCode(a, b, c, d) ==
  HexValue(a) * 4096 + HexValue(b) * 256 + HexValue(c) * 16 + HexValue(d)

(* A reader takes a string apart into units, each with its value and where *)
(* the next one starts, 0 for nowhere: what it finds is the values from    *)
(* position 1 on.                                                          *)
Unit(value, next) == [value |-> value, next |-> next]

Join(units) ==
  LET read[i \in DOMAIN units] ==
        units[i].value \o IF units[i].next = 0 THEN <<>>
                          ELSE read[units[i].next]
  IN  read[1]

JsonShort == {34, 92, 98, 102, 110, 114, 116}

JsonShortValue(c) ==
  CASE c = 98 -> 8 [] c = 102 -> 12 [] c = 110 -> 10 [] c = 114 -> 13
    [] c = 116 -> 9 [] OTHER -> c

(* The unit at i of a JSON string behind its opening quote; Bad if s is no *)
(* string or goes on behind it.                                            *)
JsonUnit(s, i) ==
  IF i > Len(s) \/ s[i] < 32 THEN Unit(Bad, 0)
  ELSE IF s[i] = 34 THEN Unit(IF i = Len(s) THEN <<>> ELSE Bad, 0)
  ELSE IF s[i] # 92 THEN Unit(<<s[i]>>, i + 1)
  ELSE IF i = Len(s) THEN Unit(Bad, 0)
  ELSE IF s[i + 1] \in JsonShort
         THEN Unit(<<JsonShortValue(s[i + 1])>>, i + 2)
  ELSE IF s[i + 1] = 117 /\ i + 5 <= Len(s)
         THEN Unit(<<HexCode(s[i + 2], s[i + 3], s[i + 4], s[i + 5])>>, i + 6)
  ELSE Unit(Bad, 0)

(* The characters behind a backslash in SQL. *)
SqlValue(c) ==
  CASE c = 48 -> <<0>> [] c = 98 -> <<8>> [] c = 110 -> <<10>>
    [] c = 114 -> <<13>> [] c = 116 -> <<9>> [] c = 90 -> <<26>>
    [] c \in {37, 95} -> <<92, c>>
    [] OTHER -> <<c>>

(* The same for an SQL literal in single quotes, under sql_mode ''. *)
SqlUnit(s, i) ==
  IF i > Len(s) THEN Unit(Bad, 0)
  ELSE IF s[i] = 39 THEN Unit(IF i = Len(s) THEN <<>> ELSE Bad, 0)
  ELSE IF s[i] # 92 THEN Unit(<<s[i]>>, i + 1)
  ELSE IF i = Len(s) THEN Unit(Bad, 0)
  ELSE Unit(SqlValue(s[i + 1]), i + 2)

JsonRead(s) == Join([i \in 1..Len(s) + 1 |-> JsonUnit(s, i)])

SqlRead(s) == Join([i \in 1..Len(s) + 1 |-> SqlUnit(s, i)])

-----------------------------------------------------------------------------
(* Properties.                                                             *)

(* extract_command finds the command behind any mixture of blanks,         *)
(* parentheses, comments and executable comments, finds none where there   *)
(* is none, never one inside a comment, and tells START TRANSACTION from   *)
(* the other START commands.                                               *)
ExtractFindsCommand == Complete("command") => extract_command(text) = meaning

(* The schema track_current_db takes from a USE statement is the one it    *)
(* names, quoted or not; other statements name none.                       *)
UseNamesSchema == Complete("use") => UseSchema(text) = meaning

(* Masking replaces every literal that stands right behind one of the      *)
(* keywords, its quotes apart, whatever is escaped by a backslash or       *)
(* quoted by the other quote in it, changes nothing else, and reports      *)
(* whether it did.  DocumentedFormsAreMasked has what it does not reach.   *)
MaskHidesExactly ==
  Complete("mask") =>
    LET m == mask_secrets(text)
    IN  m.out = meaning /\ m.masked = (meaning # text)

(* "Covers the authentication clauses of DCL: ... and SET PASSWORD ... =   *)
(* '...'", "Quoted strings ('...' and "...") after those keywords have     *)
(* their body replaced", as filter_engine.h has it, "X'1234'" being one by *)
(* mask_following_quote; a literal that is no credential stays, as in      *)
(* test_mask_secrets.                                                      *)
DocumentedFormsAreMasked ==
  Complete("documented mask") => mask_secrets(text).out = meaning

(* The text of a list is read as its entries, whatever blanks, blank       *)
(* entries and backticks surround them.                                    *)
ListIsItsEntries == Complete("list") => ReadList(text) = meaning

(* A JSON reader gets back from a line of the log file what was logged,    *)
(* and the line is one line; the server gets it back from a literal of the *)
(* INSERT, when the session's sql_mode is the pinned one.                  *)
EscapesReadBack ==
  Complete("escape") =>
    LET line == Append(json_escape(text), 34)
    IN  /\ JsonRead(line) = text /\ 10 \notin ToSet(line)
        /\ SqlRead(Append(sql_escape(text), 39)) = text

(* "a USE statement preceded by a block comment is not recognized as USE   *)
(* by this second pass, and current_db is left unchanged", as the comment  *)
(* in track_current_db has it.                                             *)
CommentedUseIsIgnored ==
  Complete("commented use") => UseSchema(text) \in {<<>>, meaning}
=============================================================================
