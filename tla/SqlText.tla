------------------------------- MODULE SqlText -------------------------------
(***************************************************************************)
(* The scanners of the filter engine (core/filter_engine.cc): how a        *)
(* statement's command is found, how credential literals are masked, how   *)
(* text is escaped for the two outputs, how the text of a filter list is   *)
(* cut into entries; and the scan for the schema of a USE statement        *)
(* (track_current_db in selective_trace_mysql.cc).                         *)
(*                                                                         *)
(* A text is a sequence of symbols.  A symbol is a character, or a run of  *)
(* identifier characters that no scanner looks into, in either case: a     *)
(* keyword, for example.  " " is any blank but the newline, "tick" is the  *)
(* backtick.  The escapes look at single characters, given by their codes. *)
(***************************************************************************)
EXTENDS Integers, SequencesExt

Space == {" ", "\n"}

Punctuation == {"(", ")", "/", "*", "!", "-", "#", "'", "\"", "\\", "=", ",",
                ".", ":", "|", "tick", ";", "$"}

Digit == {"0", "1"}

is_space(c) == c \in Space

is_ident_char(c) == c \notin Space \union Punctuation

(* while (p < end && Test(q[p])) p++ *)
SkipWhile(q, p, Test(_)) ==
  CHOOSE e \in p..Len(q) + 1 :
    /\ e = Len(q) + 1 \/ ~Test(q[e])
    /\ \A i \in p..e - 1 : Test(q[i])

(* q has s at p. *)
At(q, p, s) ==
  p + Len(s) - 1 <= Len(q) /\ SubSeq(q, p, p + Len(s) - 1) = s

-----------------------------------------------------------------------------
(* extract_command                                                         *)

(* Where the scan goes on behind the block comment at p: behind the first  *)
(* end mark that does not overlap the begin mark, or at the end.           *)
AfterComment_Overlaps(q, p) ==
  LET ends == {e \in p + 1..Len(q) : At(q, e, <<"*", "/">>)}
  IN  IF ends = {} THEN Len(q) + 1
      ELSE (CHOOSE e \in ends : \A f \in ends : e <= f) + 2

AfterComment(q, p) ==
  LET ends == {e \in p + 2..Len(q) : At(q, e, <<"*", "/">>)}
  IN  IF ends = {} THEN Len(q) + 1
      ELSE (CHOOSE e \in ends : \A f \in ends : e <= f) + 2

(* One turn of the loop at p: past a blank, a parenthesis or a comment, or *)
(* p itself where the statement begins.  The marker and version of an      *)
(* executable comment are skipped, its content is the statement.           *)
LeadNext(q, p) ==
  CASE is_space(q[p]) \/ q[p] = "(" -> p + 1
    [] At(q, p, <<"/", "*", "!">>) ->
         SkipWhile(q, p + 3, LAMBDA c : c \in Digit)
    [] At(q, p, <<"/", "*", "M", "!">>) ->
         SkipWhile(q, p + 4, LAMBDA c : c \in Digit)
    [] /\ At(q, p, <<"/", "*">>)
       /\ ~At(q, p, <<"/", "*", "!">>)
       /\ ~At(q, p, <<"/", "*", "M", "!">>) -> AfterComment(q, p)
    [] \/ q[p] = "#"
       \/ /\ At(q, p, <<"-", "-">>)
          /\ p + 1 = Len(q) \/ is_space(q[p + 2]) ->
         SkipWhile(q, p, LAMBDA c : c # "\n")
    [] OTHER -> p

SkipLead(q) ==
  LET from[p \in 1..Len(q) + 1] ==
        IF p > Len(q) \/ LeadNext(q, p) = p THEN p ELSE from[LeadNext(q, p)]
  IN  from[1]

(* The first word, or OTHER.  START is BEGIN when TRANSACTION follows      *)
(* behind blanks: the word buffer holds its 11 letters and no more.        *)
extract_command(q) ==
  LET p == SkipLead(q)
      e == SkipWhile(q, p, is_ident_char)
      w == SubSeq(q, p, e - 1)
      next == SkipWhile(q, e, is_space)
  IN  CASE w = <<>>                                          -> <<"OTHER">>
        [] w = <<"START">> /\ At(q, next, <<"TRANSACTION">>) -> <<"BEGIN">>
        [] OTHER                                             -> w

(* track_current_db on a statement: the schema it finds, <<>> for none.    *)
(* The second scan skips blanks and parentheses but no comments, and takes *)
(* the next three characters for the keyword.                              *)
UseKeyword == <<"U", "S", "E">>

UseSchema_NoTicks(q) ==
  LET k == SkipWhile(q, 1, LAMBDA c : is_space(c) \/ c = "(")
      p == SkipWhile(q, k + 3, is_space)
  IN  IF extract_command(q) # UseKeyword \/ Len(q) - k < 2 \/ p > Len(q)
        THEN <<>>
        ELSE SubSeq(q, p, SkipWhile(q, p, LAMBDA c : is_ident_char(c)
                                                     \/ c = "$") - 1)

UseSchema(q) ==
  LET k == SkipWhile(q, 1, LAMBDA c : is_space(c) \/ c = "(")
      p == SkipWhile(q, k + 3, is_space)
  IN  CASE extract_command(q) # UseKeyword -> <<>>
        [] Len(q) - k < 2 \/ p > Len(q)    -> <<>>
        [] OTHER ->
             IF q[p] = "tick"
             THEN SubSeq(q, p + 1,
                         SkipWhile(q, p + 1, LAMBDA c : c # "tick") - 1)
             ELSE SubSeq(q, p, SkipWhile(q, p, LAMBDA c : is_ident_char(c)
                                                          \/ c = "$") - 1)
-----------------------------------------------------------------------------
(* mask_secrets                                                            *)

Mask == "***"

(* A keyword, between what are no identifier characters. *)
kw_at_NoBoundary(q, i, kw) == At(q, i, kw)

kw_at(q, i, kw) ==
  /\ At(q, i, kw)
  /\ i > 1 => ~is_ident_char(q[i - 1])
  /\ i + Len(kw) <= Len(q) => ~is_ident_char(q[i + Len(kw)])

IsQuote(c) == c \in {"'", "\""}

HexAt(q, i) == At(q, i, <<"0", "x">>)

(* The closing quote of a literal whose text starts at i, or the end. *)
ClosingQuote(q, i, quote) ==
  LET from[j \in i..Len(q) + 1] ==
        CASE j > Len(q)                -> j
          [] At(q, j, <<"\\">>) /\ j < Len(q) -> from[j + 2]
          [] At(q, j, <<quote>>)       -> j
          [] OTHER                     -> from[j + 1]
  IN  from[i]

(* mask_following_quote: what it appends for the text from i, and where it *)
(* stops.                                                                  *)
mask_following_quote(q, i) ==
  LET v == SkipWhile(q, i, LAMBDA c : c \in Space \union {"(", "="})
      separators == SubSeq(q, i, v - 1)
      close == ClosingQuote(q, v + 1, q[v])
  IN  CASE v <= Len(q) /\ IsQuote(q[v]) ->
             [out |-> separators \o <<q[v], Mask>>
                        \o IF close > Len(q) THEN <<>> ELSE <<q[v]>>,
              next |-> IF close > Len(q) THEN close ELSE close + 1,
              masked |-> TRUE]
        [] HexAt(q, v) ->
             [out |-> separators \o <<"0", "x", Mask>>,
              next |-> SkipWhile(q, v + 2, LAMBDA c : c \in Digit \union {"f"}),
              masked |-> TRUE]
        [] OTHER ->
             [out |-> separators, next |-> v, masked |-> FALSE]

(* Behind IDENTIFIED at i: past anything up to BY, AS or USING, or up to a *)
(* literal, and past PASSWORD if that follows.                             *)
Connectors == {<<"BY">>, <<"AS">>, <<"USING">>}

AfterIdentified(q, i) ==
  LET Connector(k) == \E kw \in Connectors : kw_at(q, k, kw)
      c == CHOOSE c \in i + 1..Len(q) + 1 :
             LET Stop(k) == Connector(k) \/ IsQuote(q[k]) \/ HexAt(q, k)
             IN  /\ c = Len(q) + 1 \/ Stop(c)
                 /\ \A k \in i + 1..c - 1 : ~Stop(k)
      after == IF Connector(c) THEN c + 1 ELSE c
      j == SkipWhile(q, after, is_space)
  IN  IF kw_at(q, j, <<"PASSWORD">>) THEN j + 1 ELSE after

(* The trigger at i ends where a literal may start; i itself if there is   *)
(* no trigger.                                                             *)
AfterTrigger(q, i) ==
  CASE kw_at(q, i, <<"IDENTIFIED">>)       -> AfterIdentified(q, i)
    [] kw_at(q, i, <<"OLD_", "PASSWORD">>) -> i + 2
    [] kw_at(q, i, <<"PASSWORD">>)         -> i + 1
    [] OTHER                               -> i

mask_secrets(q) ==
  LET from[i \in 1..Len(q) + 1] ==
        IF i > Len(q) THEN [out |-> <<>>, masked |-> FALSE] ELSE
        LET v == AfterTrigger(q, i)
            m == IF v = i
                   THEN [out |-> <<q[i]>>, next |-> i + 1, masked |-> FALSE]
                   ELSE mask_following_quote(q, v)
            rest == from[m.next]
        IN  [out |-> SubSeq(q, i, v - 1) \o m.out \o rest.out,
             masked |-> m.masked \/ rest.masked]
  IN  from[1]

-----------------------------------------------------------------------------
(* json_escape_append and sql_escape_append, one character code            *)

Backslash == 92

HexDigit(d) == IF d < 10 THEN 48 + d ELSE 87 + d

JsonEscape(c) ==
  CASE c \in {34, Backslash} -> <<Backslash, c>>
    [] c = 8  -> <<Backslash, 98>>
    [] c = 12 -> <<Backslash, 102>>
    [] c = 10 -> <<Backslash, 110>>
    [] c = 13 -> <<Backslash, 114>>
    [] c = 9  -> <<Backslash, 116>>
    [] c < 32 /\ c \notin {8, 9, 10, 12, 13} ->
         <<Backslash, 117, 48, 48, HexDigit(c \div 16), HexDigit(c % 16)>>
    [] OTHER  -> <<c>>

SqlEscape_QuoteOnly(c) == IF c = 39 THEN <<Backslash, c>> ELSE <<c>>

SqlEscape(c) ==
  CASE c \in {39, Backslash} -> <<Backslash, c>>
    [] c = 0  -> <<Backslash, 48>>
    [] c = 10 -> <<Backslash, 110>>
    [] c = 13 -> <<Backslash, 114>>
    [] c = 26 -> <<Backslash, 90>>
    [] OTHER  -> <<c>>

json_escape(src) == FlattenSeq([i \in DOMAIN src |-> JsonEscape(src[i])])

sql_escape(src) == FlattenSeq([i \in DOMAIN src |-> SqlEscape(src[i])])

-----------------------------------------------------------------------------
(* The text of a filter list                                               *)

(* The pieces between the separators: one more than there are separators. *)
Cut(pieces, c, separator) ==
  IF c = separator THEN Append(pieces, <<>>)
  ELSE [pieces EXCEPT ![Len(pieces)] = Append(@, c)]

Split(s, separator) ==
  LET upTo[n \in 0..Len(s)] ==
        IF n = 0 THEN <<<<>>>> ELSE Cut(upTo[n - 1], s[n], separator)
  IN  upTo[Len(s)]

ascii_lower(c) == IF c = "A" THEN "a" ELSE c

Trim(raw) ==
  LET b == SkipWhile(raw, 1, is_space)
      e == SkipWhile(Reverse(raw), 1, is_space)
  IN  SubSeq(raw, b, Len(raw) + 1 - e)

clean_token(raw) ==
  LET t == Trim(raw) IN [i \in DOMAIN t |-> ascii_lower(t[i])]

strip_ticks(part) ==
  IF Len(part) >= 2 /\ part[1] = "tick" /\ part[Len(part)] = "tick"
    THEN SubSeq(part, 2, Len(part) - 1)
    ELSE part

(* split_csv: a token that is blank is no entry. *)
split_csv_KeepsBlank(csv) ==
  LET raw == Split(csv, ",") IN [i \in DOMAIN raw |-> clean_token(raw[i])]

Keep(tokens, raw) ==
  LET t == clean_token(raw) IN IF t = <<>> THEN tokens ELSE Append(tokens, t)

Tokens(raw) ==
  LET upTo[n \in 0..Len(raw)] ==
        IF n = 0 THEN <<>> ELSE Keep(upTo[n - 1], raw[n])
  IN  upTo[Len(raw)]

split_csv(csv) == Tokens(Split(csv, ","))

(* split_cmd_qualifier, and what parse_filter_lists makes of the name: the *)
(* entry FilterEngine starts from.                                         *)
ReadEntry(token) ==
  LET colon == SkipWhile(token, 1, LAMBDA c : c # ":")
      parts == Split(Trim(SubSeq(token, 1, colon - 1)), ".")
      quals == Split(SubSeq(token, colon + 1, Len(token)), "|")
  IN  [parts |-> [i \in DOMAIN parts |-> strip_ticks(parts[i])],
       quals |-> IF colon > Len(token) THEN <<>>
                 ELSE [i \in DOMAIN quals |-> Trim(quals[i])]]

ReadList(csv) ==
  LET tokens == split_csv(csv)
  IN  [i \in DOMAIN tokens |-> ReadEntry(tokens[i])]
=============================================================================
