------------------------- MODULE SqlTextCheck_proof -------------------------
(***************************************************************************)
(* The scanners of SqlText find what SqlTextCheck puts together, for every *)
(* text it can put together.                                               *)
(*                                                                         *)
(* What was escaped is read back.  An escaped text is its characters'      *)
(* escapes one behind the other, so the escape of character n starts       *)
(* behind those of the n - 1 before it: there the reader finds one unit,   *)
(* whose value is the character and behind which the next escape starts.   *)
(* The values are then the text, by induction from its end.                *)
(*                                                                         *)
(* The command of a statement, and the schema of a USE statement, is found *)
(* behind any number of pieces.  Every test and loop of the scan sees the  *)
(* same symbols in a text u as in u behind another text t, so the scan of  *)
(* t \o u from Len(t) + 1 is the scan of u from 1 (Behind).  A piece is    *)
(* Skipped when the scan of every text behind it starts where the piece    *)
(* ends; two of them, one behind the other, are Skipped again, and that is *)
(* the inductive invariant.                                                *)
(*                                                                         *)
(* A list is read as its entries.  A text without the separator goes on    *)
(* with the last piece of what was cut so far, and a separator begins an   *)
(* empty one (SplitsTo), so what is built of a list always ends with a     *)
(* comma behind pieces that are read as what the list means by now; one    *)
(* more entry adds what that entry is read as.                             *)
(***************************************************************************)
EXTENDS SqlTextCheck, FilterEngine_proof

Byte == 0..255

-----------------------------------------------------------------------------
(* Sequences one behind the other.                                         *)

(* out[n] is the first n of them. *)
PrefixesOf(out, seqs) ==
  /\ out \in [0..Len(seqs) -> Seq(Nat)] /\ out[0] = <<>>
  /\ \A n \in 1..Len(seqs) : out[n] = out[n - 1] \o seqs[n]

(* Each of them is one. *)
LEMMA ElementIsSeq ==
  ASSUME NEW seqs \in Seq(Seq(Nat)), NEW n \in 1..Len(seqs)
  PROVE  seqs[n] \in Seq(Nat)
BY ElementOfSeq

(* FlattenSeq is its loop. *)
IsFlatten(f, seqs) ==
  f = [i \in 1..Len(seqs) |-> IF i = 1 THEN seqs[i] ELSE f[i - 1] \o seqs[i]]

(* FlattenSeq puts all of them one behind the other. *)
LEMMA FlattenHasPrefixes ==
  ASSUME NEW seqs \in Seq(Seq(Nat))
  PROVE  \E out : PrefixesOf(out, seqs) /\ FlattenSeq(seqs) = out[Len(seqs)]
<1>1. PICK K \in Nat : K = Len(seqs)
  OBVIOUS
<1> DEFINE V == Seq(Nat)
           F == [x \in V \X (1..K) |-> x[1] \o seqs[x[2]]]
<1>2. F \in [V \X (1..K) -> V]
  BY <1>1
<1>3. <<>> \in V
  OBVIOUS
<1> HIDE DEF F
<1>4. PICK g : ValuesOf(g, V, <<>>, K, F)
  BY <1>2, <1>3, LoopHasValues
<1>5. /\ g \in [0..K -> V] /\ g[0] = <<>>
      /\ \A n \in 1..K : g[n] = g[n - 1] \o seqs[n]
  <2>1. /\ g \in [0..K -> V] /\ g[0] = <<>>
        /\ \A n \in 1..K : g[n] = F[<<g[n - 1], n>>]
    BY <1>4 DEF ValuesOf
  <2>2. ASSUME NEW n \in 1..K PROVE g[n] = g[n - 1] \o seqs[n]
    <3>1. n - 1 \in 0..K /\ g[n - 1] \in V
      BY <2>1
    <3>2. F[<<g[n - 1], n>>] = g[n - 1] \o seqs[n]
      BY <3>1 DEF F
    <3> QED
      BY <2>1, <3>2
  <2> QED
    BY <2>1, <2>2
<1>6. CASE K = 0
  <2>1. FlattenSeq(seqs) = seqs
    <3>1. Len(seqs) = 0
      BY <1>1, <1>6
    <3> QED
      BY <3>1, Zenon DEF FlattenSeq
  <2>a. seqs = <<>>
    BY <1>1, <1>6, EmptySeq
  <2>2. PrefixesOf(g, seqs)
    BY <1>1, <1>5 DEF PrefixesOf
  <2> QED
    BY <1>1, <1>5, <1>6, <2>1, <2>a, <2>2
<1>7. CASE K # 0
  <2>0. g[1] = seqs[1]
    <3>1. 1 \in 1..K /\ 1 - 1 = 0 /\ 1 \in DOMAIN seqs
      BY <1>1, <1>7
    <3>2. g[1] = g[0] \o seqs[1]
      BY <1>5, <3>1
    <3>3. <<>> \o seqs[1] = seqs[1]
      BY <1>1, <3>1, ElementIsSeq, ConcatEmptySeq
    <3> QED
      BY <1>5, <3>2, <3>3
  <2> DEFINE f == CHOOSE f : IsFlatten(f, seqs)
             h == [i \in 1..K |-> g[i]]
  <2>1. IsFlatten(h, seqs)
    <3>1. ASSUME NEW i \in 1..K
          PROVE  h[i] = IF i = 1 THEN seqs[i] ELSE h[i - 1] \o seqs[i]
      <4>1. CASE i = 1
        BY <2>0, <4>1
      <4>2. CASE i # 1
        <5>1. i - 1 \in 1..K
          BY <4>2
        <5> QED
          BY <1>5, <4>2, <5>1
      <4> QED
        BY <4>1, <4>2
    <3>2. h = [i \in 1..K |-> h[i]]
      OBVIOUS
    <3> HIDE DEF h
    <3> QED
      BY <1>1, <3>1, <3>2 DEF IsFlatten
  <2>2. IsFlatten(f, seqs)
    BY <2>1
  <2>3. FlattenSeq(seqs) = f[K]
    <3>1. Len(seqs) # 0
      BY <1>1, <1>7
    <3> QED
      BY <1>1, <3>1, Zenon DEF FlattenSeq, IsFlatten
  <2> HIDE DEF f, h
  <2>4. \A i \in 1..K : f[i] = g[i]
    <3> DEFINE S == {n \in Nat : n + 1 <= K => f[n + 1] = g[n + 1]}
    <3>1. 0 \in S
      <4>1. f[1] = seqs[1]
        BY <1>1, <1>7, <2>2 DEF IsFlatten
      <4> QED
        BY <2>0, <4>1
    <3>2. ASSUME NEW n \in Nat, n \in S PROVE n + 1 \in S
      <4> SUFFICES ASSUME (n + 1) + 1 <= K
                   PROVE  f[(n + 1) + 1] = g[(n + 1) + 1]
        OBVIOUS
      <4>1. PICK i \in 1..K : i = (n + 1) + 1 /\ i # 1 /\ i - 1 = n + 1
        OBVIOUS
      <4>2. f[i] = f[i - 1] \o seqs[i]
        BY <1>1, <2>2, <4>1 DEF IsFlatten
      <4>3. g[i] = g[i - 1] \o seqs[i]
        BY <1>5
      <4>4. f[i - 1] = g[i - 1]
        BY <3>2, <4>1
      <4> QED
        BY <4>1, <4>2, <4>3, <4>4
    <3> HIDE DEF S
    <3>3. \A n \in Nat : n \in S
      BY <3>1, <3>2, NatSetInduction
    <3>4. ASSUME NEW i \in 1..K PROVE f[i] = g[i]
      <4>1. i - 1 \in Nat /\ (i - 1) + 1 = i /\ i <= K
        OBVIOUS
      <4>2. i - 1 \in S
        BY <3>3, <4>1
      <4>3. (i - 1) + 1 <= K => f[(i - 1) + 1] = g[(i - 1) + 1]
        BY <4>2 DEF S
      <4> QED
        BY <4>1, <4>3
    <3> QED
      BY <3>4
  <2>5. f[K] = g[K]
    BY <1>7, <2>4
  <2>6. PrefixesOf(g, seqs)
    BY <1>1, <1>5 DEF PrefixesOf
  <2> QED
    BY <1>1, <2>3, <2>5, <2>6
<1> QED
  BY <1>6, <1>7

(* A longer prefix begins with the shorter one. *)
Extends(p, q) == Len(p) <= Len(q) /\ \A i \in 1..Len(p) : q[i] = p[i]

(* So the whole begins with each of its prefixes. *)
LEMMA PrefixesStay ==
  ASSUME NEW seqs \in Seq(Seq(Nat)), NEW out, PrefixesOf(out, seqs),
         NEW n \in 0..Len(seqs)
  PROVE  Extends(out[n], out[Len(seqs)])
<1>1. PICK K \in Nat : K = Len(seqs)
  OBVIOUS
<1>2. /\ out \in [0..K -> Seq(Nat)]
      /\ \A m \in 1..K : out[m] = out[m - 1] \o seqs[m]
  BY <1>1 DEF PrefixesOf
<1> DEFINE S == {d \in Nat : n + d <= K => Extends(out[n], out[n + d])}
<1>3. 0 \in S
  <2>1. n + 0 = n /\ out[n] \in Seq(Nat)
    BY <1>1, <1>2
  <2>2. Extends(out[n], out[n])
    BY <2>1 DEF Extends
  <2> QED
    BY <2>1, <2>2
<1>4. ASSUME NEW d \in Nat, d \in S PROVE d + 1 \in S
  <2> SUFFICES ASSUME n + (d + 1) <= K
               PROVE  Extends(out[n], out[n + (d + 1)])
    OBVIOUS
  <2>1. PICK m \in 1..K : m = n + (d + 1) /\ m - 1 = n + d
    BY <1>1
  <2>2. Extends(out[n], out[m - 1])
    BY <1>1, <1>4, <2>1
  <2>3. /\ out[m] = out[m - 1] \o seqs[m] /\ out[n] \in Seq(Nat)
        /\ out[m - 1] \in Seq(Nat) /\ seqs[m] \in Seq(Nat)
    <3>1. m \in 1..Len(seqs) /\ m - 1 \in 0..K /\ n \in 0..K
      BY <1>1, <2>1
    <3>2. seqs[m] \in Seq(Nat)
      BY <3>1, ElementIsSeq
    <3> QED
      BY <1>2, <3>1, <3>2
  <2>4. PICK p, q, r : p = out[n] /\ q = out[m - 1] /\ r = seqs[m]
    OBVIOUS
  <2>5. p \in Seq(Nat) /\ q \in Seq(Nat) /\ r \in Seq(Nat) /\ Extends(p, q)
    BY <2>2, <2>3, <2>4
  <2>6. Extends(p, q \o r)
    BY <2>5 DEF Extends
  <2> QED
    BY <2>1, <2>3, <2>4, <2>6
<1> HIDE DEF S
<1>5. \A d \in Nat : d \in S
  BY <1>3, <1>4, NatSetInduction
<1>6. K - n \in Nat /\ n + (K - n) = K
  BY <1>1
<1>7. K - n \in S
  BY <1>5, <1>6
<1>8. n + (K - n) <= K => Extends(out[n], out[n + (K - n)])
  BY <1>7 DEF S
<1> QED
  BY <1>1, <1>6, <1>8

(* Where piece n is in the whole, which a last element closes. *)
PieceAt(s, out, seqs, n) ==
  /\ Len(out[n - 1]) \in Nat
  /\ Len(out[n]) = Len(out[n - 1]) + Len(seqs[n])
  /\ Len(out[n]) < Len(s)
  /\ \A j \in 1..Len(seqs[n]) : s[Len(out[n - 1]) + j] = seqs[n][j]

InPlace(s, out, seqs, last) ==
  /\ s \in Seq(Nat) /\ Len(s) = Len(out[Len(seqs)]) + 1
  /\ s[Len(s)] = last
  /\ \A n \in 1..Len(seqs) : PieceAt(s, out, seqs, n)

(* Piece n is behind the n - 1 before it. *)
LEMMA PiecesInPlace ==
  ASSUME NEW seqs \in Seq(Seq(Nat)), NEW out, PrefixesOf(out, seqs),
         NEW last \in Nat
  PROVE  InPlace(Append(out[Len(seqs)], last), out, seqs, last)
<1>0. PICK s : s = Append(out[Len(seqs)], last)
  OBVIOUS
<1>1. PICK K \in Nat : K = Len(seqs)
  OBVIOUS
<1>2. /\ out \in [0..K -> Seq(Nat)]
      /\ \A m \in 1..K : out[m] = out[m - 1] \o seqs[m]
  BY <1>1 DEF PrefixesOf
<1>3. PICK whole \in Seq(Nat) : whole = out[K]
  BY <1>1, <1>2
<1>4. /\ s \in Seq(Nat) /\ Len(s) = Len(whole) + 1 /\ s[Len(s)] = last
      /\ \A i \in 1..Len(whole) : s[i] = whole[i]
  BY <1>0, <1>1, <1>3
<1>5. ASSUME NEW n \in 1..K PROVE PieceAt(s, out, seqs, n)
  <2>1. PICK p, q, r : p = out[n - 1] /\ q = out[n] /\ r = seqs[n]
    OBVIOUS
  <2>2. n \in 0..K /\ n - 1 \in 0..K /\ n \in DOMAIN seqs
    BY <1>1
  <2>3. /\ p \in Seq(Nat) /\ q \in Seq(Nat) /\ r \in Seq(Nat) /\ q = p \o r
    <3>1. seqs[n] \in Seq(Nat)
      BY <1>1, ElementIsSeq
    <3> QED
      BY <1>2, <2>1, <2>2, <3>1
  <2>4. Extends(q, whole)
    BY <1>1, <1>3, <2>1, <2>2, PrefixesStay
  <2>5. Len(q) = Len(p) + Len(r) /\ Len(p) \in Nat /\ Len(r) \in Nat
    BY <2>3
  <2>6. Len(q) < Len(s)
    BY <1>3, <1>4, <2>3, <2>4 DEF Extends
  <2>7. ASSUME NEW j \in 1..Len(r) PROVE s[Len(p) + j] = r[j]
    <3>1. Len(p) + j \in 1..Len(q) /\ Len(p) + j \in 1..Len(whole)
      BY <1>3, <2>3, <2>4, <2>5 DEF Extends
    <3>2. q[Len(p) + j] = r[j]
      <4>1. PICK i \in 1..Len(p) + Len(r) : i = Len(p) + j
        BY <2>5, <3>1
      <4>2. ~(i <= Len(p)) /\ i - Len(p) = j
        BY <2>5, <4>1
      <4>3. (p \o r)[i] = IF i <= Len(p) THEN p[i] ELSE r[i - Len(p)]
        BY <2>3, ConcatProperties
      <4> QED
        BY <2>3, <4>1, <4>2, <4>3
    <3>3. whole[Len(p) + j] = q[Len(p) + j]
      BY <2>4, <3>1 DEF Extends
    <3> QED
      BY <1>4, <3>1, <3>2, <3>3
  <2> QED
    BY <2>1, <2>5, <2>6, <2>7 DEF PieceAt
<1> QED
  BY <1>0, <1>1, <1>3, <1>4, <1>5 DEF InPlace

-----------------------------------------------------------------------------
(* Reading a string by its units.                                          *)

(* Join is its loop, which goes from the end to the beginning. *)
IsRead(r, units, D) ==
  r = [i \in D |-> units[i].value \o IF units[i].next = 0 THEN <<>>
                                     ELSE r[units[i].next]]

(* Behind a unit comes one further on, or none. *)
GoesOn(units, K) ==
  /\ DOMAIN units = 1..K
  /\ \A i \in 1..K : units[i].next = 0 \/ units[i].next \in (i + 1)..K

(* So there is such a function. *)
LEMMA ReadExists ==
  ASSUME NEW units, NEW K \in Nat, GoesOn(units, K)
  PROVE  \E r : IsRead(r, units, 1..K)
<1> DEFINE S == {d \in Nat : d <= K => \E r : IsRead(r, units, (K + 1 - d)..K)}
<1>1. 0 \in S
  <2>1. (K + 1 - 0)..K = {}
    OBVIOUS
  <2> DEFINE r == [i \in {} |-> 0]
  <2>2. r = [i \in {} |-> units[i].value \o IF units[i].next = 0 THEN <<>>
                                            ELSE r[units[i].next]]
    OBVIOUS
  <2> HIDE DEF r
  <2>3. IsRead(r, units, (K + 1 - 0)..K)
    BY <2>1, <2>2 DEF IsRead
  <2> QED
    BY <2>3
<1>2. ASSUME NEW d \in Nat, d \in S PROVE d + 1 \in S
  <2> SUFFICES ASSUME d + 1 <= K
               PROVE  \E r : IsRead(r, units, (K + 1 - (d + 1))..K)
    OBVIOUS
  <2>1. PICK lo \in 1..K : lo = K + 1 - (d + 1) /\ lo + 1 = K + 1 - d
    OBVIOUS
  <2>2. PICK f : IsRead(f, units, (lo + 1)..K)
    BY <1>2, <2>1
  <2> DEFINE Value(r, i) == units[i].value \o IF units[i].next = 0 THEN <<>>
                                              ELSE r[units[i].next]
             r == [i \in lo..K |-> IF i = lo THEN Value(f, lo) ELSE f[i]]
  <2>3. ASSUME NEW i \in lo..K PROVE r[i] = Value(r, i)
    <3>1. Value(r, i) = Value(f, i)
      <4>1. CASE units[i].next = 0
        BY <4>1
      <4>2. CASE units[i].next # 0
        <5>1. units[i].next \in (i + 1)..K /\ units[i].next # lo
          BY <2>3, <4>2 DEF GoesOn
        <5>2. r[units[i].next] = f[units[i].next]
          BY <2>3, <5>1
        <5> HIDE DEF r
        <5> QED
          BY <5>2
      <4> QED
        BY <4>1, <4>2
    <3>2. CASE i = lo
      <4>1. r[i] = Value(f, i)
        BY <3>2
      <4> QED
        BY <3>1, <4>1
    <3>3. CASE i # lo
      <4>1. i \in (lo + 1)..K /\ r[i] = f[i]
        BY <3>3
      <4>2. f[i] = Value(f, i)
        BY <2>2, <4>1 DEF IsRead
      <4> QED
        BY <3>1, <4>1, <4>2
    <3> QED
      BY <3>2, <3>3
  <2>4. r = [i \in lo..K |-> r[i]]
    OBVIOUS
  <2> HIDE DEF r
  <2>5. IsRead(r, units, lo..K)
    BY <2>3, <2>4 DEF IsRead
  <2> QED
    BY <2>1, <2>5
<1> HIDE DEF S
<1>3. K \in S
  BY <1>1, <1>2, NatSetInduction
<1>4. \E r : IsRead(r, units, (K + 1 - K)..K)
  BY <1>3 DEF S
<1>5. K + 1 - K = 1
  OBVIOUS
<1> QED
  BY <1>4, <1>5

(* The units of a text of which out has the prefixes: each is one element  *)
(* and leads to the next, the last one ends it.                            *)
UnitsOf(units, src, out) ==
  /\ \A n \in 1..Len(src) :
       units[Len(out[n - 1]) + 1] = Unit(<<src[n]>>, Len(out[n]) + 1)
  /\ units[Len(out[Len(src)]) + 1] = Unit(<<>>, 0)

(* Such units are read as the text. *)
LEMMA UnitsReadBack ==
  ASSUME NEW src \in Seq(Nat), NEW seqs \in Seq(Seq(Nat)),
         Len(seqs) = Len(src), NEW out, PrefixesOf(out, seqs), NEW units,
         NEW K \in Nat, K > Len(out[Len(src)]), GoesOn(units, K),
         UnitsOf(units, src, out)
  PROVE  Join(units) = src
<1>0. PICK N \in Nat : N = Len(src)
  OBVIOUS
<1>1. PICK r : IsRead(r, units, 1..K) /\ Join(units) = r[1]
  <2> DEFINE r == CHOOSE r : IsRead(r, units, DOMAIN units)
  <2>1. DOMAIN units = 1..K
    BY DEF GoesOn
  <2>2. \E f : IsRead(f, units, DOMAIN units)
    BY <2>1, ReadExists
  <2>3. IsRead(r, units, DOMAIN units)
    BY <2>2
  <2>4. Join(units) = r[1]
    BY Zenon DEF Join, IsRead
  <2> HIDE DEF r
  <2> QED
    BY <2>1, <2>3, <2>4
<1>2. ASSUME NEW n \in 0..N
      PROVE  out[n] \in Seq(Nat) /\ Len(out[n]) + 1 \in 1..K
  <2>0. out \in [0..N -> Seq(Nat)]
    BY <1>0 DEF PrefixesOf
  <2>1. out[n] \in Seq(Nat) /\ out[N] \in Seq(Nat)
    BY <2>0
  <2>2. Extends(out[n], out[N])
    BY <1>0, PrefixesStay
  <2>3. Len(out[n]) \in Nat /\ Len(out[N]) \in Nat /\ Len(out[n]) <= Len(out[N])
    BY <2>1, <2>2 DEF Extends
  <2> QED
    BY <1>0, <2>1, <2>3
<1> DEFINE Tail_(n) == SubSeq(src, n + 1, N)
           S == {d \in Nat : d <= N => r[Len(out[N - d]) + 1] = Tail_(N - d)}
<1>3. 0 \in S
  <2>1. PICK p \in 1..K : p = Len(out[N]) + 1
    <3>1. N \in 0..N
      OBVIOUS
    <3> QED
      BY <1>2, <3>1
  <2>2. units[p].value = <<>> /\ units[p].next = 0
    BY <1>0, <2>1 DEF UnitsOf, Unit
  <2>3. r[p] = <<>>
    <3>1. r[p] = <<>> \o <<>>
      BY <1>1, <2>1, <2>2 DEF IsRead
    <3>2. <<>> \in Seq(Nat)
      OBVIOUS
    <3>3. <<>> \o <<>> = <<>>
      BY <3>2, ConcatEmptySeq
    <3> QED
      BY <3>1, <3>3
  <2>4. SubSeq(src, N + 1, N) = <<>> /\ N - 0 = N
    BY SubSeqEmpty
  <2>5. 0 <= N => r[Len(out[N - 0]) + 1] = SubSeq(src, (N - 0) + 1, N)
    BY <2>1, <2>3, <2>4
  <2> QED
    BY <2>5
<1>4. ASSUME NEW d \in Nat, d \in S PROVE d + 1 \in S
  <2> SUFFICES ASSUME d + 1 <= N
               PROVE  r[Len(out[N - (d + 1)]) + 1] = Tail_(N - (d + 1))
    OBVIOUS
  <2>1. PICK n \in 1..N : n = N - d /\ n - 1 = N - (d + 1) /\ n - 1 \in 0..N
                          /\ n \in 0..N
    OBVIOUS
  <2>2. r[Len(out[n]) + 1] = SubSeq(src, n + 1, N)
    BY <1>4, <2>1
  <2>3. PICK p \in 1..K, q \in 1..K :
          p = Len(out[n - 1]) + 1 /\ q = Len(out[n]) + 1
    BY <1>2, <2>1
  <2>4. units[p].value = <<src[n]>> /\ units[p].next = q
    <3>1. units[p] = Unit(<<src[n]>>, q)
      BY <1>0, <2>3 DEF UnitsOf
    <3> QED
      BY <3>1 DEF Unit
  <2>5. r[p] = <<src[n]>> \o r[q]
    <3>1. q # 0
      OBVIOUS
    <3> QED
      BY <1>1, <2>4, <3>1 DEF IsRead
  <2>6. SubSeq(src, n, N) = <<src[n]>> \o SubSeq(src, n + 1, N)
    <3>1. n \in 1..Len(src) /\ N \in n..Len(src)
      BY <1>0
    <3> QED
      BY <3>1, SubSeqRecursiveFirst
  <2>7. (n - 1) + 1 = n
    OBVIOUS
  <2> QED
    BY <2>1, <2>2, <2>3, <2>5, <2>6, <2>7
<1> HIDE DEF S
<1>5. N \in S
  BY <1>3, <1>4, NatSetInduction
<1>6. r[Len(out[N - N]) + 1] = SubSeq(src, (N - N) + 1, N)
  BY <1>5 DEF S
<1>7. N - N = 0 /\ 0 + 1 = 1 /\ out[0] = <<>> /\ Len(<<>>) = 0
  BY DEF PrefixesOf
<1>8. SubSeq(src, 1, N) = src
  BY <1>0, SubSeqFull
<1> QED
  BY <1>1, <1>6, <1>7, <1>8

-----------------------------------------------------------------------------
(* The escapes of one character.                                           *)

(* s has e behind its first b elements, and goes on behind it. *)
HasAt(s, b, e) ==
  b + Len(e) < Len(s) /\ \A j \in 1..Len(e) : s[b + j] = e[j]

(* An escape of one character, and one of two. *)
LEMMA HasShort ==
  ASSUME NEW s, NEW b \in Nat
  PROVE  /\ \A x \in Nat : HasAt(s, b, <<x>>) =>
              s[b + 1] = x /\ b + 1 < Len(s)
         /\ \A x, y \in Nat : HasAt(s, b, <<x, y>>) =>
              s[b + 1] = x /\ s[b + 2] = y /\ b + 2 < Len(s)
<1>1. ASSUME NEW x \in Nat, HasAt(s, b, <<x>>)
      PROVE  s[b + 1] = x /\ b + 1 < Len(s)
  <2>1. Len(<<x>>) = 1 /\ 1 \in 1..1 /\ <<x>>[1] = x
    OBVIOUS
  <2> QED
    BY <1>1, <2>1 DEF HasAt
<1>2. ASSUME NEW x \in Nat, NEW y \in Nat, HasAt(s, b, <<x, y>>)
      PROVE  s[b + 1] = x /\ s[b + 2] = y /\ b + 2 < Len(s)
  <2>1. /\ Len(<<x, y>>) = 2 /\ 1 \in 1..2 /\ 2 \in 1..2
        /\ <<x, y>>[1] = x /\ <<x, y>>[2] = y
    OBVIOUS
  <2> QED
    BY <1>2, <2>1 DEF HasAt
<1> QED
  BY <1>1, <1>2

(* An escape of SQL is one or two characters, or none of them special. *)
LEMMA SqlEscapeForms ==
  ASSUME NEW c \in Byte
  PROVE  \/ c \notin {39, 92} /\ SqlEscape(c) = <<c>>
         \/ \E y \in Byte : SqlEscape(c) = <<92, y>> /\ SqlValue(y) = <<c>>
<1>1. CASE c = 39
  BY <1>1 DEF SqlEscape, SqlValue, Backslash, Byte
<1>2. CASE c = 92
  BY <1>2 DEF SqlEscape, SqlValue, Backslash, Byte
<1>3. CASE c = 0
  BY <1>3 DEF SqlEscape, SqlValue, Backslash, Byte
<1>4. CASE c = 10
  BY <1>4 DEF SqlEscape, SqlValue, Backslash, Byte
<1>5. CASE c = 13
  BY <1>5 DEF SqlEscape, SqlValue, Backslash, Byte
<1>6. CASE c = 26
  BY <1>6 DEF SqlEscape, SqlValue, Backslash, Byte
<1>7. CASE c \notin {39, 92, 0, 10, 13, 26}
  BY <1>7 DEF SqlEscape, Backslash
<1> QED
  BY <1>1, <1>2, <1>3, <1>4, <1>5, <1>6, <1>7

(* The server reads it as one unit, the character. *)
LEMMA SqlEscapeIsUnit ==
  ASSUME NEW c \in Byte, NEW s \in Seq(Nat), NEW b \in Nat,
         HasAt(s, b, SqlEscape(c))
  PROVE  SqlUnit(s, b + 1) = Unit(<<c>>, b + Len(SqlEscape(c)) + 1)
<1>0. Len(s) \in Nat /\ c \in Nat /\ 92 \in Nat
  BY DEF Byte
<1>1. CASE c \notin {39, 92} /\ SqlEscape(c) = <<c>>
  <2>1. s[b + 1] = c /\ b + 1 < Len(s) /\ Len(SqlEscape(c)) = 1
    BY <1>0, <1>1, HasShort
  <2> QED
    BY <1>0, <1>1, <2>1 DEF SqlUnit
<1>2. ASSUME NEW y \in Byte, SqlEscape(c) = <<92, y>>, SqlValue(y) = <<c>>
      PROVE  SqlUnit(s, b + 1) = Unit(<<c>>, b + Len(SqlEscape(c)) + 1)
  <2>0. y \in Nat
    BY DEF Byte
  <2>1. /\ s[b + 1] = 92 /\ s[b + 2] = y /\ b + 2 < Len(s)
        /\ Len(SqlEscape(c)) = 2
    BY <1>0, <1>2, <2>0, HasShort
  <2>2. (b + 1) + 1 = b + 2 /\ (b + 1) + 2 = b + 2 + 1 /\ ~(b + 1 > Len(s))
        /\ b + 1 # Len(s)
    BY <1>0, <2>1
  <2>3. SqlUnit(s, b + 1) = Unit(SqlValue(y), b + 2 + 1)
    BY <2>1, <2>2 DEF SqlUnit
  <2> QED
    BY <1>2, <2>1, <2>3
<1> QED
  BY <1>1, <1>2, SqlEscapeForms

(* The six characters of a code in hexadecimal digits. *)
JsonHex(c) == <<92, 117, 48, 48, HexDigit(c \div 16), HexDigit(c % 16)>>

(* An escape of JSON is one, two or six characters. *)
LEMMA JsonEscapeForms ==
  ASSUME NEW c \in Byte
  PROVE  \/ c \notin {34, 92} /\ c >= 32 /\ JsonEscape(c) = <<c>>
         \/ \E y \in JsonShort : /\ JsonEscape(c) = <<92, y>>
                                 /\ JsonShortValue(y) = c
         \/ c < 32 /\ JsonEscape(c) = JsonHex(c)
<1>1. CASE c = 34
  BY <1>1 DEF JsonEscape, JsonShort, JsonShortValue, Backslash
<1>2. CASE c = 92
  BY <1>2 DEF JsonEscape, JsonShort, JsonShortValue, Backslash
<1>3. CASE c = 8
  BY <1>3 DEF JsonEscape, JsonShort, JsonShortValue, Backslash
<1>4. CASE c = 12
  BY <1>4 DEF JsonEscape, JsonShort, JsonShortValue, Backslash
<1>5. CASE c = 10
  BY <1>5 DEF JsonEscape, JsonShort, JsonShortValue, Backslash
<1>6. CASE c = 13
  BY <1>6 DEF JsonEscape, JsonShort, JsonShortValue, Backslash
<1>7. CASE c = 9
  BY <1>7 DEF JsonEscape, JsonShort, JsonShortValue, Backslash
<1>8. CASE c < 32 /\ c \notin {34, 92, 8, 12, 10, 13, 9}
  BY <1>8 DEF JsonEscape, JsonHex, Backslash
<1>9. CASE ~(c < 32) /\ c \notin {34, 92, 8, 12, 10, 13, 9}
  BY <1>9 DEF JsonEscape, Backslash, Byte
<1> QED
  BY <1>1, <1>2, <1>3, <1>4, <1>5, <1>6, <1>7, <1>8, <1>9

(* The two digits of a control character. *)
LEMMA HexReadsBack ==
  ASSUME NEW c \in Byte, c < 32
  PROVE  /\ HexDigit(c \div 16) \in Nat /\ HexDigit(c % 16) \in Nat
         /\ HexCode(48, 48, HexDigit(c \div 16), HexDigit(c % 16)) = c
<1>1. /\ c \div 16 \in 0..1 /\ c % 16 \in 0..15
      /\ c = 16 * (c \div 16) + (c % 16)
  BY DEF Byte
<1>2. \A d \in 0..15 : HexDigit(d) \in Nat /\ HexValue(HexDigit(d)) = d
  BY DEF HexDigit, HexValue
<1>3. PICK d \in 0..1, e \in 0..15 : d = c \div 16 /\ e = c % 16
  BY <1>1
<1>4. /\ HexDigit(d) \in Nat /\ HexDigit(e) \in Nat
      /\ HexValue(HexDigit(d)) = d /\ HexValue(HexDigit(e)) = e
  BY <1>2
<1>5. HexValue(48) = 0
  BY DEF HexValue
<1>6. c = 16 * d + e
  BY <1>1, <1>3
<1>7. 0 * 4096 + 0 * 256 + d * 16 + e = c
  BY <1>6
<1>8. HexCode(48, 48, HexDigit(d), HexDigit(e)) = 0 * 4096 + 0 * 256 + d * 16 + e
  BY <1>4, <1>5 DEF HexCode
<1> QED
  BY <1>3, <1>4, <1>7, <1>8

(* A JSON reader reads it as one unit, the character. *)
LEMMA JsonEscapeIsUnit ==
  ASSUME NEW c \in Byte, NEW s \in Seq(Nat), NEW b \in Nat,
         HasAt(s, b, JsonEscape(c))
  PROVE  JsonUnit(s, b + 1) = Unit(<<c>>, b + Len(JsonEscape(c)) + 1)
<1>0. Len(s) \in Nat /\ c \in Nat /\ 92 \in Nat
  BY DEF Byte
<1>1. CASE c \notin {34, 92} /\ c >= 32 /\ JsonEscape(c) = <<c>>
  <2>1. s[b + 1] = c /\ b + 1 < Len(s) /\ Len(JsonEscape(c)) = 1
    BY <1>0, <1>1, HasShort
  <2> QED
    BY <1>0, <1>1, <2>1 DEF JsonUnit
<1>2. ASSUME NEW y \in JsonShort, JsonEscape(c) = <<92, y>>,
             JsonShortValue(y) = c
      PROVE  JsonUnit(s, b + 1) = Unit(<<c>>, b + Len(JsonEscape(c)) + 1)
  <2>0. y \in Nat
    BY DEF JsonShort
  <2>1. /\ s[b + 1] = 92 /\ s[b + 2] = y /\ b + 2 < Len(s)
        /\ Len(JsonEscape(c)) = 2
    BY <1>0, <1>2, <2>0, HasShort
  <2>2. (b + 1) + 1 = b + 2 /\ (b + 1) + 2 = b + 2 + 1 /\ ~(b + 1 > Len(s))
        /\ b + 1 # Len(s)
    BY <1>0, <2>1
  <2>3. JsonUnit(s, b + 1) = Unit(<<JsonShortValue(y)>>, b + 2 + 1)
    <3>1. PICK i \in Nat : i = b + 1
      OBVIOUS
    <3>2. /\ ~(i > Len(s)) /\ i # Len(s) /\ s[i] = 92 /\ s[i + 1] = y
          /\ i + 2 = b + 2 + 1
      BY <2>1, <2>2, <3>1
    <3>3. ~(92 < 32) /\ 92 # 34
      OBVIOUS
    <3>4. JsonUnit(s, i) = Unit(<<JsonShortValue(y)>>, i + 2)
      BY <1>2, <3>2, <3>3, Zenon DEF JsonUnit
    <3> QED
      BY <3>1, <3>2, <3>4
  <2> QED
    BY <1>2, <2>1, <2>3
<1>3. CASE c < 32 /\ JsonEscape(c) = JsonHex(c)
  <2>1. PICK x \in Nat, y \in Nat : x = HexDigit(c \div 16) /\ y = HexDigit(c % 16)
    BY <1>3, HexReadsBack
  <2>2. JsonEscape(c) = <<92, 117, 48, 48, x, y>>
    BY <1>3, <2>1 DEF JsonHex
  <2>3. PICK e : e = JsonEscape(c)
    OBVIOUS
  <2>4. /\ Len(e) = 6 /\ e[1] = 92 /\ e[2] = 117 /\ e[3] = 48 /\ e[4] = 48
        /\ e[5] = x /\ e[6] = y
    BY <2>2, <2>3
  <2>5. b + 6 < Len(s) /\ \A j \in 1..6 : s[b + j] = e[j]
    BY <2>3, <2>4 DEF HasAt
  <2>6. /\ s[b + 1] = 92 /\ s[b + 2] = 117 /\ s[b + 3] = 48 /\ s[b + 4] = 48
        /\ s[b + 5] = x /\ s[b + 6] = y
    BY <2>4, <2>5
  <2>a. b + 6 < Len(s)
    BY <2>5
  <2>7. /\ (b + 1) + 1 = b + 2 /\ (b + 1) + 2 = b + 3 /\ (b + 1) + 3 = b + 4
        /\ (b + 1) + 4 = b + 5 /\ (b + 1) + 5 = b + 6
        /\ (b + 1) + 6 = b + 6 + 1
        /\ ~(b + 1 > Len(s)) /\ b + 1 # Len(s) /\ (b + 1) + 5 <= Len(s)
    BY <1>0, <2>a
  <2>8. 117 \notin JsonShort
    BY DEF JsonShort
  <2>9. JsonUnit(s, b + 1) =
          Unit(<<HexCode(48, 48, x, y)>>, b + 6 + 1)
    <3>1. PICK i \in Nat : i = b + 1
      OBVIOUS
    <3>2. /\ ~(i > Len(s)) /\ i # Len(s) /\ i + 5 <= Len(s)
          /\ s[i] = 92 /\ s[i + 1] = 117 /\ s[i + 2] = 48 /\ s[i + 3] = 48
          /\ s[i + 4] = x /\ s[i + 5] = y /\ i + 6 = b + 6 + 1
      BY <2>6, <2>7, <3>1
    <3>3. ~(92 < 32) /\ 92 # 34
      OBVIOUS
    <3>4. JsonUnit(s, i) = Unit(<<HexCode(48, 48, x, y)>>, i + 6)
      BY <2>8, <3>2, <3>3, Zenon DEF JsonUnit
    <3> QED
      BY <3>1, <3>2, <3>4
  <2>10. HexCode(48, 48, x, y) = c
    BY <1>3, <2>1, HexReadsBack
  <2> QED
    BY <2>3, <2>4, <2>9, <2>10
<1> QED
  BY <1>1, <1>2, <1>3, JsonEscapeForms

-----------------------------------------------------------------------------
(* The escapes of a text.                                                  *)

(* Behind a unit of JSON or SQL comes one further on, or none. *)
LEMMA ReadersGoOn ==
  ASSUME NEW s \in Seq(Nat), NEW i \in 1..Len(s) + 1
  PROVE  /\ \/ JsonUnit(s, i).next = 0
            \/ JsonUnit(s, i).next \in (i + 1)..Len(s) + 1
         /\ \/ SqlUnit(s, i).next = 0
            \/ SqlUnit(s, i).next \in (i + 1)..Len(s) + 1
<1>1. Len(s) \in Nat /\ i \in Nat
  OBVIOUS
<1>2. /\ ~(i > Len(s)) => i + 1 \in (i + 1)..Len(s) + 1
      /\ ~(i > Len(s)) /\ i # Len(s) => i + 2 \in (i + 1)..Len(s) + 1
      /\ i + 5 <= Len(s) => i + 6 \in (i + 1)..Len(s) + 1
  BY <1>1
<1>3. \A v, n : Unit(v, n).next = n
  BY DEF Unit
<1>4. \/ JsonUnit(s, i).next = 0
      \/ JsonUnit(s, i).next \in (i + 1)..Len(s) + 1
  <2>1. CASE i > Len(s) \/ s[i] < 32
    BY <1>3, <2>1, Zenon DEF JsonUnit
  <2>2. CASE ~(i > Len(s) \/ s[i] < 32) /\ s[i] = 34
    BY <1>3, <2>2, Zenon DEF JsonUnit
  <2>3. CASE ~(i > Len(s) \/ s[i] < 32) /\ s[i] # 34 /\ s[i] # 92
    <3>1. JsonUnit(s, i) = Unit(<<s[i]>>, i + 1)
      BY <2>3, Zenon DEF JsonUnit
    <3> QED
      BY <1>2, <1>3, <2>3, <3>1
  <2>4. CASE ~(i > Len(s) \/ s[i] < 32) /\ s[i] # 34 /\ s[i] = 92
    <3>1. CASE i = Len(s)
      <4>1. JsonUnit(s, i) = Unit(Bad, 0)
        BY <2>4, <3>1, Zenon DEF JsonUnit
      <4> QED
        BY <1>3, <4>1
    <3>2. CASE i # Len(s) /\ s[i + 1] \in JsonShort
      <4>1. JsonUnit(s, i) = Unit(<<JsonShortValue(s[i + 1])>>, i + 2)
        BY <2>4, <3>2, Zenon DEF JsonUnit
      <4> QED
        <5>1. JsonUnit(s, i).next = i + 2
          BY <1>3, <4>1
        <5> QED
          BY <1>2, <2>4, <3>2, <5>1
    <3>3. CASE /\ i # Len(s) /\ s[i + 1] \notin JsonShort
               /\ s[i + 1] = 117 /\ i + 5 <= Len(s)
      <4>1. JsonUnit(s, i) =
              Unit(<<HexCode(s[i + 2], s[i + 3], s[i + 4], s[i + 5])>>, i + 6)
        BY <2>4, <3>3, Zenon DEF JsonUnit
      <4> QED
        <5>1. JsonUnit(s, i).next = i + 6
          BY <1>3, <4>1
        <5> QED
          BY <1>2, <3>3, <5>1
    <3>4. CASE /\ i # Len(s) /\ s[i + 1] \notin JsonShort
               /\ ~(s[i + 1] = 117 /\ i + 5 <= Len(s))
      <4>1. JsonUnit(s, i) = Unit(Bad, 0)
        BY <2>4, <3>4, Zenon DEF JsonUnit
      <4> QED
        BY <1>3, <4>1
    <3> QED
      BY <3>1, <3>2, <3>3, <3>4
  <2> QED
    BY <2>1, <2>2, <2>3, <2>4
<1>5. \/ SqlUnit(s, i).next = 0
      \/ SqlUnit(s, i).next \in (i + 1)..Len(s) + 1
  <2>1. CASE i > Len(s) \/ s[i] = 39
    BY <1>3, <2>1, Zenon DEF SqlUnit
  <2>2. CASE ~(i > Len(s)) /\ s[i] # 39 /\ s[i] # 92
    <3>1. SqlUnit(s, i) = Unit(<<s[i]>>, i + 1)
      BY <2>2, Zenon DEF SqlUnit
    <3> QED
      BY <1>2, <1>3, <2>2, <3>1
  <2>3. CASE ~(i > Len(s)) /\ s[i] # 39 /\ s[i] = 92 /\ i = Len(s)
    <3>1. SqlUnit(s, i) = Unit(Bad, 0)
      BY <2>3, Zenon DEF SqlUnit
    <3> QED
      BY <1>3, <3>1
  <2>4. CASE ~(i > Len(s)) /\ s[i] # 39 /\ s[i] = 92 /\ i # Len(s)
    <3>1. SqlUnit(s, i) = Unit(SqlValue(s[i + 1]), i + 2)
      BY <2>4, Zenon DEF SqlUnit
    <3> QED
      BY <1>2, <1>3, <2>4, <3>1
  <2> QED
    BY <2>1, <2>2, <2>3, <2>4
<1> QED
  BY <1>4, <1>5

Avoids(q, x) == \A i \in 1..Len(q) : q[i] # x

(* An escape is made of characters, and none of JSON's is a newline. *)
LEMMA EscapeTypes ==
  ASSUME NEW c \in Byte
  PROVE  /\ JsonEscape(c) \in Seq(Nat) /\ SqlEscape(c) \in Seq(Nat)
         /\ Avoids(JsonEscape(c), 10)
<1>0. c \in Nat /\ 92 \in Nat
  BY DEF Byte
<1>1. SqlEscape(c) \in Seq(Nat)
  <2>1. CASE SqlEscape(c) = <<c>>
    BY <1>0, <2>1
  <2>2. ASSUME NEW y \in Byte, SqlEscape(c) = <<92, y>>
        PROVE  SqlEscape(c) \in Seq(Nat)
    BY <2>2 DEF Byte
  <2> QED
    BY <2>1, <2>2, SqlEscapeForms
<1>2. JsonEscape(c) \in Seq(Nat) /\ Avoids(JsonEscape(c), 10)
  <2>1. CASE c >= 32 /\ JsonEscape(c) = <<c>>
    <3>1. Len(<<c>>) = 1 /\ <<c>>[1] = c /\ <<c>> \in Seq(Nat) /\ c # 10
      BY <1>0, <2>1
    <3> QED
      BY <2>1, <3>1 DEF Avoids
  <2>2. ASSUME NEW y \in JsonShort, JsonEscape(c) = <<92, y>>
        PROVE  JsonEscape(c) \in Seq(Nat) /\ Avoids(JsonEscape(c), 10)
    <3>1. y \in Nat /\ y # 10
      BY DEF JsonShort
    <3>2. PICK e : e = <<92, y>>
      OBVIOUS
    <3>3. Len(e) = 2 /\ e[1] = 92 /\ e[2] = y /\ e \in Seq(Nat)
      BY <3>1, <3>2
    <3>4. Avoids(e, 10)
      BY <3>1, <3>3 DEF Avoids
    <3> QED
      BY <2>2, <3>2, <3>3, <3>4
  <2>3. CASE c < 32 /\ JsonEscape(c) = JsonHex(c)
    <3>1. \A d \in 0..15 : HexDigit(d) \in Nat /\ HexDigit(d) # 10
      BY DEF HexDigit
    <3>2. c \div 16 \in 0..15 /\ c % 16 \in 0..15
      BY <2>3 DEF Byte
    <3>3. PICK x \in Nat, y \in Nat :
            /\ x = HexDigit(c \div 16) /\ y = HexDigit(c % 16)
            /\ x # 10 /\ y # 10
      BY <3>1, <3>2
    <3>4. PICK e : e = <<92, 117, 48, 48, x, y>>
      OBVIOUS
    <3>5. /\ e \in Seq(Nat) /\ Len(e) = 6
          /\ e[1] = 92 /\ e[2] = 117 /\ e[3] = 48 /\ e[4] = 48
          /\ e[5] = x /\ e[6] = y
      BY <3>4
    <3>6. Avoids(e, 10)
      BY <3>3, <3>5 DEF Avoids
    <3>7. JsonEscape(c) = e
      BY <2>3, <3>3, <3>4 DEF JsonHex
    <3> QED
      BY <3>5, <3>6, <3>7
  <2> QED
    BY <2>1, <2>2, <2>3, JsonEscapeForms
<1> QED
  BY <1>1, <1>2

(* What no piece has, the whole has not. *)
LEMMA PrefixesAvoid ==
  ASSUME NEW seqs \in Seq(Seq(Nat)), NEW out, PrefixesOf(out, seqs), NEW x,
         \A n \in 1..Len(seqs) : Avoids(seqs[n], x)
  PROVE  Avoids(out[Len(seqs)], x)
<1>1. PICK K \in Nat : K = Len(seqs)
  OBVIOUS
<1>2. /\ out \in [0..K -> Seq(Nat)] /\ out[0] = <<>>
      /\ \A m \in 1..K : out[m] = out[m - 1] \o seqs[m]
  BY <1>1 DEF PrefixesOf
<1> DEFINE S == {n \in Nat : n <= K => Avoids(out[n], x)}
<1>3. 0 \in S
  BY <1>2 DEF Avoids
<1>4. ASSUME NEW n \in Nat, n \in S PROVE n + 1 \in S
  <2> SUFFICES ASSUME n + 1 <= K PROVE Avoids(out[n + 1], x)
    OBVIOUS
  <2>1. n + 1 \in 1..K /\ (n + 1) - 1 = n /\ n \in 0..K
    OBVIOUS
  <2>2. PICK p, q : p = out[n] /\ q = seqs[n + 1]
    OBVIOUS
  <2>3. p \in Seq(Nat) /\ q \in Seq(Nat) /\ out[n + 1] = p \o q
    <3>1. seqs[n + 1] \in Seq(Nat)
      BY <1>1, <2>1, ElementIsSeq
    <3> QED
      BY <1>2, <2>1, <2>2, <3>1
  <2>4. Avoids(p, x) /\ Avoids(q, x)
    BY <1>1, <1>4, <2>1, <2>2
  <2>5. ASSUME NEW i \in 1..Len(p \o q) PROVE (p \o q)[i] # x
    <3>1. /\ Len(p \o q) = Len(p) + Len(q) /\ Len(p) \in Nat /\ Len(q) \in Nat
          /\ (p \o q)[i] = IF i <= Len(p) THEN p[i] ELSE q[i - Len(p)]
      BY <2>3, ConcatProperties
    <3>2. CASE i <= Len(p)
      BY <2>4, <3>1, <3>2 DEF Avoids
    <3>3. CASE ~(i <= Len(p))
      <4>1. i - Len(p) \in 1..Len(q)
        BY <3>1, <3>3
      <4> QED
        BY <2>4, <3>1, <3>3, <4>1 DEF Avoids
    <3> QED
      BY <3>2, <3>3
  <2> QED
    BY <2>3, <2>5 DEF Avoids
<1> HIDE DEF S
<1>5. K \in S
  BY <1>3, <1>4, NatSetInduction
<1>6. Avoids(out[K], x)
  BY <1>5 DEF S
<1> QED
  BY <1>1, <1>6

(* The escapes of a text, one by one, and closed by a quote. *)
JsonPieces(src) == [i \in DOMAIN src |-> JsonEscape(src[i])]

SqlPieces(src) == [i \in DOMAIN src |-> SqlEscape(src[i])]

(* They are sequences. *)
LEMMA PiecesAreSeqs ==
  ASSUME NEW src \in Seq(Byte)
  PROVE  /\ src \in Seq(Nat)
         /\ JsonPieces(src) \in Seq(Seq(Nat)) /\ Len(JsonPieces(src)) = Len(src)
         /\ SqlPieces(src) \in Seq(Seq(Nat)) /\ Len(SqlPieces(src)) = Len(src)
         /\ \A n \in 1..Len(src) :
              /\ src[n] \in Byte
              /\ JsonPieces(src)[n] = JsonEscape(src[n])
              /\ SqlPieces(src)[n] = SqlEscape(src[n])
<1>1. DOMAIN src = 1..Len(src) /\ Len(src) \in Nat
  OBVIOUS
<1>2. \A n \in 1..Len(src) : src[n] \in Byte
  BY ElementOfSeq
<1>3. Byte \subseteq Nat
  BY DEF Byte
<1>4. src \in Seq(Nat)
  BY <1>3, SeqMonotonic
<1>5. \A n \in 1..Len(src) : /\ JsonEscape(src[n]) \in Seq(Nat)
                             /\ SqlEscape(src[n]) \in Seq(Nat)
  BY <1>2, EscapeTypes
<1>6. JsonPieces(src) \in Seq(Seq(Nat)) /\ Len(JsonPieces(src)) = Len(src)
  BY <1>1, <1>5 DEF JsonPieces
<1>7. SqlPieces(src) \in Seq(Seq(Nat)) /\ Len(SqlPieces(src)) = Len(src)
  BY <1>1, <1>5 DEF SqlPieces
<1>8. \A n \in 1..Len(src) : /\ JsonPieces(src)[n] = JsonEscape(src[n])
                             /\ SqlPieces(src)[n] = SqlEscape(src[n])
  BY <1>1 DEF JsonPieces, SqlPieces
<1> QED
  BY <1>2, <1>4, <1>6, <1>7, <1>8

(* A line of the log file, whatever was logged: a JSON reader gets every   *)
(* byte back and finds the end of the string where json_escape_append's    *)
(* caller put it, and the line has no newline inside.                      *)
THEOREM JsonReadsBack ==
  ASSUME NEW src \in Seq(Byte)
  PROVE  LET line == Append(json_escape(src), 34)
         IN  JsonRead(line) = src /\ 10 \notin ToSet(line)
<1>0. PICK N \in Nat : N = Len(src)
  OBVIOUS
<1>1. PICK seqs : seqs = JsonPieces(src)
  OBVIOUS
<1>2. /\ seqs \in Seq(Seq(Nat)) /\ Len(seqs) = N /\ src \in Seq(Nat)
      /\ \A n \in 1..N : src[n] \in Byte /\ seqs[n] = JsonEscape(src[n])
  BY <1>0, <1>1, PiecesAreSeqs
<1>3. PICK out : PrefixesOf(out, seqs) /\ FlattenSeq(seqs) = out[N]
  BY <1>2, FlattenHasPrefixes
<1>4. json_escape(src) = out[N]
  BY <1>1, <1>3 DEF json_escape, JsonPieces
<1>5. PICK s : s = Append(out[N], 34)
  OBVIOUS
<1>6. /\ s \in Seq(Nat) /\ Len(s) = Len(out[N]) + 1 /\ s[Len(s)] = 34
      /\ \A n \in 1..N : PieceAt(s, out, seqs, n)
  <2>1. 34 \in Nat /\ s = Append(out[Len(seqs)], 34)
    BY <1>2, <1>5
  <2>2. /\ s \in Seq(Nat) /\ Len(s) = Len(out[Len(seqs)]) + 1
        /\ s[Len(s)] = 34
        /\ \A n \in 1..Len(seqs) : PieceAt(s, out, seqs, n)
    <3>1. InPlace(Append(out[Len(seqs)], 34), out, seqs, 34)
      BY <1>2, <1>3, <2>1, PiecesInPlace
    <3> QED
      BY <2>1, <3>1 DEF InPlace
  <2> QED
    BY <1>2, <2>2
<1>a. out[N] \in Seq(Nat) /\ Len(out[N]) \in Nat
  BY <1>2, <1>3 DEF PrefixesOf
<1>7. PICK units, K : /\ K = Len(s) + 1
                      /\ units = [i \in 1..K |-> JsonUnit(s, i)]
  OBVIOUS
<1>8. K \in Nat /\ K > Len(out[N]) /\ GoesOn(units, K)
  <2>1. K \in Nat /\ K > Len(out[N])
    BY <1>6, <1>7, <1>a
  <2>2. \A i \in 1..K : units[i].next = 0 \/ units[i].next \in (i + 1)..K
    BY <1>6, <1>7, ReadersGoOn
  <2> QED
    BY <1>7, <2>1, <2>2 DEF GoesOn
<1>9. UnitsOf(units, src, out)
  <2>1. ASSUME NEW n \in 1..N
        PROVE  units[Len(out[n - 1]) + 1] = Unit(<<src[n]>>, Len(out[n]) + 1)
    <3>1. PICK b \in Nat : b = Len(out[n - 1])
      BY <1>6 DEF PieceAt
    <3>2. /\ src[n] \in Byte /\ seqs[n] = JsonEscape(src[n])
          /\ Len(out[n]) = b + Len(JsonEscape(src[n]))
      BY <1>2, <1>6, <3>1 DEF PieceAt
    <3>3. HasAt(s, b, JsonEscape(src[n]))
      <4>1. /\ Len(out[n]) = b + Len(seqs[n]) /\ Len(out[n]) < Len(s)
            /\ \A j \in 1..Len(seqs[n]) : s[b + j] = seqs[n][j]
        BY <1>6, <3>1 DEF PieceAt
      <4> QED
        BY <3>2, <4>1 DEF HasAt
    <3>4. JsonUnit(s, b + 1) = Unit(<<src[n]>>, b + Len(JsonEscape(src[n])) + 1)
      BY <1>6, <3>2, <3>3, JsonEscapeIsUnit
    <3>5. b + 1 \in 1..K
      <4>1. JsonEscape(src[n]) \in Seq(Nat)
        BY <3>2, EscapeTypes
      <4>2. Len(JsonEscape(src[n])) \in Nat
        BY <4>1
      <4>3. b + Len(JsonEscape(src[n])) < Len(s)
        BY <3>3 DEF HasAt
      <4> QED
        BY <1>6, <1>7, <1>8, <4>2, <4>3
    <3>6. units[b + 1] = JsonUnit(s, b + 1)
      BY <1>7, <3>5
    <3> QED
      BY <3>1, <3>2, <3>4, <3>6
  <2>2. units[Len(out[N]) + 1] = Unit(<<>>, 0)
    <3>1. PICK i \in 1..K : i = Len(s)
      BY <1>6, <1>7, <1>a
    <3>2. units[i] = JsonUnit(s, i) /\ s[i] = 34 /\ i = Len(s)
      BY <1>6, <1>7, <3>1
    <3>3. ~(i > Len(s)) /\ ~(34 < 32)
      BY <3>1, <1>6
    <3>4. JsonUnit(s, i) = Unit(<<>>, 0)
      BY <3>2, <3>3, Zenon DEF JsonUnit
    <3> QED
      BY <1>6, <3>1, <3>2, <3>4
  <2> QED
    BY <1>0, <2>1, <2>2 DEF UnitsOf
<1>10. Join(units) = src
  BY <1>0, <1>2, <1>3, <1>8, <1>9, UnitsReadBack
<1>11. JsonRead(s) = src
  BY <1>7, <1>10 DEF JsonRead
<1>12. 10 \notin ToSet(s)
  <2>1. \A n \in 1..N : Avoids(seqs[n], 10)
    BY <1>2, EscapeTypes
  <2>2. Avoids(out[N], 10)
    BY <1>2, <1>3, <2>1, PrefixesAvoid
  <2>3. ASSUME NEW i \in 1..Len(s) PROVE s[i] # 10
    <3>1. PICK o \in Seq(Nat) : o = out[N]
      BY <1>a
    <3>2. s = Append(o, 34) /\ Len(s) = Len(o) + 1 /\ Len(o) \in Nat
      BY <1>5, <1>6, <3>1
    <3>3. CASE i = Len(s)
      BY <1>6, <3>3
    <3>4. CASE i # Len(s)
      <4>1. i \in 1..Len(o)
        BY <3>2, <3>4
      <4>2. s[i] = o[i]
        BY <3>2, <4>1
      <4> QED
        BY <2>2, <3>1, <4>1, <4>2 DEF Avoids
    <3> QED
      BY <3>3, <3>4
  <2>4. DOMAIN s = 1..Len(s)
    BY <1>6
  <2> QED
    BY <2>3, <2>4 DEF ToSet
<1> QED
  BY <1>4, <1>5, <1>11, <1>12

(* A literal of the INSERT, whatever was logged: the server gets every     *)
(* byte back under the pinned sql_mode, and the literal ends at the quote  *)
(* sql_escape_append's caller closes it with and not before.               *)
THEOREM SqlReadsBack ==
  ASSUME NEW src \in Seq(Byte)
  PROVE  SqlRead(Append(sql_escape(src), 39)) = src
<1>0. PICK N \in Nat : N = Len(src)
  OBVIOUS
<1>1. PICK seqs : seqs = SqlPieces(src)
  OBVIOUS
<1>2. /\ seqs \in Seq(Seq(Nat)) /\ Len(seqs) = N /\ src \in Seq(Nat)
      /\ \A n \in 1..N : src[n] \in Byte /\ seqs[n] = SqlEscape(src[n])
  BY <1>0, <1>1, PiecesAreSeqs
<1>3. PICK out : PrefixesOf(out, seqs) /\ FlattenSeq(seqs) = out[N]
  BY <1>2, FlattenHasPrefixes
<1>4. sql_escape(src) = out[N]
  BY <1>1, <1>3 DEF sql_escape, SqlPieces
<1>5. PICK s : s = Append(out[N], 39)
  OBVIOUS
<1>6. /\ s \in Seq(Nat) /\ Len(s) = Len(out[N]) + 1 /\ s[Len(s)] = 39
      /\ \A n \in 1..N : PieceAt(s, out, seqs, n)
  <2>1. 39 \in Nat /\ s = Append(out[Len(seqs)], 39)
    BY <1>2, <1>5
  <2>2. /\ s \in Seq(Nat) /\ Len(s) = Len(out[Len(seqs)]) + 1
        /\ s[Len(s)] = 39
        /\ \A n \in 1..Len(seqs) : PieceAt(s, out, seqs, n)
    <3>1. InPlace(Append(out[Len(seqs)], 39), out, seqs, 39)
      BY <1>2, <1>3, <2>1, PiecesInPlace
    <3> QED
      BY <2>1, <3>1 DEF InPlace
  <2> QED
    BY <1>2, <2>2
<1>a. out[N] \in Seq(Nat) /\ Len(out[N]) \in Nat
  BY <1>2, <1>3 DEF PrefixesOf
<1>7. PICK units, K : /\ K = Len(s) + 1
                      /\ units = [i \in 1..K |-> SqlUnit(s, i)]
  OBVIOUS
<1>8. K \in Nat /\ K > Len(out[N]) /\ GoesOn(units, K)
  <2>1. K \in Nat /\ K > Len(out[N])
    BY <1>6, <1>7, <1>a
  <2>2. \A i \in 1..K : units[i].next = 0 \/ units[i].next \in (i + 1)..K
    BY <1>6, <1>7, ReadersGoOn
  <2> QED
    BY <1>7, <2>1, <2>2 DEF GoesOn
<1>9. UnitsOf(units, src, out)
  <2>1. ASSUME NEW n \in 1..N
        PROVE  units[Len(out[n - 1]) + 1] = Unit(<<src[n]>>, Len(out[n]) + 1)
    <3>1. PICK b \in Nat : b = Len(out[n - 1])
      BY <1>6 DEF PieceAt
    <3>2. /\ src[n] \in Byte /\ seqs[n] = SqlEscape(src[n])
          /\ Len(out[n]) = b + Len(SqlEscape(src[n]))
      BY <1>2, <1>6, <3>1 DEF PieceAt
    <3>3. HasAt(s, b, SqlEscape(src[n]))
      <4>1. /\ Len(out[n]) = b + Len(seqs[n]) /\ Len(out[n]) < Len(s)
            /\ \A j \in 1..Len(seqs[n]) : s[b + j] = seqs[n][j]
        BY <1>6, <3>1 DEF PieceAt
      <4> QED
        BY <3>2, <4>1 DEF HasAt
    <3>4. SqlUnit(s, b + 1) = Unit(<<src[n]>>, b + Len(SqlEscape(src[n])) + 1)
      BY <1>6, <3>2, <3>3, SqlEscapeIsUnit
    <3>5. b + 1 \in 1..K
      <4>1. SqlEscape(src[n]) \in Seq(Nat)
        BY <3>2, EscapeTypes
      <4>2. Len(SqlEscape(src[n])) \in Nat
        BY <4>1
      <4>3. b + Len(SqlEscape(src[n])) < Len(s)
        BY <3>3 DEF HasAt
      <4> QED
        BY <1>6, <1>7, <1>8, <4>2, <4>3
    <3>6. units[b + 1] = SqlUnit(s, b + 1)
      BY <1>7, <3>5
    <3> QED
      BY <3>1, <3>2, <3>4, <3>6
  <2>2. units[Len(out[N]) + 1] = Unit(<<>>, 0)
    <3>1. PICK i \in 1..K : i = Len(s)
      BY <1>6, <1>7, <1>a
    <3>2. units[i] = SqlUnit(s, i) /\ s[i] = 39 /\ i = Len(s)
      BY <1>6, <1>7, <3>1
    <3>3. ~(i > Len(s))
      BY <3>1, <1>6
    <3>4. SqlUnit(s, i) = Unit(<<>>, 0)
      BY <3>2, <3>3, Zenon DEF SqlUnit
    <3> QED
      BY <1>6, <3>1, <3>2, <3>4
  <2> QED
    BY <1>0, <2>1, <2>2 DEF UnitsOf
<1>10. Join(units) = src
  BY <1>0, <1>2, <1>3, <1>8, <1>9, UnitsReadBack
<1>11. SqlRead(s) = src
  BY <1>7, <1>10 DEF SqlRead
<1> QED
  BY <1>4, <1>5, <1>11

(* The text of the escape task is bytes. *)
EscapeText == task = "escape" => text \in Seq(Byte)

(* EscapesReadBack, for every number of pieces: the log line and the       *)
(* INSERT give back the text, of whatever length, that json_escape_append  *)
(* and sql_escape_append were given.                                       *)
THEOREM EscapesAreReadBack == Spec => []EscapesReadBack
<1>1. Init => EscapeText
  BY DEF Init, EscapeText
<1>2. EscapeText /\ [Next]_vars => EscapeText'
  <2> SUFFICES ASSUME EscapeText, [Next]_vars, task' = "escape"
               PROVE  text' \in Seq(Byte)
    BY DEF EscapeText
  <2>1. CASE UNCHANGED vars
    BY <2>1 DEF vars, EscapeText
  <2>2. CASE AddPiece
    <3>1. task = "escape" /\ text \in Seq(Byte)
      BY <2>2 DEF AddPiece, EscapeText
    <3>2. PICK p \in Pieces(task) : text' = text \o p.text
      BY <2>2 DEF AddPiece, Put
    <3>3. PICK c \in Characters : p = Piece(<<c>>, <<c>>)
      BY <3>1, <3>2 DEF Pieces
    <3>4. p.text = <<c>> /\ c \in Byte
      BY <3>3 DEF Piece, Characters, Byte
    <3>5. <<c>> \in Seq(Byte)
      BY <3>4
    <3> QED
      BY <3>1, <3>2, <3>4, <3>5, ConcatProperties
  <2>3. CASE AddLast
    <3>1. task = "escape" /\ text \in Seq(Byte)
      BY <2>3 DEF AddLast, EscapeText
    <3>2. PICK p \in LastPieces(task) : text' = text \o p.text
      BY <2>3 DEF AddLast, Put
    <3>3. p.text = <<>>
      BY <3>1, <3>2 DEF LastPieces, Silent, Piece
    <3> QED
      BY <3>1, <3>2, <3>3, ConcatEmptySeq
  <2> QED
    BY <2>1, <2>2, <2>3 DEF Next
<1>3. EscapeText => EscapesReadBack
  BY JsonReadsBack, SqlReadsBack DEF EscapeText, EscapesReadBack, Complete
<1> QED
  BY <1>1, <1>2, <1>3, PTL DEF Spec

-----------------------------------------------------------------------------
(* The texts of statements.                                                *)


(* The symbols statements are written with. *)
Words == {"SELECT", "INSERT", "DROP", "START", "TRANSACTION", "SLAVE", "COMMIT",
          "_", "x", "M", "U", "S", "E", "d", "A", "a", "b", "dml", "ddl"}

Symbol == Space \union Punctuation \union Digit \union Words

Text == Seq(Symbol)

(* Some of them. *)
LEMMA Symbols ==
  /\ "*" \in Symbol /\ "/" \in Symbol /\ "!" \in Symbol /\ "-" \in Symbol
  /\ "#" \in Symbol /\ "(" \in Symbol /\ " " \in Symbol /\ "\n" \in Symbol
  /\ "0" \in Symbol /\ "1" \in Symbol /\ "M" \in Symbol /\ "x" \in Symbol
  /\ "SELECT" \in Symbol /\ "DROP" \in Symbol
BY DEF Symbol, Space, Punctuation, Digit, Words

(* The marks of comments are texts. *)
LEMMA MarksAreTexts ==
  /\ <<"*", "/">> \in Text /\ <<"/", "*">> \in Text /\ <<"-", "-">> \in Text
  /\ <<"/", "*", "!">> \in Text /\ <<"/", "*", "M", "!">> \in Text
<1>1. /\ "*" \in Symbol /\ "/" \in Symbol /\ "!" \in Symbol /\ "-" \in Symbol
      /\ "M" \in Symbol
  BY Symbols
<1>2. <<"*", "/">> \in Text /\ <<"/", "*">> \in Text /\ <<"-", "-">> \in Text
  BY <1>1 DEF Text
<1>3. <<"/", "*", "!">> \in Text
  BY <1>1 DEF Text
<1>4. <<"/", "*", "M", "!">> \in Text
  BY <1>1 DEF Text
<1> QED
  BY <1>2, <1>3, <1>4

(* e is where a loop from p over the characters in S stops. *)
Span(q, p, S, e) ==
  /\ e \in p..Len(q) + 1
  /\ e = Len(q) + 1 \/ q[e] \notin S
  /\ \A i \in p..e - 1 : q[i] \in S

(* Such a loop stops. *)
LEMMA SpanExists ==
  ASSUME NEW q \in Text, NEW S, NEW p \in 1..Len(q) + 1
  PROVE  \E e : Span(q, p, S, e)
<1> DEFINE K == Len(q) + 1
           T == {d \in Nat : p + d <= K =>
                   \/ \E e : Span(q, p, S, e)
                   \/ \A i \in p..p + d - 1 : q[i] \in S}
<1>0. Len(q) \in Nat /\ K \in Nat /\ p \in Nat /\ p <= K
  BY DEF Text
<1>1. 0 \in T
  <2>1. p..p + 0 - 1 = {}
    BY <1>0
  <2> QED
    BY <2>1
<1>2. ASSUME NEW d \in Nat, d \in T PROVE d + 1 \in T
  <2> SUFFICES ASSUME p + (d + 1) <= K, ~ \E e : Span(q, p, S, e)
               PROVE  \A i \in p..p + (d + 1) - 1 : q[i] \in S
    OBVIOUS
  <2>1. \A i \in p..p + d - 1 : q[i] \in S
    BY <1>0, <1>2
  <2>2. ~Span(q, p, S, p + d)
    OBVIOUS
  <2>3. q[p + d] \in S
    BY <1>0, <2>1, <2>2 DEF Span
  <2> QED
    BY <1>0, <2>1, <2>3
<1> HIDE DEF T
<1>3. K - p \in Nat /\ p + (K - p) = K
  BY <1>0
<1>4. K - p \in T
  BY <1>1, <1>2, <1>3, NatSetInduction
<1>5. \/ \E e : Span(q, p, S, e)
      \/ \A i \in p..K - 1 : q[i] \in S
  BY <1>0, <1>3, <1>4 DEF T
<1>6. ASSUME \A i \in p..K - 1 : q[i] \in S PROVE Span(q, p, S, K)
  BY <1>0, <1>6 DEF Span
<1> QED
  BY <1>5, <1>6

(* It stops in one place. *)
LEMMA SpanUnique ==
  ASSUME NEW q \in Text, NEW S, NEW p \in 1..Len(q) + 1,
         NEW e, NEW f, Span(q, p, S, e), Span(q, p, S, f)
  PROVE  e = f
<1>0. Len(q) \in Nat /\ e \in Nat /\ f \in Nat /\ p \in Nat
  BY DEF Text, Span
<1>1. ~(e < f) /\ ~(f < e)
  BY <1>0 DEF Span
<1> QED
  BY <1>0, <1>1

(* The loops of the scanners, each over the characters that pass its test. *)
NoNewline == {c \in Symbol : c # "\n"}

Ident == {c \in Symbol : is_ident_char(c)}

(* They stop where Span says. *)
LEMMA SkipWhileIsSpan ==
  ASSUME NEW q \in Text, NEW p \in 1..Len(q) + 1
  PROVE  /\ Span(q, p, Digit, SkipWhile(q, p, LAMBDA c : c \in Digit))
         /\ Span(q, p, NoNewline, SkipWhile(q, p, LAMBDA c : c # "\n"))
         /\ Span(q, p, Ident, SkipWhile(q, p, is_ident_char))
         /\ Span(q, p, Space, SkipWhile(q, p, is_space))
<1>0. Len(q) \in Nat /\ \A i \in 1..Len(q) : q[i] \in Symbol
  BY DEF Text
<1>1. Span(q, p, Digit, SkipWhile(q, p, LAMBDA c : c \in Digit))
  <2>1. PICK e : Span(q, p, Digit, e)
    BY SpanExists
  <2> QED
    BY <2>1, Zenon DEF SkipWhile, Span
<1>2. Span(q, p, NoNewline, SkipWhile(q, p, LAMBDA c : c # "\n"))
  <2>1. PICK e : Span(q, p, NoNewline, e)
    BY SpanExists
  <2> DEFINE P(x) == /\ x = Len(q) + 1 \/ ~(q[x] # "\n")
                     /\ \A i \in p..x - 1 : q[i] # "\n"
  <2>2. ASSUME NEW x \in p..Len(q) + 1 PROVE P(x) <=> Span(q, p, NoNewline, x)
    <3>1. x \in Nat /\ (x = Len(q) + 1 \/ x \in 1..Len(q))
      BY <1>0
    <3>2. \A i \in p..x - 1 : i \in 1..Len(q)
      BY <1>0, <3>1
    <3> QED
      BY <1>0, <3>1, <3>2 DEF Span, NoNewline
  <2>3. e \in p..Len(q) + 1 /\ P(e)
    BY <2>1, <2>2 DEF Span
  <2>4. SkipWhile(q, p, LAMBDA c : c # "\n") = CHOOSE x \in p..Len(q) + 1 : P(x)
    BY DEF SkipWhile
  <2> HIDE DEF P
  <2> QED
    BY <2>2, <2>3, <2>4, Zenon
<1>3. Span(q, p, Ident, SkipWhile(q, p, is_ident_char))
  <2>1. PICK e : Span(q, p, Ident, e)
    BY SpanExists
  <2> DEFINE P(x) == /\ x = Len(q) + 1 \/ ~is_ident_char(q[x])
                     /\ \A i \in p..x - 1 : is_ident_char(q[i])
  <2>2. ASSUME NEW x \in p..Len(q) + 1 PROVE P(x) <=> Span(q, p, Ident, x)
    <3>1. x \in Nat /\ (x = Len(q) + 1 \/ x \in 1..Len(q))
      BY <1>0
    <3>2. \A i \in p..x - 1 : i \in 1..Len(q)
      BY <1>0, <3>1
    <3> QED
      BY <1>0, <3>1, <3>2 DEF Span, Ident
  <2>3. e \in p..Len(q) + 1 /\ P(e)
    BY <2>1, <2>2 DEF Span
  <2>4. SkipWhile(q, p, is_ident_char) = CHOOSE x \in p..Len(q) + 1 : P(x)
    BY DEF SkipWhile
  <2> HIDE DEF P
  <2> QED
    BY <2>2, <2>3, <2>4, Zenon
<1>4. Span(q, p, Space, SkipWhile(q, p, is_space))
  <2>1. PICK e : Span(q, p, Space, e)
    BY SpanExists
  <2> QED
    BY <2>1, Zenon DEF SkipWhile, Span, is_space
<1> QED
  BY <1>1, <1>2, <1>3, <1>4

-----------------------------------------------------------------------------
(* A statement behind another text.                                        *)

(* The text of u from position 1 is the text of q from n + 1. *)
Behind(q, n, u) ==
  /\ Len(q) = n + Len(u)
  /\ \A i \in 1..Len(u) : q[n + i] = u[i]

(* So it is in a concatenation. *)
LEMMA ConcatBehind ==
  ASSUME NEW t \in Text, NEW u \in Text
  PROVE  t \o u \in Text /\ Len(t) \in Nat /\ Behind(t \o u, Len(t), u)
BY DEF Behind, Text

(* A mark is the same symbols. *)
LEMMA AtMeans ==
  ASSUME NEW q \in Text, NEW p \in Nat \ {0}, NEW s \in Text
  PROVE  At(q, p, s) <=> /\ p + Len(s) - 1 <= Len(q)
                         /\ \A i \in 1..Len(s) : q[p + i - 1] = s[i]
<1>0. Len(q) \in Nat /\ Len(s) \in Nat
  BY DEF Text
<1>1. SUFFICES ASSUME p + Len(s) - 1 <= Len(q)
               PROVE  SubSeq(q, p, p + Len(s) - 1) = s
                        <=> \A i \in 1..Len(s) : q[p + i - 1] = s[i]
  BY DEF At
<1> DEFINE w == SubSeq(q, p, p + Len(s) - 1)
<1>2. w \in Text /\ Len(w) = Len(s) /\ \A i \in 1..Len(s) : w[i] = q[p + i - 1]
  <2>1. PICK m \in Int : m = p + Len(s) - 1
    BY <1>0
  <2>2. /\ m <= Len(q) /\ (p <= m => m - p + 1 = Len(s))
        /\ (~(p <= m) => Len(s) = 0)
    BY <1>0, <1>1, <2>1
  <2>3. CASE p <= m
    BY <1>0, <2>1, <2>2, <2>3 DEF Text
  <2>4. CASE ~(p <= m)
    BY <1>0, <2>1, <2>2, <2>4 DEF Text
  <2> QED
    BY <2>3, <2>4
<1> HIDE DEF w
<1>3. ASSUME \A i \in 1..Len(s) : w[i] = s[i] PROVE w = s
  BY <1>2, <1>3, SeqEqual DEF Text
<1> QED
  BY <1>2, <1>3 DEF w

(* The marks behind another text. *)
LEMMA AtShift ==
  ASSUME NEW q \in Text, NEW u \in Text, NEW n \in Nat, Behind(q, n, u),
         NEW s \in Text, s # <<>>, NEW p \in Nat \ {0}
  PROVE  At(q, n + p, s) <=> At(u, p, s)
<1>0. Len(q) \in Nat /\ Len(u) \in Nat /\ Len(s) \in Nat
      /\ Len(q) = n + Len(u) /\ n + p \in Nat \ {0}
  BY DEF Text, Behind
<1>1. At(q, n + p, s) <=> /\ n + p + Len(s) - 1 <= Len(q)
                          /\ \A i \in 1..Len(s) : q[n + p + i - 1] = s[i]
  BY <1>0, AtMeans
<1>2. At(u, p, s) <=> /\ p + Len(s) - 1 <= Len(u)
                      /\ \A i \in 1..Len(s) : u[p + i - 1] = s[i]
  BY AtMeans
<1>3. n + p + Len(s) - 1 <= Len(q) <=> p + Len(s) - 1 <= Len(u)
  BY <1>0
<1>4. ASSUME p + Len(s) - 1 <= Len(u), NEW i \in 1..Len(s)
      PROVE  q[n + p + i - 1] = u[p + i - 1]
  <2>1. p + i - 1 \in 1..Len(u) /\ n + p + i - 1 = n + (p + i - 1)
    BY <1>0, <1>4
  <2> QED
    BY <2>1 DEF Behind
<1> QED
  BY <1>1, <1>2, <1>3, <1>4

(* The loops behind another text. *)
LEMMA SpanBehind ==
  ASSUME NEW q \in Text, NEW u \in Text, NEW n \in Nat, Behind(q, n, u),
         NEW S, NEW p \in 1..Len(u) + 1, NEW e, NEW f,
         Span(u, p, S, e), Span(q, n + p, S, f)
  PROVE  f = n + e
<1>0. Len(u) \in Nat /\ e \in Nat /\ p \in Nat /\ Len(q) = n + Len(u)
      /\ Len(q) \in Nat /\ n + p \in 1..Len(q) + 1
  BY DEF Text, Span, Behind
<1>3. /\ e \in p..Len(u) + 1
      /\ e = Len(u) + 1 \/ u[e] \notin S
      /\ \A i \in p..e - 1 : u[i] \in S
  BY DEF Span
<1>4. ASSUME NEW j \in n + p..n + e - 1 PROVE q[j] \in S
  <2>1. j - n \in p..e - 1 /\ j - n \in 1..Len(u) /\ n + (j - n) = j
    BY <1>0, <1>3
  <2> QED
    BY <1>3, <2>1 DEF Behind
<1>5. n + e = Len(q) + 1 \/ q[n + e] \notin S
  <2>1. CASE e = Len(u) + 1
    BY <1>0, <2>1
  <2>2. CASE e # Len(u) + 1
    <3>1. e \in 1..Len(u)
      BY <1>0, <1>3, <2>2
    <3> QED
      BY <1>3, <2>2, <3>1 DEF Behind
  <2> QED
    BY <2>1, <2>2
<1>6. n + e \in n + p..Len(q) + 1
  BY <1>0, <1>3
<1>7. Span(q, n + p, S, n + e)
  BY <1>4, <1>5, <1>6 DEF Span
<1> QED
  BY <1>0, <1>7, SpanUnique

(* A set of numbers has a least one. *)
LEMMA LeastExists ==
  ASSUME NEW T \in SUBSET Nat, T # {}
  PROVE  \E e \in T : \A f \in T : e <= f
<1> DEFINE S == {n \in Nat : \A f \in T : n <= f}
<1>1. SUFFICES ASSUME ~ \E e \in T : \A f \in T : e <= f PROVE FALSE
  OBVIOUS
<1>2. 0 \in S
  OBVIOUS
<1>3. ASSUME NEW n \in Nat, n \in S PROVE n + 1 \in S
  BY <1>1, <1>3
<1>4. PICK f : f \in T
  OBVIOUS
<1> HIDE DEF S
<1>5. f + 1 \in S
  BY <1>2, <1>3, <1>4, NatSetInduction
<1> QED
  BY <1>4, <1>5 DEF S

(* The end marks of a comment at p, and where the scan goes on. *)
Marks(q, p) == {e \in p + 2..Len(q) : At(q, e, <<"*", "/">>)}

GoesOnAt(q, p, e) ==
  \/ Marks(q, p) = {} /\ e = Len(q) + 1
  \/ e - 2 \in Marks(q, p) /\ \A f \in Marks(q, p) : e - 2 <= f

(* AfterComment is that place. *)
LEMMA AfterCommentIs ==
  ASSUME NEW q \in Text, NEW p \in Nat
  PROVE  /\ AfterComment(q, p) \in Nat /\ GoesOnAt(q, p, AfterComment(q, p))
         /\ p <= Len(q) => AfterComment(q, p) \in p + 1..Len(q) + 1
<1>0. Len(q) \in Nat /\ <<"*", "/">> \in Text /\ Len(<<"*", "/">>) = 2
  BY MarksAreTexts DEF Text
<1>1. CASE Marks(q, p) = {}
  <2>1. AfterComment(q, p) = Len(q) + 1
    BY <1>1 DEF AfterComment, Marks
  <2> QED
    BY <1>0, <1>1, <2>1 DEF GoesOnAt
<1>2. CASE Marks(q, p) # {}
  <2> DEFINE M == Marks(q, p)
             m == CHOOSE e \in M : \A f \in M : e <= f
  <2>1. M \in SUBSET Nat
    BY <1>0 DEF Marks
  <2>2. m \in M /\ \A f \in M : m <= f
    <3> HIDE DEF M
    <3>1. \E e \in M : \A f \in M : e <= f
      BY <1>2, <2>1, LeastExists DEF M
    <3> QED
      BY <3>1, Zenon
  <2>3. AfterComment(q, p) = m + 2
    BY <1>2, Zenon DEF AfterComment, Marks
  <2>4. m \in Nat /\ m \in p + 2..Len(q) /\ At(q, m, <<"*", "/">>)
    BY <2>1, <2>2 DEF Marks
  <2>5. m + 1 <= Len(q)
    <3>1. m \in Nat \ {0}
      <4> HIDE DEF m
      <4> QED
        BY <1>0, <2>4
    <3>2. m + Len(<<"*", "/">>) - 1 <= Len(q)
      BY <1>0, <2>4, <3>1, AtMeans
    <3> QED
      BY <1>0, <2>4, <3>2
  <2> HIDE DEF m, M
  <2>6. AfterComment(q, p) - 2 = m
    BY <2>3, <2>4
  <2>7. GoesOnAt(q, p, AfterComment(q, p))
    BY <2>2, <2>6 DEF GoesOnAt, M
  <2> QED
    BY <1>0, <2>3, <2>4, <2>5, <2>7
<1> QED
  BY <1>1, <1>2

(* There is one such place. *)
LEMMA GoesOnAtOne ==
  ASSUME NEW q \in Text, NEW p \in Nat, NEW e \in Nat, GoesOnAt(q, p, e)
  PROVE  AfterComment(q, p) = e
<1>1. AfterComment(q, p) \in Nat /\ GoesOnAt(q, p, AfterComment(q, p))
  BY AfterCommentIs
<1>2. Len(q) \in Nat
  BY DEF Text
<1> QED
  BY <1>1, <1>2 DEF GoesOnAt

(* A comment behind another text. *)
LEMMA CommentShift ==
  ASSUME NEW q \in Text, NEW u \in Text, NEW n \in Nat, Behind(q, n, u),
         NEW p \in Nat \ {0}
  PROVE  AfterComment(q, n + p) = n + AfterComment(u, p)
<1>0. Len(u) \in Nat /\ Len(q) = n + Len(u) /\ n + p \in Nat
      /\ <<"*", "/">> \in Text /\ <<"*", "/">> # <<>>
  BY MarksAreTexts DEF Text, Behind
<1>1. PICK e \in Nat : e = AfterComment(u, p) /\ GoesOnAt(u, p, e)
  BY AfterCommentIs
<1>2. ASSUME NEW f \in Nat PROVE n + f \in Marks(q, n + p) <=> f \in Marks(u, p)
  <2>1. n + f \in n + p + 2..Len(q) <=> f \in p + 2..Len(u)
    BY <1>0
  <2>2. CASE f \in p + 2..Len(u)
    <3>1. f \in Nat \ {0}
      BY <2>2
    <3>2. At(q, n + f, <<"*", "/">>) <=> At(u, f, <<"*", "/">>)
      BY <1>0, <3>1, AtShift
    <3> QED
      BY <2>1, <3>2 DEF Marks
  <2> QED
    BY <2>1, <2>2 DEF Marks
<1>3. ASSUME NEW g \in Marks(q, n + p)
      PROVE  g \in Nat /\ g - n \in Nat /\ n + (g - n) = g /\ g - n \in Marks(u, p)
  <2>1. g \in n + p + 2..Len(q)
    BY DEF Marks
  <2>2. g \in Nat /\ g - n \in Nat /\ n + (g - n) = g
    BY <1>0, <2>1
  <2> QED
    BY <1>2, <2>2
<1>4. GoesOnAt(q, n + p, n + e)
  <2>1. CASE Marks(u, p) = {} /\ e = Len(u) + 1
    <3>1. Marks(q, n + p) = {}
      BY <1>3, <2>1
    <3> QED
      BY <1>0, <2>1, <3>1 DEF GoesOnAt
  <2>2. CASE e - 2 \in Marks(u, p) /\ \A f \in Marks(u, p) : e - 2 <= f
    <3>1. e - 2 \in Nat /\ n + (e - 2) = n + e - 2
      BY <2>2 DEF Marks
    <3>2. n + e - 2 \in Marks(q, n + p)
      BY <1>2, <2>2, <3>1
    <3>3. ASSUME NEW g \in Marks(q, n + p) PROVE n + e - 2 <= g
      BY <1>3, <2>2, <3>1
    <3> QED
      BY <3>2, <3>3 DEF GoesOnAt
  <2> QED
    BY <1>1, <2>1, <2>2 DEF GoesOnAt
<1> QED
  BY <1>0, <1>1, <1>4, GoesOnAtOne

-----------------------------------------------------------------------------
(* The loop at the head of extract_command.                                *)

(* The begin marks. *)
Opens(q, p) == At(q, p, <<"/", "*">>)

OpensCode(q, p) == At(q, p, <<"/", "*", "!">>)

OpensMariaCode(q, p) == At(q, p, <<"/", "*", "M", "!">>)

OpensLine(q, p) ==
  \/ q[p] = "#"
  \/ At(q, p, <<"-", "-">>) /\ (p + 1 = Len(q) \/ is_space(q[p + 2]))

(* A mark of two, three or four symbols. *)
LEMMA AtShort ==
  ASSUME NEW q \in Text, NEW p \in Nat \ {0}, NEW a \in Symbol, NEW b \in Symbol,
         NEW c \in Symbol, NEW d \in Symbol
  PROVE  /\ At(q, p, <<a, b>>) <=> p + 1 <= Len(q) /\ q[p] = a /\ q[p + 1] = b
         /\ At(q, p, <<a, b, c>>) <=>
              p + 2 <= Len(q) /\ q[p] = a /\ q[p + 1] = b /\ q[p + 2] = c
         /\ At(q, p, <<a, b, c, d>>) <=>
              /\ p + 3 <= Len(q) /\ q[p] = a /\ q[p + 1] = b
              /\ q[p + 2] = c /\ q[p + 3] = d
<1>1. At(q, p, <<a, b>>) <=>
        /\ p + 1 <= Len(q)
        /\ q[p] = a /\ q[p + 1] = b
  <2>0. <<a, b>> \in Text
    BY DEF Text
  <2>1. PICK s \in Text : s = <<a, b>>
    BY <2>0
  <2>2. Len(s) = 2 /\ s[1] = a /\ s[2] = b
    BY <2>1
  <2>3. At(q, p, s) <=> /\ p + 2 - 1 <= Len(q)
                        /\ \A i \in 1..2 : q[p + i - 1] = s[i]
    <3>1. At(q, p, s) <=> /\ p + Len(s) - 1 <= Len(q)
                          /\ \A i \in 1..Len(s) : q[p + i - 1] = s[i]
      BY AtMeans
    <3>2. Len(s) = 2
      BY <2>2
    <3> QED
      BY <3>1, <3>2, Zenon
  <2>4. p + 1 - 1 = p /\ p + 2 - 1 = p + 1
    OBVIOUS
  <2>5. (\A i \in 1..2 : q[p + i - 1] = s[i]) <=>
        q[p + 1 - 1] = s[1] /\ q[p + 2 - 1] = s[2]
    <3>1. \A i \in 1..2 : i = 1 \/ i = 2
      OBVIOUS
    <3>2. 1 \in 1..2 /\ 2 \in 1..2
      OBVIOUS
    <3> QED
      BY <3>1, <3>2, Zenon
  <2> QED
    BY <2>1, <2>2, <2>3, <2>4, <2>5
<1>2. At(q, p, <<a, b, c>>) <=>
        /\ p + 2 <= Len(q)
        /\ q[p] = a /\ q[p + 1] = b /\ q[p + 2] = c
  <2>0. <<a, b, c>> \in Text
    BY DEF Text
  <2>1. PICK s \in Text : s = <<a, b, c>>
    BY <2>0
  <2>2. Len(s) = 3 /\ s[1] = a /\ s[2] = b /\ s[3] = c
    BY <2>1
  <2>3. At(q, p, s) <=> /\ p + 3 - 1 <= Len(q)
                        /\ \A i \in 1..3 : q[p + i - 1] = s[i]
    <3>1. At(q, p, s) <=> /\ p + Len(s) - 1 <= Len(q)
                          /\ \A i \in 1..Len(s) : q[p + i - 1] = s[i]
      BY AtMeans
    <3>2. Len(s) = 3
      BY <2>2
    <3> QED
      BY <3>1, <3>2, Zenon
  <2>4. p + 1 - 1 = p /\ p + 2 - 1 = p + 1 /\ p + 3 - 1 = p + 2
    OBVIOUS
  <2>5. (\A i \in 1..3 : q[p + i - 1] = s[i]) <=>
        q[p + 1 - 1] = s[1] /\ q[p + 2 - 1] = s[2] /\ q[p + 3 - 1] = s[3]
    <3>1. \A i \in 1..3 : i = 1 \/ i = 2 \/ i = 3
      OBVIOUS
    <3>2. 1 \in 1..3 /\ 2 \in 1..3 /\ 3 \in 1..3
      OBVIOUS
    <3> QED
      BY <3>1, <3>2, Zenon
  <2> QED
    BY <2>1, <2>2, <2>3, <2>4, <2>5
<1>3. At(q, p, <<a, b, c, d>>) <=>
        /\ p + 3 <= Len(q)
        /\ q[p] = a /\ q[p + 1] = b /\ q[p + 2] = c /\ q[p + 3] = d
  <2>0. <<a, b, c, d>> \in Text
    BY DEF Text
  <2>1. PICK s \in Text : s = <<a, b, c, d>>
    BY <2>0
  <2>2. Len(s) = 4 /\ s[1] = a /\ s[2] = b /\ s[3] = c /\ s[4] = d
    BY <2>1
  <2>3. At(q, p, s) <=> /\ p + 4 - 1 <= Len(q)
                        /\ \A i \in 1..4 : q[p + i - 1] = s[i]
    <3>1. At(q, p, s) <=> /\ p + Len(s) - 1 <= Len(q)
                          /\ \A i \in 1..Len(s) : q[p + i - 1] = s[i]
      BY AtMeans
    <3>2. Len(s) = 4
      BY <2>2
    <3> QED
      BY <3>1, <3>2, Zenon
  <2>4. p + 1 - 1 = p /\ p + 2 - 1 = p + 1 /\ p + 3 - 1 = p + 2 /\ p + 4 - 1 = p + 3
    OBVIOUS
  <2>5. (\A i \in 1..4 : q[p + i - 1] = s[i]) <=>
        q[p + 1 - 1] = s[1] /\ q[p + 2 - 1] = s[2] /\ q[p + 3 - 1] = s[3] /\ q[p + 4 - 1] = s[4]
    <3>1. \A i \in 1..4 : i = 1 \/ i = 2 \/ i = 3 \/ i = 4
      OBVIOUS
    <3>2. 1 \in 1..4 /\ 2 \in 1..4 /\ 3 \in 1..4 /\ 4 \in 1..4
      OBVIOUS
    <3> QED
      BY <3>1, <3>2, Zenon
  <2> QED
    BY <2>1, <2>2, <2>3, <2>4, <2>5
<1> QED
  BY <1>1, <1>2, <1>3

(* What the marks at a position say of the characters there. *)
LEMMA MarkLengths ==
  ASSUME NEW q \in Text, NEW p \in 1..Len(q)
  PROVE  /\ OpensCode(q, p) <=> p + 2 <= Len(q) /\ q[p] = "/" /\ q[p + 1] = "*"
                                 /\ q[p + 2] = "!"
         /\ OpensMariaCode(q, p) <=>
              p + 3 <= Len(q) /\ q[p] = "/" /\ q[p + 1] = "*" /\ q[p + 2] = "M"
              /\ q[p + 3] = "!"
         /\ Opens(q, p) <=> p + 1 <= Len(q) /\ q[p] = "/" /\ q[p + 1] = "*"
         /\ At(q, p, <<"-", "-">>) <=>
              p + 1 <= Len(q) /\ q[p] = "-" /\ q[p + 1] = "-"
         /\ At(q, p, <<"*", "/">>) <=>
              p + 1 <= Len(q) /\ q[p] = "*" /\ q[p + 1] = "/"
<1>0. p \in Nat \ {0}
  BY DEF Text
<1>1. "/" \in Symbol /\ "*" \in Symbol /\ "!" \in Symbol /\ "M" \in Symbol
      /\ "-" \in Symbol
  BY Symbols
<1>2. At(q, p, <<"/", "*", "!">>) <=> p + 2 <= Len(q) /\ q[p] = "/"
                                      /\ q[p + 1] = "*" /\ q[p + 2] = "!"
  BY <1>0, <1>1, AtShort, Zenon
<1>3. At(q, p, <<"/", "*", "M", "!">>) <=>
        p + 3 <= Len(q) /\ q[p] = "/" /\ q[p + 1] = "*" /\ q[p + 2] = "M"
        /\ q[p + 3] = "!"
  <2>1. PICK a \in Symbol, b \in Symbol, c \in Symbol, d \in Symbol :
          a = "/" /\ b = "*" /\ c = "M" /\ d = "!"
    BY <1>1
  <2>2. At(q, p, <<a, b, c, d>>) <=>
          /\ p + 3 <= Len(q) /\ q[p] = a /\ q[p + 1] = b
          /\ q[p + 2] = c /\ q[p + 3] = d
    BY <1>0, AtShort
  <2> QED
    BY <2>1, <2>2, Zenon
<1>4. At(q, p, <<"/", "*">>) <=> p + 1 <= Len(q) /\ q[p] = "/" /\ q[p + 1] = "*"
  BY <1>0, <1>1, AtShort, Zenon
<1>5. At(q, p, <<"-", "-">>) <=> p + 1 <= Len(q) /\ q[p] = "-" /\ q[p + 1] = "-"
  BY <1>0, <1>1, AtShort, Zenon
<1>6. At(q, p, <<"*", "/">>) <=> p + 1 <= Len(q) /\ q[p] = "*" /\ q[p + 1] = "/"
  BY <1>0, <1>1, AtShort, Zenon
<1> QED
  BY <1>2, <1>3, <1>4, <1>5, <1>6 DEF Opens, OpensCode, OpensMariaCode

(* The cases of LeadNext exclude each other: which one applies. *)
LEMMA LeadCases ==
  ASSUME NEW q \in Text, NEW p \in 1..Len(q)
  PROVE  /\ q[p] \in Space \union {"("} => LeadNext(q, p) = p + 1
         /\ OpensCode(q, p) =>
              LeadNext(q, p) = SkipWhile(q, p + 3, LAMBDA c : c \in Digit)
         /\ OpensMariaCode(q, p) =>
              LeadNext(q, p) = SkipWhile(q, p + 4, LAMBDA c : c \in Digit)
         /\ Opens(q, p) /\ ~OpensCode(q, p) /\ ~OpensMariaCode(q, p) =>
              LeadNext(q, p) = AfterComment(q, p)
         /\ OpensLine(q, p) =>
              LeadNext(q, p) = SkipWhile(q, p, LAMBDA c : c # "\n")
         /\ /\ q[p] \notin Space \union {"("} /\ ~OpensCode(q, p)
            /\ ~OpensMariaCode(q, p) /\ ~Opens(q, p) /\ ~OpensLine(q, p)
            => LeadNext(q, p) = p
<1> DEFINE A == is_space(q[p]) \/ q[p] = "("
           B == OpensCode(q, p)
           C == OpensMariaCode(q, p)
           D == Opens(q, p) /\ ~OpensCode(q, p) /\ ~OpensMariaCode(q, p)
           E == OpensLine(q, p)
           b == SkipWhile(q, p + 3, LAMBDA c : c \in Digit)
           c_ == SkipWhile(q, p + 4, LAMBDA c : c \in Digit)
           d == AfterComment(q, p)
           e == SkipWhile(q, p, LAMBDA c : c # "\n")
<1>1. LeadNext(q, p) = CASE A -> p + 1 [] B -> b [] C -> c_ [] D -> d [] E -> e
                         [] OTHER -> p
  BY DEF LeadNext, Opens, OpensCode, OpensMariaCode, OpensLine
<1>2. /\ A <=> q[p] \in Space \union {"("}
      /\ B => q[p] = "/" /\ q[p + 2] = "!"
      /\ C => q[p] = "/" /\ q[p + 2] = "M"
      /\ D => q[p] = "/"
      /\ E => q[p] \in {"#", "-"}
  BY MarkLengths DEF OpensLine, is_space
<1>3. /\ ~(A /\ B) /\ ~(A /\ C) /\ ~(A /\ D) /\ ~(A /\ E)
      /\ ~(B /\ C) /\ ~(B /\ D) /\ ~(B /\ E) /\ ~(C /\ D) /\ ~(C /\ E) /\ ~(D /\ E)
  BY <1>2 DEF Space
<1> HIDE DEF b, c_, d, e, A, B, C, D, E
<1>4. /\ A => LeadNext(q, p) = p + 1
      /\ B => LeadNext(q, p) = b
      /\ C => LeadNext(q, p) = c_
      /\ D => LeadNext(q, p) = d
      /\ E => LeadNext(q, p) = e
      /\ ~A /\ ~B /\ ~C /\ ~D /\ ~E => LeadNext(q, p) = p
  BY <1>1, <1>3
<1> QED
  BY <1>2, <1>4 DEF b, c_, d, e, B, C, D, E

(* A turn of the loop goes on, or stays where the statement begins. *)
LEMMA LeadGoesOn ==
  ASSUME NEW q \in Text, NEW p \in 1..Len(q)
  PROVE  LeadNext(q, p) \in p..Len(q) + 1
<1>0. Len(q) \in Nat /\ p \in Nat
  BY DEF Text
<1>1. CASE q[p] \in Space \union {"("}
  <2>1. LeadNext(q, p) = p + 1
    BY <1>1, LeadCases
  <2> QED
    BY <1>0, <2>1
<1>2. CASE OpensCode(q, p)
  <2>1. p + 2 <= Len(q)
    BY <1>2, MarkLengths
  <2>2. p + 3 \in 1..Len(q) + 1
    BY <1>0, <2>1
  <2>3. Span(q, p + 3, Digit, LeadNext(q, p))
    BY <1>2, <2>2, LeadCases, SkipWhileIsSpan
  <2> QED
    BY <1>0, <2>3 DEF Span
<1>3. CASE OpensMariaCode(q, p)
  <2>1. p + 3 <= Len(q)
    BY <1>3, MarkLengths
  <2>2. p + 4 \in 1..Len(q) + 1
    BY <1>0, <2>1
  <2>3. Span(q, p + 4, Digit, LeadNext(q, p))
    BY <1>3, <2>2, LeadCases, SkipWhileIsSpan
  <2> QED
    BY <1>0, <2>3 DEF Span
<1>4. CASE Opens(q, p) /\ ~OpensCode(q, p) /\ ~OpensMariaCode(q, p)
  <2>1. LeadNext(q, p) = AfterComment(q, p)
    BY <1>4, LeadCases
  <2>2. AfterComment(q, p) \in p + 1..Len(q) + 1
    BY <1>0, AfterCommentIs
  <2> QED
    BY <1>0, <2>1, <2>2
<1>5. CASE OpensLine(q, p)
  <2>1. p \in 1..Len(q) + 1
    BY <1>0
  <2>2. Span(q, p, NoNewline, LeadNext(q, p))
    BY <1>5, <2>1, LeadCases, SkipWhileIsSpan
  <2> QED
    BY <2>2 DEF Span
<1>6. CASE /\ q[p] \notin Space \union {"("} /\ ~OpensCode(q, p)
           /\ ~OpensMariaCode(q, p) /\ ~Opens(q, p) /\ ~OpensLine(q, p)
  <2>1. LeadNext(q, p) = p
    BY <1>6, LeadCases
  <2> QED
    BY <1>0, <2>1
<1> QED
  BY <1>1, <1>2, <1>3, <1>4, <1>5, <1>6

(* A turn of the loop behind another text. *)
LEMMA LeadShift ==
  ASSUME NEW q \in Text, NEW u \in Text, NEW n \in Nat, Behind(q, n, u),
         NEW p \in 1..Len(u)
  PROVE  LeadNext(q, n + p) = n + LeadNext(u, p)
<1>0. /\ Len(u) \in Nat /\ Len(q) = n + Len(u) /\ p \in Nat \ {0} /\ p <= Len(u)
      /\ n + p \in 1..Len(q) /\ q[n + p] = u[p]
  BY DEF Text, Behind
<1>1. /\ OpensCode(q, n + p) <=> OpensCode(u, p)
      /\ OpensMariaCode(q, n + p) <=> OpensMariaCode(u, p)
      /\ Opens(q, n + p) <=> Opens(u, p)
      /\ At(q, n + p, <<"-", "-">>) <=> At(u, p, <<"-", "-">>)
  <2>1. /\ <<"/", "*", "!">> # <<>> /\ <<"/", "*", "M", "!">> # <<>>
        /\ <<"/", "*">> # <<>> /\ <<"-", "-">> # <<>>
    OBVIOUS
  <2>2. \A s \in Text : s # <<>> => (At(q, n + p, s) <=> At(u, p, s))
    BY <1>0, AtShift
  <2> QED
    BY <2>1, <2>2, MarksAreTexts, Zenon DEF OpensCode, OpensMariaCode, Opens
<1>2. OpensLine(q, n + p) <=> OpensLine(u, p)
  <2>1. ASSUME At(u, p, <<"-", "-">>)
        PROVE  \/ n + p + 1 = Len(q) /\ p + 1 = Len(u)
               \/ /\ n + p + 1 # Len(q) /\ p + 1 # Len(u)
                  /\ q[n + p + 2] = u[p + 2]
    <3>1. p + 1 <= Len(u)
      BY <2>1, MarkLengths
    <3>2. CASE p + 1 = Len(u)
      BY <1>0, <3>2
    <3>3. CASE p + 1 # Len(u)
      <4>1. p + 2 \in 1..Len(u) /\ n + p + 2 = n + (p + 2)
            /\ n + p + 1 # Len(q)
        BY <1>0, <3>1, <3>3
      <4> QED
        BY <3>3, <4>1 DEF Behind
    <3> QED
      BY <3>2, <3>3
  <2> QED
    BY <1>0, <1>1, <2>1 DEF OpensLine
<1>3. CASE u[p] \in Space \union {"("}
  <2>1. LeadNext(q, n + p) = n + p + 1 /\ LeadNext(u, p) = p + 1
    BY <1>0, <1>3, LeadCases
  <2> QED
    BY <1>0, <2>1
<1>4. CASE OpensCode(u, p)
  <2>1. p + 3 \in 1..Len(u) + 1
    BY <1>0, <1>4, MarkLengths
  <2>2. n + (p + 3) \in 1..Len(q) + 1 /\ n + (p + 3) = n + p + 3
    BY <1>0, <2>1
  <2>3. Span(u, p + 3, Digit, LeadNext(u, p))
    BY <1>4, <2>1, LeadCases, SkipWhileIsSpan
  <2>4. Span(q, n + (p + 3), Digit, LeadNext(q, n + p))
    BY <1>0, <1>1, <1>4, <2>2, LeadCases, SkipWhileIsSpan
  <2> QED
    BY <2>1, <2>3, <2>4, SpanBehind
<1>5. CASE OpensMariaCode(u, p)
  <2>1. p + 4 \in 1..Len(u) + 1
    BY <1>0, <1>5, MarkLengths
  <2>2. n + (p + 4) \in 1..Len(q) + 1 /\ n + (p + 4) = n + p + 4
    BY <1>0, <2>1
  <2>3. Span(u, p + 4, Digit, LeadNext(u, p))
    BY <1>5, <2>1, LeadCases, SkipWhileIsSpan
  <2>4. Span(q, n + (p + 4), Digit, LeadNext(q, n + p))
    BY <1>0, <1>1, <1>5, <2>2, LeadCases, SkipWhileIsSpan
  <2> QED
    BY <2>1, <2>3, <2>4, SpanBehind
<1>6. CASE Opens(u, p) /\ ~OpensCode(u, p) /\ ~OpensMariaCode(u, p)
  <2>1. /\ LeadNext(q, n + p) = AfterComment(q, n + p)
        /\ LeadNext(u, p) = AfterComment(u, p)
    BY <1>0, <1>1, <1>6, LeadCases
  <2> QED
    BY <1>0, <2>1, CommentShift
<1>7. CASE OpensLine(u, p)
  <2>1. p \in 1..Len(u) + 1 /\ n + p \in 1..Len(q) + 1
    BY <1>0
  <2>2. Span(u, p, NoNewline, LeadNext(u, p))
    BY <1>7, <2>1, LeadCases, SkipWhileIsSpan
  <2>3. Span(q, n + p, NoNewline, LeadNext(q, n + p))
    BY <1>0, <1>2, <1>7, <2>1, LeadCases, SkipWhileIsSpan
  <2> QED
    BY <2>1, <2>2, <2>3, SpanBehind
<1>8. CASE /\ u[p] \notin Space \union {"("} /\ ~OpensCode(u, p)
           /\ ~OpensMariaCode(u, p) /\ ~Opens(u, p) /\ ~OpensLine(u, p)
  <2>1. LeadNext(q, n + p) = n + p /\ LeadNext(u, p) = p
    BY <1>0, <1>1, <1>2, <1>8, LeadCases
  <2> QED
    BY <2>1
<1> QED
  BY <1>3, <1>4, <1>5, <1>6, <1>7, <1>8

(* The loop is a function of the position it is at, from the end back. *)
IsLead(f, q, D) ==
  f = [p \in D |-> IF p > Len(q) \/ LeadNext(q, p) = p THEN p
                   ELSE f[LeadNext(q, p)]]

(* There is such a function, and SkipLead is its value at the beginning. *)
LEMMA LeadExists ==
  ASSUME NEW q \in Text
  PROVE  \E f : IsLead(f, q, 1..Len(q) + 1) /\ SkipLead(q) = f[1]
<1>0. PICK K \in Nat : K = Len(q) + 1 /\ K >= 1 /\ Len(q) \in Nat
  BY DEF Text
<1> DEFINE S == {d \in Nat : d <= K => \E f : IsLead(f, q, (K + 1 - d)..K)}
<1>1. 0 \in S
  <2>1. (K + 1 - 0)..K = {}
    OBVIOUS
  <2> DEFINE f == [p \in {} |-> 0]
  <2>2. f = [p \in {} |-> IF p > Len(q) \/ LeadNext(q, p) = p THEN p
                          ELSE f[LeadNext(q, p)]]
    OBVIOUS
  <2> HIDE DEF f
  <2>3. IsLead(f, q, (K + 1 - 0)..K)
    BY <2>1, <2>2 DEF IsLead
  <2> QED
    BY <2>3
<1>2. ASSUME NEW d \in Nat, d \in S PROVE d + 1 \in S
  <2> SUFFICES ASSUME d + 1 <= K
               PROVE  \E f : IsLead(f, q, (K + 1 - (d + 1))..K)
    OBVIOUS
  <2>1. PICK lo \in 1..K : lo = K + 1 - (d + 1) /\ lo + 1 = K + 1 - d
    OBVIOUS
  <2>2. PICK f : IsLead(f, q, (lo + 1)..K)
    BY <1>2, <2>1
  <2> DEFINE Value(g, p) == IF p > Len(q) \/ LeadNext(q, p) = p THEN p
                            ELSE g[LeadNext(q, p)]
             g == [p \in lo..K |-> IF p = lo THEN Value(f, lo) ELSE f[p]]
  <2>3. ASSUME NEW p \in lo..K PROVE g[p] = Value(g, p)
    <3>1. Value(g, p) = Value(f, p)
      <4>1. CASE p > Len(q) \/ LeadNext(q, p) = p
        BY <4>1
      <4>2. CASE ~(p > Len(q) \/ LeadNext(q, p) = p)
        <5>1. p \in 1..Len(q)
          BY <1>0, <4>2
        <5>2. LeadNext(q, p) \in p..K /\ LeadNext(q, p) # p
          BY <1>0, <4>2, <5>1, LeadGoesOn
        <5>3. LeadNext(q, p) \in lo..K /\ LeadNext(q, p) # lo
          BY <5>2
        <5>4. g[LeadNext(q, p)] = f[LeadNext(q, p)]
          BY <5>3
        <5> HIDE DEF g
        <5> QED
          BY <5>4
      <4> QED
        BY <4>1, <4>2
    <3>2. CASE p = lo
      <4>1. g[p] = Value(f, p)
        BY <3>2
      <4> QED
        BY <3>1, <4>1
    <3>3. CASE p # lo
      <4>1. p \in (lo + 1)..K /\ g[p] = f[p]
        BY <3>3
      <4>2. f[p] = Value(f, p)
        BY <2>2, <4>1 DEF IsLead
      <4> QED
        BY <3>1, <4>1, <4>2
    <3> QED
      BY <3>2, <3>3
  <2>4. g = [p \in lo..K |-> g[p]]
    OBVIOUS
  <2> HIDE DEF g
  <2>5. IsLead(g, q, lo..K)
    BY <2>3, <2>4 DEF IsLead
  <2> QED
    BY <2>1, <2>5
<1> HIDE DEF S
<1>3. K \in S
  BY <1>1, <1>2, NatSetInduction
<1>4. \E f : IsLead(f, q, (K + 1 - K)..K)
  BY <1>3 DEF S
<1>5. K + 1 - K = 1
  OBVIOUS
<1>6. \E f : IsLead(f, q, 1..Len(q) + 1)
  BY <1>0, <1>4, <1>5
<1> DEFINE from == CHOOSE f : IsLead(f, q, 1..Len(q) + 1)
<1>7. IsLead(from, q, 1..Len(q) + 1)
  BY <1>6
<1>8. SkipLead(q) = from[1]
  BY Zenon DEF SkipLead, IsLead
<1> HIDE DEF from
<1> QED
  BY <1>7, <1>8

(* The loop behind another text: from the same place on it is the same. *)
LEMMA LeadLoopShift ==
  ASSUME NEW q \in Text, NEW u \in Text, NEW n \in Nat, Behind(q, n, u),
         NEW f, IsLead(f, q, 1..Len(q) + 1), NEW g, IsLead(g, u, 1..Len(u) + 1)
  PROVE  /\ f[n + 1] = n + g[1]
         /\ g[1] \in 1..Len(u) + 1
<1>0. PICK K \in Nat : K = Len(u) + 1 /\ K >= 1 /\ Len(u) \in Nat
                       /\ Len(q) + 1 = n + K /\ Len(q) = n + Len(u)
  BY DEF Text, Behind
<1> DEFINE Same(i) == f[n + i] = n + g[i] /\ g[i] \in 1..K
           S == {d \in Nat : \A i \in (K + 1 - d)..K : i >= 1 => Same(i)}
<1>1. 0 \in S
  <2>1. (K + 1 - 0)..K = {}
    OBVIOUS
  <2> QED
    BY <2>1
<1>2. ASSUME NEW d \in Nat, d \in S PROVE d + 1 \in S
  <2> SUFFICES ASSUME NEW i \in (K + 1 - (d + 1))..K, i >= 1 PROVE Same(i)
    OBVIOUS
  <2>1. CASE i # K + 1 - (d + 1)
    <3>1. i \in (K + 1 - d)..K
      BY <2>1
    <3> QED
      BY <1>2, <3>1
  <2>2. CASE i = K + 1 - (d + 1)
    <3>0. i \in 1..K /\ i \in 1..Len(u) + 1 /\ n + i \in 1..Len(q) + 1 /\ i \in Nat
      BY <1>0
    <3>1. /\ g[i] = IF i > Len(u) \/ LeadNext(u, i) = i THEN i
                    ELSE g[LeadNext(u, i)]
          /\ f[n + i] = IF n + i > Len(q) \/ LeadNext(q, n + i) = n + i THEN n + i
                        ELSE f[LeadNext(q, n + i)]
      BY <3>0 DEF IsLead
    <3>2. CASE i > Len(u)
      BY <1>0, <3>0, <3>1, <3>2
    <3>3. CASE ~(i > Len(u))
      <4>1. i \in 1..Len(u) /\ ~(n + i > Len(q))
        BY <1>0, <3>0, <3>3
      <4>2. PICK m \in i..K : m = LeadNext(u, i) /\ LeadNext(q, n + i) = n + m
        BY <1>0, <4>1, LeadGoesOn, LeadShift
      <4>3. CASE m = i
        BY <3>0, <3>1, <4>2, <4>3
      <4>4. CASE m # i
        <5>1. m \in (K + 1 - d)..K /\ m >= 1 /\ n + m # n + i
          BY <2>2, <4>4, <3>0
        <5>2. Same(m)
          BY <1>2, <5>1
        <5>3. g[i] = g[m] /\ f[n + i] = f[n + m]
          BY <3>1, <3>3, <4>1, <4>2, <4>4, <5>1
        <5> QED
          BY <5>2, <5>3
      <4> QED
        BY <4>3, <4>4
    <3> QED
      BY <3>2, <3>3
  <2> QED
    BY <2>1, <2>2
<1> HIDE DEF S
<1>3. K \in S
  BY <1>1, <1>2, NatSetInduction
<1>4. 1 \in (K + 1 - K)..K
  BY <1>0
<1>5. Same(1)
  BY <1>3, <1>4 DEF S
<1> QED
  BY <1>0, <1>5

(* What a turn of the loop passes is passed. *)
LEMMA LeadPasses ==
  ASSUME NEW q \in Text, NEW u \in Text, NEW n \in Nat, Behind(q, n, u), n > 0,
         \/ LeadNext(q, 1) = n + 1
         \/ \E m \in 2..n : LeadNext(q, 1) = m /\ LeadNext(q, m) = n + 1
  PROVE  SkipLead(q) = n + SkipLead(u) /\ SkipLead(u) \in 1..Len(u) + 1
<1>0. Len(q) = n + Len(u) /\ Len(u) \in Nat /\ 1 \in 1..Len(q)
  BY DEF Text, Behind
<1>1. PICK f : IsLead(f, q, 1..Len(q) + 1) /\ SkipLead(q) = f[1]
  BY LeadExists
<1>2. PICK g : IsLead(g, u, 1..Len(u) + 1) /\ SkipLead(u) = g[1]
  BY LeadExists
<1>3. f[n + 1] = n + g[1] /\ g[1] \in 1..Len(u) + 1
  BY <1>1, <1>2, LeadLoopShift
<1>4. ASSUME NEW i \in 1..n, LeadNext(q, i) # i PROVE f[i] = f[LeadNext(q, i)]
  <2>1. i \in 1..Len(q) + 1 /\ ~(i > Len(q))
    BY <1>0
  <2> QED
    BY <1>1, <1>4, <2>1 DEF IsLead
<1>5. f[1] = f[n + 1]
  <2>1. CASE LeadNext(q, 1) = n + 1
    BY <1>4, <2>1
  <2>2. CASE \E m \in 2..n : LeadNext(q, 1) = m /\ LeadNext(q, m) = n + 1
    <3>1. PICK m \in 2..n : LeadNext(q, 1) = m /\ LeadNext(q, m) = n + 1
      BY <2>2
    <3>2. f[1] = f[m] /\ f[m] = f[n + 1]
      BY <1>4, <3>1
    <3> QED
      BY <3>2
  <2> QED
    BY <2>1, <2>2
<1> QED
  BY <1>1, <1>2, <1>3, <1>5

-----------------------------------------------------------------------------
(* What the loop passes, in front of any text.                             *)

NoDigitFirst(u) == Len(u) > 0 => u[1] \notin Digit

Skipped(t) ==
  \A u \in Text : NoDigitFirst(u) => SkipLead(t \o u) = Len(t) + SkipLead(u)

(* The loop stops in the text or at its end. *)
LEMMA SkipLeadIn ==
  ASSUME NEW u \in Text
  PROVE  SkipLead(u) \in 1..Len(u) + 1
<1>1. PICK g : IsLead(g, u, 1..Len(u) + 1) /\ SkipLead(u) = g[1]
  BY LeadExists
<1>2. Behind(u, 0, u)
  BY DEF Behind, Text
<1> QED
  BY <1>1, <1>2, LeadLoopShift

(* A text in front of another has its symbols there. *)
LEMMA InFront ==
  ASSUME NEW t \in Text, NEW u \in Text
  PROVE  \A i \in 1..Len(t) : (t \o u)[i] = t[i]
BY DEF Text

(* Nothing is skipped. *)
LEMMA EmptySkipped == <<>> \in Text /\ Skipped(<<>>)
<1>1. <<>> \in Text /\ Len(<<>>) = 0
  BY DEF Text
<1>2. ASSUME NEW u \in Text
      PROVE  SkipLead(<<>> \o u) = Len(<<>>) + SkipLead(u)
  <2>1. <<>> \o u = u
    BY DEF Text
  <2>2. PICK k \in Nat : k = SkipLead(u)
    BY SkipLeadIn
  <2> QED
    BY <1>1, <2>1, <2>2
<1> QED
  BY <1>1, <1>2, Zenon DEF Skipped

(* One behind the other. *)
LEMMA SkippedBoth ==
  ASSUME NEW s \in Text, NEW t \in Text, Skipped(s), Skipped(t), Len(t) > 0,
         NoDigitFirst(t)
  PROVE  s \o t \in Text /\ Skipped(s \o t)
<1>0. s \o t \in Text /\ Len(s \o t) = Len(s) + Len(t) /\ Len(s) \in Nat
      /\ Len(t) \in Nat
  BY DEF Text
<1>1. ASSUME NEW u \in Text, NoDigitFirst(u)
      PROVE  SkipLead((s \o t) \o u) = Len(s \o t) + SkipLead(u)
  <2>1. t \o u \in Text /\ Len(t \o u) = Len(t) + Len(u) /\ Len(u) \in Nat
    BY DEF Text
  <2>2. (t \o u)[1] = t[1]
    BY <1>0, InFront
  <2>3. NoDigitFirst(t \o u)
    BY <2>2 DEF NoDigitFirst
  <2>4. (s \o t) \o u = s \o (t \o u)
    BY ConcatAssociative DEF Text
  <2>5. SkipLead(s \o (t \o u)) = Len(s) + SkipLead(t \o u)
    BY <2>1, <2>3 DEF Skipped
  <2>6. SkipLead(t \o u) = Len(t) + SkipLead(u)
    BY <1>1 DEF Skipped
  <2>7. SkipLead(u) \in Nat
    BY <2>1, SkipLeadIn
  <2> QED
    BY <1>0, <2>4, <2>5, <2>6, <2>7
<1> QED
  BY <1>0, <1>1 DEF Skipped

(* A text the loop passes in one or two turns is skipped. *)
LEMMA TurnsSkip ==
  ASSUME NEW s \in Text, NEW k \in Nat, Len(s) = k, k > 0,
         \A u \in Text : NoDigitFirst(u) =>
           \/ LeadNext(s \o u, 1) = k + 1
           \/ \E m \in 2..k : /\ LeadNext(s \o u, 1) = m
                              /\ LeadNext(s \o u, m) = k + 1
  PROVE  Skipped(s)
<1>1. ASSUME NEW u \in Text, NoDigitFirst(u)
      PROVE  SkipLead(s \o u) = Len(s) + SkipLead(u)
  <2>1. PICK q \in Text : q = s \o u /\ Behind(q, k, u)
    BY ConcatBehind
  <2>2. \/ LeadNext(q, 1) = k + 1
        \/ \E m \in 2..k : LeadNext(q, 1) = m /\ LeadNext(q, m) = k + 1
    BY <1>1, <2>1
  <2>3. SkipLead(q) = k + SkipLead(u)
    BY <2>1, <2>2, LeadPasses
  <2> QED
    BY <2>1, <2>3
<1> QED
  BY <1>1 DEF Skipped

(* Blanks and parentheses are. *)
LEMMA BlankSkipped ==
  ASSUME NEW c \in Space \union {"("}
  PROVE  <<c>> \in Text /\ Skipped(<<c>>)
<1>1. c \in Symbol
  BY DEF Symbol, Punctuation
<1>2. <<c>> \in Text /\ Len(<<c>>) = 1
  BY <1>1 DEF Text
<1>3. PICK s \in Text, k \in Nat : s = <<c>> /\ Len(s) = k /\ k = 1
  BY <1>2
<1>4. ASSUME NEW u \in Text PROVE LeadNext(s \o u, 1) = k + 1
  <2>1. PICK q \in Text : q = s \o u /\ Behind(q, k, u)
    BY <1>3, ConcatBehind
  <2>2. 1 \in 1..Len(q)
    BY <1>3, <2>1 DEF Behind, Text
  <2>3. q[1] = c
    <3>1. s[1] = c /\ 1 \in 1..Len(s)
      BY <1>3
    <3> QED
      BY <2>1, <3>1, InFront
  <2>4. LeadNext(q, 1) = 1 + 1
    BY <2>2, <2>3, LeadCases
  <2> QED
    BY <1>3, <2>1, <2>4
<1>5. Skipped(s)
  <2>1. k > 0 /\ Len(s) = k
    BY <1>3
  <2> HIDE <1>2, <1>3
  <2> QED
    BY <1>4, <2>1, TurnsSkip
<1> QED
  BY <1>2, <1>3, <1>5

(* So is a block comment: from its begin mark to the first end mark.  It   *)
(* may hold anything, other begin marks too.                               *)
LEMMA BlockSkipped ==
  ASSUME NEW s \in Text, NEW k \in Nat, Len(s) = k, k >= 4,
         s[1] = "/", s[2] = "*", s[3] \notin {"!", "M"},
         s[k - 1] = "*", s[k] = "/",
         \A f \in 3..k - 2 : ~(s[f] = "*" /\ s[f + 1] = "/")
  PROVE  Skipped(s)
<1>1. ASSUME NEW u \in Text PROVE LeadNext(s \o u, 1) = k + 1
  <2>1. PICK q \in Text : q = s \o u /\ Behind(q, k, u)
    BY ConcatBehind
  <2>2. Len(q) \in Nat /\ Len(q) >= k /\ \A i \in 1..k : q[i] = s[i]
    BY <2>1, InFront DEF Behind, Text
  <2>3. q[1] = "/" /\ q[2] = "*" /\ q[3] \notin {"!", "M"} /\ 1 \in 1..Len(q)
    BY <2>2
  <2>4. Opens(q, 1) /\ ~OpensCode(q, 1) /\ ~OpensMariaCode(q, 1)
    <3>1. 1 + 1 = 2 /\ 1 + 2 = 3 /\ 1 + 1 <= Len(q)
      BY <2>2
    <3> QED
      BY <2>3, <3>1, MarkLengths
  <2>5. ASSUME NEW f \in 3..Len(q)
        PROVE  At(q, f, <<"*", "/">>) <=>
                 f + 1 <= Len(q) /\ q[f] = "*" /\ q[f + 1] = "/"
    <3>1. f \in 1..Len(q)
      BY <2>2
    <3> QED
      BY <3>1, MarkLengths
  <2>6. k - 1 \in Marks(q, 1)
    <3>1. k - 1 \in 3..Len(q) /\ (k - 1) + 1 = k /\ q[k - 1] = "*" /\ q[k] = "/"
          /\ 1 + 2 = 3
      BY <2>2
    <3>2. At(q, k - 1, <<"*", "/">>)
      BY <2>2, <2>5, <3>1
    <3> QED
      BY <3>1, <3>2 DEF Marks
  <2>7. ASSUME NEW f \in Marks(q, 1) PROVE k - 1 <= f
    <3>1. f \in 3..Len(q) /\ f \in Nat /\ q[f] = "*" /\ q[f + 1] = "/"
      BY <2>2, <2>5 DEF Marks
    <3>2. ASSUME f < k - 1 PROVE FALSE
      <4>1. f \in 3..k - 2 /\ f \in 1..k /\ f + 1 \in 1..k
        BY <3>1, <3>2
      <4> QED
        BY <2>2, <3>1, <4>1
    <3> QED
      BY <3>1, <3>2
  <2>8. (k + 1) - 2 = k - 1
    OBVIOUS
  <2>9. GoesOnAt(q, 1, k + 1)
    BY <2>6, <2>7, <2>8 DEF GoesOnAt
  <2>10. AfterComment(q, 1) = k + 1
    BY <2>9, GoesOnAtOne
  <2>11. LeadNext(q, 1) = AfterComment(q, 1)
    BY <2>3, <2>4, LeadCases
  <2> QED
    BY <2>1, <2>10, <2>11
<1> QED
  BY <1>1, TurnsSkip

(* So is a comment up to the end of its line. *)
LEMMA LineSkipped ==
  ASSUME NEW s \in Text, NEW k \in Nat, Len(s) = k, k >= 2,
         \/ s[1] = "#"
         \/ k >= 3 /\ s[1] = "-" /\ s[2] = "-" /\ s[3] \in Space,
         s[k] = "\n", \A i \in 1..k - 1 : s[i] # "\n"
  PROVE  Skipped(s)
<1>1. ASSUME NEW u \in Text
      PROVE  LeadNext(s \o u, 1) = k /\ LeadNext(s \o u, k) = k + 1
  <2>1. PICK q \in Text : q = s \o u /\ Behind(q, k, u)
    BY ConcatBehind
  <2>2. Len(q) \in Nat /\ Len(q) >= k /\ \A i \in 1..k : q[i] = s[i]
    BY <2>1, InFront DEF Behind, Text
  <2>3. 1 \in 1..Len(q) /\ 1 \in 1..Len(q) + 1 /\ k \in 1..Len(q)
        /\ q[1] = s[1] /\ q[2] = s[2]
    BY <2>2
  <2>4. OpensLine(q, 1)
    <3>1. CASE s[1] = "#"
      BY <2>3, <3>1 DEF OpensLine
    <3>2. CASE k >= 3 /\ s[1] = "-" /\ s[2] = "-" /\ s[3] \in Space
      <4>1. q[3] \in Space /\ 1 + 2 = 3 /\ 1 + 1 = 2 /\ 1 + 1 <= Len(q)
        BY <2>2, <3>2
      <4>2. At(q, 1, <<"-", "-">>)
        BY <2>3, <3>2, <4>1, MarkLengths
      <4> QED
        BY <4>1, <4>2 DEF OpensLine, is_space
    <3> QED
      BY <3>1, <3>2
  <2>5. Span(q, 1, NoNewline, LeadNext(q, 1))
    BY <2>3, <2>4, LeadCases, SkipWhileIsSpan
  <2>6. Span(q, 1, NoNewline, k)
    <3>1. ASSUME NEW i \in 1..k - 1 PROVE q[i] \in NoNewline
      <4>1. i \in 1..k /\ i \in 1..Len(q)
        BY <2>2
      <4>2. q[i] \in Symbol
        BY <4>1 DEF Text
      <4> QED
        BY <2>2, <4>1, <4>2 DEF NoNewline
    <3>2. q[k] \notin NoNewline
      BY <2>2 DEF NoNewline
    <3>3. k \in 1..Len(q) + 1
      BY <2>2
    <3> QED
      BY <3>1, <3>2, <3>3 DEF Span
  <2>7. LeadNext(q, 1) = k
    BY <2>3, <2>5, <2>6, SpanUnique
  <2>8. LeadNext(q, k) = k + 1
    <3>1. q[k] = "\n"
      BY <2>2
    <3>2. q[k] \in Space
      BY <3>1 DEF Space
    <3> QED
      BY <2>3, <3>2, LeadCases
  <2> QED
    BY <2>1, <2>7, <2>8
<1>2. k \in 2..k
  OBVIOUS
<1> QED
  BY <1>1, <1>2, TurnsSkip

(* So are the begin mark and the version of an executable comment. *)
LEMMA CodeSkipped ==
  ASSUME NEW s \in Text, NEW k \in Nat, Len(s) = k, NEW b \in {4, 5}, b <= k + 1,
         s[1] = "/", s[2] = "*", b = 4 => s[3] = "!",
         b = 5 => s[3] = "M" /\ s[4] = "!",
         \A i \in b..k : s[i] \in Digit
  PROVE  Skipped(s)
<1>1. ASSUME NEW u \in Text, NoDigitFirst(u) PROVE LeadNext(s \o u, 1) = k + 1
  <2>1. PICK q \in Text : q = s \o u /\ Behind(q, k, u)
    BY ConcatBehind
  <2>2. Len(q) \in Nat /\ Len(q) = k + Len(u) /\ Len(u) \in Nat
        /\ \A i \in 1..k : q[i] = s[i]
    BY <2>1, InFront DEF Behind, Text
  <2>3. 1 \in 1..Len(q) /\ b \in 1..Len(q) + 1 /\ q[1] = s[1] /\ q[2] = s[2]
        /\ q[3] = s[3] /\ (b = 5 => q[4] = s[4])
    BY <2>2
  <2>4. 1 + 1 = 2 /\ 1 + 2 = 3 /\ 1 + 3 = 4 /\ 1 + 4 = 5
    OBVIOUS
  <2>5. Span(q, b, Digit, LeadNext(q, 1))
    <3>1. CASE b = 4
      <4>1. OpensCode(q, 1)
        BY <2>2, <2>3, <2>4, <3>1, MarkLengths
      <4>2. 1 + 3 \in 1..Len(q) + 1
        BY <2>3, <2>4, <3>1
      <4>3. Span(q, 1 + 3, Digit, LeadNext(q, 1))
        BY <2>3, <4>1, <4>2, LeadCases, SkipWhileIsSpan
      <4> QED
        BY <2>4, <3>1, <4>3
    <3>2. CASE b = 5
      <4>1. OpensMariaCode(q, 1)
        <5>1. q[1] = "/" /\ q[2] = "*" /\ q[3] = "M" /\ q[4] = "!"
              /\ 1 + 3 <= Len(q)
          BY <2>2, <2>3, <3>2
        <5> QED
          BY <2>3, <2>4, <5>1, MarkLengths
      <4>2. 1 + 4 \in 1..Len(q) + 1
        BY <2>3, <2>4, <3>2
      <4>3. Span(q, 1 + 4, Digit, LeadNext(q, 1))
        BY <2>3, <4>1, <4>2, LeadCases, SkipWhileIsSpan
      <4> QED
        BY <2>4, <3>2, <4>3
    <3> QED
      BY <3>1, <3>2
  <2>6. Span(q, b, Digit, k + 1)
    <3>1. k + 1 = Len(q) + 1 \/ q[k + 1] \notin Digit
      <4>1. CASE Len(u) = 0
        BY <2>2, <4>1
      <4>2. CASE Len(u) > 0
        <5>1. q[k + 1] = u[1]
          BY <2>1, <2>2, <4>2 DEF Behind
        <5> QED
          BY <1>1, <4>2, <5>1 DEF NoDigitFirst
      <4> QED
        BY <2>2, <4>1, <4>2
    <3>2. \A i \in b..k + 1 - 1 : q[i] \in Digit
      BY <2>2
    <3>3. k + 1 \in b..Len(q) + 1
      BY <2>2
    <3> QED
      BY <3>1, <3>2, <3>3 DEF Span
  <2> QED
    BY <2>1, <2>3, <2>5, <2>6, SpanUnique
<1>2. k > 0
  OBVIOUS
<1> QED
  BY <1>1, <1>2, TurnsSkip

-----------------------------------------------------------------------------
(* The pieces in front of a statement.                                     *)

Passed(s) == s \in Text /\ Len(s) > 0 /\ NoDigitFirst(s) /\ Skipped(s)

(* Each of them is skipped. *)
LEMMA LeadsAreSkipped ==
  ASSUME NEW l \in Leads
  PROVE  Passed(l)
<1>1. CASE l = <<"/", "*", "SELECT", "*", "/">>
  <2>1. "*" \in Symbol /\ "/" \in Symbol /\ "SELECT" \in Symbol
    BY Symbols
  <2>0. <<"/", "*", "SELECT", "*", "/">> \in Text
    BY <2>1 DEF Text
  <2>2. l \in Text
    BY <1>1, <2>0, Zenon
  <2>3. /\ Len(l) = 5
        /\ l[1] = "/"
        /\ l[2] = "*"
        /\ l[3] = "SELECT"
        /\ l[4] = "*"
        /\ l[5] = "/"
    BY <1>1
  <2>4. NoDigitFirst(l)
    BY <2>3 DEF NoDigitFirst, Digit
  <2>5. PICK k \in Nat : k = 5
    OBVIOUS
  <2>6. Len(l) = k /\ k >= 4 /\ l[k - 1] = "*" /\ l[k] = "/"
    BY <2>3, <2>5
  <2>7. \A f \in 3..k - 2 : ~(l[f] = "*" /\ l[f + 1] = "/")
    <3>1. \A f \in 3..k - 2 : f = 3
      BY <2>5
    <3> QED
      BY <2>3, <3>1
  <2>8. Skipped(l)
    <3>1. l[1] = "/" /\ l[2] = "*" /\ l[3] \notin {"!", "M"}
      BY <2>3
    <3> QED
      BY <2>2, <2>6, <2>7, <3>1, BlockSkipped
  <2> QED
    BY <2>2, <2>3, <2>4, <2>8 DEF Passed
<1>2. CASE l = <<"/", "*", "*", "/">>
  <2>1. "*" \in Symbol /\ "/" \in Symbol
    BY Symbols
  <2>0. <<"/", "*", "*", "/">> \in Text
    BY <2>1 DEF Text
  <2>2. l \in Text
    BY <1>2, <2>0, Zenon
  <2>3. /\ Len(l) = 4
        /\ l[1] = "/"
        /\ l[2] = "*"
        /\ l[3] = "*"
        /\ l[4] = "/"
    BY <1>2
  <2>4. NoDigitFirst(l)
    BY <2>3 DEF NoDigitFirst, Digit
  <2>5. PICK k \in Nat : k = 4
    OBVIOUS
  <2>6. Len(l) = k /\ k >= 4 /\ l[k - 1] = "*" /\ l[k] = "/"
    BY <2>3, <2>5
  <2>7. \A f \in 3..k - 2 : ~(l[f] = "*" /\ l[f + 1] = "/")
    <3>1. 3..k - 2 = {}
      BY <2>5
    <3> QED
      BY <2>3, <3>1
  <2>8. Skipped(l)
    <3>1. l[1] = "/" /\ l[2] = "*" /\ l[3] \notin {"!", "M"}
      BY <2>3
    <3> QED
      BY <2>2, <2>6, <2>7, <3>1, BlockSkipped
  <2> QED
    BY <2>2, <2>3, <2>4, <2>8 DEF Passed
<1>3. CASE l = <<"/", "*", "/", "x", "*", "/">>
  <2>1. "*" \in Symbol /\ "/" \in Symbol /\ "x" \in Symbol
    BY Symbols
  <2>0. <<"/", "*", "/", "x", "*", "/">> \in Text
    BY <2>1 DEF Text
  <2>2. l \in Text
    BY <1>3, <2>0, Zenon
  <2>3. /\ Len(l) = 6
        /\ l[1] = "/"
        /\ l[2] = "*"
        /\ l[3] = "/"
        /\ l[4] = "x"
        /\ l[5] = "*"
        /\ l[6] = "/"
    BY <1>3
  <2>4. NoDigitFirst(l)
    BY <2>3 DEF NoDigitFirst, Digit
  <2>5. PICK k \in Nat : k = 6
    OBVIOUS
  <2>6. Len(l) = k /\ k >= 4 /\ l[k - 1] = "*" /\ l[k] = "/"
    BY <2>3, <2>5
  <2>7. \A f \in 3..k - 2 : ~(l[f] = "*" /\ l[f + 1] = "/")
    <3>1. \A f \in 3..k - 2 : f = 3 \/ f = 4
      BY <2>5
    <3> QED
      BY <2>3, <3>1
  <2>8. Skipped(l)
    <3>1. l[1] = "/" /\ l[2] = "*" /\ l[3] \notin {"!", "M"}
      BY <2>3
    <3> QED
      BY <2>2, <2>6, <2>7, <3>1, BlockSkipped
  <2> QED
    BY <2>2, <2>3, <2>4, <2>8 DEF Passed
<1>4. CASE l = <<"/", "*", "#", "*", "*", "/">>
  <2>1. "#" \in Symbol /\ "*" \in Symbol /\ "/" \in Symbol
    BY Symbols
  <2>0. <<"/", "*", "#", "*", "*", "/">> \in Text
    BY <2>1 DEF Text
  <2>2. l \in Text
    BY <1>4, <2>0, Zenon
  <2>3. /\ Len(l) = 6
        /\ l[1] = "/"
        /\ l[2] = "*"
        /\ l[3] = "#"
        /\ l[4] = "*"
        /\ l[5] = "*"
        /\ l[6] = "/"
    BY <1>4
  <2>4. NoDigitFirst(l)
    BY <2>3 DEF NoDigitFirst, Digit
  <2>5. PICK k \in Nat : k = 6
    OBVIOUS
  <2>6. Len(l) = k /\ k >= 4 /\ l[k - 1] = "*" /\ l[k] = "/"
    BY <2>3, <2>5
  <2>7. \A f \in 3..k - 2 : ~(l[f] = "*" /\ l[f + 1] = "/")
    <3>1. \A f \in 3..k - 2 : f = 3 \/ f = 4
      BY <2>5
    <3> QED
      BY <2>3, <3>1
  <2>8. Skipped(l)
    <3>1. l[1] = "/" /\ l[2] = "*" /\ l[3] \notin {"!", "M"}
      BY <2>3
    <3> QED
      BY <2>2, <2>6, <2>7, <3>1, BlockSkipped
  <2> QED
    BY <2>2, <2>3, <2>4, <2>8 DEF Passed
<1>5. CASE l = <<"-", "-", " ", "DROP", "\n">>
  <2>a. PICK b \in Symbol : b = " "
    BY Symbols, Zenon
  <2>b. b \in Space /\ b # "\n" /\ b \notin Digit
    BY <2>a, Zenon DEF Space, Digit
  <2>c. l = <<"-", "-", b, "DROP", "\n">>
    BY <1>5, <2>a, Zenon
  <2>1. "-" \in Symbol /\ "DROP" \in Symbol /\ "\n" \in Symbol
    BY Symbols
  <2>0. <<"-", "-", b, "DROP", "\n">> \in Text
    BY <2>1 DEF Text
  <2>2. l \in Text
    BY <2>c, <2>0, Zenon
  <2>3. /\ Len(l) = 5
        /\ l[1] = "-"
        /\ l[2] = "-"
        /\ l[3] = b
        /\ l[4] = "DROP"
        /\ l[5] = "\n"
    BY <2>c
  <2>4. NoDigitFirst(l)
    BY <2>3 DEF NoDigitFirst, Digit
  <2>5. PICK k \in Nat : k = 5
    OBVIOUS
  <2>6. /\ Len(l) = k /\ k >= 2 /\ l[k] = "\n"
        /\ k >= 3 /\ l[1] = "-" /\ l[2] = "-" /\ l[3] \in Space
    BY <2>b, <2>3, <2>5
  <2>7. \A i \in 1..k - 1 : l[i] # "\n"
    <3>1. \A i \in 1..k - 1 : i = 1 \/ i = 2 \/ i = 3 \/ i = 4
      BY <2>5
    <3> QED
      BY <2>b, <2>3, <3>1
  <2>8. Skipped(l)
    BY <2>2, <2>6, <2>7, LineSkipped
  <2> QED
    BY <2>2, <2>3, <2>4, <2>8 DEF Passed
<1>6. CASE l = <<"-", "-", "\n">>
  <2>1. "-" \in Symbol /\ "\n" \in Symbol
    BY Symbols
  <2>0. <<"-", "-", "\n">> \in Text
    BY <2>1 DEF Text
  <2>2. l \in Text
    BY <1>6, <2>0, Zenon
  <2>3. /\ Len(l) = 3
        /\ l[1] = "-"
        /\ l[2] = "-"
        /\ l[3] = "\n"
    BY <1>6
  <2>4. NoDigitFirst(l)
    BY <2>3 DEF NoDigitFirst, Digit
  <2>5. PICK k \in Nat : k = 3
    OBVIOUS
  <2>6. /\ Len(l) = k /\ k >= 2 /\ l[k] = "\n"
        /\ k >= 3 /\ l[1] = "-" /\ l[2] = "-" /\ l[3] \in Space
    BY <2>3, <2>5 DEF Space
  <2>7. \A i \in 1..k - 1 : l[i] # "\n"
    <3>1. \A i \in 1..k - 1 : i = 1 \/ i = 2
      BY <2>5
    <3> QED
      BY <2>3, <3>1
  <2>8. Skipped(l)
    BY <2>2, <2>6, <2>7, LineSkipped
  <2> QED
    BY <2>2, <2>3, <2>4, <2>8 DEF Passed
<1>7. CASE l = <<"#", "/", "*", "\n">>
  <2>1. "#" \in Symbol /\ "*" \in Symbol /\ "/" \in Symbol /\ "\n" \in Symbol
    BY Symbols
  <2>0. <<"#", "/", "*", "\n">> \in Text
    BY <2>1 DEF Text
  <2>2. l \in Text
    BY <1>7, <2>0, Zenon
  <2>3. /\ Len(l) = 4
        /\ l[1] = "#"
        /\ l[2] = "/"
        /\ l[3] = "*"
        /\ l[4] = "\n"
    BY <1>7
  <2>4. NoDigitFirst(l)
    BY <2>3 DEF NoDigitFirst, Digit
  <2>5. PICK k \in Nat : k = 4
    OBVIOUS
  <2>6. /\ Len(l) = k /\ k >= 2 /\ l[k] = "\n"
        /\ l[1] = "#"
    BY <2>3, <2>5 DEF Space
  <2>7. \A i \in 1..k - 1 : l[i] # "\n"
    <3>1. \A i \in 1..k - 1 : i = 1 \/ i = 2 \/ i = 3
      BY <2>5
    <3> QED
      BY <2>3, <3>1
  <2>8. Skipped(l)
    BY <2>2, <2>6, <2>7, LineSkipped
  <2> QED
    BY <2>2, <2>3, <2>4, <2>8 DEF Passed
<1>8. CASE l = <<" ">>
  <2>a. PICK b \in Symbol : b = " "
    BY Symbols, Zenon
  <2>b. b \in Space /\ b # "\n" /\ b \notin Digit
    BY <2>a, Zenon DEF Space, Digit
  <2>c. l = <<b>>
    BY <1>8, <2>a, Zenon
  <2>1. TRUE
    BY Symbols
  <2>0. <<b>> \in Text
    BY <2>1 DEF Text
  <2>2. l \in Text
    BY <2>c, <2>0, Zenon
  <2>3. /\ Len(l) = 1
        /\ l[1] = b
    BY <2>c
  <2>4. NoDigitFirst(l)
    BY <2>b, <2>3 DEF NoDigitFirst, Digit
  <2>8. Skipped(l)
    BY <1>8, BlankSkipped, Zenon DEF Space
  <2> QED
    BY <2>2, <2>3, <2>4, <2>8 DEF Passed
<1>9. CASE l = <<"(">>
  <2>1. "(" \in Symbol
    BY Symbols
  <2>0. <<"(">> \in Text
    BY <2>1 DEF Text
  <2>2. l \in Text
    BY <1>9, <2>0, Zenon
  <2>3. /\ Len(l) = 1
        /\ l[1] = "("
    BY <1>9
  <2>4. NoDigitFirst(l)
    BY <2>3 DEF NoDigitFirst, Digit
  <2>8. Skipped(l)
    BY <1>9, BlankSkipped, Zenon DEF Space
  <2> QED
    BY <2>2, <2>3, <2>4, <2>8 DEF Passed
<1>10. CASE l = <<"/", "*", "!", "1", "0">>
  <2>1. "!" \in Symbol /\ "*" \in Symbol /\ "/" \in Symbol /\ "0" \in Symbol /\ "1" \in Symbol
    BY Symbols
  <2>0. <<"/", "*", "!", "1", "0">> \in Text
    BY <2>1 DEF Text
  <2>2. l \in Text
    BY <1>10, <2>0, Zenon
  <2>3. /\ Len(l) = 5
        /\ l[1] = "/"
        /\ l[2] = "*"
        /\ l[3] = "!"
        /\ l[4] = "1"
        /\ l[5] = "0"
    BY <1>10
  <2>4. NoDigitFirst(l)
    BY <2>3 DEF NoDigitFirst, Digit
  <2>5. PICK k \in Nat : k = 5
    OBVIOUS
  <2>6. Len(l) = k /\ 4 <= k + 1 /\ 4 # 5 /\ 4 \in {4, 5}
    BY <2>3, <2>5
  <2>7. \A i \in 4..k : l[i] \in Digit
    <3>1. \A i \in 4..k : i = 4 \/ i = 5
      BY <2>5
    <3> QED
      BY <2>3, <3>1 DEF Digit
  <2>8. Skipped(l)
    <3>1. l[1] = "/" /\ l[2] = "*" /\ l[3] = "!"
      BY <2>3
    <3> QED
      BY <2>2, <2>6, <2>7, <3>1, CodeSkipped
  <2> QED
    BY <2>2, <2>3, <2>4, <2>8 DEF Passed
<1>11. CASE l = <<"/", "*", "M", "!", " ">>
  <2>a. PICK b \in Symbol : b = " "
    BY Symbols, Zenon
  <2>b. b \in Space /\ b # "\n" /\ b \notin Digit
    BY <2>a, Zenon DEF Space, Digit
  <2>c. l = <<"/", "*", "M", "!", b>>
    BY <1>11, <2>a, Zenon
  <2>1. PICK s \in Text, t \in Text : s = <<"/", "*", "M", "!">> /\ t = <<b>>
    BY <2>b, BlankSkipped, MarksAreTexts, Zenon
  <2>2. /\ Len(s) = 4 /\ s[1] = "/" /\ s[2] = "*" /\ s[3] = "M" /\ s[4] = "!"
        /\ Len(t) = 1 /\ t[1] = b
    BY <2>1
  <2>3. Skipped(s)
    <3>1. PICK k \in Nat, a \in {4, 5} : k = 4 /\ a = 5
      OBVIOUS
    <3>2. Len(s) = k /\ a <= k + 1 /\ a # 4 /\ a..k = {}
      BY <2>2, <3>1
    <3>3. s[1] = "/" /\ s[2] = "*" /\ s[3] = "M" /\ s[4] = "!"
      BY <2>2
    <3> QED
      BY <3>2, <3>3, CodeSkipped
  <2>4. Skipped(t) /\ NoDigitFirst(t) /\ Len(t) > 0
    <3>1. Skipped(t)
      BY <2>b, <2>1, BlankSkipped
    <3> QED
      BY <2>b, <2>2, <3>1 DEF NoDigitFirst
  <2>5. s \o t \in Text /\ Skipped(s \o t)
    BY <2>3, <2>4, SkippedBoth
  <2>6. s \o t = l
    <3>1. "/" \in Symbol /\ "*" \in Symbol /\ "!" \in Symbol /\ "M" \in Symbol
      BY Symbols
    <3>2. <<"/", "*", "M", "!", b>> \in Text
      BY <3>1 DEF Text
    <3>3. l \in Text
      BY <2>c, <3>2, Zenon
    <3>4. Len(l) = 5 /\ l[1] = "/" /\ l[2] = "*" /\ l[3] = "M" /\ l[4] = "!"
          /\ l[5] = b
      BY <2>c
    <3>5. Len(s \o t) = 5 /\ \A i \in 1..5 : (s \o t)[i] = l[i]
      <4>1. \A i \in 1..5 : i = 1 \/ i = 2 \/ i = 3 \/ i = 4 \/ i = 5
        OBVIOUS
      <4>2. \A i \in 1..4 : (s \o t)[i] = s[i]
        BY <2>2, InFront
      <4>3. (s \o t)[4 + 1] = t[1] /\ Len(s \o t) = 4 + 1
        <5>1. Behind(s \o t, Len(s), t)
          BY ConcatBehind
        <5>2. 1 \in 1..Len(t)
          BY <2>2
        <5> QED
          BY <2>2, <5>1, <5>2 DEF Behind
      <4> QED
        BY <2>2, <3>4, <4>1, <4>2, <4>3
    <3> QED
      BY <2>5, <3>3, <3>4, <3>5, SeqEqual DEF Text
  <2>7. Len(l) = 5 /\ l[1] = "/"
    BY <2>c
  <2>8. Len(l) > 0 /\ NoDigitFirst(l)
    BY <2>7 DEF NoDigitFirst, Digit
  <2> QED
    BY <2>5, <2>6, <2>8 DEF Passed
<1> QED
  BY <1>1, <1>2, <1>3, <1>4, <1>5, <1>6, <1>7, <1>8, <1>9, <1>10, <1>11 DEF Leads, Comments

-----------------------------------------------------------------------------
(* The word behind.                                                        *)

Outcome(q, w, next) ==
  CASE w = <<>>                                          -> <<"OTHER">>
    [] w = <<"START">> /\ At(q, next, <<"TRANSACTION">>) -> <<"BEGIN">>
    [] OTHER                                             -> w

(* extract_command from where its loops stop. *)
LEMMA CommandIs ==
  ASSUME NEW q \in Text, NEW p \in 1..Len(q) + 1, p = SkipLead(q),
         NEW e, Span(q, p, Ident, e), NEW f, Span(q, e, Space, f)
  PROVE  extract_command(q) = Outcome(q, SubSeq(q, p, e - 1), f)
<1>1. Len(q) \in Nat /\ e \in 1..Len(q) + 1
  BY DEF Text, Span
<1>2. SkipWhile(q, p, is_ident_char) = e
  BY SkipWhileIsSpan, SpanUnique
<1>3. SkipWhile(q, e, is_space) = f
  BY <1>1, SkipWhileIsSpan, SpanUnique
<1> QED
  BY <1>2, <1>3 DEF extract_command, Outcome

(* A part of a text is the same part of it behind another. *)
LEMMA PartBehind ==
  ASSUME NEW q \in Text, NEW u \in Text, NEW n \in Nat, Behind(q, n, u),
         NEW a \in 1..Len(u) + 1, NEW b \in a - 1..Len(u)
  PROVE  SubSeq(q, n + a, n + b) = SubSeq(u, a, b)
<1>0. Len(u) \in Nat /\ Len(q) = n + Len(u) /\ a \in Nat /\ b \in Nat
  BY DEF Text, Behind
<1>1. \A i \in a..b : u[i] \in Symbol /\ q[n + i] = u[i]
  BY <1>0 DEF Text, Behind
<1>2. \A i \in n + a..n + b : q[i] \in Symbol
  BY <1>0 DEF Text
<1>3. /\ SubSeq(u, a, b) \in Seq(Symbol)
      /\ Len(SubSeq(u, a, b)) = IF a <= b THEN b - a + 1 ELSE 0
      /\ \A i \in 1..b - a + 1 : SubSeq(u, a, b)[i] = u[a + i - 1]
  BY <1>0, <1>1, SubSeqProperties
<1>4. n + a \in Int /\ n + b \in Int
  BY <1>0
<1>5. /\ SubSeq(q, n + a, n + b) \in Seq(Symbol)
      /\ Len(SubSeq(q, n + a, n + b)) =
           IF n + a <= n + b THEN (n + b) - (n + a) + 1 ELSE 0
      /\ \A i \in 1..(n + b) - (n + a) + 1 :
           SubSeq(q, n + a, n + b)[i] = q[n + a + i - 1]
  <2>1. PICK x \in Int, y \in Int : x = n + a /\ y = n + b
    BY <1>4
  <2>2. \A i \in x..y : q[i] \in Symbol
    BY <1>2, <2>1
  <2>3. /\ SubSeq(q, x, y) \in Seq(Symbol)
        /\ Len(SubSeq(q, x, y)) = IF x <= y THEN y - x + 1 ELSE 0
        /\ \A i \in 1..y - x + 1 : SubSeq(q, x, y)[i] = q[x + i - 1]
    BY <2>2, SubSeqProperties
  <2> QED
    BY <2>1, <2>3, Zenon
<1>6. (n + b) - (n + a) + 1 = b - a + 1 /\ (n + a <= n + b <=> a <= b)
  BY <1>0
<1>7. Len(SubSeq(q, n + a, n + b)) = Len(SubSeq(u, a, b))
  BY <1>3, <1>5, <1>6
<1>8. ASSUME NEW i \in 1..Len(SubSeq(q, n + a, n + b))
      PROVE  SubSeq(q, n + a, n + b)[i] = SubSeq(u, a, b)[i]
  <2>1. i \in 1..b - a + 1
    BY <1>0, <1>3, <1>7
  <2>2. a + i - 1 \in a..b /\ n + a + i - 1 = n + (a + i - 1)
    BY <1>0, <2>1
  <2> QED
    BY <1>1, <1>3, <1>5, <1>6, <2>1, <2>2
<1> QED
  BY <1>3, <1>5, <1>7, <1>8, SeqEqual

(* The command behind what is skipped is the statement's. *)
LEMMA CommandShift ==
  ASSUME NEW t \in Text, NEW u \in Text, SkipLead(t \o u) = Len(t) + SkipLead(u)
  PROVE  extract_command(t \o u) = extract_command(u)
<1>0. PICK q \in Text, n \in Nat : q = t \o u /\ n = Len(t) /\ Behind(q, n, u)
  BY ConcatBehind
<1>1. PICK p \in 1..Len(u) + 1 : p = SkipLead(u)
  BY SkipLeadIn
<1>2. PICK e : Span(u, p, Ident, e)
  BY SpanExists
<1>3. Len(u) \in Nat /\ Len(q) = n + Len(u) /\ e \in p..Len(u) + 1
      /\ e \in 1..Len(u) + 1
  BY <1>0, <1>2 DEF Text, Behind, Span
<1>4. PICK f : Span(u, e, Space, f)
  BY <1>3, SpanExists
<1>5. n + p \in 1..Len(q) + 1 /\ n + e \in 1..Len(q) + 1 /\ n + p = SkipLead(q)
  BY <1>0, <1>1, <1>3
<1>6. Span(q, n + p, Ident, n + e)
  <2>1. PICK g : Span(q, n + p, Ident, g)
    BY <1>5, SpanExists
  <2> QED
    BY <1>0, <1>2, <2>1, SpanBehind
<1>7. Span(q, n + e, Space, n + f)
  <2>1. PICK g : Span(q, n + e, Space, g)
    BY <1>5, SpanExists
  <2> QED
    BY <1>0, <1>3, <1>4, <2>1, SpanBehind
<1>8. extract_command(u) = Outcome(u, SubSeq(u, p, e - 1), f)
  BY <1>1, <1>2, <1>4, CommandIs
<1>9. f \in Nat \ {0} /\ e \in Nat
  BY <1>3, <1>4 DEF Span
<1>10. PICK x \in 1..Len(q) + 1, y \in Nat, z \in Nat :
         x = n + p /\ y = n + e /\ z = n + f
  BY <1>5, <1>9
<1>11. extract_command(q) = Outcome(q, SubSeq(q, x, y - 1), z)
  <2>1. x = SkipLead(q) /\ Span(q, x, Ident, y) /\ Span(q, y, Space, z)
    BY <1>5, <1>6, <1>7, <1>10
  <2> QED
    BY <2>1, CommandIs
<1>12. SubSeq(q, x, y - 1) = SubSeq(u, p, e - 1)
  <2>1. PICK b \in p - 1..Len(u) : b = e - 1 /\ n + b = y - 1
    BY <1>3, <1>10
  <2>2. SubSeq(q, n + p, n + b) = SubSeq(u, p, b)
    BY <1>0, PartBehind
  <2> QED
    BY <1>10, <2>1, <2>2
<1>13. At(q, z, <<"TRANSACTION">>) <=> At(u, f, <<"TRANSACTION">>)
  <2>1. "TRANSACTION" \in Symbol
    BY DEF Symbol, Words
  <2>2. <<"TRANSACTION">> \in Text /\ <<"TRANSACTION">> # <<>>
    BY <2>1 DEF Text
  <2> QED
    BY <1>0, <1>9, <1>10, <2>2, AtShift
<1> QED
  BY <1>0, <1>8, <1>11, <1>12, <1>13 DEF Outcome

-----------------------------------------------------------------------------
(* The statements.                                                         *)

(* Identifier characters, and others. *)
LEMMA IdentSymbols ==
  /\ "SELECT" \in Ident /\ "INSERT" \in Ident /\ "DROP" \in Ident
  /\ "START" \in Ident /\ "TRANSACTION" \in Ident /\ "SLAVE" \in Ident
  /\ "COMMIT" \in Ident /\ "_" \in Ident /\ "x" \in Ident
  /\ \A c \in Ident : /\ c \notin Space /\ c \in Symbol
                      /\ c \notin {"(", "/", "-", "#", "*", "\""}
BY Zenon DEF Ident, is_ident_char, Symbol, Words, Space, Punctuation

(* Where the loop stays at the beginning. *)
LEMMA LeadStays ==
  ASSUME NEW s \in Text, Len(s) > 0 => LeadNext(s, 1) = 1
  PROVE  SkipLead(s) = 1
<1>1. PICK f : IsLead(f, s, 1..Len(s) + 1) /\ SkipLead(s) = f[1]
  BY LeadExists
<1>2. 1 \in 1..Len(s) + 1 /\ Len(s) \in Nat
  BY DEF Text
<1>3. f[1] = IF 1 > Len(s) \/ LeadNext(s, 1) = 1 THEN 1 ELSE f[LeadNext(s, 1)]
  BY <1>1, <1>2 DEF IsLead
<1> QED
  BY <1>1, <1>2, <1>3

(* Where it takes one turn to the end. *)
LEMMA LeadEnds ==
  ASSUME NEW s \in Text, Len(s) > 0, LeadNext(s, 1) = Len(s) + 1
  PROVE  SkipLead(s) = Len(s) + 1
<1>1. PICK f : IsLead(f, s, 1..Len(s) + 1) /\ SkipLead(s) = f[1]
  BY LeadExists
<1>2. PICK k \in Nat : k = Len(s)
  BY DEF Text
<1>3. 1 \in 1..k + 1 /\ k + 1 \in 1..k + 1 /\ ~(1 > k) /\ k + 1 # 1 /\ k + 1 > k
  BY <1>2
<1>4. f[1] = f[k + 1]
  BY <1>1, <1>2, <1>3 DEF IsLead
<1>5. f[k + 1] = k + 1
  BY <1>1, <1>2, <1>3 DEF IsLead
<1> QED
  BY <1>1, <1>2, <1>4, <1>5

(* No word: the command is OTHER. *)
LEMMA NoWord ==
  ASSUME NEW s \in Text,
         \/ SkipLead(s) = Len(s) + 1
         \/ SkipLead(s) = 1 /\ (Len(s) > 0 => s[1] \notin Ident)
  PROVE  extract_command(s) = <<"OTHER">>
<1>1. PICK p \in 1..Len(s) + 1 : p = SkipLead(s)
  BY SkipLeadIn
<1>2. Len(s) \in Nat
  BY DEF Text
<1>3. Span(s, p, Ident, p)
  BY <1>1, <1>2 DEF Span
<1>4. PICK f : Span(s, p, Space, f)
  BY SpanExists
<1>5. SubSeq(s, p, p - 1) = <<>>
  <2>1. p \in Int /\ p - 1 \in Int /\ p - 1 < p
    BY <1>2
  <2> QED
    BY <2>1, SubSeqEmpty
<1>6. extract_command(s) = Outcome(s, SubSeq(s, p, p - 1), f)
  BY <1>1, <1>3, <1>4, CommandIs
<1>7. <<>> # <<"START">>
  OBVIOUS
<1>8. Outcome(s, <<>>, f) = <<"OTHER">>
  BY <1>7 DEF Outcome
<1> QED
  BY <1>5, <1>6, <1>8

(* A statement that begins with a word. *)
LEMMA WordFirst ==
  ASSUME NEW s \in Text, NEW e \in 2..Len(s) + 1,
         \A i \in 1..e - 1 : s[i] \in Ident,
         e = Len(s) + 1 \/ s[e] \notin Ident,
         NEW f, Span(s, e, Space, f)
  PROVE  extract_command(s) = Outcome(s, SubSeq(s, 1, e - 1), f)
<1>0. Len(s) \in Nat /\ 1 \in 1..Len(s) /\ 1 \in 1..Len(s) + 1 /\ 1 \in 1..e - 1
  BY DEF Text
<1>1. s[1] \in Ident
  BY <1>0
<1>2. s[1] \notin Space \union {"("} /\ s[1] \notin {"/", "-", "#"}
  BY <1>1, IdentSymbols, Zenon
<1>3. /\ ~OpensCode(s, 1) /\ ~OpensMariaCode(s, 1) /\ ~Opens(s, 1)
      /\ ~OpensLine(s, 1)
  BY <1>0, <1>2, MarkLengths DEF OpensLine
<1>4. LeadNext(s, 1) = 1
  BY <1>0, <1>2, <1>3, LeadCases
<1>5. SkipLead(s) = 1
  BY <1>4, LeadStays
<1>6. Span(s, 1, Ident, e)
  BY <1>0 DEF Span
<1> QED
  BY <1>0, <1>5, <1>6, CommandIs

(* A statement that begins with one symbol of a word. *)
LEMMA OneWord ==
  ASSUME NEW s \in Text, Len(s) > 0, s[1] \in Ident,
         Len(s) > 1 => s[2] \notin Ident
  PROVE  /\ s[1] # "START" => extract_command(s) = <<s[1]>>
         /\ \A f : s[1] = "START" /\ Span(s, 2, Space, f) =>
              extract_command(s) =
                IF At(s, f, <<"TRANSACTION">>) THEN <<"BEGIN">> ELSE <<"START">>
<1>0. PICK e \in 2..Len(s) + 1 : e = 2 /\ e \in 1..Len(s) + 1 /\ Len(s) \in Nat
  BY DEF Text
<1>1. \A i \in 1..e - 1 : s[i] \in Ident
  <2>1. \A i \in 1..e - 1 : i = 1
    BY <1>0
  <2> QED
    BY <2>1
<1>2. e = Len(s) + 1 \/ s[e] \notin Ident
  BY <1>0
<1>3. SubSeq(s, 1, e - 1) = <<s[1]>>
  <2>1. 1 \in 1..Len(s) /\ e - 1 = 1
    BY <1>0
  <2>2. PICK w : w = SubSeq(s, 1, 1)
    OBVIOUS
  <2>3. w \in Text /\ Len(w) = 1 /\ w[1] = s[1]
    BY <2>1, <2>2 DEF Text
  <2>4. w = <<s[1]>>
    BY <2>3 DEF Text
  <2> QED
    BY <2>1, <2>2, <2>4
<1>4. <<s[1]>> # <<>> /\ (<<s[1]>> = <<"START">> <=> s[1] = "START")
  OBVIOUS
<1>5. ASSUME NEW f, Span(s, e, Space, f)
      PROVE  extract_command(s) = Outcome(s, <<s[1]>>, f)
  BY <1>1, <1>2, <1>3, <1>5, WordFirst
<1>6. ASSUME s[1] # "START" PROVE extract_command(s) = <<s[1]>>
  <2>1. PICK f : Span(s, e, Space, f)
    BY <1>0, SpanExists
  <2> QED
    BY <1>4, <1>5, <1>6, <2>1 DEF Outcome
<1>7. ASSUME NEW f, s[1] = "START", Span(s, e, Space, f)
      PROVE  extract_command(s) =
               IF At(s, f, <<"TRANSACTION">>) THEN <<"BEGIN">> ELSE <<"START">>
  BY <1>4, <1>5, <1>7 DEF Outcome
<1> QED
  BY <1>0, <1>6, <1>7

(* A statement is read as a command. *)
Reads(s, c) == s \in Text /\ NoDigitFirst(s) /\ extract_command(s) = c

(* More symbols. *)
LEMMA MoreSymbols ==
  /\ "INSERT" \in Symbol /\ "START" \in Symbol /\ "TRANSACTION" \in Symbol
  /\ "SLAVE" \in Symbol /\ "COMMIT" \in Symbol /\ "_" \in Symbol
  /\ ";" \in Symbol /\ "\"" \in Symbol
BY Zenon DEF Symbol, Space, Punctuation, Digit, Words

(* Which of them are no identifier characters, and none else. *)
LEMMA OtherSymbols ==
  /\ " " \in Space /\ " " \notin Ident /\ "\n" \in Space /\ "\n" \notin Ident
  /\ "*" \notin Ident /\ "/" \notin Ident /\ "-" \notin Ident
  /\ "\"" \notin Ident /\ "\"" \notin Space /\ "\"" \notin Digit
  /\ "\"" \notin {"(", "/", "-", "#"} /\ ";" \notin Space
BY Zenon DEF Ident, is_ident_char, Symbol, Words, Space, Punctuation, Digit

(* A word and another symbol. *)
LEMMA ReadSelect == Reads(<<"SELECT", "*">>, <<"SELECT">>)
<1>1. PICK s : s = <<"SELECT", "*">>
  OBVIOUS
<1>5. "*" \in Symbol /\ "SELECT" \in Symbol
  BY Symbols, MoreSymbols, Zenon
<1>6. <<"SELECT", "*">> \in Text
  BY <1>5 DEF Text
<1>7. s \in Text
  BY <1>1, <1>6, Zenon
<1>8. /\ Len(s) = 2
      /\ s[1] = "SELECT"
      /\ s[2] = "*"
  BY <1>1
<1>9. NoDigitFirst(s)
  BY <1>8 DEF NoDigitFirst, Digit
<1>10. extract_command(s) = <<"SELECT">>
  <2>1. s[1] \in Ident /\ s[1] # "START"
    BY <1>8, IdentSymbols
  <2>2. Len(s) > 1 => s[2] \notin Ident
    BY <1>8, OtherSymbols
  <2>3. extract_command(s) = <<s[1]>>
    BY <1>7, <1>8, <2>1, <2>2, OneWord
  <2> QED
    BY <1>8, <2>3, Zenon
<1> QED
  BY <1>1, <1>7, <1>9, <1>10, Zenon DEF Reads

(* A comment ends a word. *)
LEMMA ReadInsert == Reads(<<"INSERT", "/", "*", "x">>, <<"INSERT">>)
<1>1. PICK s : s = <<"INSERT", "/", "*", "x">>
  OBVIOUS
<1>5. "*" \in Symbol /\ "/" \in Symbol /\ "INSERT" \in Symbol /\ "x" \in Symbol
  BY Symbols, MoreSymbols, Zenon
<1>6. <<"INSERT", "/", "*", "x">> \in Text
  BY <1>5 DEF Text
<1>7. s \in Text
  BY <1>1, <1>6, Zenon
<1>8. /\ Len(s) = 4
      /\ s[1] = "INSERT"
      /\ s[2] = "/"
      /\ s[3] = "*"
      /\ s[4] = "x"
  BY <1>1
<1>9. NoDigitFirst(s)
  BY <1>8 DEF NoDigitFirst, Digit
<1>10. extract_command(s) = <<"INSERT">>
  <2>1. s[1] \in Ident /\ s[1] # "START"
    BY <1>8, IdentSymbols
  <2>2. Len(s) > 1 => s[2] \notin Ident
    BY <1>8, OtherSymbols
  <2>3. extract_command(s) = <<s[1]>>
    BY <1>7, <1>8, <2>1, <2>2, OneWord
  <2> QED
    BY <1>8, <2>3, Zenon
<1> QED
  BY <1>1, <1>7, <1>9, <1>10, Zenon DEF Reads

(* The end does, too. *)
LEMMA ReadCommit == Reads(<<"COMMIT">>, <<"COMMIT">>)
<1>1. PICK s : s = <<"COMMIT">>
  OBVIOUS
<1>5. "COMMIT" \in Symbol
  BY Symbols, MoreSymbols, Zenon
<1>6. <<"COMMIT">> \in Text
  BY <1>5 DEF Text
<1>7. s \in Text
  BY <1>1, <1>6, Zenon
<1>8. /\ Len(s) = 1
      /\ s[1] = "COMMIT"
  BY <1>1
<1>9. NoDigitFirst(s)
  BY <1>8 DEF NoDigitFirst, Digit
<1>10. extract_command(s) = <<"COMMIT">>
  <2>1. s[1] \in Ident /\ s[1] # "START"
    BY <1>8, IdentSymbols
  <2>2. Len(s) > 1 => s[2] \notin Ident
    BY <1>8
  <2>3. extract_command(s) = <<s[1]>>
    BY <1>7, <1>8, <2>1, <2>2, OneWord
  <2> QED
    BY <1>8, <2>3, Zenon
<1> QED
  BY <1>1, <1>7, <1>9, <1>10, Zenon DEF Reads

(* A word of several parts. *)
LEMMA ReadDrop == Reads(<<"DROP", "_", "x", " ", "SELECT">>, <<"DROP", "_", "x">>)
<1>1. PICK s : s = <<"DROP", "_", "x", " ", "SELECT">>
  OBVIOUS
<1>2. PICK b \in Symbol, a \in Symbol : b = " " /\ a = "_"
  BY MoreSymbols, Symbols, Zenon
<1>3. b \in Space /\ b \notin Ident /\ a \in Ident
  BY <1>2, OtherSymbols, IdentSymbols, Zenon
<1>4. s = <<"DROP", a, "x", b, "SELECT">>
  BY <1>1, <1>2, Zenon
<1>5. "DROP" \in Symbol /\ "SELECT" \in Symbol /\ "x" \in Symbol
  BY Symbols, MoreSymbols, Zenon
<1>6. <<"DROP", a, "x", b, "SELECT">> \in Text
  BY <1>5 DEF Text
<1>7. s \in Text
  BY <1>4, <1>6, Zenon
<1>8. /\ Len(s) = 5
      /\ s[1] = "DROP"
      /\ s[2] = a
      /\ s[3] = "x"
      /\ s[4] = b
      /\ s[5] = "SELECT"
  BY <1>4
<1>9. NoDigitFirst(s)
  BY <1>8 DEF NoDigitFirst, Digit
<1>10. extract_command(s) = <<"DROP", "_", "x">>
  <2>1. PICK e \in 2..Len(s) + 1 : e = 4 /\ e \in 1..Len(s) + 1
    BY <1>8
  <2>2. \A i \in 1..e - 1 : s[i] \in Ident
    <3>1. \A i \in 1..e - 1 : i = 1 \/ i = 2 \/ i = 3
      BY <2>1
    <3>2. "DROP" \in Ident /\ "x" \in Ident
      BY IdentSymbols, Zenon
    <3> QED
      BY <1>3, <1>8, <3>1, <3>2
  <2>3. s[e] \notin Ident
    BY <1>3, <1>8, <2>1
  <2>4. PICK f : Span(s, e, Space, f)
    BY <1>7, <2>1, SpanExists
  <2>5. extract_command(s) = Outcome(s, SubSeq(s, 1, e - 1), f)
    BY <1>7, <2>2, <2>3, <2>4, WordFirst
  <2>6. PICK w : w = SubSeq(s, 1, e - 1)
    OBVIOUS
  <2>7. w \in Text /\ Len(w) = 3 /\ \A i \in 1..3 : w[i] = s[i]
    <3>1. \A i \in 1..e - 1 : s[i] \in Symbol
      BY <2>2, IdentSymbols, Zenon
    <3>2. 1 \in Int /\ e - 1 \in Int /\ e - 1 = 3
      BY <2>1
    <3>3. /\ w \in Seq(Symbol)
          /\ Len(w) = IF 1 <= e - 1 THEN (e - 1) - 1 + 1 ELSE 0
          /\ \A i \in 1..(e - 1) - 1 + 1 : w[i] = s[1 + i - 1]
      BY <2>6, <3>1, <3>2, SubSeqProperties
    <3>4. (e - 1) - 1 + 1 = 3 /\ \A i \in 1..3 : 1 + i - 1 = i
      BY <3>2
    <3> QED
      BY <3>2, <3>3, <3>4 DEF Text
  <2>8. w = <<"DROP", a, "x">>
    <3>1. w[1] = "DROP" /\ w[2] = a /\ w[3] = "x"
      BY <1>8, <2>7
    <3> QED
      BY <2>7, <3>1 DEF Text
  <2>9. w # <<>> /\ w # <<"START">>
    <3>1. <<"DROP", a, "x">> # <<>> /\ <<"DROP", a, "x">> # <<"START">>
      OBVIOUS
    <3> QED
      BY <2>8, <3>1, Zenon
  <2>10. Outcome(s, w, f) = w
    BY <2>9 DEF Outcome
  <2> QED
    BY <1>2, <2>5, <2>6, <2>8, <2>10, Zenon
<1> QED
  BY <1>1, <1>7, <1>9, <1>10, Zenon DEF Reads

(* START TRANSACTION is BEGIN. *)
LEMMA ReadBegin == Reads(<<"START", "\n", " ", "TRANSACTION", ";">>, <<"BEGIN">>)
<1>1. PICK s : s = <<"START", "\n", " ", "TRANSACTION", ";">>
  OBVIOUS
<1>2. PICK b \in Symbol, z \in Symbol : b = " " /\ z = ";"
  BY MoreSymbols, Symbols, Zenon
<1>3. b \in Space /\ b \notin Ident /\ z \notin Space
  BY <1>2, OtherSymbols, IdentSymbols, Zenon
<1>4. s = <<"START", "\n", b, "TRANSACTION", z>>
  BY <1>1, <1>2, Zenon
<1>5. "START" \in Symbol /\ "TRANSACTION" \in Symbol /\ "\n" \in Symbol
  BY Symbols, MoreSymbols, Zenon
<1>6. <<"START", "\n", b, "TRANSACTION", z>> \in Text
  BY <1>5 DEF Text
<1>7. s \in Text
  BY <1>4, <1>6, Zenon
<1>8. /\ Len(s) = 5
      /\ s[1] = "START"
      /\ s[2] = "\n"
      /\ s[3] = b
      /\ s[4] = "TRANSACTION"
      /\ s[5] = z
  BY <1>4
<1>9. NoDigitFirst(s)
  BY <1>8 DEF NoDigitFirst, Digit
<1>10. extract_command(s) = <<"BEGIN">>
  <2>1. s[1] \in Ident /\ s[1] = "START"
    BY <1>8, IdentSymbols
  <2>2. s[2] \notin Ident /\ s[2] \in Space
    BY <1>8, OtherSymbols
  <2>3. PICK f \in Nat \ {0} : f = 4
    OBVIOUS
  <2>4. Span(s, 2, Space, f)
    <3>1. \A i \in 2..f - 1 : i = 2 \/ i = 3
      BY <2>3
    <3>2. s[4] \notin Space
      BY <1>8, IdentSymbols
    <3> QED
      BY <1>3, <1>8, <2>2, <2>3, <3>1, <3>2 DEF Span
  <2>5. "TRANSACTION" \in Symbol
    BY MoreSymbols, Zenon
  <2>6. <<"TRANSACTION">> \in Text /\ Len(<<"TRANSACTION">>) = 1
        /\ <<"TRANSACTION">>[1] = "TRANSACTION"
    BY <2>5 DEF Text
  <2>7. At(s, f, <<"TRANSACTION">>)
    <3>1. PICK m \in Text : m = <<"TRANSACTION">> /\ Len(m) = 1
                           /\ m[1] = "TRANSACTION"
      BY <2>6
    <3>2. At(s, f, m) <=> /\ f + Len(m) - 1 <= Len(s)
                          /\ \A i \in 1..Len(m) : s[f + i - 1] = m[i]
      BY <1>7, AtMeans
    <3>3. /\ f + Len(m) - 1 = f /\ f <= Len(s) /\ 1 \in 1..Len(m) /\ f + 1 - 1 = f
          /\ \A i \in 1..Len(m) : i = 1
      BY <1>8, <2>3, <3>1
    <3>4. s[f] = "TRANSACTION"
      BY <1>8, <2>3
    <3>5. At(s, f, m)
      BY <3>1, <3>2, <3>3, <3>4
    <3> QED
      BY <3>1, <3>5
  <2>8. Len(s) > 0
    BY <1>8
  <2> QED
    BY <1>7, <2>1, <2>2, <2>4, <2>7, <2>8, OneWord
<1> QED
  BY <1>1, <1>7, <1>9, <1>10, Zenon DEF Reads

(* Another START is not. *)
LEMMA ReadStart == Reads(<<"START", " ", "SLAVE">>, <<"START">>)
<1>1. PICK s : s = <<"START", " ", "SLAVE">>
  OBVIOUS
<1>2. PICK b \in Symbol : b = " "
  BY MoreSymbols, Symbols, Zenon
<1>3. b \in Space /\ b \notin Ident
  BY <1>2, OtherSymbols, IdentSymbols, Zenon
<1>4. s = <<"START", b, "SLAVE">>
  BY <1>1, <1>2, Zenon
<1>5. "SLAVE" \in Symbol /\ "START" \in Symbol
  BY Symbols, MoreSymbols, Zenon
<1>6. <<"START", b, "SLAVE">> \in Text
  BY <1>5 DEF Text
<1>7. s \in Text
  BY <1>4, <1>6, Zenon
<1>8. /\ Len(s) = 3
      /\ s[1] = "START"
      /\ s[2] = b
      /\ s[3] = "SLAVE"
  BY <1>4
<1>9. NoDigitFirst(s)
  BY <1>8 DEF NoDigitFirst, Digit
<1>10. extract_command(s) = <<"START">>
  <2>1. s[1] \in Ident /\ s[1] = "START"
    BY <1>8, IdentSymbols
  <2>2. s[2] \notin Ident /\ s[2] \in Space
    BY <1>3, <1>8, OtherSymbols
  <2>3. PICK f \in Nat \ {0} : f = 3
    OBVIOUS
  <2>4. Span(s, 2, Space, f)
    <3>1. \A i \in 2..f - 1 : i = 2
      BY <2>3
    <3>2. s[3] \notin Space
      BY <1>8, IdentSymbols
    <3> QED
      BY <1>3, <1>8, <2>2, <2>3, <3>1, <3>2 DEF Span
  <2>5. "TRANSACTION" \in Symbol
    BY MoreSymbols, Zenon
  <2>6. <<"TRANSACTION">> \in Text /\ Len(<<"TRANSACTION">>) = 1
        /\ <<"TRANSACTION">>[1] = "TRANSACTION"
    BY <2>5 DEF Text
  <2>7. ~At(s, f, <<"TRANSACTION">>)
    <3>1. PICK m \in Text : m = <<"TRANSACTION">> /\ Len(m) = 1
                           /\ m[1] = "TRANSACTION"
      BY <2>6
    <3>2. At(s, f, m) <=> /\ f + Len(m) - 1 <= Len(s)
                          /\ \A i \in 1..Len(m) : s[f + i - 1] = m[i]
      BY <1>7, AtMeans
    <3>3. /\ f + Len(m) - 1 = f /\ f <= Len(s) /\ 1 \in 1..Len(m) /\ f + 1 - 1 = f
          /\ \A i \in 1..Len(m) : i = 1
      BY <1>8, <2>3, <3>1
    <3>4. s[f] # "TRANSACTION"
      BY <1>8, <2>3
    <3>5. ~At(s, f, m)
      BY <3>1, <3>2, <3>3, <3>4
    <3> QED
      BY <3>1, <3>5
  <2>8. Len(s) > 0
    BY <1>8
  <2> QED
    BY <1>7, <2>1, <2>2, <2>4, <2>7, <2>8, OneWord
<1> QED
  BY <1>1, <1>7, <1>9, <1>10, Zenon DEF Reads

(* No statement at all. *)
LEMMA ReadNothing == Reads(<<>>, <<"OTHER">>)
<1>1. <<>> \in Text /\ Len(<<>>) = 0
  BY DEF Text
<1>2. NoDigitFirst(<<>>)
  BY <1>1 DEF NoDigitFirst
<1>3. SkipLead(<<>>) = 1
  BY <1>1, LeadStays
<1>4. extract_command(<<>>) = <<"OTHER">>
  BY <1>1, <1>3, NoWord
<1> QED
  BY <1>1, <1>2, <1>4 DEF Reads

(* Two hyphens with no blank behind begin no comment. *)
LEMMA ReadMinus == Reads(<<"-", "-", "1">>, <<"OTHER">>)
<1>1. PICK s : s = <<"-", "-", "1">>
  OBVIOUS
<1>5. "-" \in Symbol /\ "1" \in Symbol
  BY Symbols, MoreSymbols, Zenon
<1>6. <<"-", "-", "1">> \in Text
  BY <1>5 DEF Text
<1>7. s \in Text
  BY <1>1, <1>6, Zenon
<1>8. /\ Len(s) = 3
      /\ s[1] = "-"
      /\ s[2] = "-"
      /\ s[3] = "1"
  BY <1>1
<1>9. NoDigitFirst(s)
  BY <1>8 DEF NoDigitFirst, Digit
<1>10. extract_command(s) = <<"OTHER">>
  <2>1. "1" \notin Space /\ "-" \notin Space /\ "-" \notin Ident
    BY OtherSymbols, Zenon DEF Space
  <2>2. 1 \in 1..Len(s) /\ 1 + 1 = 2 /\ 1 + 2 = 3
    BY <1>8
  <2>3. /\ s[1] \notin Space \union {"("} /\ ~OpensCode(s, 1)
        /\ ~OpensMariaCode(s, 1) /\ ~Opens(s, 1)
    BY <1>7, <1>8, <2>1, <2>2, MarkLengths
  <2>4. ~OpensLine(s, 1)
    BY <1>8, <2>1, <2>2 DEF OpensLine, is_space
  <2>5. LeadNext(s, 1) = 1
    BY <1>7, <2>2, <2>3, <2>4, LeadCases
  <2>6. SkipLead(s) = 1 /\ s[1] \notin Ident
    BY <1>7, <1>8, <2>1, <2>5, LeadStays
  <2> QED
    BY <1>7, <2>6, NoWord
<1> QED
  BY <1>1, <1>7, <1>9, <1>10, Zenon DEF Reads

(* A quote is no word. *)
LEMMA ReadQuote == Reads(<<"\"", "SELECT">>, <<"OTHER">>)
<1>1. PICK s : s = <<"\"", "SELECT">>
  OBVIOUS
<1>2. PICK d \in Symbol : d = "\""
  BY MoreSymbols, Symbols, Zenon
<1>3. d \notin Ident /\ d \notin Space /\ d \notin Digit /\ d \notin {"(", "/", "-", "#"}
  BY <1>2, OtherSymbols, IdentSymbols, Zenon
<1>4. s = <<d, "SELECT">>
  BY <1>1, <1>2, Zenon
<1>5. "SELECT" \in Symbol
  BY Symbols, MoreSymbols, Zenon
<1>6. <<d, "SELECT">> \in Text
  BY <1>5 DEF Text
<1>7. s \in Text
  BY <1>4, <1>6, Zenon
<1>8. /\ Len(s) = 2
      /\ s[1] = d
      /\ s[2] = "SELECT"
  BY <1>4
<1>9. NoDigitFirst(s)
  BY <1>3, <1>8 DEF NoDigitFirst, Digit
<1>10. extract_command(s) = <<"OTHER">>
  <2>2. 1 \in 1..Len(s) /\ 1 + 1 = 2 /\ 1 + 2 = 3
    BY <1>8
  <2>3. /\ s[1] \notin Space \union {"("} /\ ~OpensCode(s, 1)
        /\ ~OpensMariaCode(s, 1) /\ ~Opens(s, 1)
    BY <1>3, <1>7, <1>8, <2>2, MarkLengths
  <2>4. ~OpensLine(s, 1)
    BY <1>3, <1>7, <1>8, <2>2, MarkLengths DEF OpensLine
  <2>5. LeadNext(s, 1) = 1
    BY <1>7, <2>2, <2>3, <2>4, LeadCases
  <2>6. SkipLead(s) = 1 /\ s[1] \notin Ident
    BY <1>3, <1>7, <1>8, <2>5, LeadStays
  <2> QED
    BY <1>7, <2>6, NoWord
<1> QED
  BY <1>1, <1>7, <1>9, <1>10, Zenon DEF Reads

(* A comment may end with the statement. *)
LEMMA ReadHyphens == Reads(<<"-", "-">>, <<"OTHER">>)
<1>1. PICK s : s = <<"-", "-">>
  OBVIOUS
<1>5. "-" \in Symbol
  BY Symbols, MoreSymbols, Zenon
<1>6. <<"-", "-">> \in Text
  BY <1>5 DEF Text
<1>7. s \in Text
  BY <1>1, <1>6, Zenon
<1>8. /\ Len(s) = 2
      /\ s[1] = "-"
      /\ s[2] = "-"
  BY <1>1
<1>9. NoDigitFirst(s)
  BY <1>8 DEF NoDigitFirst, Digit
<1>10. extract_command(s) = <<"OTHER">>
  <2>1. 1 \in 1..Len(s) /\ 1 \in 1..Len(s) + 1 /\ 1 + 1 = 2
    BY <1>8
  <2>2. OpensLine(s, 1)
    BY <1>7, <1>8, <2>1, MarkLengths DEF OpensLine
  <2>3. Span(s, 1, NoNewline, LeadNext(s, 1))
    BY <1>7, <2>1, <2>2, LeadCases, SkipWhileIsSpan
  <2>4. Span(s, 1, NoNewline, 3)
    <3>1. \A i \in 1..3 - 1 : i = 1 \/ i = 2
      OBVIOUS
    <3>2. s[1] \in NoNewline /\ s[2] \in NoNewline
      BY <1>5, <1>8 DEF NoNewline
    <3> QED
      BY <1>8, <3>1, <3>2 DEF Span
  <2>5. LeadNext(s, 1) = Len(s) + 1
    BY <1>7, <1>8, <2>1, <2>3, <2>4, SpanUnique
  <2>6. SkipLead(s) = Len(s) + 1
    <3>1. Len(s) > 0
      BY <1>8
    <3> QED
      BY <1>7, <2>5, <3>1, LeadEnds
  <2> QED
    BY <1>7, <2>6, NoWord
<1> QED
  BY <1>1, <1>7, <1>9, <1>10, Zenon DEF Reads

(* A word inside a comment is no command. *)
LEMMA ReadHash == Reads(<<"#", "SELECT">>, <<"OTHER">>)
<1>1. PICK s : s = <<"#", "SELECT">>
  OBVIOUS
<1>5. "#" \in Symbol /\ "SELECT" \in Symbol
  BY Symbols, MoreSymbols, Zenon
<1>6. <<"#", "SELECT">> \in Text
  BY <1>5 DEF Text
<1>7. s \in Text
  BY <1>1, <1>6, Zenon
<1>8. /\ Len(s) = 2
      /\ s[1] = "#"
      /\ s[2] = "SELECT"
  BY <1>1
<1>9. NoDigitFirst(s)
  BY <1>8 DEF NoDigitFirst, Digit
<1>10. extract_command(s) = <<"OTHER">>
  <2>1. 1 \in 1..Len(s) /\ 1 \in 1..Len(s) + 1 /\ 1 + 1 = 2
    BY <1>8
  <2>2. OpensLine(s, 1)
    BY <1>7, <1>8, <2>1, MarkLengths DEF OpensLine
  <2>3. Span(s, 1, NoNewline, LeadNext(s, 1))
    BY <1>7, <2>1, <2>2, LeadCases, SkipWhileIsSpan
  <2>4. Span(s, 1, NoNewline, 3)
    <3>1. \A i \in 1..3 - 1 : i = 1 \/ i = 2
      OBVIOUS
    <3>2. s[1] \in NoNewline /\ s[2] \in NoNewline
      BY <1>5, <1>8 DEF NoNewline
    <3> QED
      BY <1>8, <3>1, <3>2 DEF Span
  <2>5. LeadNext(s, 1) = Len(s) + 1
    BY <1>7, <1>8, <2>1, <2>3, <2>4, SpanUnique
  <2>6. SkipLead(s) = Len(s) + 1
    <3>1. Len(s) > 0
      BY <1>8
    <3> QED
      BY <1>7, <2>5, <3>1, LeadEnds
  <2> QED
    BY <1>7, <2>6, NoWord
<1> QED
  BY <1>1, <1>7, <1>9, <1>10, Zenon DEF Reads

(* A comment without an end is all there is. *)
LEMMA ReadOpen == Reads(<<"/", "*", "SELECT", "*">>, <<"OTHER">>)
<1>1. PICK s : s = <<"/", "*", "SELECT", "*">>
  OBVIOUS
<1>5. "*" \in Symbol /\ "/" \in Symbol /\ "SELECT" \in Symbol
  BY Symbols, MoreSymbols, Zenon
<1>6. <<"/", "*", "SELECT", "*">> \in Text
  BY <1>5 DEF Text
<1>7. s \in Text
  BY <1>1, <1>6, Zenon
<1>8. /\ Len(s) = 4
      /\ s[1] = "/"
      /\ s[2] = "*"
      /\ s[3] = "SELECT"
      /\ s[4] = "*"
  BY <1>1
<1>9. NoDigitFirst(s)
  BY <1>8 DEF NoDigitFirst, Digit
<1>10. extract_command(s) = <<"OTHER">>
  <2>1. 1 \in 1..Len(s) /\ 1 + 1 = 2 /\ 1 + 2 = 3 /\ 1 \in Nat
    BY <1>8
  <2>2. Opens(s, 1) /\ ~OpensCode(s, 1) /\ ~OpensMariaCode(s, 1)
    BY <1>7, <1>8, <2>1, MarkLengths
  <2>3. Marks(s, 1) = {}
    <3>1. ASSUME NEW f \in Marks(s, 1) PROVE FALSE
      <4>1. f \in 3..4 /\ At(s, f, <<"*", "/">>) /\ f \in 1..Len(s)
        BY <1>8, <2>1 DEF Marks
      <4>2. f + 1 <= Len(s) /\ s[f] = "*" /\ s[f + 1] = "/"
        BY <1>7, <4>1, MarkLengths
      <4> QED
        BY <1>8, <4>1, <4>2
    <3> QED
      BY <3>1
  <2>4. AfterComment(s, 1) = Len(s) + 1
    BY <2>3 DEF AfterComment, Marks
  <2>5. LeadNext(s, 1) = Len(s) + 1
    BY <1>7, <2>1, <2>2, <2>4, LeadCases
  <2>6. SkipLead(s) = Len(s) + 1
    <3>1. Len(s) > 0
      BY <1>8
    <3> QED
      BY <1>7, <2>5, <3>1, LeadEnds
  <2> QED
    BY <1>7, <2>6, NoWord
<1> QED
  BY <1>1, <1>7, <1>9, <1>10, Zenon DEF Reads

(* A piece is its text and its meaning. *)
LEMMA PieceFields ==
  ASSUME NEW t, NEW m
  PROVE  Piece(t, m).text = t /\ Piece(t, m).meaning = m
BY DEF Piece

(* Every statement is read as the command it means. *)
LEMMA StatementsAreRead ==
  ASSUME NEW p \in Statements
  PROVE  Reads(p.text, p.meaning)
<1>1. ASSUME NEW t, NEW m, Reads(t, m), p = Piece(t, m)
      PROVE  Reads(p.text, p.meaning)
  <2>1. p.text = t /\ p.meaning = m
    BY <1>1, PieceFields, Zenon
  <2> QED
    BY <1>1, <2>1, Zenon
<1>2. \A t \in {<<>>, <<"-", "-", "1">>, <<"-", "-">>, <<"#", "SELECT">>,
                <<"/", "*", "SELECT", "*">>, <<"\"", "SELECT">>} :
        Reads(t, <<"OTHER">>)
  BY ReadNothing, ReadMinus, ReadHyphens, ReadHash, ReadOpen, ReadQuote, Zenon
<1>3. CASE p = Piece(<<"SELECT", "*">>, <<"SELECT">>)
  BY <1>1, <1>3, ReadSelect, Zenon
<1>4. CASE p = Piece(<<"INSERT", "/", "*", "x">>, <<"INSERT">>)
  BY <1>1, <1>4, ReadInsert, Zenon
<1>5. CASE p = Piece(<<"DROP", "_", "x", " ", "SELECT">>, <<"DROP", "_", "x">>)
  BY <1>1, <1>5, ReadDrop, Zenon
<1>6. CASE p = Piece(<<"START", "\n", " ", "TRANSACTION", ";">>, <<"BEGIN">>)
  BY <1>1, <1>6, ReadBegin, Zenon
<1>7. CASE p = Piece(<<"START", " ", "SLAVE">>, <<"START">>)
  BY <1>1, <1>7, ReadStart, Zenon
<1>8. CASE p = Piece(<<"COMMIT">>, <<"COMMIT">>)
  BY <1>1, <1>8, ReadCommit, Zenon
<1>9. ASSUME NEW t \in {<<>>, <<"-", "-", "1">>, <<"-", "-">>, <<"#", "SELECT">>,
                        <<"/", "*", "SELECT", "*">>, <<"\"", "SELECT">>},
             p = Piece(t, <<"OTHER">>)
      PROVE  Reads(p.text, p.meaning)
  BY <1>1, <1>2, <1>9, Zenon
<1> QED
  BY <1>3, <1>4, <1>5, <1>6, <1>7, <1>8, <1>9, Zenon DEF Statements

(* The meaning of a piece in front is nothing, and its text is skipped. *)
LEMMA PiecesArePassed ==
  ASSUME NEW p \in Pieces("command")
  PROVE  Passed(p.text) /\ p.meaning = <<>>
<1>1. Pieces("command") = Silent(Leads)
  BY Zenon DEF Pieces
<1>2. PICK l \in Leads : p = Piece(l, <<>>)
  BY <1>1, Zenon DEF Silent
<1>3. p.text = l /\ p.meaning = <<>>
  BY <1>2, PieceFields, Zenon
<1>4. Passed(l)
  BY LeadsAreSkipped, Zenon
<1> QED
  BY <1>3, <1>4, Zenon

(* The last piece is a statement. *)
LEMMA LastIsStatement ==
  ASSUME NEW p \in LastPieces("command")
  PROVE  Reads(p.text, p.meaning)
<1>1. LastPieces("command") = Statements
  BY Zenon DEF LastPieces
<1> QED
  BY <1>1, StatementsAreRead, Zenon

(* Nothing in front of a meaning. *)
LEMMA LastMeaning ==
  ASSUME NEW p \in LastPieces("command")
  PROVE  <<>> \o p.meaning = p.meaning
<1>1. \A a : <<>> \o <<a>> = <<a>>
  OBVIOUS
<1>2. \A a, b, c : <<>> \o <<a, b, c>> = <<a, b, c>>
  OBVIOUS
<1>3. LastPieces("command") = Statements
  BY Zenon DEF LastPieces
<1>4. (\E a : p.meaning = <<a>>) \/ (\E a, b, c : p.meaning = <<a, b, c>>)
  <2>1. \E t : \/ \E a : p = Piece(t, <<a>>)
               \/ \E a, b, c : p = Piece(t, <<a, b, c>>)
    BY <1>3, Zenon DEF Statements
  <2>2. ASSUME NEW t, NEW m, p = Piece(t, m)
        PROVE  p.meaning = m
    BY <2>2, PieceFields, Zenon
  <2> QED
    BY <2>1, <2>2, Zenon
<1> QED
  BY <1>1, <1>2, <1>4, Zenon

(* What is built in front of a statement is skipped and means nothing; the *)
(* closed text is read as what it means.                                   *)
CommandText ==
  task = "command" =>
    /\ closed => extract_command(text) = meaning
    /\ ~closed => text \in Text /\ Skipped(text) /\ meaning = <<>>

(* ExtractFindsCommand, for every number of pieces: behind any number of   *)
(* blanks, comments, opened parentheses and begin marks of executable      *)
(* comments, extract_command finds the command of the statement.           *)
THEOREM CommandIsFound == Spec => []ExtractFindsCommand
<1>1. Init => CommandText
  BY EmptySkipped, Zenon DEF Init, CommandText
<1>2. CommandText /\ [Next]_vars => CommandText'
  <2> SUFFICES ASSUME CommandText, [Next]_vars, task' = "command"
               PROVE  /\ closed' => extract_command(text') = meaning'
                      /\ ~closed' => /\ text' \in Text /\ Skipped(text')
                                     /\ meaning' = <<>>
    BY Zenon DEF CommandText
  <2>1. CASE UNCHANGED vars
    <3>1. task' = task /\ text' = text /\ meaning' = meaning /\ closed' = closed
      BY <2>1 DEF vars
    <3> QED
      BY <3>1, Zenon DEF CommandText
  <2>2. CASE AddPiece
    <3>1. task = "command" /\ ~closed /\ closed' = closed
      BY <2>2, Zenon DEF AddPiece
    <3>2. text \in Text /\ Skipped(text) /\ meaning = <<>>
      BY <3>1, Zenon DEF CommandText
    <3>3. PICK p \in Pieces("command") : /\ text' = text \o p.text
                                         /\ meaning' = meaning \o p.meaning
      BY <2>2, <3>1, Zenon DEF AddPiece, Put
    <3>4. Passed(p.text) /\ p.meaning = <<>>
      BY PiecesArePassed, Zenon
    <3>5. text' \in Text /\ Skipped(text')
      BY <3>2, <3>3, <3>4, SkippedBoth, Zenon DEF Passed
    <3>6. <<>> \o <<>> = <<>>
      OBVIOUS
    <3> QED
      BY <3>1, <3>2, <3>3, <3>4, <3>5, <3>6, Zenon
  <2>3. CASE AddLast
    <3>1. task = "command" /\ ~closed /\ closed'
      BY <2>3, Zenon DEF AddLast
    <3>2. text \in Text /\ Skipped(text) /\ meaning = <<>>
      BY <3>1, Zenon DEF CommandText
    <3>3. PICK p \in LastPieces("command") : /\ text' = text \o p.text
                                             /\ meaning' = meaning \o p.meaning
      BY <2>3, <3>1, Zenon DEF AddLast, Put
    <3>4. p.text \in Text /\ NoDigitFirst(p.text)
          /\ extract_command(p.text) = p.meaning
      BY LastIsStatement, Zenon DEF Reads
    <3>5. SkipLead(text \o p.text) = Len(text) + SkipLead(p.text)
      BY <3>2, <3>4, Zenon DEF Skipped
    <3>6. extract_command(text \o p.text) = p.meaning
      BY <3>2, <3>4, <3>5, CommandShift, Zenon
    <3>7. <<>> \o p.meaning = p.meaning
      BY <3>3, LastMeaning
    <3> QED
      BY <3>1, <3>2, <3>3, <3>6, <3>7, Zenon
  <2> QED
    BY <2>1, <2>2, <2>3, Zenon DEF Next
<1>3. CommandText => ExtractFindsCommand
  BY Zenon DEF CommandText, ExtractFindsCommand, Complete
<1> QED
  BY <1>1, <1>2, <1>3, PTL DEF Spec

-----------------------------------------------------------------------------
(* The schema of a USE statement.                                          *)

(* The characters its loops pass. *)
Blank == {c \in Symbol : is_space(c) \/ c = "("}

NameChar == {c \in Symbol : is_ident_char(c) \/ c = "$"}

NoTick == {c \in Symbol : c # "tick"}

(* The loops stop where Span says. *)
LEMMA UseLoops ==
  ASSUME NEW q \in Text, NEW p \in 1..Len(q) + 1
  PROVE  /\ Span(q, p, Blank,
                 SkipWhile(q, p, LAMBDA c : is_space(c) \/ c = "("))
         /\ Span(q, p, NameChar,
                 SkipWhile(q, p, LAMBDA c : is_ident_char(c) \/ c = "$"))
         /\ Span(q, p, NoTick, SkipWhile(q, p, LAMBDA c : c # "tick"))
<1>0. Len(q) \in Nat /\ \A i \in 1..Len(q) : q[i] \in Symbol
  BY DEF Text
<1>a. ASSUME NEW x \in p..Len(q) + 1
      PROVE  /\ x = Len(q) + 1 \/ x \in 1..Len(q)
             /\ \A i \in p..x - 1 : i \in 1..Len(q)
  BY <1>0
<1>1. Span(q, p, Blank, SkipWhile(q, p, LAMBDA c : is_space(c) \/ c = "("))
  <2>1. PICK e : Span(q, p, Blank, e)
    BY SpanExists
  <2> DEFINE P(x) == /\ x = Len(q) + 1 \/ ~(is_space(q[x]) \/ q[x] = "(")
                     /\ \A i \in p..x - 1 : is_space(q[i]) \/ q[i] = "("
  <2>2. ASSUME NEW x \in p..Len(q) + 1 PROVE P(x) <=> Span(q, p, Blank, x)
    BY <1>0, <1>a DEF Span, Blank
  <2>3. e \in p..Len(q) + 1 /\ P(e)
    BY <2>1, <2>2 DEF Span
  <2>4. SkipWhile(q, p, LAMBDA c : is_space(c) \/ c = "(")
          = CHOOSE x \in p..Len(q) + 1 : P(x)
    BY DEF SkipWhile
  <2> HIDE DEF P
  <2> QED
    BY <2>2, <2>3, <2>4, Zenon
<1>2. Span(q, p, NameChar,
           SkipWhile(q, p, LAMBDA c : is_ident_char(c) \/ c = "$"))
  <2>1. PICK e : Span(q, p, NameChar, e)
    BY SpanExists
  <2> DEFINE P(x) == /\ x = Len(q) + 1 \/ ~(is_ident_char(q[x]) \/ q[x] = "$")
                     /\ \A i \in p..x - 1 : is_ident_char(q[i]) \/ q[i] = "$"
  <2>2. ASSUME NEW x \in p..Len(q) + 1 PROVE P(x) <=> Span(q, p, NameChar, x)
    BY <1>0, <1>a DEF Span, NameChar
  <2>3. e \in p..Len(q) + 1 /\ P(e)
    BY <2>1, <2>2 DEF Span
  <2>4. SkipWhile(q, p, LAMBDA c : is_ident_char(c) \/ c = "$")
          = CHOOSE x \in p..Len(q) + 1 : P(x)
    BY DEF SkipWhile
  <2> HIDE DEF P
  <2> QED
    BY <2>2, <2>3, <2>4, Zenon
<1>3. Span(q, p, NoTick, SkipWhile(q, p, LAMBDA c : c # "tick"))
  <2>1. PICK e : Span(q, p, NoTick, e)
    BY SpanExists
  <2> DEFINE P(x) == /\ x = Len(q) + 1 \/ ~(q[x] # "tick")
                     /\ \A i \in p..x - 1 : q[i] # "tick"
  <2>2. ASSUME NEW x \in p..Len(q) + 1 PROVE P(x) <=> Span(q, p, NoTick, x)
    BY <1>0, <1>a DEF Span, NoTick
  <2>3. e \in p..Len(q) + 1 /\ P(e)
    BY <2>1, <2>2 DEF Span
  <2>4. SkipWhile(q, p, LAMBDA c : c # "tick")
          = CHOOSE x \in p..Len(q) + 1 : P(x)
    BY DEF SkipWhile
  <2> HIDE DEF P
  <2> QED
    BY <2>2, <2>3, <2>4, Zenon
<1> QED
  BY <1>1, <1>2, <1>3

(* With the keyword at k, the name w begins at p and ends before e. *)
NameAt(q, p, e, w) ==
  IF q[p] = "tick" THEN Span(q, p + 1, NoTick, e) /\ w = SubSeq(q, p + 1, e - 1)
  ELSE Span(q, p, NameChar, e) /\ w = SubSeq(q, p, e - 1)

Names(q, k, w) ==
  \/ Len(q) - k < 2 /\ w = <<>>
  \/ /\ ~(Len(q) - k < 2)
     /\ \E p : /\ Span(q, k + 3, Space, p)
               /\ \/ p > Len(q) /\ w = <<>>
                  \/ ~(p > Len(q)) /\ \E e : NameAt(q, p, e, w)

(* UseSchema takes this name. *)
LEMMA UseIs ==
  ASSUME NEW q \in Text, NEW k, Span(q, 1, Blank, k),
         extract_command(q) = UseKeyword, NEW w, Names(q, k, w)
  PROVE  UseSchema(q) = w
<1>0. Len(q) \in Nat /\ 1 \in 1..Len(q) + 1 /\ k \in 1..Len(q) + 1
  BY DEF Text, Span
<1>1. SkipWhile(q, 1, LAMBDA c : is_space(c) \/ c = "(") = k
  BY <1>0, UseLoops, SpanUnique
<1>2. CASE Len(q) - k < 2 /\ w = <<>>
  BY <1>1, <1>2 DEF UseSchema
<1>3. CASE ~(Len(q) - k < 2)
  <2>0. k + 3 \in 1..Len(q) + 1
    BY <1>0, <1>3
  <2>1. PICK p : /\ Span(q, k + 3, Space, p)
                 /\ \/ p > Len(q) /\ w = <<>>
                    \/ ~(p > Len(q)) /\ \E e : NameAt(q, p, e, w)
    BY <1>3 DEF Names
  <2>2. SkipWhile(q, k + 3, is_space) = p
    BY <2>0, <2>1, SkipWhileIsSpan, SpanUnique
  <2>3. CASE p > Len(q) /\ w = <<>>
    BY <1>1, <1>3, <2>2, <2>3 DEF UseSchema
  <2>4. CASE ~(p > Len(q))
    <3>1. PICK e : NameAt(q, p, e, w)
      BY <2>1, <2>4
    <3>2. p \in 1..Len(q) + 1 /\ p + 1 \in 1..Len(q) + 1
      BY <1>0, <2>0, <2>1, <2>4 DEF Span
    <3>3. CASE q[p] = "tick"
      <4>1. Span(q, p + 1, NoTick, e) /\ w = SubSeq(q, p + 1, e - 1)
        BY <3>1, <3>3 DEF NameAt
      <4>2. SkipWhile(q, p + 1, LAMBDA c : c # "tick") = e
        BY <3>2, <4>1, UseLoops, SpanUnique
      <4> QED
        BY <1>1, <1>3, <2>2, <2>4, <3>3, <4>1, <4>2 DEF UseSchema
    <3>4. CASE q[p] # "tick"
      <4>1. Span(q, p, NameChar, e) /\ w = SubSeq(q, p, e - 1)
        BY <3>1, <3>4 DEF NameAt
      <4>2. SkipWhile(q, p, LAMBDA c : is_ident_char(c) \/ c = "$") = e
        BY <3>2, <4>1, UseLoops, SpanUnique
      <4> QED
        BY <1>1, <1>3, <2>2, <2>4, <3>4, <4>1, <4>2 DEF UseSchema
    <3> QED
      BY <3>3, <3>4
  <2> QED
    BY <2>1, <2>3, <2>4
<1> QED
  BY <1>2, <1>3 DEF Names

(* The name behind another text is the same. *)
LEMMA NamesShift ==
  ASSUME NEW q \in Text, NEW u \in Text, NEW n \in Nat, Behind(q, n, u),
         NEW k \in 1..Len(u) + 1, NEW w, Names(u, k, w)
  PROVE  Names(q, n + k, w)
<1>0. Len(u) \in Nat /\ Len(q) = n + Len(u) /\ Len(q) \in Nat /\ k \in Nat
  BY DEF Text, Behind
<1>1. Len(q) - (n + k) < 2 <=> Len(u) - k < 2
  BY <1>0
<1>a. ASSUME NEW S, NEW p \in 1..Len(u) + 1, NEW e, Span(u, p, S, e)
      PROVE  Span(q, n + p, S, n + e) /\ e \in p..Len(u) + 1
  <2>1. n + p \in 1..Len(q) + 1
    BY <1>0
  <2>2. PICK f : Span(q, n + p, S, f)
    BY <2>1, SpanExists
  <2>3. f = n + e
    BY <1>a, <2>2, SpanBehind
  <2> QED
    BY <1>a, <2>2, <2>3 DEF Span
<1>b. ASSUME NEW p \in 1..Len(u) + 1, NEW e \in p..Len(u) + 1
      PROVE  SubSeq(q, n + p, (n + e) - 1) = SubSeq(u, p, e - 1)
  <2>1. PICK b \in p - 1..Len(u) : b = e - 1 /\ n + b = (n + e) - 1
    BY <1>0
  <2>2. SubSeq(q, n + p, n + b) = SubSeq(u, p, b)
    BY PartBehind
  <2> QED
    BY <2>1, <2>2
<1>2. CASE Len(u) - k < 2 /\ w = <<>>
  BY <1>1, <1>2 DEF Names
<1>3. CASE ~(Len(u) - k < 2)
  <2>0. k + 3 \in 1..Len(u) + 1 /\ n + (k + 3) = (n + k) + 3
    BY <1>0, <1>3
  <2>1. PICK p : /\ Span(u, k + 3, Space, p)
                 /\ \/ p > Len(u) /\ w = <<>>
                    \/ ~(p > Len(u)) /\ \E e : NameAt(u, p, e, w)
    BY <1>3 DEF Names
  <2>2. Span(q, (n + k) + 3, Space, n + p) /\ p \in k + 3..Len(u) + 1
    BY <1>a, <2>0, <2>1
  <2>3. p \in 1..Len(u) + 1 /\ (n + p > Len(q) <=> p > Len(u))
    BY <1>0, <2>0, <2>2
  <2>4. CASE p > Len(u) /\ w = <<>>
    BY <1>1, <1>3, <2>2, <2>3, <2>4 DEF Names
  <2>5. CASE ~(p > Len(u))
    <3>1. PICK e : NameAt(u, p, e, w)
      BY <2>1, <2>5
    <3>2. p \in 1..Len(u) /\ p + 1 \in 1..Len(u) + 1 /\ q[n + p] = u[p]
          /\ n + (p + 1) = (n + p) + 1
      BY <1>0, <2>3, <2>5 DEF Behind
    <3>3. NameAt(q, n + p, n + e, w)
      <4>1. CASE u[p] = "tick"
        <5>1. Span(u, p + 1, NoTick, e) /\ w = SubSeq(u, p + 1, e - 1)
          BY <3>1, <4>1 DEF NameAt
        <5>2. Span(q, (n + p) + 1, NoTick, n + e) /\ e \in p + 1..Len(u) + 1
          BY <1>a, <3>2, <5>1
        <5>3. SubSeq(q, (n + p) + 1, (n + e) - 1) = w
          BY <1>b, <3>2, <5>1, <5>2
        <5> QED
          BY <3>2, <4>1, <5>2, <5>3 DEF NameAt
      <4>2. CASE u[p] # "tick"
        <5>1. Span(u, p, NameChar, e) /\ w = SubSeq(u, p, e - 1)
          BY <3>1, <4>2 DEF NameAt
        <5>2. Span(q, n + p, NameChar, n + e) /\ e \in p..Len(u) + 1
          BY <1>a, <2>3, <5>1
        <5>3. SubSeq(q, n + p, (n + e) - 1) = w
          BY <1>b, <2>3, <5>1, <5>2
        <5> QED
          BY <3>2, <4>2, <5>2, <5>3 DEF NameAt
      <4> QED
        BY <4>1, <4>2
    <3> QED
      BY <1>1, <1>3, <2>2, <2>3, <2>5, <3>3 DEF Names
  <2> QED
    BY <2>1, <2>4, <2>5
<1> QED
  BY <1>2, <1>3 DEF Names

(* What is read of a USE statement, wherever it stands. *)
UseReads(u, w) ==
  /\ u \in Text /\ NoDigitFirst(u)
  /\ \/ extract_command(u) # UseKeyword /\ w = <<>>
     \/ /\ extract_command(u) = UseKeyword
        /\ \E k : Span(u, 1, Blank, k) /\ Names(u, k, w)

(* It is read of it behind blanks and parentheses. *)
LEMMA UseBehind ==
  ASSUME NEW t \in Text, Skipped(t), \A i \in 1..Len(t) : t[i] \in Blank,
         NEW u, NEW w, UseReads(u, w)
  PROVE  UseSchema(t \o u) = w
<1>0. PICK q \in Text, n \in Nat : q = t \o u /\ n = Len(t) /\ Behind(q, n, u)
  BY ConcatBehind DEF UseReads
<1>1. u \in Text /\ Len(u) \in Nat /\ Len(q) = n + Len(u) /\ Len(q) \in Nat
  BY <1>0 DEF UseReads, Text, Behind
<1>2. extract_command(q) = extract_command(u)
  BY <1>0, <1>1, CommandShift DEF Skipped, UseReads
<1>3. CASE extract_command(u) # UseKeyword /\ w = <<>>
  BY <1>0, <1>2, <1>3 DEF UseSchema
<1>4. CASE extract_command(u) = UseKeyword
  <2>1. PICK k : Span(u, 1, Blank, k) /\ Names(u, k, w)
    BY <1>4 DEF UseReads
  <2>2. k \in 1..Len(u) + 1 /\ k \in Nat
    BY <1>1, <2>1 DEF Span
  <2>3. Names(q, n + k, w)
    BY <1>0, <1>1, <2>1, <2>2, NamesShift
  <2>4. Span(q, 1, Blank, n + k)
    <3>1. \A i \in 1..n : q[i] = t[i]
      BY <1>0, <1>1, InFront
    <3>2. Span(q, n + 1, Blank, n + k)
      <4>1. 1 \in 1..Len(u) + 1 /\ n + 1 \in 1..Len(q) + 1
        BY <1>1
      <4>2. PICK f : Span(q, n + 1, Blank, f)
        BY <4>1, SpanExists
      <4> QED
        BY <1>0, <1>1, <2>1, <4>1, <4>2, SpanBehind
    <3>3. ASSUME NEW i \in 1..(n + k) - 1 PROVE q[i] \in Blank
      <4>1. i \in 1..n \/ i \in n + 1..(n + k) - 1
        BY <2>2
      <4> QED
        BY <1>0, <3>1, <3>2, <4>1 DEF Span
    <3>4. n + k \in 1..Len(q) + 1
      BY <1>1, <2>2
    <3> QED
      BY <3>2, <3>3, <3>4 DEF Span
  <2> QED
    BY <1>0, <1>2, <1>4, <2>3, <2>4, UseIs
<1> QED
  BY <1>3, <1>4 DEF UseReads

(* The symbols of the USE statements. *)
LEMMA UseSymbols ==
  /\ "U" \in Ident /\ "S" \in Ident /\ "E" \in Ident /\ "d" \in Ident
  /\ "tick" \in Symbol /\ "tick" \notin Ident /\ "tick" \notin Space
  /\ "$" \in Symbol /\ "$" \in NameChar /\ "1" \in NameChar /\ "1" \in Symbol
  /\ "/" \notin NameChar /\ ";" \notin NameChar /\ ";" # "tick" /\ " " # "tick"
  /\ "d" # "tick" /\ "-" # "tick"
  /\ \A c \in Ident : /\ c \in NameChar /\ c \in Symbol /\ c \notin Blank
                      /\ c \notin Space
BY Zenon DEF Ident, is_ident_char, is_space, Symbol, Words, Space, Punctuation,
             Digit, NameChar, Blank

(* A text that begins with the word USE. *)
LEMMA KeywordFirst ==
  ASSUME NEW s \in Text, Len(s) >= 3, s[1] = "U", s[2] = "S", s[3] = "E",
         Len(s) > 3 => s[4] \notin Ident
  PROVE  /\ extract_command(s) = UseKeyword /\ NoDigitFirst(s)
         /\ Span(s, 1, Blank, 1)
<1>0. Len(s) \in Nat
  BY DEF Text
<1>1. PICK e \in 2..Len(s) + 1 : e = 4 /\ e \in 1..Len(s) + 1
  BY <1>0
<1>2. \A i \in 1..e - 1 : s[i] \in Ident
  <2>1. \A i \in 1..e - 1 : i = 1 \/ i = 2 \/ i = 3
    BY <1>1
  <2>2. "U" \in Ident /\ "S" \in Ident /\ "E" \in Ident
    BY UseSymbols, Zenon
  <2> QED
    BY <2>1, <2>2
<1>3. e = Len(s) + 1 \/ s[e] \notin Ident
  BY <1>0, <1>1
<1>4. PICK f : Span(s, e, Space, f)
  BY <1>1, SpanExists
<1>5. extract_command(s) = Outcome(s, SubSeq(s, 1, e - 1), f)
  BY <1>2, <1>3, <1>4, WordFirst
<1>6. PICK w : w = SubSeq(s, 1, e - 1)
  OBVIOUS
<1>7. w \in Text /\ Len(w) = 3 /\ \A i \in 1..3 : w[i] = s[i]
  <2>1. \A i \in 1..e - 1 : s[i] \in Symbol
    BY <1>2, IdentSymbols, Zenon
  <2>2. 1 \in Int /\ e - 1 \in Int /\ e - 1 = 3
    BY <1>1
  <2>3. /\ w \in Seq(Symbol)
        /\ Len(w) = IF 1 <= e - 1 THEN (e - 1) - 1 + 1 ELSE 0
        /\ \A i \in 1..(e - 1) - 1 + 1 : w[i] = s[1 + i - 1]
    BY <1>6, <2>1, <2>2, SubSeqProperties
  <2>4. (e - 1) - 1 + 1 = 3 /\ \A i \in 1..3 : 1 + i - 1 = i
    BY <2>2
  <2> QED
    BY <2>2, <2>3, <2>4 DEF Text
<1>8. w = <<"U", "S", "E">>
  <2>1. w[1] = "U" /\ w[2] = "S" /\ w[3] = "E"
    BY <1>7
  <2> QED
    BY <1>7, <2>1 DEF Text
<1>9. w # <<>> /\ w # <<"START">>
  <2>1. <<"U", "S", "E">> # <<>> /\ <<"U", "S", "E">> # <<"START">>
    OBVIOUS
  <2> QED
    BY <1>8, <2>1, Zenon
<1>10. extract_command(s) = UseKeyword
  BY <1>5, <1>6, <1>8, <1>9 DEF Outcome, UseKeyword
<1>11. NoDigitFirst(s)
  BY DEF NoDigitFirst, Digit
<1>12. Span(s, 1, Blank, 1)
  <2>1. s[1] \notin Blank
    BY UseSymbols, Zenon
  <2> QED
    BY <1>0, <2>1 DEF Span
<1> QED
  BY <1>10, <1>11, <1>12

(* A text that begins with another word, of another length. *)
LEMMA NotKeyword ==
  ASSUME NEW s \in Text, NEW e \in 2..Len(s) + 1, e # 4,
         \A i \in 1..e - 1 : s[i] \in Ident,
         e = Len(s) + 1 \/ s[e] \notin Ident, s[1] \notin Digit
  PROVE  UseReads(s, <<>>)
<1>0. Len(s) \in Nat /\ e \in 1..Len(s) + 1
  BY DEF Text
<1>1. PICK f : Span(s, e, Space, f)
  BY <1>0, SpanExists
<1>2. extract_command(s) = Outcome(s, SubSeq(s, 1, e - 1), f)
  BY <1>1, WordFirst
<1>3. PICK w : w = SubSeq(s, 1, e - 1)
  OBVIOUS
<1>4. Len(w) = e - 1
  <2>1. \A i \in 1..e - 1 : s[i] \in Symbol
    BY IdentSymbols, Zenon
  <2>2. 1 \in Int /\ e - 1 \in Int /\ 1 <= e - 1 /\ (e - 1) - 1 + 1 = e - 1
    BY <1>0
  <2>3. Len(w) = IF 1 <= e - 1 THEN (e - 1) - 1 + 1 ELSE 0
    BY <1>3, <2>1, <2>2, SubSeqProperties
  <2> QED
    BY <2>2, <2>3
<1>5. /\ Len(UseKeyword) = 3 /\ Len(w) # 3
      /\ Len(<<"OTHER">>) = 1 /\ Len(<<"BEGIN">>) = 1
  BY <1>0, <1>4 DEF UseKeyword
<1>6. w # UseKeyword /\ <<"OTHER">> # UseKeyword /\ <<"BEGIN">> # UseKeyword
  <2>1. w # UseKeyword
    BY <1>5
  <2>2. <<"OTHER">> # UseKeyword /\ <<"BEGIN">> # UseKeyword
    BY DEF UseKeyword
  <2> QED
    BY <2>1, <2>2
<1>7. extract_command(s) \in {<<"OTHER">>, <<"BEGIN">>, w}
  BY <1>2, <1>3 DEF Outcome
<1> QED
  BY <1>6, <1>7 DEF UseReads, NoDigitFirst

(* USE, blanks up to p, and a name w, of characters in S, from a. *)
UseAndName(s, p, a, S, w) ==
  /\ s \in Text /\ Len(s) >= 4 /\ s[1] = "U" /\ s[2] = "S" /\ s[3] = "E"
  /\ s[4] \notin Ident
  /\ p \in 4..Len(s) /\ s[p] \notin Space
  /\ \A i \in 4..p - 1 : s[i] \in Space
  /\ IF s[p] = "tick" THEN a = p + 1 /\ S = NoTick ELSE a = p /\ S = NameChar
  /\ w \in Text /\ a + Len(w) <= Len(s) + 1
  /\ \A i \in 1..Len(w) : s[a + i - 1] = w[i] /\ w[i] \in S
  /\ a + Len(w) <= Len(s) => s[a + Len(w)] \notin S

(* The name is read, quoted or not. *)
LEMMA UseNamed ==
  ASSUME NEW s, NEW p, NEW a, NEW S, NEW w, UseAndName(s, p, a, S, w)
  PROVE  UseReads(s, w)
<1>a. /\ s \in Text /\ Len(s) >= 4 /\ s[1] = "U" /\ s[2] = "S" /\ s[3] = "E"
      /\ s[4] \notin Ident
      /\ p \in 4..Len(s) /\ s[p] \notin Space
      /\ \A i \in 4..p - 1 : s[i] \in Space
  BY DEF UseAndName
<1>b. /\ IF s[p] = "tick" THEN a = p + 1 /\ S = NoTick
         ELSE a = p /\ S = NameChar
      /\ w \in Text /\ a + Len(w) <= Len(s) + 1
      /\ \A i \in 1..Len(w) : s[a + i - 1] = w[i] /\ w[i] \in S
      /\ a + Len(w) <= Len(s) => s[a + Len(w)] \notin S
  BY DEF UseAndName
<1>0. Len(s) \in Nat /\ Len(w) \in Nat /\ a \in Nat \ {0} /\ p \in Nat
  BY <1>a, <1>b DEF Text
<1>1. /\ extract_command(s) = UseKeyword /\ NoDigitFirst(s)
      /\ Span(s, 1, Blank, 1)
  BY <1>0, <1>a, KeywordFirst
<1>2. PICK k \in Nat : k = 1
  OBVIOUS
<1>3. Span(s, k + 3, Space, p)
  BY <1>0, <1>2, <1>a DEF Span
<1>4. PICK e \in Nat : e = a + Len(w)
  BY <1>0
<1>5. Span(s, a, S, e)
  <2>1. ASSUME NEW j \in a..e - 1 PROVE s[j] \in S
    <3>1. j - a + 1 \in 1..Len(w) /\ a + (j - a + 1) - 1 = j
      BY <1>0, <1>4
    <3> QED
      BY <1>b, <3>1
  <2> QED
    BY <1>0, <1>4, <1>b, <2>1 DEF Span
<1>6. SubSeq(s, a, e - 1) = w
  <2>1. At(s, a, w)
    BY <1>0, <1>a, <1>b, AtMeans
  <2> QED
    BY <1>0, <1>4, <2>1 DEF At
<1>7. NameAt(s, p, e, w)
  BY <1>5, <1>6, <1>b DEF NameAt
<1>8. Names(s, k, w)
  <2>1. ~(Len(s) - k < 2) /\ ~(p > Len(s))
    BY <1>0, <1>2, <1>a
  <2> QED
    BY <1>3, <1>7, <2>1 DEF Names
<1> QED
  BY <1>1, <1>2, <1>8, <1>a DEF UseReads

(* The keyword and what follows it. *)
LEMMA KeywordThen ==
  ASSUME NEW s \in Text, NEW v \in Text, Len(s) = 3 + Len(v),
         s[1] = "U", s[2] = "S", s[3] = "E",
         \A i \in 1..Len(v) : s[3 + i] = v[i]
  PROVE  UseKeyword \o v = s
<1>1. "U" \in Symbol /\ "S" \in Symbol /\ "E" \in Symbol
  BY UseSymbols, Zenon
<1>2. PICK k : k = UseKeyword
  OBVIOUS
<1>3. k = <<"U", "S", "E">>
  BY <1>2 DEF UseKeyword
<1>4. k \in Text /\ Len(k) = 3 /\ k[1] = "U" /\ k[2] = "S" /\ k[3] = "E"
  BY <1>1, <1>3 DEF Text
<1>5. PICK c : c = k \o v
  OBVIOUS
<1>6. /\ c \in Text /\ Len(c) = 3 + Len(v)
      /\ \A i \in 1..3 : c[i] = k[i]
      /\ \A i \in 1..Len(v) : c[3 + i] = v[i]
  <2>1. c \in Text /\ Len(c) = 3 + Len(v)
    BY <1>4, <1>5, ConcatBehind DEF Behind
  <2>2. \A i \in 1..3 : c[i] = k[i]
    BY <1>4, <1>5, InFront
  <2>3. Behind(c, Len(k), v)
    BY <1>4, <1>5, ConcatBehind
  <2> QED
    BY <1>4, <2>1, <2>2, <2>3 DEF Behind
<1>7. ASSUME NEW i \in 1..Len(c) PROVE c[i] = s[i]
  <2>1. Len(v) \in Nat
    BY DEF Text
  <2>2. \/ i = 1 \/ i = 2 \/ i = 3
        \/ \E j \in 1..Len(v) : i = 3 + j
    <3>1. i \in 1..3 \/ (i - 3 \in 1..Len(v) /\ i = 3 + (i - 3))
      BY <1>6, <2>1
    <3> QED
      BY <3>1
  <2>3. CASE i = 1 \/ i = 2 \/ i = 3
    BY <1>4, <1>6, <2>3
  <2>4. CASE \E j \in 1..Len(v) : i = 3 + j
    BY <1>6, <2>4
  <2> QED
    BY <2>2, <2>3, <2>4
<1> QED
  BY <1>2, <1>5, <1>6, <1>7, SeqEqual DEF Text

(* A blank and a name. *)
LEMMA UseBlank == UseReads(UseKeyword \o <<" ", "d">>, <<"d">>)
<1>1. PICK b \in Symbol : b = " "
  BY MoreSymbols, Symbols, Zenon
<1>2. b \in Space /\ b \notin Ident /\ b # "tick"
  BY <1>1, UseSymbols, OtherSymbols, Zenon
<1>3. PICK s : s = <<"U", "S", "E", b, "d">>
  OBVIOUS
<1>4. /\ "E" \in Symbol
      /\ "S" \in Symbol
      /\ "U" \in Symbol
      /\ "d" \in Symbol
  BY Symbols, UseSymbols, Zenon
<1>5. <<"U", "S", "E", b, "d">> \in Text
  BY <1>4 DEF Text
<1>6. s \in Text
  BY <1>3, <1>5, Zenon
<1>7. /\ Len(s) = 5
      /\ s[1] = "U"
      /\ s[2] = "S"
      /\ s[3] = "E"
      /\ s[4] = b
      /\ s[5] = "d"
  BY <1>3
<1>8. PICK w : w = <<"d">>
  OBVIOUS
<1>9. <<"d">> \in Text
  BY <1>4 DEF Text
<1>10. w \in Text
  BY <1>8, <1>9, Zenon
<1>11. Len(w) = 1 /\ w[1] = "d"
  BY <1>8
<1>12. PICK p \in 4..Len(s), a \in Nat : p = 5 /\ a = 5
  BY <1>7
<1>13. s[4] \notin Ident /\ s[p] \notin Space
  <2>1. "\n" \notin Ident /\ "tick" \notin Ident /\ "tick" \notin Space
        /\ "d" \notin Space
    BY UseSymbols, OtherSymbols, Zenon
  <2> QED
    BY <1>2, <1>7, <1>12, <2>1
<1>14. \A i \in 4..p - 1 : s[i] \in Space
  <2>1. \A i \in 4..p - 1 : i = 4
    BY <1>12
  <2>2. "\n" \in Space
    BY OtherSymbols, Zenon
  <2> QED
    BY <1>2, <1>7, <2>1, <2>2
<1>15. IF s[p] = "tick" THEN a = p + 1 /\ NameChar = NoTick
       ELSE a = p /\ NameChar = NameChar
  BY <1>2, <1>7, <1>12
<1>16. \A i \in 1..Len(w) : s[a + i - 1] = w[i] /\ w[i] \in NameChar
  <2>1. \A i \in 1..Len(w) : i = 1
    BY <1>11
  <2>2. a + 1 - 1 = 5
    BY <1>12
  <2>3. "d" \in NameChar
    BY UseSymbols, Zenon
  <2> QED
    BY <1>7, <1>11, <2>1, <2>2, <2>3
<1>17. /\ a + Len(w) <= Len(s) + 1
       /\ a + Len(w) <= Len(s) => s[a + Len(w)] \notin NameChar
  BY <1>7, <1>11, <1>12
<1>18. UseAndName(s, p, a, NameChar, w)
  BY <1>6, <1>7, <1>10, <1>12, <1>13, <1>14, <1>15, <1>16, <1>17 DEF UseAndName
<1>19. UseReads(s, w)
  BY <1>18, UseNamed, Zenon
<1>20. UseKeyword \o <<b, "d">> = s
  <2>1. PICK v : v = <<b, "d">>
    OBVIOUS
  <2>2. <<b, "d">> \in Text
    BY <1>4 DEF Text
  <2>3. v \in Text
    BY <2>1, <2>2, Zenon
  <2>4. /\ Len(v) = 2
        /\ v[1] = b
        /\ v[2] = "d"
    BY <2>1
  <2>5. Len(s) = 3 + Len(v)
    BY <1>7, <2>4
  <2>6. ASSUME NEW i \in 1..Len(v) PROVE s[3 + i] = v[i]
    <3>1. i = 1 \/ i = 2
      BY <2>4
    <3> QED
      BY <1>7, <2>4, <3>1
  <2>7. UseKeyword \o v = s
    BY <1>6, <1>7, <2>3, <2>5, <2>6, KeywordThen
  <2> QED
    BY <2>1, <2>7, Zenon
<1> QED
  BY <1>1, <1>8, <1>19, <1>20, Zenon

(* Two blanks and a name of several symbols. *)
LEMMA UseDollar == UseReads(UseKeyword \o <<"\n", " ", "d", "$", "1", ";">>, <<"d", "$", "1">>)
<1>1. PICK b \in Symbol, z \in Symbol : b = " " /\ z = ";"
  BY MoreSymbols, Symbols, Zenon
<1>2. b \in Space /\ b \notin Ident /\ b # "tick" /\ z \notin NameChar /\ z \notin Space /\ z # "tick"
  BY <1>1, UseSymbols, OtherSymbols, Zenon
<1>3. PICK s : s = <<"U", "S", "E", "\n", b, "d", "$", "1", z>>
  OBVIOUS
<1>4. /\ "\n" \in Symbol
      /\ "$" \in Symbol
      /\ "1" \in Symbol
      /\ "E" \in Symbol
      /\ "S" \in Symbol
      /\ "U" \in Symbol
      /\ "d" \in Symbol
  BY Symbols, UseSymbols, Zenon
<1>5. <<"U", "S", "E", "\n", b, "d", "$", "1", z>> \in Text
  BY <1>4 DEF Text
<1>6. s \in Text
  BY <1>3, <1>5, Zenon
<1>7. /\ Len(s) = 9
      /\ s[1] = "U"
      /\ s[2] = "S"
      /\ s[3] = "E"
      /\ s[4] = "\n"
      /\ s[5] = b
      /\ s[6] = "d"
      /\ s[7] = "$"
      /\ s[8] = "1"
      /\ s[9] = z
  BY <1>3
<1>8. PICK w : w = <<"d", "$", "1">>
  OBVIOUS
<1>9. <<"d", "$", "1">> \in Text
  BY <1>4 DEF Text
<1>10. w \in Text
  BY <1>8, <1>9, Zenon
<1>11. Len(w) = 3 /\ w[1] = "d" /\ w[2] = "$" /\ w[3] = "1"
  BY <1>8
<1>12. PICK p \in 4..Len(s), a \in Nat : p = 6 /\ a = 6
  BY <1>7
<1>13. s[4] \notin Ident /\ s[p] \notin Space
  <2>1. "\n" \notin Ident /\ "tick" \notin Ident /\ "tick" \notin Space
        /\ "d" \notin Space
    BY UseSymbols, OtherSymbols, Zenon
  <2> QED
    BY <1>2, <1>7, <1>12, <2>1
<1>14. \A i \in 4..p - 1 : s[i] \in Space
  <2>1. \A i \in 4..p - 1 : i = 4 \/ i = 5
    BY <1>12
  <2>2. "\n" \in Space
    BY OtherSymbols, Zenon
  <2> QED
    BY <1>2, <1>7, <2>1, <2>2
<1>15. IF s[p] = "tick" THEN a = p + 1 /\ NameChar = NoTick
       ELSE a = p /\ NameChar = NameChar
  BY <1>2, <1>7, <1>12
<1>16. \A i \in 1..Len(w) : s[a + i - 1] = w[i] /\ w[i] \in NameChar
  <2>1. \A i \in 1..Len(w) : i = 1 \/ i = 2 \/ i = 3
    BY <1>11
  <2>2. a + 1 - 1 = 6 /\ a + 2 - 1 = 7 /\ a + 3 - 1 = 8
    BY <1>12
  <2>3. "$" \in NameChar /\ "1" \in NameChar /\ "d" \in NameChar
    BY UseSymbols, Zenon
  <2> QED
    BY <1>7, <1>11, <2>1, <2>2, <2>3
<1>17. /\ a + Len(w) <= Len(s) + 1
       /\ a + Len(w) <= Len(s) => s[a + Len(w)] \notin NameChar
  <2>1. a + Len(w) = 9
    BY <1>11, <1>12
  <2>2. s[9] \notin NameChar
    BY <1>2, <1>7
  <2> QED
    BY <1>7, <2>1, <2>2
<1>18. UseAndName(s, p, a, NameChar, w)
  BY <1>6, <1>7, <1>10, <1>12, <1>13, <1>14, <1>15, <1>16, <1>17 DEF UseAndName
<1>19. UseReads(s, w)
  BY <1>18, UseNamed, Zenon
<1>20. UseKeyword \o <<"\n", b, "d", "$", "1", z>> = s
  <2>1. PICK v : v = <<"\n", b, "d", "$", "1", z>>
    OBVIOUS
  <2>2. <<"\n", b, "d", "$", "1", z>> \in Text
    BY <1>4 DEF Text
  <2>3. v \in Text
    BY <2>1, <2>2, Zenon
  <2>4. /\ Len(v) = 6
        /\ v[1] = "\n"
        /\ v[2] = b
        /\ v[3] = "d"
        /\ v[4] = "$"
        /\ v[5] = "1"
        /\ v[6] = z
    BY <2>1
  <2>5. Len(s) = 3 + Len(v)
    BY <1>7, <2>4
  <2>6. ASSUME NEW i \in 1..Len(v) PROVE s[3 + i] = v[i]
    <3>1. i = 1 \/ i = 2 \/ i = 3 \/ i = 4 \/ i = 5 \/ i = 6
      BY <2>4
    <3> QED
      BY <1>7, <2>4, <3>1
  <2>7. UseKeyword \o v = s
    BY <1>6, <1>7, <2>3, <2>5, <2>6, KeywordThen
  <2> QED
    BY <2>1, <2>7, Zenon
<1> QED
  BY <1>1, <1>8, <1>19, <1>20, Zenon

(* A quoted name. *)
LEMMA UseQuoted == UseReads(UseKeyword \o <<"tick", "d", "-", " ", "tick", ";">>, <<"d", "-", " ">>)
<1>1. PICK b \in Symbol, z \in Symbol : b = " " /\ z = ";"
  BY MoreSymbols, Symbols, Zenon
<1>2. b \in Space /\ b \notin Ident /\ b # "tick" /\ z \notin NameChar /\ z \notin Space /\ z # "tick"
  BY <1>1, UseSymbols, OtherSymbols, Zenon
<1>3. PICK s : s = <<"U", "S", "E", "tick", "d", "-", b, "tick", z>>
  OBVIOUS
<1>4. /\ "-" \in Symbol
      /\ "E" \in Symbol
      /\ "S" \in Symbol
      /\ "U" \in Symbol
      /\ "d" \in Symbol
      /\ "tick" \in Symbol
  BY Symbols, UseSymbols, Zenon
<1>5. <<"U", "S", "E", "tick", "d", "-", b, "tick", z>> \in Text
  BY <1>4 DEF Text
<1>6. s \in Text
  BY <1>3, <1>5, Zenon
<1>7. /\ Len(s) = 9
      /\ s[1] = "U"
      /\ s[2] = "S"
      /\ s[3] = "E"
      /\ s[4] = "tick"
      /\ s[5] = "d"
      /\ s[6] = "-"
      /\ s[7] = b
      /\ s[8] = "tick"
      /\ s[9] = z
  BY <1>3
<1>8. PICK w : w = <<"d", "-", b>>
  OBVIOUS
<1>9. <<"d", "-", b>> \in Text
  BY <1>4 DEF Text
<1>10. w \in Text
  BY <1>8, <1>9, Zenon
<1>11. Len(w) = 3 /\ w[1] = "d" /\ w[2] = "-" /\ w[3] = b
  BY <1>8
<1>12. PICK p \in 4..Len(s), a \in Nat : p = 4 /\ a = 5
  BY <1>7
<1>13. s[4] \notin Ident /\ s[p] \notin Space
  <2>1. "\n" \notin Ident /\ "tick" \notin Ident /\ "tick" \notin Space
        /\ "d" \notin Space
    BY UseSymbols, OtherSymbols, Zenon
  <2> QED
    BY <1>2, <1>7, <1>12, <2>1
<1>14. \A i \in 4..p - 1 : s[i] \in Space
  BY <1>12
<1>15. IF s[p] = "tick" THEN a = p + 1 /\ NoTick = NoTick
       ELSE a = p /\ NoTick = NameChar
  BY <1>2, <1>7, <1>12
<1>16. \A i \in 1..Len(w) : s[a + i - 1] = w[i] /\ w[i] \in NoTick
  <2>1. \A i \in 1..Len(w) : i = 1 \/ i = 2 \/ i = 3
    BY <1>11
  <2>2. a + 1 - 1 = 5 /\ a + 2 - 1 = 6 /\ a + 3 - 1 = 7
    BY <1>12
  <2>3. b \in NoTick /\ "-" \in NoTick /\ "d" \in NoTick
    BY <1>1, <1>2, <1>4, UseSymbols, Zenon DEF NoTick
  <2> QED
    BY <1>7, <1>11, <2>1, <2>2, <2>3
<1>17. /\ a + Len(w) <= Len(s) + 1
       /\ a + Len(w) <= Len(s) => s[a + Len(w)] \notin NoTick
  <2>1. a + Len(w) = 8
    BY <1>11, <1>12
  <2>2. s[8] \notin NoTick
    BY <1>7 DEF NoTick
  <2> QED
    BY <1>7, <2>1, <2>2
<1>18. UseAndName(s, p, a, NoTick, w)
  BY <1>6, <1>7, <1>10, <1>12, <1>13, <1>14, <1>15, <1>16, <1>17 DEF UseAndName
<1>19. UseReads(s, w)
  BY <1>18, UseNamed, Zenon
<1>20. UseKeyword \o <<"tick", "d", "-", b, "tick", z>> = s
  <2>1. PICK v : v = <<"tick", "d", "-", b, "tick", z>>
    OBVIOUS
  <2>2. <<"tick", "d", "-", b, "tick", z>> \in Text
    BY <1>4 DEF Text
  <2>3. v \in Text
    BY <2>1, <2>2, Zenon
  <2>4. /\ Len(v) = 6
        /\ v[1] = "tick"
        /\ v[2] = "d"
        /\ v[3] = "-"
        /\ v[4] = b
        /\ v[5] = "tick"
        /\ v[6] = z
    BY <2>1
  <2>5. Len(s) = 3 + Len(v)
    BY <1>7, <2>4
  <2>6. ASSUME NEW i \in 1..Len(v) PROVE s[3 + i] = v[i]
    <3>1. i = 1 \/ i = 2 \/ i = 3 \/ i = 4 \/ i = 5 \/ i = 6
      BY <2>4
    <3> QED
      BY <1>7, <2>4, <3>1
  <2>7. UseKeyword \o v = s
    BY <1>6, <1>7, <2>3, <2>5, <2>6, KeywordThen
  <2> QED
    BY <2>1, <2>7, Zenon
<1> QED
  BY <1>1, <1>8, <1>19, <1>20, Zenon

(* A name and a comment. *)
LEMMA UseComment == UseReads(UseKeyword \o <<" ", "d", "/", "*", "x", "*", "/">>, <<"d">>)
<1>1. PICK b \in Symbol : b = " "
  BY MoreSymbols, Symbols, Zenon
<1>2. b \in Space /\ b \notin Ident /\ b # "tick"
  BY <1>1, UseSymbols, OtherSymbols, Zenon
<1>3. PICK s : s = <<"U", "S", "E", b, "d", "/", "*", "x", "*", "/">>
  OBVIOUS
<1>4. /\ "*" \in Symbol
      /\ "/" \in Symbol
      /\ "E" \in Symbol
      /\ "S" \in Symbol
      /\ "U" \in Symbol
      /\ "d" \in Symbol
      /\ "x" \in Symbol
  BY Symbols, UseSymbols, Zenon
<1>5. <<"U", "S", "E", b, "d", "/", "*", "x", "*", "/">> \in Text
  BY <1>4 DEF Text
<1>6. s \in Text
  BY <1>3, <1>5, Zenon
<1>7. /\ Len(s) = 10
      /\ s[1] = "U"
      /\ s[2] = "S"
      /\ s[3] = "E"
      /\ s[4] = b
      /\ s[5] = "d"
      /\ s[6] = "/"
      /\ s[7] = "*"
      /\ s[8] = "x"
      /\ s[9] = "*"
      /\ s[10] = "/"
  BY <1>3
<1>8. PICK w : w = <<"d">>
  OBVIOUS
<1>9. <<"d">> \in Text
  BY <1>4 DEF Text
<1>10. w \in Text
  BY <1>8, <1>9, Zenon
<1>11. Len(w) = 1 /\ w[1] = "d"
  BY <1>8
<1>12. PICK p \in 4..Len(s), a \in Nat : p = 5 /\ a = 5
  BY <1>7
<1>13. s[4] \notin Ident /\ s[p] \notin Space
  <2>1. "\n" \notin Ident /\ "tick" \notin Ident /\ "tick" \notin Space
        /\ "d" \notin Space
    BY UseSymbols, OtherSymbols, Zenon
  <2> QED
    BY <1>2, <1>7, <1>12, <2>1
<1>14. \A i \in 4..p - 1 : s[i] \in Space
  <2>1. \A i \in 4..p - 1 : i = 4
    BY <1>12
  <2>2. "\n" \in Space
    BY OtherSymbols, Zenon
  <2> QED
    BY <1>2, <1>7, <2>1, <2>2
<1>15. IF s[p] = "tick" THEN a = p + 1 /\ NameChar = NoTick
       ELSE a = p /\ NameChar = NameChar
  BY <1>2, <1>7, <1>12
<1>16. \A i \in 1..Len(w) : s[a + i - 1] = w[i] /\ w[i] \in NameChar
  <2>1. \A i \in 1..Len(w) : i = 1
    BY <1>11
  <2>2. a + 1 - 1 = 5
    BY <1>12
  <2>3. "d" \in NameChar
    BY UseSymbols, Zenon
  <2> QED
    BY <1>7, <1>11, <2>1, <2>2, <2>3
<1>17. /\ a + Len(w) <= Len(s) + 1
       /\ a + Len(w) <= Len(s) => s[a + Len(w)] \notin NameChar
  <2>1. a + Len(w) = 6
    BY <1>11, <1>12
  <2>2. s[6] \notin NameChar
    BY <1>7, UseSymbols, Zenon
  <2> QED
    BY <1>7, <2>1, <2>2
<1>18. UseAndName(s, p, a, NameChar, w)
  BY <1>6, <1>7, <1>10, <1>12, <1>13, <1>14, <1>15, <1>16, <1>17 DEF UseAndName
<1>19. UseReads(s, w)
  BY <1>18, UseNamed, Zenon
<1>20. UseKeyword \o <<b, "d", "/", "*", "x", "*", "/">> = s
  <2>1. PICK v : v = <<b, "d", "/", "*", "x", "*", "/">>
    OBVIOUS
  <2>2. <<b, "d", "/", "*", "x", "*", "/">> \in Text
    BY <1>4 DEF Text
  <2>3. v \in Text
    BY <2>1, <2>2, Zenon
  <2>4. /\ Len(v) = 7
        /\ v[1] = b
        /\ v[2] = "d"
        /\ v[3] = "/"
        /\ v[4] = "*"
        /\ v[5] = "x"
        /\ v[6] = "*"
        /\ v[7] = "/"
    BY <2>1
  <2>5. Len(s) = 3 + Len(v)
    BY <1>7, <2>4
  <2>6. ASSUME NEW i \in 1..Len(v) PROVE s[3 + i] = v[i]
    <3>1. i = 1 \/ i = 2 \/ i = 3 \/ i = 4 \/ i = 5 \/ i = 6 \/ i = 7
      BY <2>4
    <3> QED
      BY <1>7, <2>4, <3>1
  <2>7. UseKeyword \o v = s
    BY <1>6, <1>7, <2>3, <2>5, <2>6, KeywordThen
  <2> QED
    BY <2>1, <2>7, Zenon
<1> QED
  BY <1>1, <1>8, <1>19, <1>20, Zenon

(* No name. *)
LEMMA UseNoName == UseReads(UseKeyword \o <<" ", ";">>, <<>>)
<1>1. PICK b \in Symbol, z \in Symbol : b = " " /\ z = ";"
  BY MoreSymbols, Symbols, Zenon
<1>2. b \in Space /\ b \notin Ident /\ b # "tick" /\ z \notin NameChar /\ z \notin Space /\ z # "tick"
  BY <1>1, UseSymbols, OtherSymbols, Zenon
<1>3. PICK s : s = <<"U", "S", "E", b, z>>
  OBVIOUS
<1>4. /\ "E" \in Symbol
      /\ "S" \in Symbol
      /\ "U" \in Symbol
  BY Symbols, UseSymbols, Zenon
<1>5. <<"U", "S", "E", b, z>> \in Text
  BY <1>4 DEF Text
<1>6. s \in Text
  BY <1>3, <1>5, Zenon
<1>7. /\ Len(s) = 5
      /\ s[1] = "U"
      /\ s[2] = "S"
      /\ s[3] = "E"
      /\ s[4] = b
      /\ s[5] = z
  BY <1>3
<1>8. PICK w : w = <<>>
  OBVIOUS
<1>9. <<>> \in Text
  BY <1>4 DEF Text
<1>10. w \in Text
  BY <1>8, <1>9, Zenon
<1>11. Len(w) = 0
  BY <1>8
<1>12. PICK p \in 4..Len(s), a \in Nat : p = 5 /\ a = 5
  BY <1>7
<1>13. s[4] \notin Ident /\ s[p] \notin Space
  <2>1. "\n" \notin Ident /\ "tick" \notin Ident /\ "tick" \notin Space
        /\ "d" \notin Space
    BY UseSymbols, OtherSymbols, Zenon
  <2> QED
    BY <1>2, <1>7, <1>12, <2>1
<1>14. \A i \in 4..p - 1 : s[i] \in Space
  <2>1. \A i \in 4..p - 1 : i = 4
    BY <1>12
  <2>2. "\n" \in Space
    BY OtherSymbols, Zenon
  <2> QED
    BY <1>2, <1>7, <2>1, <2>2
<1>15. IF s[p] = "tick" THEN a = p + 1 /\ NameChar = NoTick
       ELSE a = p /\ NameChar = NameChar
  BY <1>2, <1>7, <1>12
<1>16. \A i \in 1..Len(w) : s[a + i - 1] = w[i] /\ w[i] \in NameChar
  BY <1>11
<1>17. /\ a + Len(w) <= Len(s) + 1
       /\ a + Len(w) <= Len(s) => s[a + Len(w)] \notin NameChar
  <2>1. a + Len(w) = 5
    BY <1>11, <1>12
  <2>2. s[5] \notin NameChar
    BY <1>2, <1>7
  <2> QED
    BY <1>7, <2>1, <2>2
<1>18. UseAndName(s, p, a, NameChar, w)
  BY <1>6, <1>7, <1>10, <1>12, <1>13, <1>14, <1>15, <1>16, <1>17 DEF UseAndName
<1>19. UseReads(s, w)
  BY <1>18, UseNamed, Zenon
<1>20. UseKeyword \o <<b, z>> = s
  <2>1. PICK v : v = <<b, z>>
    OBVIOUS
  <2>2. <<b, z>> \in Text
    BY <1>4 DEF Text
  <2>3. v \in Text
    BY <2>1, <2>2, Zenon
  <2>4. /\ Len(v) = 2
        /\ v[1] = b
        /\ v[2] = z
    BY <2>1
  <2>5. Len(s) = 3 + Len(v)
    BY <1>7, <2>4
  <2>6. ASSUME NEW i \in 1..Len(v) PROVE s[3 + i] = v[i]
    <3>1. i = 1 \/ i = 2
      BY <2>4
    <3> QED
      BY <1>7, <2>4, <3>1
  <2>7. UseKeyword \o v = s
    BY <1>6, <1>7, <2>3, <2>5, <2>6, KeywordThen
  <2> QED
    BY <2>1, <2>7, Zenon
<1> QED
  BY <1>1, <1>8, <1>19, <1>20, Zenon

(* The keyword alone. *)
LEMMA UseAlone == UseReads(UseKeyword, <<>>)
<1>1. PICK s : s = UseKeyword
  OBVIOUS
<1>2. "U" \in Symbol /\ "S" \in Symbol /\ "E" \in Symbol
  BY UseSymbols, Zenon
<1>3. s \in Text /\ Len(s) = 3 /\ s[1] = "U" /\ s[2] = "S" /\ s[3] = "E"
  BY <1>1, <1>2 DEF UseKeyword, Text
<1>4. /\ extract_command(s) = UseKeyword /\ NoDigitFirst(s)
      /\ Span(s, 1, Blank, 1)
  BY <1>3, KeywordFirst
<1>5. Names(s, 1, <<>>)
  <2>1. Span(s, 1 + 3, Space, 4)
    BY <1>3 DEF Span
  <2>2. ~(Len(s) - 1 < 2) /\ 4 > Len(s)
    BY <1>3
  <2> QED
    BY <2>1, <2>2 DEF Names
<1> QED
  BY <1>1, <1>3, <1>4, <1>5 DEF UseReads

(* The keyword and more of a word. *)
LEMMA UseLonger == UseReads(UseKeyword \o <<"_", " ", "d">>, <<>>)
<1>1. PICK b \in Symbol, c \in Symbol : b = " " /\ c = "_"
  BY MoreSymbols, Symbols, Zenon
<1>2. b \notin Ident /\ c \in Ident
  BY <1>1, IdentSymbols, OtherSymbols, Zenon
<1>3. /\ "U" \in Ident /\ "S" \in Ident /\ "E" \in Ident
      /\ "U" \in Symbol /\ "S" \in Symbol /\ "E" \in Symbol /\ "d" \in Symbol
  BY UseSymbols, Zenon
<1>4. PICK s : s = <<"U", "S", "E", c, b, "d">>
  OBVIOUS
<1>5. <<"U", "S", "E", c, b, "d">> \in Text
  BY <1>3 DEF Text
<1>6. s \in Text
  BY <1>4, <1>5, Zenon
<1>7. /\ Len(s) = 6
      /\ s[1] = "U"
      /\ s[2] = "S"
      /\ s[3] = "E"
      /\ s[4] = c
      /\ s[5] = b
      /\ s[6] = "d"
  BY <1>4
<1>8. PICK e \in 2..Len(s) + 1 : e = 5
  BY <1>7
<1>9. \A i \in 1..e - 1 : s[i] \in Ident
  <2>1. \A i \in 1..e - 1 : i = 1 \/ i = 2 \/ i = 3 \/ i = 4
    BY <1>8
  <2> QED
    BY <1>2, <1>3, <1>7, <2>1
<1>10. s[e] \notin Ident /\ e # 4 /\ s[1] \notin Digit
  BY <1>2, <1>7, <1>8 DEF Digit
<1>11. UseReads(s, <<>>)
  BY <1>6, <1>9, <1>10, NotKeyword
<1>12. UseKeyword \o <<c, b, "d">> = s
  <2>1. PICK v : v = <<c, b, "d">>
    OBVIOUS
  <2>2. <<c, b, "d">> \in Text
    BY <1>3 DEF Text
  <2>3. v \in Text
    BY <2>1, <2>2, Zenon
  <2>4. Len(v) = 3 /\ v[1] = c /\ v[2] = b /\ v[3] = "d"
    BY <2>1
  <2>5. Len(s) = 3 + Len(v)
    BY <1>7, <2>4
  <2>6. ASSUME NEW i \in 1..Len(v) PROVE s[3 + i] = v[i]
    <3>1. i = 1 \/ i = 2 \/ i = 3
      BY <2>4
    <3> QED
      BY <1>7, <2>4, <3>1
  <2>7. UseKeyword \o v = s
    BY <1>6, <1>7, <2>3, <2>5, <2>6, KeywordThen
  <2> QED
    BY <2>1, <2>7, Zenon
<1> QED
  BY <1>1, <1>11, <1>12, Zenon

(* Less than the keyword. *)
LEMMA UseShorter == UseReads(<<"U", "S">>, <<>>)
<1>1. PICK s : s = <<"U", "S">>
  OBVIOUS
<1>2. "U" \in Ident /\ "S" \in Ident /\ "U" \in Symbol /\ "S" \in Symbol
  BY UseSymbols, Zenon
<1>3. s \in Text /\ Len(s) = 2 /\ s[1] = "U" /\ s[2] = "S"
  BY <1>1, <1>2 DEF Text
<1>4. PICK e \in 2..Len(s) + 1 : e = 3 /\ e = Len(s) + 1
  BY <1>3
<1>5. \A i \in 1..e - 1 : s[i] \in Ident
  <2>1. \A i \in 1..e - 1 : i = 1 \/ i = 2
    BY <1>4
  <2> QED
    BY <1>2, <1>3, <2>1
<1>6. e # 4 /\ s[1] \notin Digit
  BY <1>3, <1>4 DEF Digit
<1>7. UseReads(s, <<>>)
  BY <1>3, <1>4, <1>5, <1>6, NotKeyword
<1> QED
  BY <1>1, <1>7, Zenon

(* Another command. *)
LEMMA UseNot == UseReads(<<"SELECT", " ", "d">>, <<>>)
<1>1. PICK b \in Symbol : b = " "
  BY Symbols, Zenon
<1>2. b \notin Ident /\ "SELECT" \in Ident /\ "SELECT" \in Symbol /\ "d" \in Symbol
  BY <1>1, IdentSymbols, OtherSymbols, UseSymbols, Zenon
<1>3. PICK s : s = <<"SELECT", b, "d">>
  OBVIOUS
<1>4. s \in Text /\ Len(s) = 3 /\ s[1] = "SELECT" /\ s[2] = b
  BY <1>2, <1>3 DEF Text
<1>5. PICK e \in 2..Len(s) + 1 : e = 2
  BY <1>4
<1>6. \A i \in 1..e - 1 : s[i] \in Ident
  <2>1. \A i \in 1..e - 1 : i = 1
    BY <1>5
  <2> QED
    BY <1>2, <1>4, <2>1
<1>7. s[e] \notin Ident /\ e # 4 /\ s[1] \notin Digit
  BY <1>2, <1>4, <1>5 DEF Digit
<1>8. UseReads(s, <<>>)
  BY <1>4, <1>6, <1>7, NotKeyword
<1> QED
  BY <1>1, <1>3, <1>8, Zenon

(* Every statement is read as the schema it names, and means a sequence. *)
LEMMA UsesAreRead ==
  ASSUME NEW p \in LastPieces("use")
  PROVE  UseReads(p.text, p.meaning) /\ <<>> \o p.meaning = p.meaning
<1>1. \A a, b, c : /\ <<>> \o <<>> = <<>> /\ <<>> \o <<a>> = <<a>>
                   /\ <<>> \o <<a, b, c>> = <<a, b, c>>
  OBVIOUS
<1>2. LastPieces("use") = Uses
  BY Zenon DEF LastPieces
<1>3. ASSUME NEW t, NEW m, UseReads(t, m), <<>> \o m = m, p = Piece(t, m)
      PROVE  UseReads(p.text, p.meaning) /\ <<>> \o p.meaning = p.meaning
  <2>1. p.text = t /\ p.meaning = m
    BY <1>3, PieceFields, Zenon
  <2> QED
    BY <1>3, <2>1, Zenon
<1>4. /\ <<>> \o <<"d">> = <<"d">> /\ <<>> \o <<"d", "$", "1">> = <<"d", "$", "1">>
      /\ <<>> \o <<"d", "-", " ">> = <<"d", "-", " ">> /\ <<>> \o <<>> = <<>>
  BY <1>1, Zenon
<1> QED
  BY <1>2, <1>3, <1>4, UseBlank, UseDollar, UseQuoted, UseComment, UseNoName,
     UseAlone, UseLonger, UseShorter, UseNot, Zenon DEF Uses

(* A piece in front is one blank or parenthesis. *)
LEMMA UsePieces ==
  ASSUME NEW p \in Pieces("use")
  PROVE  /\ Passed(p.text) /\ p.meaning = <<>>
         /\ \A i \in 1..Len(p.text) : p.text[i] \in Blank
<1>1. Pieces("use") = Silent({<<" ">>, <<"\n">>, <<"(">>})
  BY Zenon DEF Pieces
<1>2. PICK c : p = Piece(<<c>>, <<>>) /\ c \in {" ", "\n", "("}
  BY <1>1, Zenon DEF Silent
<1>3. p.text = <<c>> /\ p.meaning = <<>>
  BY <1>2, PieceFields, Zenon
<1>4. c \in Space \union {"("} /\ c \in Blank /\ c \in Symbol /\ c \notin Digit
  BY <1>2, Symbols, Zenon DEF Blank, is_space, Space, Digit
<1>5. PICK l : l = <<c>>
  OBVIOUS
<1>6. l \in Text /\ Len(l) = 1 /\ l[1] = c
  BY <1>4, <1>5 DEF Text
<1>7. \A i \in 1..Len(l) : l[i] \in Blank
  BY <1>4, <1>6
<1>8. Passed(l)
  <2>1. Skipped(l)
    BY <1>4, <1>5, BlankSkipped
  <2>2. NoDigitFirst(l) /\ Len(l) > 0
    BY <1>4, <1>6 DEF NoDigitFirst
  <2> QED
    BY <1>6, <2>1, <2>2 DEF Passed
<1> QED
  BY <1>3, <1>5, <1>7, <1>8, Zenon

(* What stands in front of a USE statement is skipped by both scans. *)
UseText ==
  task = "use" =>
    /\ closed => UseSchema(text) = meaning
    /\ ~closed => /\ text \in Text /\ Skipped(text) /\ meaning = <<>>
                  /\ \A i \in 1..Len(text) : text[i] \in Blank

(* UseNamesSchema, for every number of pieces: behind any number of blanks *)
(* and parentheses, track_current_db takes the schema the statement names. *)
THEOREM SchemaIsNamed == Spec => []UseNamesSchema
<1>1. Init => UseText
  <2>1. <<>> \in Text /\ Skipped(<<>>)
    BY EmptySkipped
  <2>2. \A i \in 1..Len(<<>>) : <<>>[i] \in Blank
    OBVIOUS
  <2> QED
    BY <2>1, <2>2, Zenon DEF Init, UseText
<1>2. UseText /\ [Next]_vars => UseText'
  <2> SUFFICES ASSUME UseText, [Next]_vars, task' = "use"
               PROVE  /\ closed' => UseSchema(text') = meaning'
                      /\ ~closed' =>
                           /\ text' \in Text /\ Skipped(text') /\ meaning' = <<>>
                           /\ \A i \in 1..Len(text') : text'[i] \in Blank
    BY Zenon DEF UseText
  <2>1. CASE UNCHANGED vars
    <3>1. task' = task /\ text' = text /\ meaning' = meaning /\ closed' = closed
      BY <2>1 DEF vars
    <3> QED
      BY <3>1, Zenon DEF UseText
  <2>2. CASE AddPiece
    <3>1. task = "use" /\ ~closed /\ closed' = closed
      BY <2>2, Zenon DEF AddPiece
    <3>2. /\ text \in Text /\ Skipped(text) /\ meaning = <<>>
          /\ \A i \in 1..Len(text) : text[i] \in Blank
      BY <3>1, Zenon DEF UseText
    <3>3. PICK p \in Pieces("use") : /\ text' = text \o p.text
                                     /\ meaning' = meaning \o p.meaning
      BY <2>2, <3>1, Zenon DEF AddPiece, Put
    <3>4. /\ Passed(p.text) /\ p.meaning = <<>>
          /\ \A i \in 1..Len(p.text) : p.text[i] \in Blank
      BY UsePieces, Zenon
    <3>5. text' \in Text /\ Skipped(text')
      BY <3>2, <3>3, <3>4, SkippedBoth, Zenon DEF Passed
    <3>6. <<>> \o <<>> = <<>>
      OBVIOUS
    <3>7. \A i \in 1..Len(text') : text'[i] \in Blank
      <4>1. PICK t \in Text : t = p.text
        BY <3>4 DEF Passed
      <4>2. Behind(text \o t, Len(text), t)
        BY <3>2, ConcatBehind
      <4>3. \A i \in 1..Len(text) : (text \o t)[i] = text[i]
        BY <3>2, InFront
      <4>4. Len(text) \in Nat /\ Len(t) \in Nat
        BY <3>2 DEF Text
      <4>5. ASSUME NEW i \in 1..Len(text \o t) PROVE (text \o t)[i] \in Blank
        <5>1. \/ i \in 1..Len(text)
              \/ i - Len(text) \in 1..Len(t) /\ Len(text) + (i - Len(text)) = i
          BY <4>2, <4>4 DEF Behind
        <5>2. CASE i \in 1..Len(text)
          BY <3>2, <4>3, <5>2
        <5>3. CASE /\ i - Len(text) \in 1..Len(t)
                   /\ Len(text) + (i - Len(text)) = i
          <6>1. (text \o t)[Len(text) + (i - Len(text))] = t[i - Len(text)]
            BY <4>2, <5>3 DEF Behind
          <6> QED
            BY <3>4, <4>1, <5>3, <6>1
        <5> QED
          BY <5>1, <5>2, <5>3
      <4> QED
        BY <3>3, <4>1, <4>5
    <3> QED
      BY <3>1, <3>2, <3>3, <3>4, <3>5, <3>6, <3>7, Zenon
  <2>3. CASE AddLast
    <3>1. task = "use" /\ ~closed /\ closed'
      BY <2>3, Zenon DEF AddLast
    <3>2. /\ text \in Text /\ Skipped(text) /\ meaning = <<>>
          /\ \A i \in 1..Len(text) : text[i] \in Blank
      BY <3>1, Zenon DEF UseText
    <3>3. PICK p \in LastPieces("use") : /\ text' = text \o p.text
                                         /\ meaning' = meaning \o p.meaning
      BY <2>3, <3>1, Zenon DEF AddLast, Put
    <3>4. UseReads(p.text, p.meaning) /\ <<>> \o p.meaning = p.meaning
      BY UsesAreRead, Zenon
    <3>5. UseSchema(text \o p.text) = p.meaning
      BY <3>2, <3>4, UseBehind, Zenon
    <3> QED
      BY <3>1, <3>2, <3>3, <3>4, <3>5, Zenon
  <2> QED
    BY <2>1, <2>2, <2>3, Zenon DEF Next
<1>3. UseText => UseNamesSchema
  BY Zenon DEF UseText, UseNamesSchema, Complete
<1> QED
  BY <1>1, <1>2, <1>3, PTL DEF Spec

-----------------------------------------------------------------------------
(* The pieces a text is cut into.                                          *)

(* The pieces of the first n symbols, for n up to k. *)
IsSplit(f, s, separator, k) ==
  f = [n \in 0..k |-> IF n = 0 THEN <<<<>>>>
                      ELSE Cut(f[n - 1], s[n], separator)]

(* There is such a function. *)
LEMMA SplitExists ==
  ASSUME NEW s, NEW separator
  PROVE  \A k \in Nat : \E f : IsSplit(f, s, separator, k)
<1> DEFINE S == {k \in Nat : \E f : IsSplit(f, s, separator, k)}
<1>1. 0 \in S
  <2> DEFINE f == [n \in 0..0 |-> <<<<>>>>]
  <2>1. IsSplit(f, s, separator, 0)
    BY DEF IsSplit
  <2> QED
    BY <2>1
<1>2. ASSUME NEW k \in Nat, k \in S PROVE k + 1 \in S
  <2>1. PICK f : IsSplit(f, s, separator, k)
    BY <1>2
  <2> DEFINE h == [n \in 0..k + 1 |->
                     IF n = k + 1 THEN Cut(f[k], s[n], separator) ELSE f[n]]
  <2>2. ASSUME NEW n \in 0..k + 1
        PROVE  h[n] = IF n = 0 THEN <<<<>>>> ELSE Cut(h[n - 1], s[n], separator)
    <3>1. CASE n = k + 1
      <4>1. h[n] = Cut(f[k], s[n], separator)
        BY <3>1
      <4>2. h[n - 1] = f[k] /\ n # 0
        BY <3>1
      <4> QED
        BY <4>1, <4>2
    <3>2. CASE n # k + 1
      <4>1. n \in 0..k /\ h[n] = f[n] /\ (n # 0 => h[n - 1] = f[n - 1])
        BY <3>2
      <4>2. f[n] = IF n = 0 THEN <<<<>>>> ELSE Cut(f[n - 1], s[n], separator)
        BY <2>1, <4>1 DEF IsSplit
      <4> QED
        BY <4>1, <4>2
    <3> QED
      BY <3>1, <3>2
  <2>3. h = [n \in 0..k + 1 |-> h[n]]
    OBVIOUS
  <2> HIDE DEF h
  <2>4. IsSplit(h, s, separator, k + 1)
    BY <2>2, <2>3 DEF IsSplit
  <2> QED
    BY <2>4
<1> HIDE DEF S
<1>3. \A k \in Nat : k \in S
  BY <1>1, <1>2, NatSetInduction
<1> QED
  BY <1>3 DEF S

(* Split is its last value. *)
LEMMA SplitIsLast ==
  ASSUME NEW s, NEW separator, Len(s) \in Nat
  PROVE  \E f : /\ IsSplit(f, s, separator, Len(s))
                /\ Split(s, separator) = f[Len(s)]
<1> DEFINE f == CHOOSE f : IsSplit(f, s, separator, Len(s))
<1>1. IsSplit(f, s, separator, Len(s))
  BY SplitExists
<1>2. Split(s, separator) = f[Len(s)]
  BY Zenon DEF Split, IsSplit
<1> QED
  BY <1>1, <1>2

(* Two of them agree as long as the texts do. *)
LEMMA SplitAgrees ==
  ASSUME NEW s, NEW t, NEW separator, NEW k \in Nat, NEW m \in Nat, k <= m,
         \A i \in 1..k : s[i] = t[i],
         NEW f, NEW g, IsSplit(f, s, separator, k), IsSplit(g, t, separator, m)
  PROVE  f[k] = g[k]
<1> DEFINE S == {n \in Nat : n <= k => f[n] = g[n]}
<1>1. 0 \in S
  BY DEF IsSplit
<1>2. ASSUME NEW n \in Nat, n \in S PROVE n + 1 \in S
  <2> SUFFICES ASSUME n + 1 <= k PROVE f[n + 1] = g[n + 1]
    OBVIOUS
  <2>1. n + 1 \in 1..k /\ n + 1 \in 0..k /\ n + 1 \in 0..m /\ n + 1 # 0
        /\ (n + 1) - 1 = n /\ f[n] = g[n]
    BY <1>2
  <2>2. f[n + 1] = Cut(f[n], s[n + 1], separator)
    BY <2>1 DEF IsSplit
  <2>3. g[n + 1] = Cut(g[n], t[n + 1], separator)
    BY <2>1 DEF IsSplit
  <2> QED
    BY <2>1, <2>2, <2>3
<1> HIDE DEF S
<1>3. k \in S
  BY <1>1, <1>2, NatSetInduction
<1> QED
  BY <1>3 DEF S

(* The empty text is one empty piece. *)
LEMMA SplitEmpty ==
  ASSUME NEW separator
  PROVE  Split(<<>>, separator) = <<<<>>>>
<1>1. PICK s : s = <<>> /\ Len(s) = 0
  OBVIOUS
<1>2. PICK f : IsSplit(f, s, separator, 0) /\ Split(s, separator) = f[0]
  BY <1>1, SplitIsLast
<1>3. f[0] = <<<<>>>>
  BY <1>2 DEF IsSplit
<1> QED
  BY <1>1, <1>2, <1>3

(* One symbol more. *)
LEMMA SplitStep ==
  ASSUME NEW s \in Text, NEW c \in Symbol, NEW separator
  PROVE  Split(Append(s, c), separator) = Cut(Split(s, separator), c, separator)
<1>0. PICK k, t : k = Len(s) /\ t = Append(s, c)
  OBVIOUS
<1>1. /\ k \in Nat /\ Len(t) = k + 1 /\ t[k + 1] = c
      /\ \A i \in 1..k : s[i] = t[i]
  BY <1>0 DEF Text
<1>2. PICK f : IsSplit(f, s, separator, k) /\ Split(s, separator) = f[k]
  BY <1>0, <1>1, SplitIsLast
<1>3. PICK g : IsSplit(g, t, separator, k + 1) /\ Split(t, separator) = g[k + 1]
  <2>1. Len(t) \in Nat
    BY <1>1
  <2> QED
    BY <1>1, <2>1, SplitIsLast
<1>4. k + 1 \in Nat /\ k <= k + 1 /\ k + 1 # 0 /\ k + 1 \in 0..k + 1
      /\ (k + 1) - 1 = k
  BY <1>1
<1>5. f[k] = g[k]
  BY <1>1, <1>2, <1>3, <1>4, SplitAgrees
<1>6. g[k + 1] = Cut(g[k], t[k + 1], separator)
  BY <1>3, <1>4 DEF IsSplit
<1> QED
  BY <1>0, <1>1, <1>2, <1>3, <1>5, <1>6

(* A symbol in the last piece. *)
LEMMA CutInside ==
  ASSUME NEW P \in Seq(Text), NEW l \in Text, NEW c \in Symbol, NEW separator,
         c # separator
  PROVE  Cut(Append(P, l), c, separator) = Append(P, Append(l, c))
<1>0. PICK x, k : x = Append(P, l) /\ k = Len(P)
  OBVIOUS
<1>1. /\ k \in Nat /\ Len(x) = k + 1 /\ x \in Seq(Text) /\ x[k + 1] = l
      /\ \A i \in 1..k : x[i] = P[i]
  BY <1>0
<1>2. Append(l, c) \in Text
  BY DEF Text
<1>a. PICK m, y : m = Append(l, c) /\ y = Append(P, m)
  OBVIOUS
<1>3. /\ m \in Text /\ Len(y) = k + 1 /\ y \in Seq(Text) /\ y[k + 1] = m
      /\ \A i \in 1..k : y[i] = P[i]
  BY <1>0, <1>2, <1>a
<1>4. PICK z : z = [x EXCEPT ![k + 1] = m]
  OBVIOUS
<1>5. /\ z \in Seq(Text) /\ Len(z) = k + 1
      /\ \A i \in 1..k + 1 : z[i] = IF i = k + 1 THEN m ELSE x[i]
  <2>1. DOMAIN x = 1..k + 1 /\ \A i \in 1..k + 1 : x[i] \in Text
    BY <1>1
  <2>2. z = [i \in 1..k + 1 |-> IF i = k + 1 THEN m ELSE x[i]]
    BY <1>4, <2>1
  <2>3. \A i \in 1..k + 1 : (IF i = k + 1 THEN m ELSE x[i]) \in Text
    BY <1>3, <2>1
  <2> QED
    BY <1>1, <2>2, <2>3
<1>6. \A i \in 1..k + 1 : z[i] = y[i]
  BY <1>1, <1>3, <1>5
<1>7. z = y
  BY <1>3, <1>5, <1>6, SeqEqual
<1>8. Cut(x, c, separator) = z
  BY <1>1, <1>4, <1>a DEF Cut
<1> QED
  BY <1>0, <1>7, <1>8, <1>a

(* A symbol behind two texts. *)
LEMMA AppendOutside ==
  ASSUME NEW t \in Text, NEW v \in Text, NEW c \in Symbol
  PROVE  t \o Append(v, c) = Append(t \o v, c)
<1>1. PICK x, y : x = t \o Append(v, c) /\ y = Append(t \o v, c)
  OBVIOUS
<1>2. /\ x \in Text /\ y \in Text /\ Len(x) = Len(y)
      /\ \A i \in 1..Len(x) : x[i] = y[i]
  BY <1>1 DEF Text
<1> QED
  BY <1>1, <1>2, SeqEqual DEF Text

(* The first n + 1 symbols. *)
LEMMA PrefixGrows ==
  ASSUME NEW u \in Text, NEW n \in Nat, n + 1 <= Len(u)
  PROVE  /\ SubSeq(u, 1, n) \in Text /\ u[n + 1] \in Symbol
         /\ SubSeq(u, 1, n + 1) = Append(SubSeq(u, 1, n), u[n + 1])
<1>0. Len(u) \in Nat /\ \A i \in 1..Len(u) : u[i] \in Symbol
  BY DEF Text
<1>1. PICK x, y, z : /\ x = SubSeq(u, 1, n) /\ z = SubSeq(u, 1, n + 1)
                     /\ y = Append(x, u[n + 1])
  OBVIOUS
<1>2. x \in Text /\ Len(x) = n /\ \A i \in 1..n : x[i] = u[i]
  <2>1. \A i \in 1..n : u[i] \in Symbol
    BY <1>0
  <2>2. /\ x \in Seq(Symbol) /\ Len(x) = IF 1 <= n THEN n - 1 + 1 ELSE 0
        /\ \A i \in 1..n - 1 + 1 : x[i] = u[1 + i - 1]
    BY <1>1, <2>1, SubSeqProperties
  <2> QED
    BY <2>2 DEF Text
<1>3. z \in Text /\ Len(z) = n + 1 /\ \A i \in 1..n + 1 : z[i] = u[i]
  <2>1. PICK m \in Nat : m = n + 1
    OBVIOUS
  <2>2. \A i \in 1..m : u[i] \in Symbol
    BY <1>0, <2>1
  <2>3. /\ z \in Seq(Symbol) /\ Len(z) = IF 1 <= m THEN m - 1 + 1 ELSE 0
        /\ \A i \in 1..m - 1 + 1 : z[i] = u[1 + i - 1]
    BY <1>1, <2>1, <2>2, SubSeqProperties
  <2> QED
    BY <2>1, <2>3 DEF Text
<1>4. u[n + 1] \in Symbol
  BY <1>0
<1>5. y \in Text /\ Len(y) = n + 1 /\ \A i \in 1..n + 1 : y[i] = u[i]
  BY <1>1, <1>2, <1>4 DEF Text
<1> QED
  BY <1>1, <1>2, <1>3, <1>4, <1>5, SeqEqual DEF Text

(* A text is its own prefix. *)
LEMMA WholeIsPrefix ==
  ASSUME NEW u \in Text
  PROVE  SubSeq(u, 1, Len(u)) = u
<1>1. PICK n \in Nat : n = Len(u)
  BY DEF Text
<1>2. PICK x : x = SubSeq(u, 1, n)
  OBVIOUS
<1>3. x \in Seq(Symbol) /\ Len(x) = n /\ \A i \in 1..n : x[i] = u[i]
  <2>1. \A i \in 1..n : u[i] \in Symbol
    BY <1>1 DEF Text
  <2>2. /\ x \in Seq(Symbol) /\ Len(x) = IF 1 <= n THEN n - 1 + 1 ELSE 0
        /\ \A i \in 1..n - 1 + 1 : x[i] = u[1 + i - 1]
    BY <1>2, <2>1, SubSeqProperties
  <2> QED
    BY <2>2
<1> QED
  BY <1>1, <1>2, <1>3, SeqEqual DEF Text

(* The pieces of t are those of P and a last one, l. *)
SplitsTo(t, separator, P, l) ==
  /\ t \in Text /\ P \in Seq(Text) /\ l \in Text
  /\ Split(t, separator) = Append(P, l)

Without(u, separator) ==
  u \in Text /\ \A i \in 1..Len(u) : u[i] # separator

(* A text without separators goes on with the last piece. *)
LEMMA SplitRun ==
  ASSUME NEW t, NEW u, NEW separator, NEW P, NEW l,
         SplitsTo(t, separator, P, l), Without(u, separator)
  PROVE  SplitsTo(t \o u, separator, P, l \o u)
<1>a. /\ t \in Text /\ P \in Seq(Text) /\ l \in Text
      /\ Split(t, separator) = Append(P, l)
  BY DEF SplitsTo
<1>b. u \in Text /\ \A i \in 1..Len(u) : u[i] # separator
  BY DEF Without
<1> DEFINE S == {n \in Nat : n <= Len(u) =>
                   Split(t \o SubSeq(u, 1, n), separator)
                     = Append(P, l \o SubSeq(u, 1, n))}
<1>0. Len(u) \in Nat /\ t \o <<>> = t /\ l \o <<>> = l
  BY <1>a, <1>b DEF Text
<1>1. 0 \in S
  <2>1. SubSeq(u, 1, 0) = <<>>
    BY SubSeqEmpty
  <2> QED
    BY <1>0, <1>a, <2>1
<1>2. ASSUME NEW n \in Nat, n \in S PROVE n + 1 \in S
  <2> SUFFICES ASSUME n + 1 <= Len(u)
               PROVE  Split(t \o SubSeq(u, 1, n + 1), separator)
                        = Append(P, l \o SubSeq(u, 1, n + 1))
    OBVIOUS
  <2>0. PICK v, c : v = SubSeq(u, 1, n) /\ c = u[n + 1]
    OBVIOUS
  <2>1. /\ v \in Text /\ c \in Symbol /\ c # separator
        /\ SubSeq(u, 1, n + 1) = Append(v, c)
    BY <1>0, <1>b, <2>0, PrefixGrows
  <2>2. Split(t \o v, separator) = Append(P, l \o v)
    BY <1>0, <1>2, <2>0
  <2>3. t \o v \in Text /\ l \o v \in Text
    BY <1>a, <2>1, ConcatBehind
  <2>4. t \o Append(v, c) = Append(t \o v, c) /\ l \o Append(v, c) = Append(l \o v, c)
    BY <1>a, <2>1, AppendOutside
  <2>5. Split(Append(t \o v, c), separator) = Cut(Append(P, l \o v), c, separator)
    <3>1. PICK tv \in Text : tv = t \o v
      BY <2>3
    <3>2. Split(Append(tv, c), separator) = Cut(Split(tv, separator), c, separator)
      BY <2>1, SplitStep
    <3> QED
      BY <2>2, <3>1, <3>2, Zenon
  <2>6. Cut(Append(P, l \o v), c, separator) = Append(P, Append(l \o v, c))
    BY <1>a, <2>1, <2>3, CutInside
  <2> QED
    BY <2>1, <2>4, <2>5, <2>6
<1> HIDE DEF S
<1>3. Len(u) \in S
  BY <1>0, <1>1, <1>2, NatSetInduction
<1>4. SubSeq(u, 1, Len(u)) = u
  BY <1>b, WholeIsPrefix
<1>5. PICK k \in Nat : k = Len(u) /\ k <= Len(u) /\ k \in S
  BY <1>0, <1>3
<1>6. Split(t \o SubSeq(u, 1, k), separator) = Append(P, l \o SubSeq(u, 1, k))
  BY <1>5 DEF S
<1>7. t \o u \in Text /\ l \o u \in Text
  BY <1>a, <1>b, ConcatBehind
<1> QED
  BY <1>4, <1>5, <1>6, <1>7, <1>a, Zenon DEF SplitsTo

(* A separator ends it. *)
LEMMA SplitAtSeparator ==
  ASSUME NEW t, NEW separator \in Symbol, NEW P, NEW l,
         SplitsTo(t, separator, P, l)
  PROVE  SplitsTo(Append(t, separator), separator, Append(P, l), <<>>)
<1>1. /\ t \in Text /\ P \in Seq(Text) /\ l \in Text
      /\ Split(t, separator) = Append(P, l)
  BY DEF SplitsTo
<1>2. Append(t, separator) \in Text /\ <<>> \in Text
  BY <1>1 DEF Text
<1>3. Append(P, l) \in Seq(Text)
  BY <1>1
<1>4. Split(Append(t, separator), separator) = Append(Append(P, l), <<>>)
  BY <1>1, SplitStep DEF Cut
<1> QED
  BY <1>2, <1>3, <1>4 DEF SplitsTo

(* The beginning. *)
LEMMA SplitBegins ==
  ASSUME NEW separator
  PROVE  SplitsTo(<<>>, separator, <<>>, <<>>)
<1>1. <<>> \in Text
  BY DEF Text
<1>2. <<>> \in Seq(Text) /\ Append(<<>>, <<>>) = <<<<>>>>
  OBVIOUS
<1> QED
  BY <1>1, <1>2, SplitEmpty, Zenon DEF SplitsTo

(* One piece. *)
LEMMA SplitNone ==
  ASSUME NEW u, NEW separator, Without(u, separator)
  PROVE  SplitsTo(u, separator, <<>>, u) /\ Split(u, separator) = <<u>>
<1>1. SplitsTo(<<>> \o u, separator, <<>>, <<>> \o u)
  BY SplitBegins, SplitRun, Zenon
<1>2. <<>> \o u = u
  BY DEF Without, Text
<1>3. SplitsTo(u, separator, <<>>, u)
  BY <1>1, <1>2
<1>4. Append(<<>>, u) = <<u>>
  OBVIOUS
<1> QED
  BY <1>3, <1>4 DEF SplitsTo

(* Two elements, one behind the other. *)
LEMMA TwoElements ==
  ASSUME NEW S, NEW a \in S, NEW b \in S
  PROVE  Append(Append(<<>>, a), b) = <<a, b>>
<1>1. PICK p : p = Append(<<>>, a)
  OBVIOUS
<1>2. p \in Seq(S) /\ Len(p) = 1 /\ p[1] = a
  BY <1>1
<1>3. PICK x : x = Append(p, b)
  OBVIOUS
<1>4. /\ x \in Seq(S) /\ Len(x) = Len(p) + 1 /\ x[Len(p) + 1] = b
      /\ \A i \in 1..Len(p) : x[i] = p[i]
  <2>1. p \in Seq(S)
    BY <1>2
  <2> QED
    BY <1>3, <2>1
<1>5. Len(p) + 1 = 2 /\ 1 \in 1..Len(p)
  BY <1>2
<1>6. Len(x) = 2 /\ x[1] = a /\ x[2] = b
  BY <1>2, <1>4, <1>5
<1>7. PICK y : y = <<a, b>>
  OBVIOUS
<1>8. y \in Seq(S) /\ Len(y) = 2 /\ y[1] = a /\ y[2] = b
  BY <1>7
<1>9. \A i \in 1..Len(x) : x[i] = y[i]
  <2>1. \A i \in 1..Len(x) : i = 1 \/ i = 2
    BY <1>6
  <2> QED
    BY <1>6, <1>8, <2>1
<1>10. x = y
  BY <1>4, <1>6, <1>8, <1>9, SeqEqual
<1> QED
  BY <1>1, <1>3, <1>7, <1>10

(* s is a and b with x between them. *)
Joined(s, a, x, b) ==
  /\ s \in Text /\ a \in Text /\ b \in Text
  /\ Len(s) = Len(a) + 1 + Len(b) /\ s[Len(a) + 1] = x
  /\ \A i \in 1..Len(a) : s[i] = a[i]
  /\ \A i \in 1..Len(b) : s[Len(a) + 1 + i] = b[i]

(* Two pieces. *)
LEMMA SplitTwo ==
  ASSUME NEW s, NEW a, NEW b, NEW separator \in Symbol,
         Without(a, separator), Without(b, separator),
         Joined(s, a, separator, b)
  PROVE  Split(s, separator) = <<a, b>>
<1>0. a \in Text /\ b \in Text /\ Len(a) \in Nat /\ Len(b) \in Nat
  BY DEF Text, Joined
<1>b. /\ s \in Text /\ Len(s) = Len(a) + 1 + Len(b)
      /\ s[Len(a) + 1] = separator
      /\ \A i \in 1..Len(a) : s[i] = a[i]
      /\ \A i \in 1..Len(b) : s[Len(a) + 1 + i] = b[i]
  BY DEF Joined
<1>1. PICK c : c = Append(a, separator)
  OBVIOUS
<1>2. /\ c \in Text /\ Len(c) = Len(a) + 1 /\ c[Len(a) + 1] = separator
      /\ \A i \in 1..Len(a) : c[i] = a[i]
  BY <1>0, <1>1 DEF Text
<1>3. SplitsTo(c, separator, Append(<<>>, a), <<>>)
  BY <1>1, SplitNone, SplitAtSeparator, Zenon
<1>4. SplitsTo(c \o b, separator, Append(<<>>, a), <<>> \o b)
  BY <1>3, SplitRun, Zenon
<1>5. <<>> \o b = b
  BY <1>0 DEF Text
<1>6. Append(Append(<<>>, a), b) = <<a, b>>
  BY <1>0, TwoElements
<1>7. c \o b = s
  <2>1. c \o b \in Text /\ Behind(c \o b, Len(a) + 1, b)
    BY <1>0, <1>2, ConcatBehind
  <2>2. \A i \in 1..Len(a) + 1 : (c \o b)[i] = c[i]
    BY <1>0, <1>2, InFront
  <2>3. Len(c \o b) = Len(s) /\ \A i \in 1..Len(b) : (c \o b)[Len(a) + 1 + i] = b[i]
    BY <1>0, <1>b, <2>1 DEF Behind
  <2>4. PICK x : x = c \o b
    OBVIOUS
  <2>5. ASSUME NEW i \in 1..Len(x) PROVE x[i] = s[i]
    <3>1. \/ i \in 1..Len(a) \/ i = Len(a) + 1
          \/ i - (Len(a) + 1) \in 1..Len(b)
             /\ Len(a) + 1 + (i - (Len(a) + 1)) = i
      BY <1>0, <1>b, <2>3, <2>4
    <3>2. CASE i \in 1..Len(a)
      <4>1. i \in 1..Len(a) + 1
        BY <1>0, <3>2
      <4> QED
        BY <1>2, <1>b, <2>2, <2>4, <3>2, <4>1
    <3>3. CASE i = Len(a) + 1
      <4>1. i \in 1..Len(a) + 1
        BY <1>0, <3>3
      <4> QED
        BY <1>2, <1>b, <2>2, <2>4, <3>3, <4>1
    <3>4. CASE /\ i - (Len(a) + 1) \in 1..Len(b)
               /\ Len(a) + 1 + (i - (Len(a) + 1)) = i
      <4>1. PICK j \in 1..Len(b) : i = Len(a) + 1 + j
        BY <3>4
      <4>2. x[Len(a) + 1 + j] = b[j] /\ s[Len(a) + 1 + j] = b[j]
        BY <1>b, <2>3, <2>4
      <4> QED
        BY <4>1, <4>2, Zenon
    <3> QED
      BY <3>1, <3>2, <3>3, <3>4
  <2> QED
    BY <1>b, <2>1, <2>3, <2>4, <2>5, SeqEqual DEF Text
<1>8. Split(c \o b, separator) = Append(Append(<<>>, a), b)
  BY <1>4, <1>5, Zenon DEF SplitsTo
<1> QED
  BY <1>6, <1>7, <1>8, Zenon

(* The tokens of the first n pieces, for n up to k. *)
IsTokens(f, raw, k) ==
  f = [n \in 0..k |-> IF n = 0 THEN <<>> ELSE Keep(f[n - 1], raw[n])]

(* There is such a function. *)
LEMMA TokensExist ==
  ASSUME NEW raw
  PROVE  \A k \in Nat : \E f : IsTokens(f, raw, k)
<1> DEFINE S == {k \in Nat : \E f : IsTokens(f, raw, k)}
<1>1. 0 \in S
  <2> DEFINE f == [n \in 0..0 |-> <<>>]
  <2>1. IsTokens(f, raw, 0)
    BY DEF IsTokens
  <2> QED
    BY <2>1
<1>2. ASSUME NEW k \in Nat, k \in S PROVE k + 1 \in S
  <2>1. PICK f : IsTokens(f, raw, k)
    BY <1>2
  <2> DEFINE h == [n \in 0..k + 1 |->
                     IF n = k + 1 THEN Keep(f[k], raw[n]) ELSE f[n]]
  <2>2. ASSUME NEW n \in 0..k + 1
        PROVE  h[n] = IF n = 0 THEN <<>> ELSE Keep(h[n - 1], raw[n])
    <3>1. CASE n = k + 1
      <4>1. h[n] = Keep(f[k], raw[n])
        BY <3>1
      <4>2. h[n - 1] = f[k] /\ n # 0
        BY <3>1
      <4> QED
        BY <4>1, <4>2
    <3>2. CASE n # k + 1
      <4>1. n \in 0..k /\ h[n] = f[n] /\ (n # 0 => h[n - 1] = f[n - 1])
        BY <3>2
      <4>2. f[n] = IF n = 0 THEN <<>> ELSE Keep(f[n - 1], raw[n])
        BY <2>1, <4>1 DEF IsTokens
      <4> QED
        BY <4>1, <4>2
    <3> QED
      BY <3>1, <3>2
  <2>3. h = [n \in 0..k + 1 |-> h[n]]
    OBVIOUS
  <2> HIDE DEF h
  <2>4. IsTokens(h, raw, k + 1)
    BY <2>2, <2>3 DEF IsTokens
  <2> QED
    BY <2>4
<1> HIDE DEF S
<1>3. \A k \in Nat : k \in S
  BY <1>1, <1>2, NatSetInduction
<1> QED
  BY <1>3 DEF S

(* Tokens is its last value. *)
LEMMA TokensAreLast ==
  ASSUME NEW raw, Len(raw) \in Nat
  PROVE  \E f : IsTokens(f, raw, Len(raw)) /\ Tokens(raw) = f[Len(raw)]
<1> DEFINE f == CHOOSE f : IsTokens(f, raw, Len(raw))
<1>1. IsTokens(f, raw, Len(raw))
  BY TokensExist
<1>2. Tokens(raw) = f[Len(raw)]
  BY Zenon DEF Tokens, IsTokens
<1> QED
  BY <1>1, <1>2

(* No pieces, no tokens. *)
LEMMA NoTokens == Tokens(<<>>) = <<>>
<1>1. PICK s : s = <<>> /\ Len(s) = 0
  OBVIOUS
<1>2. PICK f : IsTokens(f, s, 0) /\ Tokens(s) = f[0]
  BY <1>1, TokensAreLast
<1>3. f[0] = <<>>
  BY <1>2 DEF IsTokens
<1> QED
  BY <1>1, <1>2, <1>3

(* One piece more. *)
LEMMA TokensStep ==
  ASSUME NEW P \in Seq(Text), NEW x \in Text
  PROVE  Tokens(Append(P, x)) = Keep(Tokens(P), x)
<1>0. PICK k, r : k = Len(P) /\ r = Append(P, x)
  OBVIOUS
<1>1. /\ k \in Nat /\ Len(r) = k + 1 /\ r[k + 1] = x
      /\ \A i \in 1..k : P[i] = r[i]
  BY <1>0
<1>2. PICK f : IsTokens(f, P, k) /\ Tokens(P) = f[k]
  BY <1>0, <1>1, TokensAreLast
<1>3. PICK g : IsTokens(g, r, k + 1) /\ Tokens(r) = g[k + 1]
  <2>1. Len(r) \in Nat
    BY <1>1
  <2> QED
    BY <1>1, <2>1, TokensAreLast
<1> DEFINE S == {n \in Nat : n <= k => f[n] = g[n]}
<1>4. 0 \in S
  BY <1>1, <1>2, <1>3 DEF IsTokens
<1>5. ASSUME NEW n \in Nat, n \in S PROVE n + 1 \in S
  <2> SUFFICES ASSUME n + 1 <= k PROVE f[n + 1] = g[n + 1]
    OBVIOUS
  <2>1. n + 1 \in 1..k /\ n + 1 \in 0..k /\ n + 1 \in 0..k + 1 /\ n + 1 # 0
        /\ (n + 1) - 1 = n /\ f[n] = g[n]
    BY <1>1, <1>5
  <2>2. f[n + 1] = Keep(f[n], P[n + 1])
    BY <1>2, <2>1 DEF IsTokens
  <2>3. g[n + 1] = Keep(g[n], r[n + 1])
    BY <1>3, <2>1 DEF IsTokens
  <2> QED
    BY <1>1, <2>1, <2>2, <2>3
<1> HIDE DEF S
<1>6. k \in S
  BY <1>1, <1>4, <1>5, NatSetInduction
<1>7. f[k] = g[k]
  BY <1>1, <1>6 DEF S
<1>8. k + 1 # 0 /\ k + 1 \in 0..k + 1 /\ (k + 1) - 1 = k
  BY <1>1
<1>9. g[k + 1] = Keep(g[k], r[k + 1])
  BY <1>3, <1>8 DEF IsTokens
<1> QED
  BY <1>0, <1>1, <1>2, <1>3, <1>7, <1>9

(* The entries read of tokens. *)
ReadAll(tokens) == [i \in DOMAIN tokens |-> ReadEntry(tokens[i])]

(* It is a sequence. *)
LEMMA ReadAllIsSeq ==
  ASSUME NEW T \in Seq(Text)
  PROVE  ReadAll(T) \o <<>> = ReadAll(T)
<1> DEFINE X == {ReadEntry(x) : x \in Text}
<1>1. PICK n : n = Len(T)
  OBVIOUS
<1>2. n \in Nat /\ DOMAIN T = 1..n /\ \A i \in 1..n : T[i] \in Text
  BY <1>1
<1>3. \A i \in 1..n : ReadEntry(T[i]) \in X
  BY <1>2
<1> HIDE DEF X
<1>4. ReadAll(T) = [i \in 1..n |-> ReadEntry(T[i])]
  BY <1>2 DEF ReadAll
<1>5. ReadAll(T) \in Seq(X)
  BY <1>2, <1>3, <1>4
<1> QED
  BY <1>5, ConcatEmptySeq

(* One token more. *)
LEMMA ReadAllStep ==
  ASSUME NEW T \in Seq(Text), NEW t \in Text
  PROVE  ReadAll(Append(T, t)) = ReadAll(T) \o <<ReadEntry(t)>>
<1> DEFINE X == {ReadEntry(x) : x \in Text}
<1>0. PICK n, A : n = Len(T) /\ A = Append(T, t)
  OBVIOUS
<1>1. /\ n \in Nat /\ DOMAIN T = 1..n /\ DOMAIN A = 1..n + 1 /\ A[n + 1] = t
      /\ \A i \in 1..n : A[i] = T[i] /\ T[i] \in Text
  BY <1>0
<1>2. PICK r, e, R : r = ReadAll(T) /\ e = ReadEntry(t) /\ R = ReadAll(A)
  OBVIOUS
<1>3. e \in X
  BY <1>2
<1>4. \A i \in 1..n : ReadEntry(T[i]) \in X
  BY <1>1
<1> HIDE DEF X
<1>5. r = [i \in 1..n |-> ReadEntry(T[i])]
  BY <1>1, <1>2 DEF ReadAll
<1>6. r \in Seq(X) /\ Len(r) = n /\ \A i \in 1..n : r[i] = ReadEntry(T[i])
  BY <1>1, <1>4, <1>5
<1>7. R = [i \in 1..n + 1 |-> ReadEntry(A[i])]
  BY <1>1, <1>2 DEF ReadAll
<1>8. /\ \A i \in 1..n : R[i] = r[i]
      /\ R[n + 1] = e
  BY <1>1, <1>2, <1>6, <1>7
<1>9. \A i \in 1..n + 1 : R[i] \in X
  <2>1. ASSUME NEW i \in 1..n + 1 PROVE i \in 1..n \/ i = n + 1
    BY <1>1
  <2> QED
    BY <1>3, <1>6, <1>4, <1>8, <2>1
<1>10. R \in Seq(X) /\ Len(R) = n + 1
  BY <1>1, <1>7, <1>9
<1>11. PICK s : s = r \o <<e>>
  OBVIOUS
<1>12. /\ s \in Seq(X) /\ Len(s) = n + 1 /\ s[n + 1] = e
       /\ \A i \in 1..n : s[i] = r[i]
  BY <1>1, <1>3, <1>6, <1>11
<1>13. \A i \in 1..n + 1 : R[i] = s[i]
  <2>1. ASSUME NEW i \in 1..n + 1 PROVE i \in 1..n \/ i = n + 1
    BY <1>1
  <2> QED
    BY <1>8, <1>12, <2>1
<1>14. R = s
  BY <1>10, <1>12, <1>13, SeqEqual
<1> QED
  BY <1>0, <1>2, <1>11, <1>14

-----------------------------------------------------------------------------
(* The entries of a list.                                                  *)

(* The symbols of lists. *)
BlankSym == " "

LineSym == "\n"

CommaSym == ","

DotSym == "."

ColonSym == ":"

BarSym == "|"

StarSym == "*"

TickSym == "tick"

UpperA == "A"

LowerA == "a"

LowerB == "b"

DmlSym == "dml"

DdlSym == "ddl"

SelectSym == "SELECT"

(* What the scans tell of them. *)
LEMMA ListSymbols ==
  /\ BlankSym \in Symbol /\ LineSym \in Symbol /\ CommaSym \in Symbol
  /\ DotSym \in Symbol /\ ColonSym \in Symbol /\ BarSym \in Symbol
  /\ StarSym \in Symbol /\ TickSym \in Symbol /\ UpperA \in Symbol
  /\ LowerA \in Symbol /\ LowerB \in Symbol /\ DmlSym \in Symbol
  /\ DdlSym \in Symbol /\ SelectSym \in Symbol
  /\ BlankSym \in Space /\ LineSym \in Space /\ CommaSym \notin Space
  /\ DotSym \notin Space /\ ColonSym \notin Space /\ BarSym \notin Space
  /\ StarSym \notin Space /\ TickSym \notin Space /\ UpperA \notin Space
  /\ LowerA \notin Space /\ LowerB \notin Space /\ DmlSym \notin Space
  /\ DdlSym \notin Space /\ SelectSym \notin Space
  /\ BlankSym # CommaSym /\ BlankSym # DotSym /\ BlankSym # ColonSym
  /\ BlankSym # BarSym /\ BlankSym # TickSym /\ LineSym # CommaSym
  /\ LineSym # DotSym /\ LineSym # ColonSym /\ LineSym # BarSym
  /\ LineSym # TickSym /\ CommaSym # DotSym /\ CommaSym # ColonSym
  /\ CommaSym # BarSym /\ CommaSym # TickSym /\ DotSym # CommaSym
  /\ DotSym # ColonSym /\ DotSym # BarSym /\ DotSym # TickSym
  /\ ColonSym # CommaSym /\ ColonSym # DotSym /\ ColonSym # BarSym
  /\ ColonSym # TickSym /\ BarSym # CommaSym /\ BarSym # DotSym
  /\ BarSym # ColonSym /\ BarSym # TickSym /\ StarSym # CommaSym
  /\ StarSym # DotSym /\ StarSym # ColonSym /\ StarSym # BarSym
  /\ StarSym # TickSym /\ TickSym # CommaSym /\ TickSym # DotSym
  /\ TickSym # ColonSym /\ TickSym # BarSym /\ UpperA # CommaSym
  /\ UpperA # DotSym /\ UpperA # ColonSym /\ UpperA # BarSym
  /\ UpperA # TickSym /\ LowerA # CommaSym /\ LowerA # DotSym
  /\ LowerA # ColonSym /\ LowerA # BarSym /\ LowerA # TickSym
  /\ LowerB # CommaSym /\ LowerB # DotSym /\ LowerB # ColonSym
  /\ LowerB # BarSym /\ LowerB # TickSym /\ DmlSym # CommaSym
  /\ DmlSym # DotSym /\ DmlSym # ColonSym /\ DmlSym # BarSym
  /\ DmlSym # TickSym /\ DdlSym # CommaSym /\ DdlSym # DotSym
  /\ DdlSym # ColonSym /\ DdlSym # BarSym /\ DdlSym # TickSym
  /\ SelectSym # CommaSym /\ SelectSym # DotSym /\ SelectSym # ColonSym
  /\ SelectSym # BarSym /\ SelectSym # TickSym
  /\ ascii_lower(UpperA) = LowerA /\ ascii_lower(BlankSym) = BlankSym
  /\ ascii_lower(LineSym) = LineSym /\ ascii_lower(CommaSym) = CommaSym
  /\ ascii_lower(DotSym) = DotSym /\ ascii_lower(ColonSym) = ColonSym
  /\ ascii_lower(BarSym) = BarSym /\ ascii_lower(StarSym) = StarSym
  /\ ascii_lower(TickSym) = TickSym /\ ascii_lower(LowerA) = LowerA
  /\ ascii_lower(LowerB) = LowerB /\ ascii_lower(DmlSym) = DmlSym
  /\ ascii_lower(DdlSym) = DdlSym /\ ascii_lower(SelectSym) = SelectSym
<1>1. /\ BlankSym \in Symbol /\ LineSym \in Symbol /\ CommaSym \in Symbol
      /\ DotSym \in Symbol /\ ColonSym \in Symbol /\ BarSym \in Symbol
      /\ StarSym \in Symbol /\ TickSym \in Symbol /\ UpperA \in Symbol
      /\ LowerA \in Symbol /\ LowerB \in Symbol /\ DmlSym \in Symbol
      /\ DdlSym \in Symbol /\ SelectSym \in Symbol
  BY Zenon DEF BlankSym, LineSym, CommaSym, DotSym, ColonSym, BarSym,
     StarSym, TickSym, UpperA, LowerA, LowerB, DmlSym, DdlSym, SelectSym,
     Symbol, Space, Punctuation, Digit, Words
<1>2. /\ BlankSym \in Space /\ LineSym \in Space /\ CommaSym \notin Space
      /\ DotSym \notin Space /\ ColonSym \notin Space /\ BarSym \notin Space
      /\ StarSym \notin Space /\ TickSym \notin Space /\ UpperA \notin Space
      /\ LowerA \notin Space /\ LowerB \notin Space /\ DmlSym \notin Space
      /\ DdlSym \notin Space /\ SelectSym \notin Space
  BY Zenon DEF BlankSym, LineSym, CommaSym, DotSym, ColonSym, BarSym,
     StarSym, TickSym, UpperA, LowerA, LowerB, DmlSym, DdlSym, SelectSym,
     Space
<1>3. /\ BlankSym # CommaSym /\ BlankSym # DotSym /\ BlankSym # ColonSym
      /\ BlankSym # BarSym /\ BlankSym # TickSym /\ LineSym # CommaSym
      /\ LineSym # DotSym /\ LineSym # ColonSym /\ LineSym # BarSym
      /\ LineSym # TickSym /\ CommaSym # DotSym /\ CommaSym # ColonSym
      /\ CommaSym # BarSym /\ CommaSym # TickSym /\ DotSym # CommaSym
      /\ DotSym # ColonSym /\ DotSym # BarSym /\ DotSym # TickSym
      /\ ColonSym # CommaSym /\ ColonSym # DotSym /\ ColonSym # BarSym
      /\ ColonSym # TickSym /\ BarSym # CommaSym /\ BarSym # DotSym
      /\ BarSym # ColonSym /\ BarSym # TickSym /\ StarSym # CommaSym
      /\ StarSym # DotSym /\ StarSym # ColonSym /\ StarSym # BarSym
      /\ StarSym # TickSym /\ TickSym # CommaSym /\ TickSym # DotSym
      /\ TickSym # ColonSym /\ TickSym # BarSym /\ UpperA # CommaSym
      /\ UpperA # DotSym /\ UpperA # ColonSym /\ UpperA # BarSym
      /\ UpperA # TickSym /\ LowerA # CommaSym /\ LowerA # DotSym
      /\ LowerA # ColonSym /\ LowerA # BarSym /\ LowerA # TickSym
      /\ LowerB # CommaSym /\ LowerB # DotSym /\ LowerB # ColonSym
      /\ LowerB # BarSym /\ LowerB # TickSym /\ DmlSym # CommaSym
      /\ DmlSym # DotSym /\ DmlSym # ColonSym /\ DmlSym # BarSym
      /\ DmlSym # TickSym /\ DdlSym # CommaSym /\ DdlSym # DotSym
      /\ DdlSym # ColonSym /\ DdlSym # BarSym /\ DdlSym # TickSym
      /\ SelectSym # CommaSym /\ SelectSym # DotSym /\ SelectSym # ColonSym
      /\ SelectSym # BarSym /\ SelectSym # TickSym
  BY Zenon DEF BlankSym, LineSym, CommaSym, DotSym, ColonSym, BarSym,
     StarSym, TickSym, UpperA, LowerA, LowerB, DmlSym, DdlSym, SelectSym
<1>4. /\ ascii_lower(UpperA) = LowerA /\ ascii_lower(BlankSym) = BlankSym
      /\ ascii_lower(LineSym) = LineSym /\ ascii_lower(CommaSym) = CommaSym
      /\ ascii_lower(DotSym) = DotSym /\ ascii_lower(ColonSym) = ColonSym
      /\ ascii_lower(BarSym) = BarSym /\ ascii_lower(StarSym) = StarSym
      /\ ascii_lower(TickSym) = TickSym /\ ascii_lower(LowerA) = LowerA
      /\ ascii_lower(LowerB) = LowerB /\ ascii_lower(DmlSym) = DmlSym
      /\ ascii_lower(DdlSym) = DdlSym /\ ascii_lower(SelectSym) = SelectSym
  BY Zenon DEF BlankSym, LineSym, CommaSym, DotSym, ColonSym, BarSym,
     StarSym, TickSym, UpperA, LowerA, LowerB, DmlSym, DdlSym, SelectSym,
     ascii_lower
<1> QED
  BY <1>1, <1>2, <1>3, <1>4, Zenon

(* raw without the blanks around it is t, which stands there from k + 1. *)
Trimmed(raw, k, t) ==
  /\ raw \in Text /\ t \in Text /\ k \in Nat /\ k + Len(t) <= Len(raw)
  /\ \A i \in 1..Len(t) : raw[k + i] = t[i]
  /\ \A i \in 1..k : raw[i] \in Space
  /\ \A i \in k + Len(t) + 1..Len(raw) : raw[i] \in Space
  /\ Len(t) > 0 => t[1] \notin Space /\ t[Len(t)] \notin Space

(* Trim finds it. *)
LEMMA TrimIs ==
  ASSUME NEW raw, NEW k, NEW t, Trimmed(raw, k, t)
  PROVE  Trim(raw) = t
<1>1. /\ raw \in Text /\ t \in Text /\ k \in Nat /\ k + Len(t) <= Len(raw)
      /\ \A i \in 1..Len(t) : raw[k + i] = t[i]
      /\ \A i \in 1..k : raw[i] \in Space
      /\ \A i \in k + Len(t) + 1..Len(raw) : raw[i] \in Space
      /\ Len(t) > 0 => t[1] \notin Space /\ t[Len(t)] \notin Space
  BY DEF Trimmed
<1>2. PICK n, m : n = Len(raw) /\ m = Len(t)
  OBVIOUS
<1>3. n \in Nat /\ m \in Nat /\ \A i \in 1..n : raw[i] \in Symbol
  BY <1>1, <1>2 DEF Text
<1>4. PICK r : r = Reverse(raw)
  OBVIOUS
<1>5. r \in Text /\ Len(r) = n /\ \A i \in 1..n : r[i] = raw[n - i + 1]
  <2>1. r = [i \in 1..n |-> raw[(n - i) + 1]]
    BY <1>2, <1>4 DEF Reverse
  <2>2. \A i \in 1..n : raw[(n - i) + 1] \in Symbol
    BY <1>3
  <2> QED
    BY <1>3, <2>1, <2>2 DEF Text
<1>6. 1 \in 1..Len(raw) + 1 /\ 1 \in 1..Len(r) + 1
  BY <1>2, <1>3, <1>5
<1>7. CASE m = 0
  <2>1. ASSUME NEW i \in 1..n PROVE raw[i] \in Space
    <3>1. i \in 1..k \/ i \in k + Len(t) + 1..Len(raw)
      BY <1>1, <1>2, <1>3, <1>7
    <3> QED
      BY <1>1, <3>1
  <2>2. ASSUME NEW i \in 1..n PROVE r[i] \in Space
    <3>1. n - i + 1 \in 1..n
      BY <1>3
    <3> QED
      BY <1>5, <2>1, <3>1
  <2>3. Span(raw, 1, Space, n + 1) /\ Span(r, 1, Space, n + 1)
    BY <1>2, <1>3, <1>5, <2>1, <2>2 DEF Span
  <2>4. /\ SkipWhile(raw, 1, is_space) = n + 1
        /\ SkipWhile(r, 1, is_space) = n + 1
    <3>1. PICK x, y : /\ x = SkipWhile(raw, 1, is_space)
                      /\ y = SkipWhile(r, 1, is_space)
      OBVIOUS
    <3>2. Span(raw, 1, Space, x) /\ Span(r, 1, Space, y)
      BY <1>1, <1>5, <1>6, <3>1, SkipWhileIsSpan
    <3>3. PICK z : z = n + 1 /\ Span(raw, 1, Space, z) /\ Span(r, 1, Space, z)
      BY <2>3
    <3>4. x = z
      BY <1>1, <1>6, <3>2, <3>3, SpanUnique
    <3>5. y = z
      BY <1>5, <1>6, <3>2, <3>3, SpanUnique
    <3> QED
      BY <3>1, <3>3, <3>4, <3>5
  <2>5. Trim(raw) = SubSeq(raw, n + 1, n + 1 - (n + 1))
    BY <1>2, <1>4, <2>4 DEF Trim
  <2>6. SubSeq(raw, n + 1, n + 1 - (n + 1)) = <<>>
    <3>1. PICK x \in Int, y \in Int : x = n + 1 /\ y = n + 1 - (n + 1) /\ y < x
      BY <1>3
    <3> QED
      BY <3>1, SubSeqEmpty
  <2>7. t = <<>>
    <3>1. t \in Seq(Symbol) /\ Len(t) = 0
      BY <1>1, <1>2, <1>7 DEF Text
    <3> QED
      BY <3>1, EmptySeq
  <2> QED
    BY <2>5, <2>6, <2>7
<1>8. CASE m > 0
  <2>1. raw[k + 1] \notin Space /\ raw[k + m] \notin Space
    BY <1>1, <1>2, <1>3, <1>8
  <2>2. Span(raw, 1, Space, k + 1)
    BY <1>1, <1>2, <1>3, <1>8, <2>1 DEF Span
  <2>3. PICK e \in Nat : e = n - (k + m) + 1
    BY <1>1, <1>2, <1>3
  <2>4. Span(r, 1, Space, e)
    <3>1. ASSUME NEW i \in 1..e - 1 PROVE r[i] \in Space
      <4>1. i \in 1..n /\ n - i + 1 \in k + Len(t) + 1..Len(raw)
        BY <1>1, <1>2, <1>3, <2>3
      <4> QED
        BY <1>1, <1>5, <4>1
    <3>2. r[e] \notin Space
      <4>1. e \in 1..n /\ n - e + 1 = k + m
        BY <1>1, <1>2, <1>3, <1>8, <2>3
      <4> QED
        BY <1>5, <2>1, <4>1
    <3>3. e \in 1..Len(r) + 1
      BY <1>1, <1>2, <1>3, <1>5, <1>8, <2>3
    <3> QED
      BY <3>1, <3>2, <3>3 DEF Span
  <2>5. SkipWhile(raw, 1, is_space) = k + 1 /\ SkipWhile(r, 1, is_space) = e
    BY <1>1, <1>5, <1>6, <2>2, <2>4, SkipWhileIsSpan, SpanUnique
  <2>6. Trim(raw) = SubSeq(raw, k + 1, n + 1 - e)
    BY <1>2, <1>4, <2>5 DEF Trim
  <2>7. At(raw, k + 1, t)
    <3>1. k + 1 \in Nat \ {0} /\ (k + 1) + Len(t) - 1 <= Len(raw)
      BY <1>1, <1>2, <1>3
    <3>2. ASSUME NEW i \in 1..Len(t) PROVE raw[(k + 1) + i - 1] = t[i]
      <4>1. (k + 1) + i - 1 = k + i
        BY <1>1
      <4> QED
        BY <1>1, <4>1
    <3> QED
      BY <1>1, <3>1, <3>2, AtMeans
  <2>8. n + 1 - e = (k + 1) + Len(t) - 1
    BY <1>1, <1>2, <1>3, <2>3
  <2> QED
    BY <2>6, <2>7, <2>8 DEF At
<1> QED
  BY <1>3, <1>7, <1>8

(* clean_token is t, lowered. *)
LEMMA CleanIs ==
  ASSUME NEW raw, NEW k, NEW t, Trimmed(raw, k, t),
         NEW c \in Text, Len(c) = Len(t),
         \A i \in 1..Len(t) : ascii_lower(t[i]) = c[i]
  PROVE  clean_token(raw) = c
<1>1. clean_token(raw) = [i \in DOMAIN t |-> ascii_lower(t[i])]
  BY TrimIs DEF clean_token
<1>2. PICK m : m = Len(t)
  OBVIOUS
<1>3. m \in Nat /\ DOMAIN t = 1..m /\ DOMAIN c = 1..m
  BY <1>2 DEF Trimmed, Text
<1>4. c = [i \in 1..m |-> c[i]]
  BY <1>3 DEF Text
<1> QED
  BY <1>1, <1>2, <1>3, <1>4

(* What is made of the name and of the qualifiers. *)
Stripped(parts) == [i \in DOMAIN parts |-> strip_ticks(parts[i])]

Trims(quals) == [i \in DOMAIN quals |-> Trim(quals[i])]

(* Of one and of two. *)
LEMMA EachOfThem ==
  ASSUME NEW x, NEW y
  PROVE  /\ Stripped(<<x>>) = <<strip_ticks(x)>>
         /\ Stripped(<<x, y>>) = <<strip_ticks(x), strip_ticks(y)>>
         /\ Trims(<<x>>) = <<Trim(x)>>
         /\ Trims(<<x, y>>) = <<Trim(x), Trim(y)>>
BY DEF Stripped, Trims

(* ReadEntry from where the name ends. *)
NoColon == {c \in Symbol : c # ColonSym}

(* Its loop stops there. *)
LEMMA ReadEntryIs ==
  ASSUME NEW token \in Text, NEW c, Span(token, 1, NoColon, c)
  PROVE  ReadEntry(token) =
           [parts |-> Stripped(Split(Trim(SubSeq(token, 1, c - 1)), DotSym)),
            quals |-> IF c > Len(token) THEN <<>>
                      ELSE Trims(Split(SubSeq(token, c + 1, Len(token)), BarSym))]
<1>0. Len(token) \in Nat /\ \A i \in 1..Len(token) : token[i] \in Symbol
  BY DEF Text
<1> DEFINE P(x) == /\ x = Len(token) + 1 \/ ~(token[x] # ColonSym)
                   /\ \A i \in 1..x - 1 : token[i] # ColonSym
<1>1. ASSUME NEW x \in 1..Len(token) + 1 PROVE P(x) <=> Span(token, 1, NoColon, x)
  <2>1. /\ x = Len(token) + 1 \/ x \in 1..Len(token)
        /\ \A i \in 1..x - 1 : i \in 1..Len(token)
    BY <1>0
  <2> QED
    BY <1>0, <2>1 DEF Span, NoColon
<1>2. c \in 1..Len(token) + 1 /\ P(c)
  BY <1>1 DEF Span
<1>3. SkipWhile(token, 1, LAMBDA x : x # ColonSym)
        = CHOOSE x \in 1..Len(token) + 1 : P(x)
  BY DEF SkipWhile
<1>4. SkipWhile(token, 1, LAMBDA x : x # ColonSym) = c
  <2> HIDE DEF P
  <2>1. PICK s : s = CHOOSE x \in 1..Len(token) + 1 : P(x)
    OBVIOUS
  <2>2. s \in 1..Len(token) + 1 /\ P(s)
    BY <1>2, <2>1, Zenon
  <2>3. Span(token, 1, NoColon, s)
    BY <1>1, <2>2, Zenon
  <2>4. 1 \in 1..Len(token) + 1
    BY <1>0
  <2>5. s = c
    BY <2>3, <2>4, SpanUnique
  <2> QED
    BY <1>3, <2>1, <2>5, Zenon
<1>5. SkipWhile(token, 1, LAMBDA x : x # ":") = c
  BY <1>4, Zenon DEF ColonSym
<1> QED
  BY <1>5, Zenon DEF ReadEntry, Stripped, Trims, DotSym, BarSym

(* A token without a colon, or with one. *)
LEMMA ReadPlain ==
  ASSUME NEW token, Without(token, ColonSym), Trimmed(token, 0, token)
  PROVE  ReadEntry(token) = [parts |-> Stripped(Split(token, DotSym)),
                             quals |-> <<>>]
<1>1. token \in Text /\ \A i \in 1..Len(token) : token[i] # ColonSym
  BY DEF Without
<1>2. PICK n \in Nat : n = Len(token)
  BY <1>1 DEF Text
<1>3. \A i \in 1..n : token[i] \in NoColon
  BY <1>1, <1>2 DEF NoColon, Text
<1>4. PICK c \in Nat : c = n + 1 /\ c - 1 = n /\ c > Len(token)
  BY <1>2
<1>5. Span(token, 1, NoColon, c)
  BY <1>2, <1>3, <1>4 DEF Span
<1>6. SubSeq(token, 1, c - 1) = token
  BY <1>1, <1>2, <1>4, WholeIsPrefix
<1>7. Trim(token) = token
  BY TrimIs
<1>8. ReadEntry(token) =
        [parts |-> Stripped(Split(Trim(SubSeq(token, 1, c - 1)), DotSym)),
         quals |-> IF c > Len(token) THEN <<>>
                   ELSE Trims(Split(SubSeq(token, c + 1, Len(token)), BarSym))]
  BY <1>1, <1>5, ReadEntryIs
<1> QED
  BY <1>4, <1>6, <1>7, <1>8

(* The name n is trimmed, the qualifiers q are split. *)
LEMMA ReadQualified ==
  ASSUME NEW token, NEW name, NEW q, Joined(token, name, ColonSym, q),
         Without(name, ColonSym), NEW n, Trimmed(name, 0, n)
  PROVE  ReadEntry(token) = [parts |-> Stripped(Split(n, DotSym)),
                             quals |-> Trims(Split(q, BarSym))]
<1>1. /\ token \in Text /\ name \in Text /\ q \in Text
      /\ Len(token) = Len(name) + 1 + Len(q) /\ token[Len(name) + 1] = ColonSym
      /\ \A i \in 1..Len(name) : token[i] = name[i]
      /\ \A i \in 1..Len(q) : token[Len(name) + 1 + i] = q[i]
  BY DEF Joined
<1>2. \A i \in 1..Len(name) : name[i] # ColonSym /\ name[i] \in Symbol
  BY <1>1 DEF Without, Text
<1>3. Len(name) \in Nat /\ Len(q) \in Nat /\ Len(token) \in Nat
  BY <1>1 DEF Text
<1>4. PICK c \in Nat : c = Len(name) + 1 /\ c - 1 = Len(name) /\ ~(c > Len(token))
  BY <1>1, <1>3
<1>5. Span(token, 1, NoColon, c)
  <2>1. \A i \in 1..c - 1 : token[i] \in NoColon
    BY <1>1, <1>2, <1>4 DEF NoColon
  <2>2. token[c] \notin NoColon
    BY <1>1, <1>4 DEF NoColon
  <2>3. c \in 1..Len(token) + 1
    BY <1>1, <1>3, <1>4
  <2> QED
    BY <2>1, <2>2, <2>3 DEF Span
<1>6. SubSeq(token, 1, c - 1) = name
  <2>1. PICK a \in Nat \ {0} : a = 1
    OBVIOUS
  <2>2. a + Len(name) - 1 <= Len(token) /\ a + Len(name) - 1 = c - 1
    BY <1>1, <1>3, <1>4, <2>1
  <2>3. \A i \in 1..Len(name) : token[a + i - 1] = name[i]
    BY <1>1, <1>3, <2>1
  <2>4. At(token, a, name)
    BY <1>1, <2>2, <2>3, AtMeans
  <2> QED
    BY <2>1, <2>2, <2>4 DEF At
<1>7. SubSeq(token, c + 1, Len(token)) = q
  <2>1. PICK a \in Nat \ {0} : a = c + 1
    OBVIOUS
  <2>2. a + Len(q) - 1 <= Len(token) /\ a + Len(q) - 1 = Len(token)
    BY <1>1, <1>3, <1>4, <2>1
  <2>3. ASSUME NEW i \in 1..Len(q) PROVE token[a + i - 1] = q[i]
    <3>1. a + i - 1 = Len(name) + 1 + i
      BY <1>3, <1>4, <2>1
    <3> QED
      BY <1>1, <3>1
  <2>4. At(token, a, q)
    BY <1>1, <2>2, <2>3, AtMeans
  <2> QED
    BY <2>1, <2>2, <2>4 DEF At
<1>8. Trim(name) = n
  BY TrimIs
<1>9. ReadEntry(token) =
        [parts |-> Stripped(Split(Trim(SubSeq(token, 1, c - 1)), DotSym)),
         quals |-> IF c > Len(token) THEN <<>>
                   ELSE Trims(Split(SubSeq(token, c + 1, Len(token)), BarSym))]
  BY <1>1, <1>5, ReadEntryIs
<1> QED
  BY <1>4, <1>6, <1>7, <1>8, <1>9

(* w between backticks. *)
Quoted(part, w) ==
  /\ part \in Text /\ w \in Text /\ Len(part) = Len(w) + 2
  /\ part[1] = TickSym /\ part[Len(part)] = TickSym
  /\ \A i \in 1..Len(w) : part[i + 1] = w[i]

(* strip_ticks takes them off, and nothing else. *)
LEMMA StripIs ==
  /\ \A part, w : Quoted(part, w) => strip_ticks(part) = w
  /\ \A part \in Text : Len(part) < 2 \/ part[1] # TickSym =>
       strip_ticks(part) = part
<1>1. ASSUME NEW part, NEW w, Quoted(part, w) PROVE strip_ticks(part) = w
  <2>1. /\ part \in Text /\ w \in Text /\ Len(part) = Len(w) + 2
        /\ part[1] = TickSym /\ part[Len(part)] = TickSym
        /\ \A i \in 1..Len(w) : part[i + 1] = w[i]
    BY <1>1 DEF Quoted
  <2>2. Len(w) \in Nat /\ Len(part) \in Nat /\ Len(part) >= 2
    BY <2>1 DEF Text
  <2>3. PICK a \in Nat \ {0} : a = 2
    OBVIOUS
  <2>4. a + Len(w) - 1 <= Len(part) /\ a + Len(w) - 1 = Len(part) - 1
    BY <2>1, <2>2, <2>3
  <2>5. ASSUME NEW i \in 1..Len(w) PROVE part[a + i - 1] = w[i]
    <3>1. a + i - 1 = i + 1
      BY <2>3
    <3> QED
      BY <2>1, <3>1
  <2>6. At(part, a, w)
    BY <2>1, <2>4, <2>5, AtMeans
  <2>7. SubSeq(part, 2, Len(part) - 1) = w
    BY <2>3, <2>4, <2>6 DEF At
  <2> QED
    BY <2>1, <2>2, <2>7 DEF strip_ticks, TickSym
<1>2. ASSUME NEW part \in Text, Len(part) < 2 \/ part[1] # TickSym
      PROVE  strip_ticks(part) = part
  <2>1. Len(part) \in Nat
    BY DEF Text
  <2> QED
    BY <1>2, <2>1 DEF strip_ticks, TickSym
<1> QED
  BY <1>1, <1>2

(* What an entry means, wherever it stands between commas. *)
EntryReads(t, m) ==
  /\ Without(t, CommaSym) /\ clean_token(t) \in Text
  /\ m = IF clean_token(t) = <<>> THEN <<>> ELSE <<ReadEntry(clean_token(t))>>

(* The entries read of the pieces P and of one more. *)
LEMMA ReadGrows ==
  ASSUME NEW P \in Seq(Text), NEW t, NEW m, EntryReads(t, m),
         Tokens(P) \in Seq(Text)
  PROVE  /\ Tokens(Append(P, t)) \in Seq(Text)
         /\ ReadAll(Tokens(Append(P, t))) = ReadAll(Tokens(P)) \o m
<1>1. PICK T, c : T = Tokens(P) /\ c = clean_token(t)
  OBVIOUS
<1>2. T \in Seq(Text) /\ c \in Text /\ t \in Text
      /\ m = IF c = <<>> THEN <<>> ELSE <<ReadEntry(c)>>
  BY <1>1 DEF EntryReads, Without
<1>3. Tokens(Append(P, t)) = IF c = <<>> THEN T ELSE Append(T, c)
  BY <1>1, <1>2, TokensStep DEF Keep
<1>4. CASE c = <<>>
  <2>1. ReadAll(T) \o <<>> = ReadAll(T)
    BY <1>2, ReadAllIsSeq
  <2> QED
    BY <1>1, <1>2, <1>3, <1>4, <2>1, Zenon
<1>5. CASE c # <<>>
  <2>1. Append(T, c) \in Seq(Text)
    BY <1>2
  <2>2. ReadAll(Append(T, c)) = ReadAll(T) \o <<ReadEntry(c)>>
    BY <1>2, ReadAllStep
  <2> QED
    BY <1>1, <1>2, <1>3, <1>5, <2>1, <2>2, Zenon
<1> QED
  BY <1>4, <1>5

(* ReadList, step by step. *)
LEMMA ReadListIs ==
  ASSUME NEW csv
  PROVE  ReadList(csv) = ReadAll(Tokens(Split(csv, CommaSym)))
BY Zenon DEF ReadList, split_csv, ReadAll, CommaSym

(* Nothing between two commas. *)
LEMMA ListNothing ==
  EntryReads(<<>>,
             <<>>)
<1>1. PICK u : u = <<>>
  OBVIOUS
<1>2. /\ u \in Text /\ Len(u) = 0
  BY <1>1 DEF Text
<1>3. Without(u, CommaSym)
  BY <1>2 DEF Without
<1>4. Trimmed(u, 0, u)
  BY <1>2 DEF Trimmed
<1>5. clean_token(u) = u
  BY <1>2, <1>4, CleanIs
<1> QED
  BY <1>1, <1>2, <1>3, <1>5 DEF EntryReads

(* Blanks between two commas. *)
LEMMA ListBlanks ==
  EntryReads(<<BlankSym, LineSym>>,
             <<>>)
<1>1. PICK u : u = <<BlankSym, LineSym>>
  OBVIOUS
<1>2. /\ u \in Text /\ Len(u) = 2 /\ u[1] = BlankSym /\ u[2] = LineSym
  BY <1>1, ListSymbols DEF Text
<1>3. Without(u, CommaSym)
  BY <1>2, ListSymbols DEF Without
<1>4. PICK v : v = <<>>
  OBVIOUS
<1>5. /\ v \in Text /\ Len(v) = 0
  BY <1>4, ListSymbols DEF Text
<1>6. Trimmed(u, 2, v)
  BY <1>2, <1>5, ListSymbols DEF Trimmed
<1>7. clean_token(u) = v
  BY <1>5, <1>6, ListSymbols, CleanIs
<1> QED
  BY <1>1, <1>3, <1>4, <1>5, <1>7 DEF EntryReads

(* A name among blanks, in capitals. *)
LEMMA ListName ==
  EntryReads(<<BlankSym, UpperA, LowerB, BlankSym>>,
             <<[parts |-> <<<<LowerA, LowerB>>>>,
               quals |-> <<>>]>>)
<1>1. PICK u : u = <<BlankSym, UpperA, LowerB, BlankSym>>
  OBVIOUS
<1>2. /\ u \in Text /\ Len(u) = 4 /\ u[1] = BlankSym /\ u[2] = UpperA
      /\ u[3] = LowerB /\ u[4] = BlankSym
  BY <1>1, ListSymbols DEF Text
<1>3. Without(u, CommaSym)
  BY <1>2, ListSymbols DEF Without
<1>4. PICK v : v = <<UpperA, LowerB>>
  OBVIOUS
<1>5. /\ v \in Text /\ Len(v) = 2 /\ v[1] = UpperA /\ v[2] = LowerB
  BY <1>4, ListSymbols DEF Text
<1>6. Trimmed(u, 1, v)
  BY <1>2, <1>5, ListSymbols DEF Trimmed
<1>7. PICK w : w = <<LowerA, LowerB>>
  OBVIOUS
<1>8. /\ w \in Text /\ Len(w) = 2 /\ w[1] = LowerA /\ w[2] = LowerB
  BY <1>7, ListSymbols DEF Text
<1>9. clean_token(u) = w
  BY <1>5, <1>6, <1>8, ListSymbols, CleanIs
<1>10. w # <<>>
  BY <1>8
<1>11. Without(w, ColonSym)
  BY <1>8, ListSymbols DEF Without
<1>12. Trimmed(w, 0, w)
  BY <1>8, ListSymbols DEF Trimmed
<1>13. ReadEntry(w) = [parts |-> Stripped(Split(w, DotSym)), quals |-> <<>>]
  BY <1>11, <1>12, ReadPlain, Zenon
<1>14. Without(w, DotSym)
  BY <1>8, ListSymbols DEF Without
<1>15. Split(w, DotSym) = <<w>>
  BY <1>14, SplitNone
<1>16. strip_ticks(w) = w
  BY <1>8, StripIs, ListSymbols
<1>17. Stripped(Split(w, DotSym)) = <<w>>
  BY <1>15, <1>16, EachOfThem, Zenon
<1>18. ReadEntry(w) = [parts |-> <<w>>, quals |-> <<>>]
  BY <1>13, <1>17, Zenon
<1>19. EntryReads(u, <<[parts |-> <<w>>,
                        quals |-> <<>>]>>)
  BY <1>3, <1>8, <1>9, <1>10, <1>18, Zenon DEF EntryReads
<1> QED
  BY <1>1, <1>7, <1>19, Zenon

(* A quoted name that ends with a blank. *)
LEMMA ListQuotedName ==
  EntryReads(<<TickSym, LowerA, BlankSym, TickSym>>,
             <<[parts |-> <<<<LowerA, BlankSym>>>>,
               quals |-> <<>>]>>)
<1>1. PICK u : u = <<TickSym, LowerA, BlankSym, TickSym>>
  OBVIOUS
<1>2. /\ u \in Text /\ Len(u) = 4 /\ u[1] = TickSym /\ u[2] = LowerA
      /\ u[3] = BlankSym /\ u[4] = TickSym
  BY <1>1, ListSymbols DEF Text
<1>3. Without(u, CommaSym)
  BY <1>2, ListSymbols DEF Without
<1>4. Trimmed(u, 0, u)
  BY <1>2, ListSymbols DEF Trimmed
<1>5. clean_token(u) = u
  BY <1>2, <1>4, ListSymbols, CleanIs
<1>6. u # <<>>
  BY <1>2
<1>7. Without(u, ColonSym)
  BY <1>2, ListSymbols DEF Without
<1>8. Trimmed(u, 0, u)
  BY <1>2, ListSymbols DEF Trimmed
<1>9. ReadEntry(u) = [parts |-> Stripped(Split(u, DotSym)), quals |-> <<>>]
  BY <1>7, <1>8, ReadPlain, Zenon
<1>10. Without(u, DotSym)
  BY <1>2, ListSymbols DEF Without
<1>11. Split(u, DotSym) = <<u>>
  BY <1>10, SplitNone
<1>12. PICK v : v = <<LowerA, BlankSym>>
  OBVIOUS
<1>13. /\ v \in Text /\ Len(v) = 2 /\ v[1] = LowerA /\ v[2] = BlankSym
  BY <1>12, ListSymbols DEF Text
<1>14. Quoted(u, v)
  BY <1>2, <1>13 DEF Quoted
<1>15. strip_ticks(u) = v
  BY <1>14, StripIs, Zenon
<1>16. Stripped(Split(u, DotSym)) = <<v>>
  BY <1>11, <1>15, EachOfThem, Zenon
<1>17. ReadEntry(u) = [parts |-> <<v>>, quals |-> <<>>]
  BY <1>9, <1>16, Zenon
<1>18. EntryReads(u, <<[parts |-> <<v>>,
                        quals |-> <<>>]>>)
  BY <1>2, <1>3, <1>5, <1>6, <1>17, Zenon DEF EntryReads
<1> QED
  BY <1>1, <1>12, <1>18, Zenon

(* A pair of backticks with nothing between them. *)
LEMMA ListEmptyQuotes ==
  EntryReads(<<TickSym, TickSym>>,
             <<[parts |-> <<<<>>>>,
               quals |-> <<>>]>>)
<1>1. PICK u : u = <<TickSym, TickSym>>
  OBVIOUS
<1>2. /\ u \in Text /\ Len(u) = 2 /\ u[1] = TickSym /\ u[2] = TickSym
  BY <1>1, ListSymbols DEF Text
<1>3. Without(u, CommaSym)
  BY <1>2, ListSymbols DEF Without
<1>4. Trimmed(u, 0, u)
  BY <1>2, ListSymbols DEF Trimmed
<1>5. clean_token(u) = u
  BY <1>2, <1>4, ListSymbols, CleanIs
<1>6. u # <<>>
  BY <1>2
<1>7. Without(u, ColonSym)
  BY <1>2, ListSymbols DEF Without
<1>8. Trimmed(u, 0, u)
  BY <1>2, ListSymbols DEF Trimmed
<1>9. ReadEntry(u) = [parts |-> Stripped(Split(u, DotSym)), quals |-> <<>>]
  BY <1>7, <1>8, ReadPlain, Zenon
<1>10. Without(u, DotSym)
  BY <1>2, ListSymbols DEF Without
<1>11. Split(u, DotSym) = <<u>>
  BY <1>10, SplitNone
<1>12. PICK v : v = <<>>
  OBVIOUS
<1>13. /\ v \in Text /\ Len(v) = 0
  BY <1>12, ListSymbols DEF Text
<1>14. Quoted(u, v)
  BY <1>2, <1>13 DEF Quoted
<1>15. strip_ticks(u) = v
  BY <1>14, StripIs, Zenon
<1>16. Stripped(Split(u, DotSym)) = <<v>>
  BY <1>11, <1>15, EachOfThem, Zenon
<1>17. ReadEntry(u) = [parts |-> <<v>>, quals |-> <<>>]
  BY <1>9, <1>16, Zenon
<1>18. EntryReads(u, <<[parts |-> <<v>>,
                        quals |-> <<>>]>>)
  BY <1>2, <1>3, <1>5, <1>6, <1>17, Zenon DEF EntryReads
<1> QED
  BY <1>1, <1>12, <1>18, Zenon

(* A single backtick. *)
LEMMA ListOneTick ==
  EntryReads(<<TickSym>>,
             <<[parts |-> <<<<TickSym>>>>,
               quals |-> <<>>]>>)
<1>1. PICK u : u = <<TickSym>>
  OBVIOUS
<1>2. /\ u \in Text /\ Len(u) = 1 /\ u[1] = TickSym
  BY <1>1, ListSymbols DEF Text
<1>3. Without(u, CommaSym)
  BY <1>2, ListSymbols DEF Without
<1>4. Trimmed(u, 0, u)
  BY <1>2, ListSymbols DEF Trimmed
<1>5. clean_token(u) = u
  BY <1>2, <1>4, ListSymbols, CleanIs
<1>6. u # <<>>
  BY <1>2
<1>7. Without(u, ColonSym)
  BY <1>2, ListSymbols DEF Without
<1>8. Trimmed(u, 0, u)
  BY <1>2, ListSymbols DEF Trimmed
<1>9. ReadEntry(u) = [parts |-> Stripped(Split(u, DotSym)), quals |-> <<>>]
  BY <1>7, <1>8, ReadPlain, Zenon
<1>10. Without(u, DotSym)
  BY <1>2, ListSymbols DEF Without
<1>11. Split(u, DotSym) = <<u>>
  BY <1>10, SplitNone
<1>12. strip_ticks(u) = u
  BY <1>2, StripIs, ListSymbols
<1>13. Stripped(Split(u, DotSym)) = <<u>>
  BY <1>11, <1>12, EachOfThem, Zenon
<1>14. ReadEntry(u) = [parts |-> <<u>>, quals |-> <<>>]
  BY <1>9, <1>13, Zenon
<1>15. EntryReads(u, <<[parts |-> <<u>>,
                        quals |-> <<>>]>>)
  BY <1>2, <1>3, <1>5, <1>6, <1>14, Zenon DEF EntryReads
<1> QED
  BY <1>1, <1>15, Zenon

(* A schema with every table of it, and two qualifiers. *)
LEMMA ListQualified ==
  EntryReads(<<UpperA, DotSym, StarSym, BlankSym, ColonSym,
               BlankSym, DmlSym, BlankSym, BarSym, SelectSym>>,
             <<[parts |-> <<<<LowerA>>, <<StarSym>>>>,
               quals |-> <<<<DmlSym>>, <<SelectSym>>>>]>>)
<1>1. PICK u : u = <<UpperA, DotSym, StarSym, BlankSym, ColonSym,
                   BlankSym, DmlSym, BlankSym, BarSym, SelectSym>>
  OBVIOUS
<1>2. /\ u \in Text /\ Len(u) = 10 /\ u[1] = UpperA /\ u[2] = DotSym
      /\ u[3] = StarSym /\ u[4] = BlankSym /\ u[5] = ColonSym
      /\ u[6] = BlankSym /\ u[7] = DmlSym /\ u[8] = BlankSym /\ u[9] = BarSym
      /\ u[10] = SelectSym
  BY <1>1, ListSymbols DEF Text
<1>3. Without(u, CommaSym)
  BY <1>2, ListSymbols DEF Without
<1>4. Trimmed(u, 0, u)
  BY <1>2, ListSymbols DEF Trimmed
<1>5. PICK v : v = <<LowerA, DotSym, StarSym, BlankSym, ColonSym,
                   BlankSym, DmlSym, BlankSym, BarSym, SelectSym>>
  OBVIOUS
<1>6. /\ v \in Text /\ Len(v) = 10 /\ v[1] = LowerA /\ v[2] = DotSym
      /\ v[3] = StarSym /\ v[4] = BlankSym /\ v[5] = ColonSym
      /\ v[6] = BlankSym /\ v[7] = DmlSym /\ v[8] = BlankSym /\ v[9] = BarSym
      /\ v[10] = SelectSym
  BY <1>5, ListSymbols DEF Text
<1>7. clean_token(u) = v
  BY <1>2, <1>4, <1>6, ListSymbols, CleanIs
<1>8. v # <<>>
  BY <1>6
<1>9. PICK w : w = <<LowerA, DotSym, StarSym, BlankSym>>
  OBVIOUS
<1>10. /\ w \in Text /\ Len(w) = 4 /\ w[1] = LowerA /\ w[2] = DotSym
       /\ w[3] = StarSym /\ w[4] = BlankSym
  BY <1>9, ListSymbols DEF Text
<1>11. PICK x : x = <<BlankSym, DmlSym, BlankSym, BarSym, SelectSym>>
  OBVIOUS
<1>12. /\ x \in Text /\ Len(x) = 5 /\ x[1] = BlankSym /\ x[2] = DmlSym
       /\ x[3] = BlankSym /\ x[4] = BarSym /\ x[5] = SelectSym
  BY <1>11, ListSymbols DEF Text
<1>13. Joined(v, w, ColonSym, x)
  BY <1>6, <1>10, <1>12 DEF Joined
<1>14. Without(w, ColonSym)
  BY <1>10, ListSymbols DEF Without
<1>15. PICK y : y = <<LowerA, DotSym, StarSym>>
  OBVIOUS
<1>16. /\ y \in Text /\ Len(y) = 3 /\ y[1] = LowerA /\ y[2] = DotSym
       /\ y[3] = StarSym
  BY <1>15, ListSymbols DEF Text
<1>17. Trimmed(w, 0, y)
  BY <1>10, <1>16, ListSymbols DEF Trimmed
<1>18. ReadEntry(v) = [parts |-> Stripped(Split(y, DotSym)),
                       quals |-> Trims(Split(x, BarSym))]
  BY <1>13, <1>14, <1>17, ReadQualified, Zenon
<1>19. PICK z : z = <<LowerA>>
  OBVIOUS
<1>20. /\ z \in Text /\ Len(z) = 1 /\ z[1] = LowerA
  BY <1>19, ListSymbols DEF Text
<1>21. Without(z, DotSym)
  BY <1>20, ListSymbols DEF Without
<1>22. PICK p : p = <<StarSym>>
  OBVIOUS
<1>23. /\ p \in Text /\ Len(p) = 1 /\ p[1] = StarSym
  BY <1>22, ListSymbols DEF Text
<1>24. Without(p, DotSym)
  BY <1>23, ListSymbols DEF Without
<1>25. Joined(y, z, DotSym, p)
  BY <1>16, <1>20, <1>23 DEF Joined
<1>26. DotSym \in Symbol
  BY ListSymbols, Zenon
<1>27. Split(y, DotSym) = <<z, p>>
  BY <1>21, <1>24, <1>25, <1>26, SplitTwo, Zenon
<1>28. strip_ticks(z) = z
  BY <1>20, StripIs, ListSymbols
<1>29. strip_ticks(p) = p
  BY <1>23, StripIs, ListSymbols
<1>30. Stripped(Split(y, DotSym)) = <<z, p>>
  BY <1>27, <1>28, <1>29, EachOfThem, Zenon
<1>31. PICK q : q = <<BlankSym, DmlSym, BlankSym>>
  OBVIOUS
<1>32. /\ q \in Text /\ Len(q) = 3 /\ q[1] = BlankSym /\ q[2] = DmlSym
       /\ q[3] = BlankSym
  BY <1>31, ListSymbols DEF Text
<1>33. Without(q, BarSym)
  BY <1>32, ListSymbols DEF Without
<1>34. PICK r : r = <<SelectSym>>
  OBVIOUS
<1>35. /\ r \in Text /\ Len(r) = 1 /\ r[1] = SelectSym
  BY <1>34, ListSymbols DEF Text
<1>36. Without(r, BarSym)
  BY <1>35, ListSymbols DEF Without
<1>37. Joined(x, q, BarSym, r)
  BY <1>12, <1>32, <1>35 DEF Joined
<1>38. BarSym \in Symbol
  BY ListSymbols, Zenon
<1>39. Split(x, BarSym) = <<q, r>>
  BY <1>33, <1>36, <1>37, <1>38, SplitTwo, Zenon
<1>40. PICK s : s = <<DmlSym>>
  OBVIOUS
<1>41. /\ s \in Text /\ Len(s) = 1 /\ s[1] = DmlSym
  BY <1>40, ListSymbols DEF Text
<1>42. Trimmed(q, 1, s)
  BY <1>32, <1>41, ListSymbols DEF Trimmed
<1>43. Trim(q) = s
  BY <1>42, TrimIs, Zenon
<1>44. Trimmed(r, 0, r)
  BY <1>35, ListSymbols DEF Trimmed
<1>45. Trim(r) = r
  BY <1>44, TrimIs, Zenon
<1>46. Trims(Split(x, BarSym)) = <<s, r>>
  BY <1>39, <1>43, <1>45, EachOfThem, Zenon
<1>47. ReadEntry(v) = [parts |-> <<z, p>>, quals |-> <<s, r>>]
  BY <1>18, <1>30, <1>46, Zenon
<1>48. EntryReads(u, <<[parts |-> <<z, p>>,
                        quals |-> <<s, r>>]>>)
  BY <1>3, <1>6, <1>7, <1>8, <1>47, Zenon DEF EntryReads
<1> QED
  BY <1>1, <1>19, <1>22, <1>34, <1>40, <1>48, Zenon

(* A quoted schema, a quoted table and a qualifier. *)
LEMMA ListQuotedParts ==
  EntryReads(<<TickSym, LowerA, TickSym, DotSym, TickSym,
               LowerB, TickSym, ColonSym, DdlSym, BlankSym>>,
             <<[parts |-> <<<<LowerA>>, <<LowerB>>>>,
               quals |-> <<<<DdlSym>>>>]>>)
<1>1. PICK u : u = <<TickSym, LowerA, TickSym, DotSym, TickSym,
                   LowerB, TickSym, ColonSym, DdlSym, BlankSym>>
  OBVIOUS
<1>2. /\ u \in Text /\ Len(u) = 10 /\ u[1] = TickSym /\ u[2] = LowerA
      /\ u[3] = TickSym /\ u[4] = DotSym /\ u[5] = TickSym /\ u[6] = LowerB
      /\ u[7] = TickSym /\ u[8] = ColonSym /\ u[9] = DdlSym
      /\ u[10] = BlankSym
  BY <1>1, ListSymbols DEF Text
<1>3. Without(u, CommaSym)
  BY <1>2, ListSymbols DEF Without
<1>4. PICK v : v = <<TickSym, LowerA, TickSym, DotSym, TickSym,
                   LowerB, TickSym, ColonSym, DdlSym>>
  OBVIOUS
<1>5. /\ v \in Text /\ Len(v) = 9 /\ v[1] = TickSym /\ v[2] = LowerA
      /\ v[3] = TickSym /\ v[4] = DotSym /\ v[5] = TickSym /\ v[6] = LowerB
      /\ v[7] = TickSym /\ v[8] = ColonSym /\ v[9] = DdlSym
  BY <1>4, ListSymbols DEF Text
<1>6. Trimmed(u, 0, v)
  BY <1>2, <1>5, ListSymbols DEF Trimmed
<1>7. clean_token(u) = v
  BY <1>5, <1>6, ListSymbols, CleanIs
<1>8. v # <<>>
  BY <1>5
<1>9. PICK w : w = <<TickSym, LowerA, TickSym, DotSym, TickSym,
                   LowerB, TickSym>>
  OBVIOUS
<1>10. /\ w \in Text /\ Len(w) = 7 /\ w[1] = TickSym /\ w[2] = LowerA
       /\ w[3] = TickSym /\ w[4] = DotSym /\ w[5] = TickSym /\ w[6] = LowerB
       /\ w[7] = TickSym
  BY <1>9, ListSymbols DEF Text
<1>11. PICK x : x = <<DdlSym>>
  OBVIOUS
<1>12. /\ x \in Text /\ Len(x) = 1 /\ x[1] = DdlSym
  BY <1>11, ListSymbols DEF Text
<1>13. Joined(v, w, ColonSym, x)
  BY <1>5, <1>10, <1>12 DEF Joined
<1>14. Without(w, ColonSym)
  BY <1>10, ListSymbols DEF Without
<1>15. Trimmed(w, 0, w)
  BY <1>10, ListSymbols DEF Trimmed
<1>16. ReadEntry(v) = [parts |-> Stripped(Split(w, DotSym)),
                       quals |-> Trims(Split(x, BarSym))]
  BY <1>13, <1>14, <1>15, ReadQualified, Zenon
<1>17. PICK y : y = <<TickSym, LowerA, TickSym>>
  OBVIOUS
<1>18. /\ y \in Text /\ Len(y) = 3 /\ y[1] = TickSym /\ y[2] = LowerA
       /\ y[3] = TickSym
  BY <1>17, ListSymbols DEF Text
<1>19. Without(y, DotSym)
  BY <1>18, ListSymbols DEF Without
<1>20. PICK z : z = <<TickSym, LowerB, TickSym>>
  OBVIOUS
<1>21. /\ z \in Text /\ Len(z) = 3 /\ z[1] = TickSym /\ z[2] = LowerB
       /\ z[3] = TickSym
  BY <1>20, ListSymbols DEF Text
<1>22. Without(z, DotSym)
  BY <1>21, ListSymbols DEF Without
<1>23. Joined(w, y, DotSym, z)
  BY <1>10, <1>18, <1>21 DEF Joined
<1>24. DotSym \in Symbol
  BY ListSymbols, Zenon
<1>25. Split(w, DotSym) = <<y, z>>
  BY <1>19, <1>22, <1>23, <1>24, SplitTwo, Zenon
<1>26. PICK p : p = <<LowerA>>
  OBVIOUS
<1>27. /\ p \in Text /\ Len(p) = 1 /\ p[1] = LowerA
  BY <1>26, ListSymbols DEF Text
<1>28. Quoted(y, p)
  BY <1>18, <1>27 DEF Quoted
<1>29. strip_ticks(y) = p
  BY <1>28, StripIs, Zenon
<1>30. PICK q : q = <<LowerB>>
  OBVIOUS
<1>31. /\ q \in Text /\ Len(q) = 1 /\ q[1] = LowerB
  BY <1>30, ListSymbols DEF Text
<1>32. Quoted(z, q)
  BY <1>21, <1>31 DEF Quoted
<1>33. strip_ticks(z) = q
  BY <1>32, StripIs, Zenon
<1>34. Stripped(Split(w, DotSym)) = <<p, q>>
  BY <1>25, <1>29, <1>33, EachOfThem, Zenon
<1>35. Without(x, BarSym)
  BY <1>12, ListSymbols DEF Without
<1>36. Split(x, BarSym) = <<x>>
  BY <1>35, SplitNone
<1>37. Trimmed(x, 0, x)
  BY <1>12, ListSymbols DEF Trimmed
<1>38. Trim(x) = x
  BY <1>37, TrimIs, Zenon
<1>39. Trims(Split(x, BarSym)) = <<x>>
  BY <1>36, <1>38, EachOfThem, Zenon
<1>40. ReadEntry(v) = [parts |-> <<p, q>>, quals |-> <<x>>]
  BY <1>16, <1>34, <1>39, Zenon
<1>41. EntryReads(u, <<[parts |-> <<p, q>>,
                        quals |-> <<x>>]>>)
  BY <1>3, <1>5, <1>7, <1>8, <1>40, Zenon DEF EntryReads
<1> QED
  BY <1>1, <1>11, <1>26, <1>30, <1>41, Zenon

(* A colon with no qualifier behind it. *)
LEMMA ListNoQualifier ==
  EntryReads(<<LowerA, ColonSym>>,
             <<[parts |-> <<<<LowerA>>>>,
               quals |-> <<<<>>>>]>>)
<1>1. PICK u : u = <<LowerA, ColonSym>>
  OBVIOUS
<1>2. /\ u \in Text /\ Len(u) = 2 /\ u[1] = LowerA /\ u[2] = ColonSym
  BY <1>1, ListSymbols DEF Text
<1>3. Without(u, CommaSym)
  BY <1>2, ListSymbols DEF Without
<1>4. Trimmed(u, 0, u)
  BY <1>2, ListSymbols DEF Trimmed
<1>5. clean_token(u) = u
  BY <1>2, <1>4, ListSymbols, CleanIs
<1>6. u # <<>>
  BY <1>2
<1>7. PICK v : v = <<LowerA>>
  OBVIOUS
<1>8. /\ v \in Text /\ Len(v) = 1 /\ v[1] = LowerA
  BY <1>7, ListSymbols DEF Text
<1>9. PICK w : w = <<>>
  OBVIOUS
<1>10. /\ w \in Text /\ Len(w) = 0
  BY <1>9, ListSymbols DEF Text
<1>11. Joined(u, v, ColonSym, w)
  BY <1>2, <1>8, <1>10 DEF Joined
<1>12. Without(v, ColonSym)
  BY <1>8, ListSymbols DEF Without
<1>13. Trimmed(v, 0, v)
  BY <1>8, ListSymbols DEF Trimmed
<1>14. ReadEntry(u) = [parts |-> Stripped(Split(v, DotSym)),
                       quals |-> Trims(Split(w, BarSym))]
  BY <1>11, <1>12, <1>13, ReadQualified, Zenon
<1>15. Without(v, DotSym)
  BY <1>8, ListSymbols DEF Without
<1>16. Split(v, DotSym) = <<v>>
  BY <1>15, SplitNone
<1>17. strip_ticks(v) = v
  BY <1>8, StripIs, ListSymbols
<1>18. Stripped(Split(v, DotSym)) = <<v>>
  BY <1>16, <1>17, EachOfThem, Zenon
<1>19. Without(w, BarSym)
  BY <1>10, ListSymbols DEF Without
<1>20. Split(w, BarSym) = <<w>>
  BY <1>19, SplitNone
<1>21. Trimmed(w, 0, w)
  BY <1>10, ListSymbols DEF Trimmed
<1>22. Trim(w) = w
  BY <1>21, TrimIs, Zenon
<1>23. Trims(Split(w, BarSym)) = <<w>>
  BY <1>20, <1>22, EachOfThem, Zenon
<1>24. ReadEntry(u) = [parts |-> <<v>>, quals |-> <<w>>]
  BY <1>14, <1>18, <1>23, Zenon
<1>25. EntryReads(u, <<[parts |-> <<v>>,
                        quals |-> <<w>>]>>)
  BY <1>2, <1>3, <1>5, <1>6, <1>24, Zenon DEF EntryReads
<1> QED
  BY <1>1, <1>7, <1>9, <1>25, Zenon

(* A dot with no schema before it. *)
LEMMA ListEmptySchema ==
  EntryReads(<<DotSym, LowerB, BarSym>>,
             <<[parts |-> <<<<>>, <<LowerB, BarSym>>>>,
               quals |-> <<>>]>>)
<1>1. PICK u : u = <<DotSym, LowerB, BarSym>>
  OBVIOUS
<1>2. /\ u \in Text /\ Len(u) = 3 /\ u[1] = DotSym /\ u[2] = LowerB
      /\ u[3] = BarSym
  BY <1>1, ListSymbols DEF Text
<1>3. Without(u, CommaSym)
  BY <1>2, ListSymbols DEF Without
<1>4. Trimmed(u, 0, u)
  BY <1>2, ListSymbols DEF Trimmed
<1>5. clean_token(u) = u
  BY <1>2, <1>4, ListSymbols, CleanIs
<1>6. u # <<>>
  BY <1>2
<1>7. Without(u, ColonSym)
  BY <1>2, ListSymbols DEF Without
<1>8. Trimmed(u, 0, u)
  BY <1>2, ListSymbols DEF Trimmed
<1>9. ReadEntry(u) = [parts |-> Stripped(Split(u, DotSym)), quals |-> <<>>]
  BY <1>7, <1>8, ReadPlain, Zenon
<1>10. PICK v : v = <<>>
  OBVIOUS
<1>11. /\ v \in Text /\ Len(v) = 0
  BY <1>10, ListSymbols DEF Text
<1>12. Without(v, DotSym)
  BY <1>11, ListSymbols DEF Without
<1>13. PICK w : w = <<LowerB, BarSym>>
  OBVIOUS
<1>14. /\ w \in Text /\ Len(w) = 2 /\ w[1] = LowerB /\ w[2] = BarSym
  BY <1>13, ListSymbols DEF Text
<1>15. Without(w, DotSym)
  BY <1>14, ListSymbols DEF Without
<1>16. Joined(u, v, DotSym, w)
  BY <1>2, <1>11, <1>14 DEF Joined
<1>17. DotSym \in Symbol
  BY ListSymbols, Zenon
<1>18. Split(u, DotSym) = <<v, w>>
  BY <1>12, <1>15, <1>16, <1>17, SplitTwo, Zenon
<1>19. strip_ticks(v) = v
  BY <1>11, StripIs, ListSymbols
<1>20. strip_ticks(w) = w
  BY <1>14, StripIs, ListSymbols
<1>21. Stripped(Split(u, DotSym)) = <<v, w>>
  BY <1>18, <1>19, <1>20, EachOfThem, Zenon
<1>22. ReadEntry(u) = [parts |-> <<v, w>>, quals |-> <<>>]
  BY <1>9, <1>21, Zenon
<1>23. EntryReads(u, <<[parts |-> <<v, w>>,
                        quals |-> <<>>]>>)
  BY <1>2, <1>3, <1>5, <1>6, <1>22, Zenon DEF EntryReads
<1> QED
  BY <1>1, <1>10, <1>13, <1>23, Zenon

(* Every entry is read as what it means. *)
LEMMA EntriesAreRead ==
  ASSUME NEW e \in Entries
  PROVE  EntryReads(e.text, e.meaning)
<1>1. ASSUME NEW t, NEW m, e = Piece(t, m), EntryReads(t, m)
      PROVE  EntryReads(e.text, e.meaning)
  <2>1. e.text = t /\ e.meaning = m
    BY <1>1, PieceFields, Zenon
  <2> QED
    BY <1>1, <2>1, Zenon
<1>2. \E t, m : e = Piece(t, m) /\ EntryReads(t, m)
  BY ListNothing, ListBlanks, ListName, ListQuotedName, ListEmptyQuotes,
     ListOneTick, ListQualified, ListQuotedParts, ListNoQualifier,
     ListEmptySchema, Zenon
     DEF Entries, Entry, BlankSym, LineSym, CommaSym, DotSym, ColonSym, BarSym,
         StarSym, TickSym, UpperA, LowerA, LowerB, DmlSym, DdlSym, SelectSym
<1> QED
  BY <1>1, <1>2, Zenon

(* What is built of a list ends with a comma, and what stands in front of  *)
(* it is read as what it means; so is the closed list.                     *)
ListText ==
  task = "list" =>
    /\ closed => ReadList(text) = meaning
    /\ ~closed => \E P : /\ SplitsTo(text, CommaSym, P, <<>>)
                         /\ Tokens(P) \in Seq(Text)
                         /\ ReadAll(Tokens(P)) = meaning

(* ListIsItsEntries, for every number of entries: split_csv cuts the text  *)
(* at the commas, drops what is blank, and what is left of each is read as *)
(* the names and qualifiers it means.                                      *)
THEOREM ListIsRead == Spec => []ListIsItsEntries
<1>1. Init => ListText
  <2>1. SplitsTo(<<>>, CommaSym, <<>>, <<>>)
    BY SplitBegins
  <2>2. ReadAll(<<>>) = <<>> /\ <<>> \in Seq(Text)
    BY DEF ReadAll
  <2> QED
    BY <2>1, <2>2, NoTokens, Zenon DEF Init, ListText
<1>2. ListText /\ [Next]_vars => ListText'
  <2> SUFFICES ASSUME ListText, [Next]_vars, task' = "list"
               PROVE  /\ closed' => ReadList(text') = meaning'
                      /\ ~closed' =>
                           \E P : /\ SplitsTo(text', CommaSym, P, <<>>)
                                  /\ Tokens(P) \in Seq(Text)
                                  /\ ReadAll(Tokens(P)) = meaning'
    BY Zenon DEF ListText
  <2>1. CASE UNCHANGED vars
    <3>1. task' = task /\ text' = text /\ meaning' = meaning /\ closed' = closed
      BY <2>1 DEF vars
    <3> QED
      BY <3>1, Zenon DEF ListText
  <2>2. ASSUME task = "list", ~closed, NEW e \in Entries,
               meaning' = meaning \o e.meaning
        PROVE  \E P : /\ SplitsTo(text, CommaSym, P, <<>>)
                      /\ SplitsTo(text \o e.text, CommaSym, P, e.text)
                      /\ Tokens(Append(P, e.text)) \in Seq(Text)
                      /\ ReadAll(Tokens(Append(P, e.text))) = meaning'
    <3>1. PICK P : /\ SplitsTo(text, CommaSym, P, <<>>)
                   /\ Tokens(P) \in Seq(Text)
                   /\ ReadAll(Tokens(P)) = meaning
      BY <2>2, Zenon DEF ListText
    <3>2. PICK t, m : t = e.text /\ m = e.meaning /\ EntryReads(t, m)
      BY EntriesAreRead, Zenon
    <3>3. P \in Seq(Text) /\ t \in Text
      BY <3>1, <3>2 DEF SplitsTo, EntryReads, Without
    <3>4. <<>> \o t = t
      BY <3>3 DEF Text
    <3>5. SplitsTo(text \o t, CommaSym, P, <<>> \o t)
      BY <3>1, <3>2, SplitRun, Zenon DEF EntryReads
    <3>6. /\ Tokens(Append(P, t)) \in Seq(Text)
          /\ ReadAll(Tokens(Append(P, t))) = ReadAll(Tokens(P)) \o m
      BY <3>1, <3>2, <3>3, ReadGrows
    <3> QED
      BY <2>2, <3>1, <3>2, <3>4, <3>5, <3>6, Zenon
  <2>3. CASE AddPiece
    <3>1. task = "list" /\ ~closed /\ closed' = closed
      BY <2>3, Zenon DEF AddPiece
    <3>2. PICK p \in Pieces("list") : /\ text' = text \o p.text
                                      /\ meaning' = meaning \o p.meaning
      BY <2>3, <3>1, Zenon DEF AddPiece, Put
    <3>3. Pieces("list")
            = {Piece(Append(e.text, CommaSym), e.meaning) : e \in Entries}
      BY Zenon DEF Pieces, CommaSym
    <3>4. PICK e \in Entries : p = Piece(Append(e.text, CommaSym), e.meaning)
      BY <3>3, Zenon
    <3>5. p.text = Append(e.text, CommaSym) /\ p.meaning = e.meaning
      BY <3>4, PieceFields, Zenon
    <3>6. PICK P : /\ SplitsTo(text, CommaSym, P, <<>>)
                   /\ SplitsTo(text \o e.text, CommaSym, P, e.text)
                   /\ Tokens(Append(P, e.text)) \in Seq(Text)
                   /\ ReadAll(Tokens(Append(P, e.text))) = meaning'
      BY <2>2, <3>1, <3>2, <3>5, Zenon
    <3>7. CommaSym \in Symbol
      BY ListSymbols, Zenon
    <3>8. text' = Append(text \o e.text, CommaSym)
      <4>1. text \in Text /\ e.text \in Text
        BY <3>6 DEF SplitsTo
      <4> QED
        BY <3>2, <3>5, <3>7, <4>1, AppendOutside
    <3>9. SplitsTo(text', CommaSym, Append(P, e.text), <<>>)
      BY <3>6, <3>7, <3>8, SplitAtSeparator, Zenon
    <3> QED
      BY <3>1, <3>6, <3>9, Zenon
  <2>4. CASE AddLast
    <3>1. task = "list" /\ ~closed /\ closed'
      BY <2>4, Zenon DEF AddLast
    <3>2. PICK e \in LastPieces("list") : /\ text' = text \o e.text
                                          /\ meaning' = meaning \o e.meaning
      BY <2>4, <3>1, Zenon DEF AddLast, Put
    <3>3. LastPieces("list") = Entries
      BY Zenon DEF LastPieces
    <3>4. PICK P : /\ SplitsTo(text \o e.text, CommaSym, P, e.text)
                   /\ ReadAll(Tokens(Append(P, e.text))) = meaning'
      BY <2>2, <3>1, <3>2, <3>3, Zenon
    <3>5. ReadList(text') = meaning'
      BY <3>2, <3>4, ReadListIs, Zenon DEF SplitsTo
    <3> QED
      BY <3>1, <3>5, Zenon
  <2> QED
    BY <2>1, <2>3, <2>4, Zenon DEF Next
<1>3. ListText => ListIsItsEntries
  BY Zenon DEF ListText, ListIsItsEntries, Complete
<1> QED
  BY <1>1, <1>2, <1>3, PTL DEF Spec
=============================================================================
