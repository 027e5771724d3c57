----------------------------- MODULE LayoutProofs -----------------------------
(***************************************************************************)
(* Theorems about Layout, for patterns of any length over any characters:  *)
(* the types of the items, and that the items of a pattern spell it.       *)
(***************************************************************************)
EXTENDS Layout, Induction, TLAPS

-----------------------------------------------------------------------------
(* Types.                                                                  *)

Letters == Letter \cup {"o"}
Written == Seq(Char \cup {"<error format>"})
AnyItem == [symbol : Letters, para : Written]

\* Types, and the turns of texts and directives.
Shape ==
  /\ m_pattern \in BoundedSeq(Char, MaxLength)
  /\ m_pattern \in Seq(Char)
  /\ m_items \in Seq(AnyItem)
  /\ status \in {"SCAN", "CREATE", "done", "error"}
  /\ i \in 1 .. Size + 3
  /\ \A k \in 1 .. Len(m_items) :
       IF k % 2 = 1 THEN m_items[k].symbol = "o"
       ELSE m_items[k] = ErrorFormat \/ m_items[k].symbol \in Letter
  /\ status = "SCAN" /\ i <= Size => Len(m_items) % 2 = 0
  /\ status = "CREATE" => Len(m_items) % 2 = 1

\* Where Find ends.
LEMMA FindIs ==
  ASSUME m_pattern \in Seq(Char), NEW c, NEW from \in Nat \ {0}
  PROVE  /\ from > Size => Find(c, from) = from
         /\ from <= Size =>
              /\ Find(c, from) \in from .. Size + 1
              /\ Find(c, from) <= Size => m_pattern[Find(c, from)] = c
         /\ \A k \in from .. Size : k < Find(c, from) => m_pattern[k] # c
  <1> DEFINE I == {k \in from .. Size : m_pattern[k] = c}
             found == IF I # {} THEN Min(I) ELSE 0
  <1>1. Find(c, from) = IF found # 0 THEN found ELSE IF from <= Size THEN Size + 1 ELSE from
    BY DEF Find, SelectInSubSeq
  <1>2. Size \in Nat
    BY DEF Size
  <1>3. CASE I = {}
    BY <1>1, <1>2, <1>3
  <1>4. CASE I # {}
    <2>1. I \in SUBSET Nat
      BY <1>2
    <2>2. \E n \in I : \A m \in I : n <= m
      <3> HIDE DEF I
      <3> QED BY <1>4, <2>1, LeastElement
    <2>3. Min(I) \in I /\ \A m \in I : Min(I) <= m
      <3> HIDE DEF I
      <3> QED BY <2>2 DEF Min
    <2>4. found = Min(I) /\ found # 0 /\ Find(c, from) = found
      BY <1>1, <1>4, <2>3
    <2> DEFINE p == Min(I)
    <2>5. p \in from .. Size /\ m_pattern[p] = c
      BY <2>3
    <2>6. \A k \in from .. Size : k < p => m_pattern[k] # c
      <3> SUFFICES ASSUME NEW k \in from .. Size, k < p, m_pattern[k] = c PROVE FALSE
        OBVIOUS
      <3>1. p <= k
        BY <2>3
      <3> HIDE DEF p
      <3> QED BY <1>2, <2>5, <3>1
    <2>7. Find(c, from) = p
      BY <2>4
    <2> HIDE DEF p
    <2> QED BY <1>2, <2>5, <2>6, <2>7
  <1> QED BY <1>3, <1>4

\* One part of the pattern.
LEMMA SubSeqIs ==
  ASSUME NEW S, NEW s \in Seq(S), NEW a \in Nat \ {0}, NEW b \in Nat, b <= Len(s)
  PROVE  /\ SubSeq(s, a, b) \in Seq(S)
         /\ a <= b + 1 => Len(SubSeq(s, a, b)) = b + 1 - a
         /\ a > b => SubSeq(s, a, b) = <<>>
         /\ \A j \in 1 .. Len(SubSeq(s, a, b)) : SubSeq(s, a, b)[j] = s[a + j - 1]
  OBVIOUS

\* One item more.
LEMMA AppendIs ==
  ASSUME NEW S, NEW s \in Seq(S), NEW x \in S
  PROVE  /\ Append(s, x) \in Seq(S) /\ Len(s) \in Nat /\ Len(Append(s, x)) = Len(s) + 1
         /\ \A k \in 1 .. Len(s) + 1 :
              Append(s, x)[k] = IF k = Len(s) + 1 THEN x ELSE s[k]
  OBVIOUS

-----------------------------------------------------------------------------
(* FlattenSeq.                                                             *)

\* The function by whose recursion it is defined.
IsFlat(g, s, n) == g = [k \in 1 .. n |-> IF k = 1 THEN s[k] ELSE g[k - 1] \o s[k]]

\* There is one for every length.
LEMMA FlatExists ==
  ASSUME NEW s
  PROVE  \A n \in Nat : \E g : IsFlat(g, s, n)
  <1> DEFINE T == {n \in Nat : \E g : IsFlat(g, s, n)}
  <1>1. 0 \in T
    <2> DEFINE g == [k \in 1 .. 0 |-> s[k]]
    <2>1. IsFlat(g, s, 0)
      BY DEF IsFlat
    <2> QED BY <2>1
  <1>2. ASSUME NEW n \in Nat, n \in T PROVE n + 1 \in T
    <2>1. PICK g : IsFlat(g, s, n)
      BY <1>2
    <2> DEFINE h == [k \in 1 .. n + 1 |-> IF k = 1 THEN s[k] ELSE g[k - 1] \o s[k]]
    <2>2. \A k \in 1 .. n : g[k] = IF k = 1 THEN s[k] ELSE g[k - 1] \o s[k]
      BY <2>1 DEF IsFlat
    <2>3. \A k \in 1 .. n : h[k] = g[k]
      BY <2>2
    <2>4. \A k \in 1 .. n + 1 : k # 1 => h[k - 1] = g[k - 1]
      <3> HIDE DEF h
      <3> QED BY <2>3
    <2>5. h = [k \in 1 .. n + 1 |-> IF k = 1 THEN s[k] ELSE h[k - 1] \o s[k]]
      <3>1. \A k \in 1 .. n + 1 : h[k] = IF k = 1 THEN s[k] ELSE g[k - 1] \o s[k]
        OBVIOUS
      <3>2. h = [k \in 1 .. n + 1 |-> h[k]]
        OBVIOUS
      <3> HIDE DEF h
      <3> QED BY <2>4, <3>1, <3>2
    <2>6. IsFlat(h, s, n + 1)
      <3> HIDE DEF h
      <3> QED BY <2>5 DEF IsFlat
    <2> HIDE DEF h
    <2> QED BY <2>6
  <1> HIDE DEF T
  <1>3. Nat \subseteq T
    BY <1>1, <1>2, SetInduction
  <1> QED BY <1>3 DEF T

\* It depends on the sequences it joins only.
LEMMA FlatSame ==
  ASSUME NEW s, NEW r, NEW n \in Nat, NEW m \in Nat, n <= m,
         \A k \in 1 .. n : r[k] = s[k],
         NEW g, NEW h, IsFlat(g, s, n), IsFlat(h, r, m)
  PROVE  \A k \in 1 .. n : h[k] = g[k]
  <1> DEFINE T == {j \in Nat : j \in 1 .. n => h[j] = g[j]}
  <1>1. \A k \in 1 .. n : g[k] = IF k = 1 THEN s[k] ELSE g[k - 1] \o s[k]
    BY DEF IsFlat
  <1>2. \A k \in 1 .. n : h[k] = IF k = 1 THEN r[k] ELSE h[k - 1] \o r[k]
    <2>1. \A k \in 1 .. m : h[k] = IF k = 1 THEN r[k] ELSE h[k - 1] \o r[k]
      BY DEF IsFlat
    <2>2. \A k \in 1 .. n : k \in 1 .. m
      OBVIOUS
    <2> QED BY <2>1, <2>2
  <1>3. 0 \in T
    OBVIOUS
  <1>4. ASSUME NEW j \in Nat, j \in T PROVE j + 1 \in T
    <2> SUFFICES ASSUME j + 1 \in 1 .. n PROVE h[j + 1] = g[j + 1]
      OBVIOUS
    <2>1. CASE j = 0
      BY <1>1, <1>2, <2>1
    <2>2. CASE j # 0
      <3>1. j \in 1 .. n /\ (j + 1) - 1 = j /\ j + 1 # 1
        BY <2>2
      <3>2. h[j] = g[j]
        BY <1>4, <3>1
      <3> HIDE DEF T
      <3>3. g[j + 1] = g[j] \o s[j + 1] /\ h[j + 1] = h[j] \o r[j + 1]
        BY <1>1, <1>2, <3>1
      <3> QED BY <3>2, <3>3
    <2> QED BY <2>1, <2>2
  <1>5. Nat \subseteq T
    <2> HIDE DEF T
    <2> QED BY <1>3, <1>4, SetInduction
  <1> QED BY <1>5

\* FlattenSeq is its last value.
LEMMA FlattenIs ==
  ASSUME NEW s, Len(s) \in Nat, Len(s) # 0
  PROVE  \E g : IsFlat(g, s, Len(s)) /\ FlattenSeq(s) = g[Len(s)]
  <1> DEFINE f == CHOOSE g : g = [k \in 1 .. Len(s) |-> IF k = 1 THEN s[k] ELSE g[k - 1] \o s[k]]
  <1>1. FlattenSeq(s) = f[Len(s)]
    BY DEF FlattenSeq
  <1>2. \E g : g = [k \in 1 .. Len(s) |-> IF k = 1 THEN s[k] ELSE g[k - 1] \o s[k]]
    BY FlatExists DEF IsFlat
  <1>3. f = [k \in 1 .. Len(s) |-> IF k = 1 THEN s[k] ELSE f[k - 1] \o s[k]]
    BY <1>2
  <1> HIDE DEF f
  <1>4. IsFlat(f, s, Len(s))
    BY <1>3 DEF IsFlat
  <1> QED BY <1>1, <1>4

\* One sequence more is joined to the end.
LEMMA FlattenAppend ==
  ASSUME NEW S, NEW s \in Seq(Seq(S)), NEW x \in Seq(S)
  PROVE  FlattenSeq(Append(s, x)) = FlattenSeq(s) \o x
  <1> DEFINE r == Append(s, x)
             n == Len(s)
  <1>1. n \in Nat /\ Len(r) = n + 1 /\ r[n + 1] = x /\ \A k \in 1 .. n : r[k] = s[k]
    BY AppendIs
  <1> HIDE DEF r, n
  <1>2. PICK h : IsFlat(h, r, n + 1) /\ FlattenSeq(r) = h[n + 1]
    BY <1>1, FlattenIs
  <1>3. h[n + 1] = IF n + 1 = 1 THEN x ELSE h[n] \o x
    <2>1. \A k \in 1 .. n + 1 : h[k] = IF k = 1 THEN r[k] ELSE h[k - 1] \o r[k]
      BY <1>2 DEF IsFlat
    <2>2. n + 1 \in 1 .. n + 1 /\ (n + 1) - 1 = n
      BY <1>1
    <2> QED BY <1>1, <2>1, <2>2
  <1>4. CASE n = 0
    <2>1. s = <<>>
      BY <1>4 DEF n
    <2>2. FlattenSeq(s) = <<>>
      BY <2>1 DEF FlattenSeq
    <2>3. <<>> \o x = x
      OBVIOUS
    <2> QED BY <1>2, <1>3, <1>4, <2>2, <2>3 DEF r
  <1>5. CASE n # 0
    <2>1. PICK g : IsFlat(g, s, n) /\ FlattenSeq(s) = g[n]
      BY <1>1, <1>5, FlattenIs DEF n
    <2>2. \A k \in 1 .. n : h[k] = g[k]
      BY <1>1, <1>2, <2>1, FlatSame
    <2>3. h[n] = g[n] /\ n + 1 # 1
      BY <1>1, <1>5, <2>2
    <2> QED BY <1>2, <1>3, <2>1, <2>3 DEF r
  <1> QED BY <1>4, <1>5

-----------------------------------------------------------------------------
(* What the items stand for.                                               *)

\* A sequence over a set is one over a larger set.
LEMMA SeqWider ==
  ASSUME NEW S, NEW T, S \subseteq T, NEW s \in Seq(S)
  PROVE  s \in Seq(T)
  <1>1. Len(s) \in Nat /\ s \in [1 .. Len(s) -> S]
    OBVIOUS
  <1>2. s \in [1 .. Len(s) -> T]
    BY <1>1
  <1> QED BY <1>1, <1>2

\* Short sequences, and a sequence in braces.
LEMMA SmallSeqs ==
  ASSUME NEW S, NEW a \in S, NEW b \in S, NEW c \in S
  PROVE  <<a>> \in Seq(S) /\ <<a, b>> \in Seq(S) /\ <<a, b, c>> \in Seq(S)
  OBVIOUS

\* A sequence is a function on its positions.
LEMMA SeqIsFunction ==
  ASSUME NEW S, NEW s \in Seq(S)
  PROVE  s = [k \in 1 .. Len(s) |-> s[k]]
  OBVIOUS

Letterlike == Char \cup Letters \cup {"<error format>"}

\* The piece of the k-th item, if it is item.
PieceOf(item, k) ==
  IF k % 2 = 1 THEN item.para
  ELSE IF item.para = <<>> THEN <<"%", item.symbol>>
  ELSE <<"%", item.symbol, "{">> \o item.para \o <<"}">>

\* It is a sequence.
LEMMA PieceType ==
  ASSUME NEW item \in AnyItem, NEW k \in Nat
  PROVE  PieceOf(item, k) \in Seq(Letterlike)
  <1>1. item.symbol \in Letterlike /\ item.para \in Seq(Letterlike)
    <2>1. item.symbol \in Letters /\ item.para \in Written
      BY DEF AnyItem
    <2>2. Letters \subseteq Letterlike /\ Char \cup {"<error format>"} \subseteq Letterlike
      BY DEF Letterlike
    <2> HIDE DEF Letterlike
    <2> QED BY <2>1, <2>2, SeqWider DEF Written
  <1>2. "%" \in Letterlike /\ "{" \in Letterlike /\ "}" \in Letterlike
    BY CharAssumption DEF Letterlike
  <1>3. <<"%", item.symbol>> \in Seq(Letterlike)
        /\ <<"%", item.symbol, "{">> \in Seq(Letterlike) /\ <<"}">> \in Seq(Letterlike)
    <2> HIDE DEF Letterlike
    <2> QED BY <1>1, <1>2, SmallSeqs
  <1>4. <<"%", item.symbol, "{">> \o item.para \o <<"}">> \in Seq(Letterlike)
    <2> DEFINE a == <<"%", item.symbol, "{">>
               b == item.para
               c == <<"}">>
    <2> HIDE DEF a, b, c
    <2>1. \A S : a \in Seq(S) /\ b \in Seq(S) /\ c \in Seq(S) => a \o b \o c \in Seq(S)
      OBVIOUS
    <2>2. a \in Seq(Letterlike) /\ b \in Seq(Letterlike) /\ c \in Seq(Letterlike)
      BY <1>1, <1>3 DEF a, b, c
    <2>3. a \o b \o c \in Seq(Letterlike)
      BY <2>1, <2>2
    <2> QED BY <2>3 DEF a, b, c
  <1> QED BY <1>1, <1>3, <1>4 DEF PieceOf

\* One item more, one piece more.
LEMMA PiecesAppend ==
  ASSUME m_items \in Seq(AnyItem), NEW x \in AnyItem, m_items' = Append(m_items, x)
  PROVE  Pieces' = Pieces \o PieceOf(x, Len(m_items) + 1)
  <1> DEFINE n == Len(m_items)
             p == [k \in 1 .. n |-> PieceOf(m_items[k], k)]
             y == PieceOf(x, n + 1)
  <1>1. n \in Nat /\ DOMAIN m_items = 1 .. n /\ \A k \in 1 .. n : m_items[k] \in AnyItem
    OBVIOUS
  <1>2. p \in Seq(Seq(Letterlike)) /\ Len(p) = n
    BY <1>1, PieceType
  <1>3. y \in Seq(Letterlike)
    BY <1>1, PieceType
  <1>4. Pieces = FlattenSeq(p)
    <2>1. [k \in DOMAIN m_items |-> Piece(k)] = p
      BY <1>1 DEF Piece, PieceOf
    <2> QED BY <2>1 DEF Pieces
  <1>5. Pieces' = FlattenSeq(Append(p, y))
    <2>1. /\ DOMAIN m_items' = 1 .. n + 1
          /\ \A k \in 1 .. n + 1 : m_items'[k] = IF k = n + 1 THEN x ELSE m_items[k]
      BY AppendIs
    <2>2. \A k \in 1 .. n + 1 : Append(p, y)[k] = IF k = n + 1 THEN y ELSE p[k]
      <3> HIDE DEF p, y, n
      <3> QED BY <1>2, <1>3, AppendIs
    <2>3. \A k \in 1 .. n + 1 : Append(p, y)[k] = PieceOf(m_items'[k], k)
      BY <2>1, <2>2, <1>1
    <2>4. [k \in DOMAIN m_items' |-> PieceOf(m_items'[k], k)] = Append(p, y)
      <3>1. Append(p, y) \in Seq(Seq(Letterlike)) /\ Len(Append(p, y)) = n + 1
        <4> HIDE DEF p, y, n
        <4> QED BY <1>2, <1>3, AppendIs
      <3> DEFINE q == Append(p, y)
      <3>2. q = [k \in 1 .. n + 1 |-> q[k]]
        <4> HIDE DEF n, p, y
        <4> QED BY <3>1, SeqIsFunction
      <3> HIDE DEF q, n
      <3> QED BY <2>1, <2>3, <3>2 DEF q
    <2>5. Pieces' = FlattenSeq([k \in DOMAIN m_items' |-> PieceOf(m_items'[k], k)])
      BY DEF Pieces, Piece, PieceOf
    <2> QED BY <2>4, <2>5
  <1> HIDE DEF p, y
  <1>6. FlattenSeq(Append(p, y)) = FlattenSeq(p) \o y
    BY <1>2, <1>3, FlattenAppend
  <1> QED BY <1>4, <1>5, <1>6 DEF y

\* Two parts that meet.
LEMMA SubSeqJoin ==
  ASSUME NEW S, NEW s \in Seq(S), NEW a \in Nat, NEW b \in Nat, a <= b, b <= Len(s)
  PROVE  SubSeq(s, 1, a) \o SubSeq(s, a + 1, b) = SubSeq(s, 1, b)
  OBVIOUS

\* A sequence is known by its length and its elements.
LEMMA SeqEqual ==
  ASSUME NEW S, NEW T, NEW s \in Seq(S), NEW r \in Seq(T), Len(s) = Len(r),
         \A k \in 1 .. Len(s) : s[k] = r[k]
  PROVE  s = r
  OBVIOUS

-----------------------------------------------------------------------------
(* The inductive invariant.                                                *)

\* There is an item for every letter so far.
Known == \A k \in DOMAIN m_items : m_items[k] # ErrorFormat

\* The items stand for the first c characters.
StandFor(c) == Pieces = SubSeq(m_pattern, 1, c)

Lost == {<<>>, <<"%">>, <<"{">>}

\* What was read is what the items stand for, but for the "%" of a directive
\* that is still to be made, and but for the brace behind a last directive.
Spelled ==
  /\ status = "SCAN" /\ i <= Size + 1 => StandFor(i - 1)
  /\ status = "SCAN" /\ i = Size + 2 => StandFor(Size)
  /\ status = "SCAN" /\ i = Size + 3 => Size > 0 /\ StandFor(Size - 1) /\ m_pattern[Size] = "{"
  /\ status \in {"CREATE", "error"} => StandFor(i - 2)
  /\ status = "done" => \E c \in 0 .. Size : StandFor(c) /\ SubSeq(m_pattern, c + 1, Size) \in Lost

\* A directive is being made, or has an argument that is not closed.
Directive ==
  /\ status \in {"CREATE", "error"} => i \in 2 .. Size + 1 /\ m_pattern[i - 1] = "%"
  /\ status = "error" => HasPara /\ \A k \in i + 3 .. Size : m_pattern[k] # "}"

\* Texts have no "%", arguments no "}" but at their start.
CleanItem(item, k) ==
  IF k % 2 = 1 THEN ~ Contains(item.para, "%")
  ELSE ~ Contains(SubSeq(item.para, 2, Len(item.para)), "}")

Clean == \A k \in 1 .. Len(m_items) : CleanItem(m_items[k], k)

Inv == Shape /\ Directive /\ Clean /\ (Known => Spelled)

Kinds ==
  \A k \in 1 .. Len(m_items) :
    IF k % 2 = 1 THEN m_items[k].symbol = "o"
    ELSE m_items[k] = ErrorFormat \/ m_items[k].symbol \in Letter

\* What one item more changes.
LEMMA MoreItems ==
  ASSUME m_items \in Seq(AnyItem), NEW x \in AnyItem, m_items' = Append(m_items, x)
  PROVE  /\ m_items' \in Seq(AnyItem) /\ Len(m_items) \in Nat /\ Len(m_items') = Len(m_items) + 1
         /\ (Len(m_items) + 1) % 2 = 1 <=> Len(m_items) % 2 = 0
         /\ Known' => Known /\ x # ErrorFormat
         /\ Clean /\ CleanItem(x, Len(m_items) + 1) => Clean'
         /\ /\ Kinds
            /\ IF Len(m_items) % 2 = 0 THEN x.symbol = "o"
               ELSE x = ErrorFormat \/ x.symbol \in Letter
            => Kinds'
  <1> DEFINE n == Len(m_items)
  <1>1. /\ m_items' \in Seq(AnyItem) /\ n \in Nat /\ Len(m_items') = n + 1
        /\ \A k \in 1 .. n + 1 : m_items'[k] = IF k = n + 1 THEN x ELSE m_items[k]
    BY AppendIs
  <1>2. DOMAIN m_items = 1 .. n /\ DOMAIN m_items' = 1 .. n + 1
    BY <1>1
  <1>3. (n + 1) % 2 = 1 <=> n % 2 = 0
    BY <1>1
  <1>4. m_items'[n + 1] = x /\ \A k \in 1 .. n : m_items'[k] = m_items[k]
    BY <1>1
  <1>5. n + 1 \in 1 .. n + 1 /\ (\A k \in 1 .. n : k \in 1 .. n + 1)
        /\ \A k \in 1 .. n + 1 : k \in 1 .. n \/ k = n + 1
    BY <1>1
  <1>6. Known' => Known /\ x # ErrorFormat
    <2> HIDE DEF n
    <2> QED BY <1>2, <1>4, <1>5 DEF Known, ErrorFormat, Text
  <1>7. Clean /\ CleanItem(x, n + 1) => Clean'
    <2>1. Clean' <=> \A k \in 1 .. Len(m_items') : CleanItem(m_items'[k], k)
      BY DEF Clean, CleanItem
    <2>2. Clean <=> \A k \in 1 .. n : CleanItem(m_items[k], k)
      BY DEF Clean
    <2> HIDE DEF n
    <2> QED BY <1>1, <1>4, <1>5, <2>1, <2>2
  <1>8. /\ Kinds
        /\ IF n % 2 = 0 THEN x.symbol = "o" ELSE x = ErrorFormat \/ x.symbol \in Letter
        => Kinds'
    <2> DEFINE K(it, k) == IF k % 2 = 1 THEN it.symbol = "o"
                           ELSE it = ErrorFormat \/ it.symbol \in Letter
    <2>1. Kinds <=> \A k \in 1 .. n : K(m_items[k], k)
      BY DEF Kinds
    <2>2. Kinds' <=> \A k \in 1 .. Len(m_items') : K(m_items'[k], k)
      BY DEF Kinds, ErrorFormat, Text
    <2>3. (IF n % 2 = 0 THEN x.symbol = "o" ELSE x = ErrorFormat \/ x.symbol \in Letter)
          => K(x, n + 1)
      BY <1>3
    <2> HIDE DEF n, K
    <2> QED BY <1>1, <1>4, <1>5, <2>1, <2>2, <2>3
  <1> QED BY <1>1, <1>3, <1>6, <1>7, <1>8

\* The piece of a new item is the next part of the pattern.
LEMMA StandForMore ==
  ASSUME Shape, NEW x \in AnyItem, m_items' = Append(m_items, x), m_pattern' = m_pattern,
         NEW a \in Nat, NEW b \in Nat, a <= b, b <= Size, StandFor(a),
         PieceOf(x, Len(m_items) + 1) = SubSeq(m_pattern, a + 1, b)
  PROVE  Pieces' = SubSeq(m_pattern', 1, b)
  <1>1. Pieces' = Pieces \o SubSeq(m_pattern, a + 1, b)
    BY PiecesAppend DEF Shape
  <1> QED BY <1>1, SubSeqJoin DEF Shape, StandFor, Size

\* No item, no change.
LEMMA StandForSame ==
  ASSUME UNCHANGED <<m_items, m_pattern>>
  PROVE  /\ \A c : StandFor(c)' <=> StandFor(c)
         /\ Known' <=> Known
         /\ Clean' <=> Clean
  <1>1. Pieces' = Pieces
    BY DEF Pieces, Piece
  <1>2. \A c : StandFor(c)' <=> StandFor(c)
    BY <1>1 DEF StandFor
  <1> QED BY <1>2 DEF Known, Clean, CleanItem, ErrorFormat, Text

\* The types of parts of a pattern and of the items made of them.
LEMMA ItemTypes ==
  ASSUME m_pattern \in Seq(Char), NEW a \in Nat \ {0}, NEW b \in Nat, b <= Size
  PROVE  /\ SubSeq(m_pattern, a, b) \in Written
         /\ Text(SubSeq(m_pattern, a, b)) \in AnyItem
         /\ \A c : Item(c, SubSeq(m_pattern, a, b)) \in AnyItem
         /\ \A c : Item(c, <<>>) \in AnyItem
  <1>1. SubSeq(m_pattern, a, b) \in Written
    <2>1. SubSeq(m_pattern, a, b) \in Seq(Char)
      BY SubSeqIs DEF Size
    <2>2. Char \subseteq Char \cup {"<error format>"}
      OBVIOUS
    <2> QED BY <2>1, <2>2, SeqWider DEF Written
  <1>2. <<>> \in Written /\ <<"<error format>">> \in Written
    BY DEF Written
  <1>3. \A s \in Written : Text(s) \in AnyItem
    BY DEF Text, AnyItem, Letters
  <1>4. ErrorFormat \in AnyItem
    BY <1>2, <1>3 DEF ErrorFormat
  <1>5. \A s \in Written : \A c : Item(c, s) \in AnyItem
    BY <1>4 DEF Item, AnyItem, Letters
  <1> QED BY <1>1, <1>2, <1>3, <1>5

-----------------------------------------------------------------------------
(* Every step preserves the invariant.                                     *)

\* Initially nothing is read.
LEMMA InitInv ==
  ASSUME Init
  PROVE  Inv
  <1>1. m_pattern \in Seq(Char) /\ Size \in Nat
    BY DEF Init, BoundedSeq, SeqOf, Size
  <1>2. Pieces = <<>>
    <2>1. [k \in DOMAIN m_items |-> Piece(k)] = <<>>
      BY DEF Init
    <2> QED BY <2>1 DEF Pieces, FlattenSeq
  <1>3. StandFor(0)
    BY <1>1, <1>2 DEF StandFor
  <1>4. Len(m_items) = 0 /\ i = 1 /\ status = "SCAN"
    BY DEF Init
  <1>5. Shape
    BY <1>1, <1>4 DEF Init, Shape
  <1>6. Spelled
    <2>1. i - 1 = 0 /\ i <= Size + 1 /\ i # Size + 2 /\ i # Size + 3
      BY <1>1, <1>4
    <2> QED BY <1>3, <1>4, <2>1 DEF Spelled
  <1>7. Directive /\ Clean
    BY <1>4 DEF Directive, Clean
  <1> QED BY <1>5, <1>6, <1>7 DEF Inv

\* A text.
LEMMA ScanInv ==
  ASSUME Inv, Scan
  PROVE  Inv'
  <1> DEFINE e == Find("%", i)
             text == SubSeq(m_pattern, i, e - 1)
             x == Text(text)
             n == Len(m_items)
  <1>0. Shape /\ Directive /\ Clean
    BY DEF Inv
  <1>1. /\ m_pattern \in Seq(Char) /\ m_items \in Seq(AnyItem) /\ Size \in Nat /\ i \in Nat \ {0}
        /\ i <= Size /\ status = "SCAN" /\ n \in Nat /\ n % 2 = 0
    BY <1>0 DEF Shape, Scan, Size
  <1>2. /\ m_items' = Append(m_items, x) /\ m_pattern' = m_pattern /\ i' = e + 1
        /\ status' = IF e <= Size THEN "CREATE" ELSE "SCAN"
    BY DEF Scan
  <1>3. /\ e \in i .. Size + 1
        /\ e <= Size => m_pattern[e] = "%"
        /\ \A k \in i .. Size : k < e => m_pattern[k] # "%"
    BY <1>1, FindIs
  <1> HIDE DEF e
  <1>4. e - 1 \in Nat /\ e - 1 <= Size /\ e \in Nat
    BY <1>1, <1>3
  <1>5. x \in AnyItem
    BY <1>1, <1>4, ItemTypes
  <1>6. ~ Contains(text, "%")
    <2>1. \A j \in 1 .. Len(text) : text[j] = m_pattern[i + j - 1]
      BY <1>1, <1>4, SubSeqIs DEF Size
    <2>2. Len(text) = e - i
      BY <1>1, <1>3, <1>4, SubSeqIs DEF Size
    <2>3. \A j \in 1 .. Len(text) : i + j - 1 \in i .. Size /\ i + j - 1 < e
      BY <1>1, <1>3, <1>4, <2>2
    <2> HIDE DEF text
    <2> QED BY <1>3, <2>1, <2>3 DEF Contains
  <1>7. x.symbol = "o" /\ x.para = text
    BY DEF Text
  <1> HIDE DEF x
  <1>8. (n + 1) % 2 = 1
    BY <1>1
  <1>9. CleanItem(x, n + 1)
    BY <1>6, <1>7, <1>8 DEF CleanItem
  <1>10. /\ m_items' \in Seq(AnyItem) /\ Len(m_items') = n + 1
         /\ Known' => Known
         /\ Clean'
         /\ Kinds'
    BY <1>0, <1>1, <1>2, <1>5, <1>7, <1>9, MoreItems DEF Shape, Kinds
  <1>11. Size' = Size
    BY <1>2 DEF Size
  <1>12. Shape'
    <2>1. status' \in {"SCAN", "CREATE", "done", "error"} /\ i' \in 1 .. Size' + 3
      BY <1>1, <1>2, <1>3, <1>11
    <2>2. /\ status' = "SCAN" /\ i' <= Size' => Len(m_items') % 2 = 0
          /\ status' = "CREATE" => Len(m_items') % 2 = 1
      BY <1>1, <1>2, <1>3, <1>8, <1>10, <1>11
    <2>3. m_pattern' \in BoundedSeq(Char, MaxLength) /\ m_pattern' \in Seq(Char)
      BY <1>0, <1>2 DEF Shape
    <2> QED BY <1>10, <2>1, <2>2, <2>3 DEF Shape, Kinds
  <1>13. Directive'
    <2>1. status' = "CREATE" => i' \in 2 .. Size' + 1 /\ m_pattern'[i' - 1] = "%"
      BY <1>1, <1>2, <1>3, <1>4, <1>11
    <2>2. status' # "error"
      BY <1>2
    <2> QED BY <2>1, <2>2 DEF Directive
  <1>14. ASSUME Known' PROVE Spelled'
    <2>1. StandFor(i - 1)
      <3>1. i <= Size + 1 /\ status = "SCAN"
        BY <1>1
      <3> QED BY <3>1, <1>10, <1>14 DEF Inv, Spelled
    <2>2. PieceOf(x, n + 1) = text
      BY <1>7, <1>8 DEF PieceOf
    <2>3. Pieces' = SubSeq(m_pattern', 1, e - 1)
      <3>1. i - 1 \in Nat /\ i - 1 <= e - 1 /\ (i - 1) + 1 = i
        BY <1>1, <1>3, <1>4
      <3> HIDE DEF x
      <3> QED BY <1>0, <1>2, <1>4, <1>5, <2>1, <2>2, <3>1, StandForMore
    <2>4. CASE e <= Size
      <3>1. status' = "CREATE" /\ i' - 2 = e - 1
        BY <1>2, <1>4, <2>4
      <3> QED BY <2>3, <3>1 DEF Spelled, StandFor
    <2>5. CASE e > Size
      <3>1. status' = "SCAN" /\ i' = Size' + 2 /\ e - 1 = Size'
        BY <1>1, <1>2, <1>3, <1>11, <2>5
      <3>2. ~ (i' <= Size' + 1) /\ i' # Size' + 3
        BY <1>1, <1>11, <3>1
      <3> QED BY <2>3, <3>1, <3>2 DEF Spelled, StandFor
    <2> QED BY <1>1, <1>4, <2>4, <2>5
  <1> QED BY <1>10, <1>12, <1>13, <1>14 DEF Inv

\* Where a directive is made.
LEMMA DirectiveBegins ==
  ASSUME Inv, Creating
  PROVE  /\ m_pattern \in Seq(Char) /\ Size \in Nat
         /\ i \in Nat /\ i - 1 \in Nat /\ i - 2 \in Nat /\ i - 1 # 0 /\ (i - 2) + 1 = i - 1
         /\ i \in 2 .. Size /\ i <= Size /\ m_pattern[i - 1] = "%"
         /\ status = "CREATE"
         /\ Len(m_items) \in Nat /\ Len(m_items) % 2 = 1
         /\ (Len(m_items) + 1) % 2 = 0 /\ Len(m_items) % 2 # 0
  <1>1. Shape /\ Directive /\ status = "CREATE" /\ i <= Size
    BY DEF Inv, Creating
  <1>2. m_pattern \in Seq(Char) /\ m_items \in Seq(AnyItem)
    BY <1>1 DEF Shape
  <1>3. Len(m_items) % 2 = 1
    BY <1>1 DEF Shape
  <1>4. i \in 2 .. Size + 1 /\ m_pattern[i - 1] = "%"
    BY <1>1 DEF Directive
  <1>5. Size \in Nat /\ Len(m_items) \in Nat
    BY <1>2 DEF Size
  <1>6. /\ i \in Nat /\ i - 1 \in Nat /\ i - 2 \in Nat /\ i - 1 # 0 /\ (i - 2) + 1 = i - 1
        /\ i \in 2 .. Size
    BY <1>1, <1>4, <1>5
  <1>7. (Len(m_items) + 1) % 2 = 0 /\ Len(m_items) % 2 # 0
    <2> DEFINE n == Len(m_items)
    <2> HIDE DEF n
    <2>1. n \in Nat /\ n % 2 = 1
      BY <1>3, <1>5 DEF n
    <2>2. (n + 1) % 2 = 0 /\ n % 2 # 0
      BY <2>1
    <2> QED BY <2>2 DEF n
  <1> QED BY <1>1, <1>2, <1>3, <1>4, <1>5, <1>6, <1>7

\* Reading goes on behind b, or a brace is left behind.
EndsAt(end, b) ==
  \/ end = b
  \/ end = Size + 2 /\ b = Size - 1 /\ m_pattern[Size] = "{"

\* A directive: what its item stands for ends at b, which is where reading
\* goes on, or is the last but one position if a brace is left behind.
LEMMA MakeInv ==
  ASSUME Inv, Creating, NEW para \in Written, NEW end \in Nat, Make(para, end),
         NEW x, x = Item(m_pattern[i], para), x \in AnyItem, CleanItem(x, Len(m_items) + 1),
         NEW b \in i .. Size,
         x # ErrorFormat => PieceOf(x, Len(m_items) + 1) = SubSeq(m_pattern, i - 1, b),
         EndsAt(end, b)
  PROVE  Inv'
  <1> DEFINE n == Len(m_items)
  <1>0. Shape /\ Directive /\ Clean
    BY DEF Inv
  <1>1. /\ m_pattern \in Seq(Char) /\ m_items \in Seq(AnyItem) /\ Size \in Nat
        /\ i \in 2 .. Size /\ status = "CREATE" /\ n \in Nat /\ n % 2 = 1
    BY <1>0, DirectiveBegins DEF Shape
  <1>2. /\ m_items' = Append(m_items, x) /\ m_pattern' = m_pattern /\ i' = end + 1
        /\ status' = "SCAN"
    BY DEF Make, Made
  <1>3. x = ErrorFormat \/ x.symbol \in Letter
    BY DEF Item
  <1>4. (n + 1) % 2 = 0 /\ n % 2 # 0
    BY DirectiveBegins
  <1>5. /\ m_items' \in Seq(AnyItem) /\ Len(m_items') = n + 1
        /\ Known' => Known /\ x # ErrorFormat
        /\ Clean'
        /\ Kinds'
    BY <1>0, <1>1, <1>2, <1>3, <1>4, MoreItems DEF Shape, Kinds
  <1>6. Size' = Size
    BY <1>2 DEF Size
  <1>a. Size \in Nat /\ i \in Nat /\ i >= 2 /\ i <= Size
    <2>1. Size \in Nat /\ i \in 2 .. Size
      BY <1>1
    <2>2. i \in Nat /\ i >= 2 /\ i <= Size
      BY <2>1
    <2> QED BY <2>1, <2>2
  <1>7. b \in Nat /\ i <= b /\ b <= Size /\ end <= Size + 2 /\ end >= i
    <2>1. b \in Nat /\ i <= b /\ b <= Size
      BY <1>a
    <2>2. end = b \/ end = Size + 2
      BY DEF EndsAt
    <2>3. end <= Size + 2 /\ end >= i
      BY <1>a, <2>1, <2>2
    <2> QED BY <2>1, <2>3
  <1>8. Shape'
    <2>1. status' \in {"SCAN", "CREATE", "done", "error"} /\ i' \in 1 .. Size' + 3
      BY <1>a, <1>2, <1>6, <1>7
    <2>2. /\ status' = "SCAN" /\ i' <= Size' => Len(m_items') % 2 = 0
          /\ status' = "CREATE" => Len(m_items') % 2 = 1
      BY <1>2, <1>4, <1>5
    <2>3. m_pattern' \in BoundedSeq(Char, MaxLength) /\ m_pattern' \in Seq(Char)
      BY <1>0, <1>2 DEF Shape
    <2> QED BY <1>5, <2>1, <2>2, <2>3 DEF Shape, Kinds
  <1>9. Directive'
    BY <1>2 DEF Directive
  <1>10. ASSUME Known' PROVE Spelled'
    <2>1. StandFor(i - 2) /\ x # ErrorFormat
      BY <1>1, <1>5, <1>10 DEF Inv, Spelled
    <2>2. i - 2 \in Nat /\ i - 2 <= b /\ (i - 2) + 1 = i - 1
      BY <1>a, <1>7
    <2>3. Pieces' = SubSeq(m_pattern', 1, b)
      BY <1>0, <1>2, <1>7, <2>1, <2>2, StandForMore
    <2>4. CASE end = b
      <3>1. i' - 1 = b /\ i' <= Size' + 1 /\ i' # Size' + 2 /\ i' # Size' + 3
        BY <1>a, <1>2, <1>6, <1>7, <2>4
      <3> QED BY <1>2, <2>3, <3>1 DEF Spelled, StandFor
    <2>5. CASE end = Size + 2 /\ b = Size - 1 /\ m_pattern[Size] = "{"
      <3>1. /\ i' = Size' + 3 /\ ~ (i' <= Size' + 1) /\ i' # Size' + 2
            /\ Size' > 0 /\ b = Size' - 1 /\ m_pattern'[Size'] = "{"
        <4>1. i' = Size + 3 /\ Size > 0
          <5>1. end = Size + 2 /\ i' = end + 1
            BY <1>2, <2>5
          <5> QED BY <1>a, <5>1
        <4>2. ~ (Size + 3 <= Size + 1) /\ Size + 3 # Size + 2
          BY <1>a
        <4> QED BY <1>2, <1>6, <2>5, <4>1, <4>2
      <3> QED BY <1>2, <2>3, <3>1 DEF Spelled, StandFor
    <2> QED BY <2>4, <2>5 DEF EndsAt
  <1> QED BY <1>5, <1>8, <1>9, <1>10 DEF Inv

\* The piece of a directive without an argument.
LEMMA ShortPiece ==
  ASSUME Inv, Creating, NEW x, x = Item(m_pattern[i], <<>>)
  PROVE  /\ x # ErrorFormat => PieceOf(x, Len(m_items) + 1) = SubSeq(m_pattern, i - 1, i)
         /\ CleanItem(x, Len(m_items) + 1)
         /\ x \in AnyItem /\ <<>> \in Written
  <1>1. /\ m_pattern \in Seq(Char) /\ Size \in Nat /\ i \in 2 .. Size /\ m_pattern[i - 1] = "%"
        /\ i - 1 \in Nat /\ i - 1 # 0 /\ Len(m_items) \in Nat /\ Len(m_items) % 2 = 1
    BY DirectiveBegins
  <1>2. (Len(m_items) + 1) % 2 = 0 /\ (Len(m_items) + 1) % 2 # 1
    BY DirectiveBegins
  <1>3. SubSeq(m_pattern, i - 1, i) = <<"%", m_pattern[i]>>
    <2> DEFINE s == SubSeq(m_pattern, i - 1, i)
    <2>1. Len(s) = 2 /\ s \in Seq(Char) /\ \A j \in 1 .. Len(s) : s[j] = m_pattern[(i - 1) + j - 1]
      BY <1>1, SubSeqIs DEF Size
    <2>2. (i - 1) + 1 - 1 = i - 1 /\ (i - 1) + 2 - 1 = i
      BY <1>1
    <2>3. s[1] = "%" /\ s[2] = m_pattern[i]
      BY <1>1, <2>1, <2>2
    <2> HIDE DEF s
    <2>4. s = <<s[1], s[2]>>
      BY <2>1
    <2> QED BY <2>3, <2>4 DEF s
  <1>4. x # ErrorFormat => x.symbol = m_pattern[i] /\ x.para = <<>>
    BY DEF Item
  <1>5. x # ErrorFormat => PieceOf(x, Len(m_items) + 1) = SubSeq(m_pattern, i - 1, i)
    BY <1>2, <1>3, <1>4 DEF PieceOf
  <1>6. Len(x.para) \in {0, 1}
    BY DEF Item, ErrorFormat, Text
  <1>7. \A k \in 1 .. Len(SubSeq(x.para, 2, Len(x.para))) : FALSE
    <2>1. x.para = <<>> \/ x.para = <<"<error format>">>
      BY DEF Item, ErrorFormat, Text
    <2>2. Len(<<>>) < 2 /\ Len(<<"<error format>">>) < 2
      OBVIOUS
    <2>3. \A T : \A s \in Seq(T) : Len(s) < 2 => Len(SubSeq(s, 2, Len(s))) = 0
      OBVIOUS
    <2>4. x.para \in Written
      BY <1>1, ItemTypes DEF AnyItem
    <2> DEFINE r == SubSeq(x.para, 2, Len(x.para))
    <2>5. Len(r) = 0
      <3>1. Len(x.para) < 2
        BY <2>1, <2>2
      <3> QED BY <2>3, <2>4, <3>1 DEF Written
    <2> HIDE DEF r
    <2>6. \A k \in 1 .. Len(r) : FALSE
      BY <2>5
    <2> QED BY <2>6 DEF r
  <1>8. CleanItem(x, Len(m_items) + 1)
    BY <1>2, <1>7 DEF CleanItem, Contains
  <1>9. x \in AnyItem
    BY <1>1, ItemTypes
  <1> QED BY <1>5, <1>8, <1>9 DEF Written

\* A directive without an argument.
LEMMA CreateInv ==
  ASSUME Inv, Create
  PROVE  Inv'
  <1>1. Creating /\ Make(<<>>, i)
    BY DEF Create
  <1>2. i \in Nat /\ i \in i .. Size
    BY <1>1, DirectiveBegins
  <1> DEFINE x == Item(m_pattern[i], <<>>)
  <1>3. /\ x # ErrorFormat => PieceOf(x, Len(m_items) + 1) = SubSeq(m_pattern, i - 1, i)
        /\ CleanItem(x, Len(m_items) + 1) /\ x \in AnyItem /\ <<>> \in Written
    BY <1>1, ShortPiece
  <1> HIDE DEF x
  <1> QED BY <1>1, <1>2, <1>3, MakeInv DEF x, EndsAt

\* "%d{" at the end.
LEMMA StrayBraceInv ==
  ASSUME Inv, StrayBrace
  PROVE  Inv'
  <1>1. Creating /\ HasPara /\ i + 1 = Size /\ Make(<<>>, i + 3)
    BY DEF StrayBrace
  <1>2. i \in Nat /\ Size \in Nat /\ i <= Size
    BY <1>1, DirectiveBegins
  <1>3. i \in i .. Size /\ i + 3 \in Nat /\ i + 3 = Size + 2 /\ i = Size - 1
    BY <1>1, <1>2
  <1>a. m_pattern[Size] = "{"
    BY <1>1 DEF HasPara
  <1> DEFINE x == Item(m_pattern[i], <<>>)
  <1>4. /\ x # ErrorFormat => PieceOf(x, Len(m_items) + 1) = SubSeq(m_pattern, i - 1, i)
        /\ CleanItem(x, Len(m_items) + 1) /\ x \in AnyItem /\ <<>> \in Written
    BY <1>1, ShortPiece
  <1> HIDE DEF x
  <1> QED BY <1>1, <1>2, <1>3, <1>a, <1>4, MakeInv DEF x, EndsAt

\* Where the brace is.
LEMMA BraceIs ==
  ASSUME Inv, Creating, HasPara
  PROVE  /\ ClosingBrace <= Size => /\ ClosingBrace \in i + 3 .. Size
                                  /\ m_pattern[ClosingBrace] = "}"
         /\ \A k \in i + 3 .. Size : k < ClosingBrace => m_pattern[k] # "}"
  <1>1. m_pattern \in Seq(Char) /\ Size \in Nat /\ i \in Nat
    BY DirectiveBegins
  <1>2. i + 3 \in Nat \ {0}
    BY <1>1
  <1> DEFINE e == ClosingBrace
  <1>3. /\ i + 3 > Size => e = i + 3
        /\ i + 3 <= Size => /\ e \in i + 3 .. Size + 1
                            /\ e <= Size => m_pattern[e] = "}"
        /\ \A k \in i + 3 .. Size : k < e => m_pattern[k] # "}"
    BY <1>1, <1>2, FindIs DEF ClosingBrace
  <1> HIDE DEF e
  <1>4. e <= Size => e \in i + 3 .. Size /\ m_pattern[e] = "}"
    <2> SUFFICES ASSUME e <= Size PROVE e \in i + 3 .. Size /\ m_pattern[e] = "}"
      OBVIOUS
    <2>1. i + 3 <= Size
      <3>1. i + 3 > Size => e = i + 3
        BY <1>3
      <3> QED BY <1>1, <3>1
    <2>2. e \in i + 3 .. Size + 1 /\ m_pattern[e] = "}"
      BY <1>3, <2>1
    <2>3. e \in i + 3 .. Size
      <3>1. e \in i + 3 .. Size + 1
        BY <2>2
      <3> QED BY <1>1, <3>1
    <2> QED BY <2>2, <2>3
  <1> QED BY <1>3, <1>4 DEF e

\* The elements of a concatenation.
LEMMA ConcatIs ==
  ASSUME NEW S, NEW s \in Seq(S), NEW r \in Seq(S)
  PROVE  /\ s \o r \in Seq(S)
         /\ Len(s) \in Nat /\ Len(r) \in Nat /\ Len(s \o r) = Len(s) + Len(r)
         /\ \A j \in 1 .. Len(s) + Len(r) :
              (s \o r)[j] = IF j <= Len(s) THEN s[j] ELSE r[j - Len(s)]
  OBVIOUS

\* The concatenation of a head of three, a middle and an end of one.
LEMMA JoinThree ==
  ASSUME NEW S, NEW s \in Seq(S), NEW p \in Nat \ {0}, NEW e \in Nat,
         p + 3 <= e, e <= Len(s)
  PROVE  <<s[p], s[p + 1], s[p + 2]>> \o SubSeq(s, p + 3, e - 1) \o <<s[e]>> = SubSeq(s, p, e)
  <1> DEFINE a == <<s[p], s[p + 1], s[p + 2]>>
             m == SubSeq(s, p + 3, e - 1)
             z == <<s[e]>>
             r == SubSeq(s, p, e)
  <1>1. a \in Seq(S) /\ Len(a) = 3 /\ a[1] = s[p] /\ a[2] = s[p + 1] /\ a[3] = s[p + 2]
    <2>1. s[p] \in S /\ s[p + 1] \in S /\ s[p + 2] \in S
      OBVIOUS
    <2> QED BY <2>1, SmallSeqs
  <1>2. /\ m \in Seq(S) /\ Len(m) = e - p - 3
        /\ \A j \in 1 .. e - p - 3 : m[j] = s[(p + 3) + j - 1]
    <2>1. p + 3 \in Nat \ {0} /\ e - 1 \in Nat /\ e - 1 <= Len(s) /\ p + 3 <= (e - 1) + 1
          /\ (e - 1) + 1 - (p + 3) = e - p - 3
      OBVIOUS
    <2> QED BY <2>1, SubSeqIs
  <1>3. z \in Seq(S) /\ Len(z) = 1 /\ z[1] = s[e]
    <2>1. s[e] \in S
      OBVIOUS
    <2> QED BY <2>1, SmallSeqs
  <1>4. /\ r \in Seq(S) /\ Len(r) = e + 1 - p
        /\ \A j \in 1 .. e + 1 - p : r[j] = s[p + j - 1]
    BY SubSeqIs
  <1> HIDE DEF a, m, z, r
  <1>5. a \o m \in Seq(S) /\ Len(a \o m) = 3 + Len(m)
        /\ \A j \in 1 .. 3 + Len(m) : (a \o m)[j] = IF j <= 3 THEN a[j] ELSE m[j - 3]
    <2>1. /\ a \o m \in Seq(S)
          /\ Len(a) \in Nat /\ Len(m) \in Nat /\ Len(a \o m) = Len(a) + Len(m)
          /\ \A j \in 1 .. Len(a) + Len(m) :
               (a \o m)[j] = IF j <= Len(a) THEN a[j] ELSE m[j - Len(a)]
      BY <1>1, <1>2, ConcatIs
    <2> DEFINE q == a \o m
    <2> HIDE DEF q
    <2> QED BY <1>1, <2>1 DEF q
  <1> DEFINE b == a \o m
  <1>6. b \in Seq(S) /\ Len(b) = e - p
        /\ \A j \in 1 .. e - p : b[j] = IF j <= 3 THEN a[j] ELSE m[j - 3]
    <2>1. 3 + (e - p - 3) = e - p
      OBVIOUS
    <2> QED BY <1>2, <1>5, <2>1
  <1> HIDE DEF b
  <1>7. b \o z \in Seq(S) /\ Len(b \o z) = e - p + 1
        /\ \A j \in 1 .. e - p + 1 : (b \o z)[j] = IF j <= e - p THEN b[j] ELSE z[1]
    <2> DEFINE l == e - p
    <2>1. l \in Nat /\ e - p + 1 = l + 1
      OBVIOUS
    <2> HIDE DEF l
    <2>2. /\ b \o z \in Seq(S) /\ Len(b \o z) = l + 1
          /\ \A j \in 1 .. l + 1 : (b \o z)[j] = IF j <= l THEN b[j] ELSE z[j - l]
      <3>1. /\ b \o z \in Seq(S)
            /\ Len(b) \in Nat /\ Len(z) \in Nat /\ Len(b \o z) = Len(b) + Len(z)
            /\ \A j \in 1 .. Len(b) + Len(z) :
                 (b \o z)[j] = IF j <= Len(b) THEN b[j] ELSE z[j - Len(b)]
        BY <1>3, <1>6, ConcatIs
      <3>2. Len(b) = l /\ Len(z) = 1
        BY <1>3, <1>6 DEF l
      <3> QED BY <3>1, <3>2
    <2>3. \A j \in 1 .. l + 1 : j <= l \/ j - l = 1
      BY <2>1
    <2>4. \A j \in 1 .. l + 1 : (b \o z)[j] = IF j <= l THEN b[j] ELSE z[1]
      BY <2>2, <2>3
    <2> QED BY <2>1, <2>2, <2>4 DEF l
  <1>8. \A j \in 1 .. e - p : b[j] = s[p + j - 1]
    <2> SUFFICES ASSUME NEW j \in 1 .. e - p PROVE b[j] = s[p + j - 1]
      OBVIOUS
    <2>1. CASE j <= 3
      <3>1. j \in {1, 2, 3}
        BY <2>1
      <3>2. p + 1 - 1 = p /\ p + 2 - 1 = p + 1 /\ p + 3 - 1 = p + 2
        OBVIOUS
      <3> QED BY <1>1, <1>6, <3>1, <3>2
    <2>2. CASE j > 3
      <3>1. j - 3 \in 1 .. e - p - 3 /\ (p + 3) + (j - 3) - 1 = p + j - 1
        BY <2>2
      <3>2. b[j] = m[j - 3]
        BY <1>6, <2>2
      <3> QED BY <1>2, <3>1, <3>2
    <2> QED BY <2>1, <2>2
  <1>9. \A j \in 1 .. e - p + 1 : (b \o z)[j] = r[j]
    <2> DEFINE l == e - p
               q == b \o z
    <2>1. l \in Nat /\ l = e - p /\ e - p + 1 = l + 1 /\ e + 1 - p = l + 1
      OBVIOUS
    <2>2. \A j \in 1 .. l + 1 : q[j] = IF j <= l THEN b[j] ELSE z[1]
      BY <1>7
    <2>3. \A j \in 1 .. l : b[j] = s[p + j - 1]
      BY <1>8
    <2>4. \A j \in 1 .. l + 1 : r[j] = s[p + j - 1]
      BY <1>4, <2>1
    <2> HIDE DEF l, q
    <2> SUFFICES ASSUME NEW j \in 1 .. l + 1 PROVE q[j] = r[j]
      BY <2>1 DEF q
    <2>5. CASE j <= l
      <3>1. j \in 1 .. l
        BY <2>1, <2>5
      <3> QED BY <2>2, <2>3, <2>4, <2>5, <3>1
    <2>6. CASE ~ (j <= l)
      <3>1. p + j - 1 = e
        <4>1. j = l + 1
          BY <2>1, <2>6
        <4> QED BY <2>1, <4>1
      <3>2. q[j] = z[1]
        BY <2>2, <2>6
      <3> QED BY <1>3, <2>4, <3>1, <3>2
    <2> QED BY <2>5, <2>6
  <1>10. b \o z = r
    <2>1. Len(b \o z) = Len(r)
      BY <1>4, <1>7
    <2> DEFINE q == b \o z
    <2>2. q \in Seq(S) /\ Len(q) = e - p + 1 /\ \A j \in 1 .. e - p + 1 : q[j] = r[j]
      BY <1>7, <1>9
    <2> HIDE DEF q
    <2>3. q = r
      BY <1>4, <2>1, <2>2, SeqEqual DEF q
    <2> QED BY <2>3 DEF q
  <1> QED BY <1>10 DEF a, m, z, r, b

\* A directive with its argument.
LEMMA CreateWithParaInv ==
  ASSUME Inv, CreateWithPara
  PROVE  Inv'
  <1> DEFINE e == ClosingBrace
             para == SubSeq(m_pattern, i + 2, e - 1)
             x == Item(m_pattern[i], para)
             n == Len(m_items)
  <1>1. Creating /\ HasPara /\ e <= Size /\ Make(para, e)
    BY DEF CreateWithPara, EndOfPara
  <1>2. /\ m_pattern \in Seq(Char) /\ Size \in Nat /\ i \in Nat /\ i - 1 \in Nat /\ i - 1 # 0
        /\ m_pattern[i - 1] = "%" /\ (n + 1) % 2 = 0
    BY <1>1, DirectiveBegins
  <1>3. /\ e \in i + 3 .. Size /\ m_pattern[e] = "}"
        /\ \A k \in i + 3 .. Size : k < e => m_pattern[k] # "}"
    BY <1>1, BraceIs
  <1>4. m_pattern[i + 1] = "{"
    BY <1>1 DEF HasPara
  <1> HIDE DEF e
  <1>a. Size \in Nat /\ i \in Nat
    BY <1>2
  <1>b. e \in i + 3 .. Size
    BY <1>3
  <1>5. e \in Nat /\ e - 1 \in Nat /\ e - 1 <= Size /\ i + 2 \in Nat \ {0} /\ i + 2 <= e - 1
        /\ e \in i .. Size /\ e <= Size
    BY <1>a, <1>b
  <1>6. /\ para \in Seq(Char) /\ Len(para) = e - i - 2
        /\ \A j \in 1 .. Len(para) : para[j] = m_pattern[(i + 2) + j - 1]
    <2>1. /\ para \in Seq(Char) /\ Len(para) = (e - 1) + 1 - (i + 2)
          /\ \A j \in 1 .. Len(para) : para[j] = m_pattern[(i + 2) + j - 1]
      BY <1>2, <1>5, SubSeqIs, SMTT(60) DEF Size
    <2>2. (e - 1) + 1 - (i + 2) = e - i - 2
      BY <1>2, <1>5
    <2> QED BY <2>1, <2>2
  <1>7. para \in Written /\ x \in AnyItem
    BY <1>2, <1>5, ItemTypes
  <1>8. x = ErrorFormat \/ (x.symbol = m_pattern[i] /\ x.para = para)
    BY DEF Item
  <1>9. e - i - 2 \in Nat \ {0}
    BY <1>a, <1>b
  <1>10. para # <<>>
    BY <1>6, <1>9
  <1>11. SubSeq(m_pattern, i - 1, e) = <<"%", m_pattern[i], "{">> \o para \o <<"}">>
    <2> DEFINE p == i - 1
    <2>1. p \in Nat \ {0} /\ p + 1 = i /\ p + 2 = i + 1 /\ p + 3 = i + 2 /\ p + 3 <= e
      BY <1>2, <1>5
    <2>2. <<m_pattern[p], m_pattern[p + 1], m_pattern[p + 2]>> \o SubSeq(m_pattern, p + 3, e - 1)
            \o <<m_pattern[e]>> = SubSeq(m_pattern, p, e)
      <3> HIDE DEF p
      <3> QED BY <1>2, <1>5, <2>1, JoinThree DEF Size
    <2> QED BY <1>2, <1>3, <1>4, <2>1, <2>2
  <1>12. ~ Contains(SubSeq(para, 2, Len(para)), "}")
    <2> DEFINE l == Len(para)
               r == SubSeq(para, 2, l)
    <2>1. l \in Nat \ {0} /\ l = e - i - 2
      BY <1>6, <1>9
    <2>a. l \in Nat \ {0}
      BY <2>1
    <2> HIDE DEF para, l
    <2>2. \A j \in 1 .. Len(r) : r[j] = para[2 + j - 1]
      <3>1. para \in Seq(Char) /\ l <= Len(para) /\ l \in Nat /\ 2 \in Nat \ {0}
        BY <1>6, <2>1 DEF l
      <3> QED BY <3>1, SubSeqIs
    <2>3. Len(r) = l - 1
      <3>1. 2 <= l + 1 /\ l + 1 - 2 = l - 1
        BY <2>a
      <3>2. para \in Seq(Char) /\ l <= Len(para) /\ l \in Nat /\ 2 \in Nat \ {0}
        BY <1>6, <2>1 DEF l
      <3> QED BY <3>1, <3>2, SubSeqIs
    <2>4. ASSUME NEW j \in 1 .. Len(r) PROVE r[j] # "}"
      <3>1. j + 1 \in 1 .. l /\ 2 + j - 1 = j + 1 /\ j \in Nat
        <4>1. j \in 1 .. l - 1 /\ l \in Nat
          BY <2>1, <2>3
        <4> QED BY <4>1
      <3>2. r[j] = m_pattern[(i + 2) + (j + 1) - 1]
        BY <1>6, <2>2, <3>1 DEF l
      <3>3. (i + 2) + (j + 1) - 1 \in i + 3 .. Size /\ (i + 2) + (j + 1) - 1 < e
        <4>1. j + 1 <= e - i - 2 /\ j >= 1
          <5>1. j + 1 <= l /\ j \in Nat /\ j >= 1
            <6>1. j + 1 \in 1 .. l /\ j \in 1 .. Len(r)
              BY <3>1
            <6> QED BY <3>1, <6>1
          <5> QED BY <2>1, <5>1
        <4>2. j \in Nat
          BY <3>1
        <4> QED BY <1>a, <1>b, <4>1, <4>2
      <3> QED BY <1>3, <3>2, <3>3
    <2> HIDE DEF r, l
    <2>5. ~ Contains(r, "}")
      BY <2>4 DEF Contains
    <2> QED BY <2>5 DEF r, l
  <1> HIDE DEF para
  <1>13. (n + 1) % 2 # 1
    BY <1>2
  <1>14. CASE x # ErrorFormat
    <2> HIDE DEF x
    <2>1. x.symbol = m_pattern[i] /\ x.para = para
      BY <1>8, <1>14
    <2>2. PieceOf(x, n + 1) = SubSeq(m_pattern, i - 1, e)
      BY <1>10, <1>11, <1>13, <2>1 DEF PieceOf
    <2>3. CleanItem(x, n + 1)
      BY <1>12, <1>13, <2>1 DEF CleanItem
    <2> QED BY <1>1, <1>5, <1>7, <2>2, <2>3, MakeInv DEF x, EndsAt
  <1>15. CASE x = ErrorFormat
    <2> HIDE DEF x
    <2>1. CleanItem(x, n + 1)
      <3>1. Len(<<"<error format>">>) = 1
        OBVIOUS
      <3>2. SubSeq(<<"<error format>">>, 2, 1) = <<>>
        OBVIOUS
      <3>3. ErrorFormat.para = <<"<error format>">>
        BY DEF ErrorFormat, Text
      <3>4. \A y : ~ Contains(<<>>, y)
        BY DEF Contains
      <3> QED BY <1>13, <1>15, <3>1, <3>2, <3>3, <3>4 DEF CleanItem
    <2> QED BY <1>1, <1>5, <1>7, <1>15, <2>1, MakeInv DEF x, EndsAt
  <1> QED BY <1>14, <1>15

\* An argument that is not closed ends the reading.
LEMMA UnclosedInv ==
  ASSUME Inv, Unclosed
  PROVE  Inv'
  <1>1. /\ Creating /\ HasPara /\ ClosingBrace > Size /\ status' = "error" /\ i' = i
        /\ UNCHANGED <<m_items, m_pattern>>
    BY DEF Unclosed
  <1>2. Shape /\ Directive /\ Clean /\ status = "CREATE"
    BY <1>1 DEF Inv, Creating
  <1>3. /\ \A c : StandFor(c)' <=> StandFor(c)
        /\ Known' <=> Known
        /\ Clean' <=> Clean
    BY <1>1, StandForSame
  <1>4. Shape'
    BY <1>1, <1>2 DEF Shape, Size, ErrorFormat, Text
  <1>5. \A k \in i + 3 .. Size : m_pattern[k] # "}"
    <2> DEFINE e == ClosingBrace
    <2>1. e > Size
      BY <1>1
    <2>2. \A k \in i + 3 .. Size : k < e => m_pattern[k] # "}"
      BY <1>1, BraceIs
    <2>3. e \in Nat /\ Size \in Nat /\ i \in Nat
      <3>1. m_pattern \in Seq(Char) /\ Size \in Nat /\ i \in Nat /\ i + 3 \in Nat \ {0}
        BY <1>1, DirectiveBegins
      <3>2. /\ i + 3 > Size => e = i + 3
            /\ i + 3 <= Size => e \in i + 3 .. Size + 1
        BY <3>1, FindIs DEF ClosingBrace
      <3> HIDE DEF e
      <3> QED BY <3>1, <3>2
    <2> HIDE DEF e
    <2>4. \A k \in i + 3 .. Size : k < e
      BY <2>1, <2>3
    <2> QED BY <2>2, <2>4
  <1>6. Directive'
    BY <1>1, <1>2, <1>5 DEF Directive, HasPara, Size
  <1>7. ASSUME Known' PROVE Spelled'
    <2>1. StandFor(i - 2)
      BY <1>2, <1>3, <1>7 DEF Inv, Spelled
    <2>2. Pieces' = SubSeq(m_pattern', 1, i' - 2)
      <3>1. Pieces' = Pieces
        BY <1>1 DEF Pieces, Piece
      <3> QED BY <1>1, <2>1, <3>1 DEF StandFor
    <2> QED BY <1>1, <2>2 DEF Spelled, StandFor
  <1> QED BY <1>2, <1>3, <1>4, <1>6, <1>7 DEF Inv

\* The last element alone.
LEMMA LastOnly ==
  ASSUME NEW S, NEW s \in Seq(S), Len(s) > 0
  PROVE  SubSeq(s, Len(s), Len(s)) = <<s[Len(s)]>>
  <1> DEFINE n == Len(s)
             r == SubSeq(s, n, n)
  <1>1. n \in Nat \ {0} /\ n <= Len(s) /\ n <= n + 1 /\ n + 1 - n = 1 /\ n + 1 - 1 = n
    OBVIOUS
  <1>2. /\ r \in Seq(S) /\ Len(r) = 1
        /\ \A j \in 1 .. Len(r) : r[j] = s[n + j - 1]
    <2> HIDE DEF n
    <2> QED BY <1>1, SubSeqIs
  <1> HIDE DEF n, r
  <1>3. r[1] = s[n]
    BY <1>1, <1>2
  <1>4. r = <<r[1]>>
    BY <1>2
  <1> QED BY <1>3, <1>4 DEF n, r

\* The end of the pattern.
LEMMA DoneInv ==
  ASSUME Inv, Done
  PROVE  Inv'
  <1>1. /\ status \in {"SCAN", "CREATE"} /\ i > Size /\ status' = "done" /\ i' = i
        /\ UNCHANGED <<m_items, m_pattern>>
    BY DEF Done
  <1>2. Shape /\ Directive /\ Clean
    BY DEF Inv
  <1>3. /\ Known' <=> Known
        /\ Clean' <=> Clean
    BY <1>1, StandForSame
  <1>4. Shape'
    BY <1>1, <1>2 DEF Shape, Size, ErrorFormat, Text
  <1>5. Directive'
    BY <1>1 DEF Directive
  <1>6. m_pattern \in Seq(Char) /\ Size \in Nat /\ i \in 1 .. Size + 3
    BY <1>2 DEF Shape, Size
  <1>7. ASSUME Known
        PROVE  \E c \in 0 .. Size : StandFor(c) /\ SubSeq(m_pattern, c + 1, Size) \in Lost
    <2>1. Spelled
      BY <1>7 DEF Inv
    <2>2. SubSeq(m_pattern, Size + 1, Size) = <<>>
      BY <1>6, SubSeqIs DEF Size
    <2>3. Size > 0 => SubSeq(m_pattern, Size, Size) = <<m_pattern[Size]>>
      BY <1>6, LastOnly DEF Size
    <2>a. Size \in Nat /\ i \in 1 .. Size + 3 /\ i > Size
      BY <1>1, <1>6
    <2>4. CASE status = "SCAN" /\ i <= Size + 2
      <3>1. StandFor(Size)
        <4>1. i = Size + 2 \/ (i <= Size + 1 /\ i - 1 = Size)
          <5>1. i <= Size + 2
            BY <2>4
          <5> QED BY <2>a, <5>1
        <4> QED BY <2>1, <2>4, <4>1 DEF Spelled
      <3>2. Size \in 0 .. Size
        BY <2>a
      <3> QED BY <2>2, <3>1, <3>2 DEF Lost
    <2>5. CASE status = "SCAN" /\ i = Size + 3
      <3>1. StandFor(Size - 1) /\ Size > 0 /\ m_pattern[Size] = "{"
        BY <2>1, <2>5 DEF Spelled
      <3>2. Size - 1 \in 0 .. Size /\ (Size - 1) + 1 = Size
        <4>1. Size > 0
          BY <3>1
        <4> QED BY <2>a, <4>1
      <3>3. SubSeq(m_pattern, (Size - 1) + 1, Size) = <<"{">>
        BY <2>3, <3>1, <3>2
      <3> QED BY <3>1, <3>2, <3>3 DEF Lost
    <2>6. CASE status = "CREATE"
      <3>1. i \in 2 .. Size + 1 /\ m_pattern[i - 1] = "%" /\ StandFor(i - 2)
        BY <1>2, <2>1, <2>6 DEF Directive, Spelled
      <3>2. /\ i - 1 = Size /\ i - 2 = Size - 1 /\ Size > 0
            /\ Size - 1 \in 0 .. Size /\ (Size - 1) + 1 = Size
        <4>1. i \in 2 .. Size + 1
          BY <3>1
        <4> QED BY <2>a, <4>1
      <3>3. SubSeq(m_pattern, (Size - 1) + 1, Size) = <<"%">> /\ StandFor(Size - 1)
        BY <2>3, <3>1, <3>2
      <3> QED BY <3>2, <3>3 DEF Lost
    <2>7. status = "SCAN" => i <= Size + 2 \/ i = Size + 3
      BY <2>a
    <2> QED BY <1>1, <2>4, <2>5, <2>6, <2>7
  <1>8. ASSUME Known' PROVE Spelled'
    <2>1. PICK c \in 0 .. Size : StandFor(c) /\ SubSeq(m_pattern, c + 1, Size) \in Lost
      BY <1>3, <1>7, <1>8
    <2>2. Pieces' = Pieces /\ Size' = Size /\ m_pattern' = m_pattern
      BY <1>1 DEF Pieces, Piece, Size
    <2>3. \E d \in 0 .. Size' : Pieces' = SubSeq(m_pattern', 1, d)
                               /\ SubSeq(m_pattern', d + 1, Size') \in Lost
      BY <2>1, <2>2 DEF StandFor
    <2> QED BY <1>1, <2>3 DEF Spelled, StandFor, Lost
  <1> QED BY <1>2, <1>3, <1>4, <1>5, <1>8 DEF Inv

\* The invariant.
LEMMA InvHolds == Spec => []Inv
  <1>1. Init => Inv
    BY InitInv
  <1>2. Inv /\ [Next]_vars => Inv'
    <2> SUFFICES ASSUME Inv, [Next]_vars PROVE Inv'
      OBVIOUS
    <2>1. CASE UNCHANGED vars
      <3>1. UNCHANGED <<m_items, m_pattern>> /\ status' = status /\ i' = i
        BY <2>1 DEF vars
      <3>2. Known' = Known /\ Clean' = Clean /\ Shape' = Shape /\ Directive' = Directive
        BY <3>1 DEF Known, Clean, CleanItem, Shape, Directive, HasPara, Size, ErrorFormat, Text
      <3>3. Spelled' = Spelled
        BY <3>1 DEF Spelled, StandFor, Pieces, Piece, Size, Lost
      <3> QED BY <3>2, <3>3 DEF Inv
    <2> QED BY <2>1, ScanInv, CreateInv, CreateWithParaInv, UnclosedInv, StrayBraceInv, DoneInv
            DEF Next
  <1> QED BY <1>1, <1>2, PTL DEF Spec

-----------------------------------------------------------------------------
(* Layout::init is in its states: every item is a text or a directive, in  *)
(* turns, for patterns of any length over any characters                   *)
(* (layout.cpp:229-273).                                                   *)
THEOREM TypeCorrect == Spec => []TypeOK
  <1>1. Inv => TypeOK
    <2> SUFFICES ASSUME Inv PROVE TypeOK
      OBVIOUS
    <2>1. Shape
      BY DEF Inv
    <2>2. DOMAIN m_items = 1 .. Len(m_items)
      BY <2>1 DEF Shape
    <2> QED BY <2>1, <2>2 DEF Shape, TypeOK
  <1> QED BY <1>1, InvHolds, PTL

(* The items of a pattern whose letters are all known spell it, but for a  *)
(* last "%", a brace that ends it, and all that follows an argument that   *)
(* is not closed (layout.cpp:229-273).                                     *)
THEOREM ItemsSpellThePattern == Spec => []RoundTrip
  <1>1. Inv => RoundTrip
    <2> SUFFICES ASSUME Inv, status \in {"done", "error"}, Known
                 PROVE  /\ IsPrefix(Pieces, m_pattern)
                        /\ \A k \in DOMAIN m_items : CleanItem(m_items[k], k)
                        /\ IF status = "done" THEN Rest \in Lost
                           ELSE /\ Len(Rest) >= 3 /\ Rest[1] = "%" /\ Rest[3] = "{"
                                /\ ~ Contains(SubSeq(Rest, 5, Len(Rest)), "}")
      BY DEF RoundTrip, Known, CleanItem, Lost
    <2>1. Shape /\ Directive /\ Clean /\ Spelled
      BY DEF Inv
    <2>2. m_pattern \in Seq(Char) /\ Size \in Nat /\ DOMAIN m_items = 1 .. Len(m_items)
      BY <2>1 DEF Shape, Size
    <2>3. \A k \in DOMAIN m_items : CleanItem(m_items[k], k)
      BY <2>1, <2>2 DEF Clean
    <2>4. ASSUME NEW c \in 0 .. Size, StandFor(c)
          PROVE  IsPrefix(Pieces, m_pattern) /\ Rest = SubSeq(m_pattern, c + 1, Size)
      <3>1. c \in Nat /\ c <= Size
        BY <2>2
      <3>2. /\ Pieces = SubSeq(m_pattern, 1, c) /\ Pieces \in Seq(Char) /\ Len(Pieces) = c
        <4>1. c + 1 - 1 = c /\ 1 <= c + 1
          BY <3>1
        <4> QED BY <2>2, <2>4, <3>1, <4>1, SubSeqIs DEF StandFor, Size
      <3>3. SubSeq(Pieces, 1, c) = Pieces
        <4> DEFINE p == Pieces
        <4> HIDE DEF p
        <4>1. p \in Seq(Char) /\ Len(p) = c
          BY <3>2 DEF p
        <4>2. SubSeq(p, 1, c) = p
          BY <3>1, <4>1
        <4> QED BY <4>2 DEF p
      <3> QED BY <3>1, <3>2, <3>3 DEF IsPrefix, Rest, Size
    <2>5. CASE status = "done"
      <3>1. PICK c \in 0 .. Size : StandFor(c) /\ SubSeq(m_pattern, c + 1, Size) \in Lost
        BY <2>1, <2>5 DEF Spelled
      <3> QED BY <2>3, <2>4, <2>5, <3>1
    <2>6. CASE status = "error"
      <3>1. /\ i \in 2 .. Size + 1 /\ m_pattern[i - 1] = "%" /\ StandFor(i - 2)
            /\ i < Size /\ m_pattern[i + 1] = "{" /\ \A k \in i + 3 .. Size : m_pattern[k] # "}"
        BY <2>1, <2>6 DEF Directive, HasPara, Spelled
      <3>2. i \in 2 .. Size + 1 /\ i < Size /\ Size \in Nat
        BY <2>2, <3>1
      <3>3. /\ i \in Nat /\ i - 2 \in 0 .. Size /\ i - 1 \in Nat \ {0} /\ (i - 2) + 1 = i - 1
            /\ i - 1 <= Size + 1 /\ Size + 1 - (i - 1) = Size + 2 - i /\ Size + 2 - i >= 3
            /\ Size + 2 - i \in Nat
        BY <3>2
      <3>4. IsPrefix(Pieces, m_pattern) /\ Rest = SubSeq(m_pattern, i - 1, Size)
        BY <2>4, <3>1, <3>3
      <3>5. /\ Rest \in Seq(Char) /\ Len(Rest) = Size + 2 - i
            /\ \A j \in 1 .. Len(Rest) : Rest[j] = m_pattern[(i - 1) + j - 1]
        BY <2>2, <3>3, <3>4, SubSeqIs DEF Size
      <3>6. Len(Rest) >= 3 /\ Len(Rest) \in Nat
        BY <3>3, <3>5
      <3>7. Rest[1] = "%" /\ Rest[3] = "{"
        <4>1. (i - 1) + 1 - 1 = i - 1 /\ (i - 1) + 3 - 1 = i + 1
          BY <3>3
        <4>2. 1 \in 1 .. Len(Rest) /\ 3 \in 1 .. Len(Rest)
          BY <3>6
        <4> QED BY <3>1, <3>5, <4>1, <4>2
      <3>8. ~ Contains(SubSeq(Rest, 5, Len(Rest)), "}")
        <4> DEFINE s == Rest
                   l == Len(s)
                   r == SubSeq(s, 5, l)
        <4> HIDE DEF s, l
        <4>1. s \in Seq(Char) /\ l \in Nat /\ l <= Len(s) /\ 5 \in Nat \ {0} /\ l = Size + 2 - i
          BY <3>5, <3>6 DEF s, l
        <4>2. /\ 5 <= l + 1 => Len(r) = l + 1 - 5
              /\ 5 > l => r = <<>>
              /\ \A j \in 1 .. Len(r) : r[j] = s[5 + j - 1]
          BY <4>1, SubSeqIs
        <4> HIDE DEF r
        <4>3. ASSUME NEW j \in 1 .. Len(r) PROVE r[j] # "}"
          <5>1. j \in Nat /\ j >= 1 /\ j <= l - 4
            <6>1. l \in Nat
              BY <4>1
            <6>2. CASE 5 <= l
              <7>1. Len(r) = l + 1 - 5
                BY <4>2, <6>1, <6>2
              <7> QED BY <6>1, <6>2, <7>1
            <6>3. CASE ~ (5 <= l)
              <7>1. r = <<>>
                BY <4>2, <6>1, <6>3
              <7>2. Len(r) = 0
                BY <7>1
              <7> QED BY <7>2
            <6> QED BY <6>2, <6>3
          <5>2. j + 4 \in 1 .. l /\ 5 + j - 1 = j + 4
            <6>1. l \in Nat
              BY <4>1
            <6> QED BY <5>1, <6>1
          <5>3. r[j] = m_pattern[(i - 1) + (j + 4) - 1]
            BY <3>5, <4>2, <5>2 DEF s, l
          <5>4. (i - 1) + (j + 4) - 1 \in i + 3 .. Size
            <6>2. i \in Nat /\ Size \in Nat
              BY <2>2, <3>3
            <6>1. j <= Size + 2 - i - 4
              <7>1. l = Size + 2 - i
                BY <4>1
              <7>2. j <= l - 4 /\ j \in Nat
                BY <5>1
              <7> QED BY <6>2, <7>1, <7>2
            <6> QED BY <5>1, <6>1, <6>2
          <5> QED BY <3>1, <5>3, <5>4
        <4>4. ~ Contains(r, "}")
          BY <4>3 DEF Contains
        <4> QED BY <4>4 DEF r, s, l
      <3> QED BY <2>3, <2>6, <3>4, <3>6, <3>7, <3>8
    <2> QED BY <2>5, <2>6
  <1> QED BY <1>1, InvHolds, PTL
=============================================================================
