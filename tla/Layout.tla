-------------------------------- MODULE Layout --------------------------------
(***************************************************************************)
(* qc::log::Layout::init: how a pattern, such as "[%p] %d{%H:%M}%m%n",     *)
(* becomes the items that format an event.  One step per turn of the loop. *)
(* Positions count from one: the source's i is i - 1 here.                 *)
(***************************************************************************)
EXTENDS Naturals, Sequences, SequencesExt

CONSTANTS
  Char,       \* the characters of patterns
  Letter,     \* those that item_factory_map knows; "o" makes a text
  MaxLength   \* bound: length of patterns

ASSUME CharAssumption ==
  {"%", "{", "}"} \subseteq Char /\ "%" \in Letter /\ {"{", "}"} \cap Letter = {}

VARIABLES m_pattern, m_items, status, i

vars == <<m_pattern, m_items, status, i>>

Size == Len(m_pattern)

Text(s) == [symbol |-> "o", para |-> s]
ErrorFormat == Text(<<"<error format>">>)
Item(c, para) == IF c \in Letter THEN [symbol |-> c, para |-> para] ELSE ErrorFormat

\* Texts and directives take turns: there is a text, empty or not, before
\* every directive.
TypeOK ==
  /\ m_pattern \in BoundedSeq(Char, MaxLength)
  /\ status \in {"SCAN", "CREATE", "done", "error"}
  /\ i \in 1 .. Size + 3
  /\ \A k \in DOMAIN m_items :
       IF k % 2 = 1 THEN m_items[k].symbol = "o"
       ELSE m_items[k] = ErrorFormat \/ m_items[k].symbol \in Letter
  /\ status = "SCAN" /\ i <= Size => Len(m_items) % 2 = 0
  /\ status = "CREATE" => Len(m_items) % 2 = 1

Init ==
  /\ m_pattern \in BoundedSeq(Char, MaxLength)
  /\ m_items = <<>>
  /\ status = "SCAN"
  /\ i = 1

-----------------------------------------------------------------------------
\* The first c at from or after it; else the end.
Find(c, from) ==
  LET found == SelectInSubSeq(m_pattern, from, Size, LAMBDA x : x = c)
  IN  IF found # 0 THEN found ELSE IF from <= Size THEN Size + 1 ELSE from

Scan ==
  /\ status = "SCAN" /\ i <= Size
  /\ LET str_end == Find("%", i) IN
       /\ m_items' = Append(m_items, Text(SubSeq(m_pattern, i, str_end - 1)))
       /\ status' = IF str_end <= Size THEN "CREATE" ELSE "SCAN"
       /\ i' = str_end + 1
  /\ UNCHANGED m_pattern

\* At the last character this reads the '\0' that ends the pattern.
HasPara == i < Size /\ m_pattern[i + 1] = "{"

\* mutant of Made: no item for an unknown letter
MadeKnown(c, para) == IF c \in Letter THEN Append(m_items, Item(c, para)) ELSE m_items
Made(c, para) == Append(m_items, Item(c, para))

\* The directive's item is made; position end is the last one that was read.
Make(para, end) ==
  /\ m_items' = Made(m_pattern[i], para)
  /\ status' = "SCAN"
  /\ i' = end + 1
  /\ UNCHANGED m_pattern

Creating == status = "CREATE" /\ i <= Size

Create == Creating /\ ~ HasPara /\ Make(<<>>, i)

\* The search for the brace starts at the second character of the argument.
ClosingBrace == Find("}", i + 3)

\* mutant of EndOfPara: the brace is left to be scanned as text
BeforeBrace == ClosingBrace - 1
EndOfPara == ClosingBrace

CreateWithPara ==
  /\ Creating /\ HasPara
  /\ ClosingBrace <= Size
  /\ Make(SubSeq(m_pattern, i + 2, ClosingBrace - 1), EndOfPara)

Unclosed ==
  /\ Creating /\ HasPara
  /\ ClosingBrace > Size
  /\ status' = "error"
  /\ UNCHANGED <<m_pattern, m_items, i>>

\* "%d{" ends the pattern: the search starts, and ends, behind its '\0', and
\* the brace found there is whatever the memory holds.
StrayBrace == Creating /\ HasPara /\ i + 1 = Size /\ Make(<<>>, i + 3)

Done ==
  /\ status \in {"SCAN", "CREATE"} /\ i > Size
  /\ status' = "done"
  /\ UNCHANGED <<m_pattern, m_items, i>>

Next == Scan \/ Create \/ CreateWithPara \/ Unclosed \/ StrayBrace \/ Done

Spec == Init /\ [][Next]_vars

-----------------------------------------------------------------------------
\* The piece of a pattern that gives the k-th item.
Piece(k) ==
  LET item == m_items[k] IN
  IF k % 2 = 1 THEN item.para
  ELSE IF item.para = <<>> THEN <<"%", item.symbol>>
  ELSE <<"%", item.symbol, "{">> \o item.para \o <<"}">>

Pieces == FlattenSeq([k \in DOMAIN m_items |-> Piece(k)])
Rest   == SubSeq(m_pattern, Len(Pieces) + 1, Size)

(* A pattern whose letters are all known is the concatenation of what its  *)
(* items stand for, in order and without ambiguity.  Only a last "%", the  *)
(* brace that ends a pattern, and everything from the first argument that  *)
(* is not closed, are lost (layout.cpp:229-273).                           *)
RoundTrip ==
  status \in {"done", "error"} /\ (\A k \in DOMAIN m_items : m_items[k] # ErrorFormat) =>
    /\ IsPrefix(Pieces, m_pattern)
    /\ \A k \in DOMAIN m_items :
         IF k % 2 = 1 THEN ~ Contains(m_items[k].para, "%")
         ELSE ~ Contains(SubSeq(m_items[k].para, 2, Len(m_items[k].para)), "}")
    /\ IF status = "done" THEN Rest \in {<<>>, <<"%">>, <<"{">>}
       ELSE /\ Len(Rest) >= 3 /\ Rest[1] = "%" /\ Rest[3] = "{"
            /\ ~ Contains(SubSeq(Rest, 5, Len(Rest)), "}")
=============================================================================
