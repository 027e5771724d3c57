------------------------------ MODULE MCLayout ------------------------------
(* Model-checking instance of Layout.                                      *)
EXTENDS Layout

\* The braces are the unknown letters.
SomeLetters == {"%", "d", "o"}
SomeChars   == {"{", "}"} \cup SomeLetters
=============================================================================
