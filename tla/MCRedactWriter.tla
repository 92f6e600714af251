--------------------------- MODULE MCRedactWriter ---------------------------
(***************************************************************************)
(* RedactWriter on every short text.                                       *)
(***************************************************************************)
EXTENDS RedactWriter, SequencesExt

\* Up to two variables, every way five characters can make them.
OneLineVariables == BoundedSeq({"c", "K", "v", "w", "=", "nul"}, 5)

\* A variable with a value of two lines.
TwoLineVariable == {<<"K", "=", "c", "nl", "c", "nul">>}
=============================================================================
