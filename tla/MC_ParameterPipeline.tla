------------------------ MODULE MC_ParameterPipeline ------------------------
(***************************************************************************)
(* A small instance of ParameterPipeline for TLC.                          *)
(***************************************************************************)
EXTENDS ParameterPipeline

\* A scalar that is declared with two types, a vector of fixed length, and two fields
\* of one struct: a column, which is refused with another length, and a cell of strings
\* of any length.
SmallDeclarable == {
  Metadata("gain",   2, 1,  1, "PLAIN", "DOUBLE"),
  Metadata("gain",   2, 1,  1, "PLAIN", "BOOL"),
  Metadata("joints", 3, 1,  2, "PLAIN", "INT"),
  Metadata("limits", 4, 2,  2, "STRUCT", "DOUBLE"),
  Metadata("frames", 4, 1, -1, "STRUCT_CELL", "STRING")}

\* A text with a quote in it.
QuotedText == -9

SmallMaskValues == {
  [kind |-> "double",  data |-> <<1>>],
  [kind |-> "double",  data |-> <<3, 0>>],
  [kind |-> "double",  data |-> <<1, 2, 0>>],
  [kind |-> "strings", data |-> <<-7, 1>>],
  [kind |-> "strings", data |-> <<QuotedText>>]}

FragileTexts == {QuotedText}
MisreadTexts == {-7, 1}
=============================================================================
