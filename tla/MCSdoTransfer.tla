--------------------------- MODULE MCSdoTransfer ---------------------------
EXTENDS SdoTransfer

CONSTANT Segments  \* chunks of the longer object

(* Two sub-indices of one object: a number, and a text in several chunks.  *)
Number == [index |-> 1, subindex |-> 1]
Text == [index |-> 1, subindex |-> 2]

MCObjects == {Number, Text}
MCSize == [o \in MCObjects |-> IF o = Text THEN Segments ELSE 1]

=============================================================================
