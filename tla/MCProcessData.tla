--------------------------- MODULE MCProcessData ---------------------------
EXTENDS ProcessData

CONSTANT Sizes  \* Sizes[s]: bytes slave s may have as outputs, as inputs

MCSizes ==
  <<[Obytes : {0, 3, 6}, Ibytes : {0, 1, 4}, mbx : {FALSE}],
    [Obytes : {0, 1, 6}, Ibytes : {0, 4}, mbx : BOOLEAN]>>

(* Two slaves, each with outputs and inputs that fit into a segment or do  *)
(* not; the second with and without a mailbox.                             *)
MCNetworks == {<<s1, s2>> : s1 \in Sizes[1], s2 \in Sizes[2]}

=============================================================================
