----------------------------- MODULE MCTransfers -----------------------------
EXTENDS Transfers

(* Two mailboxes full, and one that is not.                                *)
MCSize == [i \in Items |-> IF i = "full" THEN 6 ELSE 4]

(* A buffer that is large enough and one that is not.                      *)
MCRooms == [i \in Items |-> IF i = "full" THEN {4, 6} ELSE {4}]

MCLargeRooms == [i \in Items |-> {Size[i]}]

MCApplications ==
  {{"foeread"}, {"foewrite"}, {"soeread"}, {"soewrite"}, {"eoesend"},
   {"eoerecv"}, {"eoeread"}, {"eoesetip", "eoegetip"}, {"rxpdo", "txpdo"},
   {"odlist"}, {"oddesc"}, {"readoe"}, {"pdomap"}, {"pdomapca"}}

(* The reads of a mapping drain what another protocol has left.            *)
MCMixedApplications == MCApplications \cup {{"pdomapca", "oddesc"}}

(* A slave that names its sync managers right, one that counts them from   *)
(* 0, one that does not know the last two, and one with more than MaxSM.   *)
SlaveWith(types, real, last) ==
  [types |-> [sm \in 0 .. Len(types) - 1 |-> types[sm + 1]],
   real |-> [sm \in 0 .. Len(real) - 1 |-> real[sm + 1]],
   pdos |-> [sm \in 0 .. Len(types) - 1 |->
               CASE sm = 2 -> <<"large", "none", "small">> [] sm = 3 -> last [] OTHER -> <<>>],
   bits |-> [large |-> <<8, 16>>, small |-> <<1>>]]

MCMappings ==
  {SlaveWith(<<1, 2, 3, 4>>, <<1, 2, 3, 4>>, <<"large">>),
   SlaveWith(<<0, 1, 2, 3>>, <<1, 2, 3, 4>>, <<"small">>),
   SlaveWith(<<1, 2, 0, 0>>, <<1, 2, 3, 4>>, <<"small", "small">>),
   SlaveWith(<<1, 2, 3, 0>>, <<1, 2, 3, 0>>, <<>>),
   SlaveWith(<<1, 2, 4, 3, 0>>, <<1, 2, 4, 3, 0>>, <<"small">>),
   SlaveWith(<<1, 2>>, <<1, 2>>, <<>>)}

=============================================================================
