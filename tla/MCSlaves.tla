------------------------------ MODULE MCSlaves ------------------------------
EXTENDS Slaves

(* The stranger differs from slave 1 in its alias only, which a slave      *)
(* seldom has; slave 2 has no revision, and slave 1 one that is also its   *)
(* product.                                                                *)
MCIdentity ==
  [d \in Devices |->
     [alias |-> IF d \in Slaves THEN 0 ELSE 4,
      id |-> 1,
      man |-> 2,
      rev |-> IF d = 2 THEN 0 ELSE 1]]

MCApplications ==
  {[functions |-> {"readstate", "writestate", "statecheck"}, slaves |-> {1}],
   [functions |-> {"recover"}, slaves |-> {1, 2}],
   [functions |-> {"reconfig"}, slaves |-> {1, 2}],
   [functions |-> {"recover", "reconfig"}, slaves |-> {1}],
   [functions |-> {"readeeprom", "writeeeprom"}, slaves |-> {1}],
   [functions |-> {"readeepromAP", "writeeepromAP", "eeprom2pdi"}, slaves |-> {2}],
   [functions |-> {"readeeprom1"}, slaves |-> {1, 2}],
   [functions |-> {"siigetbyte"}, slaves |-> {1, 2}],
   [functions |-> {"siigetbyte", "eeprom2pdi"}, slaves |-> {2}]}

=============================================================================
