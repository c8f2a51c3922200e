------------------------------- MODULE Slaves -------------------------------
(***************************************************************************)
(* An application that looks after the slaves of a bus: it reads and       *)
(* writes their states, recovers and configures them anew, or reads and    *)
(* writes their EEPROMs.  States and EEPROMs do not meet: while an EEPROM  *)
(* is accessed no device changes its state or leaves.                      *)
(***************************************************************************)
EXTENDS SlaveState, Eeprom

CONSTANT
  Applications  \* each with the functions that it calls, for which slaves

ASSUME SlavesAssumption == \A a \in Applications : a.slaves \subseteq 1 .. SlaveCount

VARIABLE
  application   \* the one that runs

vars == <<statevars, eepvars, application>>

StateFunctions == {"readstate", "writestate", "statecheck", "recover", "reconfig"}

Init ==
  /\ StateInit /\ EepromInit
  /\ application \in Applications

Supervise ==
  /\ application.functions \subseteq StateFunctions
  /\ StateNext(application.functions, application.slaves)
  /\ UNCHANGED eepvars

AccessEeproms ==
  /\ EepromNext(application.functions, application.slaves)
  /\ UNCHANGED <<callvars, seenvars>>

Next == (Supervise \/ AccessEeproms) /\ UNCHANGED application

Spec == Init /\ [][Next]_vars

=============================================================================
