------------------------------ MODULE Transfers ------------------------------
(***************************************************************************)
(* The acyclic protocols FoE, SoE, EoE and CoE (but for the transfer of    *)
(* objects) together, over the one pair of mailboxes of a slave: one       *)
(* thread makes one call after the other, and what a call leaves behind (a *)
(* reply, an unfinished frame, file or list) meets the next, of whichever  *)
(* protocol.                                                               *)
(*                                                                         *)
(* The application gives up after MaxFailed calls in a row without result, *)
(* when the slave has fallen silent in a call, and when a mailbox was      *)
(* dropped twice (doubled), after which the ring of the pool is corrupt.   *)
(* That is less than it takes for the counter of a mailbox to come round   *)
(* (the slave would take a new request for a copy of its last one, and     *)
(* ecx_EOEsend, which awaits no answer, would not notice) or the number of *)
(* an Ethernet frame (its fragments would be taken for those of the frame  *)
(* before).  TLC finds both when MaxFailed is that large.                  *)
(***************************************************************************)
EXTENDS FoeTransfer, SoeTransfer, EoeFragments, Dictionary, PdoMap

CONSTANTS
  Applications,  \* each the set of functions that it calls
  Rooms,         \* Rooms[i]: sizes of the buffers that callers have for i
  MaxFailed

ASSUME TransfersAssumption ==
  /\ \A i \in Items : Rooms[i] \subseteq Nat
  /\ MaxFailed \in Nat /\ MaxFailed + 1 < MaxCnt /\ MaxFailed < FrameNos

VARIABLES
  application,  \* the one that runs
  failed        \* calls in a row without result

coevars == <<infovars, pdomapvars>>

vars == <<mbxvars, callvars, foevars, fileserver, soevars, eoevars, coevars, application, failed>>

foe == <<foevars, fileserver>>

Init ==
  /\ MbxInit /\ pc = "idle" /\ CallInit
  /\ FoeInit /\ SoeInit /\ EoeInit /\ InfoInit /\ PdoMapInit
  /\ application \in Applications /\ failed = 0

Foe(action) == action /\ UNCHANGED <<soevars, eoevars, coevars>>
Soe(action) == action /\ UNCHANGED <<foe, eoevars, coevars>>
Eoe(action) == action /\ UNCHANGED <<foe, soevars, coevars>>
Coe(action) == action /\ UNCHANGED <<foe, soevars, eoevars, pdomapvars>>
Map(action) == action /\ UNCHANGED <<foe, soevars, eoevars, infovars>>
Shared(action) == action /\ UNCHANGED <<foe, soevars, eoevars, coevars>>

Call(function, i, size) ==
  \/ function = "foeread" /\ Foe(FOEread(i, size))
  \/ function = "foewrite" /\ Foe(FOEwrite(i))
  \/ function = "soeread" /\ Soe(SoEread(i, size))
  \/ function = "soewrite" /\ Soe(SoEwrite(i))
  \/ function = "eoesend" /\ Eoe(EOEsend(i))
  \/ function = "eoerecv" /\ Eoe(EOErecv(i, size))
  \/ function = "eoeread" /\ Eoe(EOEreadfragment(i, size))
  \/ function = "eoesetip" /\ Eoe(EOEsetIp(i))
  \/ function = "eoegetip" /\ Eoe(EOEgetIp(i))
  \/ function = "rxpdo" /\ Coe(RxPDO(i))
  \/ function = "txpdo" /\ Coe(TxPDO(i))
  \/ function = "odlist" /\ Coe(readODlist(i, size))
  \/ function = "oddesc" /\ Coe(readODdescription(i))
  \/ function = "readoe" /\ Coe(readOE(i))
  \/ function = "pdomap" /\ Map(readPDOmap(i))
  \/ function = "pdomapca" /\ Map(readPDOmapCA(i))

Returns ==
  /\ \/ Foe(FoeReturn) \/ Soe(SoeReturn) \/ Eoe(EoeReturn)
     \/ Coe(InfoReturn) \/ Map(PdoReturn)
  /\ failed' = IF wkc THEN 0 ELSE failed + 1

MasterWorks ==
  \/ Foe(FoeMaster) \/ Soe(SoeMaster) \/ Eoe(EoeMaster)
  \/ Coe(InfoMaster) \/ Map(PdoMaster)
  \/ Shared(Drain \/ Finish)
  \/ Shared(Transport /\ UNCHANGED callvars)

Master == (Returns \/ (MasterWorks /\ UNCHANGED failed)) /\ UNCHANGED application

Server == Foe(FileServer) \/ Soe(Drive) \/ Eoe(Stack) \/ Coe(InfoServer)

Outside(action) == action /\ UNCHANGED <<application, failed>>

Next ==
  \/ /\ failed < MaxFailed /\ ~silent /\ doubled = 0
     /\ \E function \in application, i \in Items : \E size \in Rooms[i] :
          Outside(Call(function, i, size))
  \/ Master
  \/ Outside(Server)
  \/ Outside(Shared(Slave /\ UNCHANGED callvars))

Spec == Init /\ [][Next]_vars

(* A call goes on; the slave does something as long as there is something  *)
(* to do and it has not fallen silent.                                     *)
SlaveWorks ==
  \/ Outside(Server)
  \/ Outside(Shared((TakeCopy \/ PlaceReply) /\ UNCHANGED callvars))

Fairness == WF_vars(Master) /\ WF_vars(SlaveWorks)

FairSpec == Spec /\ Fairness

-----------------------------------------------------------------------------
(* What CoE reports as sent has arrived, and the sizes of process data it  *)
(* finds are the ones in the dictionary of the slave.                      *)
CoeIsTrue == PdoArrives /\ PdoMapIsTrue

(* Whatever fails on its way, a call gives back every mailbox that it has  *)
(* taken, once, as ecx_mbxreceive asks for (ec_main.c:1592), but for two   *)
(* places of ec_coe.c: what TxPDO and the three information services have  *)
(* drained before they post a request goes back twice, and what an         *)
(* ecx_SDOread of the PDO mapping has drained before it finds the pool     *)
(* empty never does.                                                       *)
NoMailboxKept == pc = "idle" => pool = PoolSize + doubled - kept

(* A call ends in a finite number of steps, whatever is lost, as long as   *)
(* the slave is not busy for ever; no retry goes on without end.           *)
CallEnds == pc # "idle" ~> pc \in {"idle", "crashed"}

=============================================================================
