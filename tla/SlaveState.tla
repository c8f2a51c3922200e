----------------------------- MODULE SlaveState -----------------------------
(***************************************************************************)
(* The states of the slaves: reading, writing and awaiting them            *)
(* (native/soem/src/ec_main.c: ecx_FPRD_multi, ecx_readstate,              *)
(* ecx_writestate, ecx_statecheck), finding a slave again that lost its    *)
(* address and configuring it anew (ec_config.c: ecx_recover_slave,        *)
(* ecx_reconfig_slave).  One thread makes one call after the other, while  *)
(* devices change state, are unplugged, plugged in and restarted.          *)
(***************************************************************************)
EXTENDS Bus

CONSTANTS
  Identity,    \* Identity[d]: aliasadr, eep_id, eep_man, eep_rev of device d
  PerFrame,    \* MAX_FPRD_MULTI
  Requests     \* the states the application writes and awaits

ASSUME SlaveStateAssumption ==
  /\ Identity \in [Devices -> [{"alias", "id", "man", "rev"} -> Int]]
  /\ PerFrame \in Nat \ {0}
  /\ Requests \subseteq {INIT, PRE_OP, SAFE_OP, OPERATIONAL}

VARIABLES
  pc,         \* the next datagram of the call, "idle" between calls
  op,         \* the function that runs
  slave,      \* its argument; in ecx_readstate the first of the group
  reqstate,   \* the state awaited or, in ecx_readstate, OPERATIONAL
  after,      \* where ecx_reconfig_slave goes on after ecx_statecheck
  slavelist,  \* slavelist[s].state, with the error flag, as far as this
              \* call has set it; 0 is all slaves
  ret,        \* what the call returns, lowest while ecx_readstate runs
  met,        \* devices that were in reqstate during the call (history)
  strange,    \* a stranger was on the wire during the call (history)
  absent      \* a slave was not on the wire during the call (history)

callvars == <<pc, op, slave, reqstate, after, slavelist, ret>>
seenvars == <<met, strange, absent>>
statevars == <<busvars, callvars, seenvars>>

StateInit ==
  /\ BusInit
  /\ pc = "idle" /\ op = "none" /\ slave = 0 /\ reqstate = OPERATIONAL /\ after = "returned"
  /\ slavelist = [s \in 0 .. SlaveCount |-> 0]
  /\ ret = 0
  /\ met = {} /\ strange = FALSE /\ absent = FALSE

Goto(label) == pc' = label

Returning(value) == Goto("returned") /\ ret' = value

Keep == UNCHANGED <<op, slave, reqstate, after, slavelist, ret>>
KeepBus == UNCHANGED <<wire, changes>>
Sending(way, reached, register, value) ==
  Write(way, reached, register, value) /\ KeepBus
Reading(way) == Counted(way) /\ KeepBus /\ UNCHANGED reg

Begin(function, s, state, first) ==
  /\ pc = "idle"
  /\ op' = function /\ slave' = s /\ reqstate' = state /\ after' = "returned"
  /\ Goto(first)
  /\ UNCHANGED <<busvars, slavelist, ret>>

-----------------------------------------------------------------------------
(* ecx_readstate: the whole bus in one datagram when all slaves answer and *)
(* are in one state without error.                                         *)
readstate == Begin("readstate", 1, OPERATIONAL, "broadcast")

(* Mutant: that all slaves answered is not checked.                        *)
AllInOneStateUncounted(way) ==
  /\ ~ReadAnyError(way)
  /\ Cardinality(ReadAllStates(way)) = 1

AllInOneState(way) ==
  /\ ~ReadAnyError(way)
  /\ Cardinality(ReadAllStates(way)) = 1
  /\ Wkc(way, Everyone) >= SlaveCount

ReadBroadcast ==
  /\ pc = "broadcast"
  /\ \E way \in Ways :
       LET states == ReadAllStates(way)
           common == CHOOSE state \in states : TRUE
       IN  /\ Reading(way)
           /\ IF AllInOneState(way)
              THEN /\ slavelist' = [s \in 0 .. SlaveCount |-> common]
                   /\ Returning(common)
              ELSE /\ slavelist' = IF Cardinality(states) = 1
                                   THEN [slavelist EXCEPT ![0] = common] ELSE slavelist
                   /\ ret' = 255
                   /\ Goto("group")
  /\ UNCHANGED <<op, slave, reqstate, after>>

(* ecx_FPRD_multi for one group: a frame that is lost, like a device that  *)
(* does not answer, leaves the state 0.                                    *)
GroupEnd == IF SlaveCount - slave >= PerFrame THEN slave + PerFrame - 1 ELSE SlaveCount

ReadGroup ==
  /\ pc = "group"
  /\ \E way \in Ways :
       LET group == slave .. GroupEnd
           rval == [s \in group |-> ReadAlStatus(way, Configured(s), 0)]
           lowest == Min({ret} \cup {rval[s] % STATE_ERROR : s \in group})
       IN  /\ Reading(way)
           /\ slavelist' = [s \in 0 .. SlaveCount |->
                              IF s \in group THEN rval[s]
                              ELSE IF s = 0 /\ GroupEnd = SlaveCount THEN lowest
                              ELSE slavelist[s]]
           /\ slave' = GroupEnd + 1
           /\ IF GroupEnd = SlaveCount THEN Returning(lowest)
              ELSE Goto("group") /\ ret' = lowest
  /\ UNCHANGED <<op, reqstate, after>>

(* soem_master_write_state: the requested state goes through slavelist.    *)
writestate(s, state) ==
  /\ pc = "idle"
  /\ Goto("returned")
  /\ op' = "writestate" /\ slave' = s
  /\ slavelist' = [slavelist EXCEPT ![s] = state]
  /\ \E way \in Ways :
       Sending(way, IF s = 0 THEN Everyone ELSE Configured(s), "want", state)
  /\ UNCHANGED <<reqstate, after, ret>>

(* ecx_statecheck; the broadcast reads the states of all slaves at once    *)
(* and does not look how many of them answer.                              *)
statecheck(s, state) == Begin("statecheck", s, state, "check")

Found(way) ==
  IF slave # 0 THEN ReadAlStatus(way, Configured(slave), 0) % STATE_ERROR
  ELSE LET bit(state) == IF state \in ReadAllStates(way) THEN state ELSE 0
       IN  bit(INIT) + bit(PRE_OP) + bit(SAFE_OP) + bit(OPERATIONAL)

FoundError(way) ==
  IF slave # 0 THEN ReadAlStatus(way, Configured(slave), 0) >= STATE_ERROR
  ELSE ReadAnyError(way)

(* The timeout may end the loop after any answer.                          *)
Check ==
  /\ pc = "check"
  /\ \E way \in Ways :
       /\ Reading(way)
       /\ \/ Found(way) # reqstate /\ Keep /\ UNCHANGED pc
          \/ /\ slavelist' = [slavelist EXCEPT ![slave] =
                                Found(way) + IF FoundError(way) THEN STATE_ERROR ELSE 0]
             /\ ret' = Found(way)
             /\ Goto(IF Found(way) = reqstate THEN after ELSE "returned")
             /\ UNCHANGED <<op, slave, reqstate, after>>

-----------------------------------------------------------------------------
(* ecx_recover_slave: which address does the device in the place of the    *)
(* slave have?                                                             *)
recover(s) == Begin("recover", s, reqstate, "position")

ReadPosition ==
  /\ pc = "position"
  /\ \E way \in Ways :
       LET there == Position(slave)
           readadr == ReadAddress(way, there, -2)   \* 0xfffe
       IN  /\ Reading(way)
           /\ \/ readadr = slave /\ Returning(1)
              \/ readadr = NoAddress /\ Goto("clear") /\ UNCHANGED ret
              \/ readadr \notin {slave, NoAddress} /\ Returning(0)
  /\ UNCHANGED <<op, slave, reqstate, after, slavelist>>

(* Whoever has the temporary address loses it; the frame that says so is   *)
(* sent and not waited for.                                                *)
ClearTemporary ==
  /\ pc = "clear"
  /\ \E way \in Ways : Sending(way, Configured(TempNode), "adr", NoAddress)
  /\ Goto("temporary")
  /\ Keep

SetTemporary ==
  /\ pc = "temporary"
  /\ \E way \in Ways :
       /\ Sending(way, Position(slave), "adr", TempNode)
       /\ Goto(IF Wkc(way, Position(slave)) > 0 THEN "alias" ELSE "giveup")
  /\ Keep

(* Who is at the temporary address?  The alias is in a register; product,  *)
(* vendor and revision are in the EEPROM, which the master owns.  One that *)
(* does not acknowledge reads as 0, and so does everything when there is   *)
(* no answer; but if the frame with the command was lost, the data may be  *)
(* those of a read before.                                                 *)
SiiFields == {"id", "man", "rev"}
Fields == {"alias"} \cup SiiFields
AfterField == [alias |-> "id", id |-> "man", man |-> "rev", rev |-> "address"]

Answers(way, field) ==
  LET there == Configured(TempNode)
      device == Identity[Answering(there)]
  IN  (IF Wkc(way, there) > 0 THEN {device[field]} ELSE {0})
        \cup (IF field = "alias" \/ there = {} THEN {}
              ELSE IF way = "answered" THEN {0}
              ELSE {device[word] : word \in SiiFields})

(* Mutant: who is there is not asked.                                      *)
IdentifyAnyone ==
  /\ pc \in Fields
  /\ \E way \in Ways : Reading(way)
  /\ Goto("address")
  /\ Keep

Identify ==
  /\ pc \in Fields
  /\ \E way \in Ways : \E answer \in Answers(way, pc) :
       /\ Reading(way)
       /\ Goto(IF answer = Identity[slave][pc] THEN AfterField[pc] ELSE "giveup")
  /\ Keep

GiveAddress ==
  /\ pc = "address"
  /\ \E way \in Ways :
       /\ Returning(Wkc(way, Configured(TempNode)))
       /\ Sending(way, Configured(TempNode), "adr", slave)
  /\ UNCHANGED <<op, slave, reqstate, after, slavelist>>

GiveUp ==
  /\ pc = "giveup"
  /\ \E way \in Ways : Sending(way, Configured(TempNode), "adr", NoAddress)
  /\ Returning(0)
  /\ UNCHANGED <<op, slave, reqstate, after, slavelist>>

-----------------------------------------------------------------------------
(* ecx_reconfig_slave.  Only the answer to its first datagram counts; the  *)
(* others show in the state that is awaited next.  The sync managers and   *)
(* FMMUs it writes, and what the hooks do, are not part of the model.      *)
reconfig(s) == Begin("reconfig", s, reqstate, "init")

Request(state, next) ==
  \E way \in Ways :
    /\ Sending(way, Configured(slave), "want", state)
    /\ IF state = INIT /\ Wkc(way, Configured(slave)) <= 0
       THEN Returning(0) /\ UNCHANGED <<reqstate, after>>
       ELSE Goto("check") /\ reqstate' = state /\ after' = next /\ UNCHANGED ret

Reconfigure ==
  /\ \/ pc = "init" /\ Request(INIT, "preop")
     \/ pc = "preop" /\ Request(PRE_OP, "safeop")
     \/ pc = "safeop" /\ Request(SAFE_OP, "returned")
  /\ UNCHANGED <<op, slave, slavelist>>

-----------------------------------------------------------------------------
Return ==
  /\ pc = "returned"
  /\ Goto("idle")
  /\ op' = "none" /\ slave' = 0 /\ reqstate' = OPERATIONAL /\ after' = "returned" /\ ret' = 0
  /\ slavelist' = [s \in 0 .. SlaveCount |-> 0]
  /\ UNCHANGED busvars

(* An application calls some of the functions.                             *)
StateCall(functions, slaves) ==
  \/ "readstate" \in functions /\ readstate
  \/ \E s \in slaves \cup {0}, state \in Requests :
       \/ "writestate" \in functions /\ writestate(s, state)
       \/ "statecheck" \in functions /\ statecheck(s, state)
  \/ \E s \in slaves :
       \/ "recover" \in functions /\ recover(s)
       \/ "reconfig" \in functions /\ reconfig(s)

Recovery ==
  ReadPosition \/ ClearTemporary \/ SetTemporary \/ Identify \/ GiveAddress \/ GiveUp

Work == ReadBroadcast \/ ReadGroup \/ Check \/ Recovery \/ Reconfigure \/ Return

(* What has been true at some moment of the call, or of the wait in it.    *)
Onlooker ==
  LET earlier == pc # "idle" /\ reqstate' = reqstate
      now == pc' # "idle"
  IN  /\ met' = (IF earlier THEN met ELSE {})
                \cup {d \in Devices : now /\ reg'[d].al = reqstate' /\ d \in Range(wire')}
      /\ strange' = (now /\ ((earlier /\ strange) \/ Range(wire') \cap Strangers # {}))
      /\ absent' = (now /\ ((earlier /\ absent) \/ ~(Slaves \subseteq Range(wire'))))

StateNext(functions, slaves) ==
  /\ \/ StateCall(functions, slaves)
     \/ Work
     \/ (Device \/ Change) /\ UNCHANGED callvars
  /\ Onlooker

-----------------------------------------------------------------------------
(* A field of s that device d may be taken to have although it has another *)
(* value.  It takes a lost frame, or a device that leaves and comes back   *)
(* while it is asked, for a register that is not 0 to read as 0, or for a  *)
(* word to read as another one; an EEPROM that refuses a read reads as 0   *)
(* in any case.                                                            *)
Mistakable(d, s, field) ==
  \/ /\ Identity[s][field] = 0
     /\ field \in SiiFields \/ lost > 0 \/ changes > 2
  \/ /\ field \in SiiFields /\ lost > 0
     /\ \E word \in SiiFields : Identity[s][field] = Identity[d][word]

PassesFor(d, s) ==
  \A field \in Fields : Identity[d][field] = Identity[s][field] \/ Mistakable(d, s, field)

(* Every device that has the address of a slave is that slave, or passes   *)
(* for it: each field by itself agrees, or may be mistaken.  It takes two  *)
(* lost frames, an answer to the new address and a clearing, or a device   *)
(* that is plugged in again with the temporary address while another one   *)
(* is identified, for ecx_recover_slave to give the address to a second    *)
(* device.                                                                 *)
Traceable == lost < 2 /\ changes < 4

NoStrangerAddressed ==
  Traceable => \A d \in Devices :
    reg[d].adr \in Slaves => PassesFor(d, reg[d].adr)

(* What is reported was so: a slave that ecx_readstate, ecx_statecheck or  *)
(* ecx_reconfig_slave finds in a state was in it at some moment of the     *)
(* call, or a device that passes for it was.  The broadcasts count devices *)
(* at most, and ecx_statecheck of all slaves not even these: they are      *)
(* right as long as no stranger, and here no absence of a slave, goes      *)
(* unnoticed.                                                              *)
ReportedIn(s) ==
  CASE op = "readstate" -> ~strange /\ slavelist[s] % STATE_ERROR = reqstate
    [] op \in {"statecheck", "reconfig"} /\ slave = 0 -> ~absent /\ ret = reqstate
    [] op \in {"writestate", "recover"} -> FALSE
    [] OTHER -> s = slave /\ ret = reqstate

ReportedStateWasSeen ==
  pc = "returned" => \A s \in Slaves : ReportedIn(s) => \E d \in met : PassesFor(d, s)

=============================================================================
