------------------------------- MODULE PdoMap -------------------------------
(***************************************************************************)
(* How many bits of process data a slave has, from its object dictionary   *)
(* (native/soem/src/ec_coe.c: ecx_readPDOmap and ecx_readPDOassign, and    *)
(* ecx_readPDOmapCA and ecx_readPDOassignCA, which read whole objects).    *)
(* The types of the sync managers say which ones carry process data, the   *)
(* assignment of each names its PDOs, and the PDOs their entries.  Each of *)
(* these is read by ecx_SDOread, whose transfer is SdoTransfer's; here it  *)
(* is one step, with what it does to the mailboxes: it drains what an      *)
(* earlier request has left, and when it fails may leave an answer itself, *)
(* or keep what it has drained.  A read that fails leaves 0 in its         *)
(* variable and the loops go on.                                           *)
(*                                                                         *)
(* The loops are nested, and what is read decides how far the inner ones   *)
(* go: todo are the reads that are still to come, as far as they are known.*)
(***************************************************************************)
EXTENDS MbxCall

CONSTANTS
  Mappings,  \* dictionaries of slaves
  MaxSM      \* 8: sync managers that are looked at

(* In a dictionary, types are the sync manager types as it says, real what *)
(* they should be, pdos the assigned PDOs of each sync manager (NoPdo for  *)
(* an index of 0), and bits the lengths of the entries of a PDO.           *)
NoPdo == "none"

ASSUME PdoMapAssumption ==
  \A m \in Mappings :
    /\ DOMAIN m.types = DOMAIN m.real /\ DOMAIN m.pdos = DOMAIN m.real
    /\ \A sm \in DOMAIN m.types : {m.types[sm], m.real[sm]} \subseteq 0 .. 4

VARIABLES
  mapping,  \* the dictionary of the slave
  todo,     \* the reads that are known to come
  smtype,   \* slavelist[Slave].SMtype, 0 where it was not read
  smbits,   \* Tsize of each sync manager
  shift,    \* SMt_bug_add
  kept      \* mailboxes that were drained and never given back (history)

pdomapvars == <<mapping, todo, smtype, smbits, shift, kept>>

Outputs == 3
Inputs == 4
SMs == 0 .. MaxSM - 1
Unused == [sm \in SMs |-> 0]

PdoMapInit ==
  /\ mapping \in {CHOOSE m \in Mappings : TRUE}
  /\ todo = <<>> /\ smtype = Unused /\ smbits = Unused /\ shift = 0
  /\ kept = 0

PdoCalls == {"pdomap", "pdomapca"}

ReadOf(kind) == [kind |-> kind]
ReadOfSM(kind, sm) == [kind |-> kind, sm |-> sm]
ReadOfPdo(kind, sm, pdo) == [kind |-> kind, sm |-> sm, pdo |-> pdo]

PdoBegin(function, i, first) ==
  /\ Begin(function, i, 0, "sdoread")
  /\ mapping' \in Mappings
  /\ todo' = <<ReadOf(first)>>
  /\ UNCHANGED <<smtype, smbits, shift, kept>>

readPDOmap(i) == PdoBegin("pdomap", i, "count")
readPDOmapCA(i) == PdoBegin("pdomapca", i, "types")

-----------------------------------------------------------------------------
(* The first read of todo succeeds, and makes others necessary.            *)
Reading(kind) == pc = "sdoread" /\ todo # <<>> /\ Head(todo).kind = kind

First == Head(todo)

Then(reads) == todo' = reads \o Tail(todo)

(* The slave has nothing else to do; what it had placed is drained.        *)
Answered ==
  /\ ~silent /\ inbox = Nothing /\ work = Nothing
  /\ outbox' = Nothing
  /\ UNCHANGED <<pc, mailboxes, inbox, work, lastcnt, silent, faults, callvars, mapping, kept>>

SizesKept == UNCHANGED <<smtype, smbits, shift>>

(* The sync managers behind those of the mailboxes, if there are any.      *)
Numbered(m) == Least(Cardinality(DOMAIN m.types), MaxSM)
SMsOf(m) == [n \in 1 .. Numbered(m) - 2 |-> n + 1]

ReadCount ==
  /\ Reading("count") /\ Answered
  /\ Then([n \in DOMAIN SMsOf(mapping) |-> ReadOfSM("type", SMsOf(mapping)[n])])
  /\ SizesKept

(* Mutant: only the sync manager that shows the bug is corrected.          *)
ShiftOfSM2(sm, type) == IF sm = 2 /\ type = 2 THEN 1 ELSE 0

(* A slave that counts its types from 0 is corrected, and one that does    *)
(* not know the types of its sync managers 2 and 3.                        *)
ShiftOf(sm, type) == IF sm = 2 /\ type = 2 THEN 1 ELSE shift

Shifted(type, by) == IF type = 0 THEN 0 ELSE type + by

Corrected(sm, type, by) ==
  IF Shifted(type, by) = 0 /\ sm \in {2, 3} THEN sm + 1 ELSE Shifted(type, by)

TypeIs(sm, type) ==
  LET by == ShiftOf(sm, type)
      right == Corrected(sm, type, by)
  IN  /\ shift' = by
      /\ smtype' = [smtype EXCEPT ![sm] = right]
      /\ Then(IF right \in {Outputs, Inputs} THEN <<ReadOfSM("assign", sm)>> ELSE <<>>)
      /\ UNCHANGED smbits

ReadType == Reading("type") /\ Answered /\ TypeIs(First.sm, mapping.types[First.sm])

ReadAssign ==
  /\ Reading("assign") /\ Answered
  /\ Then([n \in DOMAIN mapping.pdos[First.sm] |->
             ReadOfPdo("index", First.sm, mapping.pdos[First.sm][n])])
  /\ SizesKept

ReadIndex ==
  /\ Reading("index") /\ Answered
  /\ Then(IF First.pdo = NoPdo THEN <<>> ELSE <<ReadOfPdo("entries", First.sm, First.pdo)>>)
  /\ SizesKept

ReadEntries ==
  /\ Reading("entries") /\ Answered
  /\ Then([n \in DOMAIN mapping.bits[First.pdo] |->
             [kind |-> "entry", sm |-> First.sm, bits |-> mapping.bits[First.pdo][n]]])
  /\ SizesKept

ReadEntry ==
  /\ Reading("entry") /\ Answered
  /\ smbits' = [smbits EXCEPT ![First.sm] = @ + First.bits]
  /\ Then(<<>>)
  /\ UNCHANGED <<smtype, shift>>

-----------------------------------------------------------------------------
(* Complete access.  A sync manager of type 0 is not corrected.            *)

PdoBits(m, pdo) == FoldLeft(+, 0, m.bits[pdo])

TypeCA(m, sm) ==
  Shifted(m.types[sm], IF 2 \in DOMAIN m.types /\ m.types[2] = 2 THEN 1 ELSE 0)

ReadTypesCA ==
  /\ Reading("types") /\ Answered
  /\ LET all == SMsOf(mapping)
         Mapped(sm) == TypeCA(mapping, sm) \in {Outputs, Inputs}
         mapped == SelectSeq(all, Mapped)
     IN  /\ smtype' = [sm \in SMs |->
                         IF sm \in ToSet(all) THEN TypeCA(mapping, sm) ELSE smtype[sm]]
         /\ Then([n \in DOMAIN mapped |-> ReadOfSM("assignca", mapped[n])])
  /\ UNCHANGED <<smbits, shift>>

ReadAssignCA ==
  /\ Reading("assignca") /\ Answered
  /\ LET named == SelectSeq(mapping.pdos[First.sm], LAMBDA pdo : pdo # NoPdo)
     IN  Then([n \in DOMAIN named |-> ReadOfPdo("pdoca", First.sm, named[n])])
  /\ SizesKept

ReadPdoCA ==
  /\ Reading("pdoca") /\ Answered
  /\ smbits' = [smbits EXCEPT ![First.sm] = @ + PdoBits(mapping, First.pdo)]
  /\ Then(<<>>)
  /\ UNCHANGED <<smtype, shift>>

-----------------------------------------------------------------------------
(* Only a read that fails late leaves this.                                *)
SdoAnswer == [cmd |-> "sdo"]

(* The request or its answer is lost; or the answer is still to come when  *)
(* the read gives up; or it is taken for the one to a request before,      *)
(* which the slave had not done with; or the slave is silent.              *)
ReadFails ==
  /\ pc = "sdoread" /\ todo # <<>>
  /\ \/ silent /\ UNCHANGED <<work, outbox, faults>>
     \/ /\ ~silent /\ outbox' = Nothing
        /\ \/ (Fault("request") \/ Fault("reply")) /\ UNCHANGED work
           \/ work = Nothing /\ (Fault("acknowledge") \/ Fault("late")) /\ work' = SdoAnswer
           \/ (inbox # Nothing \/ work # Nothing) /\ Noted("late") /\ UNCHANGED work
  /\ Then(<<>>) /\ SizesKept
  /\ UNCHANGED <<pc, mailboxes, inbox, lastcnt, silent, callvars, mapping, kept>>

(* The pool is empty when the mailbox has been drained: ecx_SDOread        *)
(* returns at once, and does not give back what it has drained.  Its       *)
(* result is that of the drain: with a mailbox it looks like a success     *)
(* that has read 0.                                                        *)
ReadKeeps ==
  /\ pc = "sdoread" /\ todo # <<>>
  /\ Fault("pool")
  /\ LET drained == IF silent THEN Nothing ELSE outbox
     IN  /\ pool' = pool - Held(drained) /\ kept' = kept + Held(drained)
         /\ outbox' = IF silent THEN outbox ELSE Nothing
         /\ IF drained # Nothing /\ First.kind = "type"
            THEN TypeIs(First.sm, 0)
            ELSE Then(<<>>) /\ SizesKept
  /\ UNCHANGED <<pc, mbxout, mbxin, mbxcnt, inbox, work, lastcnt, silent, callvars, mapping>>

BitsOf(type) ==
  FoldSet(LAMBDA sm, sum : sum + smbits[sm], 0, {sm \in SMs : smtype[sm] = type})

(* The mapping is successful when any bits were found.                     *)
EndOfMap ==
  /\ pc = "sdoread" /\ todo = <<>>
  /\ Conclude(BitsOf(Outputs) + BitsOf(Inputs) > 0, "done")
  /\ UNCHANGED pdomapvars

PdoReturn ==
  /\ op \in PdoCalls /\ Return
  /\ smtype' = Unused /\ smbits' = Unused /\ shift' = 0
  /\ UNCHANGED <<mapping, todo, kept>>

PdoMaster ==
  \/ ReadCount \/ ReadType \/ ReadAssign \/ ReadIndex \/ ReadEntries \/ ReadEntry
  \/ ReadTypesCA \/ ReadAssignCA \/ ReadPdoCA
  \/ ReadFails \/ ReadKeeps \/ EndOfMap

-----------------------------------------------------------------------------
TrueBitsOfSM(sm) ==
  FoldLeft(LAMBDA sum, pdo : IF pdo = NoPdo THEN sum ELSE sum + PdoBits(mapping, pdo),
           0, mapping.pdos[sm])

TrueBits(type) ==
  FoldSet(LAMBDA sm, sum : sum + TrueBitsOfSM(sm), 0,
          {sm \in DOMAIN mapping.real : sm > 1 /\ mapping.real[sm] = type})

(* Complete access trusts a slave that does not know its types.            *)
TypesKnown ==
  op = "pdomapca" =>
    \A sm \in DOMAIN mapping.types : mapping.types[sm] = 0 => mapping.real[sm] \in 0 .. 1

(* The sizes found for outputs and inputs are those the slave has, in      *)
(* spite of wrong sync manager types, if every read succeeds.  A read that *)
(* fails makes the mapping smaller, never larger, though it may count      *)
(* inputs as outputs, and the call reports success all the same.  Unless   *)
(* an answer comes late: ecx_SDOread compares the index and not the        *)
(* subindex, and takes it for the one to the next request.                 *)
PdoMapIsTrue ==
  pc = "done" /\ op \in PdoCalls /\ TypesKnown /\ ~silent
    /\ Without({"late", "acknowledge"}) =>
    /\ BitsOf(Outputs) + BitsOf(Inputs) <= TrueBits(Outputs) + TrueBits(Inputs)
    /\ Without({"request", "reply", "pool"}) =>
         BitsOf(Outputs) = TrueBits(Outputs) /\ BitsOf(Inputs) = TrueBits(Inputs)

=============================================================================
