-------------------------------- MODULE Bus --------------------------------
(***************************************************************************)
(* The devices on the wire and the datagrams that read and write their     *)
(* registers (native/soem/src/ec_base.c).  A datagram passes every device; *)
(* a broadcast reaches all, a position command the n-th, a configured      *)
(* address all that carry it.  The frame may be lost before it reaches     *)
(* them, or with its answer, in spite of all retransmissions: then the     *)
(* primitive returns EC_NOFRAME and leaves the caller's variable alone.    *)
(*                                                                         *)
(* A device keeps its registers while its cable is unplugged, and loses    *)
(* them when it is switched off and on.  The devices are external.         *)
(***************************************************************************)
EXTENDS Integers, SequencesExt

CONSTANTS
  SlaveCount,  \* slavecount: device s was slave s when the bus was configured
  Strangers,   \* other devices that may be plugged in
  MaxLost,     \* frames that are lost
  MaxChanges   \* times a device is unplugged, plugged in, or restarted

ASSUME BusAssumption ==
  /\ SlaveCount \in Nat \ {0}
  /\ Strangers \cap 0 .. SlaveCount + 1 = {}
  /\ MaxLost \in Nat /\ MaxChanges \in Nat

VARIABLES
  wire,    \* the devices in the order a frame meets them
  reg,     \* reg[d]: the registers of device d
  lost,    \* frames lost so far (history)
  changes  \* changes of the wiring so far (history)

busvars == <<wire, reg, lost, changes>>

Slaves == 1 .. SlaveCount
Devices == Slaves \cup Strangers
NoAddress == 0
TempNode == SlaveCount + 1   \* EC_TEMPNODE
NoFrame == -1                \* EC_NOFRAME

INIT == 1
PRE_OP == 2
SAFE_OP == 4
OPERATIONAL == 8
STATE_ERROR == 16

(* al and error: AL status; want: AL control, 0 once it is dealt with.     *)
Reset == [adr |-> NoAddress, al |-> INIT, error |-> FALSE, want |-> 0]

BusInit ==
  /\ wire = [s \in Slaves |-> s]
  /\ reg = [d \in Devices |->
              IF d \in Slaves THEN [Reset EXCEPT !.adr = d, !.al = OPERATIONAL]
              ELSE Reset]
  /\ lost = 0 /\ changes = 0

-----------------------------------------------------------------------------
(* The way of a frame, all retransmissions included.                       *)
Ways ==
  {"answered"} \cup IF lost < MaxLost THEN {"lost", "unanswered"} ELSE {}

Counted(way) == lost' = IF way = "answered" THEN lost ELSE lost + 1

Everyone == Range(wire)
Configured(adr) == {d \in Everyone : reg[d].adr = adr}
Position(p) == {wire[q] : q \in DOMAIN wire \cap {p}}

Wkc(way, reached) == IF way = "answered" THEN Cardinality(reached) ELSE NoFrame

(* ecx_BWR, ecx_APWR, ecx_FPWR                                             *)
Write(way, reached, register, value) ==
  /\ Counted(way)
  /\ reg' = [d \in Devices |->
               IF d \in reached /\ way # "lost" THEN [reg[d] EXCEPT ![register] = value]
               ELSE reg[d]]

(* ecx_APRD, ecx_FPRD: of several devices the last one on the wire leaves  *)
(* its data in the datagram; without any, or without an answer, the caller *)
(* keeps what it had.                                                      *)
Answering(reached) == wire[CHOOSE p \in DOMAIN wire :
                             /\ wire[p] \in reached
                             /\ \A q \in p + 1 .. Len(wire) : wire[q] \notin reached]

AlStatus(d) == reg[d].al + IF reg[d].error THEN STATE_ERROR ELSE 0

ReadAlStatus(way, reached, kept) ==
  IF Wkc(way, reached) > 0 THEN AlStatus(Answering(reached)) ELSE kept

ReadAddress(way, reached, kept) ==
  IF Wkc(way, reached) > 0 THEN reg[Answering(reached)].adr ELSE kept

(* ecx_BRD of the AL status: the states whose bits the answer has.         *)
ReadAllStates(way) ==
  IF Wkc(way, Everyone) > 0 THEN {reg[d].al : d \in Everyone} ELSE {}

ReadAnyError(way) ==
  Wkc(way, Everyone) > 0 /\ \E d \in Everyone : reg[d].error

-----------------------------------------------------------------------------
(* The devices.  One that is told to change its state does so, or refuses  *)
(* and raises its error flag; up only one state at a time.                 *)
Set(d, r) == reg' = [reg EXCEPT ![d] = r] /\ UNCHANGED <<wire, lost, changes>>

Obey(d) ==
  /\ reg[d].want # 0
  /\ reg[d].want <= 2 * reg[d].al
  /\ Set(d, [reg[d] EXCEPT !.al = reg[d].want, !.error = FALSE, !.want = 0])

Refuse(d) ==
  /\ reg[d].want > INIT
  /\ Set(d, [reg[d] EXCEPT !.error = TRUE, !.want = 0])

(* The watchdog of the process data.                                       *)
FallBack(d) ==
  /\ reg[d].al = OPERATIONAL
  /\ Set(d, [reg[d] EXCEPT !.al = SAFE_OP, !.error = TRUE])

Change ==
  /\ changes < MaxChanges
  /\ changes' = changes + 1
  /\ UNCHANGED lost
  /\ \/ \E p \in DOMAIN wire : wire' = RemoveAt(wire, p) /\ UNCHANGED reg
     \/ \E d \in Devices \ Everyone, p \in 1 .. Len(wire) + 1 :
          wire' = InsertAt(wire, p, d) /\ UNCHANGED reg
     \/ \E d \in Devices : reg' = [reg EXCEPT ![d] = Reset] /\ UNCHANGED wire

Device == \E d \in Devices : Obey(d) \/ Refuse(d) \/ FallBack(d)

=============================================================================
