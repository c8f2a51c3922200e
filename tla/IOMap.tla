------------------------------- MODULE IOMap -------------------------------
(***************************************************************************)
(* The process image of group 0 (native/soem/src/ec_config.c): outputs,    *)
(* inputs and mailbox status bytes of the slaves get logical addresses one *)
(* after the other, and the image is cut into segments, each the data of   *)
(* one datagram.  Along the way the working counter to expect is counted.  *)
(*                                                                         *)
(* One step is one slave or one turn of the loop that cuts it.  Slaves are *)
(* byte oriented, and neither packedMode nor overlappedMode is set: the    *)
(* wrapper leaves both FALSE.  Addresses start at logstartaddr = 0, and a  *)
(* slave with a mailbox (mbx: mbx_l > 0) has an FMMU left for its status.  *)
(***************************************************************************)
EXTENDS Integers, Sequences

CONSTANTS
  Networks,    \* the networks to map: sequences of slaves
  MaxData,     \* EC_MAXLRWDATA, the most data of one datagram
  DCDatagram,  \* EC_FIRSTDCDATAGRAM, what the clock takes of the first one
  MaxSegments  \* EC_MAXIOSEGMENTS

ASSUME IOMapAssumption ==
  /\ Networks \subseteq Seq([Obytes : Nat, Ibytes : Nat, mbx : BOOLEAN])
  /\ <<>> \notin Networks
  /\ MaxData \in Nat
  /\ DCDatagram \in 1 .. MaxData - 1
  /\ MaxSegments \in Nat \ {0}

VARIABLES
  slavelist,       \* the slaves of the segment
  pass,            \* which of the three loops over the slaves runs
  slave,           \* the slave the loop has come to
  cutting,         \* whether this slave is being cut into segments
  LogAddr,         \* next free logical address
  segmentsize,     \* size of the segment that is being filled
  segmentmaxsize,  \* what this segment can hold
  IOsegment,       \* sizes of the segments
  fmmu,            \* fmmu[kind][s]: address of the data of slave s, or None
  group            \* the other fields of grouplist[0]

mapvars == <<slavelist, pass, slave, cutting, LogAddr, segmentsize,
             segmentmaxsize, IOsegment, fmmu, group>>

None == -1
Kinds == {"outputs", "inputs", "mbxstatus"}
GroupFields == {"Obytes", "Ibytes", "mbxstatuslength", "Isegment", "Ioffset",
                "outputsWKC", "inputsWKC"}

Slaves == DOMAIN slavelist

MapTypeOK ==
  /\ slavelist \in Networks
  /\ pass \in Kinds \cup {"mapped"}
  /\ slave \in 1 .. Len(slavelist) + 1
  /\ cutting \in BOOLEAN
  /\ {LogAddr, segmentsize} \subseteq Nat
  /\ segmentmaxsize \in {MaxData, MaxData - DCDatagram}
  /\ IOsegment \in Seq(Nat)
  /\ fmmu \in [Kinds -> [Slaves -> Nat \cup {None}]]
  /\ group \in [GroupFields -> Nat]

FirstSize == MaxData - DCDatagram

MapInit ==
  /\ slavelist \in Networks
  /\ pass = "outputs"
  /\ slave = 1
  /\ cutting = FALSE
  /\ LogAddr = 0
  /\ segmentsize = 0
  /\ segmentmaxsize = FirstSize
  /\ IOsegment = <<>>
  /\ fmmu = [k \in Kinds |-> [s \in Slaves |-> None]]
  /\ group = [f \in GroupFields |-> 0]

(* What the FMMUs of a slave take of the logical addresses, one or more of *)
(* them until all its bytes are mapped.                                    *)
Bytes(s) == IF pass = "outputs" THEN slavelist[s].Obytes
                                ELSE slavelist[s].Ibytes

Mapping == pass \in {"outputs", "inputs"} /\ slave \in Slaves

-----------------------------------------------------------------------------
(* A slave without data of this kind.                                      *)
SkipSlave ==
  /\ Mapping
  /\ Bytes(slave) = 0
  /\ slave' = slave + 1
  /\ UNCHANGED <<slavelist, pass, cutting, LogAddr, segmentsize,
                 segmentmaxsize, IOsegment, fmmu, group>>

(* A slave whose data fit into a segment but not behind what the current   *)
(* one holds starts a new segment.                                         *)
Closes(diff) ==
  /\ segmentsize + diff > segmentmaxsize
  /\ diff <= segmentmaxsize
  /\ Len(IOsegment) < MaxSegments

(* The first FMMU of the slave starts at the next free address.            *)
Placed == [fmmu EXCEPT ![pass][slave] = LogAddr]

AddSlave ==
  /\ Mapping /\ ~cutting
  /\ Bytes(slave) > 0
  /\ LET diff == Bytes(slave)
     IN  /\ IF Closes(diff)
            THEN /\ IOsegment' = Append(IOsegment, segmentsize)
                 /\ segmentsize' = diff
                 /\ segmentmaxsize' = MaxData
            ELSE /\ segmentsize' = segmentsize + diff
                 /\ UNCHANGED <<IOsegment, segmentmaxsize>>
         /\ fmmu' = Placed
         /\ LogAddr' = LogAddr + diff
  /\ cutting' = TRUE
  /\ UNCHANGED <<slavelist, pass, slave, group>>

(* One more datagram in which the current slave counts.                    *)
CountWKC(n) ==
  LET wkc == IF pass = "outputs" THEN "outputsWKC" ELSE "inputsWKC"
  IN  group' = [group EXCEPT ![wkc] = @ + n]

Overfull == segmentsize > segmentmaxsize /\ Len(IOsegment) < MaxSegments

CutSegment ==
  /\ cutting
  /\ Overfull
  /\ IOsegment' = Append(IOsegment, segmentmaxsize)
  /\ segmentsize' = segmentsize - segmentmaxsize
  /\ segmentmaxsize' = MaxData
  /\ CountWKC(1)
  /\ UNCHANGED <<slavelist, pass, slave, cutting, LogAddr, fmmu>>

EndSlave ==
  /\ cutting
  /\ ~Overfull
  /\ CountWKC(IF segmentsize > 0 THEN 1 ELSE 0)
  /\ cutting' = FALSE
  /\ slave' = slave + 1
  /\ UNCHANGED <<slavelist, pass, LogAddr, segmentsize, segmentmaxsize,
                 IOsegment, fmmu>>

-----------------------------------------------------------------------------
OutputsMapped ==
  /\ pass = "outputs" /\ slave \notin Slaves
  /\ group' = [group EXCEPT !.Obytes = LogAddr,
                            !.Isegment = Len(IOsegment),
                            !.Ioffset = segmentsize]
  /\ pass' = "inputs"
  /\ slave' = 1
  /\ UNCHANGED <<slavelist, cutting, LogAddr, segmentsize, segmentmaxsize,
                 IOsegment, fmmu>>

InputsMapped ==
  /\ pass = "inputs" /\ slave \notin Slaves
  /\ group' = [group EXCEPT !.Ibytes = LogAddr - group.Obytes]
  /\ pass' = "mbxstatus"
  /\ slave' = 1
  /\ UNCHANGED <<slavelist, cutting, LogAddr, segmentsize, segmentmaxsize,
                 IOsegment, fmmu>>

(* The status byte of a mailbox counts in the datagram of the inputs.  The *)
(* size is checked for every slave, also for one without a mailbox.        *)
MapMbxStatus ==
  /\ pass = "mbxstatus" /\ slave \in Slaves
  /\ LET diff == IF slavelist[slave].mbx THEN 1 ELSE 0
         full == segmentsize + diff > MaxData - DCDatagram
     IN  /\ LogAddr' = LogAddr + diff
         /\ IF diff = 0 THEN UNCHANGED <<fmmu, group>>
            ELSE /\ fmmu' = [fmmu EXCEPT !.mbxstatus[slave] = LogAddr]
                 /\ CountWKC(IF slavelist[slave].Ibytes = 0 THEN 1 ELSE 0)
         /\ IF full /\ Len(IOsegment) < MaxSegments - 1
            THEN /\ IOsegment' = Append(IOsegment, segmentsize)
                 /\ segmentsize' = diff
            ELSE /\ segmentsize' = segmentsize + IF full THEN 0 ELSE diff
                 /\ UNCHANGED IOsegment
  /\ slave' = slave + 1
  /\ UNCHANGED <<slavelist, pass, cutting, segmentmaxsize>>

Mapped ==
  /\ pass = "mbxstatus" /\ slave \notin Slaves
  /\ IOsegment' = Append(IOsegment, segmentsize)
  /\ group' = [group EXCEPT
                 !.mbxstatuslength = LogAddr - group.Obytes - group.Ibytes]
  /\ pass' = "mapped"
  /\ UNCHANGED <<slavelist, slave, cutting, LogAddr, segmentsize,
                 segmentmaxsize, fmmu>>

MapNext ==
  \/ SkipSlave \/ AddSlave \/ CutSegment \/ EndSlave
  \/ OutputsMapped \/ InputsMapped \/ MapMbxStatus \/ Mapped

=============================================================================
