------------------------- MODULE ProcessData_proofs -------------------------
(***************************************************************************)
(* Proofs about the map of the process image and its exchange, for every   *)
(* set of networks and every size of frames, of the table of segments and  *)
(* of the index stack: that the map is well-formed, that no frame buffer   *)
(* is forgotten, whatever the calls of send and receive, that receive      *)
(* leaves the application's outputs in the image as they were written, and *)
(* what of them a send puts on the wire.                                   *)
(***************************************************************************)
EXTENDS ProcessData, WellFoundedInduction, FiniteSetTheorems, TLAPS

-----------------------------------------------------------------------------
(* The map.  The inputs start Ioffset bytes into the segment Isegment.  As *)
(* long as that segment is open it holds at least these bytes, and it can  *)
(* be closed behind them only.                                             *)
OffsetOK ==
  /\ group.Obytes <= LogAddr
  /\ group.Isegment <= Len(IOsegment)
  /\ group.Isegment = Len(IOsegment) =>
       /\ group.Ioffset <= segmentsize
       /\ group.Ioffset <= segmentmaxsize \/ Len(IOsegment) >= MaxSegments
  /\ group.Isegment < Len(IOsegment) =>
       group.Ioffset <= IOsegment[group.Isegment + 1]

MapOK ==
  /\ MapTypeOK
  /\ cutting => Mapping /\ Bytes(slave) > 0
  /\ pass = "outputs" /\ ~cutting =>
       segmentsize <= segmentmaxsize \/ Len(IOsegment) >= MaxSegments
  /\ pass # "outputs" => OffsetOK
  /\ pass = "mbxstatus" => group.Obytes + group.Ibytes <= LogAddr
  /\ pass = "mapped" => group.Isegment < Len(IOsegment)

LEMMA InitMapOK == MapInit => MapOK
<1> SUFFICES ASSUME MapInit PROVE MapOK
  OBVIOUS
<1>1. slavelist \in Seq([Obytes : Nat, Ibytes : Nat, mbx : BOOLEAN])
  BY IOMapAssumption DEF MapInit
<1>2. Len(slavelist) \in Nat
  BY <1>1
<1>3. slave \in 1 .. Len(slavelist) + 1
  BY <1>2 DEF MapInit
<1>4. segmentmaxsize \in {MaxData, MaxData - DCDatagram}
  BY DEF MapInit, FirstSize
<1>5. fmmu \in [Kinds -> [Slaves -> Nat \cup {None}]]
  BY Zenon DEF MapInit
<1>6. group \in [GroupFields -> Nat]
  BY DEF MapInit
<1>7. IOsegment \in Seq(Nat)
  BY DEF MapInit
<1>8. MapTypeOK
  <2>1. {LogAddr, segmentsize} \subseteq Nat
    BY DEF MapInit
  <2>2. /\ slavelist \in Networks
        /\ pass \in Kinds \cup {"mapped"}
        /\ cutting \in BOOLEAN
    BY DEF MapInit, Kinds
  <2> QED
    BY <1>3, <1>4, <1>5, <1>6, <1>7, <2>1, <2>2 DEF MapTypeOK
<1>9. segmentsize <= segmentmaxsize
  BY IOMapAssumption DEF MapInit, FirstSize
<1> QED
  BY <1>8, <1>9 DEF MapInit, MapOK

(* What the segments are, when one is added.                               *)
LEMMA SegmentAdded ==
  ASSUME IOsegment \in Seq(Nat), NEW n \in Nat,
         IOsegment' = Append(IOsegment, n)
  PROVE  /\ IOsegment' \in Seq(Nat)
         /\ Len(IOsegment') = Len(IOsegment) + 1
         /\ IOsegment'[Len(IOsegment) + 1] = n
         /\ \A i \in 1 .. Len(IOsegment) : IOsegment'[i] = IOsegment[i]
OBVIOUS

LEMMA Member ==
  ASSUME NEW S, NEW seq \in Seq(S), NEW i \in 1 .. Len(seq)
  PROVE  seq[i] \in S
OBVIOUS

(* Counting changes no field but the counter.                              *)
LEMMA Counted ==
  ASSUME MapTypeOK, NEW n \in Nat, CountWKC(n)
  PROVE  /\ group' \in [GroupFields -> Nat]
         /\ \A f \in {"Obytes", "Ibytes", "Isegment", "Ioffset",
                      "mbxstatuslength"} : group'[f] = group[f]
<1> DEFINE counter == IF pass = "outputs" THEN "outputsWKC" ELSE "inputsWKC"
<1>1. counter \in {"outputsWKC", "inputsWKC"} /\ counter \in GroupFields
  BY DEF GroupFields
<1>2. group' = [group EXCEPT ![counter] = group[counter] + n]
  BY DEF CountWKC
<1>3. group \in [GroupFields -> Nat] /\ group[counter] + n \in Nat
  BY <1>1 DEF MapTypeOK
<1> HIDE DEF counter
<1> QED
  BY <1>1, <1>2, <1>3 DEF GroupFields

(* What the types say of the numbers in the map.                           *)
LEMMA MapNumbers ==
  ASSUME MapTypeOK
  PROVE  /\ LogAddr \in Nat /\ segmentsize \in Nat
         /\ segmentmaxsize \in Nat /\ segmentmaxsize > 0
         /\ IOsegment \in Seq(Nat) /\ Len(IOsegment) \in Nat
         /\ slavelist \in Seq([Obytes : Nat, Ibytes : Nat, mbx : BOOLEAN])
         /\ Len(slavelist) \in Nat /\ Slaves = 1 .. Len(slavelist)
         /\ group.Obytes \in Nat /\ group.Ibytes \in Nat
         /\ group.Isegment \in Nat /\ group.Ioffset \in Nat
         /\ group.mbxstatuslength \in Nat
         /\ MaxData \in Nat /\ DCDatagram \in Nat /\ MaxSegments \in Nat
         /\ MaxSegments > 0
<1>1. slavelist \in Seq([Obytes : Nat, Ibytes : Nat, mbx : BOOLEAN])
  BY IOMapAssumption DEF MapTypeOK
<1>2. group \in [GroupFields -> Nat]
  BY DEF MapTypeOK
<1>3. {"Obytes", "Ibytes", "Isegment", "Ioffset", "mbxstatuslength"}
        \subseteq GroupFields
  BY DEF GroupFields
<1>4. /\ group.Obytes \in Nat /\ group.Ibytes \in Nat
      /\ group.Isegment \in Nat /\ group.Ioffset \in Nat
      /\ group.mbxstatuslength \in Nat
  BY <1>2, <1>3
<1>5. segmentmaxsize \in Nat /\ segmentmaxsize > 0
  BY IOMapAssumption DEF MapTypeOK
<1>6. Len(slavelist) \in Nat /\ Slaves = 1 .. Len(slavelist)
  BY <1>1 DEF Slaves
<1>7. IOsegment \in Seq(Nat) /\ Len(IOsegment) \in Nat
  BY DEF MapTypeOK
<1>8. LogAddr \in Nat /\ segmentsize \in Nat
  BY DEF MapTypeOK
<1> QED
  BY <1>1, <1>4, <1>5, <1>6, <1>7, <1>8, IOMapAssumption

(* OffsetOK when a segment that holds n bytes is closed.                   *)
LEMMA SegmentClosed ==
  ASSUME MapTypeOK, OffsetOK, NEW n \in Nat,
         IOsegment' = Append(IOsegment, n),
         Len(IOsegment) < MaxSegments \/ n = segmentsize,
         n \in {segmentsize, segmentmaxsize},
         LogAddr' \in Nat, LogAddr <= LogAddr',
         group'.Obytes = group.Obytes,
         group'.Isegment = group.Isegment,
         group'.Ioffset = group.Ioffset
  PROVE  OffsetOK' /\ group'.Isegment < Len(IOsegment')
<1>1. /\ LogAddr \in Nat /\ segmentsize \in Nat /\ segmentmaxsize \in Nat
      /\ IOsegment \in Seq(Nat) /\ Len(IOsegment) \in Nat
      /\ group.Obytes \in Nat
      /\ group.Isegment \in Nat /\ group.Ioffset \in Nat
      /\ MaxSegments \in Nat
  BY MapNumbers
<1>2. /\ Len(IOsegment') = Len(IOsegment) + 1
      /\ IOsegment'[Len(IOsegment) + 1] = n
      /\ \A i \in 1 .. Len(IOsegment) : IOsegment'[i] = IOsegment[i]
  BY <1>1, SegmentAdded
<1>3. group'.Isegment < Len(IOsegment')
  BY <1>1, <1>2 DEF OffsetOK
<1>4. group.Ioffset <= IOsegment'[group.Isegment + 1]
  <2>1. CASE group.Isegment = Len(IOsegment)
    BY <1>1, <1>2, <2>1 DEF OffsetOK
  <2>2. CASE group.Isegment < Len(IOsegment)
    <3>1. group.Isegment + 1 \in 1 .. Len(IOsegment)
      BY <1>1, <2>2
    <3> QED
      BY <1>2, <2>2, <3>1 DEF OffsetOK
  <2> QED
    BY <1>1, <2>1, <2>2 DEF OffsetOK
<1>5. group'.Obytes <= LogAddr'
  BY <1>1 DEF OffsetOK
<1> QED
  BY <1>1, <1>3, <1>4, <1>5 DEF OffsetOK

(* The next slave of a loop.                                               *)
LEMMA NextSlave ==
  ASSUME MapTypeOK, slave \in Slaves
  PROVE  slave + 1 \in 1 .. Len(slavelist) + 1
<1>1. slave \in 1 .. Len(slavelist) /\ Len(slavelist) \in Nat
  BY MapNumbers
<1> QED
  BY <1>1

(* Each turn of the loops over the slaves keeps the map well-formed.       *)
LEMMA StepMapOK ==
  ASSUME MapOK, MapNext
  PROVE  MapOK'
<1> USE DEF MapOK
<1>0. /\ LogAddr \in Nat /\ segmentsize \in Nat
      /\ segmentmaxsize \in Nat /\ segmentmaxsize > 0
      /\ IOsegment \in Seq(Nat) /\ Len(IOsegment) \in Nat
      /\ Len(slavelist) \in Nat /\ Slaves = 1 .. Len(slavelist)
      /\ group.Obytes \in Nat /\ group.Ibytes \in Nat
      /\ group.Isegment \in Nat /\ group.Ioffset \in Nat
      /\ MaxData \in Nat /\ DCDatagram \in Nat /\ MaxSegments \in Nat
  BY MapNumbers
<1>1. CASE SkipSlave
  <2>1. /\ UNCHANGED <<slavelist, pass, cutting, LogAddr, segmentsize,
                       segmentmaxsize, IOsegment, fmmu, group>>
        /\ slave' = slave + 1 /\ Mapping /\ ~cutting
    BY <1>1 DEF SkipSlave, Mapping
  <2>2. slave' \in 1 .. Len(slavelist) + 1
    BY <2>1, NextSlave DEF Mapping
  <2>3. MapTypeOK'
    BY <1>0, <2>1, <2>2 DEF MapTypeOK, Slaves
  <2>4. OffsetOK' = OffsetOK
    BY <1>0, <2>1 DEF OffsetOK
  <2> QED
    BY <2>1, <2>3, <2>4 DEF Mapping
<1>2. CASE AddSlave
  <2> DEFINE diff == Bytes(slave)
  <2>1. /\ Mapping /\ ~cutting /\ cutting' /\ diff > 0
        /\ fmmu' = Placed /\ LogAddr' = LogAddr + diff
        /\ UNCHANGED <<slavelist, pass, slave, group>>
    BY <1>2 DEF AddSlave
  <2>2. diff \in Nat
    <3>1. slave \in 1 .. Len(slavelist)
      BY <1>0, <2>1 DEF Mapping
    <3>2. slavelist[slave] \in [Obytes : Nat, Ibytes : Nat, mbx : BOOLEAN]
      <4>1. slavelist \in Seq([Obytes : Nat, Ibytes : Nat, mbx : BOOLEAN])
        BY MapNumbers
      <4> QED
        BY <3>1, <4>1, Member
    <3> QED
      BY <3>2 DEF Bytes
  <2>3. \/ /\ IOsegment' = Append(IOsegment, segmentsize)
           /\ segmentsize' = diff /\ segmentmaxsize' = MaxData
        \/ /\ segmentsize' = segmentsize + diff
           /\ UNCHANGED <<IOsegment, segmentmaxsize>>
    BY <1>2 DEF AddSlave
  <2>4. Bytes(slave)' = Bytes(slave) /\ Mapping' = Mapping
    BY <2>1 DEF Bytes, Mapping, Slaves
  <2> HIDE DEF diff
  <2>5. fmmu' \in [Kinds -> [Slaves' -> Nat \cup {None}]]
    BY <2>1, Zenon DEF MapTypeOK, Placed, Slaves
  <2>6. /\ IOsegment' \in Seq(Nat) /\ segmentsize' \in Nat
        /\ segmentmaxsize' \in {MaxData, MaxData - DCDatagram}
        /\ LogAddr' \in Nat /\ LogAddr <= LogAddr'
    <3>1. segmentmaxsize \in {MaxData, MaxData - DCDatagram}
      BY DEF MapTypeOK
    <3>2. /\ segmentsize' \in Nat /\ LogAddr' \in Nat /\ LogAddr <= LogAddr'
          /\ segmentmaxsize' \in {MaxData, MaxData - DCDatagram}
      <4>1. LogAddr' \in Nat /\ LogAddr <= LogAddr'
        BY <1>0, <2>1, <2>2
      <4>2. segmentsize' \in Nat /\ (segmentmaxsize' = MaxData
                                    \/ segmentmaxsize' = segmentmaxsize)
        BY <1>0, <2>2, <2>3
      <4> QED
        BY <3>1, <4>1, <4>2
    <3>3. CASE IOsegment' = Append(IOsegment, segmentsize)
      BY <1>0, <3>2, <3>3, SegmentAdded
    <3>4. CASE UNCHANGED IOsegment
      BY <1>0, <3>2, <3>4
    <3> QED
      BY <2>3, <3>3, <3>4
  <2>7. MapTypeOK'
    BY <2>1, <2>5, <2>6 DEF MapTypeOK, Slaves
  <2>8. pass # "outputs" => OffsetOK'
    <3>1. CASE segmentsize' = segmentsize + diff
               /\ UNCHANGED <<IOsegment, segmentmaxsize>>
      BY <1>0, <2>1, <2>2, <3>1 DEF OffsetOK
    <3>2. CASE IOsegment' = Append(IOsegment, segmentsize)
      BY <1>0, <2>1, <2>6, <3>2, SegmentClosed
    <3> QED
      BY <2>3, <3>1, <3>2
  <2> QED
    BY <2>1, <2>4, <2>7, <2>8 DEF diff, Mapping
<1>3. CASE CutSegment
  <2>1. /\ cutting /\ Overfull /\ CountWKC(1)
        /\ IOsegment' = Append(IOsegment, segmentmaxsize)
        /\ segmentsize' = segmentsize - segmentmaxsize
        /\ segmentmaxsize' = MaxData
        /\ UNCHANGED <<slavelist, pass, slave, cutting, LogAddr, fmmu>>
    BY <1>3 DEF CutSegment
  <2>2. Bytes(slave)' = Bytes(slave) /\ Mapping' = Mapping /\ Mapping
    BY <2>1 DEF Bytes, Mapping, Slaves
  <2>3. /\ group' \in [GroupFields -> Nat]
        /\ group'.Obytes = group.Obytes
        /\ group'.Isegment = group.Isegment
        /\ group'.Ioffset = group.Ioffset
    BY <2>1, Counted
  <2>4. segmentsize > segmentmaxsize /\ Len(IOsegment) < MaxSegments
    BY <2>1 DEF Overfull
  <2>5. segmentsize' \in Nat /\ IOsegment' \in Seq(Nat)
    BY <1>0, <2>1, <2>4, SegmentAdded
  <2>6. MapTypeOK'
    BY <1>0, <2>1, <2>3, <2>5 DEF MapTypeOK, Slaves
  <2>7. pass # "outputs" => OffsetOK'
    BY <1>0, <2>1, <2>3, <2>4, SegmentClosed
  <2> QED
    BY <2>1, <2>2, <2>6, <2>7 DEF Mapping
<1>4. CASE EndSlave
  <2>1. /\ cutting /\ ~Overfull /\ cutting' = FALSE /\ slave' = slave + 1
        /\ CountWKC(IF segmentsize > 0 THEN 1 ELSE 0)
        /\ UNCHANGED <<slavelist, pass, LogAddr, segmentsize,
                       segmentmaxsize, IOsegment, fmmu>>
    BY <1>4 DEF EndSlave
  <2>2. Mapping
    BY <2>1
  <2>3. /\ group' \in [GroupFields -> Nat]
        /\ group'.Obytes = group.Obytes
        /\ group'.Isegment = group.Isegment
        /\ group'.Ioffset = group.Ioffset
    BY <2>1, Counted
  <2>4. slave' \in 1 .. Len(slavelist) + 1
    BY <2>1, <2>2, NextSlave DEF Mapping
  <2>5. MapTypeOK'
    BY <1>0, <2>1, <2>3, <2>4 DEF MapTypeOK, Slaves
  <2>6. pass # "outputs" => OffsetOK'
    BY <1>0, <2>1, <2>3 DEF OffsetOK
  <2>7. segmentsize <= segmentmaxsize \/ Len(IOsegment) >= MaxSegments
    BY <1>0, <2>1 DEF Overfull
  <2> QED
    BY <2>1, <2>2, <2>5, <2>6, <2>7 DEF Mapping
<1>5. CASE OutputsMapped
  <2>1. /\ pass = "outputs" /\ slave \notin Slaves /\ pass' = "inputs"
        /\ slave' = 1
        /\ group' = [group EXCEPT !.Obytes = LogAddr,
                                  !.Isegment = Len(IOsegment),
                                  !.Ioffset = segmentsize]
        /\ UNCHANGED <<slavelist, cutting, LogAddr, segmentsize,
                       segmentmaxsize, IOsegment, fmmu>>
    BY <1>5 DEF OutputsMapped
  <2>2. ~cutting
    BY <2>1 DEF Mapping
  <2>3. /\ group' \in [GroupFields -> Nat]
        /\ group'.Obytes = LogAddr
        /\ group'.Isegment = Len(IOsegment)
        /\ group'.Ioffset = segmentsize
    BY <1>0, <2>1 DEF MapTypeOK, GroupFields
  <2>4. 1 \in 1 .. Len(slavelist) + 1
    BY <1>0
  <2>5. MapTypeOK'
    BY <1>0, <2>1, <2>3, <2>4 DEF MapTypeOK, Slaves, Kinds
  <2>6. OffsetOK'
    BY <1>0, <2>1, <2>2, <2>3 DEF OffsetOK
  <2> QED
    BY <2>1, <2>2, <2>5, <2>6
<1>6. CASE InputsMapped
  <2>1. /\ pass = "inputs" /\ slave \notin Slaves /\ pass' = "mbxstatus"
        /\ slave' = 1
        /\ group' = [group EXCEPT !.Ibytes = LogAddr - group.Obytes]
        /\ UNCHANGED <<slavelist, cutting, LogAddr, segmentsize,
                       segmentmaxsize, IOsegment, fmmu>>
    BY <1>6 DEF InputsMapped
  <2>2. ~cutting /\ OffsetOK
    BY <2>1 DEF Mapping
  <2>3. LogAddr - group.Obytes \in Nat
    BY <1>0, <2>2 DEF OffsetOK
  <2>4. /\ group' \in [GroupFields -> Nat]
        /\ group'.Obytes = group.Obytes
        /\ group'.Ibytes = LogAddr - group.Obytes
        /\ group'.Isegment = group.Isegment
        /\ group'.Ioffset = group.Ioffset
    BY <2>1, <2>3 DEF MapTypeOK, GroupFields
  <2>5. 1 \in 1 .. Len(slavelist) + 1
    BY <1>0
  <2>6. MapTypeOK'
    BY <1>0, <2>1, <2>4, <2>5 DEF MapTypeOK, Slaves, Kinds
  <2>7. OffsetOK'
    BY <1>0, <2>1, <2>2, <2>4 DEF OffsetOK
  <2>8. group'.Obytes + group'.Ibytes <= LogAddr'
    BY <1>0, <2>1, <2>4
  <2> QED
    BY <2>1, <2>2, <2>6, <2>7, <2>8
<1>7. CASE MapMbxStatus
  <2> DEFINE diff == IF slavelist[slave].mbx THEN 1 ELSE 0
             full == segmentsize + diff > MaxData - DCDatagram
  <2>1. /\ pass = "mbxstatus" /\ slave \in Slaves
        /\ LogAddr' = LogAddr + diff /\ slave' = slave + 1
        /\ UNCHANGED <<slavelist, pass, cutting, segmentmaxsize>>
    BY <1>7 DEF MapMbxStatus
  <2>2. diff \in Nat
    OBVIOUS
  <2>3. \/ /\ IOsegment' = Append(IOsegment, segmentsize)
           /\ segmentsize' = diff
        \/ /\ segmentsize' = segmentsize + IF full THEN 0 ELSE diff
           /\ UNCHANGED IOsegment
    BY <1>7, Zenon DEF MapMbxStatus
  <2>4. /\ fmmu' \in [Kinds -> [Slaves -> Nat \cup {None}]]
        /\ group' \in [GroupFields -> Nat]
        /\ group'.Obytes = group.Obytes
        /\ group'.Ibytes = group.Ibytes
        /\ group'.Isegment = group.Isegment
        /\ group'.Ioffset = group.Ioffset
    <3>1. CASE UNCHANGED <<fmmu, group>>
      BY <3>1 DEF MapTypeOK
    <3>2. CASE /\ fmmu' = [fmmu EXCEPT !.mbxstatus[slave] = LogAddr]
               /\ CountWKC(IF slavelist[slave].Ibytes = 0 THEN 1 ELSE 0)
      <4>1. fmmu' \in [Kinds -> [Slaves -> Nat \cup {None}]]
        BY <2>1, <3>2, Zenon DEF MapTypeOK
      <4> QED
        BY <3>2, <4>1, Counted
    <3> QED
      BY <1>7, <3>1, <3>2 DEF MapMbxStatus
  <2>5. ~cutting
    BY <2>1 DEF Mapping
  <2> HIDE DEF diff, full
  <2>6. /\ IOsegment' \in Seq(Nat) /\ segmentsize' \in Nat
        /\ LogAddr' \in Nat /\ LogAddr <= LogAddr'
    <3>1. CASE IOsegment' = Append(IOsegment, segmentsize)
      BY <1>0, <2>1, <2>2, <2>3, <3>1, SegmentAdded
    <3> QED
      BY <1>0, <2>1, <2>2, <2>3, <3>1
  <2>7. slave' \in 1 .. Len(slavelist) + 1
    BY <2>1, NextSlave
  <2>8. MapTypeOK'
    BY <1>0, <2>1, <2>2, <2>4, <2>6, <2>7 DEF MapTypeOK, Slaves
  <2>9. OffsetOK'
    <3>1. CASE UNCHANGED IOsegment
               /\ segmentsize' = segmentsize + IF full THEN 0 ELSE diff
      BY <1>0, <2>1, <2>2, <2>4, <3>1 DEF OffsetOK
    <3>2. CASE IOsegment' = Append(IOsegment, segmentsize)
      BY <1>0, <2>1, <2>4, <2>6, <3>2, SegmentClosed
    <3> QED
      BY <2>3, <3>1, <3>2
  <2>10. group'.Obytes + group'.Ibytes <= LogAddr'
    BY <1>0, <2>1, <2>2, <2>4
  <2> QED
    BY <2>1, <2>5, <2>8, <2>9, <2>10
<1>8. CASE Mapped
  <2>1. /\ pass = "mbxstatus" /\ slave \notin Slaves /\ pass' = "mapped"
        /\ IOsegment' = Append(IOsegment, segmentsize)
        /\ group' = [group EXCEPT
                  !.mbxstatuslength = LogAddr - group.Obytes - group.Ibytes]
        /\ UNCHANGED <<slavelist, slave, cutting, LogAddr, segmentsize,
                       segmentmaxsize, fmmu>>
    BY <1>8 DEF Mapped
  <2>2. ~cutting
    BY <2>1 DEF Mapping
  <2>3. LogAddr - group.Obytes - group.Ibytes \in Nat
    BY <1>0, <2>1
  <2>4. /\ group' \in [GroupFields -> Nat]
        /\ group'.Obytes = group.Obytes
        /\ group'.Isegment = group.Isegment
        /\ group'.Ioffset = group.Ioffset
    BY <2>1, <2>3 DEF MapTypeOK, GroupFields
  <2>5. IOsegment' \in Seq(Nat)
    BY <1>0, <2>1, SegmentAdded
  <2>6. MapTypeOK'
    BY <1>0, <2>1, <2>4, <2>5 DEF MapTypeOK, Slaves
  <2>7. OffsetOK' /\ group'.Isegment < Len(IOsegment')
    BY <1>0, <2>1, <2>4, SegmentClosed
  <2> QED
    BY <2>1, <2>2, <2>6, <2>7
<1> QED
  BY <1>1, <1>2, <1>3, <1>4, <1>5, <1>6, <1>7, <1>8 DEF MapNext

-----------------------------------------------------------------------------
(* The exchange.  Buffer k places behind i, as the scan of the frame layer *)
(* goes round; the buffers receive has still to pull.                      *)
Shift(i, k) == IF i + k < MaxBuf THEN i + k ELSE i + k - MaxBuf

Pending == {idxstack[i].idx : i \in pulled + 1 .. Len(idxstack)}

Entry == [idx : Idx, data : Int, length : Int, dc : BOOLEAN]

History == [received : BOOLEAN, sends : Nat, lost : Nat, early : BOOLEAN,
            overrun : BOOLEAN, crossed : BOOLEAN]

(* The stack holds buffers that follow one another round the ring, up to   *)
(* the last one handed out: as long as it is not full, the next one is on  *)
(* none of its places, and once it is full all buffers are on it.          *)
InTurn ==
  \E base \in Idx :
    /\ \A i \in 1 .. Len(idxstack) : idxstack[i].idx = Shift(base, i)
    /\ Len(idxstack) < MaxBuf => lastidx = Shift(base, Len(idxstack))

StackOK ==
  /\ lastidx \in Idx
  /\ idxstack \in Seq(Entry)
  /\ Len(idxstack) <= MaxBuf
  /\ pulled \in 0 .. Len(idxstack)
  /\ pc # "receive" => pulled = 0
  /\ InTurn
  /\ BuffersOnStack
  /\ \A f \in wire : f.idx \in Pending

(* The calls.  LRD reads nothing before the inputs.                        *)
CallsOK ==
  /\ {blockLRW, hasdc, first} \subseteq BOOLEAN
  /\ hist \in History
  /\ version \in Nat
  /\ pc \in {"idle", "send", "receive"}
  /\ pc # "idle" => pass = "mapped"
  /\ pass # "mapped" => hist.received /\ version = 0 /\ ~hist.crossed
  /\ hist.received => idxstack = <<>> /\ pc # "send"
  /\ ~hist.received /\ hist.overrun => hist.crossed
  /\ pc = "send" =>
       /\ cmd \in Cmds
       /\ currentsegment \in 0 .. nsegments - 1
       /\ addr \in Nat /\ length \in Int
       /\ cmd = "LRW" <=> ~blockLRW
       /\ cmd = "LRD" => group.Obytes <= addr
       /\ cmd = "LWR" => length >= 0

(* A frame on the wire: where it was cut from the image, that it carries   *)
(* the outputs as they are, and, as long as no buffer was taken twice,     *)
(* that the stack says of it what it is.                                   *)
DescribedBy(f, e) == e.idx = f.idx /\ e.data = f.start /\ e.length = f.length

FrameOK(f) ==
  /\ f.start \in Nat /\ f.length \in Int
  /\ f.cmd = "LRW" => ~blockLRW
  /\ f.cmd = "LRD" => group.Obytes <= f.start
  /\ f.cmd = "LRW" /\ ~hist.early /\ ~hist.crossed =>
       \A k \in 0 .. f.length - 1 :
         f.start + k \in Outputs => f.data[k] = Byte(f.start + k, version)
  /\ ~hist.overrun =>
       \E i \in pulled + 1 .. Len(idxstack) : DescribedBy(f, idxstack[i])

WireOK == \A f \in wire : FrameOK(f)

(* OutputsKept, also while a call runs.                                    *)
ImageOK ==
  pass = "mapped" =>
    /\ DOMAIN image = 0 .. LogAddr - 1
    /\ ~hist.crossed /\ (hist.early => blockLRW) =>
         \A b \in Outputs : image[b] = Byte(b, version)

Inv == MapOK /\ StackOK /\ CallsOK /\ WireOK /\ ImageOK

-----------------------------------------------------------------------------
(* The places of the ring.                                                 *)
LEMMA ShiftInRange ==
  ASSUME NEW i \in Idx, NEW k \in 0 .. MaxBuf
  PROVE  Shift(i, k) \in Idx
BY ProcessDataAssumption DEF Idx, Shift

LEMMA ShiftsDiffer ==
  ASSUME NEW i \in Idx, NEW j \in 1 .. MaxBuf, NEW k \in 1 .. MaxBuf,
         Shift(i, j) = Shift(i, k)
  PROVE  j = k
BY ProcessDataAssumption DEF Idx, Shift

LEMMA ShiftReaches ==
  ASSUME NEW i \in Idx, NEW x \in Idx
  PROVE  \E k \in 1 .. MaxBuf : Shift(i, k) = x
<1> DEFINE k == IF x > i THEN x - i ELSE x - i + MaxBuf
<1>1. k \in 1 .. MaxBuf /\ Shift(i, k) = x
  BY ProcessDataAssumption DEF Idx, Shift
<1> QED
  BY <1>1

LEMMA NextShift ==
  ASSUME NEW i \in Idx, NEW k \in Nat, k < MaxBuf
  PROVE  Shift(Shift(i, k), 1) = Shift(i, k + 1)
<1>1. CASE i + k < MaxBuf
  BY <1>1, ProcessDataAssumption DEF Idx, Shift
<1>2. CASE i + k >= MaxBuf
  BY <1>2, ProcessDataAssumption DEF Idx, Shift
<1> QED
  BY <1>1, <1>2, ProcessDataAssumption DEF Idx

LEMMA AfterIsShift ==
  ASSUME NEW i \in Idx, NEW k \in 1 .. MaxBuf
  PROVE  After(i, k) = Shift(i, k)
<1>1. i \in Int /\ k \in Int /\ MaxBuf \in Int /\ MaxBuf > 0
      /\ 0 <= i /\ i < MaxBuf /\ 0 < k /\ k <= MaxBuf
  BY ProcessDataAssumption DEF Idx
<1>2. CASE i + k < MaxBuf
  BY <1>1, <1>2 DEF After, Shift
<1>3. CASE i + k >= MaxBuf
  <2> DEFINE r == i + k - MaxBuf
  <2>1. r \in Int /\ 0 <= r /\ r < MaxBuf /\ i + k = r + MaxBuf
    BY <1>1, <1>3
  <2> HIDE DEF r
  <2>2. (r + MaxBuf) % MaxBuf = r
    BY <1>1, <2>1
  <2> QED
    BY <1>1, <1>3, <2>1, <2>2 DEF After, Shift
<1> QED
  BY <1>1, <1>2, <1>3

(* A non-empty set of naturals has a least element.                        *)
LEMMA LeastNat ==
  ASSUME NEW S \in SUBSET Nat, S # {}
  PROVE  \E k \in S : \A j \in S : k <= j
<1> DEFINE less == {p \in Nat \X Nat : p[1] < p[2]}
<1>1. OpToRel(<, Nat) = less
  BY Zenon DEF OpToRel
<1>2. IsWellFoundedOn(less, Nat)
  BY <1>1, NatLessThanWellFounded, Zenon
<1> HIDE DEF less
<1>3. PICK k \in S : \A j \in S : <<j, k>> \notin less
  BY <1>2, WFMin, Zenon
<1>4. ASSUME NEW j \in S
      PROVE  k <= j
  <2>1. <<j, k>> \in less <=> j < k
    BY Zenon DEF less
  <2>2. ~ j < k
    BY <1>3, <2>1
  <2> QED
    BY <2>2
<1> QED
  BY <1>4

(* ecx_getindex finds the buffer behind the last one as long as the stack  *)
(* is not full: nobody but this exchange uses buffers.                     *)
LEMMA NextIdxInTurn ==
  ASSUME lastidx \in Idx
  PROVE  /\ NextIdx \in Idx
         /\ Shift(lastidx, 1) \notin used => NextIdx = Shift(lastidx, 1)
<1> DEFINE free == {k \in 1 .. MaxBuf : After(lastidx, k) \notin used}
           least == CHOOSE k \in free : \A j \in free : k <= j
<1>1. free \in SUBSET (1 .. MaxBuf) /\ 1 \in 1 .. MaxBuf
  BY ProcessDataAssumption
<1>2. free \in SUBSET Nat
  BY <1>1
<1>3. Shift(lastidx, 1) \notin used => 1 \in free
  BY <1>1, AfterIsShift
<1>4. NextIdx = IF free = {} THEN After(lastidx, 1)
                             ELSE After(lastidx, least)
  BY DEF NextIdx
<1>5. \A k \in 1 .. MaxBuf : After(lastidx, k) \in Idx
  BY AfterIsShift, ShiftInRange, ProcessDataAssumption
<1> HIDE DEF free
<1>6. free # {} => least \in free /\ \A j \in free : least <= j
  BY <1>2, LeastNat
<1> HIDE DEF least
<1>7. NextIdx \in Idx
  BY <1>1, <1>4, <1>5, <1>6
<1>8. 1 \in free => least = 1
  <2>1. 1 \in free => least \in 1 .. MaxBuf /\ least <= 1
    BY <1>1, <1>6
  <2> QED
    BY <2>1, ProcessDataAssumption
<1> QED
  BY <1>1, <1>3, <1>4, <1>7, <1>8, AfterIsShift

-----------------------------------------------------------------------------
(* The loops over the slaves end with the map, and what they leave of the  *)
(* outputs is within it.                                                   *)
LEMMA MapEnds ==
  ASSUME MapOK, MapNext
  PROVE  /\ pass # "mapped"
         /\ pass' = "mapped" => LogAddr' = LogAddr
<1>1. pass # "mapped"
  BY DEF MapOK, MapNext, SkipSlave, AddSlave, CutSegment, EndSlave,
         OutputsMapped, InputsMapped, MapMbxStatus, Mapped, Mapping
<1>2. pass' = "mapped" => Mapped
  BY <1>1 DEF MapNext, SkipSlave, AddSlave, CutSegment, EndSlave,
              OutputsMapped, InputsMapped, MapMbxStatus
<1> QED
  BY <1>1, <1>2 DEF Mapped

LEMMA InitInv == Init => Inv
<1> SUFFICES ASSUME Init PROVE Inv
  OBVIOUS
<1>1. MapOK
  BY InitMapOK DEF Init
<1>2. idxstack = <<>> /\ Len(idxstack) = 0 /\ idxstack \in Seq(Entry)
  BY DEF Init
<1>3. 0 \in Idx /\ Shift(0, 0) = 0
  BY ProcessDataAssumption DEF Idx, Shift
<1>4. InTurn
  <2>1. \A i \in 1 .. Len(idxstack) : idxstack[i].idx = Shift(0, i)
    BY <1>2
  <2>2. lastidx = Shift(0, Len(idxstack))
    BY <1>2, <1>3 DEF Init
  <2> QED
    BY <1>3, <2>1, <2>2 DEF InTurn
<1>5. StackOK
  BY <1>2, <1>3, <1>4, ProcessDataAssumption
  DEF Init, StackOK, BuffersOnStack
<1>6. hist \in History
  BY DEF Init, History
<1>7. CallsOK
  BY <1>2, <1>6 DEF Init, CallsOK
<1>8. pass # "mapped" /\ wire = {}
  BY DEF Init, MapInit
<1> QED
  BY <1>1, <1>5, <1>7, <1>8 DEF Inv, WireOK, ImageOK

(* With an empty stack nothing is on the wire.                             *)
LEMMA NothingOnWire ==
  ASSUME StackOK, idxstack = <<>>
  PROVE  Pending = {} /\ wire = {} /\ used = {} /\ pulled = 0
<1>1. Len(idxstack) = 0 /\ pulled = 0
  BY DEF StackOK
<1>2. Pending = {}
  BY <1>1 DEF Pending
<1> QED
  BY <1>1, <1>2 DEF StackOK, BuffersOnStack, Pending

(* Steps that leave the stack alone.                                       *)
LEMMA StackKept ==
  ASSUME StackOK, UNCHANGED <<used, lastidx, idxstack, pulled, wire>>,
         pc' # "receive" => pulled = 0
  PROVE  StackOK'
BY DEF StackOK, InTurn, BuffersOnStack, Pending

LEMMA ConfigMapInv ==
  ASSUME Inv, ConfigMap
  PROVE  Inv'
<1>1. /\ MapNext
      /\ UNCHANGED <<blockLRW, hasdc, used, lastidx, idxstack, pulled, wire,
                     pc, sendvars, wkc, valid_wkc, result, version, cycle,
                     hist>>
      /\ pass' = "mapped" =>
           image' = [b \in 0 .. LogAddr - 1 |-> Byte(b, 0)]
  BY DEF ConfigMap
<1>2. MapOK' /\ pass # "mapped"
  BY <1>1, StepMapOK, MapEnds DEF Inv
<1>3. pc = "idle" /\ hist.received /\ version = 0 /\ ~hist.crossed
      /\ wire = {}
  BY <1>2, NothingOnWire DEF Inv, CallsOK
<1>4. StackOK'
  BY <1>1, <1>3, StackKept DEF Inv, StackOK
<1>5. CallsOK'
  BY <1>1, <1>2, <1>3 DEF Inv, CallsOK, sendvars
<1>6. WireOK'
  BY <1>1, <1>3 DEF WireOK
<1>7. ImageOK'
  <2> SUFFICES ASSUME pass' = "mapped" PROVE ImageOK'
    BY DEF ImageOK
  <2>1. LogAddr' = LogAddr /\ image' = [b \in 0 .. LogAddr - 1 |-> Byte(b, 0)]
    BY <1>1, MapEnds DEF Inv
  <2>2. group'.Obytes <= LogAddr' /\ LogAddr' \in Nat /\ group'.Obytes \in Nat
    <3>1. OffsetOK' /\ MapTypeOK'
      BY <1>2 DEF MapOK
    <3>2. LogAddr' \in Nat
      BY <3>1 DEF MapTypeOK
    <3>3. group' \in [GroupFields -> Nat] /\ "Obytes" \in GroupFields
      BY <3>1 DEF MapTypeOK, GroupFields
    <3> QED
      BY <3>1, <3>2, <3>3 DEF OffsetOK
  <2>3. \A b \in 0 .. group'.Obytes - 1 : b \in 0 .. LogAddr - 1
    BY <2>1, <2>2
  <2>4. \A b \in Outputs' : image'[b] = Byte(b, version')
    BY <1>1, <1>3, <2>1, <2>3 DEF Outputs, Byte
  <2> QED
    BY <2>1, <2>4 DEF ImageOK
<1> QED
  BY <1>2, <1>4, <1>5, <1>6, <1>7 DEF Inv

(* Steps of the calls leave the map alone.                                 *)
LEMMA MapKept ==
  ASSUME MapOK, UNCHANGED mapvars
  PROVE  MapOK'
BY DEF MapOK, MapTypeOK, OffsetOK, Slaves, Mapping, Bytes, mapvars

LEMMA MapTypesMapped ==
  ASSUME MapOK, pass = "mapped"
  PROVE  /\ LogAddr \in Nat /\ group.Obytes \in Nat /\ group.Ibytes \in Nat
         /\ group.Obytes <= LogAddr
         /\ \A b \in Outputs : b \in 0 .. LogAddr - 1 /\ b \notin MbxStatus
<1>1. LogAddr \in Nat /\ group.Obytes \in Nat /\ group.Ibytes \in Nat
  BY MapNumbers DEF MapOK
<1>2. group.Obytes <= LogAddr
  BY DEF MapOK, OffsetOK
<1>3. ImageSize \in Int
  BY <1>1, MapNumbers DEF MapOK, ImageSize
<1>4. ASSUME NEW b \in Outputs
      PROVE  b \in 0 .. LogAddr - 1 /\ b \notin MbxStatus
  BY <1>1, <1>2, <1>3 DEF Outputs, MbxStatus
<1> QED
  BY <1>1, <1>2, <1>4

LEMMA WriteOutputsInv ==
  ASSUME Inv, WriteOutputs
  PROVE  Inv'
<1>1. /\ pass = "mapped" /\ pc = "idle"
      /\ version' = version + 1
      /\ image' = [b \in DOMAIN image |->
                     IF b \in Outputs THEN Byte(b, version') ELSE image[b]]
      /\ UNCHANGED mapvars
      /\ UNCHANGED <<blockLRW, hasdc, used, lastidx, idxstack, pulled, wire,
                     pc, sendvars>>
  BY DEF WriteOutputs, Idle
<1>2. /\ hist' \in History
      /\ hist'.received = hist.received /\ hist'.overrun = hist.overrun
      /\ hist'.early = ~hist.received
      /\ hist'.crossed = (hist.overrun /\ ~hist.received)
  <2>1. hist \in History
    BY DEF Inv, CallsOK
  <2>2. hist' = [hist EXCEPT !.early = ~hist.received,
                             !.crossed = hist.overrun /\ ~hist.received]
    BY DEF WriteOutputs
  <2> QED
    BY <2>1, <2>2 DEF History
<1>3. StackOK'
  BY <1>1, StackKept DEF Inv, StackOK
<1>4. CallsOK'
  <2>1. version' \in Nat
    BY <1>1 DEF Inv, CallsOK
  <2>2. ~hist'.received /\ hist'.overrun => hist'.crossed
    BY <1>2, Zenon
  <2>3. pass' = "mapped" /\ pc' = "idle"
    BY <1>1 DEF mapvars
  <2>4. hist'.received => idxstack' = <<>>
    BY <1>1, <1>2 DEF Inv, CallsOK
  <2>5. {blockLRW, hasdc, first}' \subseteq BOOLEAN
    BY <1>1 DEF Inv, CallsOK, sendvars
  <2> QED
    BY <1>2, <2>1, <2>2, <2>3, <2>4, <2>5 DEF CallsOK
<1>5. WireOK'
  <2>1. CASE hist.received
    BY <1>1, <2>1, NothingOnWire DEF Inv, CallsOK, WireOK
  <2>2. CASE ~hist.received
    BY <1>1, <1>2, <2>2
    DEF Inv, WireOK, FrameOK, DescribedBy, mapvars
  <2> QED
    BY <2>1, <2>2
<1>6. ImageOK'
  <2>1. DOMAIN image = 0 .. LogAddr - 1
    BY <1>1 DEF Inv, ImageOK
  <2>2. \A b \in Outputs : image'[b] = Byte(b, version')
    BY <1>1, <2>1, MapTypesMapped DEF Inv
  <2> QED
    BY <1>1, <2>1, <2>2 DEF ImageOK, Outputs, mapvars
<1> QED
  BY <1>1, <1>3, <1>4, <1>5, <1>6, MapKept DEF Inv

LEMMA SendProcessdataInv ==
  ASSUME Inv, SendProcessdata
  PROVE  Inv'
<1>1. /\ pass = "mapped" /\ pc = "idle"
      /\ image' = [b \in DOMAIN image |->
                     IF b \in MbxStatus THEN Byte(b, 0) ELSE image[b]]
      /\ UNCHANGED mapvars
      /\ UNCHANGED <<blockLRW, hasdc, used, lastidx, idxstack, pulled, wire,
                     version>>
  BY DEF SendProcessdata, Idle
<1>2. /\ hist' \in History /\ hist'.received = FALSE
      /\ hist'.early = hist.early /\ hist'.crossed = hist.crossed
      /\ hist.received => hist'.overrun = FALSE
      /\ ~hist.received => hist'.overrun = hist.overrun
  <2>1. hist \in History
    BY DEF Inv, CallsOK
  <2>2. CASE hist.received
    <3>1. hist' = [hist EXCEPT !.received = FALSE, !.sends = 1, !.lost = 0,
                               !.overrun = FALSE]
      BY <2>2 DEF SendProcessdata
    <3> QED
      BY <2>1, <2>2, <3>1 DEF History
  <2>3. CASE ~hist.received
    <3>1. hist' = [hist EXCEPT !.sends = hist.sends + 1]
      BY <2>3 DEF SendProcessdata
    <3> QED
      BY <2>1, <2>3, <3>1 DEF History
  <2> QED
    BY <2>2, <2>3
<1>3. \/ UNCHANGED <<pc, sendvars>>
      \/ /\ pc' = "send" /\ first' = hasdc
         /\ \/ ~blockLRW /\ StartLRW
            \/ blockLRW /\ StartLRD
            \/ blockLRW /\ StartLWR
  BY DEF SendProcessdata
<1>4. StackOK'
  <2>1. pc' # "receive" /\ pulled = 0
    BY <1>1, <1>3 DEF Inv, StackOK
  <2> QED
    BY <1>1, <2>1, StackKept DEF Inv
<1>5. /\ nsegments \in Nat /\ group.Isegment \in 0 .. nsegments - 1
      /\ nsegments > 0 /\ group.Obytes \in Nat /\ group.Ibytes \in Nat
      /\ ImageSize \in Int
  <2>1. group.Isegment < Len(IOsegment)
    BY <1>1 DEF Inv, MapOK
  <2>2. /\ Len(IOsegment) \in Nat /\ group.Isegment \in Nat
        /\ group.Obytes \in Nat /\ group.Ibytes \in Nat
        /\ group.mbxstatuslength \in Nat
    BY MapNumbers DEF Inv, MapOK
  <2> QED
    BY <2>1, <2>2 DEF nsegments, ImageSize
<1>6. CallsOK'
  <2>1. ~hist'.received /\ hist'.overrun => hist'.crossed
    BY <1>2 DEF Inv, CallsOK
  <2>2. {blockLRW, hasdc, first}' \subseteq BOOLEAN
    BY <1>1, <1>3 DEF Inv, CallsOK, sendvars
  <2>3. pass' = "mapped" /\ pc' \in {"idle", "send"}
        /\ version' \in Nat
    BY <1>1, <1>3 DEF Inv, CallsOK, mapvars
  <2>4. UNCHANGED <<nsegments, group>>
    BY <1>1 DEF mapvars, nsegments
  <2>5. pc' = "send" =>
          /\ cmd' \in Cmds
          /\ currentsegment' \in 0 .. nsegments' - 1
          /\ addr' \in Nat /\ length' \in Int
          /\ cmd' = "LRW" <=> ~blockLRW'
          /\ cmd' = "LRD" => group'.Obytes <= addr'
          /\ cmd' = "LWR" => length' >= 0
    <3> SUFFICES ASSUME pc' = "send", pc' # pc PROVE
          /\ cmd' \in Cmds
          /\ currentsegment' \in 0 .. nsegments - 1
          /\ addr' \in Nat /\ length' \in Int
          /\ cmd' = "LRW" <=> ~blockLRW
          /\ cmd' = "LRD" => group.Obytes <= addr'
          /\ cmd' = "LWR" => length' >= 0
      BY <1>1, <2>4
    <3>1. CASE ~blockLRW /\ StartLRW
      BY <1>5, <3>1 DEF StartLRW, Loop, Cmds
    <3>2. CASE blockLRW /\ StartLRD
      BY <1>5, <3>2 DEF StartLRD, Loop, Cmds
    <3>3. CASE blockLRW /\ StartLWR
      BY <1>5, <3>3 DEF StartLWR, Loop, Cmds
    <3> QED
      BY <1>3, <3>1, <3>2, <3>3
  <2> QED
    BY <1>2, <2>1, <2>2, <2>3, <2>5 DEF CallsOK
<1>7. WireOK'
  <2>1. CASE hist.received
    BY <1>1, <2>1, NothingOnWire DEF Inv, CallsOK, WireOK
  <2>2. CASE ~hist.received
    BY <1>1, <1>2, <2>2
    DEF Inv, WireOK, FrameOK, DescribedBy, mapvars, Outputs
  <2> QED
    BY <2>1, <2>2
<1>8. ImageOK'
  <2>1. DOMAIN image = 0 .. LogAddr - 1
    BY <1>1 DEF Inv, ImageOK
  <2>2. \A b \in Outputs : image'[b] = image[b]
    BY <1>1, <2>1, MapTypesMapped DEF Inv
  <2> QED
    BY <1>1, <1>2, <2>1, <2>2 DEF Inv, ImageOK, Outputs, mapvars
<1> QED
  BY <1>1, <1>4, <1>6, <1>7, <1>8, MapKept DEF Inv

LEMMA ReceiveProcessdataInv ==
  ASSUME Inv, ReceiveProcessdata
  PROVE  Inv'
<1>1. /\ pass = "mapped" /\ pc = "idle" /\ pc' = "receive"
      /\ UNCHANGED mapvars
      /\ UNCHANGED <<blockLRW, hasdc, image, used, lastidx, idxstack, pulled,
                     wire, sendvars, version>>
  BY DEF ReceiveProcessdata, Idle
<1>2. /\ hist' \in History /\ hist'.received = hist.received
      /\ hist'.early = hist.early /\ hist'.crossed = hist.crossed
      /\ hist'.overrun = hist.overrun
  <2>1. hist \in History
    BY DEF Inv, CallsOK
  <2>2. hist' = hist \/ hist' = [hist EXCEPT !.sends = 0]
    BY DEF ReceiveProcessdata
  <2> QED
    BY <2>1, <2>2 DEF History
<1>3. StackOK'
  BY <1>1, StackKept DEF Inv
<1>4. CallsOK'
  BY <1>1, <1>2 DEF Inv, CallsOK, mapvars, sendvars
<1>5. WireOK'
  BY <1>1, <1>2 DEF Inv, WireOK, FrameOK, DescribedBy, mapvars, Outputs
<1>6. ImageOK'
  BY <1>1, <1>2 DEF Inv, ImageOK, Outputs, mapvars
<1> QED
  BY <1>1, <1>3, <1>4, <1>5, <1>6, MapKept DEF Inv

-----------------------------------------------------------------------------
(* A datagram is sent.  The data of a datagram are whole segments, or what *)
(* is left of one behind the outputs or before the inputs.                 *)
LEMMA SublengthIsNat ==
  ASSUME Inv, pc = "send"
  PROVE  /\ Sublength \in Nat
         /\ cmd = "LWR" => Sublength <= length
<1>1. /\ currentsegment \in 0 .. nsegments - 1 /\ length \in Int
      /\ cmd = "LWR" => length >= 0
  BY DEF Inv, CallsOK
<1>2. /\ IOsegment \in Seq(Nat) /\ Len(IOsegment) \in Nat
      /\ group.Isegment \in Nat /\ group.Ioffset \in Nat
  BY MapNumbers DEF Inv, MapOK
<1>3. currentsegment + 1 \in 1 .. Len(IOsegment)
  BY <1>1, <1>2 DEF nsegments
<1>4. Segment \in Nat
  BY <1>2, <1>3, Member DEF Segment
<1>5. currentsegment = group.Isegment => group.Ioffset <= Segment
  <2> SUFFICES ASSUME currentsegment = group.Isegment
               PROVE  group.Ioffset <= Segment
    OBVIOUS
  <2>1. pass = "mapped"
    BY DEF Inv, CallsOK
  <2>2. OffsetOK /\ group.Isegment < Len(IOsegment)
    BY <2>1 DEF Inv, MapOK
  <2> QED
    BY <2>2 DEF OffsetOK, Segment
<1>6. CASE cmd = "LRD" /\ currentsegment = group.Isegment
  BY <1>2, <1>4, <1>5, <1>6 DEF Sublength
<1>7. CASE cmd = "LWR" /\ Segment > length
  BY <1>1, <1>7 DEF Sublength
<1>8. CASE /\ ~(cmd = "LRD" /\ currentsegment = group.Isegment)
           /\ ~(cmd = "LWR" /\ Segment > length)
  <2>1. Sublength = Segment
    BY <1>8 DEF Sublength
  <2> QED
    BY <1>1, <1>4, <1>8, <2>1
<1> QED
  BY <1>6, <1>7, <1>8

(* The index of a datagram that is pushed is the next in turn.             *)
LEMMA PushInTurn ==
  ASSUME StackOK, pulled = 0, Len(idxstack) < MaxBuf,
         NEW e \in Entry, e.idx = NextIdx,
         idxstack' = Append(idxstack, e), lastidx' = NextIdx
  PROVE  /\ InTurn'
         /\ idxstack' \in Seq(Entry)
         /\ Len(idxstack') = Len(idxstack) + 1
         /\ idxstack'[Len(idxstack) + 1] = e
         /\ \A i \in 1 .. Len(idxstack) : idxstack'[i] = idxstack[i]
<1>1. idxstack \in Seq(Entry) /\ lastidx \in Idx
  BY DEF StackOK
<1>2. PICK base \in Idx :
        /\ \A i \in 1 .. Len(idxstack) : idxstack[i].idx = Shift(base, i)
        /\ lastidx = Shift(base, Len(idxstack))
  BY DEF StackOK, InTurn
<1>3. Len(idxstack) \in Nat
  BY <1>1
<1>4. Shift(lastidx, 1) = Shift(base, Len(idxstack) + 1)
  BY <1>2, <1>3, NextShift
<1>5. Shift(lastidx, 1) \notin used
  <2> SUFFICES ASSUME Shift(lastidx, 1) \in used PROVE FALSE
    OBVIOUS
  <2>1. PICK i \in 1 .. Len(idxstack) :
          idxstack[i].idx = Shift(base, Len(idxstack) + 1)
    BY <1>3, <1>4 DEF StackOK, BuffersOnStack
  <2>2. Shift(base, i) = Shift(base, Len(idxstack) + 1)
    BY <1>2, <2>1
  <2>3. i \in 1 .. MaxBuf /\ Len(idxstack) + 1 \in 1 .. MaxBuf
    BY <1>3, ProcessDataAssumption
  <2>4. i = Len(idxstack) + 1
    BY <2>2, <2>3, ShiftsDiffer
  <2> QED
    BY <1>3, <2>4
<1>6. NextIdx = Shift(base, Len(idxstack) + 1)
  BY <1>1, <1>4, <1>5, NextIdxInTurn
<1>7. /\ idxstack' \in Seq(Entry)
      /\ Len(idxstack') = Len(idxstack) + 1
      /\ idxstack'[Len(idxstack) + 1] = e
      /\ \A i \in 1 .. Len(idxstack) : idxstack'[i] = idxstack[i]
  BY <1>1
<1>8. \A i \in 1 .. Len(idxstack') : idxstack'[i].idx = Shift(base, i)
  <2> SUFFICES ASSUME NEW i \in 1 .. Len(idxstack')
               PROVE  idxstack'[i].idx = Shift(base, i)
    OBVIOUS
  <2>1. i \in 1 .. Len(idxstack) \/ i = Len(idxstack) + 1
    BY <1>3, <1>7
  <2> QED
    BY <1>2, <1>6, <1>7, <2>1
<1>9. lastidx' = Shift(base, Len(idxstack'))
  BY <1>6, <1>7
<1> QED
  BY <1>7, <1>8, <1>9 DEF InTurn, Shift

(* On a full stack that nothing was pulled from is every buffer.           *)
LEMMA FullStack ==
  ASSUME StackOK, pulled = 0, Len(idxstack) = MaxBuf, NEW x \in Idx
  PROVE  x \in Pending
<1>1. PICK base \in Idx :
        \A i \in 1 .. Len(idxstack) : idxstack[i].idx = Shift(base, i)
  BY DEF StackOK, InTurn
<1>2. PICK k \in 1 .. MaxBuf : Shift(base, k) = x
  BY ShiftReaches
<1>3. idxstack[k].idx = x /\ k \in pulled + 1 .. Len(idxstack)
  BY <1>1, <1>2
<1> QED
  BY <1>3 DEF Pending

LEMMA SendDatagramInv ==
  ASSUME Inv, NEW sent \in BOOLEAN, SendDatagram(sent)
  PROVE  Inv'
<1> DEFINE idx == NextIdx
           frame == [idx |-> idx, cmd |-> cmd, start |-> addr,
                     length |-> Sublength, dc |-> first, data |-> Reply]
           top == [idx |-> idx, data |-> addr, length |-> Sublength,
                   dc |-> first]
           full == Len(idxstack) = MaxBuf
<1>1. /\ pc = "send" /\ pass = "mapped" /\ pulled = 0
      /\ UNCHANGED mapvars
      /\ UNCHANGED <<blockLRW, hasdc, image, pulled, version>>
      /\ lastidx' = idx
      /\ used' \subseteq used \cup {idx}
      /\ wire' \subseteq wire \cup {frame}
      /\ first' = FALSE
  BY Zenon DEF SendDatagram, Inv, CallsOK, StackOK
<1>2. /\ addr \in Nat /\ length \in Int /\ cmd \in Cmds /\ ~hist.received
      /\ first \in BOOLEAN
      /\ currentsegment \in 0 .. nsegments - 1
      /\ cmd = "LRW" <=> ~blockLRW
      /\ cmd = "LRD" => group.Obytes <= addr
      /\ cmd = "LWR" => length >= 0
  BY <1>1 DEF Inv, CallsOK
<1>3. Sublength \in Nat /\ (cmd = "LWR" => Sublength <= length)
  BY <1>1, SublengthIsNat
<1>4. idx \in Idx
  BY NextIdxInTurn DEF Inv, StackOK
<1>5. top \in Entry
  BY <1>2, <1>3, <1>4 DEF Entry
<1>6. /\ idxstack \in Seq(Entry)
      /\ Len(idxstack) \in Nat /\ Len(idxstack) <= MaxBuf /\ MaxBuf \in Nat
  BY ProcessDataAssumption DEF Inv, StackOK
<1>7. /\ ~full => idxstack' = Append(idxstack, top)
      /\ full => idxstack' = idxstack
  <2>1. idxstack' = PushIndex(idx)
    BY Zenon DEF SendDatagram
  <2>2. full <=> ~(Len(idxstack) < MaxBuf)
    BY <1>6
  <2> QED
    BY <2>1, <2>2, Zenon DEF PushIndex
<1>8. /\ hist' \in History /\ hist'.received = hist.received
      /\ hist'.early = hist.early
      /\ hist'.overrun = (hist.overrun \/ full)
      /\ hist'.crossed = (hist.crossed \/ full)
  <2> HIDE DEF full
  <2>1. hist \in History
    BY DEF Inv, CallsOK
  <2>2. hist' = [hist EXCEPT !.lost = hist.lost + IF sent THEN 0 ELSE 1,
                             !.overrun = hist.overrun \/ full,
                             !.crossed = hist.crossed \/ full]
    BY Zenon DEF SendDatagram, full
  <2>3. PICK n \in Nat : n = hist.lost + IF sent THEN 0 ELSE 1
    BY <2>1 DEF History
  <2>4. PICK o \in BOOLEAN, c \in BOOLEAN :
          o = (hist.overrun \/ full) /\ c = (hist.crossed \/ full)
    BY Zenon
  <2>5. hist' = [hist EXCEPT !.lost = n, !.overrun = o, !.crossed = c]
    BY <2>2, <2>3, <2>4, Zenon
  <2>6. /\ hist' \in History /\ hist'.received = hist.received
        /\ hist'.early = hist.early
        /\ hist'.overrun = o /\ hist'.crossed = c
    BY <2>1, <2>5 DEF History
  <2> QED
    BY <2>4, <2>6, Zenon
<1>9. ~full => /\ InTurn'
               /\ idxstack' \in Seq(Entry)
               /\ Len(idxstack') = Len(idxstack) + 1
               /\ idxstack'[Len(idxstack) + 1] = top
               /\ \A i \in 1 .. Len(idxstack) : idxstack'[i] = idxstack[i]
  <2> HIDE DEF idx
  <2>1. top.idx = idx
    OBVIOUS
  <2> HIDE DEF top
  <2> SUFFICES ASSUME ~full
               PROVE  /\ InTurn'
                      /\ idxstack' \in Seq(Entry)
                      /\ Len(idxstack') = Len(idxstack) + 1
                      /\ idxstack'[Len(idxstack) + 1] = top
                      /\ \A i \in 1 .. Len(idxstack) :
                           idxstack'[i] = idxstack[i]
    OBVIOUS
  <2>2. Len(idxstack) < MaxBuf /\ idxstack' = Append(idxstack, top)
    <3>1. Len(idxstack) < MaxBuf
      BY <1>6
    <3> QED
      BY <1>7, <3>1, Zenon
  <2>3. StackOK /\ pulled = 0 /\ top.idx = NextIdx /\ lastidx' = NextIdx
    BY <1>1, <2>1 DEF idx, Inv
  <2> HIDE DEF full
  <2> QED
    BY <1>5, <2>2, <2>3, PushInTurn
<1> HIDE DEF top, idx, frame
<1>10. /\ \A x \in Pending : x \in Pending'
       /\ idx \in Pending'
  <2>1. CASE full
    <3>1. Pending' = Pending
      BY <1>1, <1>7, <2>1 DEF Pending
    <3> QED
      BY <1>1, <1>4, <2>1, <3>1, FullStack DEF Inv
  <2>2. CASE ~full
    <3>1. \A i \in 1 .. Len(idxstack) : idxstack'[i] = idxstack[i]
      BY <1>9, <2>2
    <3>2. Len(idxstack) + 1 \in 1 .. Len(idxstack')
          /\ \A i \in 1 .. Len(idxstack) : i \in 1 .. Len(idxstack')
      BY <1>6, <1>9, <2>2
    <3>3. \A x \in Pending : x \in Pending'
      BY <1>1, <3>1, <3>2 DEF Pending
    <3>4. idxstack'[Len(idxstack) + 1].idx = idx
      BY <1>9, <2>2 DEF top
    <3>5. idx \in Pending'
      BY <1>1, <3>2, <3>4 DEF Pending
    <3> QED
      BY <3>3, <3>5
  <2> QED
    BY <2>1, <2>2
<1>11. StackOK'
  <2>1. used' \subseteq Pending'
    BY <1>1, <1>10 DEF Inv, StackOK, BuffersOnStack, Pending
  <2>2. \A f \in wire' : f.idx \in Pending'
    <3>1. frame.idx = idx
      BY DEF frame
    <3> QED
      BY <1>1, <1>10, <3>1 DEF Inv, StackOK
  <2>3. InTurn' /\ idxstack' \in Seq(Entry) /\ Len(idxstack') <= MaxBuf
        /\ Len(idxstack') >= Len(idxstack)
    <3>1. CASE full
      BY <1>6, <1>7, <3>1 DEF Inv, StackOK, InTurn
    <3>2. CASE ~full
      <4>1. Len(idxstack') = Len(idxstack) + 1
        BY <1>9, <3>2
      <4>2. Len(idxstack) < MaxBuf
        BY <1>6, <3>2
      <4>3. Len(idxstack') <= MaxBuf /\ Len(idxstack') >= Len(idxstack)
        BY <1>6, <4>1, <4>2
      <4> QED
        BY <1>9, <3>2, <4>3, Zenon
    <3> QED
      BY <3>1, <3>2
  <2>4. pulled' \in 0 .. Len(idxstack') /\ pulled' = 0
    BY <1>1, <1>6, <2>3
  <2>5. lastidx' \in Idx
    BY <1>1, <1>4
  <2> QED
    BY <2>1, <2>2, <2>3, <2>4, <2>5 DEF StackOK, BuffersOnStack, Pending
<1>12. CallsOK'
  <2>1. pc' \in {"idle", "send"} /\ pass' = "mapped"
    BY <1>1, Zenon DEF SendDatagram, Loop, mapvars
  <2>2. ~hist'.received /\ hist'.overrun => hist'.crossed
    <3>1. hist.overrun => hist.crossed
      BY <1>2 DEF Inv, CallsOK
    <3> QED
      BY <1>8, <3>1, Zenon
  <2>3. UNCHANGED <<nsegments, group>>
    BY <1>1 DEF mapvars, nsegments
  <2>4. nsegments \in Nat /\ nsegments > 0 /\ group.Obytes \in Nat
    <3>1. nsegments \in Nat /\ group.Obytes \in Nat
      BY MapNumbers DEF Inv, MapOK, nsegments
    <3> QED
      BY <1>2, <3>1
  <2>5. pc' = "send" =>
          /\ cmd' \in Cmds
          /\ currentsegment' \in 0 .. nsegments - 1
          /\ addr' \in Nat /\ length' \in Int
          /\ cmd' = "LRW" <=> ~blockLRW
          /\ cmd' = "LRD" => group.Obytes <= addr'
          /\ cmd' = "LWR" => length' >= 0
    <3> DEFINE left == length - Sublength
    <3>1. CASE /\ Loop(cmd, addr + Sublength, left, currentsegment + 1)
               /\ currentsegment + 1 < nsegments
      <4>1. /\ cmd' = cmd /\ addr' = addr + Sublength /\ length' = left
            /\ currentsegment' = currentsegment + 1
        BY <3>1 DEF Loop
      <4>2. /\ left \in Int /\ addr + Sublength \in Nat
            /\ addr <= addr + Sublength
            /\ currentsegment + 1 \in 0 .. nsegments - 1
            /\ cmd = "LWR" => left >= 0
        BY <1>2, <1>3, <2>4, <3>1
      <4> HIDE DEF left
      <4>3. ASSUME group.Obytes <= addr
            PROVE  group.Obytes <= addr + Sublength
        <5>1. addr \in Nat
          BY <1>2
        <5> QED
          BY <1>3, <2>4, <4>3, <5>1
      <4>4. cmd = "LRD" => group.Obytes <= addr'
        BY <1>2, <4>1, <4>3
      <4>5. cmd' = "LRW" <=> ~blockLRW
        BY <1>2, <4>1
      <4> QED
        BY <1>2, <4>1, <4>2, <4>4, <4>5
    <3>2. CASE cmd = "LRD" /\ StartLWR
      BY <1>2, <2>4, <3>2 DEF StartLWR, Loop, Cmds
    <3> QED
      BY <1>1, <3>1, <3>2 DEF SendDatagram
  <2>6. {blockLRW, hasdc, first}' \subseteq BOOLEAN
    BY <1>1 DEF Inv, CallsOK
  <2>7. version' \in Nat
    BY <1>1 DEF Inv, CallsOK
  <2> QED
    BY <1>1, <1>2, <1>8, <2>1, <2>2, <2>3, <2>5, <2>6, <2>7 DEF CallsOK
<1>13. ASSUME NEW f \in wire PROVE FrameOK(f)'
  <2>1. FrameOK(f)
    BY DEF Inv, WireOK
  <2>2. ~hist'.crossed => ~hist.crossed
    BY <1>8, Zenon
  <2>3. ~hist'.overrun =>
          \E i \in pulled' + 1 .. Len(idxstack') : DescribedBy(f, idxstack'[i])
    <3> SUFFICES ASSUME ~hist'.overrun
        PROVE \E i \in pulled' + 1 .. Len(idxstack') :
                DescribedBy(f, idxstack'[i])
      OBVIOUS
    <3>1. ~full /\ ~hist.overrun
      BY <1>8, Zenon
    <3>2. PICK i \in pulled + 1 .. Len(idxstack) : DescribedBy(f, idxstack[i])
      BY <2>1, <3>1 DEF FrameOK
    <3>3. idxstack'[i] = idxstack[i] /\ i \in pulled' + 1 .. Len(idxstack')
      BY <1>1, <1>6, <1>9, <3>1, <3>2
    <3> QED
      BY <3>2, <3>3
  <2> QED
    BY <1>1, <1>8, <2>1, <2>2, <2>3 DEF FrameOK, DescribedBy, mapvars, Outputs
<1>14. ASSUME NEW g, g = frame PROVE FrameOK(g)'
  <2>1. /\ g.idx = idx /\ g.cmd = cmd /\ g.start = addr
        /\ g.length = Sublength /\ g.data = Reply
    BY <1>14 DEF frame
  <2>2. cmd = "LRW" /\ ~hist'.early /\ ~hist'.crossed =>
          \A k \in 0 .. Sublength - 1 :
            addr + k \in Outputs => Reply[k] = Byte(addr + k, version)
    <3> SUFFICES ASSUME cmd = "LRW", ~hist'.early, ~hist'.crossed,
                        NEW k \in 0 .. Sublength - 1, addr + k \in Outputs
                 PROVE  Reply[k] = Byte(addr + k, version)
      OBVIOUS
    <3>1. Reply[k] = image[addr + k]
      BY DEF Reply
    <3>2. ~hist.early /\ ~hist.crossed
      BY <1>8, Zenon
    <3> QED
      BY <1>1, <3>1, <3>2 DEF Inv, ImageOK
  <2>3. ~hist'.overrun =>
          \E i \in pulled' + 1 .. Len(idxstack') :
            DescribedBy(g, idxstack'[i])
    <3> SUFFICES ASSUME ~hist'.overrun
        PROVE \E i \in pulled' + 1 .. Len(idxstack') :
                DescribedBy(g, idxstack'[i])
      OBVIOUS
    <3>1. ~full
      BY <1>8, Zenon
    <3>2. /\ idxstack'[Len(idxstack) + 1] = top
          /\ Len(idxstack) + 1 \in pulled' + 1 .. Len(idxstack')
      BY <1>1, <1>6, <1>9, <3>1
    <3>3. DescribedBy(g, top)
      BY <2>1 DEF DescribedBy, top
    <3> QED
      BY <3>2, <3>3
  <2> QED
    BY <1>1, <1>2, <1>3, <2>1, <2>2, <2>3 DEF FrameOK, Outputs, mapvars
<1>15. WireOK'
  <2> SUFFICES ASSUME NEW f \in wire' PROVE FrameOK(f)'
    BY DEF WireOK
  <2>1. f \in wire \/ f = frame
    BY <1>1
  <2> QED
    BY <1>13, <1>14, <2>1
<1>16. ImageOK'
  <2>1. ~hist'.crossed => ~hist.crossed
    BY <1>8, Zenon
  <2> QED
    BY <1>1, <1>8, <2>1 DEF Inv, ImageOK, Outputs, mapvars
<1> QED
  BY <1>1, <1>11, <1>12, <1>15, <1>16, MapKept DEF Inv

-----------------------------------------------------------------------------
(* Receive pulls a place of the stack and releases its buffer, whether the *)
(* frame came or not.                                                      *)
LEMMA PullOK ==
  ASSUME Inv, pc = "receive", pulled < Len(idxstack), Release(Top.idx),
         pulled' = pulled + 1, UNCHANGED <<mapvars, blockLRW, hasdc, lastidx,
                                           idxstack, pc, sendvars, version>>,
         hist' \in History, hist'.received = hist.received,
         hist'.early = hist.early, hist'.overrun = hist.overrun,
         hist'.crossed = hist.crossed
  PROVE  StackOK' /\ CallsOK' /\ WireOK'
<1>1. /\ Len(idxstack) \in Nat /\ pulled \in Nat
      /\ pulled + 1 \in 1 .. Len(idxstack)
      /\ \A i : i \in pulled' + 1 .. Len(idxstack')
                  <=> i \in pulled + 1 .. Len(idxstack) /\ i # pulled + 1
  BY DEF Inv, StackOK
<1>2. ASSUME NEW x \in Pending, x # Top.idx
      PROVE  x \in Pending'
  <2>1. PICK i \in pulled + 1 .. Len(idxstack) : x = idxstack[i].idx
    BY DEF Pending
  <2>2. i # pulled + 1
    BY <1>2, <2>1 DEF Top
  <2> QED
    BY <1>1, <2>1, <2>2 DEF Pending
<1>3. StackOK'
  <2>1. used' \subseteq Pending'
    BY <1>2 DEF Inv, StackOK, BuffersOnStack, Pending, Release
  <2>2. \A f \in wire' : f.idx \in Pending'
    BY <1>2 DEF Inv, StackOK, Release
  <2>3. pulled' \in 0 .. Len(idxstack')
    BY <1>1
  <2> QED
    BY <2>1, <2>2, <2>3
    DEF Inv, StackOK, InTurn, BuffersOnStack, Pending
<1>4. CallsOK'
  <2>1. pc' = "receive" /\ pass' = "mapped"
    BY DEF Inv, CallsOK, mapvars
  <2>2. /\ hist'.received => idxstack' = <<>>
        /\ ~hist'.received /\ hist'.overrun => hist'.crossed
    BY DEF Inv, CallsOK
  <2>3. {blockLRW, hasdc, first}' \subseteq BOOLEAN /\ version' \in Nat
    BY DEF Inv, CallsOK, sendvars
  <2> QED
    BY <2>1, <2>2, <2>3 DEF CallsOK
<1>5. WireOK'
  <2> SUFFICES ASSUME NEW f \in wire' PROVE FrameOK(f)'
    BY DEF WireOK
  <2>1. FrameOK(f) /\ f.idx # Top.idx
    BY DEF Inv, WireOK, Release
  <2>2. ~hist'.overrun =>
          \E i \in pulled' + 1 .. Len(idxstack') : DescribedBy(f, idxstack'[i])
    <3> SUFFICES ASSUME ~hist.overrun
        PROVE \E i \in pulled' + 1 .. Len(idxstack') :
                DescribedBy(f, idxstack'[i])
      OBVIOUS
    <3>1. PICK i \in pulled + 1 .. Len(idxstack) : DescribedBy(f, idxstack[i])
      BY <2>1 DEF FrameOK
    <3>2. i # pulled + 1
      BY <2>1, <3>1 DEF Top, DescribedBy
    <3> QED
      BY <1>1, <3>1, <3>2
  <2> QED
    BY <2>1, <2>2 DEF FrameOK, DescribedBy, mapvars, Outputs
<1> QED
  BY <1>3, <1>4, <1>5

(* The frame receive finds for the place it pulls is the one the place     *)
(* describes, as long as no buffer was taken twice.                        *)
LEMMA FrameOfTop ==
  ASSUME Inv, pulled < Len(idxstack), ~hist.overrun,
         NEW f \in wire, f.idx = Top.idx
  PROVE  DescribedBy(f, Top)
<1>1. PICK base \in Idx :
        \A i \in 1 .. Len(idxstack) : idxstack[i].idx = Shift(base, i)
  BY DEF Inv, StackOK, InTurn
<1>2. PICK i \in pulled + 1 .. Len(idxstack) : DescribedBy(f, idxstack[i])
  BY DEF Inv, WireOK, FrameOK
<1>3. /\ i \in 1 .. Len(idxstack) /\ pulled + 1 \in 1 .. Len(idxstack)
      /\ i \in 1 .. MaxBuf /\ pulled + 1 \in 1 .. MaxBuf
  BY ProcessDataAssumption DEF Inv, StackOK
<1>4. Shift(base, i) = Shift(base, pulled + 1)
  BY <1>1, <1>2, <1>3 DEF DescribedBy, Top
<1>5. i = pulled + 1
  BY <1>3, <1>4, ShiftsDiffer
<1> QED
  BY <1>2, <1>5 DEF Top

LEMMA ReceiveFrameInv ==
  ASSUME Inv, ReceiveFrame
  PROVE  Inv'
<1>1. PICK f \in wire : /\ f.idx = Top.idx
                        /\ image' = IF Copies(f) THEN Copied(Top, f) ELSE image
  BY DEF ReceiveFrame
<1>2. /\ pc = "receive" /\ pulled < Len(idxstack) /\ Release(Top.idx)
      /\ pulled' = pulled + 1
      /\ UNCHANGED <<mapvars, blockLRW, hasdc, lastidx, idxstack, pc,
                     sendvars, version, hist>>
  BY DEF ReceiveFrame
<1>3. StackOK' /\ CallsOK' /\ WireOK'
  <2>1. hist' = hist /\ hist \in History
    BY <1>2 DEF Inv, CallsOK
  <2> QED
    BY <1>2, <2>1, PullOK
<1>4. pass = "mapped"
  BY <1>2 DEF Inv, CallsOK
<1>5. DOMAIN image' = DOMAIN image
  BY <1>1 DEF Copied
<1>6. ASSUME ~hist.crossed, hist.early => blockLRW, NEW b \in Outputs
      PROVE  image'[b] = Byte(b, version)
  <2>1. image[b] = Byte(b, version) /\ b \in DOMAIN image
    BY <1>4, <1>6, MapTypesMapped DEF Inv, ImageOK
  <2>2. CASE ~Copies(f)
    BY <1>1, <2>1, <2>2
  <2>3. CASE Copies(f)
    <3>1. ~hist.overrun
      <4>1. ~hist.received
        <5>1. hist.received => idxstack = <<>>
          BY DEF Inv, CallsOK
        <5>2. idxstack = <<>> => Len(idxstack) = 0
          OBVIOUS
        <5>3. pulled \in Nat
          BY DEF Inv, StackOK
        <5> QED
          BY <1>2, <5>1, <5>2, <5>3
      <4> QED
        BY <1>6, <4>1 DEF Inv, CallsOK
    <3>2. Top.data = f.start /\ Top.length = f.length
      BY <1>1, <1>2, <3>1, FrameOfTop DEF DescribedBy
    <3>3. FrameOK(f)
      BY DEF Inv, WireOK
    <3>4. f.start \in Nat /\ f.length \in Int /\ group.Obytes \in Nat
          /\ b \in Nat /\ b < group.Obytes
      <4>1. group.Obytes \in Nat
        BY <1>4, MapTypesMapped DEF Inv
      <4> QED
        BY <1>6, <3>3, <4>1 DEF FrameOK, Outputs
    <3>5. image'[b] = IF b \notin f.start .. f.start + f.length - 1
                      THEN image[b]
                      ELSE IF b - f.start < f.length THEN f.data[b - f.start]
                      ELSE Junk
      BY <1>1, <2>1, <2>3, <3>2 DEF Copied
    <3>6. CASE b \notin f.start .. f.start + f.length - 1
      BY <2>1, <3>5, <3>6
    <3>7. CASE b \in f.start .. f.start + f.length - 1
      <4>1. f.cmd # "LRD"
        BY <3>3, <3>4, <3>7 DEF FrameOK
      <4>2. f.cmd = "LRW" /\ ~hist.early
        BY <1>6, <2>3, <3>3, <4>1 DEF Copies, FrameOK
      <4>3. /\ b - f.start \in 0 .. f.length - 1
            /\ f.start + (b - f.start) = b
        BY <3>4, <3>7
      <4>4. f.data[b - f.start] = Byte(b, version)
        BY <1>6, <3>3, <4>2, <4>3 DEF FrameOK
      <4>5. image'[b] = f.data[b - f.start]
        BY <3>4, <3>5, <3>7
      <4> QED
        BY <4>4, <4>5
    <3> QED
      BY <3>6, <3>7
  <2> QED
    BY <2>2, <2>3
<1>7. ImageOK'
  BY <1>2, <1>5, <1>6 DEF Inv, ImageOK, Outputs, mapvars
<1> QED
  BY <1>2, <1>3, <1>7, MapKept DEF Inv

LEMMA MissFrameInv ==
  ASSUME Inv, MissFrame
  PROVE  Inv'
<1>1. /\ pc = "receive" /\ pulled < Len(idxstack) /\ Release(Top.idx)
      /\ pulled' = pulled + 1
      /\ UNCHANGED <<mapvars, blockLRW, hasdc, image, lastidx, idxstack, pc,
                     sendvars, version>>
  BY DEF MissFrame
<1>2. /\ hist' \in History /\ hist'.received = hist.received
      /\ hist'.early = hist.early /\ hist'.crossed = hist.crossed
      /\ hist'.overrun = hist.overrun
  <2>1. hist \in History
    BY DEF Inv, CallsOK
  <2>2. \E n \in {0, 1} : hist' = [hist EXCEPT !.lost = hist.lost + n]
    BY DEF MissFrame
  <2> QED
    BY <2>1, <2>2 DEF History
<1>3. StackOK' /\ CallsOK' /\ WireOK'
  BY <1>1, <1>2, PullOK
<1>4. ImageOK'
  BY <1>1, <1>2 DEF Inv, ImageOK, Outputs, mapvars
<1> QED
  BY <1>1, <1>3, <1>4, MapKept DEF Inv

LEMMA EndReceiveInv ==
  ASSUME Inv, EndReceive
  PROVE  Inv'
<1>1. /\ pc = "receive" /\ pulled = Len(idxstack)
      /\ idxstack' = <<>> /\ pulled' = 0 /\ pc' = "idle"
      /\ UNCHANGED <<mapvars, blockLRW, hasdc, image, used, lastidx, wire,
                     sendvars, version>>
  BY DEF EndReceive
<1>2. /\ hist' \in History /\ hist'.received = TRUE
      /\ hist'.early = hist.early /\ hist'.crossed = hist.crossed
  <2>1. hist \in History
    BY DEF Inv, CallsOK
  <2>2. hist' = [hist EXCEPT !.received = TRUE]
    BY DEF EndReceive
  <2> QED
    BY <2>1, <2>2 DEF History
<1>3. used = {} /\ wire = {}
  <2>1. Pending = {}
    BY <1>1 DEF Inv, StackOK, Pending
  <2> QED
    BY <2>1 DEF Inv, StackOK, BuffersOnStack, Pending
<1>4. StackOK'
  <2>1. lastidx' \in Idx
    BY <1>1 DEF Inv, StackOK
  <2>2. /\ Len(idxstack') = 0 /\ idxstack' \in Seq(Entry)
        /\ \A i : i \notin 1 .. Len(idxstack')
    BY <1>1
  <2>3. PICK base \in Idx : base = lastidx' /\ base = Shift(base, 0)
    <3>1. \A i \in Idx : i = Shift(i, 0)
      BY ProcessDataAssumption DEF Shift, Idx
    <3> QED
      BY <2>1, <3>1
  <2>4. InTurn'
    BY <2>1, <2>2, <2>3 DEF InTurn, Shift
  <2> QED
    BY <1>1, <1>3, <2>1, <2>2, <2>4, ProcessDataAssumption
    DEF StackOK, BuffersOnStack
<1>5. CallsOK'
  BY <1>1, <1>2 DEF Inv, CallsOK, mapvars, sendvars
<1>6. WireOK'
  BY <1>1, <1>3 DEF WireOK
<1>7. ImageOK'
  BY <1>1, <1>2 DEF Inv, ImageOK, Outputs, mapvars
<1> QED
  BY <1>1, <1>4, <1>5, <1>6, <1>7, MapKept DEF Inv

LEMMA StepInv == Inv /\ [Next]_vars => Inv'
<1> SUFFICES ASSUME Inv, [Next]_vars PROVE Inv'
  OBVIOUS
<1>1. CASE UNCHANGED vars
  <2>1. UNCHANGED <<mapvars, blockLRW, hasdc, image, used, lastidx, idxstack,
                    pulled, wire, pc, sendvars, version, hist>>
    BY <1>1 DEF vars, datavars
  <2>2. StackOK'
    BY <2>1, StackKept DEF Inv, StackOK
  <2>3. CallsOK' /\ WireOK' /\ ImageOK'
    BY <2>1
    DEF Inv, CallsOK, WireOK, FrameOK, DescribedBy, ImageOK, Outputs,
        nsegments, mapvars, sendvars
  <2> QED
    BY <2>1, <2>2, <2>3, MapKept DEF Inv
<1> QED
  BY <1>1, ConfigMapInv, WriteOutputsInv, SendProcessdataInv,
     SendDatagramInv, ReceiveProcessdataInv, ReceiveFrameInv, MissFrameInv,
     EndReceiveInv DEF Next

LEMMA AlwaysInv == Spec => []Inv
BY InitInv, StepInv, PTL DEF Spec

-----------------------------------------------------------------------------
(* The types of the map: among them that no address, no segment and no     *)
(* counter is negative, whatever slaves are cut into how many segments.    *)
THEOREM MapTypesCorrect == Spec => []MapTypeOK
<1>1. Inv => MapTypeOK
  BY DEF Inv, MapOK
<1> QED
  BY AlwaysInv, <1>1, PTL

(* Every buffer that is not EMPTY is on the part of the stack that receive *)
(* has still to pull, for any number of sends in a row, failing ones and a *)
(* full stack included.                                                    *)
THEOREM NoBufferIsForgotten == Spec => []BuffersOnStack
<1>1. Inv => BuffersOnStack
  BY DEF Inv, StackOK
<1> QED
  BY AlwaysInv, <1>1, PTL

(* Receive restores no older outputs: what the application wrote last is   *)
(* in the image, unless LRW frames were on their way when it wrote it, or  *)
(* a buffer was taken twice since.                                         *)
THEOREM OutputsAreKept == Spec => []OutputsKept
<1>1. Inv => OutputsKept
  BY DEF Inv, ImageOK, OutputsKept, Idle
<1> QED
  BY AlwaysInv, <1>1, PTL

-----------------------------------------------------------------------------
(* The segments.  No segment is larger than the datagram it will be the    *)
(* data of, the clock included in the first: if the table did not run out. *)
Room(i) == IF i = 1 THEN FirstSize ELSE MaxData

SegmentsFit ==
  \A i \in 1 .. Len(IOsegment) : i <= MaxSegments => IOsegment[i] <= Room(i)

FitOK ==
  /\ SegmentsFit
  /\ segmentmaxsize <= Room(Len(IOsegment) + 1)
  /\ pass # "mapped" /\ ~cutting =>
       \/ segmentsize <= Room(Len(IOsegment) + 1)
       \/ Len(IOsegment) >= MaxSegments

(* The segments follow one another: e[i] is the address where segment i    *)
(* ends.  (SegmentEnd of ProcessData, as a function that exists.)          *)
Ends(e) ==
  /\ e \in [0 .. Len(IOsegment) -> Nat]
  /\ e[0] = 0
  /\ \A i \in 1 .. Len(IOsegment) : e[i] = e[i - 1] + IOsegment[i]

(* All addresses given away so far lie in a segment, the one that is still *)
(* open included, unless the table of segments ran out.                    *)
NoneDropped ==
  /\ pass = "mbxstatus" => Len(IOsegment) < MaxSegments - 1
  /\ pass = "mapped" => SegmentsEnough

Open == IF pass = "mapped" THEN 0 ELSE segmentsize

Laid(e) ==
  /\ Ends(e)
  /\ NoneDropped => e[Len(IOsegment)] + Open = LogAddr
  /\ pass # "outputs" => e[group.Isegment] + group.Ioffset = group.Obytes

LayoutOK ==
  /\ \E e \in [0 .. Len(IOsegment) -> Nat] : Laid(e)
  /\ pass = "mapped" => ImageSize = LogAddr

LEMMA Rooms ==
  /\ FirstSize \in Nat /\ FirstSize > 0 /\ FirstSize < MaxData
  /\ \A i \in Nat : Room(i) \in Nat /\ FirstSize <= Room(i)
  /\ \A i \in Nat : i > 1 => Room(i) = MaxData
BY IOMapAssumption DEF FirstSize, Room

LEMMA InitFitOK == MapInit => FitOK
<1> SUFFICES ASSUME MapInit PROVE FitOK
  OBVIOUS
<1>1. Len(IOsegment) = 0 /\ segmentsize = 0 /\ segmentmaxsize = FirstSize
  BY DEF MapInit
<1> QED
  BY <1>1, Rooms DEF FitOK, SegmentsFit

LEMMA InitLayoutOK == MapInit => LayoutOK
<1> SUFFICES ASSUME MapInit PROVE LayoutOK
  OBVIOUS
<1>1. /\ Len(IOsegment) = 0 /\ segmentsize = 0 /\ LogAddr = 0
      /\ pass = "outputs"
  BY DEF MapInit
<1> DEFINE e == [i \in 0 .. Len(IOsegment) |-> 0]
<1>2. e \in [0 .. Len(IOsegment) -> Nat] /\ Laid(e)
  BY <1>1 DEF Laid, Ends, Open
<1> QED
  BY <1>1, <1>2 DEF LayoutOK

LEMMA FitsAdded ==
  ASSUME IOsegment \in Seq(Nat), SegmentsFit, NEW n \in Nat,
         IOsegment' = Append(IOsegment, n),
         n <= Room(Len(IOsegment) + 1) \/ Len(IOsegment) >= MaxSegments
  PROVE  SegmentsFit'
<1>1. /\ Len(IOsegment) \in Nat /\ Len(IOsegment') = Len(IOsegment) + 1
      /\ IOsegment'[Len(IOsegment) + 1] = n
      /\ \A i \in 1 .. Len(IOsegment) : IOsegment'[i] = IOsegment[i]
  BY SegmentAdded
<1> SUFFICES ASSUME NEW i \in 1 .. Len(IOsegment) + 1, i <= MaxSegments
             PROVE  IOsegment'[i] <= Room(i)
  BY <1>1 DEF SegmentsFit, Room, FirstSize
<1>2. CASE i = Len(IOsegment) + 1
  BY <1>1, <1>2, IOMapAssumption
<1>3. CASE i \in 1 .. Len(IOsegment)
  BY <1>1, <1>3 DEF SegmentsFit
<1> QED
  BY <1>1, <1>2, <1>3

LEMMA StepFitOK ==
  ASSUME MapOK, FitOK, MapNext
  PROVE  FitOK'
<1>0. /\ segmentsize \in Nat /\ segmentmaxsize \in Nat
      /\ IOsegment \in Seq(Nat) /\ Len(IOsegment) \in Nat
      /\ MaxSegments \in Nat /\ MaxSegments > 0
      /\ MaxData \in Nat
  BY MapNumbers DEF MapOK
<1>room. /\ Room(Len(IOsegment) + 1) \in Nat
       /\ FirstSize <= Room(Len(IOsegment) + 1)
       /\ FirstSize \in Nat /\ FirstSize > 0 /\ FirstSize < MaxData
  <2>1. Len(IOsegment) + 1 \in Nat
    BY <1>0
  <2> QED
    BY <2>1, Rooms
<1>1. CASE SkipSlave \/ OutputsMapped \/ InputsMapped
  <2>1. UNCHANGED <<cutting, IOsegment, segmentsize, segmentmaxsize>>
        /\ pass # "mapped"
    BY <1>1 DEF SkipSlave, Mapping, OutputsMapped, InputsMapped
  <2> QED
    BY <2>1 DEF FitOK, SegmentsFit, Room, FirstSize
<1>2. CASE AddSlave
  <2>1. /\ Mapping /\ ~cutting /\ cutting'
        /\ \/ /\ Closes(Bytes(slave))
              /\ IOsegment' = Append(IOsegment, segmentsize)
              /\ segmentmaxsize' = MaxData
           \/ UNCHANGED <<IOsegment, segmentmaxsize>>
    BY <1>2 DEF AddSlave
  <2>2. CASE UNCHANGED <<IOsegment, segmentmaxsize>>
    BY <2>1, <2>2 DEF FitOK, SegmentsFit, Room, FirstSize
  <2>3. CASE /\ Closes(Bytes(slave))
             /\ IOsegment' = Append(IOsegment, segmentsize)
             /\ segmentmaxsize' = MaxData
    <3>1. segmentsize <= Room(Len(IOsegment) + 1)
      BY <1>0, <2>1, <2>3 DEF FitOK, Closes, Mapping
    <3>2. SegmentsFit'
      BY <1>0, <2>3, <3>1, FitsAdded DEF FitOK
    <3>3. Len(IOsegment') = Len(IOsegment) + 1
      BY <1>0, <2>3, SegmentAdded
    <3>4. segmentmaxsize' <= Room(Len(IOsegment') + 1)
      BY <1>0, <2>3, <3>3, Rooms
    <3> QED
      BY <2>1, <3>2, <3>4 DEF FitOK, Room, FirstSize
  <2> QED
    BY <2>1, <2>2, <2>3
<1>3. CASE CutSegment
  <2>1. /\ cutting /\ cutting'
        /\ IOsegment' = Append(IOsegment, segmentmaxsize)
        /\ segmentmaxsize' = MaxData
    BY <1>3 DEF CutSegment
  <2>2. SegmentsFit'
    BY <1>0, <2>1, FitsAdded DEF FitOK
  <2>3. Len(IOsegment') = Len(IOsegment) + 1
    BY <1>0, <2>1, SegmentAdded
  <2>4. segmentmaxsize' <= Room(Len(IOsegment') + 1)
    BY <1>0, <2>1, <2>3, Rooms
  <2> QED
    BY <2>1, <2>2, <2>4 DEF FitOK, Room, FirstSize
<1>4. CASE EndSlave
  <2>1. ~Overfull /\ UNCHANGED <<IOsegment, segmentsize, segmentmaxsize>>
    BY <1>4 DEF EndSlave
  <2>2. \/ segmentsize <= Room(Len(IOsegment) + 1)
        \/ Len(IOsegment) >= MaxSegments
    BY <1>0, <1>room, <2>1 DEF FitOK, Overfull
  <2> QED
    BY <2>1, <2>2 DEF FitOK, SegmentsFit, Room, FirstSize
<1>5. CASE MapMbxStatus
  <2>1. /\ pass = "mbxstatus" /\ UNCHANGED segmentmaxsize
        /\ \E diff \in {0, 1} :
             IF segmentsize + diff > FirstSize
             THEN IF Len(IOsegment) < MaxSegments - 1
                  THEN /\ IOsegment' = Append(IOsegment, segmentsize)
                       /\ segmentsize' = diff
                  ELSE UNCHANGED <<IOsegment, segmentsize>>
             ELSE /\ segmentsize' = segmentsize + diff
                  /\ UNCHANGED IOsegment
    BY <1>0, <1>5 DEF MapMbxStatus, FirstSize
  <2>2. ~cutting
    BY <2>1 DEF MapOK, Mapping
  <2>3. PICK diff \in {0, 1} :
             IF segmentsize + diff > FirstSize
             THEN IF Len(IOsegment) < MaxSegments - 1
                  THEN /\ IOsegment' = Append(IOsegment, segmentsize)
                       /\ segmentsize' = diff
                  ELSE UNCHANGED <<IOsegment, segmentsize>>
             ELSE /\ segmentsize' = segmentsize + diff
                  /\ UNCHANGED IOsegment
    BY <2>1
  <2>4. CASE /\ IOsegment' = Append(IOsegment, segmentsize)
             /\ segmentsize' = diff
    <3>1. SegmentsFit'
      BY <1>0, <2>1, <2>2, <2>4, FitsAdded DEF FitOK
    <3>2. Len(IOsegment') = Len(IOsegment) + 1
      BY <1>0, <2>4, SegmentAdded
    <3>3. Room(Len(IOsegment') + 1) = MaxData /\ MaxData > 1
      BY <1>0, <3>2, Rooms
    <3>4. segmentmaxsize' <= MaxData
      BY <2>1, IOMapAssumption DEF MapOK, MapTypeOK
    <3>5. segmentsize' <= MaxData
      BY <1>0, <2>4, <3>3
    <3> QED
      BY <3>1, <3>3, <3>4, <3>5 DEF FitOK, Room, FirstSize
  <2>5. CASE UNCHANGED IOsegment /\ segmentsize' <= FirstSize
    <3>1. segmentsize' <= Room(Len(IOsegment) + 1)
      BY <1>room, <2>5, <2>3, <1>0
    <3> QED
      BY <2>1, <2>5, <3>1 DEF FitOK, SegmentsFit, Room, FirstSize
  <2>6. CASE UNCHANGED <<IOsegment, segmentsize>>
    BY <2>1, <2>2, <2>6 DEF FitOK, SegmentsFit, Room, FirstSize
  <2> QED
    BY <1>0, <1>room, <2>3, <2>4, <2>5, <2>6
<1>6. CASE Mapped
  <2>1. /\ pass = "mbxstatus" /\ pass' = "mapped"
        /\ IOsegment' = Append(IOsegment, segmentsize)
        /\ UNCHANGED segmentmaxsize
    BY <1>6 DEF Mapped
  <2>2. ~cutting
    BY <2>1 DEF MapOK, Mapping
  <2>3. SegmentsFit'
    BY <1>0, <2>1, <2>2, FitsAdded DEF FitOK
  <2>4. Room(Len(IOsegment') + 1) = MaxData
    BY <1>0, <2>1, SegmentAdded, Rooms
  <2>5. segmentmaxsize' <= MaxData
    BY <2>1, IOMapAssumption DEF MapOK, MapTypeOK
  <2> QED
    BY <2>1, <2>3, <2>4, <2>5 DEF FitOK, Room, FirstSize
<1> QED
  BY <1>1, <1>2, <1>3, <1>4, <1>5, <1>6 DEF MapNext

(* What the segments' ends are, when one is added.                         *)
LEMMA EndsAdded ==
  ASSUME IOsegment \in Seq(Nat), NEW e, Ends(e), NEW n \in Nat,
         IOsegment' = Append(IOsegment, n)
  PROVE  \E d \in [0 .. Len(IOsegment') -> Nat] :
           /\ Ends(d)'
           /\ Len(IOsegment') = Len(IOsegment) + 1
           /\ d[Len(IOsegment) + 1] = e[Len(IOsegment)] + n
           /\ \A i \in 0 .. Len(IOsegment) : d[i] = e[i]
<1>1. /\ Len(IOsegment) \in Nat /\ Len(IOsegment') = Len(IOsegment) + 1
      /\ IOsegment'[Len(IOsegment) + 1] = n
      /\ \A i \in 1 .. Len(IOsegment) : IOsegment'[i] = IOsegment[i]
  BY SegmentAdded
<1> DEFINE last == Len(IOsegment)
           d == [i \in 0 .. last + 1 |->
                   IF i <= last THEN e[i] ELSE e[last] + n]
<1>2. e \in [0 .. last -> Nat] /\ e[0] = 0
      /\ \A i \in 1 .. last : e[i] = e[i - 1] + IOsegment[i]
  BY DEF Ends
<1>3. PICK g \in [0 .. last + 1 -> Nat] : g = d
  <2>1. e[last] + n \in Nat
    <3>1. last \in 0 .. last
      BY <1>1
    <3>2. e[last] \in Nat
      BY <1>2, <3>1
    <3> QED
      BY <3>2
  <2>2. d \in [0 .. last + 1 -> Nat]
    BY <1>1, <1>2, <2>1
  <2> QED
    BY <2>2
<1>4. g[last + 1] = e[last] + n /\ \A i \in 0 .. last : g[i] = e[i]
  BY <1>1, <1>3
<1> HIDE DEF d
<1>5. ASSUME NEW i \in 1 .. last + 1
      PROVE  g[i] = g[i - 1] + IOsegment'[i]
  <2>1. CASE i = last + 1
    BY <1>1, <1>4, <2>1
  <2>2. CASE i \in 1 .. last
    <3>1. i \in 0 .. last /\ i - 1 \in 0 .. last
      BY <1>1, <2>2
    <3>2. g[i] = e[i] /\ g[i - 1] = e[i - 1]
      BY <1>4, <3>1
    <3> QED
      BY <1>1, <1>2, <2>2, <3>2
  <2> QED
    BY <1>1, <2>1, <2>2
<1>6. g[0] = 0
  BY <1>1, <1>2, <1>4
<1>7. Ends(g)'
  BY <1>1, <1>3, <1>5, <1>6 DEF Ends
<1> QED
  BY <1>1, <1>3, <1>4, <1>7

(* Closing a segment takes from the open one what it adds to the ends.     *)
LEMMA LaidClosed ==
  ASSUME MapOK, LayoutOK, NEW n \in Nat, IOsegment' = Append(IOsegment, n),
         NoneDropped' =>
           NoneDropped /\ n + Open' + LogAddr = LogAddr' + Open,
         pass' # "outputs" =>
           /\ pass # "outputs"
           /\ group'.Isegment = group.Isegment
           /\ group'.Ioffset = group.Ioffset
           /\ group'.Obytes = group.Obytes,
         Open' \in Nat, LogAddr' \in Nat
  PROVE  \E d \in [0 .. Len(IOsegment') -> Nat] : Laid(d)'
<1>1. PICK e \in [0 .. Len(IOsegment) -> Nat] : Laid(e)
  BY DEF LayoutOK
<1>2. /\ IOsegment \in Seq(Nat) /\ Len(IOsegment) \in Nat
      /\ group.Isegment \in Nat /\ LogAddr \in Nat /\ Open \in Nat
  BY MapNumbers DEF MapOK, Open
<1>3. PICK d \in [0 .. Len(IOsegment') -> Nat] :
           /\ Ends(d)'
           /\ Len(IOsegment') = Len(IOsegment) + 1
           /\ d[Len(IOsegment) + 1] = e[Len(IOsegment)] + n
           /\ \A i \in 0 .. Len(IOsegment) : d[i] = e[i]
  BY <1>1, <1>2, EndsAdded DEF Laid
<1>4. e[Len(IOsegment)] \in Nat /\ Open' \in Nat /\ LogAddr' \in Nat
  <2>1. Len(IOsegment) \in 0 .. Len(IOsegment)
    BY <1>2
  <2> QED
    BY <2>1
<1>5. ASSUME NoneDropped' PROVE d[Len(IOsegment')] + Open' = LogAddr'
  <2>1. e[Len(IOsegment)] + Open = LogAddr
    BY <1>1, <1>5 DEF Laid
  <2>2. n + Open' + LogAddr = LogAddr' + Open
    BY <1>5
  <2>3. d[Len(IOsegment')] = e[Len(IOsegment)] + n
    BY <1>3
  <2>4. PICK f \in Nat : f = e[Len(IOsegment)]
    BY <1>4
  <2>5. f + Open = LogAddr
    BY <2>1, <2>4
  <2>6. PICK o \in Nat, p \in Nat : o = Open /\ p = Open'
    BY <1>2, <1>4
  <2>7. f + o = LogAddr /\ n + p + LogAddr = LogAddr' + o
    BY <2>2, <2>5, <2>6
  <2>8. f + n + p = LogAddr'
    <3>1. PICK l \in Nat, m \in Nat : l = LogAddr /\ m = LogAddr'
      BY <1>2, <1>4
    <3>2. f + o = l /\ n + p + l = m + o
      BY <2>7, <3>1
    <3>3. f + n + p = m
      BY <3>2
    <3> QED
      BY <3>1, <3>3
  <2> QED
    BY <2>3, <2>4, <2>6, <2>8
<1>6. pass' # "outputs" =>
        d[group'.Isegment] + group'.Ioffset = group'.Obytes
  <2>1. pass # "outputs" => group.Isegment \in 0 .. Len(IOsegment)
    BY <1>2 DEF MapOK, OffsetOK
  <2> QED
    BY <1>1, <1>3, <2>1 DEF Laid
<1>7. Laid(d)'
  BY <1>3, <1>5, <1>6 DEF Laid
<1> QED
  BY <1>7

(* Steps that close none.                                                  *)
LEMMA LaidKept ==
  ASSUME MapOK, LayoutOK, UNCHANGED IOsegment,
         NoneDropped' => NoneDropped /\ Open' + LogAddr = LogAddr' + Open,
         pass' # "outputs" =>
           \/ /\ pass # "outputs"
              /\ group'.Isegment = group.Isegment
              /\ group'.Ioffset = group.Ioffset
              /\ group'.Obytes = group.Obytes
           \/ /\ pass = "outputs"
              /\ group'.Isegment = Len(IOsegment)
              /\ group'.Ioffset = segmentsize
              /\ group'.Obytes = LogAddr,
         Open' \in Nat, LogAddr' \in Nat
  PROVE  \E d \in [0 .. Len(IOsegment') -> Nat] : Laid(d)'
<1>1. PICK e \in [0 .. Len(IOsegment) -> Nat] : Laid(e)
  BY DEF LayoutOK
<1>2. /\ Len(IOsegment) \in Nat /\ LogAddr \in Nat /\ Open \in Nat
      /\ e[Len(IOsegment)] \in Nat
  <2>1. Len(IOsegment) \in Nat /\ LogAddr \in Nat /\ Open \in Nat
    BY MapNumbers DEF MapOK, Open
  <2>2. Len(IOsegment) \in 0 .. Len(IOsegment)
    BY <2>1
  <2> QED
    BY <2>1, <2>2
<1>len. Len(IOsegment') = Len(IOsegment)
  OBVIOUS
<1>3. Ends(e)'
  BY <1>1 DEF Laid, Ends
<1>4. ASSUME NoneDropped' PROVE e[Len(IOsegment')] + Open' = LogAddr'
  <2>1. e[Len(IOsegment)] + Open = LogAddr
    BY <1>1, <1>4 DEF Laid
  <2>2. Open' + LogAddr = LogAddr' + Open /\ Open' \in Nat /\ LogAddr' \in Nat
    BY <1>4
  <2>3. PICK f \in Nat : f = e[Len(IOsegment)]
    BY <1>2
  <2>4. f + Open = LogAddr
    BY <2>1, <2>3
  <2>5. PICK o \in Nat, p \in Nat, l \in Nat, m \in Nat :
          o = Open /\ p = Open' /\ l = LogAddr /\ m = LogAddr'
    BY <1>2, <2>2
  <2>6. f + o = l /\ p + l = m + o
    BY <2>2, <2>4, <2>5
  <2>7. f + p = m
    BY <2>6
  <2> QED
    BY <1>len, <2>3, <2>5, <2>7
<1>5. pass' # "outputs" =>
        e[group'.Isegment] + group'.Ioffset = group'.Obytes
  BY <1>1 DEF Laid, Open, NoneDropped
<1>6. Laid(e)'
  BY <1>3, <1>4, <1>5 DEF Laid
<1> QED
  BY <1>6

LEMMA StepLayoutOK ==
  ASSUME MapOK, LayoutOK, MapNext
  PROVE  LayoutOK'
<1>0. /\ LogAddr \in Nat /\ segmentsize \in Nat /\ segmentmaxsize \in Nat
      /\ IOsegment \in Seq(Nat) /\ Len(IOsegment) \in Nat
      /\ MaxSegments \in Nat
  BY MapNumbers DEF MapOK
<1>1. LogAddr' \in Nat /\ segmentsize' \in Nat /\ Open' \in Nat
  <2>1. MapTypeOK'
    BY StepMapOK DEF MapOK
  <2> QED
    BY <2>1 DEF MapTypeOK, Open
<1>2. ASSUME pass' # "mapped", \E d \in [0 .. Len(IOsegment') -> Nat] : Laid(d)'
      PROVE  LayoutOK'
  BY <1>2 DEF LayoutOK
<1>3. CASE SkipSlave \/ EndSlave
  <2>1. /\ UNCHANGED <<pass, LogAddr, segmentsize, IOsegment>>
        /\ pass \in {"outputs", "inputs"}
        /\ \A f \in {"Obytes", "Isegment", "Ioffset"} : group'[f] = group[f]
    <3>1. CASE SkipSlave
      BY <3>1 DEF SkipSlave, Mapping
    <3>2. CASE EndSlave
      <4>1. CountWKC(IF segmentsize > 0 THEN 1 ELSE 0) /\ cutting
        BY <3>2 DEF EndSlave
      <4>2. pass \in {"outputs", "inputs"}
        BY <4>1 DEF MapOK, Mapping
      <4> QED
        BY <3>2, <4>1, <4>2, Counted DEF EndSlave, MapOK
    <3> QED
      BY <1>3, <3>1, <3>2
  <2>2. NoneDropped /\ Open' + LogAddr = LogAddr' + Open
    BY <1>0, <2>1 DEF NoneDropped, Open
  <2> QED
    BY <1>1, <1>2, <2>1, <2>2, LaidKept
<1>4. CASE AddSlave
  <2> DEFINE diff == Bytes(slave)
  <2>1. /\ pass \in {"outputs", "inputs"}
        /\ UNCHANGED <<pass, group>>
        /\ LogAddr' = LogAddr + diff
        /\ \/ /\ IOsegment' = Append(IOsegment, segmentsize)
              /\ segmentsize' = diff
           \/ /\ UNCHANGED IOsegment
              /\ segmentsize' = segmentsize + diff
    BY <1>4 DEF AddSlave, Mapping
  <2>2. NoneDropped /\ Open' = segmentsize' /\ Open = segmentsize
    BY <2>1 DEF NoneDropped, Open
  <2>3. diff \in Int
    <3>1. LogAddr' = LogAddr + diff
      BY <2>1
    <3>2. slave \in Slaves
      BY <1>4 DEF AddSlave, Mapping
    <3>3. slavelist \in Seq([Obytes : Nat, Ibytes : Nat, mbx : BOOLEAN])
          /\ Slaves = 1 .. Len(slavelist)
      BY MapNumbers DEF MapOK
    <3>4. slavelist[slave] \in [Obytes : Nat, Ibytes : Nat, mbx : BOOLEAN]
      BY <3>2, <3>3, Member
    <3> QED
      BY <3>4 DEF Bytes
  <2> HIDE DEF diff
  <2>4. CASE /\ IOsegment' = Append(IOsegment, segmentsize)
             /\ segmentsize' = diff
    <3>1. segmentsize + Open' + LogAddr = LogAddr' + Open
      BY <1>0, <2>1, <2>2, <2>3, <2>4
    <3> QED
      BY <1>0, <1>1, <1>2, <2>1, <2>2, <2>4, <3>1, LaidClosed
  <2>5. CASE UNCHANGED IOsegment /\ segmentsize' = segmentsize + diff
    <3>1. Open' + LogAddr = LogAddr' + Open
      BY <1>0, <2>1, <2>2, <2>3, <2>5
    <3> QED
      BY <1>1, <1>2, <2>1, <2>2, <2>5, <3>1, LaidKept
  <2> QED
    BY <2>1, <2>4, <2>5
<1>5. CASE CutSegment
  <2>1. /\ cutting /\ CountWKC(1) /\ segmentsize > segmentmaxsize
        /\ UNCHANGED <<pass, LogAddr>>
        /\ IOsegment' = Append(IOsegment, segmentmaxsize)
        /\ segmentsize' = segmentsize - segmentmaxsize
    BY <1>5 DEF CutSegment, Overfull
  <2>2. /\ pass \in {"outputs", "inputs"}
        /\ \A f \in {"Obytes", "Isegment", "Ioffset"} : group'[f] = group[f]
    BY <2>1, Counted DEF MapOK, Mapping
  <2>3. NoneDropped /\ Open' = segmentsize' /\ Open = segmentsize
    BY <2>1, <2>2 DEF NoneDropped, Open
  <2>4. segmentmaxsize + Open' + LogAddr = LogAddr' + Open
    BY <1>0, <2>1, <2>3
  <2> QED
    BY <1>0, <1>1, <1>2, <2>1, <2>2, <2>3, <2>4, LaidClosed
<1>6. CASE OutputsMapped \/ InputsMapped
  <2>1. /\ UNCHANGED <<LogAddr, segmentsize, IOsegment>>
        /\ pass' \in {"inputs", "mbxstatus"} /\ pass \in {"outputs", "inputs"}
    BY <1>6 DEF OutputsMapped, InputsMapped
  <2>2. NoneDropped /\ Open' + LogAddr = LogAddr' + Open
    BY <1>0, <2>1 DEF NoneDropped, Open
  <2>3. \/ /\ pass # "outputs"
           /\ group'.Isegment = group.Isegment
           /\ group'.Ioffset = group.Ioffset
           /\ group'.Obytes = group.Obytes
        \/ /\ pass = "outputs"
           /\ group'.Isegment = Len(IOsegment)
           /\ group'.Ioffset = segmentsize
           /\ group'.Obytes = LogAddr
    <3>1. group \in [GroupFields -> Nat]
      BY DEF MapOK, MapTypeOK
    <3>2. CASE OutputsMapped
      BY <3>1, <3>2 DEF OutputsMapped, GroupFields
    <3>3. CASE InputsMapped
      BY <3>1, <3>3 DEF InputsMapped, GroupFields
    <3> QED
      BY <1>6, <3>2, <3>3
  <2> QED
    BY <1>1, <1>2, <2>1, <2>2, <2>3, LaidKept
<1>7. CASE MapMbxStatus
  <2>1. /\ pass = "mbxstatus" /\ UNCHANGED pass
        /\ \E diff \in {0, 1} :
             /\ LogAddr' = LogAddr + diff
             /\ diff = 0 => UNCHANGED group
             /\ diff = 1 => \E n \in {0, 1} : CountWKC(n)
             /\ IF segmentsize + diff > MaxData - DCDatagram
                THEN IF Len(IOsegment) < MaxSegments - 1
                     THEN /\ IOsegment' = Append(IOsegment, segmentsize)
                          /\ segmentsize' = diff
                     ELSE UNCHANGED IOsegment
                ELSE /\ segmentsize' = segmentsize + diff
                     /\ UNCHANGED IOsegment
    BY <1>7 DEF MapMbxStatus
  <2>2. PICK diff \in {0, 1} :
             /\ LogAddr' = LogAddr + diff
             /\ diff = 0 => UNCHANGED group
             /\ diff = 1 => \E n \in {0, 1} : CountWKC(n)
             /\ IF segmentsize + diff > MaxData - DCDatagram
                THEN IF Len(IOsegment) < MaxSegments - 1
                     THEN /\ IOsegment' = Append(IOsegment, segmentsize)
                          /\ segmentsize' = diff
                     ELSE UNCHANGED IOsegment
                ELSE /\ segmentsize' = segmentsize + diff
                     /\ UNCHANGED IOsegment
    BY <2>1
  <2>3. \A f \in {"Obytes", "Isegment", "Ioffset"} : group'[f] = group[f]
    <3>1. ASSUME NEW n \in {0, 1}, CountWKC(n)
          PROVE  \A f \in {"Obytes", "Isegment", "Ioffset"} :
                   group'[f] = group[f]
      BY <3>1, Counted DEF MapOK
    <3> QED
      BY <2>2, <3>1
  <2>4. Open' = segmentsize' /\ Open = segmentsize
    BY <2>1 DEF Open
  <2>5. CASE /\ Len(IOsegment) < MaxSegments - 1
             /\ IOsegment' = Append(IOsegment, segmentsize)
             /\ segmentsize' = diff
    <3>1. NoneDropped
      BY <2>1, <2>5 DEF NoneDropped
    <3>2. segmentsize + Open' + LogAddr = LogAddr' + Open
      BY <1>0, <2>2, <2>4, <2>5
    <3> QED
      BY <1>0, <1>1, <1>2, <2>1, <2>3, <2>5, <3>1, <3>2, LaidClosed
  <2>6. CASE UNCHANGED IOsegment /\ segmentsize' = segmentsize + diff
    <3>1. NoneDropped' => NoneDropped
      BY <2>1, <2>6 DEF NoneDropped
    <3>2. Open' + LogAddr = LogAddr' + Open
      BY <1>0, <2>2, <2>4, <2>6
    <3> QED
      BY <1>1, <1>2, <2>1, <2>3, <2>6, <3>1, <3>2, LaidKept
  <2>7. CASE UNCHANGED IOsegment /\ ~(Len(IOsegment) < MaxSegments - 1)
    <3>1. ~NoneDropped'
      BY <2>1, <2>7 DEF NoneDropped
    <3> QED
      BY <1>1, <1>2, <2>1, <2>3, <2>7, <3>1, LaidKept
  <2> QED
    BY <2>2, <2>5, <2>6, <2>7
<1>8. CASE Mapped
  <2>1. /\ pass = "mbxstatus" /\ pass' = "mapped" /\ UNCHANGED LogAddr
        /\ IOsegment' = Append(IOsegment, segmentsize)
        /\ group' = [group EXCEPT
             !.mbxstatuslength = LogAddr - group.Obytes - group.Ibytes]
    BY <1>8 DEF Mapped
  <2>2. group \in [GroupFields -> Nat]
    BY DEF MapOK, MapTypeOK
  <2>3. /\ \A f \in GroupFields : f # "mbxstatuslength" =>
             group'[f] = group[f]
        /\ group'.mbxstatuslength = LogAddr - group.Obytes - group.Ibytes
    BY <2>1, <2>2 DEF GroupFields
  <2>4. Open' = 0 /\ Open = segmentsize
    BY <2>1 DEF Open
  <2>5. NoneDropped' => NoneDropped
    <3>1. Len(IOsegment') = Len(IOsegment) + 1
      BY <1>0, <2>1, SegmentAdded
    <3> QED
      BY <1>0, <2>1, <3>1 DEF NoneDropped, SegmentsEnough, nsegments
  <2>6. segmentsize + Open' + LogAddr = LogAddr' + Open
    BY <1>0, <2>1, <2>4
  <2>7. {"Obytes", "Ibytes", "Isegment", "Ioffset"} \subseteq GroupFields
    BY DEF GroupFields
  <2>8. \E d \in [0 .. Len(IOsegment') -> Nat] : Laid(d)'
    BY <1>0, <1>1, <2>1, <2>3, <2>5, <2>6, <2>7, LaidClosed
  <2>9. ImageSize' = LogAddr'
    <3>1. group.Obytes \in Nat /\ group.Ibytes \in Nat
      BY <2>2, <2>7
    <3> QED
      BY <1>0, <2>1, <2>3, <2>7, <3>1 DEF ImageSize
  <2> QED
    BY <2>8, <2>9 DEF LayoutOK
<1> QED
  BY <1>3, <1>4, <1>5, <1>6, <1>7, <1>8 DEF MapNext

-----------------------------------------------------------------------------
(* The frames.  The frames of a command on the wire cover the addresses    *)
(* from lo to hi, each once, and no others.                                *)
Covered(command, lo, hi) ==
  /\ \A f \in wire : f.cmd = command =>
       lo <= f.start /\ f.start + f.length <= hi
  /\ \A b \in lo .. hi - 1 : \E f \in wire :
       /\ f.cmd = command /\ Carries(f, b)
       /\ \A g \in wire : g.cmd = command /\ Carries(g, b) => g = f

(* LRD asks for the inputs and may ask for the status bytes behind them.   *)
InputsAsked ==
  \E hi \in group.Obytes + group.Ibytes .. ImageSize :
    Covered("LRD", group.Obytes, hi)

(* Where the loop of send has come to: at the end of a segment, or of the  *)
(* outputs in the segment where the inputs start.                          *)
Target ==
  CASE cmd = "LRW" -> ImageSize
    [] cmd = "LRD" -> group.Obytes + group.Ibytes
    [] cmd = "LWR" -> group.Obytes

Place(e) ==
  /\ addr = IF cmd = "LRD" /\ currentsegment = group.Isegment
            THEN group.Obytes ELSE e[currentsegment]
  /\ cmd = "LRD" => group.Isegment <= currentsegment
  /\ addr + length = Target

PlaceOK ==
  pc = "send" /\ SegmentsEnough =>
    \A e \in [0 .. Len(IOsegment) -> Nat] : Laid(e) => Place(e)

(* What is on the wire while send runs, and behind it, when it is the only *)
(* one since the last receive and none of its frames failed.               *)
Undisturbed ==
  /\ pass = "mapped" /\ SegmentsEnough
  /\ ~hist.received /\ hist.sends = 1 /\ hist.lost = 0

Asked ==
  CASE cmd = "LRW" -> Covered("LRW", 0, addr)
    [] cmd = "LRD" -> Covered("LRD", group.Obytes, addr)
                        /\ Covered("LWR", 0, 0)
    [] cmd = "LWR" -> Covered("LWR", 0, addr) /\ InputsAsked

Sent ==
  IF blockLRW THEN Covered("LWR", 0, group.Obytes) /\ InputsAsked
              ELSE Covered("LRW", 0, ImageSize)

AskedOK ==
  /\ ~hist.received => hist.sends > 0
  /\ Undisturbed => (pc = "send" => Asked) /\ (pc = "idle" => Sent)

(* The clock is in the first frame of LRW, and LRW frames are on the wire  *)
(* only where LRW is not blocked, and there no others.                     *)
FramesOK ==
  /\ \A f \in wire : f.cmd \in Cmds /\ (f.cmd = "LRW" <=> ~blockLRW)
  /\ SegmentsEnough => FramesFit
  /\ pc = "send" /\ cmd = "LRW" /\ first => currentsegment = 0

IInv == FitOK /\ LayoutOK /\ PlaceOK /\ AskedOK /\ FramesOK

LEMMA NothingCovered ==
  ASSUME NEW c, NEW lo \in Int, \A f \in wire : f.cmd # c
  PROVE  Covered(c, lo, lo)
BY DEF Covered

LEMMA CoveredKept ==
  ASSUME UNCHANGED wire, NEW c, NEW lo, NEW hi, Covered(c, lo, hi)
  PROVE  Covered(c, lo, hi)'
BY DEF Covered

(* A frame of another command changes nothing.                             *)
LEMMA CoveredStays ==
  ASSUME NEW frame, wire' = wire \cup {frame},
         NEW c, NEW lo, NEW hi, Covered(c, lo, hi), frame.cmd # c
  PROVE  Covered(c, lo, hi)'
<1>1. \A f \in wire' : f.cmd = c => f \in wire
  OBVIOUS
<1>2. \A f \in wire : f \in wire'
  OBVIOUS
<1> QED
  BY <1>1, <1>2 DEF Covered

(* A frame that starts where the others end covers what it carries.        *)
LEMMA CoveredMore ==
  ASSUME NEW frame, wire' = wire \cup {frame},
         \A f \in wire : f.start \in Int /\ f.length \in Int,
         NEW c, NEW lo \in Int, NEW mid \in Int, NEW n \in Nat,
         Covered(c, lo, mid), lo <= mid,
         frame.cmd = c, frame.start = mid, frame.length = n
  PROVE  Covered(c, lo, mid + n)'
<1>1. ASSUME NEW f \in wire', f.cmd = c
      PROVE  lo <= f.start /\ f.start + f.length <= mid + n
  BY <1>1 DEF Covered
<1>2. \A b : Carries(frame, b) <=> b \in mid .. mid + n - 1
  BY DEF Carries
<1>3. ASSUME NEW b \in lo .. mid + n - 1
      PROVE  \E f \in wire' :
               /\ f.cmd = c /\ Carries(f, b)
               /\ \A g \in wire' : g.cmd = c /\ Carries(g, b) => g = f
  <2>1. CASE b < mid
    <3>1. b \in lo .. mid - 1 /\ ~Carries(frame, b)
      BY <1>2, <2>1
    <3>2. PICK f \in wire :
            /\ f.cmd = c /\ Carries(f, b)
            /\ \A g \in wire : g.cmd = c /\ Carries(g, b) => g = f
      BY <3>1 DEF Covered
    <3> QED
      BY <3>1, <3>2
  <2>2. CASE b >= mid
    <3>1. Carries(frame, b)
      BY <1>2, <2>2
    <3>2. ASSUME NEW g \in wire, g.cmd = c PROVE ~Carries(g, b)
      BY <2>2, <3>2 DEF Covered, Carries
    <3> QED
      BY <3>1, <3>2
  <2> QED
    BY <2>1, <2>2
<1> QED
  BY <1>1, <1>3 DEF Covered

(* What the numbers are while send runs.                                   *)
LEMMA SendNumbers ==
  ASSUME Inv, LayoutOK, pc = "send"
  PROVE  /\ pass = "mapped"
         /\ cmd \in Cmds /\ addr \in Nat /\ length \in Int
         /\ Sublength \in Nat /\ Segment \in Nat
         /\ nsegments \in Nat /\ currentsegment \in Nat
         /\ currentsegment < nsegments
         /\ group.Isegment \in Nat /\ group.Ioffset \in Nat
         /\ group.Isegment < nsegments
         /\ group.Obytes \in Nat /\ group.Ibytes \in Nat
         /\ ImageSize \in Nat /\ group.Obytes + group.Ibytes <= ImageSize
<1>1. /\ pass = "mapped" /\ cmd \in Cmds /\ addr \in Nat /\ length \in Int
      /\ currentsegment \in 0 .. nsegments - 1
  BY DEF Inv, CallsOK
<1>2. Sublength \in Nat
  BY SublengthIsNat
<1>3. /\ IOsegment \in Seq(Nat) /\ Len(IOsegment) \in Nat
      /\ group.Isegment \in Nat /\ group.Ioffset \in Nat
      /\ group.Obytes \in Nat /\ group.Ibytes \in Nat
      /\ group.mbxstatuslength \in Nat
  BY MapNumbers DEF Inv, MapOK
<1>4. currentsegment + 1 \in 1 .. Len(IOsegment)
  BY <1>1, <1>3 DEF nsegments
<1>5. Segment \in Nat
  BY <1>3, <1>4, Member DEF Segment
<1>6. group.Isegment < nsegments
  BY <1>1 DEF Inv, MapOK, nsegments
<1>7. ImageSize \in Nat /\ group.Obytes + group.Ibytes <= ImageSize
  BY <1>3 DEF ImageSize
<1> QED
  BY <1>1, <1>2, <1>3, <1>5, <1>6, <1>7 DEF nsegments

(* A datagram that is not the last one of its command ends where its       *)
(* segment does, the last one where the command has asked for all.         *)
LEMMA Advance ==
  ASSUME Inv, LayoutOK, pc = "send", SegmentsEnough,
         NEW e \in [0 .. Len(IOsegment) -> Nat], Laid(e), Place(e),
         NEW past \in Nat, past = addr + Sublength
  PROVE  /\ length - Sublength # 0 => past = e[currentsegment + 1]
         /\ length - Sublength = 0 \/ currentsegment + 1 >= nsegments =>
              CASE cmd = "LRW" -> past = ImageSize
                [] cmd = "LRD" -> past \in group.Obytes + group.Ibytes
                                           .. ImageSize
                [] cmd = "LWR" -> past = group.Obytes
<1>1. /\ pass = "mapped"
      /\ cmd \in Cmds /\ addr \in Nat /\ length \in Int
      /\ Sublength \in Nat /\ Segment \in Nat
      /\ nsegments \in Nat /\ currentsegment \in Nat
      /\ currentsegment < nsegments
      /\ group.Isegment \in Nat /\ group.Ioffset \in Nat
      /\ group.Obytes \in Nat /\ group.Ibytes \in Nat
      /\ ImageSize \in Nat /\ group.Obytes + group.Ibytes <= ImageSize
  BY SendNumbers
<1>2. PICK from \in Nat, to \in Nat :
           /\ from = e[currentsegment] /\ to = e[currentsegment + 1]
           /\ to = from + Segment
  <2>1. /\ currentsegment + 1 \in 1 .. Len(IOsegment)
        /\ currentsegment + 1 \in 0 .. Len(IOsegment)
        /\ currentsegment \in 0 .. Len(IOsegment)
        /\ currentsegment + 1 - 1 = currentsegment
    BY <1>1 DEF nsegments
  <2>2. e[currentsegment + 1] = e[currentsegment] + Segment
    BY <2>1 DEF Laid, Ends, Segment
  <2>3. e[currentsegment + 1] \in Nat /\ e[currentsegment] \in Nat
    BY <2>1
  <2> QED
    BY <2>2, <2>3
<1>3. currentsegment + 1 >= nsegments => to = ImageSize
  <2>1. currentsegment + 1 >= nsegments =>
          currentsegment + 1 = Len(IOsegment)
    <3>1. PICK l \in Nat, c \in Nat :
            l = Len(IOsegment) /\ c = currentsegment
      BY <1>1 DEF nsegments
    <3>2. c < l
      BY <1>1, <3>1 DEF nsegments
    <3>3. c + 1 >= l => c + 1 = l
      BY <3>2
    <3> QED
      BY <3>1, <3>3 DEF nsegments
  <2>2. e[Len(IOsegment)] + 0 = ImageSize
    BY <1>1 DEF Laid, NoneDropped, Open, LayoutOK
  <2>3. to + 0 = to
    BY <1>2
  <2> QED
    BY <1>2, <2>1, <2>2, <2>3
<1>4. CASE cmd = "LRW"
  <2>1. addr = from /\ addr + length = ImageSize /\ Sublength = Segment
    BY <1>2, <1>4 DEF Place, Target, Sublength
  <2> QED
    BY <1>1, <1>2, <1>3, <1>4, <2>1
<1>5. CASE cmd = "LRD"
  <2>1. addr + length = group.Obytes + group.Ibytes
    BY <1>5 DEF Place, Target
  <2>2. past = to
    <3>1. CASE currentsegment = group.Isegment
      <4>1. Sublength = Segment - group.Ioffset /\ addr = group.Obytes
        BY <1>5, <3>1 DEF Place, Sublength
      <4>2. from + group.Ioffset = group.Obytes
        BY <1>1, <1>2, <3>1 DEF Laid
      <4> QED
        BY <1>1, <1>2, <4>1, <4>2
    <3>2. CASE currentsegment # group.Isegment
      <4>1. Sublength = Segment /\ addr = from
        BY <1>2, <1>5, <3>2 DEF Place, Sublength
      <4> QED
        BY <1>1, <1>2, <4>1
    <3> QED
      BY <3>1, <3>2
  <2>3. length - Sublength = 0 => past = group.Obytes + group.Ibytes
    BY <1>1, <2>1
  <2>4. currentsegment + 1 >= nsegments => past = ImageSize
    BY <1>3, <2>2
  <2>5. length - Sublength = 0 \/ currentsegment + 1 >= nsegments =>
          past \in group.Obytes + group.Ibytes .. ImageSize
    BY <1>1, <2>3, <2>4
  <2> QED
    BY <1>2, <1>5, <2>2, <2>5
<1>6. CASE cmd = "LWR"
  <2>1. addr = from /\ addr + length = group.Obytes
    BY <1>2, <1>6 DEF Place, Target
  <2>2. Sublength = IF Segment > length THEN length ELSE Segment
    BY <1>6 DEF Sublength
  <2>3. CASE Segment > length
    BY <1>1, <1>6, <2>1, <2>2, <2>3
  <2>4. CASE ~(Segment > length)
    <3>1. past = to /\ past <= group.Obytes
      BY <1>1, <1>2, <2>1, <2>2, <2>4
    <3>2. length - Sublength = 0 => past = group.Obytes
      BY <1>1, <2>1
    <3>3. currentsegment + 1 >= nsegments => past = group.Obytes
      BY <1>1, <1>3, <3>1
    <3> QED
      BY <1>2, <1>6, <3>1, <3>2, <3>3
  <2> QED
    BY <2>3, <2>4
<1> QED
  BY <1>1, <1>4, <1>5, <1>6 DEF Cmds

-----------------------------------------------------------------------------
(* The steps.  The calls leave the map alone.                              *)
LEMMA LaidSame ==
  ASSUME UNCHANGED mapvars, NEW e
  PROVE  Laid(e)' <=> Laid(e)
BY DEF Laid, Ends, NoneDropped, SegmentsEnough, nsegments, Open, mapvars

LEMMA PlansKept ==
  ASSUME UNCHANGED mapvars, FitOK, LayoutOK
  PROVE  FitOK' /\ LayoutOK'
<1>1. FitOK'
  BY DEF FitOK, SegmentsFit, Room, FirstSize, mapvars
<1>2. IOsegment' = IOsegment
  BY DEF mapvars
<1>3. \E e \in [0 .. Len(IOsegment') -> Nat] : Laid(e)'
  BY <1>2, LaidSame DEF LayoutOK
<1>4. pass' = "mapped" => ImageSize' = LogAddr'
  BY DEF LayoutOK, ImageSize, mapvars
<1> QED
  BY <1>1, <1>3, <1>4 DEF LayoutOK

LEMMA SentKept ==
  ASSUME UNCHANGED <<mapvars, blockLRW, wire>>, Sent
  PROVE  Sent'
BY DEF Sent, InputsAsked, Covered, ImageSize, mapvars

(* Frames that leave the wire harm no property of those that stay.         *)
LEMMA FramesStay ==
  ASSUME FramesOK, UNCHANGED <<mapvars, blockLRW>>, wire' \subseteq wire,
         pc' = "send" => UNCHANGED <<cmd, first, currentsegment, pc>>
  PROVE  FramesOK'
BY DEF FramesOK, FramesFit, SegmentsEnough, nsegments, mapvars

LEMMA InitIInv == Init => IInv
<1> SUFFICES ASSUME Init PROVE IInv
  OBVIOUS
<1>1. FitOK /\ LayoutOK
  BY InitFitOK, InitLayoutOK DEF Init
<1>2. pc = "idle" /\ wire = {} /\ hist.received
  BY DEF Init
<1>3. AskedOK
  BY <1>2 DEF AskedOK, Undisturbed
<1> QED
  BY <1>1, <1>2, <1>3 DEF IInv, PlaceOK, FramesOK, FramesFit

LEMMA ConfigMapImage ==
  ASSUME Inv, IInv, ConfigMap
  PROVE  IInv'
<1>1. MapNext /\ UNCHANGED <<blockLRW, wire, pc, hist>>
  BY DEF ConfigMap
<1>2. pass # "mapped"
  BY <1>1, MapEnds DEF Inv
<1>3. pc = "idle" /\ hist.received /\ wire = {}
  BY <1>2, NothingOnWire DEF Inv, CallsOK
<1>4. FitOK' /\ LayoutOK'
  BY <1>1, StepFitOK, StepLayoutOK DEF Inv, IInv
<1>5. AskedOK'
  BY <1>1, <1>3 DEF AskedOK, Undisturbed
<1> QED
  BY <1>1, <1>3, <1>4, <1>5 DEF IInv, PlaceOK, FramesOK, FramesFit

(* Steps outside of send that tell nobody that a send is behind them.      *)
LEMMA OthersImage ==
  ASSUME Inv, IInv, UNCHANGED <<mapvars, blockLRW>>, wire' \subseteq wire,
         pc' # "send",
         ~hist'.received => ~hist.received /\ hist'.sends = hist.sends,
         ~hist'.received /\ pc' = "idle" =>
           pc = "idle" /\ UNCHANGED wire /\ hist'.lost = hist.lost
  PROVE  IInv'
<1>1. FitOK' /\ LayoutOK'
  BY PlansKept DEF IInv
<1>2. FramesOK'
  BY FramesStay DEF IInv
<1>3. PlaceOK'
  BY DEF PlaceOK
<1>4. AskedOK'
  <2>1. ~hist'.received => hist'.sends > 0
    BY DEF IInv, AskedOK
  <2>2. ASSUME Undisturbed', pc' = "idle" PROVE Sent'
    <3>1. Undisturbed
      BY <2>2 DEF Undisturbed, SegmentsEnough, nsegments, mapvars
    <3>2. Sent /\ UNCHANGED wire
      BY <2>2, <3>1 DEF IInv, AskedOK, Undisturbed
    <3> QED
      BY <3>2, SentKept
  <2> QED
    BY <2>1, <2>2 DEF AskedOK
<1> QED
  BY <1>1, <1>2, <1>3, <1>4 DEF IInv

LEMMA WriteOutputsImage ==
  ASSUME Inv, IInv, WriteOutputs
  PROVE  IInv'
<1>1. /\ pc = "idle" /\ UNCHANGED <<mapvars, blockLRW, wire, pc>>
  BY DEF WriteOutputs, Idle
<1>2. hist'.received = hist.received /\ hist'.sends = hist.sends
      /\ hist'.lost = hist.lost
  <2>1. hist \in History
    BY DEF Inv, CallsOK
  <2>2. PICK a, b : hist' = [hist EXCEPT !.early = a, !.crossed = b]
    BY Zenon DEF WriteOutputs
  <2> QED
    BY <2>1, <2>2 DEF History
<1> QED
  BY <1>1, <1>2, OthersImage

LEMMA ReceivesImage ==
  ASSUME Inv, IInv,
         ReceiveProcessdata \/ ReceiveFrame \/ MissFrame \/ EndReceive
  PROVE  IInv'
<1>0. hist \in History
  BY DEF Inv, CallsOK
<1>1. CASE ReceiveProcessdata
  <2>1. /\ pc' = "receive" /\ UNCHANGED <<mapvars, blockLRW, wire>>
        /\ hist' = IF hist.received THEN [hist EXCEPT !.sends = 0] ELSE hist
    BY <1>1 DEF ReceiveProcessdata
  <2>2. ~hist'.received => ~hist.received /\ hist' = hist
    BY <1>0, <2>1 DEF History
  <2> QED
    BY <2>1, <2>2, OthersImage
<1>2. CASE ReceiveFrame
  <2>1. /\ pc' = "receive" /\ UNCHANGED <<mapvars, blockLRW, hist>>
        /\ wire' \subseteq wire
    BY <1>2 DEF ReceiveFrame, Release
  <2> QED
    BY <2>1, OthersImage
<1>3. CASE MissFrame
  <2>1. /\ pc' = "receive" /\ UNCHANGED <<mapvars, blockLRW>>
        /\ wire' \subseteq wire
        /\ \E n \in {0, 1} : hist' = [hist EXCEPT !.lost = hist.lost + n]
    BY <1>3 DEF MissFrame, Release
  <2>2. hist'.received = hist.received /\ hist'.sends = hist.sends
    BY <1>0, <2>1 DEF History
  <2> QED
    BY <2>1, <2>2, OthersImage
<1>4. CASE EndReceive
  <2>1. /\ pc' = "idle" /\ UNCHANGED <<mapvars, blockLRW, wire>>
        /\ hist' = [hist EXCEPT !.received = TRUE]
    BY <1>4 DEF EndReceive
  <2>2. hist'.received
    BY <1>0, <2>1 DEF History
  <2> QED
    BY <2>1, <2>2, OthersImage
<1> QED
  BY <1>1, <1>2, <1>3, <1>4

LEMMA SendProcessdataImage ==
  ASSUME Inv, IInv, SendProcessdata
  PROVE  IInv'
<1>1. /\ pass = "mapped" /\ pc = "idle"
      /\ UNCHANGED <<mapvars, blockLRW, wire>>
  BY DEF SendProcessdata, Idle
<1>2. FitOK' /\ LayoutOK'
  BY <1>1, PlansKept DEF IInv
<1>3. /\ group.Obytes \in Nat /\ group.Ibytes \in Nat
      /\ group.mbxstatuslength \in Nat /\ IOsegment \in Seq(Nat)
  BY MapNumbers DEF Inv, MapOK
<1>4. ImageSize \in Nat /\ group.Obytes + group.Ibytes <= ImageSize
      /\ (ImageSize = 0 => group.Obytes = 0 /\ group.Ibytes = 0)
  <2>1. PICK o \in Nat, i \in Nat, m \in Nat :
          o = group.Obytes /\ i = group.Ibytes /\ m = group.mbxstatuslength
    BY <1>3
  <2>2. /\ o + i + m \in Nat /\ o + i <= o + i + m
        /\ (o + i + m = 0 => o = 0 /\ i = 0)
    OBVIOUS
  <2> QED
    BY <2>1, <2>2 DEF ImageSize
<1>5. \/ NothingToSend /\ UNCHANGED <<pc, sendvars>>
      \/ /\ ~NothingToSend /\ pc' = "send"
         /\ \/ ~blockLRW /\ StartLRW
            \/ blockLRW /\ StartLRD
            \/ blockLRW /\ group.Ibytes = 0 /\ StartLWR
  BY <1>3 DEF SendProcessdata
<1>6. /\ hist'.received = FALSE /\ hist'.sends > 0
      /\ hist'.sends = 1 => hist.received
  <2>1. hist \in History /\ (~hist.received => hist.sends > 0)
    BY DEF Inv, CallsOK, IInv, AskedOK
  <2>2. CASE hist.received
    <3>1. hist' = [hist EXCEPT !.received = FALSE, !.sends = 1, !.lost = 0,
                               !.overrun = FALSE]
      BY <2>2 DEF SendProcessdata
    <3> QED
      BY <2>1, <2>2, <3>1 DEF History
  <2>3. CASE ~hist.received
    <3>1. hist' = [hist EXCEPT !.sends = hist.sends + 1]
      BY <2>3 DEF SendProcessdata
    <3>2. hist'.sends = hist.sends + 1 /\ hist'.received = hist.received
          /\ hist.sends \in Nat
      BY <2>1, <3>1 DEF History
    <3> QED
      BY <2>1, <2>3, <3>2
  <2> QED
    BY <2>2, <2>3
<1>7. Undisturbed' => wire = {}
  BY <1>6, NothingOnWire DEF Undisturbed, Inv, CallsOK
<1>8. PlaceOK'
  <2> SUFFICES ASSUME pc' = "send", SegmentsEnough',
                      NEW e \in [0 .. Len(IOsegment') -> Nat], Laid(e)'
               PROVE  Place(e)'
    BY DEF PlaceOK
  <2>1. e[0] = 0
    BY DEF Laid, Ends
  <2>2. UNCHANGED group
    BY <1>1 DEF mapvars
  <2>3. ImageSize' = ImageSize
    BY <2>2 DEF ImageSize
  <2>4. StartLRW \/ StartLRD \/ StartLWR
    BY <1>1, <1>5
  <2>5. CASE StartLRW
    BY <1>4, <2>1, <2>3, <2>5 DEF StartLRW, Loop, Place, Target
  <2>6. CASE StartLRD
    <3>1. group.Isegment \in Nat
      BY MapNumbers DEF Inv, MapOK
    <3> QED
      BY <1>3, <2>2, <2>6, <3>1 DEF StartLRD, Loop, Place, Target
  <2>7. CASE StartLWR
    BY <1>3, <2>1, <2>2, <2>7 DEF StartLWR, Loop, Place, Target
  <2> QED
    BY <2>4, <2>5, <2>6, <2>7
<1>9. AskedOK'
  <2> SUFFICES ASSUME Undisturbed'
               PROVE  (pc' = "send" => Asked') /\ (pc' = "idle" => Sent')
    BY <1>6 DEF AskedOK
  <2>1. \A c : \A n \in Int : Covered(c, n, n)
    BY <1>7, NothingCovered
  <2>2. \A c, lo, hi : Covered(c, lo, hi) => Covered(c, lo, hi)'
    BY <1>1, CoveredKept
  <2>3. UNCHANGED group /\ ImageSize' = ImageSize
    BY <1>1 DEF mapvars, ImageSize
  <2>4. Covered("LRW", 0, 0)' /\ Covered("LWR", 0, 0)'
    BY <2>1, <2>2
  <2>5. Covered("LRD", group.Obytes, group.Obytes)'
    <3>1. PICK n \in Int : n = group.Obytes
      BY <1>3
    <3>2. Covered("LRD", n, n)'
      BY <2>1, <2>2
    <3> QED
      BY <2>3, <3>1, <3>2
  <2>6. group.Ibytes = 0 => InputsAsked'
    <3>1. group.Ibytes = 0 =>
            group.Obytes \in group.Obytes + group.Ibytes .. ImageSize
      BY <1>3, <1>4
    <3> QED
      BY <2>3, <2>5, <3>1 DEF InputsAsked
  <2>7. CASE NothingToSend /\ UNCHANGED <<pc, sendvars>>
    <3>1. CASE blockLRW
      <4>1. group.Obytes = 0 /\ group.Ibytes = 0
        BY <1>4, <2>7, <3>1 DEF NothingToSend
      <4>2. Covered("LWR", 0, group.Obytes)'
        BY <2>3, <2>4, <4>1
      <4> QED
        BY <1>1, <2>6, <2>7, <3>1, <4>1, <4>2 DEF Sent
    <3>2. CASE ~blockLRW
      <4>1. ImageSize' = 0
        BY <2>3, <2>7, <3>2 DEF NothingToSend
      <4>2. Covered("LRW", 0, ImageSize)'
        BY <2>4, <4>1
      <4> QED
        BY <1>1, <2>7, <3>2, <4>2 DEF Sent
    <3> QED
      BY <3>1, <3>2
  <2>8. CASE pc' = "send" /\ StartLRW
    <3>1. cmd' = "LRW" /\ addr' = 0
      BY <2>8 DEF StartLRW, Loop
    <3>2. Covered("LRW", 0, addr)'
      BY <2>4, <3>1
    <3> QED
      BY <2>8, <3>1, <3>2 DEF Asked
  <2>9. CASE pc' = "send" /\ StartLRD
    <3>1. cmd' = "LRD" /\ addr' = group'.Obytes
      BY <2>3, <2>9 DEF StartLRD, Loop
    <3>2. Covered("LRD", group.Obytes, addr)'
      BY <2>5, <3>1
    <3> QED
      BY <2>4, <2>9, <3>1, <3>2 DEF Asked
  <2>10. CASE pc' = "send" /\ group.Ibytes = 0 /\ StartLWR
    <3>1. cmd' = "LWR" /\ addr' = 0
      BY <2>10 DEF StartLWR, Loop
    <3>2. Covered("LWR", 0, addr)'
      BY <2>4, <3>1
    <3> QED
      BY <2>6, <2>10, <3>1, <3>2 DEF Asked
  <2> QED
    BY <1>5, <2>7, <2>8, <2>9, <2>10
<1>10. FramesOK'
  <2>1. \A f \in wire' : f.cmd \in Cmds /\ (f.cmd = "LRW" <=> ~blockLRW')
    BY <1>1 DEF IInv, FramesOK
  <2>2. SegmentsEnough' => FramesFit'
    BY <1>1
    DEF IInv, FramesOK, FramesFit, SegmentsEnough, nsegments, mapvars
  <2>3. pc' = "send" /\ cmd' = "LRW" => currentsegment' = 0
    BY <1>1, <1>5 DEF StartLRW, StartLRD, StartLWR, Loop
  <2> QED
    BY <2>1, <2>2, <2>3 DEF FramesOK
<1> QED
  BY <1>2, <1>8, <1>9, <1>10 DEF IInv

LEMMA SendDatagramImage ==
  ASSUME Inv, IInv, NEW sent \in BOOLEAN, SendDatagram(sent)
  PROVE  IInv'
<1> DEFINE left == length - Sublength
           more == left # 0 /\ currentsegment + 1 < nsegments
<1>1. /\ pc = "send" /\ first' = FALSE
      /\ UNCHANGED <<mapvars, blockLRW>>
  BY DEF SendDatagram
<1>2. PICK frame :
        /\ frame = [idx |-> NextIdx, cmd |-> cmd, start |-> addr,
                    length |-> Sublength, dc |-> first, data |-> Reply]
        /\ wire' = IF sent THEN wire \cup {frame} ELSE wire
  BY Zenon DEF SendDatagram
<1>3. /\ frame.cmd = cmd /\ frame.start = addr
      /\ frame.length = Sublength /\ frame.dc = first
  BY <1>2
<1>4. /\ pass = "mapped"
      /\ cmd \in Cmds /\ addr \in Nat /\ length \in Int
      /\ Sublength \in Nat /\ Segment \in Nat
      /\ nsegments \in Nat /\ currentsegment \in Nat
      /\ currentsegment < nsegments
      /\ group.Isegment \in Nat
      /\ group.Obytes \in Nat /\ group.Ibytes \in Nat
      /\ ImageSize \in Nat /\ group.Obytes + group.Ibytes <= ImageSize
  BY <1>1, SendNumbers DEF IInv
<1>5. PICK past \in Nat : past = addr + Sublength
  BY <1>4
<1>6. \/ /\ more /\ pc' = pc
         /\ Loop(cmd, past, left, currentsegment + 1)
      \/ /\ ~more /\ cmd = "LRD" /\ group.Obytes > 0
         /\ StartLWR /\ pc' = pc
      \/ /\ ~more /\ ~(cmd = "LRD" /\ group.Obytes > 0)
         /\ pc' = "idle" /\ cmd' = "LRW"
  BY <1>5, Zenon DEF SendDatagram, Loop
<1>7. /\ hist'.received = hist.received /\ hist'.sends = hist.sends
      /\ hist'.lost = 0 => sent /\ hist.lost = 0
  <2>1. hist \in History
    BY DEF Inv, CallsOK
  <2>2. PICK o, c :
          hist' = [hist EXCEPT !.lost = hist.lost + IF sent THEN 0 ELSE 1,
                               !.overrun = o, !.crossed = c]
    BY Zenon DEF SendDatagram
  <2>3. /\ hist'.received = hist.received /\ hist'.sends = hist.sends
        /\ hist'.lost = hist.lost + IF sent THEN 0 ELSE 1
        /\ hist.lost \in Nat
    BY <2>1, <2>2 DEF History
  <2> QED
    BY <2>3
<1>8. FitOK' /\ LayoutOK'
  BY <1>1, PlansKept DEF IInv
<1>9. /\ UNCHANGED <<group, IOsegment, pass>> /\ ImageSize' = ImageSize
      /\ SegmentsEnough' = SegmentsEnough /\ nsegments' = nsegments
  BY <1>1 DEF mapvars, ImageSize, SegmentsEnough, nsegments
<1>10. blockLRW \in BOOLEAN /\ (cmd = "LRW" <=> ~blockLRW)
  BY <1>1 DEF Inv, CallsOK
<1>11. ASSUME SegmentsEnough, NEW e \in [0 .. Len(IOsegment) -> Nat], Laid(e)
       PROVE  /\ Place(e)
              /\ more => past = e[currentsegment + 1]
              /\ ~more =>
                   CASE cmd = "LRW" -> past = ImageSize
                     [] cmd = "LRD" -> past \in group.Obytes + group.Ibytes
                                                .. ImageSize
                     [] cmd = "LWR" -> past = group.Obytes
  <2>1. Place(e)
    BY <1>1, <1>11 DEF IInv, PlaceOK
  <2>2. LayoutOK
    BY DEF IInv
  <2>3. ~more => length - Sublength = 0 \/ currentsegment + 1 >= nsegments
    BY <1>4
  <2> HIDE DEF more
  <2>4. more => length - Sublength # 0
    BY DEF more
  <2> QED
    BY <1>1, <1>5, <1>11, <2>1, <2>2, <2>3, <2>4, Advance
<1>12. PlaceOK'
  <2> SUFFICES ASSUME pc' = "send", SegmentsEnough',
                      NEW e \in [0 .. Len(IOsegment') -> Nat], Laid(e)'
               PROVE  Place(e)'
    BY DEF PlaceOK
  <2>1. SegmentsEnough /\ Laid(e) /\ e \in [0 .. Len(IOsegment) -> Nat]
    BY <1>1, <1>9, LaidSame
  <2>2. Place(e) /\ (more => past = e[currentsegment + 1])
    BY <1>11, <2>1
  <2>3. e[0] = 0
    BY <2>1 DEF Laid, Ends
  <2>4. CASE more /\ Loop(cmd, past, left, currentsegment + 1)
    <3>1. /\ cmd' = cmd /\ addr' = past /\ length' = length - Sublength
          /\ currentsegment' = currentsegment + 1
      BY <2>4 DEF Loop
    <3>2. Target' = Target
      BY <1>9, <3>1 DEF Target
    <3>3. addr + length = Target /\ Target \in Int
      BY <1>4, <2>2 DEF Place, Target, Cmds
    <3>4. addr' + length' = Target
      BY <1>4, <1>5, <3>1, <3>3
    <3>5. cmd = "LRD" => group.Isegment < currentsegment'
      BY <1>4, <2>2, <3>1 DEF Place
    <3>6. addr' = e[currentsegment']
      BY <2>2, <2>4, <3>1
    <3> QED
      BY <1>4, <1>9, <3>1, <3>2, <3>4, <3>5, <3>6 DEF Place
  <2>5. CASE StartLWR
    <3>1. /\ cmd' = "LWR" /\ addr' = 0 /\ length' = group.Obytes
          /\ currentsegment' = 0
      BY <2>5 DEF StartLWR, Loop
    <3> QED
      BY <1>4, <1>9, <2>3, <3>1 DEF Place, Target
  <2> QED
    BY <1>1, <1>6, <2>4, <2>5
<1>13. AskedOK'
  <2>1. ~hist'.received => hist'.sends > 0
    BY <1>7 DEF IInv, AskedOK
  <2> SUFFICES ASSUME Undisturbed'
               PROVE  (pc' = "send" => Asked') /\ (pc' = "idle" => Sent')
    BY <2>1 DEF AskedOK
  <2>2. Undisturbed /\ sent /\ Asked
    <3>1. Undisturbed /\ sent
      BY <1>7, <1>9 DEF Undisturbed
    <3> QED
      BY <1>1, <3>1 DEF IInv, AskedOK
  <2>3. wire' = wire \cup {frame}
    BY <1>2, <2>2
  <2>4. PICK e \in [0 .. Len(IOsegment) -> Nat] : Laid(e)
    BY DEF IInv, LayoutOK
  <2>5. ~more => CASE cmd = "LRW" -> past = ImageSize
                   [] cmd = "LRD" -> past \in group.Obytes + group.Ibytes
                                              .. ImageSize
                   [] cmd = "LWR" -> past = group.Obytes
    BY <1>11, <2>2, <2>4 DEF Undisturbed
  <2>6. \A f \in wire : f.start \in Int /\ f.length \in Int
    BY DEF Inv, WireOK, FrameOK
  <2>7. ASSUME NEW c, c = cmd, NEW lo \in Int, lo <= addr,
               Covered(c, lo, addr)
        PROVE  Covered(c, lo, past)'
    <3>1. PICK mid \in Nat, n \in Nat :
            mid = addr /\ n = Sublength /\ mid + n = past
      BY <1>4, <1>5
    <3>2. Covered(c, lo, mid)
      BY <2>7, <3>1
    <3>3. lo <= mid /\ frame.cmd = c /\ frame.start = mid /\ frame.length = n
      BY <1>3, <2>7, <3>1
    <3>4. Covered(c, lo, mid + n)'
      BY <2>3, <2>6, <3>2, <3>3, CoveredMore
    <3> QED
      BY <3>1, <3>4
  <2>8. \A c, lo, hi : c # cmd /\ Covered(c, lo, hi) => Covered(c, lo, hi)'
    BY <1>3, <2>3, CoveredStays
  <2>9. CASE cmd = "LRW"
    <3>1. Covered("LRW", 0, addr)
      BY <2>2, <2>9 DEF Asked
    <3>2. Covered("LRW", 0, past)'
      BY <1>4, <2>7, <2>9, <3>1
    <3>3. CASE more /\ pc' = pc /\ Loop(cmd, past, left, currentsegment + 1)
      <4>1. cmd' = "LRW" /\ addr' = past
        BY <2>9, <3>3 DEF Loop
      <4> QED
        BY <1>1, <3>2, <3>3, <4>1 DEF Asked
    <3>4. CASE ~more /\ pc' = "idle"
      <4>1. past = ImageSize'
        BY <1>9, <2>5, <2>9, <3>4
      <4> QED
        BY <1>1, <1>10, <2>9, <3>2, <3>4, <4>1 DEF Sent
    <3> QED
      BY <1>6, <2>9, <3>3, <3>4
  <2>10. CASE cmd = "LRD"
    <3>1. PICK o \in Nat : o = group.Obytes
      BY <1>4
    <3>2. Covered("LRD", o, addr) /\ Covered("LWR", 0, 0)
      BY <2>2, <2>10, <3>1 DEF Asked
    <3>3. o <= addr
      BY <1>1, <2>10, <3>1 DEF Inv, CallsOK
    <3>4. Covered("LRD", o, past)'
      BY <1>4, <2>7, <2>10, <3>2, <3>3
    <3>5. Covered("LWR", 0, 0)'
      BY <2>8, <2>10, <3>2
    <3>6. group'.Obytes = o
      BY <1>9, <3>1
    <3>7. CASE more /\ pc' = pc /\ Loop(cmd, past, left, currentsegment + 1)
      <4>1. cmd' = "LRD" /\ addr' = past
        BY <2>10, <3>7 DEF Loop
      <4> QED
        BY <1>1, <3>4, <3>5, <3>6, <3>7, <4>1 DEF Asked
    <3>8. ASSUME ~more PROVE InputsAsked'
      <4>1. past \in group'.Obytes + group'.Ibytes .. ImageSize'
        BY <1>9, <2>5, <2>10, <3>8
      <4> QED
        BY <3>4, <3>6, <4>1 DEF InputsAsked
    <3>9. CASE ~more /\ group.Obytes > 0 /\ StartLWR /\ pc' = pc
      <4>1. cmd' = "LWR" /\ addr' = 0
        BY <3>9 DEF StartLWR, Loop
      <4> QED
        BY <1>1, <3>5, <3>8, <3>9, <4>1 DEF Asked
    <3>10. CASE ~more /\ ~(group.Obytes > 0) /\ pc' = "idle"
      <4>1. group'.Obytes = 0
        BY <1>4, <1>9, <3>10
      <4> QED
        BY <1>1, <1>10, <2>10, <3>5, <3>8, <3>10, <4>1 DEF Sent
    <3> QED
      BY <1>6, <2>10, <3>7, <3>9, <3>10
  <2>11. CASE cmd = "LWR"
    <3>1. Covered("LWR", 0, addr) /\ InputsAsked
      BY <2>2, <2>11 DEF Asked
    <3>2. Covered("LWR", 0, past)'
      BY <1>4, <2>7, <2>11, <3>1
    <3>3. InputsAsked'
      <4>o. PICK o \in Nat : o = group.Obytes
        BY <1>4
      <4>1. PICK hi \in group.Obytes + group.Ibytes .. ImageSize :
              Covered("LRD", o, hi)
        BY <3>1, <4>o DEF InputsAsked
      <4>2. Covered("LRD", o, hi)'
        BY <2>8, <2>11, <4>1
      <4> QED
        BY <1>9, <4>o, <4>1, <4>2 DEF InputsAsked
    <3>4. CASE more /\ pc' = pc /\ Loop(cmd, past, left, currentsegment + 1)
      <4>1. cmd' = "LWR" /\ addr' = past
        BY <2>11, <3>4 DEF Loop
      <4> QED
        BY <1>1, <3>2, <3>3, <3>4, <4>1 DEF Asked
    <3>5. CASE ~more /\ pc' = "idle"
      <4>1. past = group'.Obytes
        BY <1>9, <2>5, <2>11, <3>5
      <4> QED
        BY <1>1, <1>10, <2>11, <3>2, <3>3, <3>5, <4>1 DEF Sent
    <3> QED
      BY <1>6, <2>11, <3>4, <3>5
  <2> QED
    BY <1>4, <2>9, <2>10, <2>11 DEF Cmds
<1>14. FramesOK'
  <2>1. \A f \in wire' : f.cmd \in Cmds /\ (f.cmd = "LRW" <=> ~blockLRW')
    BY <1>1, <1>2, <1>3, <1>4, <1>10 DEF IInv, FramesOK
  <2>2. pc' = "send" /\ cmd' = "LRW" /\ first' => currentsegment' = 0
    BY <1>1
  <2>3. ASSUME SegmentsEnough, ~blockLRW
        PROVE  frame.length + (IF frame.dc THEN DCDatagram ELSE 0) <= MaxData
    <3>1. cmd = "LRW" /\ Sublength = Segment
      BY <1>10, <2>3 DEF Sublength
    <3>2. PICK i \in 1 .. Len(IOsegment) :
            i = currentsegment + 1 /\ i <= MaxSegments
      BY <1>4, <2>3, IOMapAssumption DEF nsegments, SegmentsEnough
    <3>3. Segment <= Room(i)
      BY <3>2 DEF IInv, FitOK, SegmentsFit, Segment
    <3>4. first => i = 1
      BY <1>1, <1>4, <3>1, <3>2 DEF IInv, FramesOK
    <3>5. Room(i) + (IF first THEN DCDatagram ELSE 0) <= MaxData
      BY <3>4, IOMapAssumption DEF Room, FirstSize
    <3>6. Room(i) \in Nat
      BY <3>2, Rooms
    <3> QED
      BY <1>3, <1>4, <3>1, <3>3, <3>5, <3>6, IOMapAssumption
  <2>4. SegmentsEnough' => FramesFit'
    BY <1>1, <1>2, <1>9, <2>3 DEF IInv, FramesOK, FramesFit
  <2> QED
    BY <2>1, <2>2, <2>4 DEF FramesOK
<1> QED
  BY <1>8, <1>12, <1>13, <1>14 DEF IInv

LEMMA StepIInv ==
  ASSUME Inv, IInv, [Next]_vars
  PROVE  IInv'
<1>1. CASE ConfigMap
  BY <1>1, ConfigMapImage
<1>2. CASE WriteOutputs
  BY <1>2, WriteOutputsImage
<1>3. CASE SendProcessdata
  BY <1>3, SendProcessdataImage
<1>4. CASE \E sent \in BOOLEAN : SendDatagram(sent)
  BY <1>4, SendDatagramImage
<1>5. CASE ReceiveProcessdata \/ ReceiveFrame \/ MissFrame \/ EndReceive
  BY <1>5, ReceivesImage
<1>6. CASE UNCHANGED vars
  <2>1. /\ UNCHANGED <<mapvars, blockLRW, wire, pc, hist>>
        /\ UNCHANGED <<cmd, currentsegment, length, addr, first>>
    BY <1>6 DEF vars, datavars, sendvars
  <2>2. UNCHANGED <<group, IOsegment, pass>> /\ ImageSize' = ImageSize
        /\ SegmentsEnough' = SegmentsEnough
    BY <2>1 DEF mapvars, ImageSize, SegmentsEnough, nsegments
  <2>3. FitOK' /\ LayoutOK'
    BY <2>1, PlansKept DEF IInv
  <2>4. FramesOK'
    BY <2>1, FramesStay DEF IInv
  <2>5. PlaceOK'
    <3> SUFFICES ASSUME pc' = "send", SegmentsEnough',
                        NEW e \in [0 .. Len(IOsegment') -> Nat], Laid(e)'
                 PROVE  Place(e)'
      BY DEF PlaceOK
    <3>1. SegmentsEnough /\ Laid(e) /\ e \in [0 .. Len(IOsegment) -> Nat]
      BY <2>1, <2>2, LaidSame
    <3>2. Place(e)
      BY <2>1, <3>1 DEF IInv, PlaceOK
    <3> QED
      BY <2>1, <2>2, <3>2 DEF Place, Target
  <2>6. ASSUME Asked, pc = "send" PROVE Asked'
    <3>1. \A c, lo, hi : Covered(c, lo, hi) => Covered(c, lo, hi)'
      BY <2>1, CoveredKept
    <3>2. InputsAsked => InputsAsked'
      BY <2>1, <2>2 DEF InputsAsked, Covered
    <3>3. PICK a, o : a = addr /\ o = group.Obytes
      OBVIOUS
    <3>4. a = addr' /\ o = group'.Obytes /\ cmd' = cmd
      BY <2>1, <2>2, <3>3
    <3>5. cmd \in Cmds
      BY <2>6 DEF Inv, CallsOK
    <3>6. CASE cmd = "LRW"
      <4>1. Covered("LRW", 0, a)'
        BY <2>6, <3>1, <3>3, <3>6 DEF Asked
      <4> QED
        BY <3>4, <3>6, <4>1 DEF Asked
    <3>7. CASE cmd = "LRD"
      <4>1. Covered("LRD", o, a)' /\ Covered("LWR", 0, 0)'
        BY <2>6, <3>1, <3>3, <3>7 DEF Asked
      <4> QED
        BY <3>4, <3>7, <4>1 DEF Asked
    <3>8. CASE cmd = "LWR"
      <4>1. Covered("LWR", 0, a)' /\ InputsAsked'
        BY <2>6, <3>1, <3>2, <3>3, <3>8 DEF Asked
      <4> QED
        BY <3>4, <3>8, <4>1 DEF Asked
    <3> QED
      BY <3>5, <3>6, <3>7, <3>8 DEF Cmds
  <2>7. Sent => Sent'
    BY <2>1, SentKept
  <2>8. AskedOK'
    <3>1. Undisturbed' => Undisturbed
      BY <2>1, <2>2 DEF Undisturbed
    <3> QED
      BY <2>1, <2>6, <2>7, <3>1 DEF IInv, AskedOK
  <2> QED
    BY <2>3, <2>4, <2>5, <2>8 DEF IInv
<1> QED
  BY <1>1, <1>2, <1>3, <1>4, <1>5, <1>6 DEF Next

LEMMA AlwaysIInv == Spec => [](Inv /\ IInv)
<1>1. Init => Inv /\ IInv
  BY InitInv, InitIInv
<1>2. Inv /\ IInv /\ [Next]_vars => (Inv /\ IInv)'
  BY StepInv, StepIInv
<1> QED
  BY <1>1, <1>2, PTL DEF Spec

-----------------------------------------------------------------------------
(* Addresses that the frames of one command cover are sent once.           *)
LEMMA CoveredOnce ==
  ASSUME NEW c, NEW lo, NEW hi, Covered(c, lo, hi), NEW commands,
         \A f \in wire : f.cmd \in commands <=> f.cmd = c,
         NEW b \in lo .. hi - 1
  PROVE  SentOnce(b, commands)
<1>1. PICK f \in wire :
        /\ f.cmd = c /\ Carries(f, b)
        /\ \A g \in wire : g.cmd = c /\ Carries(g, b) => g = f
  BY DEF Covered
<1>2. {g \in wire : g.cmd \in commands /\ Carries(g, b)} = {f}
  BY <1>1
<1> QED
  BY <1>2, FS_Singleton DEF SentOnce

(* A send puts every byte of the image on the wire once in each direction, *)
(* and no byte of it twice, asks for nothing behind the image and writes   *)
(* nothing behind the outputs, in frames the clock still fits into, for    *)
(* any slaves, cut into any number of segments that the table holds.       *)
THEOREM ImageIsSentOnce == Spec => []ImageSentOnce
<1>1. ASSUME Inv, IInv PROVE ImageSentOnce
  <2> SUFFICES ASSUME SegmentsEnough
               PROVE  /\ FramesFit
                      /\ Idle /\ ~hist.received /\ hist.sends = 1
                         /\ ~hist.overrun /\ hist.lost = 0 =>
                           /\ \A b \in Outputs : SentOnce(b, {"LRW", "LWR"})
                           /\ \A b \in Inputs : SentOnce(b, {"LRW", "LRD"})
                           /\ ~blockLRW =>
                                \A b \in MbxStatus : SentOnce(b, {"LRW"})
                           /\ \A f \in wire :
                                f.start + f.length <=
                                  IF f.cmd = "LWR" THEN group.Obytes
                                                   ELSE ImageSize
    BY DEF ImageSentOnce
  <2>1. FramesFit
    BY <1>1 DEF IInv, FramesOK
  <2> SUFFICES ASSUME Idle, ~hist.received, hist.sends = 1, hist.lost = 0
               PROVE  /\ \A b \in Outputs : SentOnce(b, {"LRW", "LWR"})
                      /\ \A b \in Inputs : SentOnce(b, {"LRW", "LRD"})
                      /\ ~blockLRW =>
                           \A b \in MbxStatus : SentOnce(b, {"LRW"})
                      /\ \A f \in wire :
                           f.start + f.length <=
                             IF f.cmd = "LWR" THEN group.Obytes
                                              ELSE ImageSize
    BY <2>1
  <2>2. Sent
    BY <1>1 DEF Idle, IInv, AskedOK, Undisturbed
  <2>3. PICK o \in Nat, i \in Nat, m \in Nat :
          o = group.Obytes /\ i = group.Ibytes /\ m = group.mbxstatuslength
    BY <1>1, MapNumbers DEF Inv, MapOK
  <2>4. /\ Outputs = 0 .. o - 1 /\ Inputs = o .. o + i - 1
        /\ ImageSize = o + i + m
        /\ MbxStatus = o + i .. o + i + m - 1
    <3>1. ImageSize = o + i + m
      BY <2>3 DEF ImageSize
    <3>2. Outputs = 0 .. o - 1 /\ Inputs = o .. o + i - 1
      BY <2>3 DEF Outputs, Inputs
    <3>3. MbxStatus = o + i .. ImageSize - 1
      BY <2>3 DEF MbxStatus
    <3> QED
      BY <3>1, <3>2, <3>3
  <2>5. \A f \in wire : f.cmd \in Cmds /\ (f.cmd = "LRW" <=> ~blockLRW)
    BY <1>1 DEF IInv, FramesOK
  <2>6. CASE ~blockLRW
    <3>1. Covered("LRW", 0, o + i + m)
      BY <2>2, <2>4, <2>6 DEF Sent
    <3>2. \A f \in wire : f.cmd = "LRW"
      BY <2>5, <2>6
    <3>3. ASSUME NEW b \in 0 .. o + i + m - 1, NEW commands,
                 "LRW" \in commands
          PROVE  SentOnce(b, commands)
      BY <3>1, <3>2, <3>3, CoveredOnce
    <3>4. /\ Outputs \subseteq 0 .. o + i + m - 1
          /\ Inputs \subseteq 0 .. o + i + m - 1
          /\ MbxStatus \subseteq 0 .. o + i + m - 1
      BY <2>4
    <3>5. \A f \in wire : f.start + f.length <= ImageSize
      BY <2>4, <3>1, <3>2 DEF Covered
    <3> QED
      BY <3>2, <3>3, <3>4, <3>5
  <2>7. CASE blockLRW
    <3>1. Covered("LWR", 0, o)
      BY <2>2, <2>3, <2>7 DEF Sent
    <3>2. PICK hi \in o + i .. o + i + m : Covered("LRD", o, hi)
      BY <2>2, <2>3, <2>4, <2>7 DEF Sent, InputsAsked
    <3>3. \A f \in wire : f.cmd \in {"LRD", "LWR"}
      BY <2>5, <2>7 DEF Cmds
    <3>4. ASSUME NEW b \in Outputs PROVE SentOnce(b, {"LRW", "LWR"})
      <4>1. \A f \in wire : f.cmd \in {"LRW", "LWR"} <=> f.cmd = "LWR"
        BY <3>3
      <4>2. b \in 0 .. o - 1
        BY <2>4
      <4> QED
        BY <3>1, <4>1, <4>2, CoveredOnce
    <3>5. ASSUME NEW b \in Inputs PROVE SentOnce(b, {"LRW", "LRD"})
      <4>1. \A f \in wire : f.cmd \in {"LRW", "LRD"} <=> f.cmd = "LRD"
        BY <3>3
      <4>2. b \in o .. hi - 1
        BY <2>4, <3>2
      <4> QED
        BY <3>2, <4>1, <4>2, CoveredOnce
    <3>6. ASSUME NEW f \in wire
          PROVE  f.start + f.length <=
                   IF f.cmd = "LWR" THEN group.Obytes ELSE ImageSize
      <4>1. CASE f.cmd = "LWR"
        BY <2>3, <3>1, <4>1 DEF Covered
      <4>2. CASE f.cmd = "LRD"
        <5>1. f.start + f.length <= hi
          BY <3>2, <4>2 DEF Covered
        <5>2. f.start \in Int /\ f.length \in Int
          BY <1>1 DEF Inv, WireOK, FrameOK
        <5> QED
          BY <2>4, <3>2, <4>2, <5>1, <5>2
      <4> QED
        BY <3>3, <4>1, <4>2
    <3> QED
      BY <2>7, <3>4, <3>5, <3>6
  <2> QED
    BY <2>6, <2>7
<1> QED
  BY AlwaysIInv, <1>1, PTL

=============================================================================
