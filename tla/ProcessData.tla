---------------------------- MODULE ProcessData ----------------------------
(***************************************************************************)
(* The cyclic exchange of the process image (ec_main.c,                    *)
(* ecx_send_processdata_group and ecx_receive_processdata_group for group  *)
(* 0) over the image that IOMap lays out.  A send transmits every segment  *)
(* in a datagram of its own and pushes the index of each on a stack; a     *)
(* receive pulls the indices, waits for each frame, copies the inputs back *)
(* into the image and adds up the working counters.  The application       *)
(* writes its outputs into the image between the calls, and may call send  *)
(* again before it receives.                                               *)
(*                                                                         *)
(* One step of a call is one turn of its loop: the calls run in one        *)
(* thread, and what the others do to the buffers is in NicDrv.  A frame    *)
(* later than its timeout finds its buffer EMPTY and is dropped.  All      *)
(* slaves are operational.                                                 *)
(***************************************************************************)
EXTENDS IOMap, FiniteSets

CONSTANTS
  MaxBuf,     \* EC_MAXBUF: frame buffers, and the size of the index stack
  MaxCycles,  \* bound on the calls of send
  MaxWrites,  \* bound on the application's writes of the outputs
  MaxLost     \* bound on the frames lost in one cycle

ASSUME ProcessDataAssumption ==
  /\ MaxBuf \in Nat \ {0}
  /\ {MaxCycles, MaxWrites, MaxLost} \subseteq Nat

VARIABLES
  blockLRW,        \* whether a slave does not support LRW
  hasdc,           \* whether the first frame carries the clock
  image,           \* the application's IOmap
  used,            \* frame buffers that are not EC_BUF_EMPTY
  lastidx,         \* last index handed out
  idxstack,        \* idx, data, length, dcoffset of the datagrams pushed
  pulled,          \* how many of them were pulled
  wire,            \* frames that were sent and not fetched
  pc,              \* the call that runs
  cmd,             \* command of the loop that runs in send
  currentsegment, length, addr, first, \* its local variables; addr: LogAdr
  wkc, valid_wkc,  \* local variables of receive
  result,          \* what the last receive returned
  version,         \* writes of the outputs so far
  cycle,           \* sends so far
  hist             \* what happened since the last receive ended (history)

sendvars == <<cmd, currentsegment, length, addr, first>>
datavars == <<blockLRW, hasdc, image, used, lastidx, idxstack, pulled, wire,
              pc, sendvars, wkc, valid_wkc, result, version, cycle, hist>>
vars == <<mapvars, datavars>>

EC_NOFRAME == -1
Idx == 0 .. MaxBuf - 1
Cmds == {"LRD", "LWR", "LRW"}

(* A byte is known by the place it belongs to and by the write (outputs)   *)
(* or the cycle (inputs, mailbox status) it stems from.                    *)
Byte(b, n) == [of |-> b, at |-> n]
Junk == Byte(None, None)

ImageSize == group.Obytes + group.Ibytes + group.mbxstatuslength
Outputs == 0 .. group.Obytes - 1
Inputs == group.Obytes .. group.Obytes + group.Ibytes - 1
MbxStatus == group.Obytes + group.Ibytes .. ImageSize - 1
nsegments == Len(IOsegment)

TypeOK ==
  /\ MapTypeOK
  /\ {blockLRW, hasdc, first, valid_wkc} \subseteq BOOLEAN
  /\ DOMAIN image = IF pass = "mapped" THEN 0 .. ImageSize - 1 ELSE {}
  /\ \A b \in DOMAIN image :
       \/ image[b] = Junk
       \/ image[b].of \in DOMAIN image /\ image[b].at \in Nat
  /\ used \subseteq Idx
  /\ lastidx \in Idx
  /\ idxstack \in Seq([idx : Idx, data : Nat, length : Nat, dc : BOOLEAN])
  /\ Len(idxstack) <= MaxBuf
  /\ pulled \in 0 .. Len(idxstack)
  /\ \A f \in wire : f.idx \in Idx /\ f.cmd \in Cmds /\ f.length \in Nat
  /\ pc \in {"idle", "send", "receive"}
  /\ cmd \in Cmds
  /\ {currentsegment, addr, wkc, version, cycle, hist.lost, hist.sends}
       \subseteq Nat
  /\ length \in Int
  /\ result \in Nat \cup {EC_NOFRAME}

Init ==
  /\ MapInit
  /\ blockLRW \in BOOLEAN
  /\ hasdc \in BOOLEAN
  /\ image = <<>>
  /\ used = {}
  /\ lastidx = 0
  /\ idxstack = <<>>
  /\ pulled = 0
  /\ wire = {}
  /\ pc = "idle"
  /\ cmd = "LRW" /\ currentsegment = 0 /\ length = 0 /\ addr = 0
  /\ first = FALSE
  /\ wkc = 0 /\ valid_wkc = FALSE
  /\ result = EC_NOFRAME
  /\ version = 0 /\ cycle = 0
  /\ hist = [received |-> TRUE, sends |-> 0, lost |-> 0, early |-> FALSE,
             overrun |-> FALSE, crossed |-> FALSE]

-----------------------------------------------------------------------------
(* The caller hands a zeroed buffer to config_map.                         *)
ConfigMap ==
  /\ MapNext
  /\ image' = IF pass' = "mapped"
              THEN [b \in 0 .. LogAddr - 1 |-> Byte(b, 0)] ELSE image
  /\ UNCHANGED <<blockLRW, hasdc, used, lastidx, idxstack, pulled, wire, pc,
                 sendvars, wkc, valid_wkc, result, version, cycle, hist>>

Idle == pass = "mapped" /\ pc = "idle"

(* The application sets its outputs in the image.                          *)
WriteOutputs ==
  /\ Idle
  /\ version < MaxWrites
  /\ group.Obytes > 0
  /\ version' = version + 1
  /\ image' = [b \in DOMAIN image |->
                 IF b \in Outputs THEN Byte(b, version') ELSE image[b]]
  /\ hist' = [hist EXCEPT !.early = ~hist.received,
                          !.crossed = hist.overrun /\ ~hist.received]
  /\ UNCHANGED <<mapvars, blockLRW, hasdc, used, lastidx, idxstack, pulled,
                 wire, pc, sendvars, wkc, valid_wkc, result, cycle>>

-----------------------------------------------------------------------------
(* Send.  An image that needs several frames goes out segment by segment.  *)

Loop(command, start, bytes, segment) ==
  /\ cmd' = command
  /\ addr' = start
  /\ length' = bytes
  /\ currentsegment' = segment

(* Mutant: the inputs are read from where the outputs are.                 *)
StartLRDAtOutputs == Loop("LRD", 0, group.Ibytes, group.Isegment)

StartLRD == Loop("LRD", group.Obytes, group.Ibytes, group.Isegment)
StartLWR == Loop("LWR", 0, group.Obytes, 0)
StartLRW == Loop("LRW", 0, ImageSize, 0)

(* Neither command is needed for an image of mailbox status bytes alone.   *)
NothingToSend ==
  \/ ImageSize = 0
  \/ blockLRW /\ group.Ibytes = 0 /\ group.Obytes = 0

SendProcessdata ==
  /\ Idle
  /\ cycle < MaxCycles
  /\ cycle' = cycle + 1
  /\ image' = [b \in DOMAIN image |->
                 IF b \in MbxStatus THEN Byte(b, 0) ELSE image[b]]
  /\ hist' = IF hist.received
             THEN [hist EXCEPT !.received = FALSE, !.sends = 1, !.lost = 0,
                               !.overrun = FALSE]
             ELSE [hist EXCEPT !.sends = @ + 1]
  /\ IF NothingToSend THEN UNCHANGED <<pc, sendvars>>
     ELSE /\ pc' = "send"
          /\ first' = hasdc
          /\ IF ~blockLRW THEN StartLRW
             ELSE IF group.Ibytes > 0 THEN StartLRD ELSE StartLWR
  /\ UNCHANGED <<mapvars, blockLRW, hasdc, used, lastidx, idxstack, pulled,
                 wire, wkc, valid_wkc, result, version>>

After(i, k) == (i + k) % MaxBuf

NextIdx ==
  LET free == {k \in 1 .. MaxBuf : After(lastidx, k) \notin used}
  IN  IF free = {} THEN After(lastidx, 1)
      ELSE After(lastidx, CHOOSE k \in free : \A j \in free : k <= j)

Segment == IOsegment[currentsegment + 1]

(* Mutant: the inputs begin where their first segment does.                *)
SublengthFromStart ==
  IF cmd = "LWR" /\ Segment > length THEN length ELSE Segment

Sublength ==
  CASE cmd = "LRD" /\ currentsegment = group.Isegment ->
         Segment - group.Ioffset
    [] cmd = "LWR" /\ Segment > length -> length
    [] OTHER -> Segment

(* What comes back in a datagram: outputs as they were sent, inputs and    *)
(* status bytes as the slaves filled them.                                 *)
Reply ==
  IF cmd = "LWR" THEN <<>>
  ELSE [k \in 0 .. Sublength - 1 |->
          IF addr + k \in Outputs THEN image[addr + k]
          ELSE Byte(addr + k, cycle)]

(* Mutant: the last place is never used.                                   *)
PushShort(idx) ==
  IF Len(idxstack) < MaxBuf - 1
  THEN Append(idxstack, [idx |-> idx, data |-> addr, length |-> Sublength,
                         dc |-> first])
  ELSE idxstack

PushIndex(idx) ==
  IF Len(idxstack) < MaxBuf
  THEN Append(idxstack, [idx |-> idx, data |-> addr, length |-> Sublength,
                         dc |-> first])
  ELSE idxstack

SendDatagram(sent) ==
  /\ pc = "send"
  /\ sent \/ hist.lost < MaxLost
  /\ LET idx == NextIdx
         frame == [idx |-> idx, cmd |-> cmd, start |-> addr,
                   length |-> Sublength, dc |-> first, data |-> Reply]
     IN  /\ lastidx' = idx
         /\ IF sent
            THEN used' = used \cup {idx} /\ wire' = wire \cup {frame}
            ELSE used' = used \ {idx} /\ UNCHANGED wire
         /\ idxstack' = PushIndex(idx)
         /\ hist' = [hist EXCEPT
                       !.lost = @ + IF sent THEN 0 ELSE 1,
                       !.overrun = @ \/ Len(idxstack) = MaxBuf,
                       !.crossed = @ \/ Len(idxstack) = MaxBuf]
  /\ first' = FALSE
  /\ LET left == length - Sublength
         more == left # 0 /\ currentsegment + 1 < nsegments
     IN  IF more
         THEN Loop(cmd, addr + Sublength, left, currentsegment + 1)
              /\ UNCHANGED pc
         ELSE IF cmd = "LRD" /\ group.Obytes > 0
         THEN StartLWR /\ UNCHANGED pc
         ELSE Loop("LRW", 0, 0, 0) /\ pc' = "idle"
  /\ UNCHANGED <<mapvars, blockLRW, hasdc, image, pulled, wkc, valid_wkc,
                 result, version, cycle>>

-----------------------------------------------------------------------------
(* Receive.                                                                *)

ReceiveProcessdata ==
  /\ Idle
  /\ cycle > 0
  /\ pc' = "receive"
  /\ wkc' = 0
  /\ valid_wkc' = FALSE
  /\ hist' = IF hist.received THEN [hist EXCEPT !.sends = 0] ELSE hist
  /\ UNCHANGED <<mapvars, blockLRW, hasdc, image, used, lastidx, idxstack,
                 pulled, wire, sendvars, result, version, cycle>>

Size(kind, s) ==
  CASE kind = "outputs" -> slavelist[s].Obytes
    [] kind = "inputs" -> slavelist[s].Ibytes
    [] kind = "mbxstatus" -> 1

(* Slave s has data of this kind among those of the datagram.              *)
Hit(f, kind, s) ==
  /\ fmmu[kind][s] # None
  /\ fmmu[kind][s] < f.start + f.length
  /\ f.start < fmmu[kind][s] + Size(kind, s)
  /\ f.length > 0

Reads(f) == {s \in Slaves : Hit(f, "inputs", s) \/ Hit(f, "mbxstatus", s)}
Writes(f) == {s \in Slaves : Hit(f, "outputs", s)}

(* A slave that is read counts one, one that is written counts two in LRW  *)
(* and one in LWR.  Receive doubles what LWR counts.                       *)
Count(f) ==
  CASE f.cmd = "LRD" -> Cardinality(Reads(f))
    [] f.cmd = "LWR" -> 2 * Cardinality(Writes(f))
    [] f.cmd = "LRW" -> Cardinality(Reads(f)) + 2 * Cardinality(Writes(f))

(* A buffer that was taken twice may hold the frame of another datagram    *)
(* than the one on the stack: what is read as its counter is arbitrary.    *)
Counts(e, f) ==
  IF e.data = f.start /\ e.length = f.length /\ e.dc = f.dc THEN {Count(f)}
  ELSE 0 .. 1

Copied(e, f) ==
  [b \in DOMAIN image |->
     IF b \notin e.data .. e.data + e.length - 1 THEN image[b]
     ELSE IF b - e.data < f.length THEN f.data[b - e.data] ELSE Junk]

Top == idxstack[pulled + 1]

Release(idx) ==
  /\ used' = used \ {idx}
  /\ wire' = {f \in wire : f.idx # idx}

(* Mutant: every frame assigns the counter.                                *)
NewWkcAssigned(e, n) == n

NewWkc(e, n) == IF e.dc THEN n ELSE wkc + n

(* Mutant: the inputs of LRD are not copied.                               *)
CopiesLRW(f) == f.cmd = "LRW"

Copies(f) == f.cmd \in {"LRD", "LRW"}

ReceiveFrame ==
  /\ pc = "receive" /\ pulled < Len(idxstack)
  /\ Top.idx \in used
  /\ \E f \in {g \in wire : g.idx = Top.idx} :
       /\ \E n \in Counts(Top, f) : wkc' = NewWkc(Top, n)
       /\ image' = IF Copies(f) THEN Copied(Top, f) ELSE image
  /\ valid_wkc' = TRUE
  /\ Release(Top.idx)
  /\ pulled' = pulled + 1
  /\ UNCHANGED <<mapvars, blockLRW, hasdc, lastidx, idxstack, pc, sendvars,
                 result, version, cycle, hist>>

MissFrame ==
  /\ pc = "receive" /\ pulled < Len(idxstack)
  /\ LET waited == Top.idx \in used /\ \E f \in wire : f.idx = Top.idx
     IN  /\ waited => hist.lost < MaxLost
         /\ hist' = [hist EXCEPT !.lost = @ + IF waited THEN 1 ELSE 0]
  /\ Release(Top.idx)
  /\ pulled' = pulled + 1
  /\ UNCHANGED <<mapvars, blockLRW, hasdc, image, lastidx, idxstack, pc,
                 sendvars, wkc, valid_wkc, result, version, cycle>>

EndReceive ==
  /\ pc = "receive" /\ pulled = Len(idxstack)
  /\ idxstack' = <<>>
  /\ pulled' = 0
  /\ result' = IF valid_wkc THEN wkc ELSE EC_NOFRAME
  /\ pc' = "idle"
  /\ wkc' = 0 /\ valid_wkc' = FALSE
  /\ hist' = [hist EXCEPT !.received = TRUE]
  /\ UNCHANGED <<mapvars, blockLRW, hasdc, image, used, lastidx, wire,
                 sendvars, version, cycle>>

-----------------------------------------------------------------------------
Next ==
  \/ ConfigMap
  \/ WriteOutputs
  \/ SendProcessdata
  \/ \E sent \in BOOLEAN : SendDatagram(sent)
  \/ ReceiveProcessdata \/ ReceiveFrame \/ MissFrame \/ EndReceive

Spec == Init /\ [][Next]_vars

-----------------------------------------------------------------------------
(* What an application expects receive to return when nothing is wrong.    *)
Expected == 2 * group.outputsWKC + group.inputsWKC

(* One send was followed by one receive.                                   *)
Exchanged == Idle /\ hist.received /\ hist.sends = 1 /\ ~hist.overrun

(* SegmentEnd[i]: the address where segment i ends.                        *)
SegmentEnd[i \in 0 .. nsegments] ==
  IF i = 0 THEN 0 ELSE SegmentEnd[i - 1] + IOsegment[i]

Within(i, b) == SegmentEnd[i - 1] <= b /\ b < SegmentEnd[i]

(* The status byte of a slave that has inputs lies in a segment with them. *)
StatusBesideInputs ==
  \A s \in Slaves : slavelist[s].mbx /\ slavelist[s].Ibytes > 0 =>
    \E i \in 1 .. nsegments, b \in Inputs :
      /\ Within(i, b) /\ Within(i, fmmu.mbxstatus[s])
      /\ b - fmmu.inputs[s] \in 0 .. slavelist[s].Ibytes - 1

(* Without LRW nobody is asked for the status bytes.                       *)
StatusIsAsked == blockLRW => \A s \in Slaves : ~slavelist[s].mbx

(* No slave that needs several segments comes right behind a full one.     *)
NoCutBehindFull ==
  \A k \in {"outputs", "inputs"}, s \in Slaves :
    Size(k, s) > MaxData - DCDatagram =>
      \A i \in 1 .. nsegments : fmmu[k][s] # SegmentEnd[i]

(* The table of the segments did not run out.  When it does, config_map    *)
(* gives no error: the bytes it finds no room for are in no segment, or in *)
(* one that is longer than a datagram may be.                              *)
SegmentsEnough == nsegments < MaxSegments

CountedRight ==
  StatusBesideInputs /\ StatusIsAsked /\ NoCutBehindFull /\ SegmentsEnough

(* When every frame of a cycle comes back, the working counter is the one  *)
(* that config_map announces ("Expected workcounter", ec_main.h:326), for  *)
(* every way in which slaves are cut into segments, with the clock in the  *)
(* first frame or without, by LRW or by LRD and LWR: in the networks for   *)
(* which config_map counts right.                                          *)
ExpectedWkcReached ==
  Exchanged /\ hist.lost = 0 /\ ImageSize > 0 /\ CountedRight
    => result = Expected

(* An application that sees the expected counter has the inputs of this    *)
(* cycle, all of them and each in its place, whatever frame was lost: if   *)
(* the status byte of a mailbox cannot make up for the inputs of its slave.*)
FreshWhenExpected ==
  Exchanged /\ result = Expected /\ StatusBesideInputs
    => \A b \in Inputs : image[b] = Byte(b, cycle)

(* The outputs in the image are the last ones the application wrote:       *)
(* receive, which copies an LRW frame back whole, restores no older ones.  *)
(* An application that writes between send and receive can rely on this    *)
(* only where LRW is blocked.  What happens when a full stack makes send   *)
(* take a buffer twice lasts until the outputs are written again.          *)
OutputsKept ==
  Idle /\ ~hist.crossed /\ (hist.early => blockLRW)
    => \A b \in Outputs : image[b] = Byte(b, version)

Carries(f, b) == b \in f.start .. f.start + f.length - 1

SentOnce(b, commands) ==
  Cardinality({f \in wire : f.cmd \in commands /\ Carries(f, b)}) = 1

(* The datagram of the clock fits into the frame it is added to: config_map*)
(* keeps room for it in the first segment, which is the first one sent     *)
(* only by LRW.                                                            *)
FramesFit ==
  ~blockLRW => \A f \in wire :
    f.length + (IF f.dc THEN DCDatagram ELSE 0) <= MaxData

(* A send puts every byte of the image on the wire exactly once in each    *)
(* direction, however it is cut as long as there are segments enough       *)
(* (status bytes by LRW only), asks for nothing behind the image and writes*)
(* nothing behind the outputs, in frames that are not too long.            *)
ImageSentOnce == SegmentsEnough =>
  /\ FramesFit
  /\ Idle /\ ~hist.received /\ hist.sends = 1 /\ ~hist.overrun /\ hist.lost = 0 =>
       /\ \A b \in Outputs : SentOnce(b, {"LRW", "LWR"})
       /\ \A b \in Inputs : SentOnce(b, {"LRW", "LRD"})
       /\ ~blockLRW => \A b \in MbxStatus : SentOnce(b, {"LRW"})
       /\ \A f \in wire :
            f.start + f.length <=
              IF f.cmd = "LWR" THEN group.Obytes ELSE ImageSize

(* No frame buffer is forgotten: the ones in use are those on the stack,   *)
(* which the next receive will release, also when the stack is full and    *)
(* when sends fail or follow each other without a receive.                 *)
BuffersOnStack ==
  used \subseteq {idxstack[i].idx : i \in pulled + 1 .. Len(idxstack)}

=============================================================================
