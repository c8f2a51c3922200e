----------------------------- MODULE FoeTransfer -----------------------------
(***************************************************************************)
(* File access over EtherCAT (native/soem/src/ec_foe.c: ecx_FOEread and    *)
(* ecx_FOEwrite).  A file travels in numbered packets, each acknowledged;  *)
(* a packet that is not full is the last, if need be an empty one.  The    *)
(* slave's file server is external: it may refuse a file, and answer a     *)
(* request or a packet of a write with BUSY instead of taking it.          *)
(***************************************************************************)
EXTENDS MbxCall

CONSTANT MaxBusy  \* bound on the BUSY answers in a call

VARIABLES
  packet,       \* prevpacket or sendpacket
  segmentdata,  \* bytes in the last packet sent
  dofinalzero,  \* an empty packet is to follow
  files,        \* the slave's file server
  written,      \* the file the slave has closed since the call began (history)
  busy          \* BUSY answers in this call; [last]: to an empty packet or to
                \* the request itself (history)

foevars == <<packet, segmentdata, dofinalzero>>
fileserver == <<files, written, busy>>

Closed == [mode |-> "closed"]

FoeInit ==
  /\ packet = 0 /\ segmentdata = 0 /\ dofinalzero = TRUE
  /\ files = Closed /\ written = <<>> /\ busy = [all |-> 0, ends |-> FALSE]

FoeRead(f) == [cmd |-> "foeread", item |-> f]
FoeWrite(f) == [cmd |-> "foewrite", item |-> f]
FoeData(number, data) == [cmd |-> "foedata", packet |-> number, data |-> data]
FoeAck(number) == [cmd |-> "foeack", packet |-> number]
FoeBusy == [cmd |-> "foebusy"]
FoeError == [cmd |-> "foeerror"]

FOEread(f, size) == Begin("foeread", f, size, "drain") /\ UNCHANGED <<foevars, fileserver>>
FOEwrite(f) == Begin("foewrite", f, 0, "drain") /\ UNCHANGED <<foevars, fileserver>>

FoeRequest ==
  /\ pc = "next" /\ op \in {"foeread", "foewrite"}
  /\ Ask(IF op = "foeread" THEN FoeRead(item) ELSE FoeWrite(item))
  /\ UNCHANGED <<foevars, fileserver>>

(* worktodo ends with the acknowledge of the last packet of a read.        *)
FoeAwaitReply ==
  /\ pc = "sent" /\ op \in {"foeread", "foewrite"}
  /\ IF more THEN AwaitReply ELSE Conclude(TRUE, "finish")
  /\ UNCHANGED <<foevars, fileserver>>

FoeGiveUp == op \in {"foeread", "foewrite"} /\ GiveUp /\ UNCHANGED <<foevars, fileserver>>

-----------------------------------------------------------------------------
(* ecx_FOEread.                                                            *)

ExpectsPacket ==
  /\ mbxin.cmd = "foedata"
  /\ mbxin.packet = packet + 1
  /\ Len(got) + Len(mbxin.data) <= room

TakePacket ==
  /\ pc = "received" /\ op = "foeread" /\ ExpectsPacket
  /\ got' = got \o mbxin.data
  /\ more' = (Len(mbxin.data) = MaxData)
  /\ packet' = mbxin.packet
  /\ Post(FoeAck(mbxin.packet))
  /\ UNCHANGED <<op, item, room, moved, wkc, segmentdata, dofinalzero, fileserver>>

(* A packet with another number or too long for the buffer, an error, or   *)
(* something else.                                                         *)
RefusePacket ==
  /\ pc = "received" /\ op = "foeread" /\ ~ExpectsPacket
  /\ Conclude(FALSE, "finish")
  /\ UNCHANGED <<foevars, fileserver>>

-----------------------------------------------------------------------------
(* ecx_FOEwrite: the packet with this number, of what is left from here,   *)
(* or the end when nothing is left.                                        *)

(* Mutant: no empty packet follows a last one that is full.                *)
SendPacketWithoutFinal(from, number) ==
  LET tsize == Least(Size[item] - from, MaxData)
  IN  IF tsize > 0
      THEN /\ segmentdata' = tsize /\ moved' = from + tsize
           /\ dofinalzero' = FALSE
           /\ packet' = number
           /\ Post(FoeData(number, Bytes(item, from, tsize)))
           /\ UNCHANGED wkc
      ELSE /\ moved' = from /\ packet' = number - 1
           /\ wkc' = TRUE /\ Goto("finish")
           /\ UNCHANGED <<mailboxes, slavembx, faults, segmentdata, dofinalzero>>

SendPacket(from, number) ==
  LET tsize == Least(Size[item] - from, MaxData)
  IN  IF tsize > 0 \/ dofinalzero
      THEN /\ segmentdata' = tsize /\ moved' = from + tsize
           /\ dofinalzero' = (from + tsize = Size[item] /\ tsize = MaxData)
           /\ packet' = number
           /\ Post(FoeData(number, Bytes(item, from, tsize)))
           /\ UNCHANGED wkc
      ELSE /\ moved' = from /\ packet' = number - 1
           /\ wkc' = TRUE /\ Goto("finish")
           /\ UNCHANGED <<mailboxes, slavembx, faults, segmentdata, dofinalzero>>

NextPacket ==
  /\ pc = "received" /\ op = "foewrite"
  /\ mbxin = FoeAck(packet)
  /\ SendPacket(moved, packet + 1)
  /\ UNCHANGED <<op, item, room, got, more, fileserver>>

(* The last packet is sent again.                                          *)
SameAgain ==
  /\ pc = "received" /\ op = "foewrite"
  /\ mbxin = FoeBusy /\ packet > 0
  /\ SendPacket(moved - segmentdata, packet)
  /\ UNCHANGED <<op, item, room, got, more, fileserver>>

(* BUSY before the first packet ends the call like a success.              *)
BusyAtOnce ==
  /\ pc = "received" /\ op = "foewrite"
  /\ mbxin = FoeBusy /\ packet = 0
  /\ Conclude(TRUE, "finish")
  /\ UNCHANGED <<foevars, fileserver>>

FoeRefused ==
  /\ pc = "received" /\ op = "foewrite"
  /\ mbxin \notin {FoeAck(packet), FoeBusy}
  /\ Conclude(FALSE, "finish")
  /\ UNCHANGED <<foevars, fileserver>>

FoeReturn ==
  /\ op \in {"foeread", "foewrite"} /\ Return
  /\ packet' = 0 /\ segmentdata' = 0 /\ dofinalzero' = TRUE
  /\ written' = <<>> /\ busy' = [all |-> 0, ends |-> FALSE]
  /\ UNCHANGED files

-----------------------------------------------------------------------------
(* The slave's file server.                                                *)

Packet(f, number) ==
  Bytes(f, (number - 1) * MaxData, Least(Size[f] - (number - 1) * MaxData, MaxData))

FoeServe(request, answer, after) ==
  /\ inbox # Nothing /\ inbox.body = request
  /\ Take(answer)
  /\ files' = after
  /\ UNCHANGED <<callvars, foevars>>

ServeRead(f) ==
  /\ FoeServe(FoeRead(f), FoeData(1, Packet(f, 1)),
              [mode |-> "read", item |-> f, packet |-> 1])
  /\ UNCHANGED <<written, busy>>

(* The packet after the last one is none: there is nothing to answer.      *)
ServeAck ==
  /\ files.mode = "read"
  /\ LET next == files.packet + 1
         ended == Len(Packet(files.item, files.packet)) < MaxData
     IN  FoeServe(FoeAck(files.packet),
                  IF ended THEN Nothing ELSE FoeData(next, Packet(files.item, next)),
                  IF ended THEN Closed ELSE [files EXCEPT !.packet = next])
  /\ UNCHANGED <<written, busy>>

ServeWrite(f) ==
  /\ FoeServe(FoeWrite(f), FoeAck(0),
              [mode |-> "write", item |-> f, packet |-> 0, data |-> <<>>])
  /\ UNCHANGED <<written, busy>>

ServeData ==
  /\ files.mode = "write" /\ inbox # Nothing /\ inbox.body.cmd = "foedata"
  /\ LET body == inbox.body
         data == files.data \o body.data
         ended == Len(body.data) < MaxData
     IN  /\ body.packet = files.packet + 1
         /\ FoeServe(body, FoeAck(body.packet),
                     IF ended THEN Closed
                     ELSE [files EXCEPT !.packet = body.packet, !.data = data])
         /\ written' = IF ended THEN <<files.item, data>> ELSE written
  /\ UNCHANGED busy

ServeBusy ==
  /\ inbox # Nothing /\ inbox.body.cmd \in {"foewrite", "foedata"}
  /\ busy.all < MaxBusy
  /\ FoeServe(inbox.body, FoeBusy, files)
  /\ busy' = [all |-> busy.all + 1,
              ends |-> busy.ends \/ inbox.body.cmd = "foewrite"
                         \/ (inbox.body.cmd = "foedata" /\ inbox.body.data = <<>>)]
  /\ UNCHANGED written

ServeError ==
  /\ inbox # Nothing
  /\ inbox.body.cmd \in {"foeread", "foewrite", "foedata", "foeack"}
  /\ FoeServe(inbox.body, FoeError, Closed)
  /\ UNCHANGED <<written, busy>>

FileServer ==
  \/ \E f \in Items : ServeRead(f) \/ ServeWrite(f)
  \/ ServeAck \/ ServeData \/ ServeBusy \/ ServeError

FoeMaster ==
  \/ FoeRequest \/ FoeAwaitReply \/ FoeGiveUp \/ TakePacket \/ RefusePacket
  \/ NextPacket \/ SameAgain \/ BusyAtOnce \/ FoeRefused
 

-----------------------------------------------------------------------------
(* A read that reports success has copied the whole file in order, although *)
(* requests and acknowledges are lost.  After a write that reports success  *)
(* the slave has closed the whole file, whatever was lost and however often *)
(* it was busy, but not when it was busy at the request or at the empty     *)
(* packet that ends the file.  Both as long as no reply is late: a late     *)
(* packet 1 of another file is taken for that of this one.                  *)
FoeIsWhole ==
  Without({"late"}) =>
    /\ Succeeded("foeread") => got = Content(item)
    /\ Succeeded("foewrite") /\ ~busy.ends => written = <<item, Content(item)>>

=============================================================================
