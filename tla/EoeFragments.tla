---------------------------- MODULE EoeFragments ----------------------------
(***************************************************************************)
(* Ethernet over EtherCAT (native/soem/src/ec_eoe.c).  An Ethernet frame   *)
(* travels in numbered fragments of whole blocks, the first with the size  *)
(* of the frame, the others with their offset, all with the number of the  *)
(* frame; the last may carry a time stamp behind its data.  ecx_EOEsend    *)
(* and ecx_EOErecv move a frame each; ecx_EOEreadfragment is given one     *)
(* mailbox at a time and keeps its state in variables of the caller; and   *)
(* ecx_EOEsetIp and ecx_EOEgetIp exchange one request and response.        *)
(*                                                                         *)
(* The slave's Ethernet stack is external.  It assembles frames as the     *)
(* protocol wants it and sends frames of its own.                          *)
(***************************************************************************)
EXTENDS MbxCall

CONSTANTS
  Block,    \* 32: bytes in a block
  Stamp,    \* 4: bytes of a time stamp
  FrameNos  \* 16: frame numbers

(* With less than a block in a mailbox ecx_EOEsend sends empty fragments   *)
(* without end (ec_eoe.c:374).                                             *)
ASSUME EoeAssumption ==
  /\ {Block, Stamp, FrameNos} \subseteq Nat \ {0}
  /\ Block <= MaxData
  /\ "none" \notin Items

VARIABLES
  txframeno,   \* the static variable
  txfragment,  \* txfragmentno
  rx,          \* fragment and frame number that ecx_EOErecv expects
  frame,       \* the caller's variables and buffer for ecx_EOEreadfragment
  ended,       \* what ecx_EOEreadfragment returned > 0 for, or Nothing
  cut,         \* a time stamp was larger than the room left for it (history)
  stack,       \* the frame that the slave assembles
  delivered,   \* the frame that the slave was brought by this call (history)
  sending,     \* the frame that the slave sends
  sentno,      \* number of the last frame of the slave
  ip           \* the slave's IP parameters

rxvars == <<rx, frame, ended, cut>>
stackvars == <<stack, delivered, sending, sentno, ip>>
eoevars == <<txframeno, txfragment, rxvars, stackvars>>

Blocks(bytes) == (bytes + Block - 1) \div Block
NoFrame == [fragment |-> 0, no |-> 0, size |-> 0, data |-> <<>>]
NotSending == [item |-> "none", fragment |-> 0, from |-> 0]

(* pos is the size of the frame or the offset of the fragment, in blocks.  *)
Fragment(number, pos, no, last, stamped, data) ==
  [cmd |-> "eoe", fragment |-> number, pos |-> pos, no |-> no, last |-> last,
   stamped |-> stamped, data |-> data]

EoeSetIp(i) == [cmd |-> "eoesetip", item |-> i]
EoeGetIp == [cmd |-> "eoegetip"]
EoeIp(i) == [cmd |-> "eoeip", item |-> i]
EoeIpSet == [cmd |-> "eoeipset"]
EoeRefused == [cmd |-> "eoerefused"]

EoeInit ==
  /\ txframeno = 0 /\ txfragment = 0
  /\ rx = [fragment |-> 0, no |-> -1]
  /\ frame = NoFrame /\ ended = Nothing /\ cut = FALSE
  /\ stack = NoFrame /\ delivered = <<>>
  /\ sending = NotSending /\ sentno = 0 /\ ip = "none"

EOEsend(i) == Begin("eoesend", i, 0, "next") /\ UNCHANGED eoevars
EOErecv(i, size) == Begin("eoerecv", i, size, "receive") /\ UNCHANGED eoevars
EOEreadfragment(i, size) == Begin("eoeread", i, size, "receive") /\ UNCHANGED eoevars
EOEsetIp(i) == Begin("eoesetip", i, 0, "drain") /\ UNCHANGED eoevars
EOEgetIp(i) == Begin("eoegetip", i, 0, "drain") /\ UNCHANGED eoevars

-----------------------------------------------------------------------------
(* ecx_EOEsend.                                                            *)

FragmentSize ==
  IF Rest > MaxData THEN (MaxData \div Block) * Block ELSE Rest

SendFragment ==
  /\ pc = "next" /\ op = "eoesend"
  /\ more' = (FragmentSize # Rest)
  /\ txframeno' = IF txfragment = 0 THEN (txframeno + 1) % FrameNos ELSE txframeno
  /\ Post(Fragment(txfragment, IF txfragment = 0 THEN Blocks(Size[item]) ELSE moved \div Block,
                   txframeno', ~more', FALSE, Bytes(item, moved, FragmentSize)))
  /\ UNCHANGED <<op, item, room, moved, got, wkc, txfragment, rxvars, stackvars>>

FragmentSent ==
  /\ pc = "sent" /\ op = "eoesend"
  /\ wkc' = TRUE
  /\ IF more
     THEN moved' = moved + FragmentSize /\ txfragment' = txfragment + 1 /\ Goto("next")
     ELSE Goto("finish") /\ UNCHANGED <<moved, txfragment>>
  /\ UNCHANGED <<mailboxes, slavembx, faults, op, item, room, got, more, txframeno, rxvars,
                 stackvars>>

-----------------------------------------------------------------------------
(* ecx_EOErecv.                                                            *)

InSequence(f) ==
  /\ f.cmd = "eoe"
  /\ f.fragment \in {rx.fragment, 0}
  /\ IF rx.fragment = 0 THEN f.pos * Block <= room
     ELSE f.no = rx.no /\ f.pos * Block = Len(got)

(* What is left of the data with or without the last fragment, less the    *)
(* time stamp that the caller does not want.                               *)
Unstamped(data, f) ==
  IF f.last /\ f.stamped THEN SubSeq(data, 1, Len(data) - Stamp) ELSE data

(* A fragment that does not fit is left out.                               *)
ReceiveFragment ==
  /\ pc = "received" /\ op = "eoerecv" /\ InSequence(mbxin)
  /\ LET fits == Len(got) + Len(mbxin.data) <= room
         data == IF fits THEN got \o mbxin.data ELSE got
     IN  /\ got' = Unstamped(data, mbxin)
         /\ rx' = [fragment |-> IF fits THEN rx.fragment + 1 ELSE rx.fragment,
                   no |-> IF rx.fragment = 0 THEN mbxin.no ELSE rx.no]
         /\ cut' = (cut \/ ~fits)
  /\ wkc' = TRUE
  /\ IF mbxin.last THEN Goto("finish") /\ UNCHANGED <<mbxin, pool>>
     ELSE Goto("receive") /\ mbxin' = Nothing /\ pool' = pool + 1
  /\ UNCHANGED <<mbxout, mbxcnt, slavembx, faults, op, item, room, moved, more, frame, ended,
                 txframeno, txfragment, stackvars>>

ReceiveRefused ==
  /\ pc = "received" /\ op = "eoerecv" /\ ~InSequence(mbxin)
  /\ Conclude(FALSE, "finish")
  /\ UNCHANGED eoevars

-----------------------------------------------------------------------------
(* ecx_EOEreadfragment with the mailbox that was received.  A fragment     *)
(* that is not the next one ends the frame, and may begin another.         *)

(* Mutant: nothing but the number of the frame is compared.                *)
ContinuesWithHole(f) == f.fragment # 0 /\ frame.fragment # 0 => f.no = frame.no

Begins(f) == f.fragment = 0 /\ frame.fragment # 0
Continues(f) ==
  /\ f.fragment = frame.fragment
  /\ frame.fragment # 0 => f.no = frame.no /\ f.pos * Block = Len(frame.data)

ReadFragment ==
  /\ pc = "received" /\ op = "eoeread" /\ mbxin.cmd = "eoe"
  /\ Begins(mbxin) \/ Continues(mbxin)
  /\ LET f == mbxin
         before == IF f.fragment = 0
                   THEN [fragment |-> 0, no |-> f.no, size |-> f.pos * Block, data |-> <<>>]
                   ELSE frame
         long == Len(before.data) + Len(f.data)
         fits == long <= before.size /\ long <= room
         data == IF fits THEN before.data \o f.data ELSE before.data
     IN  /\ cut' = (cut \/ ~fits)
         /\ IF f.last THEN frame' = NoFrame /\ ended' = [data |-> Unstamped(data, f)]
            ELSE /\ frame' = [before EXCEPT !.data = data,
                                            !.fragment = IF fits THEN @ + 1 ELSE @]
                 /\ UNCHANGED ended
  /\ Conclude(TRUE, "finish")
  /\ UNCHANGED <<rx, txframeno, txfragment, stackvars>>

ReadRefused ==
  /\ pc = "received" /\ op = "eoeread"
  /\ mbxin.cmd = "eoe" => ~Begins(mbxin) /\ ~Continues(mbxin)
  /\ frame' = IF mbxin.cmd = "eoe" THEN NoFrame ELSE frame
  /\ Conclude(FALSE, "finish")
  /\ UNCHANGED <<rx, ended, cut, txframeno, txfragment, stackvars>>

-----------------------------------------------------------------------------
(* ecx_EOEsetIp and ecx_EOEgetIp.                                          *)

AskIp ==
  /\ pc = "next" /\ op \in {"eoesetip", "eoegetip"}
  /\ Ask(IF op = "eoesetip" THEN EoeSetIp(item) ELSE EoeGetIp)
  /\ UNCHANGED eoevars

AwaitIp ==
  /\ pc = "sent" /\ op \in {"eoesetip", "eoegetip"}
  /\ AwaitReply
  /\ UNCHANGED eoevars

IpAnswered ==
  /\ pc = "received" /\ op \in {"eoesetip", "eoegetip"}
  /\ wkc' = (mbxin.cmd = IF op = "eoesetip" THEN "eoeipset" ELSE "eoeip")
  /\ got' = IF wkc' /\ op = "eoegetip" THEN <<mbxin.item>> ELSE <<>>
  /\ Goto("finish")
  /\ UNCHANGED <<mailboxes, slavembx, faults, op, item, room, moved, more, eoevars>>

EoeOps == {"eoesend", "eoerecv", "eoeread", "eoesetip", "eoegetip"}

EoeGiveUp == op \in EoeOps /\ GiveUp /\ UNCHANGED eoevars

EoeReturn ==
  /\ op \in EoeOps /\ Return
  /\ txfragment' = 0 /\ rx' = [fragment |-> 0, no |-> -1]
  /\ ended' = Nothing /\ cut' = (frame.fragment # 0 /\ cut)
  /\ delivered' = <<>>
  /\ UNCHANGED <<txframeno, frame, stack, sending, sentno, ip>>

-----------------------------------------------------------------------------
(* The slave's Ethernet stack.                                             *)

EoeServe(answer) ==
  /\ Take(answer)
  /\ UNCHANGED <<callvars, txframeno, txfragment, rxvars, sending, sentno>>

TakeFragment ==
  /\ inbox # Nothing /\ inbox.body.cmd = "eoe"
  /\ LET f == inbox.body
         next == f.fragment # 0 /\ f.fragment = stack.fragment /\ f.no = stack.no
                   /\ f.pos * Block = Len(stack.data)
         data == IF f.fragment = 0 THEN f.data ELSE stack.data \o f.data
     IN  /\ stack' = IF (f.fragment = 0 \/ next) /\ ~f.last
                     THEN [fragment |-> f.fragment + 1, no |-> f.no, size |-> 0, data |-> data]
                     ELSE NoFrame
         /\ delivered' = IF (f.fragment = 0 \/ next) /\ f.last THEN data ELSE delivered
  /\ EoeServe(Nothing)
  /\ UNCHANGED ip

SetSlaveIp ==
  /\ inbox # Nothing /\ inbox.body.cmd = "eoesetip"
  /\ ip' = inbox.body.item
  /\ EoeServe(EoeIpSet)
  /\ UNCHANGED <<stack, delivered>>

TellSlaveIp ==
  /\ inbox # Nothing /\ inbox.body = EoeGetIp
  /\ EoeServe(EoeIp(ip))
  /\ UNCHANGED <<stack, delivered, ip>>

RefuseIp ==
  /\ inbox # Nothing /\ inbox.body.cmd \in {"eoesetip", "eoegetip"}
  /\ EoeServe(EoeRefused)
  /\ UNCHANGED <<stack, delivered, ip>>

(* The slave has a frame for a caller who waits for one.                   *)
BeginFrame(i) ==
  /\ op \in {"eoerecv", "eoeread"} /\ pc = "receive" /\ sending = NotSending
  /\ sending' = [NotSending EXCEPT !.item = i]
  /\ sentno' = (sentno + 1) % FrameNos
  /\ UNCHANGED <<mbxvars, callvars, txframeno, txfragment, rxvars, stack, delivered, ip>>

SendFrame ==
  /\ sending # NotSending /\ work = Nothing /\ ~silent
  /\ LET left == Size[sending.item] - sending.from
         size == IF left > MaxData THEN (MaxData \div Block) * Block ELSE left
         data == Bytes(sending.item, sending.from, size)
         pos == IF sending.fragment = 0 THEN Blocks(Size[sending.item])
                ELSE sending.from \div Block
     IN  \E stamped \in {left = size /\ size + Stamp <= MaxData, FALSE} :
           /\ work' = Fragment(sending.fragment, pos, sentno, left = size, stamped,
                               IF stamped THEN data \o [k \in 1 .. Stamp |-> "stamp"] ELSE data)
           /\ sending' = IF left = size THEN NotSending
                         ELSE [sending EXCEPT !.fragment = @ + 1, !.from = @ + size]
  /\ UNCHANGED <<pc, mailboxes, inbox, outbox, lastcnt, silent, faults, callvars, txframeno,
                 txfragment, rxvars, stack, delivered, sentno, ip>>

Stack ==
  \/ TakeFragment \/ SetSlaveIp \/ TellSlaveIp \/ RefuseIp \/ SendFrame
  \/ \E i \in Items : BeginFrame(i)

EoeMaster ==
  \/ SendFragment \/ FragmentSent
  \/ ReceiveFragment \/ ReceiveRefused \/ ReadFragment \/ ReadRefused
  \/ AskIp \/ AwaitIp \/ IpAnswered \/ EoeGiveUp

-----------------------------------------------------------------------------
IsFrame(data) == \E i \in Items : data = Content(i)

(* A frame that was received is one that the slave sent, whole and         *)
(* unmixed, although frames lose their fragments on the way and frame      *)
(* numbers come again; unless its time stamp found no room, when the       *)
(* bytes before it are cut off in its place.  A frame that was sent with   *)
(* success arrives whole.                                                  *)
FramesAreWhole ==
  /\ Succeeded("eoerecv") /\ ~cut => IsFrame(got)
  /\ ended # Nothing /\ ~cut => IsFrame(ended.data)
  /\ Succeeded("eoesend") /\ inbox = Nothing /\ ~silent => delivered = Content(item)

=============================================================================
