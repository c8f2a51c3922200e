------------------------------ MODULE MailboxIn ------------------------------
(***************************************************************************)
(* Mailboxes of a cyclic slave (native/soem/src/ec_main.c): the thread of  *)
(* the cycle exchanges the process data, which bring the "mailbox full"    *)
(* flag of the slave, and calls ecx_mbxinhandler; that one reads the       *)
(* mailbox, repeats the reading of one that got lost (robust mailbox       *)
(* protocol), puts errors on the error list and a CoE reply where          *)
(* ecx_mbxreceive finds it.  The slave's side is external: it keeps the    *)
(* mailbox that was read last and offers it again on a repeat request.     *)
(***************************************************************************)
EXTENDS MbxPool, ErrorRing

CONSTANTS
  Receivers,   \* threads that wait in ecx_mbxreceive for this slave
  Messages,    \* the kinds of the mailboxes the slave has to send, in order
  MaxLost      \* bound on the frames that get lost

Kinds == {"error", "emergency", "coe", "eoe", "other"}

ASSUME MailboxInAssumption ==
  /\ Users = {"handler", "coembxin", "sender"} \cup Receivers
  /\ Receivers \cap {"handler", "coembxin", "sender"} = {}
  /\ Messages \in Seq(Kinds)
  /\ MaxLost \in Nat

NoMbx == -1      \* NULL
Enabled == -2    \* EC_MBXINENABLE

VARIABLES
  cyclic,    \* mbxhandlerstate = ECT_MBXH_CYCLIC
  status,    \* the slave's bit 0x08 in the group's mbxstatus
  rmp,       \* mbxrmpstate
  request,   \* the repeat request bit of mbxinstateex
  islost,    \* the application has marked the slave as lost
  coembxin, coembxinfull,
  overrun,   \* coembxoverrun and the like, added up for each kind
  pc, mbx,   \* the thread of the cycle and the mailbox it works on
  rpc, rmbx, \* the same of each receiver
  content,   \* the message in each mailbox of the pool
  slave,     \* the slave: its mailbox, messages and repeat bits
  lost,      \* frames lost so far
  dispatched, received   \* history: the messages handled, and received

handlerVars == <<cyclic, status, rmp, request, islost, coembxin, coembxinfull,
                 overrun, pc, mbx>>
receiverVars == <<rpc, rmbx, received>>
wireVars == <<slave, lost>>
inVars == <<vars, ringVars, handlerVars, receiverVars, wireVars, content,
            dispatched>>

MbxInInit ==
  /\ Init /\ RingInit
  /\ cyclic = FALSE /\ status = FALSE /\ islost = FALSE
  /\ rmp = 0 /\ request = 0
  /\ coembxin = NoMbx /\ coembxinfull = FALSE
  /\ overrun = [k \in Kinds |-> 0]
  /\ pc = "cycle" /\ mbx = NoMbx
  /\ rpc = [r \in Receivers |-> "wait"]
  /\ rmbx = [r \in Receivers |-> NoMbx]
  /\ content = [m \in Items |-> 0]
  /\ slave = [full |-> 0, next |-> 1, last |-> 0, aside |-> 0,
              request |-> 0, acked |-> 0]
  /\ lost = 0
  /\ dispatched = <<>> /\ received = <<>>

-----------------------------------------------------------------------------
(* The slave (external).  Each message has its number; 0 is none.          *)

Offer ==
  /\ slave.full = 0
  /\ \/ /\ slave.aside # 0
        /\ slave' = [slave EXCEPT !.full = slave.aside, !.aside = 0]
     \/ /\ slave.aside = 0
        /\ slave.next <= Len(Messages)
        /\ slave' = [slave EXCEPT !.full = slave.next, !.next = @ + 1]

Repeat ==
  /\ slave.request # slave.acked
  /\ slave' = [slave EXCEPT
       !.acked = slave.request,
       !.full = IF slave.last # 0 THEN slave.last ELSE @,
       !.aside = IF slave.last # 0 /\ slave.full \notin {0, slave.last}
                 THEN slave.full ELSE @]

SlaveStep ==
  /\ Offer \/ Repeat
  /\ UNCHANGED <<vars, ringVars, handlerVars, receiverVars, lost, content,
                 dispatched>>

-----------------------------------------------------------------------------
(* One datagram to the slave that makes it `after`: it may be lost on its  *)
(* way out or on its way back, and else it is answered.                    *)
Unreached == lost < MaxLost /\ lost' = lost + 1 /\ UNCHANGED slave
Unheard(after) == lost < MaxLost /\ lost' = lost + 1 /\ slave' = after
Answered(after) == UNCHANGED lost /\ slave' = after

(* ecx_slavembxcyclic, called once the slave is configured.                *)
slavembxcyclic ==
  /\ ~cyclic
  /\ coembxin' = Enabled
  /\ cyclic' = TRUE
  /\ UNCHANGED <<vars, ringVars, status, rmp, request, islost, coembxinfull,
                 overrun, pc, mbx, receiverVars, wireVars, content,
                 dispatched>>

(* ecx_clearmbxstatus when the process data are sent; the flag comes back  *)
(* with them, unless the frame is lost.                                    *)
Exchange ==
  /\ pc = "cycle" /\ cyclic
  /\ \/ Answered(slave) /\ status' = (slave.full # 0)
     \/ Unreached /\ status' = FALSE
  /\ pc' = "visit"
  /\ UNCHANGED <<vars, ringVars, cyclic, rmp, request, islost, coembxin,
                 coembxinfull, overrun, mbx, receiverVars, content,
                 dispatched>>

(* ecx_mbxinhandler comes to the slave while a mailbox is being repeated.  *)
RepeatSlaveLost ==
  /\ islost
  /\ rmp' = 0
  /\ UNCHANGED <<request, wireVars>>

(* ecx_readmbxstatusex, and the repeat request is toggled.                 *)
ReadRequest ==
  /\ rmp = 1
  /\ \/ Answered(slave) /\ request' = 1 - slave.request /\ rmp' = 2
     \/ Unreached /\ UNCHANGED <<rmp, request>>

WriteRequest ==
  /\ rmp = 2
  /\ LET asked == [slave EXCEPT !.request = request]
     IN  \/ Answered(asked) /\ rmp' = 3
         \/ (Unreached \/ Unheard(asked)) /\ UNCHANGED rmp
  /\ UNCHANGED request

AwaitAck ==
  /\ rmp = 3
  /\ \/ Answered(slave) /\ rmp' = IF slave.acked = request THEN 0 ELSE 3
     \/ Unreached /\ UNCHANGED rmp
  /\ UNCHANGED request

RepeatMailbox ==
  /\ pc = "visit" /\ rmp # 0
  /\ \/ RepeatSlaveLost
     \/ ~islost /\ (ReadRequest \/ WriteRequest \/ AwaitAck)
  /\ pc' = "cycle"
  /\ UNCHANGED <<vars, ringVars, cyclic, status, islost, coembxin,
                 coembxinfull, overrun, mbx, receiverVars, content,
                 dispatched>>

(* Nothing to read, or no mailbox in the pool to read it into.             *)
NothingRead ==
  /\ pc = "visit" /\ rmp = 0
  /\ ~status \/ listcount = 0
  /\ pc' = "cycle"
  /\ UNCHANGED <<vars, ringVars, cyclic, status, rmp, request, islost,
                 coembxin, coembxinfull, overrun, mbx, receiverVars, wireVars,
                 content, dispatched>>

TakeMailbox ==
  /\ pc = "visit" /\ rmp = 0
  /\ status
  /\ mbx' = emptylist[listtail]
  /\ GetMbx("handler")
  /\ pc' = "read"
  /\ UNCHANGED <<ringVars, cyclic, status, rmp, request, islost, coembxin,
                 coembxinfull, overrun, receiverVars, wireVars, content,
                 dispatched>>

(* Mutant: a mailbox whose frame is lost is not asked for again.           *)
ReadLostForgotten ==
  /\ Unreached \/ (slave.full # 0 /\ Unheard([slave EXCEPT !.full = 0,
                                                  !.last = slave.full]))
  /\ pc' = "drop"
  /\ UNCHANGED <<rmp, content>>

ReadLost ==
  /\ \/ Unreached
     \/ slave.full # 0 /\ Unheard([slave EXCEPT !.full = 0,
                                                 !.last = slave.full])
     \/ slave.full = 0 /\ Answered(slave)
  /\ rmp' = 1
  /\ pc' = "drop"
  /\ UNCHANGED content

ReadMailbox ==
  /\ pc = "read"
  /\ \/ /\ slave.full # 0
        /\ Answered([slave EXCEPT !.full = 0, !.last = slave.full])
        /\ content' = [content EXCEPT ![mbx] = slave.full]
        /\ pc' = "dispatch"
        /\ UNCHANGED rmp
     \/ ReadLost
  /\ UNCHANGED <<vars, ringVars, cyclic, status, request, islost, coembxin,
                 coembxinfull, overrun, mbx, receiverVars, dispatched>>

Kind == Messages[content[mbx]]

(* ecx_mbxerror and ecx_mbxemergencyerror.                                 *)
DispatchError ==
  /\ Kind \in {"error", "emergency"}
  /\ PushError(content[mbx])
  /\ pc' = "drop"
  /\ UNCHANGED <<coembxin, overrun, vars>>

SlotFree == coembxin # NoMbx /\ ~coembxinfull

DispatchCoE ==
  /\ Kind = "coe" /\ SlotFree
  /\ coembxin' = mbx
  /\ HandOver("handler", "coembxin", mbx)
  /\ pc' = "stored"
  /\ UNCHANGED <<overrun, ringVars>>

(* No place for it: the code enables no slot of another kind, and an EoE   *)
(* fragment the hook has taken is counted the same way.                    *)
DispatchOverrun ==
  /\ Kind \in {"eoe", "other"} \/ (Kind = "coe" /\ ~SlotFree)
  /\ overrun' = [overrun EXCEPT ![Kind] = @ + 1]
  /\ pc' = "drop"
  /\ UNCHANGED <<coembxin, vars, ringVars>>

Dispatch ==
  /\ pc = "dispatch"
  /\ dispatched' = Append(dispatched, content[mbx])
  /\ DispatchError \/ DispatchCoE \/ DispatchOverrun
  /\ UNCHANGED <<cyclic, status, rmp, request, islost, coembxinfull, mbx,
                 receiverVars, wireVars, content>>

MarkFull ==
  /\ pc = "stored"
  /\ coembxinfull' = TRUE
  /\ mbx' = NoMbx
  /\ pc' = "cycle"
  /\ UNCHANGED <<vars, ringVars, cyclic, status, rmp, request, islost,
                 coembxin, overrun, receiverVars, wireVars, content,
                 dispatched>>

DropMailbox ==
  /\ pc = "drop" /\ pushing = "idle"
  /\ DropMbx("handler", mbx)
  /\ mbx' = NoMbx
  /\ pc' = "cycle"
  /\ UNCHANGED <<ringVars, cyclic, status, rmp, request, islost, coembxin,
                 coembxinfull, overrun, receiverVars, wireVars, content,
                 dispatched>>

Handler ==
  \/ slavembxcyclic \/ Exchange \/ RepeatMailbox \/ NothingRead
  \/ TakeMailbox \/ ReadMailbox \/ Dispatch \/ MarkFull \/ DropMailbox

-----------------------------------------------------------------------------
(* ecx_mbxreceive of a cyclic slave, by receiver r: it sees the slot full, *)
(* reads the pointer, enables the slot, and marks it as not full.          *)

SeeFull(r) ==
  /\ rpc[r] = "wait" /\ cyclic /\ coembxinfull
  /\ rpc' = [rpc EXCEPT ![r] = "take"]
  /\ UNCHANGED <<rmbx, received, content, handlerVars, vars>>

TakePointer(r) ==
  /\ rpc[r] = "take"
  /\ rmbx' = [rmbx EXCEPT ![r] = coembxin]
  /\ owned' = [owned EXCEPT ![r] = @ \cup ({coembxin} \cap Items),
                            !["coembxin"] = {}]
  /\ rpc' = [rpc EXCEPT ![r] = "enable"]
  /\ UNCHANGED <<received, content, handlerVars, emptylist, listhead,
                 listtail, listcount>>

(* The slot forgets its pointer.                                           *)
ForgetPointer ==
  /\ coembxin' = Enabled
  /\ owned' = [owned EXCEPT !["coembxin"] = {}]
  /\ UNCHANGED <<coembxinfull, emptylist, listhead, listtail, listcount>>

NotFull ==
  /\ coembxinfull' = FALSE
  /\ UNCHANGED <<coembxin, vars>>

(* Mutant: the slot is marked as not full first.                           *)
EnableSlotLate(r) ==
  /\ \/ rpc[r] = "enable" /\ NotFull /\ rpc' = [rpc EXCEPT ![r] = "clear"]
     \/ rpc[r] = "clear" /\ ForgetPointer /\ rpc' = [rpc EXCEPT ![r] = "use"]
  /\ UNCHANGED <<rmbx, received, content, cyclic, status, rmp, request,
                 islost, overrun, pc, mbx>>

EnableSlot(r) ==
  /\ \/ rpc[r] = "enable" /\ ForgetPointer
        /\ rpc' = [rpc EXCEPT ![r] = "clear"]
     \/ rpc[r] = "clear" /\ NotFull /\ rpc' = [rpc EXCEPT ![r] = "use"]
  /\ UNCHANGED <<rmbx, received, content, cyclic, status, rmp, request,
                 islost, overrun, pc, mbx>>

(* The caller reads the mailbox and drops it.                              *)
UseMailbox(r) ==
  /\ rpc[r] = "use"
  /\ received' = Append(received, content[rmbx[r]])
  /\ DropMbx(r, rmbx[r])
  /\ rmbx' = [rmbx EXCEPT ![r] = NoMbx]
  /\ rpc' = [rpc EXCEPT ![r] = "wait"]
  /\ UNCHANGED <<content, handlerVars>>

Receiver(r) ==
  /\ SeeFull(r) \/ TakePointer(r) \/ EnableSlot(r) \/ UseMailbox(r)
  /\ UNCHANGED <<ringVars, wireVars, dispatched>>

(* Other users of the pool, the application that pops errors, and the one  *)
(* that marks the slave as lost.                                           *)
Others ==
  /\ \/ /\ GetMbx("sender") \/ \E m \in Items : DropMbx("sender", m)
        /\ UNCHANGED <<ringVars, islost>>
     \/ PopError /\ UNCHANGED <<vars, islost>>
     \/ ~islost /\ islost' = TRUE /\ UNCHANGED <<vars, ringVars>>
  /\ UNCHANGED <<cyclic, status, rmp, request, coembxin, coembxinfull,
                 overrun, pc, mbx, receiverVars, wireVars, content,
                 dispatched>>

Pushing ==
  /\ Advance \/ Overtake
  /\ UNCHANGED <<vars, handlerVars, receiverVars, wireVars, content,
                 dispatched>>

MbxInNext ==
  \/ SlaveStep \/ Handler \/ Pushing \/ Others
  \/ \E r \in Receivers : Receiver(r)

MbxInSpec == MbxInInit /\ [][MbxInNext]_inVars

-----------------------------------------------------------------------------
(* Mailboxes are handled in the order the slave offers them: none is       *)
(* skipped as long as the slave is not marked as lost, one is handled      *)
(* again only right after itself, and only when a frame was lost.          *)
MailboxesInOrder ==
  \A i \in DOMAIN dispatched :
    LET before == IF i = 1 THEN 0 ELSE dispatched[i - 1]
        now == dispatched[i]
    IN  /\ now >= before
        /\ ~islost => now <= before + 1
        /\ lost = 0 => now = before + 1

Held == Cardinality(UNION {owned[u] : u \in {"coembxin"} \cup Receivers})

(* Every CoE reply that was handled is received, waits for its receiver,   *)
(* or is counted as overrun, and replies are received in their order.      *)
DeliveredOrCounted ==
  /\ Cardinality({i \in DOMAIN dispatched : Messages[dispatched[i]] = "coe"})
       = Len(received) + Held + overrun["coe"]
  /\ \A i, j \in DOMAIN received : i < j => received[i] <= received[j]
  /\ \A i \in DOMAIN received : Messages[received[i]] = "coe"

=============================================================================
