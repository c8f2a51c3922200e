----------------------------- MODULE SoeTransfer -----------------------------
(***************************************************************************)
(* Servo drive profile over EtherCAT (native/soem/src/ec_soe.c:            *)
(* ecx_SoEread and ecx_SoEwrite).  A parameter (IDN) that is longer than a *)
(* mailbox travels in fragments; all but the last are marked incomplete    *)
(* and name the fragments left in place of the IDN.  The drive is          *)
(* external: it collects fragments, answers the last one, and may answer   *)
(* anything with an error.                                                 *)
(***************************************************************************)
EXTENDS MbxCall

VARIABLES
  mp,        \* where ecx_SoEread copies its data from
  fragments, \* the drive's collected bytes of a write
  tosend,    \* what of a parameter the drive is still to send
  parameter  \* what the drive was brought since the call began (history)

drive == <<fragments, tosend, parameter>>
soevars == <<mp, drive>>

(* mp is set from MbxIn before any reply is in: it points into the mailbox *)
(* that was drained, or just above address 0.                              *)
Null == "null"
Drained == "drained"
Unknown == "unknown"  \* a byte of a mailbox that went back to the pool

NoFragments == [item |-> "none", from |-> 0]

SoeInit ==
  /\ mp = Null /\ fragments = <<>> /\ tosend = NoFragments /\ parameter = <<>>

SoeReadRequest(i) == [cmd |-> "soereadreq", item |-> i]
SoeWriteRequest(i, data) == [cmd |-> "soewritereq", item |-> i, data |-> data]
SoeFragment(left, data) == [cmd |-> "soefragment", left |-> left, data |-> data]
SoeReadResponse(data, incomplete) ==
  [cmd |-> "soereadres", data |-> data, incomplete |-> incomplete]
SoeWriteResponse == [cmd |-> "soewriteres"]
SoeError == [cmd |-> "soeerror"]

SoEread(i, size) == Begin("soeread", i, size, "drain") /\ UNCHANGED soevars

(* A write begins when the drive has dropped what an earlier one left.     *)
SoEwrite(i) ==
  fragments = <<>> /\ Begin("soewrite", i, 0, "drain") /\ UNCHANGED soevars

SoeAwaitReply ==
  /\ pc = "sent"
  /\ op = "soeread" \/ (op = "soewrite" /\ ~more)
  /\ AwaitReply
  /\ UNCHANGED soevars

-----------------------------------------------------------------------------
(* ecx_SoEread.                                                            *)

ReadIDN ==
  /\ pc = "next" /\ op = "soeread"
  /\ mp' = IF mbxin = Nothing THEN Null ELSE Drained
  /\ Ask(SoeReadRequest(item))
  /\ UNCHANGED drive

(* What is beyond the caller's buffer is left out.                         *)
CopyFragment ==
  /\ pc = "received" /\ op = "soeread" /\ mbxin.cmd = "soereadres"
  /\ LET copied == Least(Len(mbxin.data), room - Len(got))
     IN  IF copied > 0 /\ mp = Null THEN Goto("crashed") /\ UNCHANGED got
         ELSE /\ got' = got \o [k \in 1 .. copied |-> Unknown]
              /\ Goto(IF mbxin.incomplete THEN "sent" ELSE "finish")
  /\ wkc' = TRUE
  /\ UNCHANGED <<mailboxes, slavembx, faults, op, item, room, moved, more, soevars>>

SoeReadFails ==
  /\ op = "soeread"
  /\ \/ GiveUp
     \/ pc = "received" /\ mbxin.cmd # "soereadres" /\ Conclude(FALSE, "finish")
  /\ UNCHANGED soevars

-----------------------------------------------------------------------------
(* ecx_SoEwrite.  A fragment is not answered: the next one goes out when   *)
(* the slave's mailbox is empty, even after one that could not be sent.    *)

WriteFragment ==
  /\ pc = "next" /\ op = "soewrite"
  /\ LET framedatasize == Least(Rest, MaxData)
         data == Bytes(item, moved, framedatasize)
     IN  /\ more' = (Rest > MaxData)
         /\ moved' = moved + framedatasize
         /\ Post(IF more' THEN SoeFragment(Rest \div MaxData, data)
                 ELSE SoeWriteRequest(item, data))
  /\ UNCHANGED <<op, item, room, got, wkc, soevars>>

FragmentTaken ==
  /\ pc = "sent" /\ op = "soewrite" /\ more
  /\ inbox = Nothing /\ ~silent
  /\ Conclude(TRUE, "next")
  /\ UNCHANGED soevars

(* ecx_mbxempty gives up: a response is read although there is more.       *)
FragmentStuck ==
  /\ pc = "sent" /\ op = "soewrite" /\ more
  /\ inbox # Nothing \/ silent
  /\ wkc' = TRUE
  /\ Expires
  /\ mbxin' = Nothing /\ pool' = pool + Held(mbxin)
  /\ Goto("receive")
  /\ UNCHANGED <<mbxout, mbxcnt, slavembx, op, item, room, moved, got, more, soevars>>

(* Any response ends the loop.                                             *)
WriteAnswered ==
  /\ pc = "received" /\ op = "soewrite"
  /\ Conclude(mbxin = SoeWriteResponse, "finish")
  /\ UNCHANGED soevars

(* Mutant: a write that could not be sent is a success.                    *)
WriteGoesOnRegardless ==
  /\ pc \in {"unsent", "unreceived"} /\ op = "soewrite"
  /\ Conclude(TRUE, IF more THEN "next" ELSE "finish")
  /\ UNCHANGED soevars

WriteGoesOn ==
  /\ pc \in {"unsent", "unreceived"} /\ op = "soewrite"
  /\ Conclude(FALSE, IF more THEN "next" ELSE "finish")
  /\ UNCHANGED soevars

SoeReturn ==
  /\ op \in {"soeread", "soewrite"} /\ Return
  /\ mp' = Null /\ parameter' = <<>>
  /\ UNCHANGED <<fragments, tosend>>

-----------------------------------------------------------------------------
(* The drive.                                                              *)

SoeServe(request, answer) ==
  /\ inbox # Nothing /\ inbox.body = request
  /\ Take(answer)
  /\ UNCHANGED <<callvars, mp>>

Incomplete(i, from) == Size[i] - from > MaxData

SoeResponse(i, from) ==
  SoeReadResponse(Bytes(i, from, Least(Size[i] - from, MaxData)), Incomplete(i, from))

After(i, from) ==
  IF Incomplete(i, from) THEN [item |-> i, from |-> from + MaxData] ELSE NoFragments

ServeReadIDN(i) ==
  /\ SoeServe(SoeReadRequest(i), SoeResponse(i, 0))
  /\ tosend' = After(i, 0)
  /\ UNCHANGED <<fragments, parameter>>

(* The fragments of a response follow one another without being asked for. *)
SendRest ==
  /\ tosend # NoFragments /\ work = Nothing /\ ~silent
  /\ work' = SoeResponse(tosend.item, tosend.from)
  /\ tosend' = After(tosend.item, tosend.from)
  /\ UNCHANGED <<pc, mailboxes, inbox, outbox, lastcnt, silent, faults, callvars, mp,
                 fragments, parameter>>

ServeFragment ==
  /\ inbox # Nothing /\ inbox.body.cmd = "soefragment"
  /\ SoeServe(inbox.body, Nothing)
  /\ fragments' = fragments \o inbox.body.data
  /\ UNCHANGED <<tosend, parameter>>

ServeWriteIDN ==
  /\ inbox # Nothing /\ inbox.body.cmd = "soewritereq"
  /\ SoeServe(inbox.body, SoeWriteResponse)
  /\ parameter' = <<inbox.body.item, fragments \o inbox.body.data>>
  /\ fragments' = <<>>
  /\ UNCHANGED tosend

ServeSoeError ==
  /\ inbox # Nothing
  /\ inbox.body.cmd \in {"soereadreq", "soewritereq", "soefragment"}
  /\ SoeServe(inbox.body, SoeError)
  /\ fragments' = <<>> /\ tosend' = NoFragments
  /\ UNCHANGED parameter

DropFragments ==
  /\ op # "soewrite" /\ fragments # <<>>
  /\ fragments' = <<>>
  /\ UNCHANGED <<mbxvars, callvars, mp, tosend, parameter>>

Drive ==
  \/ DropFragments
  \/ \E i \in Items : ServeReadIDN(i)
  \/ SendRest \/ ServeFragment \/ ServeWriteIDN \/ ServeSoeError

SoeMaster ==
  \/ SoeAwaitReply \/ ReadIDN \/ CopyFragment \/ SoeReadFails
  \/ WriteFragment \/ FragmentTaken \/ FragmentStuck \/ WriteAnswered
  \/ WriteGoesOn

-----------------------------------------------------------------------------
(* After a write that reports success the drive has the whole parameter in *)
(* order, unless a fragment was lost (the fragments after it are sent all  *)
(* the same) or a response was late.                                       *)
SoeWriteIsWhole ==
  Succeeded("soewrite") /\ Without({"request", "late"})
    => parameter = <<item, Content(item)>>

(* A read combines all fragments and copies them to the caller's buffer.   *)
SoeReadCopies ==
  op = "soeread" /\ Without({"late", "pool"})
    => pc # "crashed" /\ (wkc /\ pc = "done" => got = Content(item))

=============================================================================
