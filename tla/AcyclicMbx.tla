----------------------------- MODULE AcyclicMbx -----------------------------
(***************************************************************************)
(* The mailboxes of one slave without cyclic mailbox handling, as the      *)
(* protocols see them (native/soem/src/ec_main.c: ecx_mbxsend and          *)
(* ecx_mbxreceive, acyclic parts).  The slave has one mailbox for requests *)
(* and one for replies; frames to both may be lost on either way.          *)
(*                                                                         *)
(* A protocol sets pc to "try" with its mailbox in mbxout and goes on from *)
(* "sent" or "unsent"; it sets pc to "receive" and goes on from "received" *)
(* or "unreceived".  The slave is not part of the repository: it takes a   *)
(* request out, works on it, and places the reply when there is room.      *)
(***************************************************************************)
EXTENDS Integers, Sequences, FiniteSets, Functions

CONSTANTS
  MaxCnt,     \* 7: the counter of ec_nextmbxcnt goes 1 .. 7, 1, ...
  PoolSize,   \* mailboxes in the pool
  Mortal,     \* whether the slave may fall silent
  Faulty,     \* the kinds of failure that occur
  MaxFaults   \* bound on the failures that have their effects at a time

(* NULL, or an empty mailbox of the slave.                                 *)
Nothing == [cmd |-> "nothing"]

(* "request": both tries of a mailbox are lost on their way to the slave;  *)
(* "acknowledge": the slave has the mailbox and the master does not know;  *)
(* "reply": a mailbox is read and lost, and no repeat request helps;       *)
(* "late": a timer expires although the slave is still to act;             *)
(* "pool": ecx_getmbx finds the pool empty.                                *)
Kinds == {"request", "acknowledge", "reply", "late", "pool"}

ASSUME AcyclicMbxAssumption ==
  /\ MaxCnt \in Nat \ {0}
  /\ PoolSize \in Nat
  /\ Mortal \in BOOLEAN
  /\ Faulty \subseteq Kinds
  /\ MaxFaults \in Nat

VARIABLES
  pc,       \* where the caller is
  mbxout,   \* MbxOut: the request the caller holds, or Nothing
  mbxin,    \* MbxIn: the reply the caller holds, or Nothing
  pool,     \* free mailboxes
  mbxcnt,   \* slavelist[slave].mbx_cnt
  inbox,    \* the slave's mailbox for requests
  work,     \* the reply the slave is about to place
  outbox,   \* the slave's mailbox for replies
  lastcnt,  \* counter of the last request the slave took
  silent,   \* whether the slave has fallen silent
  faults    \* failures of each kind whose effects may last (history)

mailboxes == <<mbxout, mbxin, pool, mbxcnt>>
slavembx == <<inbox, work, outbox, lastcnt, silent>>
mbxvars == <<pc, mailboxes, slavembx, faults>>

MbxTypeOK(Requests, Replies) ==
  /\ mbxout \in Requests \cup {Nothing}
  /\ mbxin \in Replies \cup {Nothing}
  /\ pool \in 0 .. PoolSize
  /\ mbxcnt \in 0 .. MaxCnt
  /\ inbox \in Requests \cup {Nothing}
  /\ work \in Replies \cup {Nothing}
  /\ outbox \in Replies \cup {Nothing}
  /\ lastcnt \in 0 .. MaxCnt
  /\ silent \in BOOLEAN
  /\ faults \in [Kinds -> 0 .. MaxFaults]

MbxInit ==
  /\ mbxout = Nothing /\ mbxin = Nothing
  /\ pool = PoolSize /\ mbxcnt = 0
  /\ inbox = Nothing /\ work = Nothing /\ outbox = Nothing
  /\ lastcnt = 0 /\ silent = FALSE
  /\ faults = [k \in Kinds |-> 0]

-----------------------------------------------------------------------------
(* What the protocols do with the mailboxes they hold.                     *)

Held(m) == IF m = Nothing THEN 0 ELSE 1

NextCnt == IF mbxcnt + 1 > MaxCnt THEN 1 ELSE mbxcnt + 1

(* The slave has done with every request what it is going to do.           *)
Settled ==
  \/ silent
  \/ inbox = Nothing /\ work = Nothing
  \/ work # Nothing /\ outbox # Nothing

Failures == FoldFunction(+, 0, faults)

Fault(kind) ==
  /\ kind \in Faulty /\ Failures < MaxFaults
  /\ faults' = [faults EXCEPT ![kind] = @ + 1]

Noted(kind) ==
  faults' = [faults EXCEPT ![kind] = IF @ < MaxFaults THEN @ + 1 ELSE @]

(* A timer expires when nothing is to come, or else too early.             *)
Expires ==
  \/ Settled /\ UNCHANGED faults
  \/ ~Settled /\ Fault("late")

(* A new call begins.  What went wrong before has no effect on it when the *)
(* slave is idle: the reply that may be left is drained.  A mailbox that   *)
(* the pool has lost stays lost.                                           *)
BeginCall ==
  IF inbox = Nothing /\ work = Nothing
  THEN faults' = [k \in Kinds |-> IF k = "pool" THEN faults[k] ELSE 0]
  ELSE Expires

-----------------------------------------------------------------------------
(* ecx_mbxsend: a first try; if it has no working counter, a second one    *)
(* when the slave's mailbox is seen empty in time.  The mailbox goes back  *)
(* to the pool in every case.                                              *)

(* What it means to the slave that the master has no working counter.      *)
Mistake ==
  IF lastcnt = mbxout.cnt \/ inbox = mbxout THEN "acknowledge" ELSE "request"

FirstTry ==
  /\ pc = "try"
  /\ \/ /\ inbox = Nothing /\ ~silent
        /\ inbox' = mbxout
        /\ \/ /\ pc' = "sent"
              /\ mbxout' = Nothing /\ pool' = pool + 1
           \/ /\ pc' = "wait"
              /\ UNCHANGED <<mbxout, pool>>
     \/ /\ pc' = "wait"
        /\ UNCHANGED <<inbox, mbxout, pool>>
  /\ UNCHANGED <<mbxin, mbxcnt, work, outbox, lastcnt, silent, faults>>

WaitEmpty ==
  /\ pc = "wait"
  /\ inbox = Nothing /\ ~silent
  /\ pc' = "retry"
  /\ UNCHANGED <<mailboxes, slavembx, faults>>

(* ecx_mbxempty gives up; the first try may have been taken all the same.  *)
WaitEmptyFails ==
  /\ pc = "wait"
  /\ inbox # Nothing \/ silent
  /\ \/ Settled /\ Noted(Mistake)
     \/ ~Settled /\ Fault("late")
  /\ pc' = "unsent"
  /\ mbxout' = Nothing /\ pool' = pool + 1
  /\ UNCHANGED <<mbxin, mbxcnt, slavembx>>

Retry ==
  /\ pc = "retry"
  /\ \/ /\ inbox = Nothing /\ ~silent
        /\ inbox' = mbxout
        /\ \/ pc' = "sent" /\ UNCHANGED faults
           \/ pc' = "unsent" /\ Fault("acknowledge")
     \/ /\ pc' = "unsent"
        /\ \/ silent /\ UNCHANGED faults
           \/ ~silent /\ Fault(Mistake)
        /\ UNCHANGED inbox
  /\ mbxout' = Nothing /\ pool' = pool + 1
  /\ UNCHANGED <<mbxin, mbxcnt, work, outbox, lastcnt, silent>>

-----------------------------------------------------------------------------
(* ecx_mbxreceive.  A lost frame with the reply in it is asked for again   *)
(* by a repeat request, which is part of Receive; ReceiveLoses is a repeat *)
(* that does not come to an end in time.                                   *)

Receive ==
  /\ pc = "receive"
  /\ outbox # Nothing /\ ~silent
  /\ mbxin' = outbox /\ pool' = pool - 1
  /\ outbox' = Nothing
  /\ pc' = "received"
  /\ UNCHANGED <<mbxout, mbxcnt, inbox, work, lastcnt, silent, faults>>

ReceiveLoses ==
  /\ pc = "receive"
  /\ outbox # Nothing /\ ~silent
  /\ outbox' = Nothing
  /\ Fault("reply")
  /\ pc' = "unreceived"
  /\ UNCHANGED <<mailboxes, inbox, work, lastcnt, silent>>

ReceiveTimesOut ==
  /\ pc = "receive"
  /\ outbox = Nothing \/ silent
  /\ Expires
  /\ pc' = "unreceived"
  /\ UNCHANGED <<mailboxes, slavembx>>

-----------------------------------------------------------------------------
(* The slave.  A request with the counter of the one before is a second    *)
(* copy of it, and is not executed again.                                  *)

TakeCopy ==
  /\ inbox # Nothing /\ work = Nothing /\ ~silent
  /\ inbox.cnt = lastcnt
  /\ inbox' = Nothing
  /\ UNCHANGED <<pc, mailboxes, work, outbox, lastcnt, silent, faults>>

Take(answer) ==
  /\ inbox # Nothing /\ work = Nothing /\ ~silent
  /\ inbox.cnt # lastcnt
  /\ inbox' = Nothing
  /\ lastcnt' = inbox.cnt
  /\ work' = answer
  /\ UNCHANGED <<pc, mailboxes, outbox, silent, faults>>

PlaceReply ==
  /\ work # Nothing /\ outbox = Nothing /\ ~silent
  /\ outbox' = work
  /\ work' = Nothing
  /\ UNCHANGED <<pc, mailboxes, inbox, lastcnt, silent, faults>>

FallSilent ==
  /\ Mortal /\ ~silent
  /\ silent' = TRUE
  /\ UNCHANGED <<pc, mailboxes, inbox, work, outbox, lastcnt, faults>>

Transport ==
  \/ FirstTry \/ WaitEmpty \/ WaitEmptyFails \/ Retry
  \/ Receive \/ ReceiveLoses \/ ReceiveTimesOut

Slave == TakeCopy \/ PlaceReply \/ FallSilent

=============================================================================
