------------------------------- MODULE MbxCall -------------------------------
(***************************************************************************)
(* What the calls of the FoE, SoE and EoE protocols have in common         *)
(* (native/soem/src/ec_foe.c, ec_soe.c, ec_eoe.c): the mailbox of the      *)
(* slave is drained, a request goes out, replies come in, each is dropped  *)
(* before the next, and the last one at the end.  One thread makes one     *)
(* call after the other.                                                   *)
(*                                                                         *)
(* Unlike ecx_SDOread these functions do not look whether ecx_getmbx found *)
(* a mailbox: with an empty pool they write through a null pointer, and pc *)
(* is "crashed" for ever.                                                  *)
(***************************************************************************)
EXTENDS AcyclicMbx, SequencesExt

CONSTANTS
  Items,    \* the files, parameters and Ethernet frames that are moved
  Size,     \* Size[i]: the bytes of i
  MaxData   \* maxdata: the bytes a mailbox of the slave holds

ASSUME MbxCallAssumption ==
  /\ Size \in [Items -> Nat]
  /\ MaxData \in Nat \ {0}

VARIABLES
  op,     \* the function that runs
  item,   \* what it moves
  room,   \* size of the caller's buffer
  moved,  \* bytes handed to ecx_mbxsend so far
  got,    \* what is in the caller's buffer
  more,   \* worktodo or NotLast: the loop goes on
  wkc     \* whether wkc > 0, what the call returns

callvars == <<op, item, room, moved, got, more, wkc>>

Bytes(i, from, len) == [k \in 1 .. len |-> <<i, from + k>>]
Content(i) == Bytes(i, 0, Size[i])

Least(a, b) == IF a < b THEN a ELSE b
Rest == Size[item] - moved

CallInit ==
  /\ op = "none" /\ item \in Items /\ room = 0
  /\ moved = 0 /\ got = <<>> /\ more = TRUE /\ wkc = FALSE

Goto(label) == pc' = label

-----------------------------------------------------------------------------
(* A function is called with its local variables as Return left them; it   *)
(* drains the slave's mailbox, or does not.                                *)

(* More is to come of an earlier call than the reply that is drained.      *)
Overlaps ==
  IF inbox = Nothing /\ work = Nothing THEN BeginCall
  ELSE IF Settled THEN Noted("late") ELSE Fault("late")

Begin(function, i, size, first) ==
  /\ pc = "idle"
  /\ op' = function /\ item' = i /\ room' = size
  /\ Overlaps
  /\ Goto(first)
  /\ UNCHANGED <<mailboxes, slavembx, moved, got, more, wkc>>

(* The reply that was left behind is read, or missed in the one look that  *)
(* a timeout of 0 leaves.                                                  *)
Drain ==
  /\ pc = "drain"
  /\ \/ mbxin' = outbox /\ outbox' = Nothing /\ ~silent /\ UNCHANGED faults
     \/ silent /\ UNCHANGED <<mbxin, outbox, faults>>
     \/ outbox # Nothing /\ ~silent /\ Fault("late") /\ UNCHANGED <<mbxin, outbox>>
  /\ pool' = pool - Held(mbxin')
  /\ Goto("next")
  /\ UNCHANGED <<mbxout, mbxcnt, inbox, work, lastcnt, silent, callvars>>

(* ecx_getmbx and ecx_mbxsend with the mailbox MbxOut; with an empty pool   *)
(* the write through the null pointer.                                     *)
Post(body) ==
  /\ \/ /\ mbxout' = [cnt |-> NextCnt, body |-> body]
        /\ mbxcnt' = NextCnt
        /\ pool' = pool - 1
        /\ Goto("try")
        /\ UNCHANGED <<mbxin, faults>>
     \/ Fault("pool") /\ Goto("crashed") /\ UNCHANGED mailboxes
  /\ UNCHANGED slavembx

(* The mailbox is posted, and nothing else of the call changes.            *)
Ask(body) == Post(body) /\ UNCHANGED callvars

(* The request is with the slave: the reply before is dropped and the next *)
(* one read.                                                               *)
AwaitReply ==
  /\ wkc' = TRUE
  /\ mbxin' = Nothing /\ pool' = pool + Held(mbxin)
  /\ Goto("receive")
  /\ UNCHANGED <<mbxout, mbxcnt, slavembx, faults, op, item, room, moved, got, more>>

(* Nothing but the result and where to go on.                              *)
Conclude(result, label) ==
  /\ wkc' = result
  /\ Goto(label)
  /\ UNCHANGED <<mailboxes, slavembx, faults, op, item, room, moved, got, more>>

(* Mutant: the reply is waited for again.                                  *)
GiveUpNever == pc \in {"unsent", "unreceived"} /\ Conclude(FALSE, "receive")

(* Neither sending nor receiving is tried again.                           *)
GiveUp == pc \in {"unsent", "unreceived"} /\ Conclude(FALSE, "finish")

(* Mutant: the last reply is not given back.                               *)
FinishKeeping ==
  /\ pc = "finish"
  /\ mbxin' = Nothing
  /\ Goto("done")
  /\ UNCHANGED <<mbxout, pool, mbxcnt, slavembx, faults, callvars>>

Finish ==
  /\ pc = "finish"
  /\ mbxin' = Nothing /\ pool' = pool + Held(mbxin)
  /\ Goto("done")
  /\ UNCHANGED <<mbxout, mbxcnt, slavembx, faults, callvars>>

Return ==
  /\ pc = "done"
  /\ op' = "none" /\ room' = 0 /\ moved' = 0 /\ got' = <<>>
  /\ more' = TRUE /\ wkc' = FALSE
  /\ Goto("idle")
  /\ UNCHANGED <<mailboxes, slavembx, faults, item>>

Succeeded(function) == pc = "done" /\ op = function /\ wkc

Without(kinds) == \A k \in kinds : faults[k] = 0

=============================================================================
