------------------------------ MODULE ErrorRing ------------------------------
(***************************************************************************)
(* The error list of a context (native/soem/src/ec_main.c: ecx_pusherror,  *)
(* ecx_poperror, ecx_iserror).  A ring of EC_MAXELIST + 1 entries; a push  *)
(* into a full ring gives up the oldest entry.  Nothing locks it, so a     *)
(* push is three steps here, and Concurrent says whether a pop may come    *)
(* between them.                                                           *)
(***************************************************************************)
EXTENDS Integers, Sequences

CONSTANTS
  MaxErrors,   \* EC_MAXELIST
  Concurrent   \* TRUE when errors are popped while another thread pushes

ASSUME ErrorRingAssumption ==
  /\ MaxErrors \in Nat \ {0}
  /\ Concurrent \in BOOLEAN

VARIABLES
  Error,       \* elist.Error
  head,        \* elist.head: where the next error is stored
  tail,        \* elist.tail: the oldest error
  ecaterror,   \* context->ecaterror
  pushing,     \* the step of ecx_pusherror under way, "idle" outside of it
  unread       \* history: the errors a bounded queue would hold now

ringVars == <<Error, head, tail, ecaterror, pushing, unread>>

RingInit ==
  /\ Error = [i \in 0 .. MaxErrors |-> 0]
  /\ head = 0 /\ tail = 0
  /\ ecaterror = FALSE
  /\ pushing = "idle"
  /\ unread = <<>>

(* Mutant: the last entry of the ring is never used.                       *)
WrapEarly(i) == IF i >= MaxErrors THEN 0 ELSE i

Wrap(i) == IF i > MaxErrors THEN 0 ELSE i

(* ecx_pusherror: the entry is written, ...                                *)
PushError(e) ==
  /\ pushing = "idle"
  /\ Error' = [Error EXCEPT ![head] = e]
  /\ unread' = Append(IF Len(unread) = MaxErrors THEN Tail(unread)
                                                 ELSE unread, e)
  /\ pushing' = "advance"
  /\ UNCHANGED <<head, tail, ecaterror>>

(* ... head moves on, ...                                                  *)
Advance ==
  /\ pushing = "advance"
  /\ head' = Wrap(head + 1)
  /\ pushing' = "overtake"
  /\ UNCHANGED <<Error, tail, ecaterror, unread>>

(* ... and tail is pushed on by a head that has caught up with it.         *)
Overtake ==
  /\ pushing = "overtake"
  /\ tail' = Wrap(IF head = tail THEN tail + 1 ELSE tail)
  /\ ecaterror' = TRUE
  /\ pushing' = "idle"
  /\ UNCHANGED <<Error, head, unread>>

iserror == head # tail

(* ecx_poperror; an empty list only resets ecaterror.                      *)
PopError ==
  /\ Concurrent \/ pushing = "idle"
  /\ IF iserror
     THEN /\ tail' = Wrap(tail + 1)
          /\ unread' = IF unread = <<>> THEN unread ELSE Tail(unread)
          /\ UNCHANGED ecaterror
     ELSE /\ ecaterror' = FALSE
          /\ UNCHANGED <<tail, unread>>
  /\ UNCHANGED <<Error, head, pushing>>

-----------------------------------------------------------------------------
(* The entries from tail up to head, oldest first.                         *)
Pending ==
  [i \in 1 .. (head - tail) % (MaxErrors + 1) |->
     Error[(tail + i - 1) % (MaxErrors + 1)]]

(* Between two calls the ring holds the last EC_MAXELIST errors that were  *)
(* not popped yet, in the order they were pushed, and ecaterror is set     *)
(* while there is one.                                                     *)
ErrorsInOrder ==
  pushing = "idle" => Pending = unread /\ (unread # <<>> => ecaterror)

=============================================================================
