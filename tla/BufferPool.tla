----------------------------- MODULE BufferPool -----------------------------
(***************************************************************************)
(* What the mailbox pool of the master promises its users: a set of        *)
(* buffers, each of them free or owned by exactly one user.                *)
(***************************************************************************)
CONSTANTS
  Users,   \* threads that take mailboxes from the pool
  Bufs     \* the mailboxes

VARIABLES
  free,    \* the mailboxes nobody owns
  owned    \* owned[u]: the mailboxes user u has to give back

vars == <<free, owned>>

Init == free = Bufs /\ owned = [u \in Users |-> {}]

(* A user gets a free mailbox: no one else has it.                         *)
Get(u) ==
  \E b \in free :
    /\ free' = free \ {b}
    /\ owned' = [owned EXCEPT ![u] = @ \cup {b}]

(* Ownership of a mailbox goes back to the pool, and to another user when  *)
(* the mailbox is queued for it or delivered to it.                        *)
Drop(u) ==
  \E b \in owned[u] :
    /\ free' = free \cup {b}
    /\ owned' = [owned EXCEPT ![u] = @ \ {b}]

HandOver(u, v) ==
  \E b \in owned[u] :
    /\ owned' = [owned EXCEPT ![u] = @ \ {b}, ![v] = owned[v] \cup {b}]
    /\ UNCHANGED free

Next ==
  \/ \E u \in Users : Get(u) \/ Drop(u)
  \/ \E u, v \in Users : u # v /\ HandOver(u, v)

Spec == Init /\ [][Next]_vars
=============================================================================
