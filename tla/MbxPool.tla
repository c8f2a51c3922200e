------------------------------ MODULE MbxPool ------------------------------
(***************************************************************************)
(* The mailbox pool (native/soem/src/ec_main.c: ecx_initmbxpool,           *)
(* ecx_getmbx, ecx_dropmbx).  The numbers of the free mailboxes lie in a   *)
(* ring, mbxemptylist; a mailbox is taken at listtail and given back at    *)
(* listhead.  Every access holds mbxmutex, so one call is one step.        *)
(***************************************************************************)
EXTENDS Integers, FiniteSets

CONSTANTS
  Users,     \* threads that take mailboxes from the pool
  PoolSize   \* EC_MBXPOOLSIZE

ASSUME MbxPoolAssumption == PoolSize \in Nat \ {0}

Items == 0 .. PoolSize - 1

VARIABLES
  emptylist,   \* mbxemptylist: the ring of item numbers
  listhead,    \* where the next mailbox is given back
  listtail,    \* where the next mailbox is taken
  listcount,   \* free mailboxes
  owned        \* owned[u]: the mailboxes user u holds a pointer to

vars == <<emptylist, listhead, listtail, listcount, owned>>

TypeOK ==
  /\ emptylist \in [Items -> Items]
  /\ listhead \in Items
  /\ listtail \in Items
  /\ listcount \in 0 .. PoolSize
  /\ owned \in [Users -> SUBSET Items]

Init ==
  /\ emptylist = [i \in Items |-> i]
  /\ listhead = 0
  /\ listtail = 0
  /\ listcount = PoolSize
  /\ owned = [u \in Users |-> {}]

(* Mutant: the ring has one slot too few.                                  *)
SuccShort(i) == IF i + 1 >= PoolSize - 1 THEN 0 ELSE i + 1

Succ(i) == IF i + 1 >= PoolSize THEN 0 ELSE i + 1

(* Mutant: an empty pool is not noticed.                                   *)
GetMbxUnchecked(u) ==
  LET item == emptylist[listtail]
  IN  /\ owned' = [owned EXCEPT ![u] = @ \cup {item}]
      /\ listtail' = Succ(listtail)
      /\ listcount' = IF listcount > 0 THEN listcount - 1 ELSE 0
      /\ UNCHANGED <<emptylist, listhead>>

(* ecx_getmbx; it returns NULL and changes nothing when listcount is 0.    *)
GetMbx(u) ==
  LET item == emptylist[listtail]
  IN  /\ listcount > 0
      /\ owned' = [owned EXCEPT ![u] = @ \cup {item}]
      /\ listtail' = Succ(listtail)
      /\ listcount' = listcount - 1
      /\ UNCHANGED <<emptylist, listhead>>

(* ecx_dropmbx; a pointer outside the pool changes nothing.                *)
DropMbx(u, item) ==
  /\ item \in owned[u]
  /\ owned' = [owned EXCEPT ![u] = @ \ {item}]
  /\ emptylist' = [emptylist EXCEPT ![listhead] = item]
  /\ listhead' = Succ(listhead)
  /\ listcount' = listcount + 1
  /\ UNCHANGED listtail

(* A pointer to a mailbox is stored where another thread finds it: in the  *)
(* queue of the handler, or in a slave's coembxin and the like.            *)
HandOver(u, v, item) ==
  /\ u # v
  /\ item \in owned[u]
  /\ owned' = [owned EXCEPT ![u] = @ \ {item}, ![v] = @ \cup {item}]
  /\ UNCHANGED <<emptylist, listhead, listtail, listcount>>

Next ==
  \/ \E u \in Users : GetMbx(u)
  \/ \E u \in Users, item \in Items : DropMbx(u, item)
  \/ \E u, v \in Users, item \in Items : HandOver(u, v, item)

Spec == Init /\ [][Next]_vars

-----------------------------------------------------------------------------
(* The i-th free slot of the ring, counted from listtail.                  *)
Slot(i) == (listtail + i) % PoolSize

Free == {emptylist[Slot(i)] : i \in 0 .. listcount - 1}

(* The ring behind listtail lists every mailbox that nobody holds exactly  *)
(* once, and listhead and listcount agree about how many there are: no     *)
(* mailbox is lost and none is given out twice.                            *)
RingConsistent ==
  /\ listhead = Slot(listcount)
  /\ \A i, j \in 0 .. listcount - 1 :
       i # j => emptylist[Slot(i)] # emptylist[Slot(j)]
  /\ Free = Items \ UNION {owned[u] : u \in Users}

(* A mailbox has at most one holder.                                       *)
OneHolder ==
  \A u, v \in Users : u # v => owned[u] \cap owned[v] = {}

(* The pool implements the abstract one: a mailbox that ecx_getmbx returns *)
(* was free, whatever the order in which mailboxes come back.              *)
Abstract == INSTANCE BufferPool WITH Bufs <- Items, free <- Free
RefinesPool == Abstract!Spec

=============================================================================
