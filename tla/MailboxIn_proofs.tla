-------------------------- MODULE MailboxIn_proofs --------------------------
(***************************************************************************)
(* Proofs about the mailbox pool and the reception of mailboxes into it.   *)
(* The ring implements the abstract pool for every number of mailboxes and *)
(* users: the free list never lists a mailbox twice, never loses one and   *)
(* never lists one that somebody holds.  Of the handler: the order in      *)
(* which mailboxes are handled, through every loss of frames and every     *)
(* repeat request; that the error list is a bounded queue; that the        *)
(* handler, its slot and the receiver use the pool as MbxPool wants it     *)
(* used; and that every CoE reply ends with its receiver or is counted.    *)
(***************************************************************************)
EXTENDS MailboxIn, FiniteSetTheorems, TLAPS

-----------------------------------------------------------------------------
(* The pool.                                                               *)
Inv == TypeOK /\ RingConsistent /\ OneHolder

(* The ring arithmetic, without the modulus.                               *)
LEMMA RingMod ==
  ASSUME NEW t \in Items, NEW i \in 0 .. PoolSize
  PROVE  /\ (t + i) % PoolSize = IF t + i < PoolSize THEN t + i
                                 ELSE t + i - PoolSize
         /\ (t + i) % PoolSize \in Items
<1>1. /\ PoolSize \in Nat /\ 0 < PoolSize
      /\ t \in Int /\ 0 <= t /\ t < PoolSize
  BY MbxPoolAssumption DEF Items
<1>2. CASE t + i < PoolSize
  <2>1. (t + i) % PoolSize = t + i
    BY <1>1, <1>2
  <2> QED
    BY <1>1, <1>2, <2>1 DEF Items
<1>3. CASE ~ (t + i < PoolSize)
  <2> DEFINE r == t + i - PoolSize
  <2>1. r \in Int /\ 0 <= r /\ r < PoolSize
    BY <1>1, <1>3
  <2>2. (r + PoolSize) % PoolSize = r
    BY <1>1, <2>1
  <2>3. r + PoolSize = t + i
    BY <1>1
  <2> QED
    BY <1>1, <1>3, <2>1, <2>2, <2>3 DEF Items
<1> QED
  BY <1>2, <1>3

LEMMA SlotValue ==
  ASSUME listtail \in Items, NEW i \in 0 .. PoolSize
  PROVE  /\ Slot(i) = IF listtail + i < PoolSize THEN listtail + i
                      ELSE listtail + i - PoolSize
         /\ Slot(i) \in Items
BY RingMod DEF Slot

LEMMA SlotsDiffer ==
  ASSUME listtail \in Items, NEW i \in 0 .. PoolSize - 1,
         NEW j \in 0 .. PoolSize - 1, i # j
  PROVE  Slot(i) # Slot(j)
<1>1. i \in 0 .. PoolSize /\ j \in 0 .. PoolSize
  BY MbxPoolAssumption
<1>2. /\ Slot(i) = IF listtail + i < PoolSize THEN listtail + i
                   ELSE listtail + i - PoolSize
      /\ Slot(j) = IF listtail + j < PoolSize THEN listtail + j
                   ELSE listtail + j - PoolSize
  BY <1>1, SlotValue
<1> QED
  BY <1>2, MbxPoolAssumption DEF Items

LEMMA SlotFirst ==
  ASSUME listtail \in Items
  PROVE  Slot(0) = listtail
BY SlotValue, MbxPoolAssumption DEF Items

LEMMA SuccSlot ==
  ASSUME listtail \in Items, NEW i \in 0 .. PoolSize - 1
  PROVE  Succ(Slot(i)) = Slot(i + 1)
<1>1. i \in 0 .. PoolSize /\ i + 1 \in 0 .. PoolSize
  BY MbxPoolAssumption
<1>2. /\ Slot(i) = IF listtail + i < PoolSize THEN listtail + i
                   ELSE listtail + i - PoolSize
      /\ Slot(i + 1) = IF listtail + (i + 1) < PoolSize
                       THEN listtail + (i + 1)
                       ELSE listtail + (i + 1) - PoolSize
  BY <1>1, SlotValue
<1> QED
  BY <1>2, MbxPoolAssumption DEF Items, Succ

LEMMA SuccInRange == ASSUME NEW i \in Items PROVE Succ(i) \in Items
BY MbxPoolAssumption DEF Items, Succ

(* When the free list is full nobody holds a mailbox: PoolSize different   *)
(* numbers below PoolSize are all of them.                                 *)
LEMMA FullIsAll ==
  ASSUME Inv, listcount = PoolSize
  PROVE  Free = Items
<1> DEFINE f == [i \in Items |-> emptylist[Slot(i)]]
<1>1. 0 .. listcount - 1 = Items
  BY DEF Items
<1>2. \A i \in Items : Slot(i) \in Items
  <2>1. \A i \in Items : i \in 0 .. PoolSize
    BY MbxPoolAssumption DEF Items
  <2> QED
    BY <2>1, SlotValue DEF Inv, TypeOK
<1>3. f \in [Items -> Items]
  BY <1>2 DEF Inv, TypeOK
<1>4. \A i, j \in Items : f[i] = f[j] => i = j
  BY <1>1 DEF Inv, RingConsistent
<1>5. f \in Injection(Items, Items)
  BY <1>3, <1>4 DEF Injection, IsInjective
<1>6. IsFiniteSet(Items)
  BY FS_Interval, MbxPoolAssumption DEF Items
<1>7. f \in Surjection(Items, Items)
  BY <1>5, <1>6, FS_Injection
<1>8. \A b \in Items : \E i \in Items : f[i] = b
  BY <1>7 DEF Surjection
<1>9. Free \subseteq Items
  BY <1>1, <1>3 DEF Free
<1> QED
  BY <1>1, <1>8, <1>9 DEF Free

LEMMA InitInv == Init => Inv
<1> SUFFICES ASSUME Init PROVE Inv
  OBVIOUS
<1>1. TypeOK
  BY MbxPoolAssumption DEF Init, TypeOK, Items
<1>2. 0 .. listcount - 1 = Items
  BY DEF Init, Items
<1>3. \A i \in Items : i \in 0 .. PoolSize /\ Slot(i) = i
  <2>1. \A i \in Items : i \in 0 .. PoolSize
    BY MbxPoolAssumption DEF Items
  <2>2. listtail = 0 /\ listtail \in Items
    BY <1>1 DEF Init, TypeOK
  <2>3. ASSUME NEW i \in Items PROVE Slot(i) = i
    <3>1. Slot(i) = IF listtail + i < PoolSize THEN listtail + i
                    ELSE listtail + i - PoolSize
      BY <2>1, <2>2, SlotValue
    <3> QED
      BY <2>2, <3>1, MbxPoolAssumption DEF Items
  <2> QED
    BY <2>1, <2>3
<1>4. \A i \in Items : emptylist[Slot(i)] = i
  BY <1>3 DEF Init
<1>5. listhead = Slot(listcount)
  <2>1. listtail \in Items /\ PoolSize \in 0 .. PoolSize
    BY <1>1, MbxPoolAssumption DEF TypeOK
  <2>2. Slot(PoolSize) = IF listtail + PoolSize < PoolSize
                         THEN listtail + PoolSize
                         ELSE listtail + PoolSize - PoolSize
    BY <2>1, SlotValue
  <2> QED
    BY <2>2, MbxPoolAssumption DEF Init
<1>6. Free = Items
  BY <1>2, <1>4 DEF Free
<1>7. UNION {owned[u] : u \in Users} = {}
  BY DEF Init
<1>8. RingConsistent
  BY <1>2, <1>4, <1>5, <1>6, <1>7 DEF RingConsistent
<1>9. OneHolder
  BY DEF Init, OneHolder
<1> QED
  BY <1>1, <1>8, <1>9 DEF Inv

(* What each operation does to the set of free mailboxes.                  *)
LEMMA GetMbxFree ==
  ASSUME Inv, NEW u \in Users, GetMbx(u)
  PROVE  /\ emptylist[listtail] \in Free
         /\ Free' = Free \ {emptylist[listtail]}
         /\ listhead' = Slot(listcount)'
         /\ \A i, j \in 0 .. listcount' - 1 :
              i # j => emptylist'[Slot(i)'] # emptylist'[Slot(j)']
<1>1. /\ listcount \in 1 .. PoolSize /\ listcount' = listcount - 1
      /\ listtail \in Items /\ listtail' = Succ(listtail)
      /\ emptylist' = emptylist /\ listhead' = listhead
  BY DEF GetMbx, Inv, TypeOK
<1>2. ASSUME NEW i \in 0 .. PoolSize - 1
      PROVE  Slot(i)' = Slot(i + 1)
  <2>1. listtail' \in Items
    BY <1>1, SuccInRange
  <2>2. /\ i \in 0 .. PoolSize /\ i + 1 \in 0 .. PoolSize
        /\ PoolSize \in Nat
    BY MbxPoolAssumption
  <2>3. Slot(i + 1) = IF listtail + (i + 1) < PoolSize
                      THEN listtail + (i + 1)
                      ELSE listtail + (i + 1) - PoolSize
    BY <1>1, <2>2, SlotValue
  <2>4. Slot(i)' = IF listtail' + i < PoolSize THEN listtail' + i
                   ELSE listtail' + i - PoolSize
    BY <2>1, <2>2, RingMod DEF Slot
  <2> QED
    BY <1>1, <2>2, <2>3, <2>4 DEF Succ, Items
<1>3. Slot(0) = listtail
  BY <1>1, SlotFirst
<1>4. \A i, j \in 0 .. listcount - 1 :
        i # j => emptylist[Slot(i)] # emptylist[Slot(j)]
  BY DEF Inv, RingConsistent
<1>5. listhead = Slot(listcount)
  BY DEF Inv, RingConsistent
<1>6. \A i \in 0 .. listcount' - 1 :
        /\ i + 1 \in 0 .. listcount - 1 /\ i + 1 # 0
        /\ Slot(i)' = Slot(i + 1)
  BY <1>1, <1>2, MbxPoolAssumption
<1>7. listhead' = Slot(listcount)'
  <2>1. listcount' \in 0 .. PoolSize - 1 /\ listcount' + 1 = listcount
    BY <1>1, MbxPoolAssumption
  <2>2. (listtail' + listcount') % PoolSize = Slot(listcount' + 1)
    BY <1>2, <2>1 DEF Slot
  <2> QED
    BY <1>1, <1>5, <2>1, <2>2 DEF Slot
<1>8. emptylist[listtail] \in Free
  <2>1. 0 \in 0 .. listcount - 1
    BY <1>1
  <2> QED
    BY <1>3, <2>1 DEF Free
<1>9. Free' = Free \ {emptylist[listtail]}
  <2>1. ASSUME NEW x \in Free' PROVE x \in Free \ {emptylist[listtail]}
    <3>1. PICK i \in 0 .. listcount' - 1 : x = emptylist'[Slot(i)']
      BY <2>1 DEF Free
    <3>2. x = emptylist[Slot(i + 1)] /\ i + 1 \in 0 .. listcount - 1
      BY <1>1, <1>6, <3>1
    <3>3. 0 \in 0 .. listcount - 1 /\ i + 1 # 0
      BY <1>1, <1>6
    <3>4. x # emptylist[Slot(0)]
      BY <1>4, <3>2, <3>3
    <3> QED
      BY <1>3, <3>2, <3>4 DEF Free
  <2>2. ASSUME NEW x \in Free, x # emptylist[listtail] PROVE x \in Free'
    <3>1. PICK k \in 0 .. listcount - 1 : x = emptylist[Slot(k)]
      BY <2>2 DEF Free
    <3>2. k # 0
      BY <1>3, <2>2, <3>1
    <3>3. k - 1 \in 0 .. listcount' - 1 /\ (k - 1) + 1 = k
      BY <1>1, <3>2
    <3>4. Slot(k - 1)' = Slot(k)
      BY <1>6, <3>3
    <3> QED
      BY <1>1, <3>1, <3>3, <3>4 DEF Free
  <2> QED
    BY <2>1, <2>2
<1> QED
  BY <1>1, <1>4, <1>6, <1>7, <1>8, <1>9

LEMMA DropMbxFree ==
  ASSUME Inv, NEW u \in Users, NEW item \in Items, DropMbx(u, item)
  PROVE  /\ item \notin Free
         /\ listcount < PoolSize
         /\ Free' = Free \cup {item}
         /\ listhead' = Slot(listcount)'
         /\ \A i, j \in 0 .. listcount' - 1 :
              i # j => emptylist'[Slot(i)'] # emptylist'[Slot(j)']
<1>1. /\ listcount \in 0 .. PoolSize /\ listcount' = listcount + 1
      /\ listtail \in Items /\ listtail' = listtail
      /\ emptylist \in [Items -> Items]
      /\ emptylist' = [emptylist EXCEPT ![listhead] = item]
      /\ listhead' = Succ(listhead)
  BY DEF DropMbx, Inv, TypeOK
<1>2. item \notin Free
  BY DEF DropMbx, Inv, RingConsistent
<1>3. listcount < PoolSize
  BY <1>1, <1>2, FullIsAll, MbxPoolAssumption
<1>4. \A i : Slot(i)' = Slot(i)
  BY <1>1 DEF Slot
<1>5. listhead = Slot(listcount)
  BY DEF Inv, RingConsistent
<1>6. \A i \in 0 .. listcount - 1 :
        Slot(i) \in Items /\ Slot(i) # listhead
  <2>1. ASSUME NEW i \in 0 .. listcount - 1
        PROVE  /\ i \in 0 .. PoolSize - 1 /\ i \in 0 .. PoolSize /\ i # listcount
               /\ listcount \in 0 .. PoolSize - 1
    BY <1>1, <1>3, MbxPoolAssumption
  <2> QED
    BY <1>1, <1>5, <2>1, SlotValue, SlotsDiffer
<1>7. listhead \in Items
  BY DEF Inv, TypeOK
<1>8. \A i \in 0 .. listcount - 1 : emptylist'[Slot(i)] = emptylist[Slot(i)]
  BY <1>1, <1>6
<1>9. emptylist'[Slot(listcount)] = item
  BY <1>1, <1>5, <1>7
<1>10. 0 .. listcount' - 1 = (0 .. listcount - 1) \cup {listcount}
  BY <1>1
<1>11. \A i \in 0 .. listcount - 1 :
         emptylist[Slot(i)] \in Free /\ emptylist[Slot(i)] # item
  BY <1>2 DEF Free
<1>12. Free' = Free \cup {item}
  BY <1>4, <1>8, <1>9, <1>10 DEF Free
<1>13. listhead' = Slot(listcount)'
  <2>1. listcount \in 0 .. PoolSize - 1
    BY <1>1, <1>3, MbxPoolAssumption
  <2>2. Succ(Slot(listcount)) = Slot(listcount + 1)
    BY <1>1, <2>1, SuccSlot
  <2> QED
    BY <1>1, <1>5, <2>2 DEF Slot
<1>14. \A i, j \in 0 .. listcount - 1 :
         i # j => emptylist[Slot(i)] # emptylist[Slot(j)]
  BY DEF Inv, RingConsistent
<1>15. \A i, j \in 0 .. listcount' - 1 :
         i # j => emptylist'[Slot(i)'] # emptylist'[Slot(j)']
  BY <1>4, <1>8, <1>9, <1>10, <1>11, <1>14
<1> QED
  BY <1>2, <1>3, <1>12, <1>13, <1>15

LEMMA StepInv == Inv /\ [Next]_vars => Inv'
<1> SUFFICES ASSUME Inv, [Next]_vars PROVE Inv'
  OBVIOUS
<1>1. CASE UNCHANGED vars
  <2>1. Free' = Free /\ \A i : Slot(i)' = Slot(i)
    BY <1>1 DEF vars, Free, Slot
  <2>2. TypeOK' /\ OneHolder'
    BY <1>1 DEF vars, Inv, TypeOK, OneHolder
  <2>3. RingConsistent'
    BY <1>1, <2>1 DEF vars, Inv, RingConsistent
  <2> QED
    BY <2>2, <2>3 DEF Inv
<1>2. ASSUME NEW u \in Users, GetMbx(u)
      PROVE  Inv'
  <2> DEFINE item == emptylist[listtail]
  <2>1. /\ item \in Items /\ item \in Free /\ Free' = Free \ {item}
        /\ \A v \in Users : item \notin owned[v]
    BY <1>2, GetMbxFree DEF Inv, RingConsistent, TypeOK
  <2>2. owned' = [owned EXCEPT ![u] = @ \cup {item}]
    BY <1>2 DEF GetMbx
  <2>3. listtail \in Items /\ Succ(listtail) \in Items
    BY SuccInRange DEF Inv, TypeOK
  <2>4. TypeOK'
    <3>1. owned' \in [Users -> SUBSET Items]
      BY <2>1, <2>2 DEF Inv, TypeOK
    <3>2. listcount' \in 0 .. PoolSize
      BY <1>2, MbxPoolAssumption DEF GetMbx, Inv, TypeOK
    <3> QED
      BY <1>2, <2>3, <3>1, <3>2 DEF GetMbx, Inv, TypeOK
  <2>5. OneHolder'
    BY <2>1, <2>2 DEF Inv, OneHolder, TypeOK
  <2>6. Free' = Items \ UNION {owned'[v] : v \in Users}
    BY <2>1, <2>2 DEF Inv, RingConsistent, TypeOK
  <2>7. RingConsistent'
    BY <1>2, <2>6, GetMbxFree DEF RingConsistent
  <2> QED
    BY <2>4, <2>5, <2>7 DEF Inv
<1>3. ASSUME NEW u \in Users, NEW item \in Items, DropMbx(u, item)
      PROVE  Inv'
  <2>1. /\ item \in owned[u] /\ Free' = Free \cup {item}
        /\ listcount < PoolSize
    BY <1>3, DropMbxFree DEF DropMbx
  <2>2. owned' = [owned EXCEPT ![u] = @ \ {item}]
    BY <1>3 DEF DropMbx
  <2>3. listhead \in Items /\ Succ(listhead) \in Items
    BY SuccInRange DEF Inv, TypeOK
  <2>4. TypeOK'
    BY <1>3, <2>1, <2>2, <2>3, MbxPoolAssumption DEF DropMbx, Inv, TypeOK
  <2>5. OneHolder'
    BY <2>2 DEF Inv, OneHolder, TypeOK
  <2>6. \A v \in Users : v # u => item \notin owned[v]
    BY <2>1 DEF Inv, OneHolder
  <2>7. Free' = Items \ UNION {owned'[v] : v \in Users}
    BY <2>1, <2>2, <2>6 DEF Inv, RingConsistent, TypeOK
  <2>8. RingConsistent'
    BY <1>3, <2>7, DropMbxFree DEF RingConsistent
  <2> QED
    BY <2>4, <2>5, <2>8 DEF Inv
<1>4. ASSUME NEW u \in Users, NEW v \in Users, NEW item \in Items,
             HandOver(u, v, item)
      PROVE  Inv'
  <2>1. /\ u # v /\ item \in owned[u]
        /\ owned' = [owned EXCEPT ![u] = @ \ {item}, ![v] = @ \cup {item}]
        /\ UNCHANGED <<emptylist, listhead, listtail, listcount>>
    BY <1>4 DEF HandOver
  <2>2. Free' = Free /\ \A i : Slot(i)' = Slot(i)
    BY <2>1 DEF Free, Slot
  <2>3. TypeOK'
    BY <2>1 DEF Inv, TypeOK
  <2>4. OneHolder'
    BY <2>1 DEF Inv, OneHolder, TypeOK
  <2>5. UNION {owned'[w] : w \in Users} = UNION {owned[w] : w \in Users}
    BY <2>1 DEF Inv, TypeOK
  <2>6. RingConsistent'
    BY <2>1, <2>2, <2>5 DEF Inv, RingConsistent
  <2> QED
    BY <2>3, <2>4, <2>6 DEF Inv
<1> QED
  BY <1>1, <1>2, <1>3, <1>4 DEF Next

(* No mailbox is lost and none is listed twice, whatever the order in      *)
(* which the users give them back.                                         *)
THEOREM PoolIsConsistent == Spec => []RingConsistent
<1>1. Inv => RingConsistent
  BY DEF Inv
<1> QED
  BY InitInv, StepInv, <1>1, PTL DEF Spec

(* A mailbox is never given to two users at a time.                        *)
THEOREM MbxHasOneHolder == Spec => []OneHolder
<1>1. Inv => OneHolder
  BY DEF Inv
<1> QED
  BY InitInv, StepInv, <1>1, PTL DEF Spec

(* The ring buffer implements the set of free buffers: every call of       *)
(* ecx_getmbx and ecx_dropmbx is a step of the abstract pool.              *)
THEOREM PoolImplementsAbstract == Spec => RefinesPool
<1>1. Init => Abstract!Init
  BY InitInv DEF Init, Abstract!Init, Inv, RingConsistent
<1>2. Inv /\ [Next]_vars => [Abstract!Next]_(Abstract!vars)
  <2> SUFFICES ASSUME Inv, [Next]_vars
               PROVE  [Abstract!Next]_(Abstract!vars)
    OBVIOUS
  <2>1. CASE UNCHANGED vars
    BY <2>1 DEF vars, Abstract!vars, Free, Slot
  <2>2. ASSUME NEW u \in Users, GetMbx(u)
        PROVE  Abstract!Get(u)
    BY <2>2, GetMbxFree DEF GetMbx, Abstract!Get
  <2>3. ASSUME NEW u \in Users, NEW item \in Items, DropMbx(u, item)
        PROVE  Abstract!Drop(u)
    BY <2>3, DropMbxFree DEF DropMbx, Abstract!Drop
  <2>4. ASSUME NEW u \in Users, NEW v \in Users, NEW item \in Items,
               HandOver(u, v, item)
        PROVE  u # v /\ Abstract!HandOver(u, v)
    <3>1. /\ u # v /\ item \in owned[u]
          /\ owned' = [owned EXCEPT ![u] = @ \ {item},
                                    ![v] = owned[v] \cup {item}]
      BY <2>4 DEF HandOver, Inv, TypeOK
    <3>2. Free' = Free
      BY <2>4 DEF HandOver, Free, Slot
    <3> QED
      BY <3>1, <3>2 DEF Abstract!HandOver
  <2> QED
    BY <2>1, <2>2, <2>3, <2>4 DEF Next, Abstract!Next
<1> QED
  BY InitInv, StepInv, <1>1, <1>2, PTL DEF Spec, Abstract!Spec, RefinesPool

-----------------------------------------------------------------------------
(* The reception.                                                          *)
LastDone == IF dispatched = <<>> THEN 0 ELSE dispatched[Len(dispatched)]

SlaveType == [full : Int, next : Int, last : Int, aside : Int,
              request : Int, acked : Int]

PoolTypes ==
  /\ emptylist \in [Items -> Items]
  /\ listhead \in Items /\ listtail \in Items
  /\ owned \in [Users -> SUBSET Items]

InTypes ==
  /\ PoolTypes
  /\ pc \in {"cycle", "visit", "read", "dispatch", "drop", "stored"}
  /\ pc \in {"read", "dispatch", "drop"} => mbx \in Items
  /\ content \in [Items -> Int]
  /\ slave \in SlaveType
  /\ rmp \in 0 .. 3 /\ request \in Int
  /\ status \in BOOLEAN /\ islost \in BOOLEAN
  /\ lost \in Nat
  /\ dispatched \in Seq(Nat)

(* What the slave has in its mailbox and put aside: nothing, the message   *)
(* that was read last, or the one behind it, and this one only once.       *)
SlaveOK ==
  /\ slave.full \in {0, slave.last, slave.last + 1}
  /\ slave.aside \in {0, slave.last + 1}
  /\ slave.aside # 0 => slave.full # slave.last + 1
  /\ slave.next = IF slave.aside # 0 \/ slave.full = slave.last + 1
                  THEN slave.last + 2 ELSE slave.last + 1
  /\ 0 <= slave.last /\ slave.next <= Len(Messages) + 1

(* The handler works on what was read last, and reads only what is there.  *)
ReadOK ==
  /\ LastDone <= slave.last
  /\ pc = "dispatch" => content[mbx] = slave.last /\ slave.last >= 1
  /\ pc = "visit" /\ status => slave.full # 0
  /\ pc = "read" => slave.full # 0 /\ rmp = 0

(* The repeat request: the slave has answered the one before when the next *)
(* is written, and whenever the handler reads on, the message that was     *)
(* read last was handled, or is in the slave's mailbox again.              *)
RepeatOK ==
  ~islost =>
    /\ slave.last <= LastDone + 1
    /\ rmp = 0 /\ pc # "dispatch" /\ slave.last # LastDone
         => slave.full = slave.last
    /\ pc = "dispatch" => rmp = 0
    /\ rmp \in {0, 1} => slave.acked = slave.request
    /\ rmp = 2 => slave.acked = slave.request \/ slave.request = request
    /\ rmp = 3 => slave.request = request
    /\ rmp \in {2, 3} /\ slave.acked = request
         => slave.full = slave.last \/ slave.last = 0

(* Without loss nothing is repeated.                                       *)
LosslessOK ==
  lost = 0 =>
    /\ rmp = 0 /\ slave.acked = slave.request /\ slave.aside = 0
    /\ slave.last # 0 => slave.full # slave.last
    /\ slave.last = IF pc = "dispatch" THEN LastDone + 1 ELSE LastDone

OrderParts == SlaveOK /\ ReadOK /\ RepeatOK /\ LosslessOK /\ MailboxesInOrder

OrderInv == InTypes /\ OrderParts

LEMMA InitOrderInv == MbxInInit => OrderInv
<1> SUFFICES ASSUME MbxInInit PROVE OrderInv
  OBVIOUS
<1>1. PoolSize \in Nat /\ 0 < PoolSize /\ Len(Messages) \in Nat
  BY MbxPoolAssumption, MailboxInAssumption
<1>2. InTypes
  <2>1. 0 \in Items /\ (\A i \in Items : i \in Int)
    BY <1>1 DEF Items
  <2>2. slave \in SlaveType
    BY DEF MbxInInit, SlaveType
  <2>3. /\ emptylist \in [Items -> Items] /\ content \in [Items -> Int]
        /\ owned \in [Users -> SUBSET Items]
    BY <2>1 DEF MbxInInit, Init
  <2>4. dispatched \in Seq(Nat)
    BY DEF MbxInInit
  <2>5. /\ listhead \in Items /\ listtail \in Items /\ pc = "cycle"
        /\ rmp \in 0 .. 3 /\ request \in Int /\ lost \in Nat
    BY <2>1 DEF MbxInInit, Init
  <2>6. status \in BOOLEAN /\ islost \in BOOLEAN
    BY DEF MbxInInit
  <2> QED
    BY <2>2, <2>3, <2>4, <2>5, <2>6 DEF InTypes, PoolTypes
<1>3. LastDone = 0
  BY DEF MbxInInit, LastDone
<1>4. SlaveOK /\ ReadOK /\ RepeatOK /\ LosslessOK
  BY <1>1, <1>3 DEF MbxInInit, SlaveOK, ReadOK, RepeatOK, LosslessOK
<1>5. MailboxesInOrder
  BY DEF MbxInInit, MailboxesInOrder
<1> QED
  BY <1>2, <1>4, <1>5 DEF OrderInv, OrderParts

LEMMA LastDoneNat ==
  ASSUME dispatched \in Seq(Nat)
  PROVE  LastDone \in Nat
<1>1. CASE dispatched = <<>>
  BY <1>1 DEF LastDone
<1>2. CASE dispatched # <<>>
  <2>1. Len(dispatched) \in 1 .. Len(dispatched)
    BY <1>2
  <2> QED
    BY <1>2, <2>1 DEF LastDone
<1> QED
  BY <1>1, <1>2

(* Steps that touch neither the slave nor the handler's place keep the     *)
(* order, and so does marking the slave as lost.                           *)
LEMMA OrderKept ==
  ASSUME OrderInv,
         UNCHANGED <<slave, rmp, request, lost, dispatched, content>>,
         UNCHANGED <<pc, mbx, status>>, islost' = islost \/ islost'
  PROVE  OrderParts'
BY DEF OrderInv, InTypes, OrderParts, SlaveOK, ReadOK, RepeatOK, LosslessOK,
       MailboxesInOrder, LastDone

LEMMA SlaveOrder ==
  ASSUME OrderInv, SlaveStep
  PROVE  OrderParts'
<1> USE DEF SlaveType
<1>0. /\ slave \in SlaveType /\ Len(Messages) \in Nat
      /\ rmp \in 0 .. 3 /\ request \in Int
      /\ slave.full \in Int /\ slave.next \in Int /\ slave.last \in Int
      /\ slave.aside \in Int /\ slave.request \in Int /\ slave.acked \in Int
      /\ LastDone \in Nat
  BY MailboxInAssumption, LastDoneNat DEF OrderInv, InTypes
<1>1. UNCHANGED <<rmp, request, lost, dispatched, content, pc, mbx, status,
                  islost>>
  BY DEF SlaveStep, handlerVars
<1>2. LastDone' = LastDone
  BY <1>1 DEF LastDone
<1>3. MailboxesInOrder'
  BY <1>1 DEF OrderInv, OrderParts, MailboxesInOrder
<1>4. SlaveOK /\ ReadOK /\ RepeatOK /\ LosslessOK
  BY DEF OrderInv, OrderParts
<1>5. CASE Offer
  <2>1. CASE slave.aside # 0
    <3>1. /\ slave.full = 0
          /\ slave' = [slave EXCEPT !.full = slave.aside, !.aside = 0]
      BY <1>5, <2>1 DEF Offer
    <3>2. /\ slave'.full = slave.aside /\ slave'.aside = 0
          /\ slave'.last = slave.last /\ slave'.next = slave.next
          /\ slave'.request = slave.request /\ slave'.acked = slave.acked
      BY <1>0, <3>1
    <3> HIDE DEF SlaveType
    <3>3. SlaveOK' /\ ReadOK'
      BY <1>0, <1>1, <1>2, <1>4, <2>1, <3>1, <3>2 DEF SlaveOK, ReadOK
    <3>4. RepeatOK'
      BY <1>0, <1>1, <1>2, <1>4, <2>1, <3>1, <3>2
         DEF SlaveOK, ReadOK, RepeatOK
    <3>5. LosslessOK'
      BY <1>0, <1>1, <1>2, <1>4, <2>1, <3>1, <3>2 DEF SlaveOK, LosslessOK
    <3> QED
      BY <1>3, <3>3, <3>4, <3>5 DEF OrderParts
  <2>2. CASE slave.aside = 0
    <3>1. /\ slave.full = 0 /\ slave.next <= Len(Messages)
          /\ slave' = [slave EXCEPT !.full = slave.next, !.next = @ + 1]
      BY <1>5, <2>2 DEF Offer
    <3>2. /\ slave'.full = slave.next /\ slave'.aside = slave.aside
          /\ slave'.last = slave.last /\ slave'.next = slave.next + 1
          /\ slave'.request = slave.request /\ slave'.acked = slave.acked
      BY <1>0, <3>1
    <3> HIDE DEF SlaveType
    <3>3. SlaveOK' /\ ReadOK'
      BY <1>0, <1>1, <1>2, <1>4, <2>2, <3>1, <3>2 DEF SlaveOK, ReadOK
    <3>4. RepeatOK'
      BY <1>0, <1>1, <1>2, <1>4, <2>2, <3>1, <3>2
         DEF SlaveOK, ReadOK, RepeatOK
    <3>5. LosslessOK'
      BY <1>0, <1>1, <1>2, <1>4, <2>2, <3>1, <3>2 DEF SlaveOK, LosslessOK
    <3> QED
      BY <1>3, <3>3, <3>4, <3>5 DEF OrderParts
  <2> QED
    BY <2>1, <2>2
<1>6. CASE Repeat
  <2>1. /\ slave.request # slave.acked
        /\ slave' = [slave EXCEPT
             !.acked = slave.request,
             !.full = IF slave.last # 0 THEN slave.last ELSE @,
             !.aside = IF slave.last # 0 /\ slave.full \notin {0, slave.last}
                       THEN slave.full ELSE @]
    BY <1>6 DEF Repeat
  <2>2. /\ slave'.full = IF slave.last # 0 THEN slave.last ELSE slave.full
        /\ slave'.aside = IF slave.last # 0
                              /\ slave.full \notin {0, slave.last}
                          THEN slave.full ELSE slave.aside
        /\ slave'.last = slave.last /\ slave'.next = slave.next
        /\ slave'.request = slave.request /\ slave'.acked = slave.request
    BY <1>0, <2>1
  <2>3. SlaveOK' /\ ReadOK'
    BY <1>0, <1>1, <1>2, <1>4, <2>1, <2>2 DEF SlaveOK, ReadOK
  <2>4. RepeatOK' /\ LosslessOK'
    BY <1>0, <1>1, <1>2, <1>4, <2>1, <2>2 DEF SlaveOK, RepeatOK, LosslessOK
  <2> QED
    BY <1>3, <2>3, <2>4 DEF OrderParts
<1> QED
  BY <1>5, <1>6 DEF SlaveStep

(* What every step below starts from.                                      *)
LEMMA OrderFacts ==
  ASSUME OrderInv
  PROVE  /\ slave \in SlaveType /\ rmp \in 0 .. 3 /\ request \in Int
         /\ slave.full \in Int /\ slave.next \in Int /\ slave.last \in Int
         /\ slave.aside \in Int /\ slave.request \in Int
         /\ slave.acked \in Int
         /\ LastDone \in Nat /\ lost \in Nat /\ MaxLost \in Nat
         /\ Len(Messages) \in Nat
         /\ SlaveOK /\ ReadOK /\ RepeatOK /\ LosslessOK
BY MailboxInAssumption, LastDoneNat
   DEF OrderInv, OrderParts, InTypes, SlaveType

LEMMA ExchangeOrder ==
  ASSUME OrderInv, Exchange
  PROVE  OrderParts'
<1>1. /\ UNCHANGED <<slave, rmp, request, dispatched, content, islost>>
      /\ pc = "cycle" /\ pc' = "visit"
      /\ status' => slave.full # 0
      /\ lost' = lost \/ lost' = lost + 1
  BY DEF Exchange, Answered, Unreached, receiverVars
<1>2. LastDone' = LastDone
  BY <1>1 DEF LastDone
<1>3. lost' = 0 => lost = 0
  BY <1>1, OrderFacts
<1>4. MailboxesInOrder'
  BY <1>1, <1>3 DEF OrderInv, OrderParts, MailboxesInOrder
<1>5. SlaveOK' /\ ReadOK'
  BY <1>1, <1>2, OrderFacts DEF SlaveOK, ReadOK
<1>6. RepeatOK' /\ LosslessOK'
  BY <1>1, <1>2, <1>3, OrderFacts DEF RepeatOK, LosslessOK
<1> QED
  BY <1>4, <1>5, <1>6 DEF OrderParts

LEMMA RepeatMailboxOrder ==
  ASSUME OrderInv, RepeatMailbox
  PROVE  OrderParts'
<1>1. /\ UNCHANGED <<dispatched, content, islost, mbx, status>>
      /\ pc = "visit" /\ pc' = "cycle" /\ rmp # 0
  BY DEF RepeatMailbox, receiverVars
<1>2. LastDone' = LastDone
  BY <1>1 DEF LastDone
<1>3. lost # 0 /\ (lost' = lost \/ lost' = lost + 1) /\ lost' # 0
  <2>1. lost # 0
    BY <1>1, OrderFacts DEF LosslessOK
  <2>2. lost' = lost \/ lost' = lost + 1
    BY DEF RepeatMailbox, RepeatSlaveLost, ReadRequest, WriteRequest,
       AwaitAck, Answered, Unreached, Unheard, wireVars
  <2> QED
    BY <2>1, <2>2, OrderFacts
<1>4. MailboxesInOrder' /\ LosslessOK'
  BY <1>1, <1>3 DEF OrderInv, OrderParts, MailboxesInOrder, LosslessOK
<1>5. /\ slave'.full = slave.full /\ slave'.next = slave.next
      /\ slave'.last = slave.last /\ slave'.aside = slave.aside
      /\ slave'.acked = slave.acked
  BY OrderFacts
     DEF RepeatMailbox, RepeatSlaveLost, ReadRequest, WriteRequest, AwaitAck,
         Answered, Unreached, Unheard, wireVars, SlaveType
<1>6. SlaveOK' /\ ReadOK'
  BY <1>1, <1>2, <1>5, OrderFacts DEF SlaveOK, ReadOK
<1>7. RepeatOK'
  <2>1. SUFFICES ASSUME ~ islost PROVE RepeatOK'
    BY <1>1 DEF RepeatOK
  <2>2. CASE ReadRequest
    <3>1. rmp = 1 /\ slave' = slave
          /\ \/ rmp' = 2 /\ request' = 1 - slave.request
             \/ rmp' = 1 /\ request' = request
      BY <2>2 DEF ReadRequest, Answered, Unreached
    <3>2. 1 - slave.request # slave.request
      BY OrderFacts
    <3> QED
      BY <1>1, <1>2, <2>1, <3>1, <3>2, OrderFacts DEF RepeatOK
  <2>3. CASE WriteRequest
    <3>1. /\ rmp = 2 /\ request' = request
          /\ \/ rmp' = 3 /\ slave'.request = request
             \/ rmp' = 2 /\ slave'.request \in {request, slave.request}
      BY <2>3, OrderFacts
         DEF WriteRequest, Answered, Unreached, Unheard, SlaveType
    <3> QED
      BY <1>1, <1>2, <1>5, <2>1, <3>1, OrderFacts DEF RepeatOK
  <2>4. CASE AwaitAck
    <3>1. /\ rmp = 3 /\ request' = request /\ slave' = slave
          /\ rmp' = 3 \/ (rmp' = 0 /\ slave.acked = request)
      BY <2>4 DEF AwaitAck, Answered, Unreached
    <3> QED
      BY <1>1, <1>2, <2>1, <3>1, OrderFacts DEF RepeatOK, ReadOK
  <2> QED
    BY <2>1, <2>2, <2>3, <2>4 DEF RepeatMailbox, RepeatSlaveLost
<1> QED
  BY <1>4, <1>6, <1>7 DEF OrderParts

(* The handler goes on without a look at the slave.                        *)
LEMMA PlaceOrder ==
  ASSUME OrderInv,
         UNCHANGED <<slave, rmp, request, lost, dispatched, content, islost>>,
         pc # "dispatch",
         \/ pc' = "cycle"
         \/ pc' = "read" /\ rmp = 0 /\ slave.full # 0
  PROVE  OrderParts'
<1>1. LastDone' = LastDone
  BY DEF LastDone
<1>2. MailboxesInOrder'
  BY DEF OrderInv, OrderParts, MailboxesInOrder
<1>3. SlaveOK' /\ ReadOK'
  BY <1>1, OrderFacts DEF SlaveOK, ReadOK
<1>4. RepeatOK' /\ LosslessOK'
  BY <1>1, OrderFacts DEF RepeatOK, LosslessOK
<1> QED
  BY <1>2, <1>3, <1>4 DEF OrderParts

LEMMA ReadMailboxOrder ==
  ASSUME OrderInv, ReadMailbox
  PROVE  OrderParts'
<1>1. /\ UNCHANGED <<dispatched, islost, mbx, status, request>>
      /\ pc = "read"
  BY DEF ReadMailbox, receiverVars
<1>2. LastDone' = LastDone
  BY <1>1 DEF LastDone
<1>3. /\ slave.full # 0 /\ rmp = 0 /\ mbx \in Items
      /\ content \in [Items -> Int]
  BY <1>1, OrderFacts DEF ReadOK, OrderInv, InTypes
<1>4. lost' = lost \/ lost' = lost + 1
  BY DEF ReadMailbox, ReadLost, Answered, Unreached, Unheard
<1>5. MailboxesInOrder'
  BY <1>1, <1>4, OrderFacts DEF OrderInv, OrderParts, MailboxesInOrder
<1>6. CASE /\ slave' = [slave EXCEPT !.full = 0, !.last = slave.full]
           /\ content' = [content EXCEPT ![mbx] = slave.full]
           /\ pc' = "dispatch" /\ rmp' = rmp /\ lost' = lost
  <2>1. /\ slave'.full = 0 /\ slave'.last = slave.full
        /\ slave'.next = slave.next /\ slave'.aside = slave.aside
        /\ slave'.request = slave.request /\ slave'.acked = slave.acked
        /\ content'[mbx'] = slave.full
    BY <1>1, <1>3, <1>6, OrderFacts DEF SlaveType
  <2>2. SlaveOK'
    BY <1>1, <1>3, <2>1, OrderFacts DEF SlaveOK
  <2>3. ReadOK'
    BY <1>1, <1>2, <1>3, <1>6, <2>1, OrderFacts DEF SlaveOK, ReadOK
  <2>4. RepeatOK'
    BY <1>1, <1>2, <1>3, <1>6, <2>1, OrderFacts
       DEF SlaveOK, ReadOK, RepeatOK
  <2>5. LosslessOK'
    BY <1>1, <1>2, <1>3, <1>6, <2>1, OrderFacts
       DEF SlaveOK, LosslessOK
  <2> QED
    BY <1>5, <2>2, <2>3, <2>4, <2>5 DEF OrderParts
<1>7. CASE ReadLost
  <2>1. /\ rmp' = 1 /\ pc' = "drop" /\ lost' = lost + 1
        /\ \/ slave' = slave
           \/ slave' = [slave EXCEPT !.full = 0, !.last = slave.full]
    BY <1>3, <1>7 DEF ReadLost, Answered, Unreached, Unheard
  <2>2. LosslessOK'
    BY <2>1, OrderFacts DEF LosslessOK
  <2>3. CASE slave' = slave
    <3>1. SlaveOK' /\ ReadOK'
      BY <1>1, <1>2, <1>3, <2>1, <2>3, OrderFacts DEF SlaveOK, ReadOK
    <3>2. RepeatOK'
      BY <1>1, <1>2, <1>3, <2>1, <2>3, OrderFacts DEF ReadOK, RepeatOK
    <3> QED
      BY <1>5, <2>2, <3>1, <3>2 DEF OrderParts
  <2>4. CASE slave' = [slave EXCEPT !.full = 0, !.last = slave.full]
    <3>1. /\ slave'.full = 0 /\ slave'.last = slave.full
          /\ slave'.next = slave.next /\ slave'.aside = slave.aside
          /\ slave'.request = slave.request /\ slave'.acked = slave.acked
      BY <2>4, OrderFacts DEF SlaveType
    <3>2. SlaveOK'
      BY <1>1, <1>3, <3>1, OrderFacts DEF SlaveOK
    <3>3. ReadOK'
      BY <1>1, <1>2, <1>3, <2>1, <3>1, OrderFacts DEF SlaveOK, ReadOK
    <3>4. RepeatOK'
      BY <1>1, <1>2, <1>3, <2>1, <3>1, OrderFacts
         DEF SlaveOK, ReadOK, RepeatOK
    <3> QED
      BY <1>5, <2>2, <3>2, <3>3, <3>4 DEF OrderParts
  <2> QED
    BY <2>1, <2>3, <2>4
<1> QED
  BY <1>6, <1>7 DEF ReadMailbox, Answered

LEMMA DispatchOrder ==
  ASSUME OrderInv, Dispatch
  PROVE  OrderParts'
<1>1. /\ UNCHANGED <<slave, rmp, request, lost, islost, content, status>>
      /\ pc = "dispatch" /\ pc' \in {"drop", "stored"}
      /\ dispatched' = Append(dispatched, content[mbx])
  BY DEF Dispatch, wireVars, DispatchError, DispatchCoE, DispatchOverrun
<1>2. /\ dispatched \in Seq(Nat) /\ content[mbx] = slave.last
      /\ slave.last \in Nat /\ slave.last >= 1
  BY <1>1, OrderFacts DEF OrderInv, InTypes, ReadOK
<1>3. PICK now \in Nat : now = slave.last
  BY <1>2
<1>4. dispatched' = Append(dispatched, now)
  BY <1>1, <1>2, <1>3
<1>5. LastDone' = now
  <2>1. /\ Len(dispatched') = Len(dispatched) + 1
        /\ Len(dispatched) \in Nat
        /\ dispatched'[Len(dispatched) + 1] = now
    BY <1>2, <1>4
  <2>2. dispatched' # <<>>
    BY <2>1
  <2> QED
    BY <2>1, <2>2 DEF LastDone
<1>6. /\ LastDone <= now
      /\ ~ islost => now <= LastDone + 1
      /\ lost = 0 => now = LastDone + 1
  BY <1>1, <1>3, OrderFacts DEF ReadOK, RepeatOK, LosslessOK
<1>7. MailboxesInOrder'
  <2> DEFINE Fits(b, n) == /\ n >= b
                           /\ ~ islost => n <= b + 1
                           /\ lost = 0 => n = b + 1
  <2>1. \A i \in DOMAIN dispatched :
          Fits(IF i = 1 THEN 0 ELSE dispatched[i - 1], dispatched[i])
    BY DEF OrderInv, OrderParts, MailboxesInOrder
  <2>2. Fits(LastDone, now)
    BY <1>6
  <2> HIDE DEF Fits
  <2>3. SUFFICES ASSUME NEW i \in DOMAIN dispatched'
                 PROVE  Fits(IF i = 1 THEN 0 ELSE dispatched'[i - 1],
                             dispatched'[i])
    BY <1>1 DEF MailboxesInOrder, Fits
  <2>4. CASE i = Len(dispatched) + 1
    <3>1. dispatched'[i] = now
      BY <1>2, <1>4, <2>4
    <3>2. (IF i = 1 THEN 0 ELSE dispatched'[i - 1]) = LastDone
      BY <1>2, <1>4, <2>4 DEF LastDone
    <3> QED
      BY <2>2, <3>1, <3>2
  <2>5. CASE i # Len(dispatched) + 1
    <3>1. i \in DOMAIN dispatched /\ i - 1 \in 0 .. Len(dispatched)
      BY <1>2, <1>4, <2>3, <2>5
    <3>2. dispatched'[i] = dispatched[i]
      BY <1>2, <1>4, <3>1
    <3>3. i # 1 => dispatched'[i - 1] = dispatched[i - 1]
      BY <1>2, <1>4, <3>1
    <3> QED
      BY <2>1, <3>1, <3>2, <3>3
  <2> QED
    BY <2>4, <2>5
<1>8. SlaveOK' /\ ReadOK'
  BY <1>1, <1>3, <1>5, OrderFacts DEF SlaveOK, ReadOK
<1>9. RepeatOK' /\ LosslessOK'
  BY <1>1, <1>3, <1>5, OrderFacts DEF RepeatOK, LosslessOK
<1> QED
  BY <1>7, <1>8, <1>9 DEF OrderParts

LEMMA SlaveChanged ==
  ASSUME slave \in SlaveType, NEW full \in Int, NEW next \in Int,
         NEW last \in Int, NEW aside \in Int
  PROVE  /\ [slave EXCEPT !.full = full, !.last = last] \in SlaveType
         /\ [slave EXCEPT !.full = full, !.aside = aside] \in SlaveType
         /\ [slave EXCEPT !.full = full, !.next = next] \in SlaveType
BY DEF SlaveType

LEMMA PoolTypesKept ==
  ASSUME PoolTypes, NEW u \in Users, NEW v \in Users, NEW item,
         GetMbx(u) \/ DropMbx(u, item) \/ HandOver(u, v, item)
  PROVE  PoolTypes'
<1>1. CASE GetMbx(u)
  <2>1. emptylist[listtail] \in Items /\ Succ(listtail) \in Items
    BY SuccInRange DEF PoolTypes
  <2> QED
    BY <1>1, <2>1 DEF GetMbx, PoolTypes
<1>2. CASE DropMbx(u, item)
  <2>1. item \in Items /\ Succ(listhead) \in Items
    BY <1>2, SuccInRange DEF DropMbx, PoolTypes
  <2> QED
    BY <1>2, <2>1 DEF DropMbx, PoolTypes
<1>3. CASE HandOver(u, v, item)
  <2>1. item \in Items
    BY <1>3 DEF HandOver, PoolTypes
  <2> QED
    BY <1>3, <2>1 DEF HandOver, PoolTypes
<1> QED
  BY <1>1, <1>2, <1>3

LEMMA HandlerTypes ==
  ASSUME OrderInv, Handler
  PROVE  InTypes'
<1> USE DEF InTypes
<1>1. InTypes /\ PoolTypes
  BY DEF OrderInv
<1>2. {"handler", "coembxin"} \subseteq Users
  BY MailboxInAssumption
<1>3. CASE slavembxcyclic \/ Exchange \/ NothingRead
  <2>1. /\ UNCHANGED <<vars, mbx, content, slave, rmp, request, islost,
                       dispatched>>
        /\ pc' = pc \/ pc' \in {"visit", "cycle"}
    BY <1>3 DEF slavembxcyclic, Exchange, NothingRead, Answered, Unreached,
                receiverVars, wireVars
  <2>2. status' \in BOOLEAN /\ lost' \in Nat
    <3>1. CASE slavembxcyclic \/ NothingRead
      BY <1>1, <3>1 DEF slavembxcyclic, NothingRead, wireVars
    <3>2. CASE Exchange
      <4>1. lost' = lost \/ lost' = lost + 1
        BY <3>2 DEF Exchange, Answered, Unreached
      <4>2. status' \in BOOLEAN
        BY <3>2 DEF Exchange
      <4> QED
        BY <1>1, <4>1, <4>2
    <3> QED
      BY <1>3, <3>1, <3>2
  <2> QED
    BY <1>1, <2>1, <2>2 DEF vars, PoolTypes
<1>4. CASE RepeatMailbox
  <2>1. /\ UNCHANGED <<vars, mbx, content, status, islost, dispatched>>
        /\ pc' = "cycle"
    BY <1>4 DEF RepeatMailbox, receiverVars
  <2>2. rmp' \in 0 .. 3 /\ (lost' = lost \/ lost' = lost + 1)
    BY <1>1, <1>4
       DEF RepeatMailbox, RepeatSlaveLost, ReadRequest, WriteRequest,
           AwaitAck, Answered, Unreached, Unheard, wireVars
  <2>3. request' \in Int /\ slave' \in SlaveType
    BY <1>1, <1>4
       DEF RepeatMailbox, RepeatSlaveLost, ReadRequest, WriteRequest,
           AwaitAck, Answered, Unreached, Unheard, wireVars, SlaveType
  <2> QED
    BY <1>1, <2>1, <2>2, <2>3 DEF vars, PoolTypes
<1>5. CASE TakeMailbox
  <2>1. PoolTypes' /\ mbx' \in Items
    BY <1>1, <1>2, <1>5, PoolTypesKept DEF TakeMailbox, PoolTypes
  <2> QED
    BY <1>1, <1>5, <2>1 DEF TakeMailbox, wireVars
<1>6. CASE ReadMailbox
  <2>1. /\ UNCHANGED <<vars, mbx, status, islost, request, dispatched>>
        /\ pc = "read" /\ pc' \in {"dispatch", "drop"}
        /\ rmp' = rmp \/ rmp' = 1
        /\ lost' = lost \/ lost' = lost + 1
    BY <1>6 DEF ReadMailbox, ReadLost, Answered, Unreached, Unheard,
                receiverVars
  <2>2. slave' = slave
        \/ slave' = [slave EXCEPT !.full = 0, !.last = slave.full]
    BY <1>6 DEF ReadMailbox, ReadLost, Answered, Unreached, Unheard
  <2>3. slave.full \in Int /\ mbx \in Items
    BY <1>1, <2>1 DEF SlaveType
  <2>4. slave' \in SlaveType
    <3>1. slave \in SlaveType /\ 0 \in Int
      BY <1>1
    <3>2. [slave EXCEPT !.full = 0, !.last = slave.full] \in SlaveType
      BY <2>3, <3>1, SlaveChanged
    <3> QED
      BY <2>2, <3>1, <3>2
  <2>5. content' = content \/ content' = [content EXCEPT ![mbx] = slave.full]
    BY <1>6 DEF ReadMailbox, ReadLost
  <2>6. content' \in [Items -> Int]
    BY <1>1, <2>3, <2>5
  <2> QED
    BY <1>1, <2>1, <2>4, <2>6 DEF vars, PoolTypes
<1>7. CASE Dispatch
  <2>1. content[mbx] \in Nat
    BY <1>7, OrderFacts DEF OrderInv, ReadOK, Dispatch
  <2>2. dispatched' \in Seq(Nat)
    BY <1>1, <1>7, <2>1 DEF Dispatch
  <2>3. /\ UNCHANGED <<mbx, content, slave, rmp, request, status, islost,
                       lost>>
        /\ pc = "dispatch" /\ pc' \in {"drop", "stored"}
    BY <1>7 DEF Dispatch, wireVars, DispatchError, DispatchCoE,
                DispatchOverrun
  <2>4. UNCHANGED vars \/ HandOver("handler", "coembxin", mbx)
    BY <1>7 DEF Dispatch, DispatchError, DispatchCoE, DispatchOverrun
  <2>5. PoolTypes'
    BY <1>1, <1>2, <2>4, PoolTypesKept DEF vars, PoolTypes
  <2> QED
    BY <1>1, <2>2, <2>3, <2>5
<1>8. CASE MarkFull
  BY <1>1, <1>8 DEF MarkFull, vars, PoolTypes, wireVars
<1>9. CASE DropMailbox
  <2>1. PoolTypes'
    BY <1>1, <1>2, <1>9, PoolTypesKept DEF DropMailbox
  <2> QED
    BY <1>1, <1>9, <2>1 DEF DropMailbox, wireVars
<1> QED
  BY <1>3, <1>4, <1>5, <1>6, <1>7, <1>8, <1>9 DEF Handler

LEMMA OutsideTypes ==
  ASSUME OrderInv,
         \/ SlaveStep \/ Pushing \/ Others
         \/ \E r \in Receivers : Receiver(r)
  PROVE  InTypes'
<1> USE DEF InTypes
<1>1. InTypes /\ PoolTypes
  BY DEF OrderInv
<1>2. {"coembxin", "sender"} \cup Receivers \subseteq Users
  BY MailboxInAssumption
<1>3. CASE SlaveStep
  <2>1. slave' \in SlaveType
    <3>1. CASE Offer
      <4>1. slave.aside \in Int /\ slave.next \in Int
        BY <1>1 DEF SlaveType
      <4>2. slave \in SlaveType /\ 0 \in Int /\ slave.next + 1 \in Int
        BY <1>1, <4>1
      <4>3. /\ [slave EXCEPT !.full = slave.aside, !.aside = 0] \in SlaveType
            /\ [slave EXCEPT !.full = slave.next, !.next = slave.next + 1]
                 \in SlaveType
        BY <4>1, <4>2, SlaveChanged
      <4> QED
        BY <3>1, <4>3 DEF Offer
    <3>2. CASE Repeat
      <4>1. /\ slave.full \in Int /\ slave.last \in Int
            /\ slave.aside \in Int /\ slave.request \in Int
        BY <1>1 DEF SlaveType
      <4>2. \E full, aside \in Int :
              slave' = [slave EXCEPT !.acked = slave.request, !.full = full,
                                     !.aside = aside]
        BY <3>2, <4>1 DEF Repeat
      <4> QED
        BY <1>1, <4>1, <4>2 DEF SlaveType
    <3> QED
      BY <1>3, <3>1, <3>2 DEF SlaveStep
  <2> QED
    BY <1>1, <1>3, <2>1 DEF SlaveStep, vars, handlerVars, PoolTypes
<1>4. CASE Pushing
  BY <1>1, <1>4 DEF Pushing, vars, handlerVars, wireVars, PoolTypes
<1>5. CASE Others
  <2>1. PoolTypes'
    <3>1. UNCHANGED vars => PoolTypes'
      BY <1>1 DEF vars, PoolTypes
    <3> QED
      BY <1>1, <1>2, <1>5, <3>1, PoolTypesKept DEF Others
  <2>2. islost' \in BOOLEAN
    BY <1>1, <1>5 DEF Others
  <2> QED
    BY <1>1, <1>5, <2>1, <2>2 DEF Others, wireVars
<1>6. ASSUME NEW r \in Receivers, Receiver(r)
      PROVE  InTypes'
  <2>1. UNCHANGED <<content, slave, lost, dispatched>>
    BY <1>6 DEF Receiver, SeeFull, TakePointer, EnableSlot, UseMailbox,
                wireVars
  <2>2. UNCHANGED <<status, rmp, request, islost, pc, mbx>>
    BY <1>6 DEF Receiver, SeeFull, TakePointer, EnableSlot, UseMailbox,
                handlerVars
  <2>3. PoolTypes'
    <3>1. CASE SeeFull(r)
      BY <1>1, <3>1 DEF SeeFull, vars, PoolTypes
    <3>2. CASE TakePointer(r)
      BY <1>1, <3>2 DEF TakePointer, PoolTypes
    <3>3. CASE EnableSlot(r)
      BY <1>1, <3>3 DEF EnableSlot, ForgetPointer, NotFull, vars, PoolTypes
    <3>4. CASE UseMailbox(r)
      BY <1>1, <1>2, <3>4, PoolTypesKept DEF UseMailbox
    <3> QED
      BY <1>6, <3>1, <3>2, <3>3, <3>4 DEF Receiver
  <2> QED
    BY <1>1, <2>1, <2>2, <2>3
<1> QED
  BY <1>3, <1>4, <1>5, <1>6

LEMMA StepOrderInv == OrderInv /\ [MbxInNext]_inVars => OrderInv'
<1> SUFFICES ASSUME OrderInv, [MbxInNext]_inVars PROVE OrderInv'
  OBVIOUS
<1>1. CASE SlaveStep
  BY <1>1, SlaveOrder, OutsideTypes DEF OrderInv
<1>2. CASE Handler
  <2>1. CASE slavembxcyclic \/ NothingRead \/ MarkFull \/ DropMailbox
    <3>1. /\ UNCHANGED <<slave, rmp, request, lost, dispatched, content,
                         islost>>
      BY <2>1 DEF slavembxcyclic, NothingRead, MarkFull, DropMailbox,
                  wireVars
    <3>2. CASE slavembxcyclic
      <4>1. UNCHANGED <<pc, mbx, status>>
        BY <3>2 DEF slavembxcyclic
      <4>2. OrderParts'
        BY <3>1, <4>1, OrderKept
      <4> QED
        BY <1>2, <4>2, HandlerTypes DEF OrderInv
    <3>3. CASE NothingRead \/ MarkFull \/ DropMailbox
      <4>1. pc # "dispatch" /\ pc' = "cycle"
        BY <3>3 DEF NothingRead, MarkFull, DropMailbox
      <4>2. OrderParts'
        BY <3>1, <4>1, PlaceOrder
      <4> QED
        BY <1>2, <4>2, HandlerTypes DEF OrderInv
    <3> QED
      BY <2>1, <3>2, <3>3
  <2>2. CASE TakeMailbox
    <3>1. slave.full # 0
      BY <2>2, OrderFacts DEF TakeMailbox, ReadOK
    <3>2. /\ UNCHANGED <<slave, rmp, request, lost, dispatched, content,
                         islost>>
          /\ pc # "dispatch" /\ pc' = "read" /\ rmp = 0
      BY <2>2 DEF TakeMailbox, wireVars
    <3>3. OrderParts'
      BY <3>1, <3>2, PlaceOrder
    <3> QED
      BY <1>2, <3>3, HandlerTypes DEF OrderInv
  <2> QED
    BY <1>2, <2>1, <2>2, HandlerTypes, ExchangeOrder, RepeatMailboxOrder,
       ReadMailboxOrder, DispatchOrder DEF Handler, OrderInv
<1>3. CASE Pushing
  <2>1. OrderParts'
    BY <1>3, OrderKept DEF Pushing, handlerVars, wireVars
  <2> QED
    BY <1>3, <2>1, OutsideTypes DEF OrderInv
<1>4. CASE Others
  <2>1. /\ UNCHANGED <<slave, rmp, request, lost, dispatched, content, pc,
                       mbx, status>>
        /\ islost' = islost \/ islost'
    BY <1>4 DEF Others, wireVars
  <2> QED
    BY <1>4, <2>1, OrderKept, OutsideTypes DEF OrderInv
<1>5. ASSUME NEW r \in Receivers, Receiver(r)
      PROVE  OrderInv'
  <2>1. UNCHANGED <<slave, rmp, request, lost, dispatched, content, pc, mbx,
                    status, islost>>
    BY <1>5 DEF Receiver, SeeFull, TakePointer, EnableSlot, UseMailbox,
                handlerVars, wireVars
  <2> QED
    BY <1>5, <2>1, OrderKept, OutsideTypes DEF OrderInv
<1>6. CASE UNCHANGED inVars
  <2>1. UNCHANGED <<slave, rmp, request, lost, dispatched, content, pc, mbx,
                    status, islost>>
    BY <1>6 DEF inVars, handlerVars, wireVars
  <2>2. InTypes'
    BY <1>6, <2>1 DEF inVars, vars, OrderInv, InTypes, PoolTypes
  <2> QED
    BY <2>1, <2>2, OrderKept DEF OrderInv
<1> QED
  BY <1>1, <1>2, <1>3, <1>4, <1>5, <1>6 DEF MbxInNext

(* The mailboxes of a slave are handled in the order in which the slave    *)
(* offers them, none is skipped unless the application has given the slave *)
(* up, and one is handled twice in a row only when a frame was lost: the   *)
(* repeat requests of ecx_mbxinhandler.                                    *)
THEOREM MailsAreInOrder == MbxInSpec => []MailboxesInOrder
<1>1. OrderInv => MailboxesInOrder
  BY DEF OrderInv, OrderParts
<1> QED
  BY <1>1, InitOrderInv, StepOrderInv, PTL DEF MbxInSpec

-----------------------------------------------------------------------------
(* The error list.  Numbers in the ring, without the modulus.              *)
InRing(i) == IF i < 0 THEN i + MaxErrors + 1 ELSE i

(* Where the k-th of n errors lies when the last one lies at `last`.       *)
Place(last, n, k) == InRing(last - (n - k))

Holds(last) ==
  \A k \in 1 .. Len(unread) :
    Error[Place(last, Len(unread), k)] = unread[k]

RingTypes ==
  /\ Error \in [0 .. MaxErrors -> Int]
  /\ head \in 0 .. MaxErrors /\ tail \in 0 .. MaxErrors
  /\ pushing \in {"idle", "advance", "overtake"}
  /\ unread \in Seq(Int) /\ Len(unread) <= MaxErrors

RingOK ==
  /\ RingTypes
  /\ pushing = "idle" =>
       /\ InRing(head - tail) = Len(unread)
       /\ Holds(head - 1)
       /\ unread # <<>> => ecaterror
  /\ pushing = "advance" =>
       /\ 1 <= Len(unread)
       /\ \/ InRing(head - tail) = Len(unread) - 1
          \/ Len(unread) = MaxErrors /\ InRing(head - tail) = MaxErrors
       /\ Holds(head)
  /\ pushing = "overtake" =>
       /\ 1 <= Len(unread)
       /\ \/ InRing(head - tail) = Len(unread)
          \/ Len(unread) = MaxErrors /\ head = tail
       /\ Holds(head - 1)

LEMMA RingModulus ==
  ASSUME NEW i \in Int, - MaxErrors <= i, i <= 2 * MaxErrors
  PROVE  i % (MaxErrors + 1) = IF i < 0 THEN i + MaxErrors + 1
                               ELSE IF i <= MaxErrors THEN i
                               ELSE i - (MaxErrors + 1)
<1>0. MaxErrors \in Nat /\ 0 < MaxErrors
  BY ErrorRingAssumption
<1>1. PICK n \in Nat : n = MaxErrors + 1 /\ 1 < n
  BY <1>0
<1>2. CASE i < 0
  <2>1. PICK r \in Int : r = i + n
    BY <1>0, <1>1
  <2>2. 0 <= r /\ r < n
    BY <1>0, <1>1, <1>2, <2>1
  <2>3. (r - n) % n = r
    BY <1>0, <1>1, <2>2
  <2> QED
    BY <1>0, <1>1, <1>2, <2>1, <2>3
<1>3. CASE 0 <= i /\ i <= MaxErrors
  <2>1. i % n = i
    BY <1>0, <1>1, <1>3
  <2> QED
    BY <1>0, <1>1, <1>3, <2>1
<1>4. CASE MaxErrors < i
  <2>1. PICK r \in Int : r = i - n
    BY <1>0, <1>1
  <2>2. 0 <= r /\ r < n
    BY <1>0, <1>1, <1>4, <2>1
  <2>3. (r + n) % n = r
    BY <1>0, <1>1, <2>2
  <2> QED
    BY <1>0, <1>1, <1>4, <2>1, <2>3
<1> QED
  BY <1>0, <1>1, <1>2, <1>3, <1>4

LEMMA PlaceValue ==
  ASSUME NEW last \in Int, NEW n \in Int, NEW k \in Int
  PROVE  Place(last, n, k) = IF last - (n - k) < 0
                             THEN last - (n - k) + MaxErrors + 1
                             ELSE last - (n - k)
BY DEF Place, InRing

LEMMA InitRing == RingInit => RingOK
<1> SUFFICES ASSUME RingInit PROVE RingOK
  OBVIOUS
<1>1. MaxErrors \in Nat /\ 0 < MaxErrors
  BY ErrorRingAssumption
<1>2. /\ Error \in [0 .. MaxErrors -> Int] /\ unread = <<>>
      /\ head = 0 /\ tail = 0 /\ pushing = "idle"
  BY DEF RingInit
<1> QED
  BY <1>1, <1>2 DEF RingOK, RingTypes, InRing, Holds

LEMMA PushErrorRing ==
  ASSUME RingOK, NEW e \in Int, PushError(e)
  PROVE  RingOK'
<1> DEFINE n == Len(unread)
           old == IF n = MaxErrors THEN Tail(unread) ELSE unread
           m == Len(old)
           gone == IF n = MaxErrors THEN 1 ELSE 0
<1>1. /\ MaxErrors \in Nat /\ 0 < MaxErrors
      /\ Error \in [0 .. MaxErrors -> Int] /\ unread \in Seq(Int)
      /\ head \in 0 .. MaxErrors /\ tail \in 0 .. MaxErrors
      /\ n \in Nat /\ n <= MaxErrors
  <2>1. unread \in Seq(Int) /\ Len(unread) <= MaxErrors
    BY DEF RingOK, RingTypes
  <2>2. Len(unread) \in Nat
    BY <2>1
  <2>3. /\ Error \in [0 .. MaxErrors -> Int]
        /\ head \in 0 .. MaxErrors /\ tail \in 0 .. MaxErrors
    BY DEF RingOK, RingTypes
  <2> QED
    <3>1. MaxErrors \in Nat /\ 0 < MaxErrors
      BY ErrorRingAssumption
    <3> QED
      BY <2>1, <2>2, <2>3, <3>1, Zenon
<1>2. /\ InRing(head - tail) = n /\ Holds(head - 1)
      /\ Error' = [Error EXCEPT ![head] = e] /\ unread' = Append(old, e)
      /\ pushing' = "advance" /\ head' = head /\ tail' = tail
  BY DEF PushError, RingOK
<1>3. /\ old \in Seq(Int) /\ m = n - gone
      /\ \A k \in 1 .. m : old[k] = unread[k + gone]
  <2>1. CASE n = MaxErrors
    <3>1. unread # <<>>
      BY <1>1, <2>1
    <3> QED
      BY <1>1, <2>1, <3>1
  <2>2. CASE n # MaxErrors
    BY <1>1, <2>2
  <2> QED
    BY <2>1, <2>2
<1>4. m \in Nat /\ m < MaxErrors
  BY <1>1, <1>3
<1> HIDE DEF old, m
<1>5. /\ unread' \in Seq(Int) /\ Len(unread') = m + 1
      /\ unread'[m + 1] = e
      /\ \A k \in 1 .. m : unread'[k] = unread[k + gone]
  <2>1. unread' = Append(old, e) /\ old \in Seq(Int) /\ m = Len(old)
    BY <1>2, <1>3 DEF m
  <2>2. /\ unread' \in Seq(Int) /\ Len(unread') = m + 1
        /\ unread'[m + 1] = e
        /\ \A k \in 1 .. m : unread'[k] = old[k]
    BY <2>1
  <2> QED
    BY <1>3, <2>2
<1>6. RingTypes'
  BY <1>1, <1>2, <1>4, <1>5 DEF RingTypes
<1>7. ASSUME NEW k \in 1 .. m + 1
      PROVE  Error'[Place(head, m + 1, k)] = unread'[k]
  <2>1. CASE k = m + 1
    BY <1>1, <1>2, <1>4, <1>5, <2>1 DEF Place, InRing
  <2>2. CASE k # m + 1
    <3>1. k \in 1 .. m /\ k + gone \in 1 .. n
      BY <1>1, <1>3, <1>4, <1>7, <2>2
    <3>2. Place(head, m + 1, k) = Place(head - 1, n, k + gone)
      <4>1. gone \in Int /\ k \in Int
        BY <3>1
      <4> HIDE DEF gone
      <4>2. /\ head \in Int /\ head - 1 \in Int /\ m + 1 \in Int
            /\ k + gone \in Int /\ n \in Int
        BY <1>1, <1>4, <4>1
      <4>3. Place(head, m + 1, k) = IF head - ((m + 1) - k) < 0
                                    THEN head - ((m + 1) - k) + MaxErrors + 1
                                    ELSE head - ((m + 1) - k)
        <5>1. PICK h \in Int, q \in Int : h = head /\ q = m + 1
          BY <4>2
        <5>2. Place(h, q, k) = IF h - (q - k) < 0
                               THEN h - (q - k) + MaxErrors + 1
                               ELSE h - (q - k)
          BY <4>1, PlaceValue
        <5> QED
          BY <5>1, <5>2
      <4>4. Place(head - 1, n, k + gone)
              = IF head - 1 - (n - (k + gone)) < 0
                THEN head - 1 - (n - (k + gone)) + MaxErrors + 1
                ELSE head - 1 - (n - (k + gone))
        BY <4>2, PlaceValue
      <4> QED
        BY <1>1, <1>3, <1>4, <4>1, <4>3, <4>4
    <3>3. /\ Place(head, m + 1, k) \in 0 .. MaxErrors
          /\ Place(head, m + 1, k) # head
      BY <1>1, <1>4, <3>1 DEF Place, InRing
    <3>4. Error[Place(head - 1, n, k + gone)] = unread[k + gone]
      BY <1>2, <3>1 DEF Holds
    <3> QED
      BY <1>1, <1>2, <1>5, <3>1, <3>2, <3>3, <3>4
  <2> QED
    BY <2>1, <2>2
<1>8. Holds(head)'
  BY <1>2, <1>5, <1>7 DEF Holds
<1>9. \/ InRing(head - tail) = m
      \/ m + 1 = MaxErrors /\ InRing(head - tail) = MaxErrors
  <2>1. CASE n = MaxErrors
    BY <1>1, <1>2, <1>3, <1>4, <2>1
  <2>2. CASE n # MaxErrors
    BY <1>1, <1>2, <1>3, <1>4, <2>2
  <2> QED
    BY <2>1, <2>2
<1> QED
  BY <1>2, <1>4, <1>5, <1>6, <1>8, <1>9 DEF RingOK, InRing

LEMMA AdvanceRing ==
  ASSUME RingOK, Advance
  PROVE  RingOK'
<1> DEFINE n == Len(unread)
<1>1. /\ MaxErrors \in Nat /\ 0 < MaxErrors
      /\ head \in 0 .. MaxErrors /\ tail \in 0 .. MaxErrors
      /\ n \in Nat /\ n <= MaxErrors
  BY ErrorRingAssumption DEF RingOK, RingTypes
<1>2. /\ UNCHANGED <<Error, tail, unread>> /\ pushing' = "overtake"
      /\ head' = IF head = MaxErrors THEN 0 ELSE head + 1
  BY <1>1 DEF Advance, Wrap
<1>3. /\ 1 <= n /\ Holds(head)
      /\ \/ InRing(head - tail) = n - 1
         \/ n = MaxErrors /\ InRing(head - tail) = MaxErrors
  BY DEF Advance, RingOK
<1>4. \A k \in 1 .. n : Place(head' - 1, n, k) = Place(head, n, k)
  BY <1>1, <1>2 DEF Place, InRing
<1>5. Holds(head - 1)'
  BY <1>2, <1>3, <1>4 DEF Holds
<1>6. InRing(head' - tail) = n \/ (n = MaxErrors /\ head' = tail)
  BY <1>1, <1>2, <1>3 DEF InRing
<1>7. RingTypes'
  BY <1>1, <1>2 DEF RingOK, RingTypes
<1> QED
  BY <1>2, <1>3, <1>5, <1>6, <1>7 DEF RingOK, InRing

LEMMA OvertakeRing ==
  ASSUME RingOK, Overtake
  PROVE  RingOK'
<1> DEFINE n == Len(unread)
<1>1. /\ MaxErrors \in Nat /\ 0 < MaxErrors
      /\ head \in 0 .. MaxErrors /\ tail \in 0 .. MaxErrors
      /\ n \in Nat /\ n <= MaxErrors
  BY ErrorRingAssumption DEF RingOK, RingTypes
<1>2. /\ UNCHANGED <<Error, head, unread>> /\ pushing' = "idle"
      /\ ecaterror'
      /\ tail' = Wrap(IF head = tail THEN tail + 1 ELSE tail)
  BY DEF Overtake
<1>3. /\ 1 <= n /\ Holds(head - 1)
      /\ InRing(head - tail) = n \/ (n = MaxErrors /\ head = tail)
  BY DEF Overtake, RingOK
<1>4. tail' \in 0 .. MaxErrors /\ InRing(head - tail') = n
  <2> HIDE DEF n
  <2>1. PICK h \in Nat, t \in Nat, m \in Nat, q \in Nat :
          h = head /\ t = tail /\ m = n /\ q = MaxErrors
    BY <1>1
  <2>2. /\ h <= q /\ t <= q /\ 1 <= m /\ m <= q /\ 0 < q
        /\ InRing(h - t) = m \/ (m = q /\ h = t)
    BY <1>1, <1>3, <2>1
  <2>3. CASE h # t
    <3>1. Wrap(t) = t
      BY <2>1, <2>2 DEF Wrap
    <3> QED
      BY <1>2, <2>1, <2>2, <2>3, <3>1
  <2>4. CASE h = t
    <3>1. tail' = Wrap(t + 1) /\ m = q
      BY <1>1, <1>2, <2>1, <2>2, <2>4 DEF InRing
    <3>2. CASE t < q
      <4>1. Wrap(t + 1) = t + 1
        BY <2>1, <3>2 DEF Wrap
      <4>2. InRing(h - (t + 1)) = m
        BY <2>1, <2>4, <3>1 DEF InRing
      <4> QED
        BY <2>1, <3>1, <3>2, <4>1, <4>2
    <3>3. CASE t = q
      <4>1. Wrap(t + 1) = 0
        BY <2>1, <3>3 DEF Wrap
      <4>2. InRing(h - 0) = m
        BY <2>1, <2>2, <2>4, <3>1, <3>3 DEF InRing
      <4> QED
        BY <2>1, <2>2, <3>1, <4>1, <4>2
    <3> QED
      BY <2>2, <3>2, <3>3
  <2> QED
    BY <2>3, <2>4
<1>5. Holds(head - 1)'
  BY <1>2, <1>3 DEF Holds
<1>6. RingTypes'
  BY <1>1, <1>2, <1>4 DEF RingOK, RingTypes
<1> QED
  BY <1>2, <1>4, <1>5, <1>6 DEF RingOK, InRing

LEMMA PopErrorRing ==
  ASSUME RingOK, PopError, Concurrent = FALSE
  PROVE  RingOK'
<1> DEFINE n == Len(unread)
<1>1. /\ MaxErrors \in Nat /\ 0 < MaxErrors
      /\ head \in 0 .. MaxErrors /\ tail \in 0 .. MaxErrors
      /\ n \in Nat /\ n <= MaxErrors /\ unread \in Seq(Int)
  BY ErrorRingAssumption DEF RingOK, RingTypes
<1>2. /\ UNCHANGED <<Error, head, pushing>> /\ pushing = "idle"
      /\ InRing(head - tail) = n /\ Holds(head - 1)
      /\ unread # <<>> => ecaterror
  BY DEF PopError, RingOK
<1>3. CASE head = tail
  <2>1. n = 0 /\ unread = <<>>
    BY <1>1, <1>2, <1>3 DEF InRing
  <2>2. UNCHANGED <<tail, unread>>
    BY <1>3 DEF PopError, iserror
  <2>3. RingTypes'
    BY <1>2, <2>2 DEF RingOK, RingTypes
  <2>4. Holds(head - 1)'
    BY <1>2, <2>2 DEF Holds
  <2> QED
    BY <1>2, <2>1, <2>2, <2>3, <2>4 DEF RingOK, InRing
<1>4. CASE head # tail
  <2>1. 0 < n /\ unread # <<>>
    BY <1>1, <1>2, <1>4 DEF InRing
  <2>2. /\ tail' = Wrap(tail + 1) /\ unread' = Tail(unread)
        /\ ecaterror' = ecaterror
    BY <1>4, <2>1 DEF PopError, iserror
  <2>3. /\ unread' \in Seq(Int) /\ Len(unread') = n - 1
        /\ \A k \in 1 .. n - 1 : unread'[k] = unread[k + 1]
    BY <1>1, <2>1, <2>2
  <2>4. tail' \in 0 .. MaxErrors /\ InRing(head - tail') = n - 1
    <3> HIDE DEF n
    <3>1. PICK h \in Nat, t \in Nat, m \in Nat, q \in Nat :
            h = head /\ t = tail /\ m = n /\ q = MaxErrors
      BY <1>1
    <3>2. h <= q /\ t <= q /\ h # t /\ 0 < q /\ InRing(h - t) = m
      BY <1>1, <1>2, <1>4, <3>1
    <3>3. CASE t < q
      <4>1. Wrap(t + 1) = t + 1
        BY <1>1, <3>1, <3>3 DEF Wrap
      <4>2. InRing(h - (t + 1)) = m - 1
        BY <1>1, <3>1, <3>2, <3>3 DEF InRing
      <4> QED
        BY <2>2, <3>1, <3>3, <4>1, <4>2
    <3>4. CASE t = q
      <4>1. Wrap(t + 1) = 0
        BY <1>1, <3>1, <3>4 DEF Wrap
      <4>2. InRing(h - 0) = m - 1
        BY <1>1, <3>1, <3>2, <3>4 DEF InRing
      <4> QED
        BY <2>2, <3>1, <4>1, <4>2
    <3> QED
      BY <3>1, <3>2, <3>3, <3>4
  <2>5. RingTypes'
    <3>1. Error \in [0 .. MaxErrors -> Int]
      BY DEF RingOK, RingTypes
    <3>2. Len(unread') <= MaxErrors
      BY <1>1, <2>3
    <3> QED
      BY <1>1, <1>2, <2>3, <2>4, <3>1, <3>2 DEF RingTypes
  <2>6. ASSUME NEW k \in 1 .. n - 1
        PROVE  Error[Place(head - 1, n - 1, k)] = unread'[k]
    <3>1. k + 1 \in 1 .. n /\ k \in Int
      BY <1>1, <2>6
    <3>2. Place(head - 1, n - 1, k) = Place(head - 1, n, k + 1)
      BY <1>1, <3>1 DEF Place
    <3>3. Error[Place(head - 1, n, k + 1)] = unread[k + 1]
      BY <1>2, <3>1 DEF Holds
    <3> QED
      BY <2>3, <2>6, <3>2, <3>3
  <2>7. Holds(head - 1)'
    BY <1>2, <2>3, <2>6 DEF Holds
  <2> QED
    BY <1>2, <2>1, <2>2, <2>3, <2>4, <2>5, <2>7 DEF RingOK, InRing
<1> QED
  BY <1>3, <1>4

LEMMA RingMeansOrder == RingOK => ErrorsInOrder
<1> SUFFICES ASSUME RingOK, pushing = "idle"
             PROVE  Pending = unread /\ (unread # <<>> => ecaterror)
  BY DEF ErrorsInOrder
<1> DEFINE n == Len(unread)
<1>1. /\ MaxErrors \in Nat /\ 0 < MaxErrors
      /\ head \in 0 .. MaxErrors /\ tail \in 0 .. MaxErrors
      /\ n \in Nat /\ n <= MaxErrors /\ unread \in Seq(Int)
  BY ErrorRingAssumption DEF RingOK, RingTypes
<1>2. /\ InRing(head - tail) = n /\ Holds(head - 1)
      /\ unread # <<>> => ecaterror
  BY DEF RingOK
<1>3. (head - tail) % (MaxErrors + 1) = n
  <2>1. /\ head - tail \in Int /\ - MaxErrors <= head - tail
        /\ head - tail <= MaxErrors
    BY <1>1
  <2>2. PICK d \in Int : d = head - tail
    BY <2>1
  <2>3. d % (MaxErrors + 1) = IF d < 0 THEN d + MaxErrors + 1
                              ELSE IF d <= MaxErrors THEN d
                              ELSE d - (MaxErrors + 1)
    <3>1. - MaxErrors <= d /\ d <= 2 * MaxErrors
      BY <1>1, <2>1, <2>2
    <3> QED
      BY <3>1, RingModulus
  <2>4. d % (MaxErrors + 1) = InRing(d)
    BY <1>1, <2>1, <2>2, <2>3 DEF InRing
  <2> QED
    BY <1>2, <2>2, <2>4
<1>4. ASSUME NEW i \in 1 .. n
      PROVE  Error[(tail + i - 1) % (MaxErrors + 1)] = unread[i]
  <2>1. PICK d \in Int : d = tail + i - 1
    BY <1>1, <1>4
  <2>2. /\ 0 <= d /\ - MaxErrors <= d /\ d <= 2 * MaxErrors
    BY <1>1, <1>4, <2>1
  <2>3. d % (MaxErrors + 1) = IF d <= MaxErrors THEN d
                              ELSE d - (MaxErrors + 1)
    BY <2>2, RingModulus
  <2>4. d % (MaxErrors + 1) = Place(head - 1, n, i)
    <3>1. head - 1 \in Int /\ n \in Int /\ i \in Int
      BY <1>1, <1>4
    <3>2. Place(head - 1, n, i) = IF head - 1 - (n - i) < 0
                                  THEN head - 1 - (n - i) + MaxErrors + 1
                                  ELSE head - 1 - (n - i)
      BY <3>1, PlaceValue
    <3>3. /\ head - tail < 0 => head - 1 - (n - i) = d - (MaxErrors + 1)
          /\ head - tail >= 0 => head - 1 - (n - i) = d
      <4> HIDE DEF n
      <4>1. PICK h \in Nat, t \in Nat, m \in Nat :
              h = head /\ t = tail /\ m = n
        BY <1>1
      <4>2. InRing(h - t) = m /\ d = t + i - 1
        BY <1>2, <2>1, <4>1
      <4>3. /\ h - t < 0 => h - 1 - (m - i) = d - (MaxErrors + 1)
            /\ h - t >= 0 => h - 1 - (m - i) = d
        BY <1>1, <1>4, <4>2 DEF InRing
      <4> QED
        BY <4>1, <4>3
    <3>4. head - tail >= 0 => d <= MaxErrors
      BY <1>1, <1>2, <1>4, <2>1 DEF InRing
    <3>5. head - tail < 0 \/ head - tail >= 0
      BY <1>1
    <3>6. CASE head - tail < 0
      <4>1. Place(head - 1, n, i) = IF d <= MaxErrors THEN d
                                    ELSE d - (MaxErrors + 1)
        BY <1>1, <2>2, <3>2, <3>3, <3>6
      <4> QED
        BY <2>3, <4>1
    <3>7. CASE head - tail >= 0
      <4>1. Place(head - 1, n, i) = d
        BY <1>1, <2>2, <3>2, <3>3, <3>7
      <4> QED
        BY <2>3, <3>4, <3>7, <4>1
    <3> QED
      BY <3>5, <3>6, <3>7
  <2> QED
    BY <1>2, <1>4, <2>1, <2>4 DEF Holds
<1>5. Pending = [i \in 1 .. n |-> unread[i]]
  BY <1>3, <1>4 DEF Pending
<1>6. unread = [i \in 1 .. n |-> unread[i]]
  BY <1>1
<1> QED
  BY <1>2, <1>5, <1>6

LEMMA StepRing ==
  ASSUME Concurrent = FALSE, OrderInv, RingOK, [MbxInNext]_inVars
  PROVE  RingOK'
<1>1. CASE UNCHANGED ringVars
  BY <1>1 DEF ringVars, RingOK, RingTypes, Holds, InRing, Place
<1>2. CASE Advance
  BY <1>2, AdvanceRing
<1>3. CASE Overtake
  BY <1>3, OvertakeRing
<1>4. CASE PopError
  BY <1>4, PopErrorRing
<1>5. CASE Dispatch /\ DispatchError
  <2>1. content[mbx] \in Int
    BY <1>5 DEF Dispatch, OrderInv, InTypes
  <2> QED
    BY <1>5, <2>1, PushErrorRing DEF DispatchError
<1>6. \/ UNCHANGED ringVars \/ Advance \/ Overtake \/ PopError
      \/ Dispatch /\ DispatchError
  <2>1. CASE SlaveStep
    BY <2>1 DEF SlaveStep
  <2>2. CASE Handler
    <3>1. Dispatch => DispatchError \/ UNCHANGED ringVars
      BY DEF Dispatch, DispatchCoE, DispatchOverrun
    <3> QED
      BY <2>2, <3>1
         DEF Handler, slavembxcyclic, Exchange, RepeatMailbox, NothingRead,
             TakeMailbox, ReadMailbox, MarkFull, DropMailbox
  <2>3. CASE Pushing
    BY <2>3 DEF Pushing
  <2>4. CASE Others
    BY <2>4 DEF Others
  <2>5. CASE \E r \in Receivers : Receiver(r)
    BY <2>5 DEF Receiver
  <2>6. CASE UNCHANGED inVars
    BY <2>6 DEF inVars
  <2> QED
    BY <2>1, <2>2, <2>3, <2>4, <2>5, <2>6 DEF MbxInNext
<1> QED
  BY <1>1, <1>2, <1>3, <1>4, <1>5, <1>6

(* Between two calls the error list is a queue of EC_MAXELIST errors that  *)
(* gives up its oldest entry when it is full (ecx_pusherror, ecx_poperror),*)
(* when no pop comes between the writes of a push: nothing locks the list. *)
THEOREM ErrorsAreInOrder ==
  ASSUME Concurrent = FALSE
  PROVE  MbxInSpec => []ErrorsInOrder
<1>1. MbxInInit => OrderInv /\ RingOK
  BY InitOrderInv, InitRing DEF MbxInInit
<1>2. OrderInv /\ RingOK /\ [MbxInNext]_inVars => OrderInv' /\ RingOK'
  BY StepOrderInv, StepRing
<1>3. RingOK => ErrorsInOrder
  BY RingMeansOrder
<1> QED
  BY <1>1, <1>2, <1>3, PTL DEF MbxInSpec

-----------------------------------------------------------------------------
(* Who holds which mailbox, when one thread at a time receives.            *)
OneReceiver == \A r, s \in Receivers : r = s

HolderTypes ==
  /\ coembxin \in Items \cup {NoMbx, Enabled}
  /\ rpc \in [Receivers -> {"wait", "take", "enable", "clear", "use"}]
  /\ DOMAIN rmbx = Receivers

HandlerHolds ==
  owned["handler"] = IF pc \in {"read", "dispatch", "drop"} THEN {mbx} ELSE {}

SlotHolds ==
  owned["coembxin"] = IF /\ coembxin \in Items
                         /\ \A r \in Receivers : rpc[r] # "enable"
                      THEN {coembxin} ELSE {}

(* The slot has a pointer from the time the handler stores it until its    *)
(* receiver enables the slot again.                                        *)
SlotFilled ==
  /\ coembxin \in Items
       <=> \/ pc = "stored"
           \/ coembxinfull /\ \A r \in Receivers : rpc[r] # "clear"
  /\ pc = "stored" => ~ coembxinfull
  /\ ~ cyclic => ~ coembxinfull /\ pc = "cycle"

ReceiverHolds ==
  \A r \in Receivers :
    /\ owned[r] = IF rpc[r] \in {"enable", "clear", "use"} THEN {rmbx[r]}
                                                            ELSE {}
    /\ rpc[r] \in {"take", "enable", "clear"} => coembxinfull
    /\ rpc[r] = "enable" => rmbx[r] = coembxin

HolderOK ==
  HolderTypes /\ HandlerHolds /\ SlotHolds /\ SlotFilled /\ ReceiverHolds

LEMMA NoPointer == NoMbx \notin Items /\ Enabled \notin Items
BY MbxPoolAssumption DEF NoMbx, Enabled, Items

LEMMA UsersDiffer ==
  /\ {"handler", "coembxin", "sender"} \cup Receivers = Users
  /\ "handler" # "coembxin" /\ "handler" # "sender" /\ "coembxin" # "sender"
  /\ \A r \in Receivers : r \notin {"handler", "coembxin", "sender"}
BY MailboxInAssumption

(* What the operations of the pool do to each user.                        *)
LEMMA OwnedChanges ==
  ASSUME PoolTypes, NEW u \in Users, NEW v \in Users, NEW item
  PROVE  /\ GetMbx(u) =>
              /\ owned'[u] = owned[u] \cup {emptylist[listtail]}
              /\ \A w \in Users \ {u} : owned'[w] = owned[w]
         /\ DropMbx(u, item) =>
              /\ owned'[u] = owned[u] \ {item}
              /\ \A w \in Users \ {u} : owned'[w] = owned[w]
         /\ HandOver(u, v, item) =>
              /\ owned'[u] = owned[u] \ {item}
              /\ owned'[v] = owned[v] \cup {item}
              /\ \A w \in Users \ {u, v} : owned'[w] = owned[w]
<1>1. GetMbx(u) => /\ owned'[u] = owned[u] \cup {emptylist[listtail]}
                   /\ \A w \in Users \ {u} : owned'[w] = owned[w]
  BY DEF GetMbx, PoolTypes
<1>2. DropMbx(u, item) => /\ owned'[u] = owned[u] \ {item}
                          /\ \A w \in Users \ {u} : owned'[w] = owned[w]
  BY DEF DropMbx, PoolTypes
<1>3. HandOver(u, v, item) =>
        /\ owned'[u] = owned[u] \ {item}
        /\ owned'[v] = owned[v] \cup {item}
        /\ \A w \in Users \ {u, v} : owned'[w] = owned[w]
  BY DEF HandOver, PoolTypes
<1> QED
  BY <1>1, <1>2, <1>3

LEMMA InitHolder == MbxInInit => HolderOK
<1> SUFFICES ASSUME MbxInInit PROVE HolderOK
  OBVIOUS
<1>1. /\ coembxin = NoMbx /\ coembxinfull = FALSE /\ pc = "cycle"
      /\ rpc = [r \in Receivers |-> "wait"]
      /\ rmbx = [r \in Receivers |-> NoMbx]
      /\ owned = [u \in Users |-> {}]
  BY DEF MbxInInit, Init
<1>2. \A u \in Users : owned[u] = {}
  BY <1>1
<1> QED
  BY <1>1, <1>2, NoPointer, UsersDiffer
     DEF HolderOK, HolderTypes, HandlerHolds, SlotHolds, SlotFilled,
         ReceiverHolds

(* Steps of the handler that leave the pool and the slot alone.            *)
LEMMA HandlerMovesOn ==
  ASSUME HolderOK, UNCHANGED <<vars, coembxin, coembxinfull, cyclic, mbx>>,
         UNCHANGED <<rpc, rmbx>>,
         pc # "stored" /\ pc' # "stored",
         pc \in {"read", "dispatch", "drop"}
           <=> pc' \in {"read", "dispatch", "drop"},
         cyclic \/ pc' = "cycle"
  PROVE  HolderOK'
BY DEF HolderOK, HolderTypes, HandlerHolds, SlotHolds, SlotFilled,
       ReceiverHolds, vars

LEMMA HandlerHolder ==
  ASSUME InTypes, HolderOK, Handler
  PROVE  HolderOK' /\ [Next]_vars
<1>1. PoolTypes
  BY DEF InTypes
<1>2. HolderTypes /\ HandlerHolds /\ SlotHolds /\ SlotFilled
      /\ ReceiverHolds
  BY DEF HolderOK
<1>3. "handler" \in Users /\ "coembxin" \in Users
      /\ "handler" # "coembxin" /\ Receivers \subseteq Users
      /\ \A r \in Receivers : r # "handler" /\ r # "coembxin"
  BY UsersDiffer
<1>4. CASE slavembxcyclic
  <2>1. /\ UNCHANGED <<vars, coembxinfull, mbx, pc, rpc, rmbx>>
        /\ coembxin' = Enabled /\ cyclic' = TRUE /\ cyclic = FALSE
    BY <1>4 DEF slavembxcyclic, receiverVars
  <2>2. ~ coembxinfull /\ pc = "cycle" /\ coembxin \notin Items
    BY <1>2, <2>1 DEF SlotFilled
  <2>3. coembxin' \notin Items /\ owned["coembxin"] = {}
    BY <1>2, <2>1, <2>2, NoPointer DEF SlotHolds
  <2>4. HolderTypes' /\ HandlerHolds' /\ SlotHolds' /\ SlotFilled'
    BY <1>2, <2>1, <2>2, <2>3
       DEF HolderTypes, HandlerHolds, SlotHolds, SlotFilled, vars
  <2>5. ReceiverHolds'
    BY <1>2, <2>1, <2>2 DEF ReceiverHolds, vars
  <2> QED
    BY <2>1, <2>4, <2>5 DEF HolderOK
<1>5. CASE Exchange \/ RepeatMailbox \/ NothingRead \/ ReadMailbox
  <2>1. /\ UNCHANGED <<vars, coembxin, coembxinfull, cyclic, mbx>>
        /\ UNCHANGED <<rpc, rmbx>>
    BY <1>5 DEF Exchange, RepeatMailbox, NothingRead, ReadMailbox,
                receiverVars
  <2>2. \/ pc = "cycle" /\ cyclic /\ pc' = "visit"
        \/ pc = "visit" /\ pc' = "cycle"
        \/ pc = "read" /\ pc' \in {"dispatch", "drop"}
    BY <1>5 DEF Exchange, RepeatMailbox, NothingRead, ReadMailbox, ReadLost
  <2>3. cyclic \/ pc' = "cycle"
    BY <1>2, <2>2 DEF SlotFilled
  <2>4. HolderOK'
    BY <2>1, <2>2, <2>3, HandlerMovesOn
  <2> QED
    BY <2>1, <2>4
<1>6. CASE TakeMailbox
  <2>1. /\ UNCHANGED <<coembxin, coembxinfull, cyclic, rpc, rmbx>>
        /\ mbx' = emptylist[listtail] /\ pc = "visit" /\ pc' = "read"
        /\ GetMbx("handler")
    BY <1>6 DEF TakeMailbox, receiverVars
  <2>2. /\ owned'["handler"] = owned["handler"] \cup {emptylist[listtail]}
        /\ \A w \in Users \ {"handler"} : owned'[w] = owned[w]
    BY <1>1, <1>3, <2>1, OwnedChanges
  <2>3. HandlerHolds'
    BY <1>2, <2>1, <2>2 DEF HandlerHolds
  <2>4. HolderTypes' /\ SlotHolds' /\ SlotFilled'
    BY <1>2, <1>3, <2>1, <2>2 DEF HolderTypes, SlotHolds, SlotFilled
  <2>5. ReceiverHolds'
    BY <1>2, <1>3, <2>1, <2>2 DEF ReceiverHolds
  <2> QED
    BY <1>3, <2>1, <2>3, <2>4, <2>5 DEF HolderOK, Next
<1>7. CASE Dispatch /\ (DispatchError \/ DispatchOverrun)
  <2>1. /\ UNCHANGED <<vars, coembxin, coembxinfull, cyclic, mbx>>
        /\ UNCHANGED <<rpc, rmbx>> /\ pc = "dispatch" /\ pc' = "drop"
    BY <1>7 DEF Dispatch, DispatchError, DispatchOverrun, receiverVars
  <2>2. cyclic
    BY <1>2, <2>1 DEF SlotFilled
  <2>3. HolderOK'
    BY <2>1, <2>2, HandlerMovesOn
  <2> QED
    BY <2>1, <2>3
<1>8. CASE Dispatch /\ DispatchCoE
  <2>1. /\ UNCHANGED <<coembxinfull, cyclic, mbx, rpc, rmbx>>
        /\ pc = "dispatch" /\ pc' = "stored" /\ ~ coembxinfull
        /\ coembxin' = mbx /\ HandOver("handler", "coembxin", mbx)
    BY <1>8 DEF Dispatch, DispatchCoE, SlotFree, receiverVars
  <2>2. /\ owned'["handler"] = owned["handler"] \ {mbx}
        /\ owned'["coembxin"] = owned["coembxin"] \cup {mbx}
        /\ \A w \in Users \ {"handler", "coembxin"} : owned'[w] = owned[w]
    BY <1>1, <1>3, <2>1, OwnedChanges
  <2>3. mbx \in Items /\ coembxin \notin Items /\ owned["coembxin"] = {}
    BY <1>2, <2>1 DEF InTypes, SlotFilled, SlotHolds
  <2>4. \A r \in Receivers : rpc[r] \notin {"take", "enable", "clear"}
    BY <1>2, <2>1 DEF ReceiverHolds
  <2>5. HandlerHolds'
    BY <1>2, <2>1, <2>2 DEF HandlerHolds
  <2>6. SlotHolds' /\ SlotFilled' /\ HolderTypes'
    BY <1>2, <2>1, <2>2, <2>3, <2>4 DEF SlotHolds, SlotFilled, HolderTypes
  <2>7. ReceiverHolds'
    BY <1>2, <1>3, <2>1, <2>2, <2>4 DEF ReceiverHolds
  <2> QED
    BY <1>3, <2>1, <2>3, <2>5, <2>6, <2>7 DEF HolderOK, Next
<1>9. CASE MarkFull
  <2>1. /\ UNCHANGED <<vars, coembxin, cyclic, rpc, rmbx>>
        /\ pc = "stored" /\ pc' = "cycle" /\ coembxinfull' = TRUE
    BY <1>9 DEF MarkFull, receiverVars
  <2>2. ~ coembxinfull /\ coembxin \in Items /\ cyclic
    BY <1>2, <2>1 DEF SlotFilled
  <2>3. \A r \in Receivers : rpc[r] \notin {"take", "enable", "clear"}
    BY <1>2, <2>2 DEF ReceiverHolds
  <2>4. HandlerHolds' /\ SlotHolds' /\ SlotFilled' /\ HolderTypes'
    BY <1>2, <2>1, <2>2, <2>3
       DEF HandlerHolds, SlotHolds, SlotFilled, HolderTypes, vars
  <2>5. ReceiverHolds'
    BY <1>2, <2>1, <2>3 DEF ReceiverHolds, vars
  <2> QED
    BY <2>1, <2>4, <2>5 DEF HolderOK
<1>10. CASE DropMailbox
  <2>1. /\ UNCHANGED <<coembxin, coembxinfull, cyclic, rpc, rmbx>>
        /\ pc = "drop" /\ pc' = "cycle" /\ DropMbx("handler", mbx)
    BY <1>10 DEF DropMailbox, receiverVars
  <2>2. /\ owned'["handler"] = owned["handler"] \ {mbx}
        /\ \A w \in Users \ {"handler"} : owned'[w] = owned[w]
    BY <1>1, <1>3, <2>1, OwnedChanges
  <2>3. HandlerHolds' /\ mbx \in Items
    BY <1>2, <2>1, <2>2 DEF HandlerHolds, InTypes
  <2>4. HolderTypes' /\ SlotHolds' /\ SlotFilled'
    BY <1>2, <1>3, <2>1, <2>2 DEF HolderTypes, SlotHolds, SlotFilled
  <2>5. ReceiverHolds'
    BY <1>2, <1>3, <2>1, <2>2 DEF ReceiverHolds
  <2> QED
    BY <1>3, <2>1, <2>3, <2>4, <2>5 DEF HolderOK, Next
<1>11. Dispatch => \/ Dispatch /\ (DispatchError \/ DispatchOverrun)
                   \/ Dispatch /\ DispatchCoE
  BY DEF Dispatch
<1> QED
  BY <1>4, <1>5, <1>6, <1>7, <1>8, <1>9, <1>10, <1>11 DEF Handler

LEMMA ReceiverHolder ==
  ASSUME OneReceiver, InTypes, HolderOK, NEW r \in Receivers, Receiver(r)
  PROVE  HolderOK' /\ [Next]_vars
<1>1. PoolTypes
  BY DEF InTypes
<1>2. HolderTypes /\ HandlerHolds /\ SlotHolds /\ SlotFilled
      /\ ReceiverHolds
  BY DEF HolderOK
<1>3. "handler" \in Users /\ "coembxin" \in Users /\ r \in Users
      /\ "handler" # "coembxin" /\ r # "handler" /\ r # "coembxin"
  BY UsersDiffer
<1>4. Receivers = {r}
  BY DEF OneReceiver
<1>5. /\ owned[r] = IF rpc[r] \in {"enable", "clear", "use"} THEN {rmbx[r]}
                                                              ELSE {}
      /\ rpc[r] \in {"take", "enable", "clear"} => coembxinfull
      /\ rpc[r] = "enable" => rmbx[r] = coembxin
      /\ coembxinfull => cyclic /\ pc # "stored"
      /\ coembxin \in Items => pc = "stored" \/ coembxinfull
  BY <1>2 DEF ReceiverHolds, SlotFilled
<1>6. CASE SeeFull(r)
  <2>1. /\ UNCHANGED <<vars, coembxin, coembxinfull, cyclic, pc, mbx, rmbx>>
        /\ coembxinfull /\ rpc[r] = "wait"
        /\ rpc' = [rpc EXCEPT ![r] = "take"]
    BY <1>6 DEF SeeFull, handlerVars
  <2>2. rpc'[r] = "take" /\ HolderTypes'
    BY <1>2, <2>1 DEF HolderTypes
  <2>3. HandlerHolds' /\ SlotHolds' /\ SlotFilled' /\ ReceiverHolds'
    BY <1>2, <1>4, <1>5, <2>1, <2>2
       DEF HandlerHolds, SlotHolds, SlotFilled, ReceiverHolds, vars
  <2> QED
    BY <2>1, <2>2, <2>3 DEF HolderOK
<1>7. CASE TakePointer(r)
  <2>1. /\ UNCHANGED <<coembxin, coembxinfull, cyclic, pc, mbx>>
        /\ UNCHANGED <<emptylist, listhead, listtail, listcount>>
        /\ rpc[r] = "take" /\ rpc' = [rpc EXCEPT ![r] = "enable"]
        /\ rmbx' = [rmbx EXCEPT ![r] = coembxin]
        /\ owned' = [owned EXCEPT ![r] = @ \cup ({coembxin} \cap Items),
                                  !["coembxin"] = {}]
    BY <1>7 DEF TakePointer, handlerVars
  <2>2. coembxin \in Items /\ owned["coembxin"] = {coembxin}
        /\ owned[r] = {}
    BY <1>2, <1>4, <1>5, <2>1 DEF SlotFilled, SlotHolds
  <2>3. /\ owned'[r] = {coembxin} /\ owned'["coembxin"] = {}
        /\ \A w \in Users \ {r, "coembxin"} : owned'[w] = owned[w]
    BY <1>1, <1>3, <2>1, <2>2 DEF PoolTypes
  <2>4. rpc'[r] = "enable" /\ rmbx'[r] = coembxin /\ HolderTypes'
    BY <1>2, <2>1 DEF HolderTypes
  <2>5. HandlerHolds'
    BY <1>2, <1>3, <2>1, <2>3 DEF HandlerHolds
  <2>6. SlotHolds' /\ SlotFilled' /\ ReceiverHolds'
    BY <1>2, <1>4, <1>5, <2>1, <2>2, <2>3, <2>4
       DEF SlotHolds, SlotFilled, ReceiverHolds
  <2>7. HandOver("coembxin", r, coembxin)
    <3>1. [owned EXCEPT ![r] = @ \cup ({coembxin} \cap Items),
                        !["coembxin"] = {}]
            = [owned EXCEPT !["coembxin"] = @ \ {coembxin},
                            ![r] = @ \cup {coembxin}]
      BY <1>1, <1>3, <2>2 DEF PoolTypes
    <3> QED
      BY <1>3, <2>1, <2>2, <3>1 DEF HandOver
  <2> QED
    BY <1>3, <2>2, <2>4, <2>5, <2>6, <2>7 DEF HolderOK, Next
<1>8. CASE rpc[r] = "enable" /\ EnableSlot(r)
  <2>1. /\ UNCHANGED <<coembxinfull, cyclic, pc, mbx, rmbx>>
        /\ UNCHANGED <<emptylist, listhead, listtail, listcount>>
        /\ rpc[r] = "enable" /\ rpc' = [rpc EXCEPT ![r] = "clear"]
        /\ coembxin' = Enabled
        /\ owned' = [owned EXCEPT !["coembxin"] = {}]
    BY <1>8 DEF EnableSlot, ForgetPointer
  <2>2. owned["coembxin"] = {}
    BY <1>2, <2>1 DEF SlotHolds
  <2>3. owned' = owned
    BY <1>1, <1>3, <2>1, <2>2 DEF PoolTypes
  <2>4. rpc'[r] = "clear" /\ HolderTypes' /\ coembxin' \notin Items
    BY <1>2, <2>1, NoPointer DEF HolderTypes
  <2>5. HandlerHolds' /\ SlotHolds' /\ SlotFilled' /\ ReceiverHolds'
    BY <1>2, <1>4, <1>5, <2>1, <2>2, <2>3, <2>4
       DEF HandlerHolds, SlotHolds, SlotFilled, ReceiverHolds
  <2> QED
    BY <2>1, <2>3, <2>4, <2>5 DEF HolderOK, vars
<1>9. CASE rpc[r] = "clear" /\ EnableSlot(r)
  <2>1. /\ UNCHANGED <<vars, coembxin, cyclic, pc, mbx, rmbx>>
        /\ rpc[r] = "clear" /\ rpc' = [rpc EXCEPT ![r] = "use"]
        /\ coembxinfull' = FALSE
    BY <1>9 DEF EnableSlot, NotFull
  <2>2. rpc'[r] = "use" /\ HolderTypes' /\ coembxin \notin Items
        /\ pc # "stored"
    BY <1>2, <1>5, <2>1 DEF HolderTypes, SlotFilled
  <2>3. HandlerHolds' /\ SlotHolds' /\ SlotFilled' /\ ReceiverHolds'
    BY <1>2, <1>4, <1>5, <2>1, <2>2
       DEF HandlerHolds, SlotHolds, SlotFilled, ReceiverHolds, vars
  <2> QED
    BY <2>1, <2>2, <2>3 DEF HolderOK
<1>10. CASE UseMailbox(r)
  <2>1. /\ UNCHANGED <<coembxin, coembxinfull, cyclic, pc, mbx>>
        /\ rpc[r] = "use" /\ rpc' = [rpc EXCEPT ![r] = "wait"]
        /\ rmbx' = [rmbx EXCEPT ![r] = NoMbx]
        /\ DropMbx(r, rmbx[r])
    BY <1>10 DEF UseMailbox, handlerVars
  <2>2. /\ owned'[r] = owned[r] \ {rmbx[r]}
        /\ \A w \in Users \ {r} : owned'[w] = owned[w]
    BY <1>1, <1>3, <2>1, OwnedChanges
  <2>3. rpc'[r] = "wait" /\ HolderTypes' /\ rmbx[r] \in Items
    BY <1>1, <1>2, <1>3, <2>1 DEF HolderTypes, DropMbx, PoolTypes
  <2>4. HandlerHolds' /\ SlotHolds' /\ SlotFilled' /\ ReceiverHolds'
    BY <1>2, <1>3, <1>4, <1>5, <2>1, <2>2, <2>3
       DEF HandlerHolds, SlotHolds, SlotFilled, ReceiverHolds
  <2> QED
    BY <1>3, <2>1, <2>3, <2>4 DEF HolderOK, Next
<1> QED
  BY <1>6, <1>7, <1>8, <1>9, <1>10 DEF Receiver, EnableSlot

LEMMA OthersHolder ==
  ASSUME InTypes, HolderOK, Others
  PROVE  HolderOK' /\ [Next]_vars
<1>1. PoolTypes /\ HolderTypes /\ HandlerHolds /\ SlotHolds /\ SlotFilled
      /\ ReceiverHolds
  BY DEF InTypes, HolderOK
<1>2. "sender" \in Users /\ "handler" \in Users /\ "coembxin" \in Users
      /\ "handler" # "sender" /\ "coembxin" # "sender"
      /\ Receivers \subseteq Users /\ (\A r \in Receivers : r # "sender")
  BY UsersDiffer
<1>3. UNCHANGED <<coembxin, coembxinfull, cyclic, pc, mbx, rpc, rmbx>>
  BY DEF Others, receiverVars
<1>4. UNCHANGED vars \/ GetMbx("sender")
      \/ \E m \in Items : DropMbx("sender", m)
  BY DEF Others
<1>5. \A w \in Users \ {"sender"} : owned'[w] = owned[w]
  <2>1. UNCHANGED vars => owned' = owned
    BY DEF vars
  <2> QED
    BY <1>1, <1>2, <1>4, <2>1, OwnedChanges
<1>6. HandlerHolds' /\ SlotHolds' /\ SlotFilled' /\ HolderTypes'
  BY <1>1, <1>2, <1>3, <1>5
     DEF HandlerHolds, SlotHolds, SlotFilled, HolderTypes
<1>7. ReceiverHolds'
  BY <1>1, <1>2, <1>3, <1>5 DEF ReceiverHolds
<1> QED
  BY <1>2, <1>4, <1>6, <1>7 DEF HolderOK, Next

LEMMA StepHolder ==
  ASSUME OneReceiver, InTypes, HolderOK, [MbxInNext]_inVars
  PROVE  HolderOK' /\ [Next]_vars
<1>1. CASE SlaveStep \/ Pushing \/ UNCHANGED inVars
  <2>1. UNCHANGED <<vars, coembxin, coembxinfull, cyclic, pc, mbx, rpc,
                    rmbx>>
    BY <1>1 DEF SlaveStep, Pushing, inVars, handlerVars, receiverVars
  <2>2. HolderOK'
    BY <2>1 DEF HolderOK, HolderTypes, HandlerHolds, SlotHolds, SlotFilled,
                ReceiverHolds, vars
  <2> QED
    BY <2>1, <2>2
<1> QED
  BY <1>1, HandlerHolder, ReceiverHolder, OthersHolder DEF MbxInNext

(* The handler, the slot and the thread that receives use the mailbox pool *)
(* as its users must: each takes, gives back or hands over what it holds.  *)
THEOREM HandlerUsesPool ==
  ASSUME OneReceiver
  PROVE  MbxInSpec => Spec
<1>1. MbxInInit => OrderInv /\ HolderOK /\ Init
  BY InitOrderInv, InitHolder DEF MbxInInit
<1>2. OrderInv /\ HolderOK /\ [MbxInNext]_inVars
        => OrderInv' /\ HolderOK' /\ [Next]_vars
  BY StepOrderInv, StepHolder DEF OrderInv
<1> QED
  BY <1>1, <1>2, PTL DEF MbxInSpec, Spec

(* So the free list stays consistent, no mailbox has two holders, and the  *)
(* pool implements the abstract one also while the handler works.          *)
THEOREM HandlerKeepsPool ==
  ASSUME OneReceiver
  PROVE  MbxInSpec => []RingConsistent /\ []OneHolder /\ RefinesPool
BY HandlerUsesPool, PoolIsConsistent, MbxHasOneHolder,
   PoolImplementsAbstract, PTL

-----------------------------------------------------------------------------
(* Where the CoE replies that were handled are.                            *)
InHand == UNION {owned[u] : u \in {"coembxin"} \cup Receivers}

Handled == {i \in DOMAIN dispatched : Messages[dispatched[i]] = "coe"}

DeliverTypes == overrun \in [Kinds -> Nat] /\ received \in Seq(Int)

CountOK ==
  Cardinality(Handled) = Len(received) + Cardinality(InHand) + overrun["coe"]

(* Those that wait are not newer than the last mailbox handled, and the    *)
(* one a receiver works on is not newer than the one in the slot.          *)
WaitingOK ==
  /\ \A m \in InHand : content[m] <= LastDone /\ Messages[content[m]] = "coe"
  /\ \A r \in Receivers : \A m \in owned[r], n \in owned["coembxin"] :
       content[m] <= content[n]

ReceivedOK ==
  /\ \A i \in DOMAIN received :
       received[i] <= LastDone /\ Messages[received[i]] = "coe"
  /\ \A i \in DOMAIN received, m \in InHand : received[i] <= content[m]
  /\ \A i, j \in DOMAIN received : i < j => received[i] <= received[j]

DeliverParts == DeliverTypes /\ CountOK /\ WaitingOK /\ ReceivedOK

DeliverInv == OrderInv /\ HolderOK /\ Inv /\ DeliverParts

LEMMA DeliverMeans == DeliverInv => DeliveredOrCounted
<1> SUFFICES ASSUME DeliverInv PROVE DeliveredOrCounted
  OBVIOUS
<1>1. Held = Cardinality(InHand)
  BY DEF Held, InHand
<1>2. Cardinality(Handled) = Len(received) + Held + overrun["coe"]
  BY <1>1 DEF DeliverInv, DeliverParts, CountOK
<1> QED
  BY <1>2 DEF DeliverInv, DeliverParts, ReceivedOK, DeliveredOrCounted,
              Handled

LEMMA InitDeliver == MbxInInit => DeliverInv
<1> SUFFICES ASSUME MbxInInit PROVE DeliverInv
  OBVIOUS
<1>1. OrderInv /\ HolderOK /\ Inv
  BY InitOrderInv, InitHolder, InitInv DEF MbxInInit
<1>2. /\ dispatched = <<>> /\ received = <<>>
      /\ overrun = [k \in Kinds |-> 0] /\ \A u \in Users : owned[u] = {}
  BY DEF MbxInInit, Init
<1>3. InHand = {} /\ Handled = {}
  BY <1>2, UsersDiffer DEF InHand, Handled
<1>4. overrun["coe"] = 0
  BY <1>2 DEF Kinds
<1>5. CountOK
  BY <1>2, <1>3, <1>4, FS_EmptySet DEF CountOK
<1>6. WaitingOK
  BY <1>2, <1>3, UsersDiffer DEF WaitingOK
<1>7. ReceivedOK /\ DeliverTypes
  BY <1>2 DEF ReceivedOK, DeliverTypes
<1> QED
  BY <1>1, <1>5, <1>6, <1>7 DEF DeliverInv, DeliverParts

LEMMA DeliverFacts ==
  ASSUME DeliverInv
  PROVE  /\ LastDone \in Nat /\ received \in Seq(Int)
         /\ overrun \in [Kinds -> Nat] /\ overrun["coe"] \in Nat
         /\ content \in [Items -> Int] /\ dispatched \in Seq(Nat)
         /\ owned \in [Users -> SUBSET Items]
         /\ InHand \subseteq Items /\ IsFiniteSet(InHand)
         /\ Cardinality(InHand) \in Nat
         /\ IsFiniteSet(Handled) /\ Cardinality(Handled) \in Nat
         /\ \A m \in owned["handler"] : m \notin InHand
<1>1. /\ received \in Seq(Int) /\ overrun \in [Kinds -> Nat]
      /\ content \in [Items -> Int] /\ dispatched \in Seq(Nat)
      /\ owned \in [Users -> SUBSET Items] /\ OneHolder
  BY DEF DeliverInv, DeliverParts, DeliverTypes, OrderInv, InTypes,
         PoolTypes, Inv
<1>2. LastDone \in Nat /\ overrun["coe"] \in Nat
  BY <1>1, LastDoneNat DEF Kinds
<1>3. InHand \subseteq Items
  BY <1>1, UsersDiffer DEF InHand
<1>4. IsFiniteSet(Items)
  BY FS_Interval, MbxPoolAssumption DEF Items
<1>5. IsFiniteSet(InHand) /\ Cardinality(InHand) \in Nat
  BY <1>3, <1>4, FS_Subset, FS_CardinalityType
<1>6. /\ IsFiniteSet(1 .. Len(dispatched))
      /\ Handled \subseteq 1 .. Len(dispatched)
  <2>1. Len(dispatched) \in Int /\ DOMAIN dispatched = 1 .. Len(dispatched)
    BY <1>1
  <2> QED
    BY <2>1, FS_Interval DEF Handled
<1>7. IsFiniteSet(Handled) /\ Cardinality(Handled) \in Nat
  BY <1>6, FS_Subset, FS_CardinalityType
<1>8. \A m \in owned["handler"] : m \notin InHand
  BY <1>1, UsersDiffer DEF InHand, OneHolder
<1> QED
  BY <1>1, <1>2, <1>3, <1>5, <1>7, <1>8

(* Steps at which no reply is handled or received.                         *)
LEMMA DeliverKept ==
  ASSUME DeliverInv, UNCHANGED <<dispatched, received>>,
         overrun' \in [Kinds -> Nat], overrun'["coe"] = overrun["coe"],
         InHand' = InHand,
         \A m \in InHand : content'[m] = content[m],
         \A r \in Receivers : \A m \in owned'[r], n \in owned'["coembxin"] :
           content'[m] <= content'[n]
  PROVE  DeliverParts'
<1>1. LastDone' = LastDone /\ Handled' = Handled
  BY DEF LastDone, Handled
<1>2. DeliverTypes' /\ CountOK'
  BY <1>1, DeliverFacts
     DEF DeliverTypes, CountOK, DeliverInv, DeliverParts
<1>3. WaitingOK' /\ ReceivedOK'
  BY <1>1 DEF WaitingOK, ReceivedOK, DeliverInv, DeliverParts
<1> QED
  BY <1>2, <1>3 DEF DeliverParts

LEMMA UntouchedDeliver ==
  ASSUME DeliverInv, UNCHANGED <<dispatched, received>>,
         overrun' \in [Kinds -> Nat], overrun'["coe"] = overrun["coe"],
         \A u \in {"coembxin"} \cup Receivers : owned'[u] = owned[u],
         \A m \in InHand : content'[m] = content[m]
  PROVE  DeliverParts'
<1>1. InHand' = InHand
  BY DEF InHand
<1>2. \A u \in {"coembxin"} \cup Receivers : owned[u] \subseteq InHand
  BY DEF InHand
<1>3. \A r \in Receivers : \A m \in owned'[r], n \in owned'["coembxin"] :
        content'[m] <= content'[n]
  BY <1>2 DEF DeliverInv, DeliverParts, WaitingOK
<1> QED
  BY <1>1, <1>3, DeliverKept

(* What Dispatch adds to the mailboxes handled.                            *)
LEMMA DispatchFacts ==
  ASSUME DeliverInv, Dispatch
  PROVE  /\ mbx \in Items /\ content[mbx] \in Nat /\ mbx \notin InHand
         /\ owned["handler"] = {mbx}
         /\ LastDone' = content[mbx] /\ LastDone <= content[mbx]
         /\ Cardinality(Handled)' = IF Kind = "coe"
                                    THEN Cardinality(Handled) + 1
                                    ELSE Cardinality(Handled)
<1>1. /\ pc = "dispatch" /\ dispatched' = Append(dispatched, content[mbx])
      /\ OrderInv
  BY DEF Dispatch, DeliverInv
<1>2. /\ mbx \in Items /\ content[mbx] = slave.last
      /\ content[mbx] \in Int /\ LastDone <= content[mbx]
      /\ LastDone \in Nat
  BY <1>1, OrderFacts DEF OrderInv, InTypes, ReadOK
<1>3. content[mbx] \in Nat /\ dispatched \in Seq(Nat)
  BY <1>1, <1>2 DEF OrderInv, InTypes
<1>4. PICK now \in Nat : now = content[mbx]
  BY <1>3
<1>5. owned["handler"] = {mbx} /\ mbx \notin InHand
  BY <1>1, DeliverFacts DEF DeliverInv, HolderOK, HandlerHolds
<1>6. LastDone' = content[mbx]
  BY <1>1, <1>3, <1>4 DEF LastDone
<1>7. PICK n \in Nat : n = Len(dispatched)
  BY <1>3
<1>8. /\ DOMAIN dispatched = 1 .. n /\ DOMAIN dispatched' = 1 .. n + 1
      /\ \A i \in 1 .. n : dispatched'[i] = dispatched[i]
      /\ dispatched'[n + 1] = now
  BY <1>1, <1>3, <1>4, <1>7
<1>9. Handled' = IF Kind = "coe" THEN Handled \cup {n + 1} ELSE Handled
  <2>1. Handled = {i \in 1 .. n : Messages[dispatched[i]] = "coe"}
    BY <1>8 DEF Handled
  <2>2. Handled' = {i \in 1 .. n + 1 : Messages[dispatched'[i]] = "coe"}
    BY <1>8 DEF Handled
  <2>3. 1 .. n + 1 = (1 .. n) \cup {n + 1}
    BY <1>7
  <2>4. Kind = Messages[now]
    BY <1>4 DEF Kind
  <2> QED
    BY <1>8, <2>1, <2>2, <2>3, <2>4
<1>10. n + 1 \notin Handled
  BY <1>7, <1>8 DEF Handled
<1>11. Cardinality(Handled \cup {n + 1}) = Cardinality(Handled) + 1
  BY <1>10, DeliverFacts, FS_AddElement
<1> QED
  BY <1>2, <1>3, <1>5, <1>6, <1>9, <1>11

(* The replies received are older than those handled from now on.          *)
LEMMA ReceivedKept ==
  ASSUME DeliverInv, UNCHANGED received, LastDone' \in Nat,
         LastDone <= LastDone',
         \A m \in InHand' : \/ m \in InHand /\ content'[m] = content[m]
                            \/ content'[m] = LastDone'
  PROVE  ReceivedOK'
<1>1. /\ received \in Seq(Int) /\ LastDone \in Nat
      /\ \A i \in DOMAIN received : received[i] \in Int
  BY DeliverFacts
<1>2. \A i \in DOMAIN received : received[i] <= LastDone'
  BY <1>1 DEF DeliverInv, DeliverParts, ReceivedOK
<1>3. \A i \in DOMAIN received, m \in InHand' : received[i] <= content'[m]
  BY <1>2 DEF DeliverInv, DeliverParts, ReceivedOK
<1> QED
  BY <1>2, <1>3 DEF DeliverInv, DeliverParts, ReceivedOK

LEMMA DispatchDeliver ==
  ASSUME DeliverInv, HolderOK', Dispatch
  PROVE  DeliverParts'
<1>1. /\ UNCHANGED <<received, content, rpc, rmbx>>
      /\ LastDone' = content[mbx] /\ LastDone <= content[mbx]
      /\ content[mbx] \in Nat /\ LastDone \in Nat
  BY DispatchFacts, DeliverFacts DEF Dispatch, receiverVars
<1>2. InHand \subseteq Items /\ content \in [Items -> Int]
  BY DeliverFacts
<1>3. /\ \A m \in InHand : /\ content[m] <= LastDone
                           /\ Messages[content[m]] = "coe"
      /\ \A r \in Receivers : \A m \in owned[r], n \in owned["coembxin"] :
           content[m] <= content[n]
      /\ overrun \in [Kinds -> Nat] /\ received \in Seq(Int)
      /\ CountOK
  BY DEF DeliverInv, DeliverParts, WaitingOK, DeliverTypes
<1>4. \A m \in InHand : content[m] <= LastDone'
  BY <1>1, <1>2, <1>3
<1>5. CASE DispatchError \/ DispatchOverrun
  <2>1. owned' = owned
    BY <1>5 DEF DispatchError, DispatchOverrun, vars
  <2>2. InHand' = InHand
    BY <2>1 DEF InHand
  <2>3. /\ overrun' \in [Kinds -> Nat]
        /\ overrun'["coe"] = IF Kind = "coe" THEN overrun["coe"] + 1
                                             ELSE overrun["coe"]
    <3>1. CASE DispatchError
      BY <1>3, <3>1 DEF DispatchError
    <3>2. CASE DispatchOverrun
      <4>1. Kind \in Kinds
        BY <3>2 DEF DispatchOverrun, Kinds
      <4>2. overrun' = [overrun EXCEPT ![Kind] = overrun[Kind] + 1]
        BY <3>2 DEF DispatchOverrun
      <4> QED
        BY <1>3, <4>1, <4>2 DEF Kinds
    <3> QED
      BY <1>5, <3>1, <3>2
  <2>4. CountOK'
    BY <1>1, <1>3, <2>2, <2>3, DispatchFacts, DeliverFacts DEF CountOK
  <2>5. WaitingOK'
    BY <1>1, <1>3, <1>4, <2>1, <2>2 DEF WaitingOK
  <2>6. ReceivedOK'
    BY <1>1, <2>2, ReceivedKept
  <2> QED
    BY <1>1, <1>3, <2>3, <2>4, <2>5, <2>6 DEF DeliverParts, DeliverTypes
<1>6. CASE DispatchCoE
  <2>1. /\ overrun' = overrun /\ Kind = "coe" /\ coembxin' = mbx
        /\ ~ coembxinfull /\ HandOver("handler", "coembxin", mbx)
    BY <1>6 DEF DispatchCoE, SlotFree
  <2>2. /\ owned["coembxin"] = {} /\ owned'["coembxin"] = {mbx}
        /\ \A r \in Receivers : owned'[r] = owned[r]
    <3>1. coembxin \notin Items /\ owned["coembxin"] = {}
      BY <2>1 DEF Dispatch, DeliverInv, HolderOK, SlotFilled, SlotHolds
    <3>2. /\ owned'["coembxin"] = owned["coembxin"] \cup {mbx}
          /\ \A w \in Users \ {"handler", "coembxin"} : owned'[w] = owned[w]
      <4>1. PoolTypes
        BY DEF DeliverInv, OrderInv, InTypes
      <4>2. "handler" \in Users /\ "coembxin" \in Users
        BY UsersDiffer
      <4>3. HandOver("handler", "coembxin", mbx)
        BY <2>1
      <4> QED
        BY <4>1, <4>2, <4>3, OwnedChanges
    <3> QED
      BY <3>1, <3>2, UsersDiffer
  <2>3. InHand' = InHand \cup {mbx}
    BY <2>2 DEF InHand
  <2>4. Cardinality(InHand') = Cardinality(InHand) + 1
    BY <2>3, DispatchFacts, DeliverFacts, FS_AddElement
  <2>5. CountOK'
    BY <1>1, <1>3, <2>1, <2>4, DispatchFacts, DeliverFacts DEF CountOK
  <2>6. \A r \in Receivers : owned[r] \subseteq InHand
    BY DEF InHand
  <2>7. WaitingOK'
    BY <1>1, <1>3, <1>4, <2>1, <2>2, <2>3, <2>6 DEF WaitingOK, Kind
  <2>8. ReceivedOK'
    BY <1>1, <2>3, ReceivedKept
  <2> QED
    BY <1>1, <1>3, <2>1, <2>5, <2>7, <2>8 DEF DeliverParts, DeliverTypes
<1> QED
  BY <1>5, <1>6 DEF Dispatch

LEMMA ReceiverDeliver ==
  ASSUME OneReceiver, DeliverInv, NEW r \in Receivers, Receiver(r)
  PROVE  DeliverParts'
<1>1. Receivers = {r} /\ r \in Users /\ "coembxin" \in Users
      /\ r # "coembxin"
  BY UsersDiffer DEF OneReceiver
<1>2. UNCHANGED <<dispatched, content, overrun>>
  BY DEF Receiver, SeeFull, TakePointer, EnableSlot, UseMailbox, handlerVars
<1>3. /\ overrun \in [Kinds -> Nat] /\ received \in Seq(Int)
      /\ owned \in [Users -> SUBSET Items] /\ PoolTypes
      /\ WaitingOK /\ ReceivedOK /\ CountOK
      /\ SlotHolds /\ SlotFilled /\ ReceiverHolds /\ OneHolder
  BY DeliverFacts
     DEF DeliverInv, DeliverParts, HolderOK, Inv, OrderInv, InTypes
<1>4. InHand = owned["coembxin"] \cup owned[r]
      /\ InHand' = owned'["coembxin"] \cup owned'[r]
  BY <1>1 DEF InHand
<1>5. CASE SeeFull(r) \/ EnableSlot(r)
  <2>1. received' = received
    BY <1>5 DEF SeeFull, EnableSlot
  <2>2. owned'["coembxin"] = owned["coembxin"] /\ owned'[r] = owned[r]
    <3>1. CASE SeeFull(r) \/ rpc[r] # "enable"
      BY <1>5, <3>1 DEF SeeFull, EnableSlot, NotFull, ForgetPointer, vars,
                        SlotHolds, SlotFilled
    <3>2. CASE rpc[r] = "enable" /\ EnableSlot(r)
      <4>1. owned["coembxin"] = {}
        BY <1>3, <3>2 DEF SlotHolds
      <4>2. owned' = [owned EXCEPT !["coembxin"] = {}]
        BY <3>2 DEF EnableSlot, ForgetPointer
      <4> QED
        BY <1>1, <1>3, <4>1, <4>2
    <3> QED
      BY <1>5, <3>1, <3>2 DEF SeeFull
  <2> QED
    BY <1>1, <1>2, <1>3, <2>1, <2>2, UntouchedDeliver
<1>6. CASE TakePointer(r)
  <2>1. /\ received' = received /\ rpc[r] = "take"
        /\ owned' = [owned EXCEPT ![r] = @ \cup ({coembxin} \cap Items),
                                  !["coembxin"] = {}]
    BY <1>6 DEF TakePointer
  <2>2. owned["coembxin"] = {coembxin} \cap Items
    BY <1>1, <1>3, <2>1 DEF SlotHolds
  <2>3. /\ owned'[r] = owned[r] \cup ({coembxin} \cap Items)
        /\ owned'["coembxin"] = {}
    BY <1>1, <1>3, <2>1
  <2>4. InHand' = InHand
    BY <1>4, <2>2, <2>3
  <2> QED
    BY <1>1, <1>2, <1>3, <2>1, <2>3, <2>4, DeliverKept
<1>7. CASE UseMailbox(r)
  <2> DEFINE m == rmbx[r]
             now == content[rmbx[r]]
  <2>1. /\ rpc[r] = "use" /\ DropMbx(r, m)
        /\ received' = Append(received, now)
    BY <1>7 DEF UseMailbox
  <2>2. /\ owned'[r] = owned[r] \ {m} /\ owned[r] = {m}
        /\ owned'["coembxin"] = owned["coembxin"]
    BY <1>1, <1>3, <2>1, OwnedChanges DEF ReceiverHolds
  <2>3. m \notin owned["coembxin"] /\ m \in InHand
    BY <1>1, <1>3, <1>4, <2>2 DEF OneHolder
  <2>4. InHand' = InHand \ {m} /\ InHand' = owned["coembxin"]
    BY <1>4, <2>2, <2>3
  <2>5. Cardinality(InHand') = Cardinality(InHand) - 1
    <3>1. Cardinality(InHand \ {m}) = Cardinality(InHand) - 1
      <4>1. IsFiniteSet(InHand) /\ m \in InHand
        BY <2>3, DeliverFacts
      <4> HIDE DEF m
      <4> QED
        BY <4>1, FS_RemoveElement
    <3> QED
      BY <2>4, <3>1
  <2>6. LastDone' = LastDone /\ Handled' = Handled
    BY <1>2 DEF LastDone, Handled
  <2>7. now \in Int /\ now <= LastDone /\ Messages[now] = "coe"
    BY <1>3, <2>3, DeliverFacts DEF WaitingOK
  <2>8. PICK n \in Nat : n = Len(received)
    BY <1>3
  <2>9. /\ DOMAIN received = 1 .. n /\ DOMAIN received' = 1 .. n + 1
        /\ \A i \in 1 .. n : received'[i] = received[i]
        /\ received'[n + 1] = now /\ Len(received') = n + 1
        /\ received' \in Seq(Int)
    BY <1>3, <2>1, <2>7, <2>8
  <2>10. CountOK'
    <3>1. /\ Cardinality(Handled)' = Cardinality(Handled)
          /\ Cardinality(InHand)' = Cardinality(InHand) - 1
      BY <2>5, <2>6
    <3>2. overrun'["coe"] = overrun["coe"] /\ Len(received') = n + 1
      BY <1>2, <2>9
    <3>3. Cardinality(Handled) = n + Cardinality(InHand) + overrun["coe"]
      BY <1>3, <2>8 DEF CountOK
    <3>4. /\ Cardinality(InHand) \in Nat /\ Cardinality(Handled) \in Nat
          /\ overrun["coe"] \in Nat
      BY DeliverFacts
    <3> QED
      BY <3>1, <3>2, <3>3, <3>4 DEF CountOK
  <2>11. WaitingOK'
    BY <1>1, <1>2, <1>3, <2>2, <2>4, <2>6 DEF WaitingOK
  <2>12. ReceivedOK'
    <3>1. \A i \in 1 .. n : /\ received[i] <= LastDone
                            /\ Messages[received[i]] = "coe"
                            /\ received[i] <= now
                            /\ \A k \in InHand : received[i] <= content[k]
                            /\ \A j \in 1 .. n :
                                 i < j => received[i] <= received[j]
      BY <1>3, <2>3, <2>9 DEF ReceivedOK
    <3>2. \A k \in InHand' : now <= content[k]
      BY <1>3, <2>2, <2>4 DEF WaitingOK
    <3>3. \A i \in 1 .. n + 1 : i \in 1 .. n \/ i = n + 1
      BY <2>8
    <3>4. \A i \in DOMAIN received' :
            received'[i] <= LastDone' /\ Messages[received'[i]] = "coe"
      BY <2>6, <2>7, <2>9, <3>1, <3>3
    <3>5. \A i \in DOMAIN received', k \in InHand' :
            received'[i] <= content'[k]
      BY <1>2, <2>4, <2>9, <3>1, <3>2, <3>3
    <3>6. \A i, j \in DOMAIN received' :
            i < j => received'[i] <= received'[j]
      BY <2>7, <2>8, <2>9, <3>1, <3>3
    <3> QED
      BY <3>4, <3>5, <3>6 DEF ReceivedOK
  <2> QED
    BY <1>2, <1>3, <2>9, <2>10, <2>11, <2>12 DEF DeliverParts, DeliverTypes
<1> QED
  BY <1>5, <1>6, <1>7 DEF Receiver

LEMMA StepDeliver ==
  ASSUME OneReceiver, DeliverInv, [MbxInNext]_inVars
  PROVE  DeliverInv'
<1>1. OrderInv' /\ HolderOK' /\ [Next]_vars
  BY StepOrderInv, StepHolder DEF DeliverInv, OrderInv
<1>2. Inv'
  BY <1>1, StepInv DEF DeliverInv
<1>3. /\ overrun \in [Kinds -> Nat] /\ PoolTypes
      /\ \A m \in owned["handler"] : m \notin InHand
      /\ content \in [Items -> Int]
  BY DeliverFacts DEF DeliverInv, OrderInv, InTypes
<1>4. DeliverParts'
  <2>1. CASE SlaveStep \/ Pushing \/ UNCHANGED inVars
    <3>1. UNCHANGED <<dispatched, received, overrun, owned, content>>
      BY <2>1 DEF SlaveStep, Pushing, inVars, handlerVars, receiverVars, vars
    <3> QED
      BY <1>3, <3>1, UntouchedDeliver
  <2>2. CASE Others
    <3>1. UNCHANGED <<dispatched, received, overrun, content>>
      BY <2>2 DEF Others, receiverVars
    <3>2. \A w \in Users \ {"sender"} : owned'[w] = owned[w]
      <4>1. UNCHANGED vars => owned' = owned
        BY DEF vars
      <4> QED
        BY <1>3, <2>2, <4>1, UsersDiffer, OwnedChanges DEF Others
    <3> QED
      BY <1>3, <3>1, <3>2, UsersDiffer, UntouchedDeliver
  <2>3. CASE Dispatch
    BY <1>1, <2>3, DispatchDeliver
  <2>4. CASE /\ Handler
             /\ ~ Dispatch
    <3>1. UNCHANGED <<dispatched, received, overrun>>
      BY <2>4
         DEF Handler, slavembxcyclic, Exchange, RepeatMailbox, NothingRead,
             TakeMailbox, ReadMailbox, MarkFull, DropMailbox, receiverVars
    <3>2. UNCHANGED owned \/ GetMbx("handler") \/ DropMbx("handler", mbx)
      BY <2>4
         DEF Handler, slavembxcyclic, Exchange, RepeatMailbox, NothingRead,
             TakeMailbox, ReadMailbox, MarkFull, DropMailbox, vars
    <3>3. \A u \in {"coembxin"} \cup Receivers : owned'[u] = owned[u]
      BY <1>3, <3>2, UsersDiffer, OwnedChanges
    <3>4. \A m \in InHand : content'[m] = content[m]
      <4>1. CASE ReadMailbox
        <5>1. mbx \in owned["handler"]
          BY <4>1 DEF ReadMailbox, DeliverInv, HolderOK, HandlerHolds
        <5>2. \/ content' = content
              \/ content' = [content EXCEPT ![mbx] = slave.full]
          BY <4>1 DEF ReadMailbox, ReadLost
        <5>3. \A m \in InHand : m \in Items /\ m # mbx
          BY <1>3, <5>1, DeliverFacts
        <5> QED
          BY <1>3, <5>2, <5>3
      <4>2. CASE ~ ReadMailbox
        BY <2>4, <4>2
           DEF Handler, slavembxcyclic, Exchange, RepeatMailbox,
               NothingRead, TakeMailbox, MarkFull, DropMailbox
      <4> QED
        BY <4>1, <4>2
    <3> QED
      BY <1>3, <3>1, <3>3, <3>4, UntouchedDeliver
  <2>5. ASSUME NEW r \in Receivers, Receiver(r)
        PROVE  DeliverParts'
    BY <2>5, ReceiverDeliver
  <2> QED
    BY <2>1, <2>2, <2>3, <2>4, <2>5 DEF MbxInNext
<1> QED
  BY <1>1, <1>2, <1>4 DEF DeliverInv

(* Every CoE reply the handler has read ends with its receiver, waits in   *)
(* the slot, or is counted in coembxoverrun, and replies are received in   *)
(* their order: the slot of ecx_mbxinhandler and ecx_mbxreceive, which no  *)
(* mutex guards, for every pool, every list of messages and every loss.    *)
THEOREM RepliesAreDelivered ==
  ASSUME OneReceiver
  PROVE  MbxInSpec => []DeliveredOrCounted
BY InitDeliver, StepDeliver, DeliverMeans, PTL DEF MbxInSpec

=============================================================================
