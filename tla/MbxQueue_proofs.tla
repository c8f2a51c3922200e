-------------------------- MODULE MbxQueue_proofs --------------------------
(***************************************************************************)
(* Proofs about the transmit queue of the cyclic handler, for every number *)
(* of senders, mailboxes and slots, when no sender runs between the        *)
(* rotation of an entry and the handler's look at its mbxremove: every     *)
(* waiting sender's ticket leads to its own entry, no mailbox is lost or   *)
(* held twice, what is reported as sent was sent, and a request that was   *)
(* given up never reaches the slave after a later one.                     *)
(***************************************************************************)
EXTENDS MbxQueue, FiniteSetTheorems, FunctionTheorems, WellFoundedInduction,
        TLAPS

-----------------------------------------------------------------------------
(* How far slot l is behind the tail of the ring.                          *)
Dist(l) == IF l >= listtail THEN l - listtail ELSE l - listtail + QueueSize

EntryOf(s) == mbxticket[ticket[s]]
Request(s) == [who |-> s, old |-> FALSE]

(* The entries that are still to be written, those among them whose sender *)
(* has given up, and those that own a mailbox: while the handler is at     *)
(* "clear" the mailbox of its entry is back in the pool already.           *)
Waiting(l) == l \in Window /\ mbxstate[l] \in {"REQ", "FAIL"}
GivenUpEntry(l) == Waiting(l) /\ mbxremove[l]
Holds(l) == l \in Window /\ mbx[l] # None /\ ~ (hpc = "clear" /\ l = loc)

RingOK ==
  listhead = IF listtail + listcount < QueueSize THEN listtail + listcount
             ELSE listtail + listcount - QueueSize

(* What the handler has read is still so when it uses it, and the entry it *)
(* works on stays at the tail until the rotation.                          *)
HandlerOK ==
  /\ hpc = "fetch" => left <= listcount
  /\ hpc \notin {"idle", "fetch"} => left < listcount
  /\ hpc \in {"write", "return", "clear", "rotate", "drop"} => loc = listtail
  /\ hpc = "write" => Waiting(loc) /\ hmbx = mbx[loc]
  /\ hpc \in {"return", "clear"} =>
       hmbx # None /\ hmbx = mbx[loc] /\ mbxstate[loc] = "DONE"
  /\ hpc = "check" /\ mbxremove[loc] => loc = listtail
  /\ hpc = "drop" => mbxremove[loc]

(* An entry has a mailbox until it is written, and it is marked for        *)
(* removal exactly when no ticket leads to it.                             *)
EntriesOK ==
  /\ \A l \in Window : mbxstate[l] # "NONE"
  /\ \A l \in Window : mbxstate[l] \in {"REQ", "FAIL"} => mbx[l] # None
  /\ \A l \in Window : mbxstate[l] = "DONE" /\ mbx[l] # None =>
       hpc \in {"return", "clear"} /\ l = loc
  /\ \A l \in Slots : mbxremove[l] => l \in Window
  /\ \A l \in Window : mbxremove[l] <=> \A k \in Slots : mbxticket[k] # l

TicketsOK ==
  /\ \A s \in Senders : ticket[s] # None <=> pc[s] = "poll"
  /\ \A s \in Polling : mbxticket[ticket[s]] # None
  /\ \A s, t \in Polling : ticket[s] = ticket[t] => s = t
  /\ \A k \in Slots : mbxticket[k] # None =>
       mbxticket[k] \in Window /\ \E s \in Polling : ticket[s] = k
  /\ \A j, k \in Slots :
       mbxticket[j] = mbxticket[k] /\ mbxticket[k] # None => j = k

RequestsOK ==
  /\ \A s \in Senders : own[s] # None <=> pc[s] = "add"
  /\ \A s \in Senders : own[s] # None => content[own[s]] = Request(s)
  /\ \A s \in Polling :
       Waiting(EntryOf(s)) => content[mbx[EntryOf(s)]] = Request(s)
  /\ \A s \in Polling : mbxstate[EntryOf(s)] = "DONE" => s \in sent
  /\ ReportedIsSent

(* What a sender gave up lies before its next request, and as long as it   *)
(* is not written the next request is not sent.                            *)
OrderOK ==
  \A l \in Slots : GivenUpEntry(l) =>
    /\ content[mbx[l]].old
    /\ content[mbx[l]].who \in Senders \ sent
    /\ \A s \in Polling :
         content[mbx[l]].who = s => Dist(l) < Dist(EntryOf(s))

HoldingsOK ==
  /\ \A s, t \in Senders : own[s] # None /\ own[s] = own[t] => s = t
  /\ \A l, m \in Slots : Holds(l) /\ Holds(m) /\ mbx[l] = mbx[m] => l = m
  /\ \A s \in Senders : own[s] \notin pool
  /\ \A l \in Slots : Holds(l) => mbx[l] \notin pool
  /\ \A s \in Senders, l \in Slots : Holds(l) => mbx[l] # own[s]
  /\ \A b \in Mailboxes :
       \/ b \in pool
       \/ \E s \in Senders : own[s] = b
       \/ \E l \in Slots : Holds(l) /\ mbx[l] = b

Inv ==
  /\ TypeOK /\ RingOK /\ HandlerOK
  /\ EntriesOK /\ TicketsOK /\ RequestsOK /\ OrderOK /\ HoldingsOK

-----------------------------------------------------------------------------
(* The ring without modulo.                                                *)
LEMMA WindowIs ==
  ASSUME NEW t \in Slots, NEW c \in 0 .. QueueSize
  PROVE  {(t + i) % QueueSize : i \in 0 .. c - 1}
           = {l \in Slots :
                (IF l >= t THEN l - t ELSE l - t + QueueSize) < c}
<1> DEFINE d(l) == IF l >= t THEN l - t ELSE l - t + QueueSize
<1>1. /\ QueueSize \in Nat /\ 0 < QueueSize
      /\ t \in Int /\ 0 <= t /\ t < QueueSize
      /\ c \in Int /\ 0 <= c /\ c <= QueueSize
  BY MbxQueueAssumption DEF Slots
<1>2. ASSUME NEW i \in 0 .. QueueSize - 1
      PROVE  /\ (t + i) % QueueSize = IF t + i < QueueSize THEN t + i
                                      ELSE t + i - QueueSize
             /\ (t + i) % QueueSize \in Slots
             /\ d((t + i) % QueueSize) = i
  <2>1. CASE t + i < QueueSize
    <3>1. (t + i) % QueueSize = t + i
      BY <1>1, <2>1
    <3> QED
      BY <1>1, <2>1, <3>1 DEF Slots
  <2>2. CASE ~ (t + i < QueueSize)
    <3> DEFINE r == t + i - QueueSize
    <3>1. r \in Int /\ 0 <= r /\ r < QueueSize
      BY <1>1, <2>2
    <3>2. (r + QueueSize) % QueueSize = r
      BY <1>1, <3>1
    <3>3. r + QueueSize = t + i
      BY <1>1
    <3> QED
      BY <1>1, <2>2, <3>1, <3>2, <3>3 DEF Slots
  <2> QED
    BY <2>1, <2>2
<1>3. ASSUME NEW i \in 0 .. c - 1
      PROVE  /\ (t + i) % QueueSize \in Slots
             /\ d((t + i) % QueueSize) < c
  <2>1. i \in 0 .. QueueSize - 1 /\ i < c
    BY <1>1
  <2> QED
    BY <1>2, <2>1
<1>4. ASSUME NEW l \in Slots, d(l) < c
      PROVE  \E i \in 0 .. c - 1 : l = (t + i) % QueueSize
  <2>1. d(l) \in 0 .. c - 1 /\ d(l) \in 0 .. QueueSize - 1
    BY <1>1, <1>4 DEF Slots
  <2>2. (t + d(l)) % QueueSize = l
    <3> HIDE DEF d
    <3>1. (t + d(l)) % QueueSize = IF t + d(l) < QueueSize THEN t + d(l)
                                   ELSE t + d(l) - QueueSize
      BY <1>2, <2>1
    <3> QED
      BY <1>1, <3>1 DEF Slots, d
  <2> QED
    BY <2>1, <2>2
<1> HIDE DEF d
<1>5. {(t + i) % QueueSize : i \in 0 .. c - 1} = {l \in Slots : d(l) < c}
  BY <1>3, <1>4
<1> QED
  BY <1>5 DEF d

LEMMA WindowDist ==
  ASSUME TypeOK
  PROVE  Window = {l \in Slots : Dist(l) < listcount}
BY WindowIs DEF TypeOK, Window, Dist

(* The entry at the tail is the first one of the ring, and the slot at the *)
(* head is free unless the ring is full.                                   *)
LEMMA RingFacts ==
  ASSUME TypeOK, RingOK
  PROVE  /\ listcount > 0 => listtail \in Window
         /\ Dist(listtail) = 0
         /\ listcount < QueueSize => /\ listhead \notin Window
                                     /\ Dist(listhead) = listcount
         /\ listcount > 0 /\ listcount < QueueSize => listhead # listtail
         /\ listcount = QueueSize => listhead = listtail /\ Window = Slots
         /\ Window \subseteq Slots
         /\ Succ(listtail) \in Slots /\ Succ(listhead) \in Slots
         /\ \A l \in Slots : Dist(l) \in 0 .. QueueSize - 1
         /\ \A l \in Slots : Dist(l) = 0 => l = listtail
<1>1. /\ QueueSize \in Nat /\ 0 < QueueSize
      /\ listtail \in Int /\ 0 <= listtail /\ listtail < QueueSize
      /\ listhead \in Int /\ 0 <= listhead /\ listhead < QueueSize
      /\ listcount \in Int /\ 0 <= listcount /\ listcount <= QueueSize
      /\ Slots = 0 .. QueueSize - 1
  BY MbxQueueAssumption DEF TypeOK, Slots
<1>2. Window = {l \in Slots : Dist(l) < listcount}
  BY WindowDist
<1>3. \A l \in Slots : Dist(l) \in 0 .. QueueSize - 1
  BY <1>1 DEF Dist
<1>4. \A l \in Slots : Dist(l) = 0 <=> l = listtail
  BY <1>1 DEF Dist
<1>5. listcount < QueueSize => Dist(listhead) = listcount
  BY <1>1 DEF Dist, RingOK
<1>6. listcount = QueueSize => listhead = listtail
  BY <1>1 DEF RingOK
<1>7. listcount > 0 /\ listcount < QueueSize => listhead # listtail
  BY <1>1 DEF RingOK
<1>8. Succ(listtail) \in Slots /\ Succ(listhead) \in Slots
  BY <1>1 DEF Succ
<1>9. listtail \in Slots /\ listhead \in Slots
  BY <1>1
<1>10. listcount = QueueSize => Window = Slots
  BY <1>1, <1>2, <1>3
<1>11. listcount > 0 => listtail \in Window
  BY <1>1, <1>2, <1>4, <1>9
<1>12. listcount < QueueSize => listhead \notin Window
  BY <1>1, <1>2, <1>5
<1> QED
  BY <1>2, <1>3, <1>4, <1>5, <1>6, <1>7, <1>8, <1>9, <1>10, <1>11, <1>12

(* The ring after an entry was added, dropped or rotated.                  *)
LEMMA RingAdd ==
  ASSUME TypeOK, RingOK, TypeOK', listcount < QueueSize,
         listtail' = listtail, listcount' = listcount + 1,
         listhead' = Succ(listhead)
  PROVE  /\ RingOK'
         /\ Window' = Window \cup {listhead}
         /\ \A l \in Slots : Dist(l)' = Dist(l)
<1>1. Window' = {l \in Slots : Dist(l)' < listcount'}
  BY WindowIs DEF TypeOK, Window, Dist
<1>2. /\ QueueSize \in Nat /\ 0 < QueueSize
      /\ listtail \in Int /\ 0 <= listtail /\ listtail < QueueSize
      /\ listcount \in Int /\ 0 <= listcount
      /\ Slots = 0 .. QueueSize - 1
  BY MbxQueueAssumption DEF TypeOK, Slots
<1>3. \A l \in Slots : Dist(l)' = Dist(l) /\ Dist(l) \in Int
  BY <1>2 DEF Dist
<1>4. /\ listhead \in Slots
      /\ \A l \in Slots : Dist(l) = listcount <=> l = listhead
  BY <1>2 DEF Dist, RingOK
<1>5. RingOK'
  BY <1>2 DEF RingOK, Succ
<1> QED
  BY <1>1, <1>2, <1>3, <1>4, <1>5, WindowDist

LEMMA RingDrop ==
  ASSUME TypeOK, RingOK, TypeOK', listcount > 0,
         listtail' = Succ(listtail), listcount' = listcount - 1,
         listhead' = listhead
  PROVE  /\ RingOK'
         /\ Window' = Window \ {listtail}
         /\ \A l \in Slots \ {listtail} : Dist(l)' = Dist(l) - 1
<1>1. Window' = {l \in Slots : Dist(l)' < listcount'}
  BY WindowIs DEF TypeOK, Window, Dist
<1>2. /\ QueueSize \in Nat /\ 0 < QueueSize
      /\ listtail \in Int /\ 0 <= listtail /\ listtail < QueueSize
      /\ listcount \in Int /\ 0 < listcount /\ listcount <= QueueSize
      /\ Slots = 0 .. QueueSize - 1
  BY MbxQueueAssumption DEF TypeOK, Slots
<1>3. \A l \in Slots \ {listtail} : Dist(l)' = Dist(l) - 1 /\ Dist(l) \in Int
  BY <1>2 DEF Dist, Succ
<1>4. /\ listtail \in Slots /\ Dist(listtail) = 0
      /\ \A l \in Slots : l = listtail => Dist(l)' = QueueSize - 1
  BY <1>2 DEF Dist, Succ
<1>5. RingOK'
  BY <1>2 DEF RingOK, Succ
<1> QED
  BY <1>1, <1>2, <1>3, <1>4, <1>5, WindowDist

LEMMA RingRotate ==
  ASSUME TypeOK, RingOK, TypeOK', listcount > 0, listcount < QueueSize,
         listtail' = Succ(listtail), listcount' = listcount,
         listhead' = Succ(listhead)
  PROVE  /\ RingOK'
         /\ Window' = (Window \ {listtail}) \cup {listhead}
         /\ \A l \in Slots \ {listtail} : Dist(l)' = Dist(l) - 1
<1>1. Window' = {l \in Slots : Dist(l)' < listcount'}
  BY WindowIs DEF TypeOK, Window, Dist
<1>2. /\ QueueSize \in Nat /\ 0 < QueueSize
      /\ listtail \in Int /\ 0 <= listtail /\ listtail < QueueSize
      /\ listcount \in Int /\ 0 < listcount /\ listcount <= QueueSize
      /\ Slots = 0 .. QueueSize - 1
  BY MbxQueueAssumption DEF TypeOK, Slots
<1>3. \A l \in Slots \ {listtail} : Dist(l)' = Dist(l) - 1 /\ Dist(l) \in Int
  BY <1>2 DEF Dist, Succ
<1>4. /\ listtail \in Slots /\ Dist(listtail) = 0
      /\ \A l \in Slots : l = listtail => Dist(l)' = QueueSize - 1
  BY <1>2 DEF Dist, Succ
<1>5. /\ listhead \in Slots
      /\ \A l \in Slots : Dist(l) = listcount <=> l = listhead
  BY <1>2 DEF Dist, RingOK
<1>6. RingOK'
  BY <1>2 DEF RingOK, Succ
<1> QED
  BY <1>1, <1>2, <1>3, <1>4, <1>5, <1>6, WindowDist

LEMMA RingSame ==
  ASSUME UNCHANGED <<listhead, listtail, listcount>>
  PROVE  /\ Window' = Window
         /\ RingOK => RingOK'
         /\ \A l : Dist(l)' = Dist(l)
BY DEF Window, RingOK, Dist

-----------------------------------------------------------------------------
(* A non-empty set of naturals has a least element.                        *)
LEMMA LeastNat ==
  ASSUME NEW S \in SUBSET Nat, S # {}
  PROVE  \E k \in S : \A j \in S : k <= j
<1> DEFINE less == {p \in Nat \X Nat : p[1] < p[2]}
<1>1. OpToRel(<, Nat) = less
  BY Zenon DEF OpToRel
<1>2. IsWellFoundedOn(less, Nat)
  BY <1>1, NatLessThanWellFounded, Zenon
<1> HIDE DEF less
<1>3. PICK k \in S : \A j \in S : <<j, k>> \notin less
  BY <1>2, WFMin, Zenon
<1>4. ASSUME NEW j \in S
      PROVE  k <= j
  <2>1. <<j, k>> \in less <=> j < k
    BY Zenon DEF less
  <2> QED
    BY <1>3, <2>1
<1> QED
  BY <1>4

(* A queue with room has a ticket to give: every ticket in use leads to an *)
(* entry of its own, and the slot at the head is not one of them.          *)
LEMMA TicketIsFree ==
  ASSUME Inv, listcount < QueueSize
  PROVE  FreeTicket \in Slots /\ mbxticket[FreeTicket] = None
<1> DEFINE free == {k \in Slots : mbxticket[k] = None}
<1>1. free # {}
  <2> SUFFICES ASSUME \A k \in Slots : mbxticket[k] # None
               PROVE  FALSE
    OBVIOUS
  <2>1. mbxticket \in [Slots -> Slots]
    BY DEF Inv, TypeOK
  <2>2. \A j, k \in Slots : mbxticket[j] = mbxticket[k] => j = k
    BY DEF Inv, TicketsOK
  <2>3. mbxticket \in Injection(Slots, Slots)
    BY <2>1, <2>2 DEF Injection, IsInjective
  <2>4. IsFiniteSet(Slots)
    BY FS_Interval, MbxQueueAssumption DEF Slots
  <2>5. mbxticket \in Surjection(Slots, Slots)
    BY <2>3, <2>4, FS_Injection
  <2>6. PICK k \in Slots : mbxticket[k] = listhead
    BY <2>5 DEF Surjection, Inv, TypeOK
  <2>7. listhead \in Window
    BY <2>6 DEF Inv, TicketsOK
  <2> QED
    BY <2>7, RingFacts DEF Inv
<1>2. \E k \in free : \A j \in free : k <= j
  <2>1. free \in SUBSET Nat
    BY MbxQueueAssumption DEF Slots
  <2> HIDE DEF free
  <2> QED
    BY <1>1, <2>1, LeastNat
<1>3. \E k \in Slots : /\ mbxticket[k] = None
                       /\ \A j \in Slots : mbxticket[j] = None => k <= j
  BY <1>2
<1> QED
  BY <1>3 DEF FreeTicket

-----------------------------------------------------------------------------
LEMMA InitInv == Init => Inv
<1> SUFFICES ASSUME Init PROVE Inv
  OBVIOUS
<1>1. TypeOK
  BY MbxQueueAssumption DEF Init, TypeOK, Slots, States, Contents, Nothing
<1>2. RingOK
  BY MbxQueueAssumption DEF Init, RingOK
<1>3. Window = {} /\ Polling = {}
  BY <1>1, WindowDist DEF Init, Dist, Slots, Polling
<1>4. HandlerOK
  BY DEF Init, HandlerOK
<1>5. EntriesOK /\ TicketsOK
  BY <1>3 DEF Init, EntriesOK, TicketsOK
<1>6. RequestsOK
  BY <1>3 DEF Init, RequestsOK, ReportedIsSent
<1>7. OrderOK
  BY DEF Init, OrderOK, GivenUpEntry
<1>8. HoldingsOK
  BY <1>3, MbxQueueAssumption DEF Init, HoldingsOK, Holds
<1> QED
  BY <1>1, <1>2, <1>4, <1>5, <1>6, <1>7, <1>8 DEF Inv

-----------------------------------------------------------------------------
(* An entry that is still to be written owns its mailbox.                  *)
LEMMA WaitingHolds ==
  ASSUME Inv, NEW l \in Slots, Waiting(l)
  PROVE  Holds(l)
BY DEF Inv, Waiting, Holds, HandlerOK, EntriesOK

(* The ticket of a waiting sender and its entry; an entry that is not      *)
(* marked has a sender that waits for it.                                  *)
LEMMA PollingEntry ==
  ASSUME Inv, NEW s \in Polling
  PROVE  /\ s \in Senders /\ pc[s] = "poll"
         /\ ticket[s] \in Slots /\ mbxticket[ticket[s]] = EntryOf(s)
         /\ EntryOf(s) \in Slots /\ EntryOf(s) \in Window
         /\ ~ mbxremove[EntryOf(s)]
         /\ \A t \in Polling : t # s => /\ ticket[t] # ticket[s]
                                        /\ EntryOf(t) # EntryOf(s)
<1>1. s \in Senders /\ pc[s] = "poll"
  BY DEF Polling
<1>2. ticket[s] \in Slots
  BY <1>1 DEF Inv, TypeOK, TicketsOK
<1>3. EntryOf(s) \in Slots /\ EntryOf(s) \in Window
  BY <1>2 DEF Inv, TypeOK, TicketsOK, EntryOf
<1>4. ~ mbxremove[EntryOf(s)]
  BY <1>2, <1>3 DEF Inv, EntriesOK, EntryOf
<1>5. ASSUME NEW t \in Polling, t # s
      PROVE  ticket[t] # ticket[s] /\ EntryOf(t) # EntryOf(s)
  <2>1. t \in Senders /\ pc[t] = "poll"
    BY DEF Polling
  <2>2. ticket[t] \in Slots
    BY <2>1 DEF Inv, TypeOK, TicketsOK
  <2> QED
    BY <1>2, <1>5, <2>2 DEF Inv, TicketsOK, EntryOf
<1> QED
  BY <1>1, <1>2, <1>3, <1>4, <1>5 DEF EntryOf

LEMMA EntrySender ==
  ASSUME Inv, NEW l \in Window, ~ mbxremove[l]
  PROVE  \E s \in Polling : EntryOf(s) = l
<1>1. PICK k \in Slots : mbxticket[k] = l
  BY DEF Inv, EntriesOK
<1>2. l # None
  BY RingFacts, MbxQueueAssumption DEF Inv, Slots, None
<1> QED
  BY <1>1, <1>2 DEF Inv, TicketsOK, EntryOf

LEMMA PrepareInv ==
  ASSUME Inv, NEW s \in Senders, Prepare(s)
  PROVE  Inv'
<1> USE DEF Inv
<1>1. PICK b \in pool :
        /\ pool' = pool \ {b}
        /\ own' = [own EXCEPT ![s] = b]
        /\ content' = [content EXCEPT ![b] = Request(s)]
  BY DEF Prepare, Request
<1>2. /\ pc[s] = "idle" /\ pc' = [pc EXCEPT ![s] = "add"]
      /\ UNCHANGED <<queue, sent, ticket, handler>>
  BY DEF Prepare, Goto
<1>3. TypeOK'
  BY <1>1, <1>2 DEF TypeOK, queue, handler, Contents, Request
<1>4. RingOK' /\ Window' = Window /\ \A l : Dist(l)' = Dist(l)
  BY <1>2, RingSame DEF queue
<1>5. Polling' = Polling
  BY <1>2 DEF Polling, TypeOK
<1>6. HandlerOK'
  BY <1>2, <1>4 DEF HandlerOK, Waiting, queue, handler
<1>7. EntriesOK' /\ TicketsOK'
  BY <1>2, <1>4, <1>5 DEF EntriesOK, TicketsOK, queue, handler, TypeOK
<1>8. \A l \in Slots : /\ Holds(l)' <=> Holds(l)
                       /\ Waiting(l)' <=> Waiting(l)
                       /\ Waiting(l) => Holds(l) /\ mbx[l] # b
                       /\ Holds(l) => mbx[l] # b
  <2>1. \A l \in Slots : /\ Holds(l)' <=> Holds(l)
                         /\ Waiting(l)' <=> Waiting(l)
    BY <1>2, <1>4 DEF Holds, Waiting, queue, handler
  <2>2. \A l \in Slots : Waiting(l) => Holds(l)
    BY WaitingHolds
  <2>3. \A l \in Slots : Holds(l) => mbx[l] # b
    BY DEF HoldingsOK
  <2> QED
    BY <2>1, <2>2, <2>3
<1>9. RequestsOK'
  <2>1. \A t \in Senders : own'[t] = IF t = s THEN b ELSE own[t]
    BY <1>1 DEF TypeOK
  <2>2. \A c \in Mailboxes : content'[c] = IF c = b THEN Request(s)
                                           ELSE content[c]
    BY <1>1 DEF TypeOK
  <2>3. \A t \in Senders : pc'[t] = IF t = s THEN "add" ELSE pc[t]
    BY <1>2 DEF TypeOK
  <2>4. b \in Mailboxes /\ b # None
    BY MbxQueueAssumption DEF TypeOK
  <2>5. \A t \in Senders : own'[t] # None <=> pc'[t] = "add"
    BY <2>1, <2>3, <2>4 DEF RequestsOK
  <2>6. \A t \in Senders : own'[t] # None => content'[own'[t]] = Request(t)
    <3> TAKE t \in Senders
    <3>1. own[t] # b
      BY DEF HoldingsOK
    <3> QED
      BY <2>1, <2>2, <2>4, <3>1 DEF RequestsOK, TypeOK
  <2>7. \A t \in Polling :
          /\ EntryOf(t) \in Slots /\ EntryOf(t)' = EntryOf(t)
          /\ Waiting(EntryOf(t)) => mbx[EntryOf(t)] \in Mailboxes \ {b}
    BY <1>2, <1>8 DEF EntryOf, Polling, TicketsOK, TypeOK, queue, Waiting,
       EntriesOK
  <2>8. \A t \in Polling' : Waiting(EntryOf(t))' =>
          content'[mbx'[EntryOf(t)']] = Request(t)
    BY <1>2, <1>5, <1>8, <2>2, <2>7 DEF RequestsOK, queue, Polling
  <2>9. \A t \in Polling' : mbxstate'[EntryOf(t)'] = "DONE" => t \in sent'
    BY <1>2, <1>5, <2>7 DEF RequestsOK, queue
  <2>10. ReportedIsSent'
    BY <1>2, <2>3 DEF RequestsOK, ReportedIsSent
  <2> QED
    BY <2>5, <2>6, <2>8, <2>9, <2>10 DEF RequestsOK, Request
<1>10. OrderOK'
  BY <1>1, <1>2, <1>4, <1>5, <1>8
  DEF OrderOK, GivenUpEntry, EntryOf, TypeOK, queue, TicketsOK
<1>11. HoldingsOK'
  <2>1. \A t \in Senders : own'[t] = IF t = s THEN b ELSE own[t]
    BY <1>1 DEF TypeOK
  <2>2. b # None /\ mbx' = mbx
    BY <1>2, MbxQueueAssumption DEF queue, TypeOK
  <2>3. own[s] = None
    BY <1>2 DEF RequestsOK
  <2>4. \A c \in Mailboxes : \/ c \in pool'
                             \/ \E t \in Senders : own'[t] = c
                             \/ \E l \in Slots : Holds(l)' /\ mbx'[l] = c
    <3> TAKE c \in Mailboxes
    <3>1. c # None
      BY MbxQueueAssumption
    <3>2. CASE c \in pool
      BY <1>1, <2>1, <3>2
    <3>3. CASE \E t \in Senders : own[t] = c
      BY <2>1, <2>3, <3>1, <3>3
    <3>4. CASE \E l \in Slots : Holds(l) /\ mbx[l] = c
      BY <1>8, <2>2, <3>4
    <3> QED
      BY <3>2, <3>3, <3>4 DEF HoldingsOK
  <2> QED
    BY <1>1, <1>8, <2>1, <2>2, <2>4 DEF HoldingsOK
<1> QED
  BY <1>3, <1>4, <1>6, <1>7, <1>9, <1>10, <1>11

LEMMA ReturnInv ==
  ASSUME Inv, NEW s \in Senders, Return(s)
  PROVE  Inv'
<1> USE DEF Inv
<1>1. /\ pc[s] \in {"ok", "failed"} /\ pc' = [pc EXCEPT ![s] = "idle"]
      /\ sent' = sent \ {s}
      /\ UNCHANGED <<queue, pool, content, ticket, own, handler>>
  BY DEF Return, Goto
<1>2. TypeOK'
  BY <1>1 DEF TypeOK, queue, handler
<1>3. RingOK' /\ Window' = Window /\ \A l : Dist(l)' = Dist(l)
  BY <1>1, RingSame DEF queue
<1>4. Polling' = Polling /\ s \notin Polling
  BY <1>1 DEF Polling, TypeOK
<1>5. HandlerOK'
  BY <1>1, <1>3 DEF HandlerOK, Waiting, queue, handler
<1>6. EntriesOK' /\ TicketsOK'
  BY <1>1, <1>3, <1>4 DEF EntriesOK, TicketsOK, queue, handler, TypeOK
<1>7. RequestsOK'
  BY <1>1, <1>3, <1>4
  DEF RequestsOK, ReportedIsSent, EntryOf, Waiting, TypeOK, queue
<1>8. OrderOK'
  BY <1>1, <1>3, <1>4 DEF OrderOK, GivenUpEntry, Waiting, EntryOf, queue
<1>9. HoldingsOK'
  BY <1>1, <1>3 DEF HoldingsOK, Holds, queue, handler
<1> QED
  BY <1>2, <1>3, <1>5, <1>6, <1>7, <1>8, <1>9

LEMMA GiveBackInv ==
  ASSUME Inv, NEW s \in Senders, GiveBack(s)
  PROVE  Inv'
<1> USE DEF Inv
<1> DEFINE b == own[s]
<1>1. /\ pc[s] = "add" /\ pc' = [pc EXCEPT ![s] = "failed"]
      /\ pool' = pool \cup {b}
      /\ content' = [content EXCEPT ![b] = Nothing]
      /\ own' = [own EXCEPT ![s] = None]
      /\ UNCHANGED <<queue, sent, ticket, handler>>
  BY DEF GiveBack, Goto
<1>2. b \in Mailboxes /\ b # None
  BY <1>1 DEF TypeOK, RequestsOK
<1>3. TypeOK'
  BY <1>1, <1>2 DEF TypeOK, queue, handler, Contents
<1>4. RingOK' /\ Window' = Window /\ \A l : Dist(l)' = Dist(l)
  BY <1>1, RingSame DEF queue
<1>5. Polling' = Polling
  BY <1>1 DEF Polling, TypeOK
<1>6. HandlerOK'
  BY <1>1, <1>4 DEF HandlerOK, Waiting, queue, handler
<1>7. EntriesOK' /\ TicketsOK'
  BY <1>1, <1>4, <1>5 DEF EntriesOK, TicketsOK, queue, handler, TypeOK
<1>8. \A l \in Slots : /\ Holds(l)' <=> Holds(l)
                       /\ Waiting(l)' <=> Waiting(l)
                       /\ Holds(l) => mbx[l] # b
                       /\ Waiting(l) =>
                            Holds(l) /\ mbx[l] # b /\ mbx[l] \in Mailboxes
  <2>1. \A l \in Slots : /\ Holds(l)' <=> Holds(l)
                         /\ Waiting(l)' <=> Waiting(l)
    BY <1>1, <1>4 DEF Holds, Waiting, queue, handler
  <2>2. \A l \in Slots : Waiting(l) => Holds(l)
    BY WaitingHolds
  <2>3. \A l \in Slots : Holds(l) => mbx[l] # b /\ mbx[l] \in Mailboxes
    BY DEF HoldingsOK, Holds, TypeOK
  <2> QED
    BY <2>1, <2>2, <2>3
<1>9. \A t \in Senders : own'[t] = IF t = s THEN None ELSE own[t]
  BY <1>1 DEF TypeOK
<1>10. \A c \in Mailboxes : content'[c] = IF c = b THEN Nothing ELSE content[c]
  BY <1>1 DEF TypeOK
<1>11. RequestsOK'
  <2>1. \A t \in Senders : pc'[t] = IF t = s THEN "failed" ELSE pc[t]
    BY <1>1 DEF TypeOK
  <2>2. \A t \in Senders : own'[t] # None <=> pc'[t] = "add"
    BY <1>9, <2>1 DEF RequestsOK
  <2>3. \A t \in Senders : own'[t] # None => content'[own'[t]] = Request(t)
    BY <1>2, <1>9, <1>10 DEF RequestsOK, HoldingsOK, TypeOK
  <2>4. \A t \in Polling : EntryOf(t) \in Slots /\ EntryOf(t)' = EntryOf(t)
    BY <1>1, PollingEntry DEF EntryOf, queue
  <2>5. \A t \in Polling' : Waiting(EntryOf(t))' =>
          content'[mbx'[EntryOf(t)']] = Request(t)
    BY <1>1, <1>5, <1>8, <1>10, <2>4 DEF RequestsOK, queue
  <2>6. \A t \in Polling' : mbxstate'[EntryOf(t)'] = "DONE" => t \in sent'
    BY <1>1, <1>5, <2>4 DEF RequestsOK, queue
  <2>7. ReportedIsSent'
    BY <1>1, <2>1 DEF RequestsOK, ReportedIsSent
  <2> QED
    BY <2>2, <2>3, <2>5, <2>6, <2>7 DEF RequestsOK, Request
<1>12. OrderOK'
  BY <1>1, <1>4, <1>5, <1>8, <1>10 DEF OrderOK, GivenUpEntry, EntryOf, queue
<1>13. HoldingsOK'
  <2>1. mbx' = mbx
    BY <1>1 DEF queue
  <2>2. \A c \in Mailboxes : \/ c \in pool'
                             \/ \E t \in Senders : own'[t] = c
                             \/ \E l \in Slots : Holds(l)' /\ mbx'[l] = c
    <3> TAKE c \in Mailboxes
    <3>1. CASE c \in pool \/ c = b
      BY <1>1, <3>1
    <3>2. CASE c # b /\ \E t \in Senders : own[t] = c
      BY <1>9, <3>2
    <3>3. CASE \E l \in Slots : Holds(l) /\ mbx[l] = c
      BY <1>8, <2>1, <3>3
    <3> QED
      BY <3>1, <3>2, <3>3 DEF HoldingsOK
  <2>3. None \notin Mailboxes
    BY MbxQueueAssumption
  <2>4. \A t \in Senders : own'[t] \notin pool'
    BY <1>1, <1>2, <1>9, <2>3 DEF HoldingsOK, TypeOK
  <2>5. \A t \in Senders, l \in Slots : Holds(l)' => mbx'[l] # own'[t]
    BY <1>8, <1>9, <2>1 DEF HoldingsOK, Holds
  <2>6. \A l \in Slots : Holds(l)' => mbx'[l] \notin pool'
    BY <1>1, <1>8, <2>1 DEF HoldingsOK
  <2>7. \A l, m \in Slots :
          Holds(l)' /\ Holds(m)' /\ mbx'[l] = mbx'[m] => l = m
    BY <1>8, <2>1 DEF HoldingsOK
  <2>8. \A t, u \in Senders : own'[t] # None /\ own'[t] = own'[u] => t = u
    BY <1>9 DEF HoldingsOK
  <2> QED
    BY <2>2, <2>4, <2>5, <2>6, <2>7, <2>8 DEF HoldingsOK
<1> QED
  BY <1>3, <1>4, <1>6, <1>7, <1>11, <1>12, <1>13

(* Looking at the queue without changing it.                               *)
LEMMA HandlerReadsInv ==
  ASSUME Inv, HandlerStart \/ HandlerFetch \/ WriteSkipped \/ CheckRemove
  PROVE  Inv'
<1> USE DEF Inv
<1>1. UNCHANGED <<queue, pool, content, sent, sender>>
  BY DEF HandlerStart, HandlerFetch, WriteSkipped, CheckRemove
<1>2. RingOK' /\ Window' = Window /\ \A l : Dist(l)' = Dist(l)
  BY <1>1, RingSame DEF queue
<1>3. hpc # "clear" /\ hpc' # "clear" /\ hpc # "return" /\ hpc' # "return"
  BY DEF HandlerStart, HandlerFetch, WriteSkipped, CheckRemove
<1>4. TypeOK'
  <2>1. UNCHANGED <<listhead, listtail, listcount, mbx, mbxstate, mbxremove,
                    mbxticket, pool, content, sent, pc, ticket, own>>
    BY <1>1 DEF queue, sender
  <2>2. CASE HandlerStart
    BY <2>1, <2>2, MbxQueueAssumption DEF HandlerStart, TypeOK
  <2>3. CASE HandlerFetch
    BY <2>1, <2>3, MbxQueueAssumption DEF HandlerFetch, TypeOK
  <2>4. CASE WriteSkipped
    BY <2>1, <2>4 DEF WriteSkipped, TypeOK
  <2>5. CASE CheckRemove
    BY <2>1, <2>5 DEF CheckRemove, TypeOK
  <2> QED
    BY <2>2, <2>3, <2>4, <2>5
<1>5. HandlerOK'
  <2>1. CASE HandlerStart
    BY <1>1, <2>1 DEF HandlerStart, HandlerOK, TypeOK, queue
  <2>2. CASE HandlerFetch
    <3>1. CASE left = 0 \/ limitcnt = Limit
      BY <1>1, <2>2, <3>1 DEF HandlerFetch, HandlerOK, TypeOK, queue
    <3>2. CASE ~ (left = 0 \/ limitcnt = Limit)
      <4>1. /\ left' = left - 1 /\ loc' = listtail
            /\ hmbx' = mbx[listtail] /\ hpc = "fetch"
            /\ hpc' = IF mbxstate[listtail] \in {"REQ", "FAIL"} THEN "write"
                      ELSE IF mbxstate[listtail] = "DONE" THEN "rotate"
                      ELSE "check"
        BY <2>2, <3>2 DEF HandlerFetch
      <4>2. left \in Nat /\ left > 0 /\ left <= listcount /\ listcount \in Nat
        BY <3>2, <4>1 DEF HandlerOK, TypeOK
      <4>3. listtail \in Window
        BY <4>2, RingFacts
      <4> QED
        BY <1>1, <1>2, <4>1, <4>2, <4>3 DEF HandlerOK, Waiting, queue
    <3> QED
      BY <3>1, <3>2
  <2>3. CASE WriteSkipped
    BY <1>1, <2>3 DEF WriteSkipped, HandlerOK, queue
  <2>4. CASE CheckRemove
    BY <1>1, <2>4 DEF CheckRemove, HandlerOK, TypeOK, queue
  <2> QED
    BY <2>1, <2>2, <2>3, <2>4
<1>6. EntriesOK' /\ TicketsOK'
  BY <1>1, <1>2, <1>3 DEF EntriesOK, TicketsOK, Polling, queue, sender
<1>7. RequestsOK'
  BY <1>1, <1>2 DEF RequestsOK, ReportedIsSent, EntryOf, Waiting, Polling,
                    queue, sender
<1>8. OrderOK'
  BY <1>1, <1>2 DEF OrderOK, GivenUpEntry, Waiting, EntryOf, Polling, queue,
                    sender
<1>9. HoldingsOK'
  BY <1>1, <1>2, <1>3 DEF HoldingsOK, Holds, queue, sender
<1> QED
  BY <1>2, <1>4, <1>5, <1>6, <1>7, <1>8, <1>9

LEMMA AddQueueInv ==
  ASSUME Inv, NEW s \in Senders, AddQueue(s), ~ Preempt
  PROVE  Inv'
<1> USE DEF Inv
<1> DEFINE k == FreeTicket
           b == own[s]
           l == listhead
<1>1. k \in Slots /\ mbxticket[k] = None
  BY TicketIsFree DEF AddQueue
<1> HIDE DEF k
<1>2. /\ pc[s] = "add" /\ pc' = [pc EXCEPT ![s] = "poll"]
      /\ hpc \notin {"check", "drop"} /\ listcount < QueueSize
      /\ ticket' = [ticket EXCEPT ![s] = k]
      /\ mbxticket' = [mbxticket EXCEPT ![k] = l]
      /\ mbx' = [mbx EXCEPT ![l] = b]
      /\ mbxstate' = [mbxstate EXCEPT ![l] = "REQ"]
      /\ mbxremove' = [mbxremove EXCEPT ![l] = FALSE]
      /\ listhead' = Succ(l) /\ listcount' = listcount + 1
      /\ own' = [own EXCEPT ![s] = None]
      /\ UNCHANGED <<listtail, pool, content, sent, handler>>
  BY DEF AddQueue, Goto, MayRun, k
<1>3. b \in Mailboxes /\ b # None /\ content[b] = Request(s) /\ b \notin pool
  BY <1>2 DEF TypeOK, RequestsOK, HoldingsOK
<1>4. l \in Slots /\ l \notin Window /\ Dist(l) = listcount /\ l # None
  BY <1>2, RingFacts, MbxQueueAssumption DEF TypeOK, Slots, None
<1>5. TypeOK'
  BY <1>1, <1>2, <1>3, <1>4, RingFacts, MbxQueueAssumption
  DEF TypeOK, handler, States
<1>6. /\ RingOK' /\ Window' = Window \cup {l}
      /\ \A m \in Slots : Dist(m)' = Dist(m)
  BY <1>2, <1>5, RingAdd
<1>7. Polling' = Polling \cup {s} /\ s \notin Polling
  BY <1>2 DEF Polling, TypeOK
<1>8. /\ \A m \in Slots : m # l => /\ mbx'[m] = mbx[m]
                                   /\ mbxstate'[m] = mbxstate[m]
                                   /\ mbxremove'[m] = mbxremove[m]
      /\ mbx'[l] = b /\ mbxstate'[l] = "REQ" /\ mbxremove'[l] = FALSE
      /\ \A j \in Slots : mbxticket'[j] = IF j = k THEN l ELSE mbxticket[j]
      /\ \A t \in Senders : /\ own'[t] = IF t = s THEN None ELSE own[t]
                            /\ ticket'[t] = IF t = s THEN k ELSE ticket[t]
                            /\ pc'[t] = IF t = s THEN "poll" ELSE pc[t]
  BY <1>1, <1>2, <1>4 DEF TypeOK
<1>9. \A t \in Polling : /\ ticket'[t] = ticket[t] /\ ticket[t] # k
                         /\ EntryOf(t)' = EntryOf(t)
                         /\ EntryOf(t) \in Slots /\ EntryOf(t) \in Window
                         /\ EntryOf(t) # l /\ t # s
  <2> TAKE t \in Polling
  <2>1. /\ t \in Senders /\ ticket[t] \in Slots /\ EntryOf(t) \in Slots
        /\ EntryOf(t) \in Window /\ mbxticket[ticket[t]] # None
    BY PollingEntry DEF TicketsOK
  <2>2. ticket[t] # k /\ t # s
    BY <1>1, <1>7, <2>1
  <2> QED
    BY <1>4, <1>8, <2>1, <2>2 DEF EntryOf
<1>10. EntryOf(s)' = l /\ ticket'[s] = k
  BY <1>1, <1>8 DEF EntryOf
<1>11. hpc \in {"write", "return", "clear", "rotate"} =>
         loc \in Window /\ loc # l
  <2>1. hpc \in {"write", "return", "clear", "rotate"} =>
          loc = listtail /\ left < listcount
    BY DEF HandlerOK
  <2> QED
    BY <1>4, <2>1, RingFacts DEF TypeOK
<1>12. HandlerOK'
  <2>1. hpc' = hpc /\ loc' = loc /\ hmbx' = hmbx /\ left' = left
    BY <1>2 DEF handler
  <2> QED
    BY <1>2, <1>6, <1>8, <1>11, <2>1 DEF HandlerOK, Waiting, TypeOK
<1>13. EntriesOK'
  <2>1. hpc' = hpc /\ loc' = loc
    BY <1>2 DEF handler
  <2>2. \A m \in Window : m \in Slots /\ m # l
    BY <1>4, RingFacts
  <2>3. ASSUME NEW m \in Window
        PROVE  mbxremove'[m] <=> \A j \in Slots : mbxticket'[j] # m
    <3>1. m \in Slots /\ m # l /\ mbxticket[k] # m
      BY <1>1, <2>2, MbxQueueAssumption DEF Slots, None
    <3>2. \A j \in Slots : mbxticket'[j] = m <=> mbxticket[j] = m
      BY <1>8, <3>1
    <3>3. mbxremove'[m] = mbxremove[m]
      BY <1>8, <3>1
    <3> QED
      BY <3>2, <3>3 DEF EntriesOK
  <2>4. mbxremove'[l] <=> \A j \in Slots : mbxticket'[j] # l
    BY <1>1, <1>8
  <2> QED
    BY <1>3, <1>6, <1>8, <2>1, <2>2, <2>3, <2>4 DEF EntriesOK
<1>14. TicketsOK'
  <2>1. \A t \in Senders : ticket'[t] # None <=> pc'[t] = "poll"
    <3>1. k # None
      BY <1>1, MbxQueueAssumption DEF Slots, None
    <3> QED
      BY <1>8, <3>1 DEF TicketsOK
  <2>2. \A t \in Polling' : mbxticket'[ticket'[t]] # None
    <3>1. \A t \in Polling : mbxticket'[ticket'[t]] # None
      BY <1>8, <1>9, PollingEntry DEF TicketsOK
    <3> QED
      BY <1>1, <1>4, <1>7, <1>8, <1>10, <3>1
  <2>3. \A t, u \in Polling' : ticket'[t] = ticket'[u] => t = u
    BY <1>7, <1>9, <1>10 DEF TicketsOK
  <2>4. ASSUME NEW j \in Slots, mbxticket'[j] # None
        PROVE  mbxticket'[j] \in Window' /\ \E t \in Polling' : ticket'[t] = j
    <3>1. CASE j = k
      BY <1>6, <1>7, <1>8, <1>10, <3>1
    <3>2. CASE j # k
      BY <1>6, <1>7, <1>8, <1>9, <2>4, <3>2 DEF TicketsOK
    <3> QED
      BY <3>1, <3>2
  <2>5. \A i, j \in Slots :
          mbxticket'[i] = mbxticket'[j] /\ mbxticket'[j] # None => i = j
    BY <1>4, <1>8 DEF TicketsOK
  <2> QED
    BY <2>1, <2>2, <2>3, <2>4, <2>5 DEF TicketsOK
<1>15. \A m \in Slots : /\ m # l => /\ Holds(m)' <=> Holds(m)
                                    /\ Waiting(m)' <=> Waiting(m)
                        /\ m = l => ~ Holds(m) /\ Holds(m)'
  <2>1. hpc' = hpc /\ loc' = loc
    BY <1>2 DEF handler
  <2> QED
    BY <1>3, <1>4, <1>6, <1>8, <1>11, <2>1 DEF Holds, Waiting
<1>16. RequestsOK'
  <2>1. content' = content /\ sent' = sent
    BY <1>2
  <2>2. \A t \in Senders : own'[t] # None <=> pc'[t] = "add"
    BY <1>8 DEF RequestsOK
  <2>3. \A t \in Senders : own'[t] # None => content'[own'[t]] = Request(t)
    BY <1>8, <2>1 DEF RequestsOK
  <2>4. \A t \in Polling' : Waiting(EntryOf(t))' =>
          content'[mbx'[EntryOf(t)']] = Request(t)
    BY <1>3, <1>7, <1>8, <1>9, <1>10, <1>15, <2>1 DEF RequestsOK
  <2>5. \A t \in Polling' : mbxstate'[EntryOf(t)'] = "DONE" => t \in sent'
    BY <1>7, <1>8, <1>9, <1>10, <2>1 DEF RequestsOK
  <2>6. ReportedIsSent'
    BY <1>8, <2>1 DEF RequestsOK, ReportedIsSent
  <2> QED
    BY <2>2, <2>3, <2>4, <2>5, <2>6 DEF RequestsOK, Request
<1>17. OrderOK'
  <2> SUFFICES ASSUME NEW m \in Slots, GivenUpEntry(m)'
               PROVE  /\ content'[mbx'[m]].old
                      /\ content'[mbx'[m]].who \in Senders \ sent'
                      /\ \A t \in Polling' : content'[mbx'[m]].who = t =>
                           Dist(m)' < Dist(EntryOf(t))'
    BY DEF OrderOK
  <2>1. m # l /\ GivenUpEntry(m) /\ mbx'[m] = mbx[m]
    BY <1>8, <1>15 DEF GivenUpEntry
  <2>2. Dist(m) < Dist(l) /\ Dist(m)' = Dist(m)
    <3>1. m \in Window
      BY <2>1 DEF GivenUpEntry, Waiting
    <3> QED
      BY <1>4, <1>6, <3>1, WindowDist
  <2>3. \A t \in Polling' :
          Dist(EntryOf(t))' = Dist(IF t = s THEN l ELSE EntryOf(t))
    BY <1>2, <1>7, <1>9, <1>10 DEF Dist
  <2> QED
    BY <1>2, <1>7, <1>9, <2>1, <2>2, <2>3 DEF OrderOK
<1>18. HoldingsOK'
  <2>1. pool' = pool
    BY <1>2
  <2>2. \A t \in Senders : t # s => own[t] # b
    BY <1>3 DEF HoldingsOK
  <2>3. \A m \in Slots : Holds(m)' => m = l \/ (Holds(m) /\ m # l)
    BY <1>15
  <2>4. \A m \in Slots : Holds(m) => mbx[m] # b
    BY DEF HoldingsOK
  <2>5. \A m, n \in Slots :
          Holds(m)' /\ Holds(n)' /\ mbx'[m] = mbx'[n] => m = n
    BY <1>8, <2>3, <2>4 DEF HoldingsOK
  <2>6. \A t \in Senders, m \in Slots : Holds(m)' => mbx'[m] # own'[t]
    BY <1>3, <1>8, <2>2, <2>3 DEF HoldingsOK, Holds
  <2>7. \A m \in Slots : Holds(m)' => mbx'[m] \notin pool'
    BY <1>3, <1>8, <2>1, <2>3 DEF HoldingsOK
  <2>8. \A t \in Senders : own'[t] \notin pool'
    BY <1>8, <2>1, MbxQueueAssumption DEF HoldingsOK, TypeOK
  <2>9. \A t, u \in Senders : own'[t] # None /\ own'[t] = own'[u] => t = u
    BY <1>8 DEF HoldingsOK
  <2>10. \A c \in Mailboxes : \/ c \in pool'
                              \/ \E t \in Senders : own'[t] = c
                              \/ \E m \in Slots : Holds(m)' /\ mbx'[m] = c
    <3> TAKE c \in Mailboxes
    <3>1. CASE c \in pool
      BY <2>1, <3>1
    <3>2. CASE \E t \in Senders : own[t] = c
      BY <1>4, <1>8, <1>15, <3>2
    <3>3. CASE \E m \in Slots : Holds(m) /\ mbx[m] = c
      BY <1>8, <1>15, <3>3
    <3> QED
      BY <3>1, <3>2, <3>3 DEF HoldingsOK
  <2> QED
    BY <2>5, <2>6, <2>7, <2>8, <2>9, <2>10 DEF HoldingsOK
<1> QED
  BY <1>5, <1>6, <1>12, <1>13, <1>14, <1>16, <1>17, <1>18

(* A sender leaves the queue, served or not: its entry is marked, and what *)
(* the invariant says of the ring, the tickets and the mailboxes holds on. *)
LEMMA MarkRemovedFacts ==
  ASSUME Inv, NEW s \in Senders, pc[s] = "poll", MarkRemoved(s), TypeOK',
         hpc \notin {"check", "drop"},
         pc' \in {[pc EXCEPT ![s] = "ok"], [pc EXCEPT ![s] = "failed"]},
         UNCHANGED <<pool, own, handler>>
  PROVE  /\ RingOK' /\ HandlerOK' /\ EntriesOK' /\ TicketsOK' /\ HoldingsOK'
         /\ s \in Polling /\ Polling' = Polling \ {s}
         /\ \A t \in Polling' : EntryOf(t)' = EntryOf(t)
         /\ \A m \in Slots : /\ Dist(m)' = Dist(m)
                             /\ Waiting(m)' <=> Waiting(m)
                             /\ m # EntryOf(s) => mbxremove'[m] = mbxremove[m]
         /\ mbx' = mbx /\ mbxstate' = mbxstate
<1> USE DEF Inv
<1> DEFINE k == ticket[s]
           l == EntryOf(s)
<1>1. s \in Polling
  BY DEF Polling
<1>2. /\ k \in Slots /\ mbxticket[k] = l /\ l \in Slots /\ l \in Window
      /\ l # None /\ k # None
  BY <1>1, PollingEntry, MbxQueueAssumption DEF Slots, None
<1>3. /\ mbxremove' = [mbxremove EXCEPT ![l] = TRUE]
      /\ mbxticket' = [mbxticket EXCEPT ![k] = None]
      /\ ticket' = [ticket EXCEPT ![s] = None]
      /\ UNCHANGED <<listhead, listtail, listcount, mbx, mbxstate>>
  BY DEF MarkRemoved, EntryOf
<1>4. /\ hpc' = hpc /\ loc' = loc /\ hmbx' = hmbx /\ left' = left
      /\ own' = own /\ pool' = pool
  BY DEF handler
<1>5. RingOK' /\ Window' = Window /\ \A m : Dist(m)' = Dist(m)
  BY <1>3, RingSame
<1>6. Polling' = Polling \ {s}
  BY DEF Polling, TypeOK
<1>7. /\ \A m \in Slots : mbxremove'[m] = IF m = l THEN TRUE ELSE mbxremove[m]
      /\ \A j \in Slots : mbxticket'[j] = IF j = k THEN None ELSE mbxticket[j]
      /\ \A t \in Senders : ticket'[t] = IF t = s THEN None ELSE ticket[t]
  BY <1>2, <1>3 DEF TypeOK
<1>8. \A m \in Slots : /\ Waiting(m)' <=> Waiting(m)
                       /\ Holds(m)' <=> Holds(m)
  BY <1>3, <1>4, <1>5 DEF Waiting, Holds
<1>9. \A t \in Polling' : /\ t \in Polling /\ t # s
                          /\ ticket'[t] = ticket[t] /\ ticket[t] # k
                          /\ ticket[t] \in Slots
                          /\ EntryOf(t)' = EntryOf(t)
  <2> TAKE t \in Polling'
  <2>1. t \in Polling /\ t # s
    BY <1>6
  <2>2. ticket[t] # k /\ ticket[t] \in Slots /\ t \in Senders
    BY <1>1, <2>1, PollingEntry
  <2> QED
    BY <1>7, <2>1, <2>2 DEF EntryOf
<1>10. HandlerOK'
  BY <1>3, <1>4, <1>5 DEF HandlerOK, Waiting
<1>11. EntriesOK'
  <2>1. \A m \in Window : m \in Slots /\ m # None
    BY RingFacts, MbxQueueAssumption DEF Slots, None
  <2>2. ASSUME NEW m \in Window
        PROVE  mbxremove'[m] <=> \A j \in Slots : mbxticket'[j] # m
    <3>1. CASE m = l
      <4>1. \A j \in Slots : mbxticket'[j] # l
        BY <1>2, <1>7 DEF TicketsOK
      <4> QED
        BY <1>2, <1>7, <3>1, <4>1
    <3>2. CASE m # l
      <4>1. \A j \in Slots : mbxticket'[j] = m <=> mbxticket[j] = m
        BY <1>2, <1>7, <2>1, <3>2
      <4>2. mbxremove'[m] = mbxremove[m]
        BY <1>7, <2>1, <3>2
      <4> QED
        BY <4>1, <4>2 DEF EntriesOK
    <3> QED
      BY <3>1, <3>2
  <2>3. \A m \in Slots : mbxremove'[m] => m \in Window'
    BY <1>2, <1>5, <1>7 DEF EntriesOK
  <2> QED
    BY <1>3, <1>4, <1>5, <2>2, <2>3 DEF EntriesOK
<1>12. TicketsOK'
  <2>1. \A t \in Senders : ticket'[t] # None <=> pc'[t] = "poll"
    BY <1>7 DEF TicketsOK, TypeOK
  <2>2. \A t \in Polling' : mbxticket'[ticket'[t]] # None
    BY <1>7, <1>9 DEF TicketsOK
  <2>3. \A t, u \in Polling' : ticket'[t] = ticket'[u] => t = u
    BY <1>9 DEF TicketsOK
  <2>4. ASSUME NEW j \in Slots, mbxticket'[j] # None
        PROVE  mbxticket'[j] \in Window' /\ \E t \in Polling' : ticket'[t] = j
    <3>1. j # k /\ mbxticket'[j] = mbxticket[j]
      BY <1>7, <2>4
    <3>2. PICK t \in Polling : ticket[t] = j
      BY <2>4, <3>1 DEF TicketsOK
    <3>3. t \in Polling' /\ ticket'[t] = j
      BY <1>6, <1>9, <3>1, <3>2
    <3> QED
      BY <1>5, <2>4, <3>1, <3>3 DEF TicketsOK
  <2>5. \A i, j \in Slots :
          mbxticket'[i] = mbxticket'[j] /\ mbxticket'[j] # None => i = j
    BY <1>7 DEF TicketsOK
  <2> QED
    BY <2>1, <2>2, <2>3, <2>4, <2>5 DEF TicketsOK
<1>13. HoldingsOK'
  BY <1>3, <1>4, <1>8 DEF HoldingsOK
<1> QED
  BY <1>1, <1>3, <1>5, <1>6, <1>7, <1>8, <1>9, <1>10, <1>11, <1>12, <1>13

LEMMA DoneQueueInv ==
  ASSUME Inv, NEW s \in Senders, DoneQueue(s), ~ Preempt
  PROVE  Inv'
<1> USE DEF Inv
<1>1. /\ pc[s] = "poll" /\ pc' = [pc EXCEPT ![s] = "ok"]
      /\ mbxstate[EntryOf(s)] = "DONE" /\ MarkRemoved(s)
      /\ hpc \notin {"check", "drop"}
      /\ UNCHANGED <<pool, content, sent, own, handler>>
  BY DEF DoneQueue, Goto, MayRun, EntryOf
<1>2. s \in Polling
  BY <1>1 DEF Polling
<1>3. TypeOK'
  <2>1. ticket[s] \in Slots /\ mbxticket[ticket[s]] \in Slots
    BY <1>2, PollingEntry
  <2> QED
    BY <1>1, <2>1 DEF MarkRemoved, TypeOK, handler
<1>4. /\ RingOK' /\ HandlerOK' /\ EntriesOK' /\ TicketsOK' /\ HoldingsOK'
      /\ Polling' = Polling \ {s}
      /\ \A t \in Polling' : EntryOf(t)' = EntryOf(t)
      /\ \A m \in Slots : /\ Dist(m)' = Dist(m)
                          /\ Waiting(m)' <=> Waiting(m)
                          /\ m # EntryOf(s) => mbxremove'[m] = mbxremove[m]
      /\ mbx' = mbx /\ mbxstate' = mbxstate
  BY <1>1, <1>3, MarkRemovedFacts
<1>5. \A t \in Polling' : t \in Polling /\ EntryOf(t) \in Slots
  BY <1>4, PollingEntry
<1>6. RequestsOK'
  <2>1. \A t \in Senders : pc'[t] = IF t = s THEN "ok" ELSE pc[t]
    BY <1>1 DEF TypeOK
  <2>2. ReportedIsSent'
    BY <1>1, <1>2, <2>1 DEF RequestsOK, ReportedIsSent
  <2> QED
    BY <1>1, <1>4, <1>5, <2>1, <2>2 DEF RequestsOK, Request
<1>7. OrderOK'
  <2> SUFFICES ASSUME NEW m \in Slots, GivenUpEntry(m)'
               PROVE  /\ content'[mbx'[m]].old
                      /\ content'[mbx'[m]].who \in Senders \ sent'
                      /\ \A t \in Polling' : content'[mbx'[m]].who = t =>
                           Dist(m)' < Dist(EntryOf(t))'
    BY DEF OrderOK
  <2>1. m # EntryOf(s)
    BY <1>1, <1>4 DEF GivenUpEntry, Waiting
  <2>2. GivenUpEntry(m)
    BY <1>4, <2>1 DEF GivenUpEntry
  <2>3. \A t \in Polling' : Dist(EntryOf(t))' = Dist(EntryOf(t))
    BY <1>1, <1>4 DEF Dist, MarkRemoved
  <2> QED
    BY <1>1, <1>4, <1>5, <2>2, <2>3 DEF OrderOK
<1> QED
  BY <1>3, <1>4, <1>6, <1>7

LEMMA ExpireQueueInv ==
  ASSUME Inv, NEW s \in Senders, ExpireQueue(s), ~ Preempt
  PROVE  Inv'
<1> USE DEF Inv
<1> DEFINE l == EntryOf(s)
<1>1. /\ pc[s] = "poll" /\ pc' = [pc EXCEPT ![s] = "failed"]
      /\ mbxstate[l] # "NONE" => MarkRemoved(s)
      /\ hpc \notin {"check", "drop"}
      /\ content' = GivenUp(s) /\ sent' = sent \ {s}
      /\ UNCHANGED <<pool, own, handler>>
  BY DEF ExpireQueue, Goto, MayRun, EntryOf
<1>2. s \in Polling
  BY <1>1 DEF Polling
<1>3. MarkRemoved(s)
  BY <1>1, <1>2, PollingEntry DEF EntriesOK
<1>4. \A b \in Mailboxes :
        content'[b] = IF content[b] = Request(s)
                      THEN [who |-> s, old |-> TRUE] ELSE content[b]
  BY <1>1 DEF GivenUp, Request
<1>5. TypeOK'
  <2>1. ticket[s] \in Slots /\ mbxticket[ticket[s]] \in Slots
    BY <1>2, PollingEntry
  <2>2. content' \in [Mailboxes -> Contents]
    BY <1>1 DEF GivenUp, Contents, TypeOK
  <2> QED
    BY <1>1, <1>3, <2>1, <2>2 DEF MarkRemoved, TypeOK, handler
<1>6. /\ RingOK' /\ HandlerOK' /\ EntriesOK' /\ TicketsOK' /\ HoldingsOK'
      /\ Polling' = Polling \ {s}
      /\ \A t \in Polling' : EntryOf(t)' = EntryOf(t)
      /\ \A m \in Slots : /\ Dist(m)' = Dist(m)
                          /\ Waiting(m)' <=> Waiting(m)
                          /\ m # l => mbxremove'[m] = mbxremove[m]
      /\ mbx' = mbx /\ mbxstate' = mbxstate
  BY <1>1, <1>3, <1>5, MarkRemovedFacts
<1>7. \A t \in Polling' : t \in Polling /\ t # s /\ EntryOf(t) \in Slots
  BY <1>6, PollingEntry
<1>8. \A m \in Slots : Waiting(m) => mbx[m] \in Mailboxes
  BY DEF Waiting, EntriesOK, TypeOK
<1>9. RequestsOK'
  <2>1. \A t \in Senders : pc'[t] = IF t = s THEN "failed" ELSE pc[t]
    BY <1>1 DEF TypeOK
  <2>2. ReportedIsSent'
    BY <1>1, <2>1 DEF RequestsOK, ReportedIsSent
  <2>3. \A t \in Senders : own'[t] # None <=> pc'[t] = "add"
    BY <1>1, <2>1 DEF RequestsOK
  <2>4. \A t \in Senders \ {s} : Request(t) # Request(s)
    BY DEF Request
  <2>5. \A t \in Senders : own'[t] # None => content'[own'[t]] = Request(t)
    <3> SUFFICES ASSUME NEW t \in Senders, own[t] # None
                 PROVE  content'[own[t]] = Request(t)
      BY <1>1
    <3>1. own[t] \in Mailboxes /\ content[own[t]] = Request(t) /\ t # s
      BY <1>1 DEF RequestsOK, TypeOK
    <3> QED
      BY <1>4, <2>4, <3>1
  <2>6. \A t \in Polling' : Waiting(EntryOf(t))' =>
          content'[mbx'[EntryOf(t)']] = Request(t)
    <3> SUFFICES ASSUME NEW t \in Polling', Waiting(EntryOf(t))
                 PROVE  content'[mbx[EntryOf(t)]] = Request(t)
      BY <1>3, <1>6, <1>7 DEF Waiting, Window, MarkRemoved
    <3>1. /\ mbx[EntryOf(t)] \in Mailboxes /\ t \in Senders \ {s}
          /\ content[mbx[EntryOf(t)]] = Request(t)
      BY <1>7, <1>8 DEF RequestsOK, Polling
    <3> QED
      BY <1>4, <2>4, <3>1
  <2>7. \A t \in Polling' : mbxstate'[EntryOf(t)'] = "DONE" => t \in sent'
    BY <1>1, <1>6, <1>7 DEF RequestsOK
  <2> QED
    BY <2>2, <2>3, <2>5, <2>6, <2>7 DEF RequestsOK, Request
<1>10. OrderOK'
  <2> SUFFICES ASSUME NEW m \in Slots, GivenUpEntry(m)'
               PROVE  /\ content'[mbx'[m]].old
                      /\ content'[mbx'[m]].who \in Senders \ sent'
                      /\ \A t \in Polling' : content'[mbx'[m]].who = t =>
                           Dist(m)' < Dist(EntryOf(t))'
    BY DEF OrderOK
  <2>1. Waiting(m) /\ mbx[m] \in Mailboxes /\ mbx' = mbx
    BY <1>6, <1>8 DEF GivenUpEntry
  <2>2. CASE m = l
    <3>1. content[mbx[m]] = Request(s)
      BY <1>2, <2>1, <2>2 DEF RequestsOK
    <3>2. content'[mbx[m]] = [who |-> s, old |-> TRUE]
      BY <1>4, <2>1, <3>1
    <3> QED
      BY <1>1, <1>7, <2>1, <3>2
  <2>3. CASE m # l
    <3>1. GivenUpEntry(m)
      BY <1>6, <2>1, <2>3 DEF GivenUpEntry
    <3>2. content[mbx[m]] # Request(s)
      BY <3>1 DEF OrderOK, Request
    <3>3. content'[mbx[m]] = content[mbx[m]]
      BY <1>4, <2>1, <3>2
    <3>4. \A t \in Polling' : Dist(EntryOf(t))' = Dist(EntryOf(t))
      BY <1>3, <1>6 DEF Dist, MarkRemoved
    <3> QED
      BY <1>1, <1>6, <1>7, <2>1, <3>1, <3>3, <3>4 DEF OrderOK
  <2> QED
    BY <2>2, <2>3
<1> QED
  BY <1>5, <1>6, <1>9, <1>10

(* The entry the handler works on is the first of the ring.                *)
LEMMA LocIsTail ==
  ASSUME Inv, hpc \in {"write", "return", "clear", "rotate", "drop"}
  PROVE  /\ loc = listtail /\ loc \in Slots /\ loc \in Window
         /\ listcount > 0 /\ Dist(loc) = 0
BY RingFacts DEF Inv, HandlerOK, TypeOK

(* A slave that takes a mailbox: the request counts as sent, and no        *)
(* request that was given up before it is still in the queue.              *)
LEMMA TakeFacts ==
  ASSUME Inv, hpc = "write", Take(content[hmbx].who) \/ UNCHANGED sent
  PROVE  /\ sent' \subseteq Senders /\ sent \subseteq sent'
         /\ \A l \in Slots :
              GivenUpEntry(l) => content[mbx[l]].who \notin sent'
         /\ Take(content[hmbx].who) =>
              \A s \in Polling : EntryOf(s) = loc => s \in sent'
<1> USE DEF Inv
<1>1. Waiting(loc) /\ hmbx = mbx[loc] /\ loc \in Slots /\ Dist(loc) = 0
  BY LocIsTail DEF HandlerOK
<1>2. CASE mbxremove[loc]
  <2>1. content[hmbx].old
    BY <1>1, <1>2 DEF OrderOK, GivenUpEntry
  <2>2. sent' = sent
    BY <2>1 DEF Take
  <2>3. \A s \in Polling : EntryOf(s) # loc
    BY <1>2, PollingEntry
  <2> QED
    BY <2>2, <2>3 DEF OrderOK, TypeOK
<1>3. CASE ~ mbxremove[loc]
  <2>1. PICK s \in Polling : EntryOf(s) = loc
    BY <1>1, <1>3, EntrySender DEF Waiting
  <2>2. content[hmbx] = Request(s)
    BY <1>1, <2>1 DEF RequestsOK
  <2>3. Take(content[hmbx].who) => sent' = sent \cup {s}
    BY <2>2 DEF Take, Request
  <2>4. \A t \in Polling : EntryOf(t) = loc => t = s
    BY <2>1, PollingEntry
  <2>5. ASSUME NEW l \in Slots, GivenUpEntry(l)
        PROVE  content[mbx[l]].who \notin sent \cup {s}
    <3>1. content[mbx[l]].who = s => Dist(l) < 0
      BY <1>1, <2>1, <2>5 DEF OrderOK
    <3>2. ~ Dist(l) < 0
      BY RingFacts
    <3> QED
      BY <2>5, <3>1, <3>2 DEF OrderOK
  <2>6. s \in Senders
    BY DEF Polling
  <2> QED
    BY <2>3, <2>4, <2>5, <2>6 DEF TypeOK
<1> QED
  BY <1>2, <1>3

(* The entry's state is what a write changes.                              *)
LEMMA WriteInv ==
  ASSUME Inv, WriteOk \/ WriteFailed
  PROVE  Inv'
<1> USE DEF Inv
<1>1. /\ hpc = "write" /\ hpc' \in {"return", "rotate"}
      /\ mbxstate' \in [Slots -> States]
      /\ mbxstate' = [mbxstate EXCEPT ![loc] = mbxstate'[loc]]
      /\ WriteOk => /\ mbxstate'[loc] = "DONE" /\ hpc' = "return"
                    /\ Take(content[hmbx].who)
      /\ WriteFailed => mbxstate'[loc] \in {"REQ", "FAIL"} /\ hpc' = "rotate"
      /\ Take(content[hmbx].who) \/ UNCHANGED sent
      /\ UNCHANGED <<listhead, listtail, listcount, mbx, mbxremove, mbxticket,
                     pool, content, sender, loc, hstate, hmbx, left, limitcnt>>
  <2>1. Waiting(loc) /\ loc \in Slots /\ hpc = "write"
    BY LocIsTail DEF HandlerOK, WriteOk, WriteFailed
  <2>2. CASE WriteOk
    BY <2>1, <2>2 DEF WriteOk, WriteFailed, TypeOK, States
  <2>3. CASE WriteFailed
    BY <2>1, <2>3 DEF WriteOk, WriteFailed, TypeOK, States, Waiting
  <2> QED
    BY <2>2, <2>3
<1>2. /\ UNCHANGED <<pc, ticket, own>> /\ Polling' = Polling
      /\ \A s \in Polling : EntryOf(s)' = EntryOf(s)
  BY <1>1 DEF sender, Polling, EntryOf
<1>3. /\ Waiting(loc) /\ hmbx = mbx[loc] /\ loc \in Slots /\ loc \in Window
      /\ loc = listtail /\ hmbx # None
  BY <1>1, LocIsTail DEF HandlerOK, Waiting, EntriesOK
<1>4. \A l \in Slots : l # loc => mbxstate'[l] = mbxstate[l]
  BY <1>1, <1>3 DEF TypeOK
<1>5. RingOK' /\ Window' = Window /\ \A l : Dist(l)' = Dist(l)
  BY <1>1, RingSame
<1>6. /\ sent' \subseteq Senders /\ sent \subseteq sent'
      /\ \A l \in Slots : GivenUpEntry(l) => content[mbx[l]].who \notin sent'
      /\ WriteOk => \A s \in Polling : EntryOf(s) = loc => s \in sent'
  BY <1>1, TakeFacts
<1>7. TypeOK'
  BY <1>1, <1>2, <1>6 DEF TypeOK
<1>8. \A l \in Slots : /\ Waiting(l)' => Waiting(l)
                       /\ Holds(l)' <=> Holds(l)
  BY <1>1, <1>3, <1>4, <1>5 DEF Waiting, Holds
<1>9. HandlerOK'
  BY <1>1, <1>3, <1>5 DEF HandlerOK
<1>10. EntriesOK'
  <2>1. \A l \in Window : l \in Slots
    BY RingFacts
  <2>2. \A l \in Window : mbxstate'[l] # "NONE"
    BY <1>1, <1>4, <2>1 DEF EntriesOK
  <2>3. \A l \in Window : mbxstate'[l] \in {"REQ", "FAIL"} => mbx[l] # None
    BY <1>3, <1>4, <2>1 DEF EntriesOK
  <2>4. \A l \in Window : mbxstate'[l] = "DONE" /\ mbx[l] # None =>
          hpc' = "return" /\ l = loc
    BY <1>1, <1>4, <2>1 DEF EntriesOK
  <2> QED
    BY <1>1, <1>5, <2>2, <2>3, <2>4 DEF EntriesOK
<1>11. TicketsOK'
  BY <1>1, <1>2, <1>5 DEF TicketsOK
<1>12. RequestsOK'
  <2>1. \A s \in Polling : EntryOf(s) \in Slots
    BY PollingEntry
  <2>2. \A s \in Polling' : mbxstate'[EntryOf(s)'] = "DONE" => s \in sent'
    BY <1>1, <1>2, <1>4, <1>6, <2>1 DEF RequestsOK
  <2> QED
    BY <1>1, <1>2, <1>6, <1>8, <2>1, <2>2
    DEF RequestsOK, ReportedIsSent, Request
<1>13. OrderOK'
  <2> SUFFICES ASSUME NEW m \in Slots, GivenUpEntry(m)'
               PROVE  /\ content'[mbx'[m]].old
                      /\ content'[mbx'[m]].who \in Senders \ sent'
                      /\ \A t \in Polling' : content'[mbx'[m]].who = t =>
                           Dist(m)' < Dist(EntryOf(t))'
    BY DEF OrderOK
  <2>1. GivenUpEntry(m)
    BY <1>1, <1>8 DEF GivenUpEntry
  <2>2. \A t \in Polling' : Dist(EntryOf(t))' = Dist(EntryOf(t))
    BY <1>1, <1>2 DEF Dist
  <2> QED
    BY <1>1, <1>2, <1>5, <1>6, <2>1, <2>2 DEF OrderOK
<1>14. HoldingsOK'
  BY <1>1, <1>2, <1>8 DEF HoldingsOK
<1> QED
  BY <1>5, <1>7, <1>9, <1>10, <1>11, <1>12, <1>13, <1>14

LEMMA ReturnMbxInv ==
  ASSUME Inv, ReturnMbx
  PROVE  Inv'
<1> USE DEF Inv
<1>1. /\ hpc = "return" /\ hpc' = "clear"
      /\ pool' = pool \cup {hmbx}
      /\ content' = [content EXCEPT ![hmbx] = Nothing]
      /\ UNCHANGED <<queue, sent, pc, ticket, own, loc, hstate, hmbx, left,
                     limitcnt>>
  BY DEF ReturnMbx, sender
<1>2. /\ hmbx \in Mailboxes /\ hmbx = mbx[loc] /\ mbxstate[loc] = "DONE"
      /\ loc \in Slots /\ loc \in Window /\ loc = listtail /\ Holds(loc)
  BY <1>1, LocIsTail DEF HandlerOK, TypeOK, Holds
<1>3. UNCHANGED <<listhead, listtail, listcount, mbx, mbxstate, mbxremove,
                  mbxticket>>
  BY <1>1 DEF queue
<1>4. TypeOK'
  BY <1>1, <1>2, <1>3 DEF TypeOK, Contents
<1>5. RingOK' /\ Window' = Window /\ \A l : Dist(l)' = Dist(l)
  BY <1>3, RingSame
<1>6. Polling' = Polling /\ \A s \in Polling : EntryOf(s)' = EntryOf(s)
  BY <1>1, <1>3 DEF Polling, EntryOf
<1>7. \A l \in Slots : /\ Waiting(l)' <=> Waiting(l)
                       /\ Holds(l)' <=> Holds(l) /\ l # loc
                       /\ Holds(l) /\ mbx[l] = hmbx => l = loc
  BY <1>1, <1>2, <1>3, <1>5 DEF Waiting, Holds, HoldingsOK
<1>8. \A l \in Slots : Waiting(l) => mbx[l] # hmbx /\ mbx[l] \in Mailboxes
  BY <1>2, <1>7, WaitingHolds DEF Waiting, EntriesOK, TypeOK
<1>9. \A b \in Mailboxes \ {hmbx} : content'[b] = content[b]
  BY <1>1 DEF TypeOK
<1>10. HandlerOK'
  BY <1>1, <1>2, <1>3, <1>5 DEF HandlerOK
<1>11. EntriesOK' /\ TicketsOK'
  BY <1>1, <1>3, <1>5, <1>6 DEF EntriesOK, TicketsOK
<1>12. RequestsOK'
  <2>1. \A s \in Senders : own[s] # hmbx
    BY <1>2 DEF HoldingsOK
  <2>2. \A s \in Senders : own[s] # None => content'[own[s]] = Request(s)
    BY <1>9, <2>1 DEF RequestsOK, TypeOK
  <2>3. \A s \in Polling : EntryOf(s) \in Slots
    BY PollingEntry
  <2>4. \A s \in Polling : Waiting(EntryOf(s)) =>
          content'[mbx[EntryOf(s)]] = Request(s)
    BY <1>8, <1>9, <2>3 DEF RequestsOK
  <2> QED
    BY <1>1, <1>3, <1>6, <1>7, <2>2, <2>3, <2>4
    DEF RequestsOK, ReportedIsSent, Request
<1>13. OrderOK'
  BY <1>1, <1>3, <1>5, <1>6, <1>7, <1>8, <1>9
  DEF OrderOK, GivenUpEntry, EntryOf
<1>14. HoldingsOK'
  <2>1. \A b \in Mailboxes : \/ b \in pool'
                             \/ \E s \in Senders : own'[s] = b
                             \/ \E l \in Slots : Holds(l)' /\ mbx'[l] = b
    <3> TAKE b \in Mailboxes
    <3>1. CASE b \in pool \/ b = hmbx
      BY <1>1, <3>1
    <3>2. CASE \E s \in Senders : own[s] = b
      BY <1>1, <3>2
    <3>3. CASE b # hmbx /\ \E l \in Slots : Holds(l) /\ mbx[l] = b
      BY <1>2, <1>3, <1>7, <3>3
    <3> QED
      BY <3>1, <3>2, <3>3 DEF HoldingsOK
  <2> QED
    BY <1>1, <1>2, <1>3, <1>7, <2>1 DEF HoldingsOK
<1> QED
  BY <1>4, <1>5, <1>10, <1>11, <1>12, <1>13, <1>14

LEMMA ClearMbxInv ==
  ASSUME Inv, ClearMbx
  PROVE  Inv'
<1> USE DEF Inv
<1>1. /\ hpc = "clear" /\ hpc' = "rotate" /\ hmbx' = None
      /\ mbx' = [mbx EXCEPT ![loc] = None]
      /\ UNCHANGED <<listhead, listtail, listcount, mbxstate, mbxremove,
                     mbxticket, pool, content, sent, pc, ticket, own, loc,
                     hstate, left, limitcnt>>
  BY DEF ClearMbx, sender
<1>2. /\ mbxstate[loc] = "DONE" /\ loc \in Slots /\ loc = listtail
  BY <1>1, LocIsTail DEF HandlerOK
<1>3. \A l \in Slots : mbx'[l] = IF l = loc THEN None ELSE mbx[l]
  BY <1>1 DEF TypeOK
<1>4. TypeOK'
  BY <1>1 DEF TypeOK
<1>5. RingOK' /\ Window' = Window /\ \A l : Dist(l)' = Dist(l)
  BY <1>1, RingSame
<1>6. Polling' = Polling /\ \A s \in Polling : EntryOf(s)' = EntryOf(s)
  BY <1>1 DEF Polling, EntryOf
<1>7. \A l \in Slots : /\ Waiting(l)' <=> Waiting(l)
                       /\ Waiting(l) => l # loc
                       /\ Holds(l)' <=> Holds(l)
                       /\ Holds(l) => l # loc
  BY <1>1, <1>2, <1>3, <1>5 DEF Waiting, Holds
<1>8. HandlerOK'
  BY <1>1, <1>2, <1>5 DEF HandlerOK
<1>9. EntriesOK' /\ TicketsOK'
  BY <1>1, <1>2, <1>3, <1>5, <1>6, RingFacts DEF EntriesOK, TicketsOK
<1>10. RequestsOK'
  BY <1>1, <1>3, <1>6, <1>7, PollingEntry
  DEF RequestsOK, ReportedIsSent, Request
<1>11. OrderOK'
  BY <1>1, <1>3, <1>5, <1>6, <1>7 DEF OrderOK, GivenUpEntry, EntryOf
<1>12. HoldingsOK'
  BY <1>1, <1>3, <1>7 DEF HoldingsOK
<1> QED
  BY <1>4, <1>5, <1>8, <1>9, <1>10, <1>11, <1>12

(* The entry moves to the head with its ticket, and a sender that waits    *)
(* behind the tail stays behind what it gave up.                           *)
LEMMA RotateInv ==
  ASSUME Inv, NEW k \in TicketOf(loc), Rotate(k), hpc = "rotate",
         listhead # listtail, hpc' = "check",
         UNCHANGED <<listcount, pool, content, sent, sender, loc, hstate, hmbx,
                     left, limitcnt>>
  PROVE  Inv'
<1> USE DEF Inv
<1>0. PICK h \in Slots : h = listhead
  BY DEF TypeOK
<1>1. /\ loc = listtail /\ loc \in Slots /\ loc \in Window /\ Dist(loc) = 0
      /\ listcount > 0 /\ listcount < QueueSize
      /\ h \in Slots /\ h \notin Window /\ h # loc
  BY <1>0, LocIsTail, RingFacts, MbxQueueAssumption DEF TypeOK
<1>2. k \in Slots /\ mbxticket[k] = loc
  BY DEF TicketOf
<1>3. /\ mbxticket' = [mbxticket EXCEPT ![k] = h]
      /\ mbxremove' = [mbxremove EXCEPT ![h] = mbxremove[loc]]
      /\ mbxstate' = [mbxstate EXCEPT ![h] = mbxstate[loc]]
      /\ mbx' = [mbx EXCEPT ![h] = mbx[loc]]
      /\ listhead' = Succ(listhead) /\ listtail' = Succ(listtail)
      /\ UNCHANGED <<pc, ticket, own>>
  BY <1>0, <1>1 DEF Rotate, sender
<1>4. ~ mbxremove[loc]
  BY <1>1, <1>2 DEF EntriesOK
<1>5. TypeOK'
  BY <1>0, <1>1, <1>2, <1>3, RingFacts DEF TypeOK
<1>6. /\ RingOK' /\ Window' = (Window \ {loc}) \cup {h}
      /\ \A m \in Slots \ {loc} : Dist(m)' = Dist(m) - 1
  BY <1>0, <1>1, <1>3, <1>5, RingRotate
<1>7. /\ \A m \in Slots : m # h => /\ mbx'[m] = mbx[m]
                                   /\ mbxstate'[m] = mbxstate[m]
                                   /\ mbxremove'[m] = mbxremove[m]
      /\ mbx'[h] = mbx[loc] /\ mbxstate'[h] = mbxstate[loc]
      /\ ~ mbxremove'[h]
      /\ \A j \in Slots : mbxticket'[j] = IF j = k THEN h ELSE mbxticket[j]
  BY <1>1, <1>2, <1>3, <1>4 DEF TypeOK
<1>8. Polling' = Polling
  BY <1>3 DEF Polling
<1>9. \A s \in Polling :
        /\ EntryOf(s) \in Slots /\ EntryOf(s) \in Window /\ EntryOf(s) # h
        /\ EntryOf(s)' = IF EntryOf(s) = loc THEN h ELSE EntryOf(s)
        /\ EntryOf(s)' \in Slots /\ EntryOf(s)' # loc
  <2> TAKE s \in Polling
  <2>1. /\ ticket[s] \in Slots /\ EntryOf(s) = mbxticket[ticket[s]]
        /\ EntryOf(s) \in Slots /\ EntryOf(s) \in Window
    BY PollingEntry
  <2>2. EntryOf(s) = loc <=> ticket[s] = k
    BY <1>1, <1>2, <2>1, MbxQueueAssumption DEF TicketsOK, Slots, None
  <2> QED
    BY <1>1, <1>3, <1>7, <2>1, <2>2 DEF EntryOf
<1>10. /\ \A m \in Slots \ {h, loc} : /\ Waiting(m)' <=> Waiting(m)
                                      /\ Holds(m)' <=> Holds(m)
       /\ Waiting(h)' <=> Waiting(loc)
       /\ Holds(h)' <=> Holds(loc)
       /\ ~ Waiting(loc)' /\ ~ Holds(loc)' /\ ~ Waiting(h) /\ ~ Holds(h)
  BY <1>1, <1>6, <1>7 DEF Waiting, Holds
<1>11. HandlerOK'
  BY <1>1, <1>4, <1>7 DEF HandlerOK
<1>12. EntriesOK'
  <2>1. \A m \in Window : m \in Slots /\ m # None
    BY RingFacts, MbxQueueAssumption DEF Slots, None
  <2>2. ASSUME NEW m \in Window'
        PROVE  mbxremove'[m] <=> \A j \in Slots : mbxticket'[j] # m
    <3>1. CASE m = h
      BY <1>2, <1>7, <3>1
    <3>2. CASE m # h
      <4>1. m \in Window /\ m # loc /\ m \in Slots
        BY <1>6, <2>1, <3>2
      <4>2. \A j \in Slots : mbxticket'[j] = m <=> mbxticket[j] = m
        BY <1>2, <1>7, <3>2, <4>1
      <4>3. mbxremove'[m] = mbxremove[m]
        BY <1>7, <3>2, <4>1
      <4> QED
        BY <4>1, <4>2, <4>3 DEF EntriesOK
    <3> QED
      BY <3>1, <3>2
  <2>3. \A m \in Slots : mbxremove'[m] => m \in Window'
    BY <1>4, <1>6, <1>7 DEF EntriesOK
  <2>4. \A m \in Window' : mbxstate'[m] # "NONE"
    BY <1>1, <1>6, <1>7, <2>1 DEF EntriesOK
  <2>5. \A m \in Window' : mbxstate'[m] \in {"REQ", "FAIL"} => mbx'[m] # None
    BY <1>1, <1>6, <1>7, <2>1 DEF EntriesOK
  <2>6. \A m \in Window' : ~ (mbxstate'[m] = "DONE" /\ mbx'[m] # None)
    BY <1>1, <1>6, <1>7, <2>1 DEF EntriesOK
  <2> QED
    BY <2>2, <2>3, <2>4, <2>5, <2>6 DEF EntriesOK
<1>13. TicketsOK'
  <2>1. \A j \in Slots : j # k /\ mbxticket[j] # None =>
          mbxticket[j] \in Window \ {loc} /\ mbxticket[j] # h
    BY <1>1, <1>2 DEF TicketsOK
  <2>2. h # None
    BY <1>1, MbxQueueAssumption DEF Slots, None
  <2>3. \A s \in Polling' : mbxticket'[ticket'[s]] # None
    BY <1>3, <1>7, <1>8, <2>2, PollingEntry DEF TicketsOK
  <2>4. ASSUME NEW j \in Slots, mbxticket'[j] # None
        PROVE  mbxticket'[j] \in Window' /\ \E s \in Polling' : ticket'[s] = j
    <3>1. mbxticket[j] # None
      BY <1>1, <1>2, <1>7, <2>4, MbxQueueAssumption DEF Slots, None
    <3>2. \E s \in Polling' : ticket'[s] = j
      BY <1>3, <1>8, <3>1 DEF TicketsOK
    <3> QED
      BY <1>6, <1>7, <2>1, <3>1, <3>2
  <2>5. \A i, j \in Slots :
          mbxticket'[i] = mbxticket'[j] /\ mbxticket'[j] # None => i = j
    BY <1>7, <2>1 DEF TicketsOK
  <2> QED
    BY <1>3, <1>8, <2>3, <2>4, <2>5 DEF TicketsOK
<1>14. RequestsOK'
  <2>1. \A s \in Polling' : Waiting(EntryOf(s))' =>
          content'[mbx'[EntryOf(s)']] = Request(s)
    <3> SUFFICES ASSUME NEW s \in Polling, Waiting(EntryOf(s))'
                 PROVE  content[mbx'[EntryOf(s)']] = Request(s)
      BY <1>8
    <3>1. CASE EntryOf(s) = loc
      <4>1. EntryOf(s)' = h
        BY <1>9, <3>1
      <4>2. Waiting(h)'
        BY <4>1 DEF Waiting
      <4> QED
        BY <1>7, <1>10, <3>1, <4>1, <4>2 DEF RequestsOK
    <3>2. CASE EntryOf(s) # loc
      <4>1. EntryOf(s)' = EntryOf(s) /\ EntryOf(s) \in Slots \ {h, loc}
        BY <1>9, <3>2
      <4>2. Waiting(EntryOf(s))
        BY <1>6, <1>7, <4>1, <1>9 DEF Waiting
      <4> QED
        BY <1>7, <4>1, <4>2 DEF RequestsOK
    <3> QED
      BY <3>1, <3>2
  <2>2. \A s \in Polling' : mbxstate'[EntryOf(s)'] = "DONE" => s \in sent'
    BY <1>7, <1>8, <1>9 DEF RequestsOK
  <2> QED
    BY <1>3, <2>1, <2>2 DEF RequestsOK, ReportedIsSent, Request
<1>15. OrderOK'
  <2> SUFFICES ASSUME NEW m \in Slots, GivenUpEntry(m)'
               PROVE  /\ content[mbx'[m]].old
                      /\ content[mbx'[m]].who \in Senders \ sent
                      /\ \A s \in Polling : content[mbx'[m]].who = s =>
                           Dist(m)' < Dist(EntryOf(s))'
    BY <1>8 DEF OrderOK
  <2>1. m \in Slots \ {h, loc} /\ GivenUpEntry(m) /\ mbx'[m] = mbx[m]
    BY <1>7, <1>10 DEF GivenUpEntry
  <2>2. ASSUME NEW s \in Polling, content[mbx[m]].who = s
        PROVE  Dist(m)' < Dist(EntryOf(s))'
    <3>1. Dist(m) < Dist(EntryOf(s))
      BY <2>1, <2>2 DEF OrderOK
    <3>2. EntryOf(s) # loc
      BY <1>1, <2>1, <3>1, RingFacts
    <3>3. Dist(EntryOf(s))' = Dist(EntryOf(s)) - 1
      <4>1. EntryOf(s)' = EntryOf(s) /\ EntryOf(s) \in Slots \ {loc}
        BY <1>9, <3>2
      <4> QED
        BY <1>6, <4>1 DEF Dist
    <3>4. Dist(m) \in Int /\ Dist(EntryOf(s)) \in Int
      BY <1>9, RingFacts
    <3> QED
      BY <1>6, <2>1, <3>1, <3>3, <3>4
  <2> QED
    BY <2>1, <2>2 DEF OrderOK
<1>16. HoldingsOK'
  <2>1. \A m \in Slots : Holds(m)' =>
          \/ m = h /\ Holds(loc)
          \/ m \notin {h, loc} /\ Holds(m)
    BY <1>10
  <2>2. \A m, n \in Slots :
          Holds(m)' /\ Holds(n)' /\ mbx'[m] = mbx'[n] => m = n
    BY <1>1, <1>7, <2>1 DEF HoldingsOK
  <2>3. \A b \in Mailboxes : \/ b \in pool
                             \/ \E s \in Senders : own[s] = b
                             \/ \E m \in Slots : Holds(m)' /\ mbx'[m] = b
    <3> TAKE b \in Mailboxes
    <3>1. CASE \E m \in Slots : Holds(m) /\ mbx[m] = b
      <4>1. PICK m \in Slots : Holds(m) /\ mbx[m] = b
        BY <3>1
      <4>2. CASE m = loc
        BY <1>1, <1>7, <1>10, <4>1, <4>2
      <4>3. CASE m # loc
        BY <1>7, <1>10, <4>1, <4>3
      <4> QED
        BY <4>2, <4>3
    <3> QED
      BY <3>1 DEF HoldingsOK
  <2>4. \A m \in Slots : Holds(m)' => mbx'[m] \notin pool
    BY <1>1, <1>7, <2>1 DEF HoldingsOK
  <2>5. \A s \in Senders, m \in Slots : Holds(m)' => mbx'[m] # own[s]
    BY <1>1, <1>7, <2>1 DEF HoldingsOK
  <2> QED
    BY <1>3, <2>2, <2>3, <2>4, <2>5 DEF HoldingsOK
<1> QED
  BY <1>5, <1>6, <1>11, <1>12, <1>13, <1>14, <1>15, <1>16

LEMMA RotateQueueInv ==
  ASSUME Inv, RotateQueue
  PROVE  Inv'
<1>1. CASE listhead # listtail /\ TicketOf(loc) # {}
  <2> DEFINE k == CHOOSE k \in TicketOf(loc) : TRUE
  <2>1. k \in TicketOf(loc)
    BY <1>1
  <2>2. Rotate(k)
    BY <1>1 DEF RotateQueue
  <2> HIDE DEF k
  <2> QED
    BY <1>1, <2>1, <2>2, RotateInv DEF RotateQueue
<1>2. CASE ~ (listhead # listtail /\ TicketOf(loc) # {})
  <2> USE DEF Inv
  <2>1. /\ hpc = "rotate" /\ hpc' = "check"
        /\ UNCHANGED <<listhead, listtail, listcount, mbx, mbxstate, mbxremove,
                       mbxticket, pool, content, sent, pc, ticket, own, loc,
                       hstate, hmbx, left, limitcnt>>
    BY <1>2 DEF RotateQueue, sender
  <2>2. RingOK' /\ Window' = Window /\ \A l : Dist(l)' = Dist(l)
    BY <2>1, RingSame
  <2>3. TypeOK'
    BY <2>1 DEF TypeOK
  <2>4. HandlerOK'
    BY <2>1 DEF HandlerOK
  <2>5. EntriesOK' /\ TicketsOK'
    BY <2>1, <2>2 DEF EntriesOK, TicketsOK, Polling
  <2>6. RequestsOK' /\ OrderOK'
    BY <2>1, <2>2
    DEF RequestsOK, ReportedIsSent, OrderOK, GivenUpEntry, Waiting, EntryOf,
        Polling
  <2>7. HoldingsOK'
    BY <2>1, <2>2 DEF HoldingsOK, Holds
  <2> QED
    BY <2>2, <2>3, <2>4, <2>5, <2>6, <2>7
<1> QED
  BY <1>1, <1>2

LEMMA DropQueueInv ==
  ASSUME Inv, DropQueue
  PROVE  Inv'
<1> USE DEF Inv
<1> DEFINE b == mbx[loc]
<1>1. /\ hpc = "drop" /\ hpc' = "fetch" /\ hmbx' = None
      /\ mbxstate' = [mbxstate EXCEPT ![loc] = "NONE"]
      /\ mbxremove' = [mbxremove EXCEPT ![loc] = FALSE]
      /\ mbx' = [mbx EXCEPT ![loc] = None]
      /\ listtail' = Succ(listtail) /\ listcount' = listcount - 1
      /\ b = None => UNCHANGED <<pool, content>>
      /\ b # None => /\ pool' = pool \cup {b}
                     /\ content' = [content EXCEPT ![b] = Nothing]
      /\ UNCHANGED <<listhead, mbxticket, sent, pc, ticket, own, loc, hstate,
                     left, limitcnt>>
  BY DEF DropQueue, sender
<1>2. /\ loc = listtail /\ loc \in Slots /\ loc \in Window /\ listcount > 0
      /\ Dist(loc) = 0 /\ mbxremove[loc] /\ left < listcount
  BY <1>1, LocIsTail DEF HandlerOK
<1>3. b # None => b \in Mailboxes /\ Holds(loc)
  BY <1>1, <1>2 DEF TypeOK, Holds
<1>4. TypeOK'
  <2>1. content' \in [Mailboxes -> Contents] /\ pool' \subseteq Mailboxes
    BY <1>1, <1>3 DEF TypeOK, Contents
  <2> QED
    BY <1>1, <1>2, <2>1, RingFacts, MbxQueueAssumption DEF TypeOK, States
<1>5. /\ RingOK' /\ Window' = Window \ {loc}
      /\ \A m \in Slots \ {loc} : Dist(m)' = Dist(m) - 1
  BY <1>1, <1>2, <1>4, RingDrop
<1>6. \A m \in Slots : m # loc => /\ mbx'[m] = mbx[m]
                                  /\ mbxstate'[m] = mbxstate[m]
                                  /\ mbxremove'[m] = mbxremove[m]
  BY <1>1, <1>2 DEF TypeOK
<1>7. \A m \in Slots : /\ m # loc => /\ Waiting(m)' <=> Waiting(m)
                                     /\ Holds(m)' <=> Holds(m)
                       /\ m = loc => ~ Waiting(m)' /\ ~ Holds(m)'
  BY <1>1, <1>5, <1>6 DEF Waiting, Holds
<1>8. \A m \in Slots : Holds(m) /\ m # loc =>
        mbx[m] \in Mailboxes /\ mbx[m] # b
  BY <1>2, <1>3 DEF HoldingsOK, Holds, TypeOK
<1>9. \A c \in Mailboxes : c # b => content'[c] = content[c]
  BY <1>1 DEF TypeOK
<1>10. Polling' = Polling
  BY <1>1 DEF Polling
<1>11. \A s \in Polling : /\ EntryOf(s)' = EntryOf(s) /\ EntryOf(s) # loc
                          /\ EntryOf(s) \in Slots
  BY <1>1, <1>2, PollingEntry DEF EntryOf
<1>12. HandlerOK'
  BY <1>1, <1>2 DEF HandlerOK, TypeOK
<1>13. EntriesOK'
  BY <1>1, <1>2, <1>5, <1>6, RingFacts DEF EntriesOK, TypeOK
<1>14. TicketsOK'
  <2>1. \A k \in Slots : mbxticket[k] # loc
    BY <1>2 DEF EntriesOK
  <2> QED
    BY <1>1, <1>5, <1>10, <2>1 DEF TicketsOK
<1>15. RequestsOK'
  <2>1. \A s \in Senders : own[s] # None => content'[own[s]] = Request(s)
    <3> SUFFICES ASSUME NEW s \in Senders, own[s] # None
                 PROVE  content'[own[s]] = Request(s)
      OBVIOUS
    <3>1. own[s] \in Mailboxes /\ own[s] # b
      BY <1>2, <1>3 DEF TypeOK, HoldingsOK
    <3> QED
      BY <1>9, <3>1 DEF RequestsOK
  <2>2. \A s \in Polling' : Waiting(EntryOf(s))' =>
          content'[mbx'[EntryOf(s)']] = Request(s)
    <3> SUFFICES ASSUME NEW s \in Polling, Waiting(EntryOf(s))'
                 PROVE  content'[mbx'[EntryOf(s)]] = Request(s)
      BY <1>10, <1>11
    <3>1. Waiting(EntryOf(s))
      BY <1>5, <1>6, <1>11 DEF Waiting
    <3>2. Holds(EntryOf(s))
      BY <1>11, <3>1, WaitingHolds
    <3> QED
      BY <1>6, <1>8, <1>9, <1>11, <3>1, <3>2 DEF RequestsOK
  <2>3. \A s \in Polling' : mbxstate'[EntryOf(s)'] = "DONE" => s \in sent'
    BY <1>1, <1>6, <1>10, <1>11 DEF RequestsOK
  <2> QED
    BY <1>1, <2>1, <2>2, <2>3 DEF RequestsOK, ReportedIsSent, Request
<1>16. OrderOK'
  <2> SUFFICES ASSUME NEW m \in Slots, GivenUpEntry(m)'
               PROVE  /\ content'[mbx'[m]].old
                      /\ content'[mbx'[m]].who \in Senders \ sent
                      /\ \A s \in Polling : content'[mbx'[m]].who = s =>
                           Dist(m)' < Dist(EntryOf(s))'
    BY <1>1, <1>10 DEF OrderOK
  <2>1. m # loc /\ GivenUpEntry(m) /\ mbx'[m] = mbx[m]
    BY <1>6, <1>7 DEF GivenUpEntry
  <2>2. content'[mbx[m]] = content[mbx[m]]
    BY <1>8, <1>9, <2>1, WaitingHolds DEF GivenUpEntry
  <2>3. ASSUME NEW s \in Polling, content[mbx[m]].who = s
        PROVE  Dist(m)' < Dist(EntryOf(s))'
    <3>1. Dist(m) < Dist(EntryOf(s))
      BY <2>1, <2>3 DEF OrderOK
    <3>2. Dist(EntryOf(s))' = Dist(EntryOf(s)) - 1
      BY <1>5, <1>11 DEF Dist
    <3>3. Dist(m) \in Int /\ Dist(EntryOf(s)) \in Int
      BY <1>11, RingFacts
    <3> QED
      BY <1>5, <2>1, <3>1, <3>2, <3>3
  <2> QED
    BY <2>1, <2>2, <2>3 DEF OrderOK
<1>17. HoldingsOK'
  <2>1. \A c \in Mailboxes : c # None /\ (c \in pool' <=> c \in pool \/ c = b)
    BY <1>1, MbxQueueAssumption
  <2>2. \A s \in Senders : own[s] # b \/ own[s] = None
    BY <1>2, <1>3 DEF HoldingsOK
  <2>3. \A s \in Senders : own[s] \notin pool'
    BY <1>1, <2>2, <1>3, MbxQueueAssumption DEF HoldingsOK, TypeOK
  <2>4. \A m \in Slots : Holds(m)' => mbx'[m] \notin pool'
    BY <1>1, <1>6, <1>7, <1>8 DEF HoldingsOK
  <2>5. \A c \in Mailboxes : \/ c \in pool'
                             \/ \E s \in Senders : own[s] = c
                             \/ \E m \in Slots : Holds(m)' /\ mbx'[m] = c
    <3> TAKE c \in Mailboxes
    <3>1. CASE \E m \in Slots : Holds(m) /\ mbx[m] = c
      <4>1. PICK m \in Slots : Holds(m) /\ mbx[m] = c
        BY <3>1
      <4>2. CASE m = loc
        BY <2>1, <4>1, <4>2
      <4>3. CASE m # loc
        BY <1>6, <1>7, <4>1, <4>3
      <4> QED
        BY <4>2, <4>3
    <3> QED
      BY <2>1, <3>1 DEF HoldingsOK
  <2>6. \A m, n \in Slots :
          Holds(m)' /\ Holds(n)' /\ mbx'[m] = mbx'[n] => m = n
    BY <1>6, <1>7 DEF HoldingsOK
  <2>7. \A s \in Senders, m \in Slots : Holds(m)' => mbx'[m] # own[s]
    BY <1>6, <1>7 DEF HoldingsOK
  <2> QED
    BY <1>1, <2>3, <2>4, <2>5, <2>6, <2>7 DEF HoldingsOK
<1> QED
  BY <1>4, <1>5, <1>12, <1>13, <1>14, <1>15, <1>16, <1>17

-----------------------------------------------------------------------------
LEMMA StepInv ==
  ASSUME Preempt = FALSE
  PROVE  Inv /\ [Next]_vars => Inv'
<1> SUFFICES ASSUME Inv, [Next]_vars PROVE Inv'
  OBVIOUS
<1>1. CASE UNCHANGED vars
  <2> USE DEF Inv
  <2>1. UNCHANGED <<listhead, listtail, listcount, mbx, mbxstate, mbxremove,
                    mbxticket, pool, content, sent, pc, ticket, own, hpc, loc,
                    hstate, hmbx, left, limitcnt>>
    BY <1>1 DEF vars, queue, sender, handler
  <2>2. RingOK' /\ Window' = Window /\ \A l : Dist(l)' = Dist(l)
    BY <2>1, RingSame
  <2>3. TypeOK' /\ HandlerOK'
    BY <2>1, <2>2 DEF TypeOK, HandlerOK, Waiting
  <2>4. EntriesOK' /\ TicketsOK'
    BY <2>1, <2>2 DEF EntriesOK, TicketsOK, Polling
  <2>5. RequestsOK' /\ OrderOK'
    BY <2>1, <2>2
    DEF RequestsOK, ReportedIsSent, OrderOK, GivenUpEntry, Waiting, EntryOf,
        Polling
  <2>6. HoldingsOK'
    BY <2>1, <2>2 DEF HoldingsOK, Holds
  <2> QED
    BY <2>2, <2>3, <2>4, <2>5, <2>6
<1>2. ASSUME NEW s \in Senders, Send(s)
      PROVE  Inv'
  BY <1>2, PrepareInv, AddQueueInv, GiveBackInv, DoneQueueInv, ExpireQueueInv,
     ReturnInv
  DEF Send
<1>3. CASE Handle
  BY <1>3, HandlerReadsInv, WriteInv, ReturnMbxInv, ClearMbxInv,
     RotateQueueInv, DropQueueInv
  DEF Handle
<1> QED
  BY <1>1, <1>2, <1>3 DEF Next

LEMMA AlwaysInv ==
  ASSUME Preempt = FALSE
  PROVE  Spec => []Inv
<1>1. Inv /\ [Next]_vars => Inv'
  BY StepInv
<1> QED
  BY InitInv, <1>1, PTL DEF Spec

(* The indices of the ring stay inside it, every entry and every sender    *)
(* has one of the states and mailboxes the code gives it, and the ring     *)
(* never holds more entries than its size allows.                          *)
THEOREM TypeCorrect ==
  ASSUME Preempt = FALSE
  PROVE  Spec => []TypeOK
<1>1. Inv => TypeOK
  BY DEF Inv
<1> QED
  BY AlwaysInv, <1>1, PTL

(* Every sender that waits has a ticket of its own, which leads to its own *)
(* request until that is written, whatever was rotated, expired and        *)
(* dropped in between.                                                     *)
THEOREM TicketsLead ==
  ASSUME Preempt = FALSE
  PROVE  Spec => []TicketLeadsToRequest
<1>1. Inv => TicketLeadsToRequest
  <2> SUFFICES ASSUME Inv, NEW s \in Polling
               PROVE  /\ EntryOf(s) \in Window
                      /\ mbxstate[EntryOf(s)] \in {"REQ", "FAIL"} =>
                           /\ mbx[EntryOf(s)] # None
                           /\ content[mbx[EntryOf(s)]] = Request(s)
                      /\ \A t \in Polling : t # s => EntryOf(t) # EntryOf(s)
    BY DEF TicketLeadsToRequest, EntryOf, Request
  <2>1. /\ EntryOf(s) \in Window
        /\ \A t \in Polling : t # s => EntryOf(t) # EntryOf(s)
    BY PollingEntry
  <2> QED
    BY <2>1 DEF Inv, RequestsOK, EntriesOK, Waiting
<1> QED
  BY AlwaysInv, <1>1, PTL

(* The number of places a mailbox is in: the pool, a sender, an entry.  An *)
(* entry whose mailbox is back in the pool does not count.                 *)
LEMMA OnePlace ==
  ASSUME Inv, NEW b \in Mailboxes
  PROVE  InPlaces(b)
<1> USE DEF Inv
<1> DEFINE Owners == {s \in Senders : own[s] = b}
           Entries == {l \in Window : mbx[l] = b}
           Held == {l \in Slots : Holds(l) /\ mbx[l] = b}
           cleared == hpc = "clear" /\ hmbx = b /\ mbx[loc] = b
<1>1. b # None /\ \A l \in Window : l \in Slots
  BY RingFacts, MbxQueueAssumption
<1>2. Entries = IF cleared THEN Held \cup {loc} ELSE Held
  <2>1. hpc = "clear" => loc \in Window /\ loc \in Slots /\ hmbx = mbx[loc]
    BY LocIsTail DEF HandlerOK
  <2>2. Held \subseteq Entries
    BY DEF Holds
  <2>3. ASSUME NEW l \in Entries, l \notin Held PROVE cleared /\ l = loc
    BY <1>1, <2>1, <2>3 DEF Holds
  <2> QED
    BY <2>1, <2>2, <2>3
<1>3. loc \notin Held \/ ~ cleared
  BY DEF Holds
<1>4. /\ \A s, t \in Owners : s = t
      /\ \A l, m \in Held : l = m
      /\ b \in pool => Owners = {} /\ Held = {}
      /\ Owners = {} \/ Held = {}
      /\ b \in pool \/ Owners # {} \/ Held # {}
  BY <1>1 DEF HoldingsOK
<1>5. \A S : (\A x, y \in S : x = y) =>
        S = {} \/ \E x : S = {x}
  OBVIOUS
<1>6. /\ Owners = {} \/ \E s : Owners = {s}
      /\ Held = {} \/ \E l : Held = {l}
  BY <1>4, <1>5
<1> HIDE DEF Owners, Held
<1>7. /\ IsFiniteSet(Owners) /\ IsFiniteSet(Held)
      /\ Cardinality(Owners) = IF Owners = {} THEN 0 ELSE 1
      /\ Cardinality(Held) = IF Held = {} THEN 0 ELSE 1
  <2>1. ASSUME NEW S, S = {} \/ \E x : S = {x}
        PROVE  /\ IsFiniteSet(S)
               /\ Cardinality(S) = IF S = {} THEN 0 ELSE 1
    <3>1. CASE S = {}
      BY <3>1, FS_EmptySet
    <3>2. CASE \E x : S = {x}
      <4>1. PICK x : S = {x}
        BY <3>2
      <4>2. IsFiniteSet({x}) /\ Cardinality({x}) = 1 /\ {x} # {}
        BY FS_Singleton
      <4> QED
        BY <4>1, <4>2
    <3> QED
      BY <2>1, <3>1, <3>2
  <2> QED
    BY <1>6, <2>1
<1>8. Cardinality(Entries) = Cardinality(Held) + (IF cleared THEN 1 ELSE 0)
  <2> HIDE DEF Entries, cleared
  <2>1. CASE cleared
    <3>1. Entries = Held \cup {loc} /\ loc \notin Held
      BY <1>2, <1>3, <2>1
    <3>2. Cardinality(Held \cup {loc}) = Cardinality(Held) + 1
      BY <1>7, <3>1, FS_AddElement
    <3> QED
      BY <2>1, <3>1, <3>2
  <2>2. CASE ~ cleared
    BY <1>2, <1>7, <2>2
  <2> QED
    BY <2>1, <2>2
<1>9. Cardinality(Owners) + Cardinality(Entries)
        + (IF b \in pool THEN 1 ELSE 0) - (IF cleared THEN 1 ELSE 0) = 1
  <2> HIDE DEF cleared, Entries
  <2> QED
    BY <1>4, <1>7, <1>8
<1> QED
  BY <1>9 DEF InPlaces, Owners

(* No mailbox is lost and none is in two places, and the handler writes    *)
(* only mailboxes that are not back in the pool.                           *)
THEOREM MailboxesAccountedFor ==
  ASSUME Preempt = FALSE
  PROVE  Spec => []MbxAccountedFor
<1>1. Inv => MbxAccountedFor
  <2> SUFFICES ASSUME Inv PROVE MbxAccountedFor
    OBVIOUS
  <2>1. WritesOwnedMbx
    <3> SUFFICES ASSUME hpc = "write" PROVE hmbx # None /\ hmbx \notin pool
      BY DEF WritesOwnedMbx
    <3>1. Waiting(loc) /\ hmbx = mbx[loc] /\ loc \in Slots
      BY LocIsTail DEF Inv, HandlerOK
    <3>2. Holds(loc)
      BY <3>1, WaitingHolds
    <3> QED
      BY <3>1, <3>2 DEF Holds, Inv, HoldingsOK
  <2> QED
    BY <2>1, OnePlace DEF MbxAccountedFor
<1> QED
  BY AlwaysInv, <1>1, PTL

(* A sender that is told its mailbox was sent has had it sent: no state of *)
(* an earlier entry in the slot is taken for its own.                      *)
THEOREM ReportsAreTrue ==
  ASSUME Preempt = FALSE
  PROVE  Spec => []ReportedIsSent
<1>1. Inv => ReportedIsSent
  BY DEF Inv, RequestsOK
<1> QED
  BY AlwaysInv, <1>1, PTL

(* The handler never offers a slave what its sender gave up once it has    *)
(* sent the sender's next request.                                         *)
THEOREM GivenUpStaysBehind ==
  ASSUME Preempt = FALSE
  PROVE  Spec => NoOvertaking
<1>1. Inv /\ hpc = "write" /\ content[hmbx].old
        => content[hmbx].who \notin sent
  <2> SUFFICES ASSUME Inv, hpc = "write", content[hmbx].old
               PROVE  content[hmbx].who \notin sent
    OBVIOUS
  <2>1. Waiting(loc) /\ hmbx = mbx[loc] /\ loc \in Slots
    BY LocIsTail DEF Inv, HandlerOK
  <2>2. mbxremove[loc]
    <3> SUFFICES ASSUME ~ mbxremove[loc] PROVE FALSE
      OBVIOUS
    <3>1. PICK s \in Polling : EntryOf(s) = loc
      BY <2>1, EntrySender DEF Waiting
    <3>2. content[mbx[EntryOf(s)]] = Request(s)
      BY <2>1, <3>1 DEF Inv, RequestsOK
    <3>3. ~ content[hmbx].old
      BY <2>1, <3>1, <3>2 DEF Request
    <3> QED
      BY <3>3
  <2> QED
    BY <2>1, <2>2 DEF Inv, OrderOK, GivenUpEntry
<1> QED
  BY AlwaysInv, <1>1, PTL DEF NoOvertaking, Spec

=============================================================================
