------------------------------ MODULE MbxQueue ------------------------------
(***************************************************************************)
(* Sending mailboxes through the cyclic handler                            *)
(* (native/soem/src/ec_main.c: ecx_mbxsend for a slave in cyclic mode, the *)
(* transmit queue of its group, ecx_mbxouthandler).                        *)
(*                                                                         *)
(* A sender fills a mailbox from the pool, queues it and polls its ticket. *)
(* One handler thread writes the mailbox at the tail of the queue to its   *)
(* slave, moves the entry to the head so that other slaves get their turn, *)
(* and drops it when its sender has marked it for removal.  The operations *)
(* of the queue hold its mutex and are one step each; the handler reads    *)
(* and writes entries without it, and its accesses are steps of their own. *)
(*                                                                         *)
(* The pool is the set of free mailboxes, as BufferPool specifies it.      *)
(***************************************************************************)
EXTENDS Integers, FiniteSets

CONSTANTS
  Senders,    \* threads that call ecx_mbxsend, each for a slave of its own
  Wavering,   \* the senders whose slave is below PRE_OP at times
  Patient,    \* the senders whose timer does not expire
  QueueSize,  \* EC_MBXPOOLSIZE, the slots of a queue
  Mailboxes,  \* the mailboxes of the pool
  Limit,      \* mailboxes one call of the handler writes (its limit + 1)
  Preempt     \* whether senders run while the handler looks at mbxremove

None == -1

ASSUME MbxQueueAssumption ==
  /\ Wavering \subseteq Senders /\ Patient \subseteq Senders
  /\ QueueSize \in Nat \ {0}
  /\ Limit \in Nat \ {0}
  /\ Preempt \in BOOLEAN
  /\ None \notin Senders /\ None \notin Mailboxes

Slots == 0 .. QueueSize - 1

VARIABLES
  listhead, listtail, listcount,  \* the ring of entries
  mbx,         \* mbx[l]: the mailbox of the entry in slot l, or None (NULL)
  mbxstate,    \* mbxstate[l]: EC_MBXQUEUESTATE_*
  mbxremove,   \* mbxremove[l]: the sender has no more interest in the entry
  mbxticket,   \* mbxticket[k]: the slot of the entry with ticket k, or None
  pool,        \* the free mailboxes
  content,     \* content[b]: whose request is in mailbox b, "old" when given up
  sent,        \* senders whose current request the slave has taken
  pc,          \* where each sender is
  ticket,      \* ticket of each sender (local variable), or None
  own,         \* the mailbox a sender holds before it is queued, or None
  hpc,         \* where the handler is
  loc,         \* ticketloc of the handler
  hstate,      \* state, as the handler read it
  hmbx,        \* the mailbox the handler writes
  left,        \* listcount of the handler: entries it still looks at
  limitcnt     \* limitcnt of the handler

queue == <<listhead, listtail, listcount, mbx, mbxstate, mbxremove,
           mbxticket>>
sender == <<pc, ticket, own>>
handler == <<hpc, loc, hstate, hmbx, left, limitcnt>>
vars == <<queue, pool, content, sent, sender, handler>>

States == {"NONE", "REQ", "FAIL", "DONE"}
Nothing == [who |-> None, old |-> TRUE]
Contents == [who : Senders, old : BOOLEAN] \cup {Nothing}

TypeOK ==
  /\ listhead \in Slots /\ listtail \in Slots
  /\ listcount \in 0 .. QueueSize
  /\ mbx \in [Slots -> Mailboxes \cup {None}]
  /\ mbxstate \in [Slots -> States]
  /\ mbxremove \in [Slots -> BOOLEAN]
  /\ mbxticket \in [Slots -> Slots \cup {None}]
  /\ pool \subseteq Mailboxes
  /\ content \in [Mailboxes -> Contents]
  /\ sent \subseteq Senders
  /\ pc \in [Senders -> {"idle", "add", "poll", "ok", "failed"}]
  /\ ticket \in [Senders -> Slots \cup {None}]
  /\ own \in [Senders -> Mailboxes \cup {None}]
  /\ hpc \in {"idle", "fetch", "write", "return", "clear", "rotate",
              "check", "drop"}
  /\ loc \in Slots
  /\ hstate \in States
  /\ hmbx \in Mailboxes \cup {None}
  /\ left \in 0 .. QueueSize
  /\ limitcnt \in 0 .. Limit

Init ==
  /\ listhead = 0 /\ listtail = 0 /\ listcount = 0
  /\ mbx = [l \in Slots |-> None]
  /\ mbxstate = [l \in Slots |-> "NONE"]
  /\ mbxremove = [l \in Slots |-> FALSE]
  /\ mbxticket = [k \in Slots |-> None]
  /\ pool = Mailboxes
  /\ content = [b \in Mailboxes |-> Nothing]
  /\ sent = {}
  /\ pc = [s \in Senders |-> "idle"]
  /\ ticket = [s \in Senders |-> None]
  /\ own = [s \in Senders |-> None]
  /\ hpc = "idle" /\ loc = 0 /\ hstate = "NONE" /\ hmbx = None
  /\ left = 0 /\ limitcnt = 0

Succ(l) == IF l + 1 >= QueueSize THEN 0 ELSE l + 1
Goto(s, label) == pc' = [pc EXCEPT ![s] = label]

(* The handler is not interrupted between its look at mbxremove and the    *)
(* rotation before, unless Preempt says so.                                *)
MayRun == Preempt \/ hpc \notin {"check", "drop"}

-----------------------------------------------------------------------------
(* The sender: ecx_getmbx and the start of ecx_mbxsend.                    *)
Prepare(s) ==
  /\ pc[s] = "idle" /\ MayRun
  /\ \E b \in pool :
       /\ pool' = pool \ {b}
       /\ own' = [own EXCEPT ![s] = b]
       /\ content' = [content EXCEPT ![b] = [who |-> s, old |-> FALSE]]
  /\ Goto(s, "add")
  /\ UNCHANGED <<queue, sent, ticket, handler>>

(* The first ticket nobody holds.                                          *)
FreeTicket ==
  CHOOSE k \in Slots : /\ mbxticket[k] = None
                       /\ \A j \in Slots : mbxticket[j] = None => k <= j

(* Mutant: the entry keeps the state of the one that had the slot before.  *)
AddQueueStale(s) ==
  /\ pc[s] = "add" /\ MayRun
  /\ listcount < QueueSize
  /\ ticket' = [ticket EXCEPT ![s] = FreeTicket]
  /\ mbxticket' = [mbxticket EXCEPT ![FreeTicket] = listhead]
  /\ mbx' = [mbx EXCEPT ![listhead] = own[s]]
  /\ mbxstate' = [mbxstate EXCEPT ![listhead] = IF @ = "NONE" THEN "REQ" ELSE @]
  /\ mbxremove' = [mbxremove EXCEPT ![listhead] = FALSE]
  /\ listhead' = Succ(listhead)
  /\ listcount' = listcount + 1
  /\ own' = [own EXCEPT ![s] = None]
  /\ Goto(s, "poll")
  /\ UNCHANGED <<listtail, pool, content, sent, handler>>

(* Mutant: the new entry is the next one the handler looks at.             *)
AddQueueAtTail(s) ==
  LET l == (listtail + QueueSize - 1) % QueueSize
  IN  /\ pc[s] = "add" /\ MayRun
      /\ listcount < QueueSize
      /\ ticket' = [ticket EXCEPT ![s] = FreeTicket]
      /\ mbxticket' = [mbxticket EXCEPT ![FreeTicket] = l]
      /\ mbx' = [mbx EXCEPT ![l] = own[s]]
      /\ mbxstate' = [mbxstate EXCEPT ![l] = "REQ"]
      /\ mbxremove' = [mbxremove EXCEPT ![l] = FALSE]
      /\ listtail' = l
      /\ listcount' = listcount + 1
      /\ own' = [own EXCEPT ![s] = None]
      /\ Goto(s, "poll")
      /\ UNCHANGED <<listhead, pool, content, sent, handler>>

(* ecx_mbxaddqueue; a full queue returns -1 and the sender tries again.    *)
AddQueue(s) ==
  /\ pc[s] = "add" /\ MayRun
  /\ listcount < QueueSize
  /\ ticket' = [ticket EXCEPT ![s] = FreeTicket]
  /\ mbxticket' = [mbxticket EXCEPT ![FreeTicket] = listhead]
  /\ mbx' = [mbx EXCEPT ![listhead] = own[s]]
  /\ mbxstate' = [mbxstate EXCEPT ![listhead] = "REQ"]
  /\ mbxremove' = [mbxremove EXCEPT ![listhead] = FALSE]
  /\ listhead' = Succ(listhead)
  /\ listcount' = listcount + 1
  /\ own' = [own EXCEPT ![s] = None]
  /\ Goto(s, "poll")
  /\ UNCHANGED <<listtail, pool, content, sent, handler>>

(* The timer expires before the mailbox found a place: it goes back.       *)
GiveBack(s) ==
  /\ pc[s] = "add" /\ MayRun
  /\ listcount = QueueSize /\ s \notin Patient
  /\ pool' = pool \cup {own[s]}
  /\ content' = [content EXCEPT ![own[s]] = Nothing]
  /\ own' = [own EXCEPT ![s] = None]
  /\ Goto(s, "failed")
  /\ UNCHANGED <<queue, sent, ticket, handler>>

(* Mutant: the sender gives up its ticket and leaves the entry unmarked.   *)
MarkForgotten(s) ==
  /\ mbxticket' = [mbxticket EXCEPT ![ticket[s]] = None]
  /\ ticket' = [ticket EXCEPT ![s] = None]
  /\ UNCHANGED <<listhead, listtail, listcount, mbx, mbxstate, mbxremove>>

MarkRemoved(s) ==
  /\ mbxremove' = [mbxremove EXCEPT ![mbxticket[ticket[s]]] = TRUE]
  /\ mbxticket' = [mbxticket EXCEPT ![ticket[s]] = None]
  /\ ticket' = [ticket EXCEPT ![s] = None]
  /\ UNCHANGED <<listhead, listtail, listcount, mbx, mbxstate>>

(* ecx_mbxdonequeue finds the mailbox written.                             *)
DoneQueue(s) ==
  /\ pc[s] = "poll" /\ MayRun
  /\ mbxstate[mbxticket[ticket[s]]] = "DONE"
  /\ MarkRemoved(s)
  /\ Goto(s, "ok")
  /\ UNCHANGED <<pool, content, sent, own, handler>>

(* ecx_mbxexpirequeue, at the latest after the last poll has failed: the   *)
(* entry stays queued, and what it holds may still be written.             *)
GivenUp(s) ==
  [b \in Mailboxes |->
     IF content[b] = [who |-> s, old |-> FALSE]
     THEN [who |-> s, old |-> TRUE] ELSE content[b]]

ExpireQueue(s) ==
  /\ pc[s] = "poll" /\ MayRun
  /\ s \notin Patient
  /\ IF mbxstate[mbxticket[ticket[s]]] # "NONE"
     THEN MarkRemoved(s)
     ELSE /\ ticket' = [ticket EXCEPT ![s] = None]
          /\ UNCHANGED queue
  /\ content' = GivenUp(s)
  /\ sent' = sent \ {s}
  /\ Goto(s, "failed")
  /\ UNCHANGED <<pool, own, handler>>

(* ecx_mbxsend returns; the next request of the sender begins.             *)
Return(s) ==
  /\ pc[s] \in {"ok", "failed"} /\ MayRun
  /\ sent' = sent \ {s}
  /\ Goto(s, "idle")
  /\ UNCHANGED <<queue, pool, content, ticket, own, handler>>

-----------------------------------------------------------------------------
(* ecx_mbxouthandler.  It reads listcount once and looks at no more        *)
(* entries than that in one call.                                          *)
HandlerStart ==
  /\ hpc = "idle"
  /\ listcount > 0
  /\ left' = listcount
  /\ limitcnt' = 0
  /\ hpc' = "fetch"
  /\ UNCHANGED <<queue, pool, content, sent, sender, loc, hstate, hmbx>>

HandlerFetch ==
  /\ hpc = "fetch"
  /\ IF left = 0 \/ limitcnt = Limit
     THEN /\ hpc' = "idle" /\ left' = 0 /\ limitcnt' = 0
          /\ UNCHANGED <<loc, hstate, hmbx>>
     ELSE /\ left' = left - 1
          /\ loc' = listtail
          /\ hstate' = mbxstate[listtail]
          /\ hmbx' = mbx[listtail]
          /\ IF mbxstate[listtail] \in {"REQ", "FAIL"}
             THEN hpc' = "write" /\ limitcnt' = limitcnt + 1
             ELSE /\ hpc' = IF mbxstate[listtail] = "DONE" THEN "rotate"
                            ELSE "check"
                  /\ UNCHANGED limitcnt
  /\ UNCHANGED <<queue, pool, content, sent, sender>>

(* The slave is below PRE_OP: nothing is written.                          *)
WriteSkipped ==
  /\ hpc = "write"
  /\ content[hmbx].who \in Wavering
  /\ hpc' = "rotate"
  /\ UNCHANGED <<queue, pool, content, sent, sender, loc, hstate, hmbx,
                 left, limitcnt>>

Take(s) == sent' = IF content[hmbx].old THEN sent ELSE sent \cup {s}

(* The slave takes the mailbox and the working counter says so.            *)
WriteOk ==
  /\ hpc = "write"
  /\ Take(content[hmbx].who)
  /\ mbxstate' = [mbxstate EXCEPT ![loc] = "DONE"]
  /\ hpc' = "return"
  /\ UNCHANGED <<listhead, listtail, listcount, mbx, mbxremove, mbxticket,
                 pool, content, sender, loc, hstate, hmbx, left, limitcnt>>

(* No working counter: the slave's mailbox is full, or the frame is lost   *)
(* on its way there, or on its way back.                                   *)
WriteFailed ==
  /\ hpc = "write"
  /\ Take(content[hmbx].who) \/ UNCHANGED sent
  /\ mbxstate' = [mbxstate EXCEPT ![loc] = IF hstate = "FAIL" THEN @ ELSE "FAIL"]
  /\ hpc' = "rotate"
  /\ UNCHANGED <<listhead, listtail, listcount, mbx, mbxremove, mbxticket,
                 pool, content, sender, loc, hstate, hmbx, left, limitcnt>>

(* The mailbox goes back to the pool before the entry forgets it.          *)
ReturnMbx ==
  /\ hpc = "return"
  /\ pool' = pool \cup {hmbx}
  /\ content' = [content EXCEPT ![hmbx] = Nothing]
  /\ hpc' = "clear"
  /\ UNCHANGED <<queue, sent, sender, loc, hstate, hmbx, left, limitcnt>>

ClearMbx ==
  /\ hpc = "clear"
  /\ mbx' = [mbx EXCEPT ![loc] = None]
  /\ hmbx' = None
  /\ hpc' = "rotate"
  /\ UNCHANGED <<listhead, listtail, listcount, mbxstate, mbxremove,
                 mbxticket, pool, content, sent, sender, loc, hstate, left,
                 limitcnt>>

-----------------------------------------------------------------------------
TicketOf(l) == {k \in Slots : mbxticket[k] = l}

(* Mutant: the tail stays where it is.                                     *)
RotateNoTail(k) ==
  /\ mbxticket' = [mbxticket EXCEPT ![k] = listhead]
  /\ mbxremove' = [mbxremove EXCEPT ![listhead] = mbxremove[listtail]]
  /\ mbxstate' = [mbxstate EXCEPT ![listhead] = mbxstate[listtail]]
  /\ mbx' = [mbx EXCEPT ![listhead] = mbx[listtail]]
  /\ listhead' = Succ(listhead)
  /\ UNCHANGED listtail

Rotate(k) ==
  /\ mbxticket' = [mbxticket EXCEPT ![k] = listhead]
  /\ mbxremove' = [mbxremove EXCEPT ![listhead] = mbxremove[listtail]]
  /\ mbxstate' = [mbxstate EXCEPT ![listhead] = mbxstate[listtail]]
  /\ mbx' = [mbx EXCEPT ![listhead] = mbx[listtail]]
  /\ listhead' = Succ(listhead)
  /\ listtail' = Succ(listtail)

(* ecx_mbxrotatequeue: not in a full queue, and not an entry whose ticket  *)
(* is gone.  The slot at the old tail keeps its values.                    *)
RotateQueue ==
  /\ hpc = "rotate"
  /\ IF listhead # listtail /\ TicketOf(loc) # {}
     THEN Rotate(CHOOSE k \in TicketOf(loc) : TRUE)
     ELSE UNCHANGED <<mbxticket, mbxremove, mbxstate, mbx, listhead, listtail>>
  /\ hpc' = "check"
  /\ UNCHANGED <<listcount, pool, content, sent, sender, loc, hstate, hmbx,
                 left, limitcnt>>

CheckRemove ==
  /\ hpc = "check"
  /\ hpc' = IF mbxremove[loc] THEN "drop" ELSE "fetch"
  /\ hmbx' = IF mbxremove[loc] THEN hmbx ELSE None
  /\ UNCHANGED <<queue, pool, content, sent, sender, loc, hstate, left,
                 limitcnt>>

(* Mutant: the mailbox of the dropped entry does not go back to the pool.  *)
DropKeepingMbx ==
  /\ hpc = "drop"
  /\ mbxstate' = [mbxstate EXCEPT ![loc] = "NONE"]
  /\ mbxremove' = [mbxremove EXCEPT ![loc] = FALSE]
  /\ mbx' = [mbx EXCEPT ![loc] = None]
  /\ listtail' = Succ(listtail)
  /\ listcount' = listcount - 1
  /\ hmbx' = None
  /\ hpc' = "fetch"
  /\ UNCHANGED <<listhead, mbxticket, pool, content, sent, sender, loc,
                 hstate, left, limitcnt>>

(* ecx_mbxdropqueue, and the mailbox goes back to the pool if the entry    *)
(* still has it.                                                           *)
DropQueue ==
  /\ hpc = "drop"
  /\ mbxstate' = [mbxstate EXCEPT ![loc] = "NONE"]
  /\ mbxremove' = [mbxremove EXCEPT ![loc] = FALSE]
  /\ mbx' = [mbx EXCEPT ![loc] = None]
  /\ listtail' = Succ(listtail)
  /\ listcount' = listcount - 1
  /\ IF mbx[loc] = None THEN UNCHANGED <<pool, content>>
     ELSE /\ pool' = pool \cup {mbx[loc]}
          /\ content' = [content EXCEPT ![mbx[loc]] = Nothing]
  /\ hmbx' = None
  /\ hpc' = "fetch"
  /\ UNCHANGED <<listhead, mbxticket, sent, sender, loc, hstate, left,
                 limitcnt>>

-----------------------------------------------------------------------------
Send(s) ==
  \/ Prepare(s) \/ AddQueue(s) \/ GiveBack(s) \/ DoneQueue(s)
  \/ ExpireQueue(s) \/ Return(s)

Handle ==
  \/ HandlerStart \/ HandlerFetch
  \/ WriteSkipped \/ WriteOk \/ WriteFailed \/ ReturnMbx \/ ClearMbx
  \/ RotateQueue \/ CheckRemove \/ DropQueue

Next == (\E s \in Senders : Send(s)) \/ Handle

Spec == Init /\ [][Next]_vars

(* The handler is called in every cycle, a slave that stays up takes its   *)
(* mailbox when it is offered often enough, and a sender inside its call   *)
(* polls until it sees a free slot or its request done, or its timer ends. *)
Poll(s) == AddQueue(s) \/ DoneQueue(s) \/ ExpireQueue(s) \/ Return(s)

Fairness ==
  /\ WF_vars(Handle)
  /\ \A s \in Senders \ Wavering : SF_vars(WriteOk /\ content[hmbx].who = s)
  /\ \A s \in Senders : SF_vars(Poll(s))

FairSpec == Spec /\ Fairness

-----------------------------------------------------------------------------
(* The slots between tail and head.                                        *)
Window == {(listtail + i) % QueueSize : i \in 0 .. listcount - 1}

Polling == {s \in Senders : pc[s] = "poll"}

(* Every sender that waits has a ticket of its own, and the ticket leads   *)
(* to its own entry, in the part of the ring the handler works through,    *)
(* until the mailbox is written.                                           *)
TicketLeadsToRequest ==
  \A s \in Polling :
    LET l == mbxticket[ticket[s]]
    IN  /\ l \in Window
        /\ mbxstate[l] \in {"REQ", "FAIL"} =>
             mbx[l] # None /\ content[mbx[l]] = [who |-> s, old |-> FALSE]
        /\ \A t \in Polling : t # s => mbxticket[ticket[t]] # l

(* The handler never writes a mailbox that is back in the pool.            *)
WritesOwnedMbx == hpc = "write" => hmbx # None /\ hmbx \notin pool

(* Ownership of the mailbox goes to the queue and back to the pool: every  *)
(* mailbox is free, or held by a sender, or in an entry the handler will   *)
(* come to, and in one of these places only.                               *)
InPlaces(b) ==
  /\ Cardinality({s \in Senders : own[s] = b})
     + Cardinality({l \in Window : mbx[l] = b})
     + (IF b \in pool THEN 1 ELSE 0)
     - (IF hpc = "clear" /\ hmbx = b /\ mbx[loc] = b THEN 1 ELSE 0) = 1

MbxAccountedFor ==
  /\ \A b \in Mailboxes : InPlaces(b)
  /\ WritesOwnedMbx

(* A sender that is told its mailbox was sent has had it sent.             *)
ReportedIsSent == \A s \in Senders : pc[s] = "ok" => s \in sent

(* A request the sender gave up may reach the slave late, but never after  *)
(* a later request of the same sender.                                     *)
NoOvertaking ==
  [][hpc = "write" /\ hpc' # "write" /\ content[hmbx].old
       => content[hmbx].who \notin sent]_vars

(* A request to a slave that is up is sent, although other requests in the *)
(* queue are for slaves that may not be, and expire.                       *)
SentInTheEnd ==
  \A s \in Patient \ Wavering : pc[s] \in {"add", "poll"} ~> pc[s] = "ok"

=============================================================================
