------------------------------- MODULE NicDrv -------------------------------
(***************************************************************************)
(* The frame layer of the master (native/soem/oshw/linux/nicdrv.c, the     *)
(* win32 driver differs only in the capture calls): MaxBuf indexed frame   *)
(* buffers shared by the threads that talk to the segment.  A thread takes *)
(* an index, builds a datagram in the tx buffer of that index, transmits   *)
(* it and polls for the frame that comes back with the same index.  Any    *)
(* thread that reads the socket may read the frame of another one, and     *)
(* parks it in the other's rx buffer.                                      *)
(*                                                                         *)
(* One thread step is one access to shared state: threads run in parallel  *)
(* and only getindex_mutex and rx_mutex order them.  This is the single    *)
(* NIC mode (redstate = ECT_RED_NONE), the only one the wrapper opens.     *)
(***************************************************************************)
EXTENDS Integers, FiniteSets

CONSTANTS
  Threads,    \* threads that exchange frames over one port
  MaxBuf,     \* EC_MAXBUF, the number of frame buffers
  MaxTx,      \* bound on the transmissions timer1 leaves room for
  MaxAge,     \* getindex calls a frame can outlive the one that named it
  SendFails,  \* whether send() may return -1
  Preempt     \* whether a thread may be preempted while it parks a frame

Idx == 0 .. MaxBuf - 1
None == -1

ASSUME NicAssumption ==
  /\ IsFiniteSet(Threads)
  /\ MaxBuf \in Nat \ {0}
  /\ MaxTx \in Nat \ {0}
  /\ MaxAge \in Nat
  /\ SendFails \in BOOLEAN
  /\ Preempt \in BOOLEAN
  /\ None \notin Threads

VARIABLES
  rxbufstat,  \* rxbufstat[i]: the EC_BUF_* status of buffer i
  rxbuf,      \* rxbuf[i]: the request whose reply lies in rx buffer i
  txbuf,      \* txbuf[i]: the request built in tx buffer i
  lastidx,    \* last index handed out
  rxmutex,    \* holder of rx_mutex, or None
  net,        \* frames on the wire and in the socket's receive queue
  pc,         \* where each thread is
  idx,        \* index each thread works with (local variable idx), or None
  tx,         \* transmissions of the current request so far
  age,        \* getindex calls since the one that gave idx (history)
  temp        \* the frame in tempinbuf, with the thread that parks it

vars == <<rxbufstat, rxbuf, txbuf, lastidx, rxmutex, net, pc, idx, tx,
          age, temp>>

BufStat == {"EMPTY", "ALLOC", "TX", "RCVD", "COMPLETE"}

(* A frame or a buffer holds the current request of a thread, or a request *)
(* that is over: the content of a datagram matters no further.             *)
Over == None
Requests == Threads \cup {Over}

Frames == [idx : Idx, req : Requests, tx : 0 .. MaxTx, age : 0 .. MaxAge]
NoFrame == [idx |-> None, req |-> Over, tx |-> 0, age |-> 0]

Finished(t, r) == IF r = t THEN Over ELSE r
Retired(t, f) == [f EXCEPT !.req = Finished(t, @)]

Labels == {"idle", "setup", "mark", "send", "poll", "lock", "locked",
           "park", "missed", "replied", "failed"}

TypeOK ==
  /\ rxbufstat \in [Idx -> BufStat]
  /\ rxbuf \in [Idx -> Requests]
  /\ txbuf \in [Idx -> Requests]
  /\ lastidx \in Idx
  /\ rxmutex \in Threads \cup {None}
  /\ net \in SUBSET Frames
  /\ pc \in [Threads -> Labels]
  /\ idx \in [Threads -> Idx \cup {None}]
  /\ tx \in [Threads -> 0 .. MaxTx]
  /\ age \in [Threads -> 0 .. MaxAge + 1]
  /\ temp \in Frames \cup {NoFrame}

Init ==
  /\ rxbufstat = [i \in Idx |-> "EMPTY"]
  /\ rxbuf = [i \in Idx |-> Over]
  /\ txbuf = [i \in Idx |-> Over]
  /\ lastidx = 0
  /\ rxmutex = None
  /\ net = {}
  /\ pc = [t \in Threads |-> "idle"]
  /\ idx = [t \in Threads |-> None]
  /\ tx = [t \in Threads |-> 0]
  /\ age = [t \in Threads |-> 0]
  /\ temp = NoFrame

Goto(t, label) == pc' = [pc EXCEPT ![t] = label]
SetStat(i, s) == rxbufstat' = [rxbufstat EXCEPT ![i] = s]

-----------------------------------------------------------------------------
(* Index allocation.  The scan starts behind lastidx and takes the first   *)
(* empty buffer; after MaxBuf busy ones it is back where it started and    *)
(* takes that index although it is in use.                                 *)

After(i, k) == (i + k) % MaxBuf

(* Mutants: no search for an unused index; a search from the first buffer. *)
NextIdxUnsearched == After(lastidx, 1)

NextIdxFromFirst ==
  IF \A i \in Idx : rxbufstat[i] # "EMPTY" THEN After(lastidx, 1)
  ELSE CHOOSE i \in Idx : /\ rxbufstat[i] = "EMPTY"
                         /\ \A j \in Idx : rxbufstat[j] = "EMPTY" => i <= j

NextIdx ==
  LET free == {k \in 1 .. MaxBuf : rxbufstat[After(lastidx, k)] = "EMPTY"}
  IN  IF free = {} THEN After(lastidx, 1)
      ELSE After(lastidx, CHOOSE k \in free : \A j \in free : k <= j)

(* A frame grows one call older; one that is too old has left the wire.    *)
Aged(frames) ==
  {[f EXCEPT !.age = @ + 1] : f \in {g \in frames : g.age < MaxAge}}

Older(n) == IF n <= MaxAge THEN n + 1 ELSE n

GetIndex(t) ==
  /\ pc[t] = "idle"
  /\ idx' = [idx EXCEPT ![t] = NextIdx]
  /\ lastidx' = NextIdx
  /\ SetStat(NextIdx, "ALLOC")
  /\ age' = [u \in Threads |-> IF u = t \/ idx[u] = None THEN 0
                               ELSE Older(age[u])]
  /\ net' = Aged(net)
  /\ Goto(t, "setup")
  /\ UNCHANGED <<rxbuf, txbuf, rxmutex, tx, temp>>

SetupDatagram(t) ==
  /\ pc[t] = "setup"
  /\ txbuf' = [txbuf EXCEPT ![idx[t]] = t]
  /\ Goto(t, "mark")
  /\ UNCHANGED <<rxbufstat, rxbuf, lastidx, rxmutex, net, idx, tx, age,
                 temp>>

-----------------------------------------------------------------------------
(* ecx_outframe: the status goes to TX before the frame leaves, and back   *)
(* to EMPTY when send() fails.  The caller keeps polling in either case.   *)

(* Mutant: the buffer is not marked as waiting for its frame.              *)
OutframeUnmarked(t) ==
  /\ pc[t] = "mark"
  /\ Goto(t, "send")
  /\ UNCHANGED <<rxbufstat, rxbuf, txbuf, lastidx, rxmutex, net, idx, tx, age,
                 temp>>

OutframeMark(t) ==
  /\ pc[t] = "mark"
  /\ SetStat(idx[t], "TX")
  /\ Goto(t, "send")
  /\ UNCHANGED <<rxbuf, txbuf, lastidx, rxmutex, net, idx, tx, age, temp>>

(* The frame comes back, or it is lost, or it comes too late to matter.    *)
OutframeSent(t) ==
  /\ pc[t] = "send"
  /\ \/ /\ age[t] <= MaxAge
        /\ net' = net \cup {[idx |-> idx[t], req |-> txbuf[idx[t]],
                             tx |-> tx[t], age |-> age[t]]}
     \/ net' = net
  /\ tx' = [tx EXCEPT ![t] = @ + 1]
  /\ Goto(t, "poll")
  /\ UNCHANGED <<rxbufstat, rxbuf, txbuf, lastidx, rxmutex, idx, age, temp>>

OutframeFailed(t) ==
  /\ SendFails
  /\ pc[t] = "send"
  /\ SetStat(idx[t], "EMPTY")
  /\ tx' = [tx EXCEPT ![t] = @ + 1]
  /\ Goto(t, "poll")
  /\ UNCHANGED <<rxbuf, txbuf, lastidx, rxmutex, net, idx, age, temp>>

-----------------------------------------------------------------------------
(* ecx_inframe: look into the own buffer, then take rx_mutex, look again,  *)
(* and only then read the socket.                                          *)

InframeReady(t) ==
  /\ pc[t] \in {"poll", "missed"}
  /\ rxbufstat[idx[t]] = "RCVD"
  /\ SetStat(idx[t], "COMPLETE")
  /\ Goto(t, "replied")
  /\ UNCHANGED <<rxbuf, txbuf, lastidx, rxmutex, net, idx, tx, age, temp>>

InframeNotReady(t) ==
  /\ pc[t] \in {"poll", "missed"}
  /\ rxbufstat[idx[t]] # "RCVD"
  /\ Goto(t, "lock")
  /\ UNCHANGED <<rxbufstat, rxbuf, txbuf, lastidx, rxmutex, net, idx, tx,
                 age, temp>>

LockRx(t) ==
  /\ pc[t] = "lock"
  /\ rxmutex = None
  /\ rxmutex' = t
  /\ Goto(t, "locked")
  /\ UNCHANGED <<rxbufstat, rxbuf, txbuf, lastidx, net, idx, tx, age, temp>>

(* Another thread received the frame while this one waited for the mutex.  *)
LockedReady(t) ==
  /\ pc[t] = "locked"
  /\ rxbufstat[idx[t]] = "RCVD"
  /\ SetStat(idx[t], "COMPLETE")
  /\ rxmutex' = None
  /\ Goto(t, "replied")
  /\ UNCHANGED <<rxbuf, txbuf, lastidx, net, idx, tx, age, temp>>

(* recv() finds nothing: what is on the wire need not have arrived yet.    *)
RecvNothing(t) ==
  /\ pc[t] = "locked"
  /\ rxbufstat[idx[t]] # "RCVD"
  /\ rxmutex' = None
  /\ Goto(t, "missed")
  /\ UNCHANGED <<rxbufstat, rxbuf, txbuf, lastidx, net, idx, tx, age, temp>>

RecvOwn(t, f) ==
  /\ pc[t] = "locked"
  /\ rxbufstat[idx[t]] # "RCVD"
  /\ f.idx = idx[t]
  /\ net' = net \ {f}
  /\ rxbuf' = [rxbuf EXCEPT ![idx[t]] = f.req]
  /\ SetStat(idx[t], "COMPLETE")
  /\ rxmutex' = None
  /\ Goto(t, "replied")
  /\ UNCHANGED <<txbuf, lastidx, idx, tx, age, temp>>

(* Mutant: any frame is parked, whether its owner waits for it or not.     *)
RecvOtherUnchecked(t, f) ==
  /\ pc[t] = "locked"
  /\ rxbufstat[idx[t]] # "RCVD"
  /\ f.idx # idx[t]
  /\ net' = net \ {f}
  /\ rxbuf' = [rxbuf EXCEPT ![f.idx] = f.req]
  /\ SetStat(f.idx, "RCVD")
  /\ rxmutex' = None
  /\ Goto(t, "missed")
  /\ UNCHANGED <<temp, txbuf, lastidx, idx, tx, age>>

(* A frame of another thread is copied when that thread is waiting for it, *)
(* and its status is published after the copy.                             *)
RecvOther(t, f) ==
  /\ pc[t] = "locked"
  /\ rxbufstat[idx[t]] # "RCVD"
  /\ f.idx # idx[t]
  /\ rxbufstat[f.idx] = "TX"
  /\ net' = net \ {f}
  /\ rxbuf' = [rxbuf EXCEPT ![f.idx] = f.req]
  /\ IF Preempt
     THEN /\ temp' = f
          /\ Goto(t, "park")
          /\ UNCHANGED <<rxbufstat, rxmutex>>
     ELSE /\ SetStat(f.idx, "RCVD")
          /\ rxmutex' = None
          /\ Goto(t, "missed")
          /\ UNCHANGED temp
  /\ UNCHANGED <<txbuf, lastidx, idx, tx, age>>

Park(t) ==
  /\ pc[t] = "park"
  /\ SetStat(temp.idx, "RCVD")
  /\ temp' = NoFrame
  /\ rxmutex' = None
  /\ Goto(t, "missed")
  /\ UNCHANGED <<rxbuf, txbuf, lastidx, net, idx, tx, age>>

(* A frame that nobody waits for is dropped.                               *)
RecvStray(t, f) ==
  /\ pc[t] = "locked"
  /\ rxbufstat[idx[t]] # "RCVD"
  /\ f.idx # idx[t]
  /\ rxbufstat[f.idx] # "TX"
  /\ net' = net \ {f}
  /\ rxmutex' = None
  /\ Goto(t, "missed")
  /\ UNCHANGED <<rxbufstat, rxbuf, txbuf, lastidx, idx, tx, age, temp>>

-----------------------------------------------------------------------------
(* ecx_waitinframe_red and ecx_srconfirm: poll until timer2 expires, then  *)
(* transmit again until timer1 expires.                                    *)

Retransmit(t) ==
  /\ pc[t] = "missed"
  /\ tx[t] < MaxTx
  /\ Goto(t, "mark")
  /\ UNCHANGED <<rxbufstat, rxbuf, txbuf, lastidx, rxmutex, net, idx, tx,
                 age, temp>>

(* Mutant: the loop ends only where timer1 leaves room for another round.  *)
TimeOutEarly(t) ==
  /\ pc[t] = "missed"
  /\ tx[t] < MaxTx
  /\ Goto(t, "failed")
  /\ UNCHANGED <<rxbufstat, rxbuf, txbuf, lastidx, rxmutex, net, idx, tx,
                 age, temp>>

TimeOut(t) ==
  /\ pc[t] = "missed"
  /\ Goto(t, "failed")
  /\ UNCHANGED <<rxbufstat, rxbuf, txbuf, lastidx, rxmutex, net, idx, tx,
                 age, temp>>

(* The primitives of ec_base.c copy the reply out of rxbuf[idx] and set    *)
(* the status of the buffer to EMPTY.  Copies of the request that are      *)
(* still around now belong to a request that is over.                      *)
Release(t) ==
  /\ pc[t] \in {"replied", "failed"}
  /\ SetStat(idx[t], "EMPTY")
  /\ idx' = [idx EXCEPT ![t] = None]
  /\ tx' = [tx EXCEPT ![t] = 0]
  /\ age' = [age EXCEPT ![t] = 0]
  /\ net' = {Retired(t, f) : f \in net}
  /\ rxbuf' = [i \in Idx |-> Finished(t, rxbuf[i])]
  /\ txbuf' = [i \in Idx |-> Finished(t, txbuf[i])]
  /\ temp' = Retired(t, temp)
  /\ Goto(t, "idle")
  /\ UNCHANGED <<lastidx, rxmutex>>

-----------------------------------------------------------------------------
Inframe(t) ==
  \/ InframeReady(t) \/ InframeNotReady(t) \/ LockRx(t) \/ LockedReady(t)
  \/ RecvNothing(t) \/ Park(t)
  \/ \E f \in net : RecvOwn(t, f) \/ RecvOther(t, f) \/ RecvStray(t, f)

Next ==
  \E t \in Threads :
    \/ GetIndex(t) \/ SetupDatagram(t)
    \/ OutframeMark(t) \/ OutframeSent(t) \/ OutframeFailed(t)
    \/ Inframe(t)
    \/ Retransmit(t) \/ TimeOut(t)
    \/ Release(t)

Spec == Init /\ [][Next]_vars

(* A thread inside a call keeps running; rx_mutex is a priority-inheriting *)
(* mutex that is handed to its waiters; a running timer expires.           *)
Step(t) ==
  \/ SetupDatagram(t) \/ OutframeMark(t) \/ OutframeSent(t)
  \/ OutframeFailed(t) \/ Inframe(t) \/ Release(t)

Fairness ==
  \A t \in Threads :
    /\ WF_vars(Step(t))
    /\ SF_vars(LockRx(t))
    /\ SF_vars(TimeOut(t))

FairSpec == Spec /\ Fairness

-----------------------------------------------------------------------------
Holders == {t \in Threads : idx[t] # None}

(* Two threads never work with the same frame index: ecx_getindex hands    *)
(* out an unused one and it stays with its caller until the caller         *)
(* releases it.                                                            *)
IndexExclusive ==
  \A t, u \in Holders : t # u => idx[t] # idx[u]

(* Every buffer that ecx_getindex regards as used belongs to a thread that *)
(* will release it: no step leaves a buffer marked used for ever.          *)
NoOrphanBuffer ==
  \A i \in Idx : rxbufstat[i] # "EMPTY" => \E t \in Threads : idx[t] = i

(* The frame a thread gets back from its exchange is the reply to its own  *)
(* request, never the late reply to an earlier request with that index.    *)
ReplyMatchesRequest ==
  \A t \in Threads : pc[t] = "replied" => rxbuf[idx[t]] = t

(* The thread that reads the socket never throws away the reply another    *)
(* thread waits for: the frame it takes out of the receive queue ends up   *)
(* in that thread's buffer, unless a reply lies there already.             *)
HasReply(i) == rxbufstat[i] \in {"RCVD", "COMPLETE"}

ReplyNotDiscarded ==
  [][\A f \in net \ net' :
       (f.req # Over /\ \E t \in Threads : pc[t] = "locked" /\ pc'[t] # pc[t])
         => HasReply(f.idx) \/ (HasReply(f.idx)' /\ rxbuf'[f.idx] = f.req)]_vars

(* Every exchange ends, with a reply or without, and gives its buffer      *)
(* back, however the frames are lost and whoever holds the mutex.          *)
ExchangeEnds ==
  \A t \in Threads : pc[t] # "idle" ~> pc[t] = "idle"

=============================================================================
