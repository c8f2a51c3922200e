--------------------------- MODULE NicDrv_proofs ---------------------------
(***************************************************************************)
(* Proofs about the frame layer: type correctness for every value of the   *)
(* constants; for a driver whose send() does not fail and whose receiver   *)
(* is not preempted, with no more threads than frame buffers, that two     *)
(* threads never share an index and that no buffer is lost; and with as    *)
(* many buffers more as calls of ecx_getindex a frame can outlive, that a  *)
(* thread gets the reply to its own request and no reply is thrown away.   *)
(***************************************************************************)
EXTENDS NicDrv, FiniteSetTheorems, TLAPS

(* What TypeOK needs to be inductive: which labels hold an index, a free   *)
(* transmission, rx_mutex and a frame to park.                             *)
Labelled ==
  /\ \A t \in Threads : pc[t] = "idle" <=> idx[t] = None
  /\ \A t \in Threads :
       pc[t] \in {"idle", "setup", "mark", "send"} => tx[t] < MaxTx
  /\ \A t \in Threads : pc[t] \in {"locked", "park"} => rxmutex = t
  /\ \A t \in Threads : pc[t] = "park" => temp \in Frames

TypeInv == TypeOK /\ Labelled

(* A non-empty set of naturals has a least element.                        *)
LEMMA LeastNat ==
  ASSUME NEW S \in SUBSET Nat, S # {}
  PROVE  \E k \in S : \A j \in S : k <= j
<1> DEFINE less == {p \in Nat \X Nat : p[1] < p[2]}
<1>1. OpToRel(<, Nat) = less
  BY Zenon DEF OpToRel
<1>2. IsWellFoundedOn(less, Nat)
  BY <1>1, NatLessThanWellFounded, Zenon
<1> HIDE DEF less
<1>3. \E k \in S : \A j \in S : <<j, k>> \notin less
  BY <1>2, WFMin, Zenon
<1>4. PICK k \in S : \A j \in S : <<j, k>> \notin less
  BY <1>3
<1>5. ASSUME NEW j \in S
      PROVE  k <= j
  <2>1. ~ j < k
    <3>1. <<j, k>> \in less <=> j < k
      BY Zenon DEF less
    <3> QED
      BY <1>4, <3>1
  <2> QED
    BY <2>1
<1> QED
  BY <1>5

(* The scan of ecx_getindex stays inside the buffer array.                 *)
LEMMA NextIdxInRange ==
  ASSUME TypeOK
  PROVE  NextIdx \in Idx
<1> DEFINE free == {k \in 1 .. MaxBuf : rxbufstat[After(lastidx, k)] = "EMPTY"}
<1>1. \A k \in 1 .. MaxBuf : After(lastidx, k) \in Idx
  BY NicAssumption DEF TypeOK, After, Idx
<1>2. CASE free = {}
  BY <1>1, <1>2, NicAssumption DEF NextIdx
<1>3. CASE free # {}
  <2>1. \E k \in free : \A j \in free : k <= j
    <3>1. free \in SUBSET Nat
      BY NicAssumption
    <3> HIDE DEF free
    <3> QED
      BY <1>3, <3>1, LeastNat
  <2> DEFINE least == CHOOSE k \in free : \A j \in free : k <= j
  <2>2. least \in free
    BY <2>1
  <2>3. NextIdx = After(lastidx, least)
    BY <1>3 DEF NextIdx
  <2> QED
    BY <1>1, <2>2, <2>3
<1> QED
  BY <1>2, <1>3

LEMMA InitTypeInv == Init => TypeInv
<1> SUFFICES ASSUME Init PROVE TypeInv
  OBVIOUS
<1>1. 0 \in Idx /\ 0 < MaxTx /\ 0 \in 0 .. MaxAge + 1 /\ 0 \in 0 .. MaxTx
  BY NicAssumption DEF Idx
<1>2. TypeOK
  BY <1>1 DEF Init, TypeOK, BufStat, Requests, Over, Labels
<1>3. Labelled
  BY <1>1 DEF Init, Labelled
<1> QED
  BY <1>2, <1>3 DEF TypeInv

(* The steps that make frames older or end a request keep frames frames.   *)
LEMMA AgedFrames ==
  ASSUME NEW S \in SUBSET Frames
  PROVE  Aged(S) \in SUBSET Frames
BY NicAssumption DEF Aged, Frames

LEMMA FinishedFrame ==
  ASSUME NEW f \in Frames, NEW t
  PROVE  Retired(t, f) \in Frames
BY DEF Retired, Frames, Requests, Finished

LEMMA StepTypeInv == TypeInv /\ [Next]_vars => TypeInv'
<1> SUFFICES ASSUME TypeInv, [Next]_vars PROVE TypeInv'
  OBVIOUS
<1> USE NicAssumption
<1>1. CASE UNCHANGED vars
  BY <1>1 DEF vars, TypeInv, TypeOK, Labelled
<1>2. ASSUME NEW t \in Threads, GetIndex(t)
      PROVE  TypeInv'
  <2>1. NextIdx \in Idx
    BY NextIdxInRange DEF TypeInv
  <2> DEFINE new == NextIdx
  <2> HIDE DEF new
  <2>2. new \in Idx /\ new # None
    BY <2>1 DEF new, Idx, None
  <2>3. /\ idx' = [idx EXCEPT ![t] = new]
        /\ lastidx' = new
        /\ rxbufstat' = [rxbufstat EXCEPT ![new] = "ALLOC"]
    BY <1>2 DEF GetIndex, SetStat, new
  <2>4. net' \in SUBSET Frames
    BY <1>2, AgedFrames DEF GetIndex, TypeInv, TypeOK
  <2>5. age' \in [Threads -> 0 .. MaxAge + 1]
    BY <1>2 DEF GetIndex, TypeInv, TypeOK, Older
  <2>6. TypeOK'
    BY <1>2, <2>2, <2>3, <2>4, <2>5
       DEF GetIndex, TypeInv, TypeOK, Goto, BufStat, Labels
  <2>7. Labelled'
    BY <1>2, <2>2, <2>3 DEF GetIndex, TypeInv, TypeOK, Labelled, Goto
  <2> QED
    BY <2>6, <2>7 DEF TypeInv
<1>3. ASSUME NEW t \in Threads, SetupDatagram(t)
      PROVE  TypeInv'
  <2>1. t # None /\ (pc[t] # "idle" => idx[t] \in Idx)
    BY DEF TypeInv, TypeOK, Labelled
  <2>2. TypeOK'
    BY <1>3, <2>1 DEF SetupDatagram, TypeInv, TypeOK, Labelled, Goto, SetStat,
       BufStat, Labels, Frames, NoFrame, Requests
  <2>3. Labelled'
    BY <1>3, <2>1 DEF SetupDatagram, TypeInv, TypeOK, Labelled, Goto, SetStat
  <2> QED
    BY <2>2, <2>3 DEF TypeInv
<1>4. ASSUME NEW t \in Threads, OutframeMark(t)
      PROVE  TypeInv'
  <2>1. t # None /\ (pc[t] # "idle" => idx[t] \in Idx)
    BY DEF TypeInv, TypeOK, Labelled
  <2>2. TypeOK'
    BY <1>4, <2>1 DEF OutframeMark, TypeInv, TypeOK, Labelled, Goto, SetStat,
       BufStat, Labels, Frames, NoFrame, Requests
  <2>3. Labelled'
    BY <1>4, <2>1 DEF OutframeMark, TypeInv, TypeOK, Labelled, Goto, SetStat
  <2> QED
    BY <2>2, <2>3 DEF TypeInv
<1>5. ASSUME NEW t \in Threads, OutframeSent(t)
      PROVE  TypeInv'
  <2>1. t # None /\ (pc[t] # "idle" => idx[t] \in Idx)
    BY DEF TypeInv, TypeOK, Labelled
  <2>2. TypeOK'
    BY <1>5, <2>1 DEF OutframeSent, TypeInv, TypeOK, Labelled, Goto, SetStat,
       BufStat, Labels, Frames, NoFrame, Requests
  <2>3. Labelled'
    BY <1>5, <2>1 DEF OutframeSent, TypeInv, TypeOK, Labelled, Goto, SetStat
  <2> QED
    BY <2>2, <2>3 DEF TypeInv
<1>6. ASSUME NEW t \in Threads, OutframeFailed(t)
      PROVE  TypeInv'
  <2>1. t # None /\ (pc[t] # "idle" => idx[t] \in Idx)
    BY DEF TypeInv, TypeOK, Labelled
  <2>2. TypeOK'
    BY <1>6, <2>1 DEF OutframeFailed, TypeInv, TypeOK, Labelled, Goto, SetStat,
       BufStat, Labels, Frames, NoFrame, Requests
  <2>3. Labelled'
    BY <1>6, <2>1 DEF OutframeFailed, TypeInv, TypeOK, Labelled, Goto, SetStat
  <2> QED
    BY <2>2, <2>3 DEF TypeInv
<1>7. ASSUME NEW t \in Threads, InframeReady(t)
      PROVE  TypeInv'
  <2>1. t # None /\ (pc[t] # "idle" => idx[t] \in Idx)
    BY DEF TypeInv, TypeOK, Labelled
  <2>2. TypeOK'
    BY <1>7, <2>1 DEF InframeReady, TypeInv, TypeOK, Labelled, Goto, SetStat,
       BufStat, Labels, Frames, NoFrame, Requests
  <2>3. Labelled'
    BY <1>7, <2>1 DEF InframeReady, TypeInv, TypeOK, Labelled, Goto, SetStat
  <2> QED
    BY <2>2, <2>3 DEF TypeInv
<1>8. ASSUME NEW t \in Threads, InframeNotReady(t)
      PROVE  TypeInv'
  <2>1. t # None /\ (pc[t] # "idle" => idx[t] \in Idx)
    BY DEF TypeInv, TypeOK, Labelled
  <2>2. TypeOK'
    BY <1>8, <2>1
       DEF InframeNotReady, TypeInv, TypeOK, Labelled, Goto, SetStat,
       BufStat, Labels, Frames, NoFrame, Requests
  <2>3. Labelled'
    BY <1>8, <2>1 DEF InframeNotReady, TypeInv, TypeOK, Labelled, Goto, SetStat
  <2> QED
    BY <2>2, <2>3 DEF TypeInv
<1>9. ASSUME NEW t \in Threads, LockRx(t)
      PROVE  TypeInv'
  <2>1. t # None /\ (pc[t] # "idle" => idx[t] \in Idx)
    BY DEF TypeInv, TypeOK, Labelled
  <2>2. TypeOK'
    BY <1>9, <2>1 DEF LockRx, TypeInv, TypeOK, Labelled, Goto, SetStat,
       BufStat, Labels, Frames, NoFrame, Requests
  <2>3. Labelled'
    BY <1>9, <2>1 DEF LockRx, TypeInv, TypeOK, Labelled, Goto, SetStat
  <2> QED
    BY <2>2, <2>3 DEF TypeInv
<1>10. ASSUME NEW t \in Threads, LockedReady(t)
      PROVE  TypeInv'
  <2>1. t # None /\ (pc[t] # "idle" => idx[t] \in Idx)
    BY DEF TypeInv, TypeOK, Labelled
  <2>2. TypeOK'
    BY <1>10, <2>1 DEF LockedReady, TypeInv, TypeOK, Labelled, Goto, SetStat,
       BufStat, Labels, Frames, NoFrame, Requests
  <2>3. Labelled'
    BY <1>10, <2>1 DEF LockedReady, TypeInv, TypeOK, Labelled, Goto, SetStat
  <2> QED
    BY <2>2, <2>3 DEF TypeInv
<1>11. ASSUME NEW t \in Threads, RecvNothing(t)
      PROVE  TypeInv'
  <2>1. t # None /\ (pc[t] # "idle" => idx[t] \in Idx)
    BY DEF TypeInv, TypeOK, Labelled
  <2>2. TypeOK'
    BY <1>11, <2>1 DEF RecvNothing, TypeInv, TypeOK, Labelled, Goto, SetStat,
       BufStat, Labels, Frames, NoFrame, Requests
  <2>3. Labelled'
    BY <1>11, <2>1 DEF RecvNothing, TypeInv, TypeOK, Labelled, Goto, SetStat
  <2> QED
    BY <2>2, <2>3 DEF TypeInv
<1>12. ASSUME NEW t \in Threads, Park(t)
      PROVE  TypeInv'
  <2>1. t # None /\ (pc[t] # "idle" => idx[t] \in Idx)
    BY DEF TypeInv, TypeOK, Labelled
  <2>2. TypeOK'
    BY <1>12, <2>1 DEF Park, TypeInv, TypeOK, Labelled, Goto, SetStat,
       BufStat, Labels, Frames, NoFrame, Requests
  <2>3. Labelled'
    BY <1>12, <2>1 DEF Park, TypeInv, TypeOK, Labelled, Goto, SetStat
  <2> QED
    BY <2>2, <2>3 DEF TypeInv
<1>13. ASSUME NEW t \in Threads, Retransmit(t)
      PROVE  TypeInv'
  <2>1. t # None /\ (pc[t] # "idle" => idx[t] \in Idx)
    BY DEF TypeInv, TypeOK, Labelled
  <2>2. TypeOK'
    BY <1>13, <2>1 DEF Retransmit, TypeInv, TypeOK, Labelled, Goto, SetStat,
       BufStat, Labels, Frames, NoFrame, Requests
  <2>3. Labelled'
    BY <1>13, <2>1 DEF Retransmit, TypeInv, TypeOK, Labelled, Goto, SetStat
  <2> QED
    BY <2>2, <2>3 DEF TypeInv
<1>14. ASSUME NEW t \in Threads, TimeOut(t)
      PROVE  TypeInv'
  <2>1. t # None /\ (pc[t] # "idle" => idx[t] \in Idx)
    BY DEF TypeInv, TypeOK, Labelled
  <2>2. TypeOK'
    BY <1>14, <2>1 DEF TimeOut, TypeInv, TypeOK, Labelled, Goto, SetStat,
       BufStat, Labels, Frames, NoFrame, Requests
  <2>3. Labelled'
    BY <1>14, <2>1 DEF TimeOut, TypeInv, TypeOK, Labelled, Goto, SetStat
  <2> QED
    BY <2>2, <2>3 DEF TypeInv
<1>15. ASSUME NEW t \in Threads, NEW f \in net, RecvOwn(t, f)
      PROVE  TypeInv'
  <2>1. /\ t # None /\ idx[t] \in Idx
        /\ f \in Frames /\ f.idx \in Idx /\ f.req \in Requests
    BY <1>15 DEF RecvOwn, TypeInv, TypeOK, Labelled, Frames
  <2>2. TypeOK'
    BY <1>15, <2>1 DEF RecvOwn, TypeInv, TypeOK, Goto, SetStat, BufStat, Labels
  <2>3. Labelled'
    BY <1>15, <2>1 DEF RecvOwn, TypeInv, TypeOK, Labelled, Goto, SetStat
  <2> QED
    BY <2>2, <2>3 DEF TypeInv
<1>16. ASSUME NEW t \in Threads, NEW f \in net, RecvOther(t, f)
      PROVE  TypeInv'
  <2>1. /\ t # None /\ idx[t] \in Idx
        /\ f \in Frames /\ f.idx \in Idx /\ f.req \in Requests
    BY <1>16 DEF RecvOther, TypeInv, TypeOK, Labelled, Frames
  <2>2. TypeOK'
    BY <1>16, <2>1
       DEF RecvOther, TypeInv, TypeOK, Goto, SetStat, BufStat, Labels
  <2>3. Labelled'
    BY <1>16, <2>1 DEF RecvOther, TypeInv, TypeOK, Labelled, Goto, SetStat
  <2> QED
    BY <2>2, <2>3 DEF TypeInv
<1>17. ASSUME NEW t \in Threads, NEW f \in net, RecvStray(t, f)
      PROVE  TypeInv'
  <2>1. /\ t # None /\ idx[t] \in Idx
        /\ f \in Frames /\ f.idx \in Idx /\ f.req \in Requests
    BY <1>17 DEF RecvStray, TypeInv, TypeOK, Labelled, Frames
  <2>2. TypeOK'
    BY <1>17, <2>1
       DEF RecvStray, TypeInv, TypeOK, Goto, SetStat, BufStat, Labels
  <2>3. Labelled'
    BY <1>17, <2>1 DEF RecvStray, TypeInv, TypeOK, Labelled, Goto, SetStat
  <2> QED
    BY <2>2, <2>3 DEF TypeInv
<1>18. ASSUME NEW t \in Threads, Release(t)
      PROVE  TypeInv'
  <2>1. idx[t] \in Idx
    BY <1>18 DEF Release, TypeInv, TypeOK, Labelled
  <2>2. net' \in SUBSET Frames
    BY <1>18, FinishedFrame DEF Release, TypeInv, TypeOK
  <2>3. temp \in Frames => temp' \in Frames
    BY <1>18, FinishedFrame DEF Release
  <2>4. temp = NoFrame => temp' = NoFrame
    BY <1>18 DEF Release, NoFrame, Retired, Finished
  <2>5. rxbuf' \in [Idx -> Requests] /\ txbuf' \in [Idx -> Requests]
    BY <1>18 DEF Release, TypeInv, TypeOK, Finished, Requests
  <2>6. TypeOK'
    BY <1>18, <2>1, <2>2, <2>3, <2>4, <2>5
       DEF Release, TypeInv, TypeOK, Goto, SetStat, BufStat, Labels
  <2>7. Labelled'
    BY <1>18, <2>3 DEF Release, TypeInv, TypeOK, Labelled, Goto
  <2> QED
    BY <2>6, <2>7 DEF TypeInv
<1> QED
  BY <1>1, <1>2, <1>3, <1>4, <1>5, <1>6, <1>7, <1>8, <1>9, <1>10, <1>11,
     <1>12, <1>13, <1>14, <1>15, <1>16, <1>17, <1>18 DEF Next, Inframe

(* Type correctness, for all constants: in particular a frame that is on   *)
(* the wire names a buffer, and a thread never transmits more often than   *)
(* its timer allows.                                                       *)
THEOREM TypeCorrect == Spec => []TypeOK
<1>1. Init => TypeInv
  BY InitTypeInv
<1>2. TypeInv /\ [Next]_vars => TypeInv'
  BY StepTypeInv
<1>3. TypeInv => TypeOK
  BY DEF TypeInv
<1> QED
  BY <1>1, <1>2, <1>3, PTL DEF Spec

-----------------------------------------------------------------------------
(* The ownership of buffers, in a driver whose send() succeeds and whose   *)
(* reader is not preempted while it parks a frame: whoever works with an   *)
(* index has its buffer marked as used, and nobody parks.                  *)
Marked ==
  /\ \A t \in Threads : idx[t] # None => rxbufstat[idx[t]] # "EMPTY"
  /\ \A t \in Threads : pc[t] # "park"

OwnInv == TypeInv /\ Marked /\ IndexExclusive /\ NoOrphanBuffer

(* With no more threads than buffers the scan of ecx_getindex finds an     *)
(* unused one: if all were in use each would have an owner of its own, and *)
(* the thread that asks owns none.                                         *)
LEMMA FreeIndex ==
  ASSUME OwnInv, Cardinality(Threads) <= MaxBuf,
         NEW t \in Threads, idx[t] = None
  PROVE  \E i \in Idx : rxbufstat[i] = "EMPTY"
<1> SUFFICES ASSUME \A i \in Idx : rxbufstat[i] # "EMPTY"
             PROVE  FALSE
  OBVIOUS
<1> DEFINE owner == [i \in Idx |-> CHOOSE u \in Threads : idx[u] = i]
           others == Threads \ {t}
<1>1. \A i \in Idx : owner[i] \in Threads /\ idx[owner[i]] = i
  BY DEF OwnInv, NoOrphanBuffer
<1>2. \A i \in Idx : owner[i] # t
  BY <1>1 DEF Idx, None
<1>3. owner \in [Idx -> others]
  BY <1>1, <1>2
<1>4. IsFiniteSet(others) /\ Cardinality(others) < MaxBuf
  <2>1. IsFiniteSet(Threads)
    BY NicAssumption
  <2>2. Cardinality(Threads) \in Nat
    BY <2>1, FS_CardinalityType
  <2>3. IsFiniteSet(others) /\ Cardinality(others) = Cardinality(Threads) - 1
    BY <2>1, FS_RemoveElement
  <2> QED
    BY <2>2, <2>3, NicAssumption
<1>5. IsFiniteSet(Idx) /\ Cardinality(Idx) = MaxBuf
  <2>1. 0 \in Int /\ MaxBuf - 1 \in Int /\ ~ (0 > MaxBuf - 1)
    BY NicAssumption
  <2>2. /\ IsFiniteSet(0 .. MaxBuf - 1)
        /\ Cardinality(0 .. MaxBuf - 1) = (MaxBuf - 1) - 0 + 1
    BY <2>1, FS_Interval
  <2> QED
    BY <2>2, NicAssumption DEF Idx
<1> HIDE DEF owner, others
<1>6. \E i, j \in Idx : i # j /\ owner[i] = owner[j]
  BY <1>3, <1>4, <1>5, FS_PigeonHole
<1> QED
  BY <1>1, <1>6

LEMMA NextIdxFree ==
  ASSUME TypeOK, \E i \in Idx : rxbufstat[i] = "EMPTY"
  PROVE  rxbufstat[NextIdx] = "EMPTY"
<1> DEFINE free == {k \in 1 .. MaxBuf : rxbufstat[After(lastidx, k)] = "EMPTY"}
<1>1. PICK i \in Idx : rxbufstat[i] = "EMPTY"
  OBVIOUS
<1> DEFINE k == IF i > lastidx THEN i - lastidx ELSE i - lastidx + MaxBuf
<1>2. k \in 1 .. MaxBuf /\ After(lastidx, k) = i
  <2>1. /\ i \in Int /\ 0 <= i /\ i < MaxBuf /\ MaxBuf \in Nat
        /\ lastidx \in Int /\ 0 <= lastidx /\ lastidx < MaxBuf
    BY NicAssumption DEF TypeOK, Idx
  <2>2. i % MaxBuf = i /\ (i + MaxBuf) % MaxBuf = i
    BY <2>1
  <2>3. lastidx + k = i \/ lastidx + k = i + MaxBuf
    BY <2>1
  <2>4. k \in 1 .. MaxBuf
    BY <2>1
  <2> QED
    BY <2>2, <2>3, <2>4 DEF After
<1>3. free # {}
  BY <1>1, <1>2
<1>4. free \in SUBSET Nat
  BY NicAssumption
<1>5. \A m \in free : rxbufstat[After(lastidx, m)] = "EMPTY"
  OBVIOUS
<1>6. NextIdx = After(lastidx, CHOOSE m \in free : \A j \in free : m <= j)
  BY <1>3 DEF NextIdx
<1> HIDE DEF free
<1>7. (CHOOSE m \in free : \A j \in free : m <= j) \in free
  BY <1>3, <1>4, LeastNat
<1> QED
  BY <1>5, <1>6, <1>7

LEMMA InitOwnInv == Init => OwnInv
<1> SUFFICES ASSUME Init PROVE OwnInv
  OBVIOUS
<1>1. TypeInv
  BY InitTypeInv
<1> QED
  BY <1>1 DEF Init, OwnInv, Marked, IndexExclusive, Holders, NoOrphanBuffer

LEMMA StepOwnInv ==
  ASSUME ~ SendFails, ~ Preempt, Cardinality(Threads) <= MaxBuf
  PROVE  OwnInv /\ [Next]_vars => OwnInv'
<1> SUFFICES ASSUME OwnInv, [Next]_vars
             PROVE  (Marked /\ IndexExclusive /\ NoOrphanBuffer)'
  BY StepTypeInv DEF OwnInv
<1> USE DEF Marked, IndexExclusive, Holders, NoOrphanBuffer
<1>0. \A t \in Threads : /\ t # None
                         /\ idx[t] \in Idx \cup {None}
                         /\ idx[t] = None <=> pc[t] = "idle"
  BY NicAssumption DEF OwnInv, TypeInv, TypeOK, Labelled
<1>1. CASE UNCHANGED vars
  BY <1>1 DEF vars, OwnInv
<1>2. ASSUME NEW t \in Threads, GetIndex(t)
      PROVE  (Marked /\ IndexExclusive /\ NoOrphanBuffer)'
  <2> DEFINE new == NextIdx
  <2>1. idx[t] = None
    BY <1>0, <1>2 DEF GetIndex
  <2>2. new \in Idx
    BY NextIdxInRange DEF OwnInv, TypeInv
  <2>3. rxbufstat[new] = "EMPTY"
    BY <2>1, FreeIndex, NextIdxFree DEF OwnInv, TypeInv
  <2> HIDE DEF new
  <2>4. /\ idx' = [idx EXCEPT ![t] = new]
        /\ rxbufstat' = [rxbufstat EXCEPT ![new] = "ALLOC"]
        /\ pc' = [pc EXCEPT ![t] = "setup"]
    BY <1>2 DEF GetIndex, SetStat, Goto, new
  <2>5. \A u \in Threads : idx[u] # new
    BY <2>2, <2>3, <1>0 DEF OwnInv, Idx, None
  <2>6. Marked'
    BY <2>1, <2>2, <2>4, <1>0 DEF OwnInv, TypeInv, TypeOK
  <2>7. IndexExclusive'
    BY <2>1, <2>4, <2>5, <1>0 DEF OwnInv, TypeInv, TypeOK
  <2>8. NoOrphanBuffer'
    <3>1. ASSUME NEW i \in Idx, rxbufstat'[i] # "EMPTY"
          PROVE  \E u \in Threads : idx'[u] = i
      <4>1. CASE i = new
        BY <2>2, <2>4, <4>1 DEF OwnInv, TypeInv, TypeOK
      <4>2. CASE i # new
        <5>1. rxbufstat[i] # "EMPTY"
          BY <2>2, <2>4, <3>1, <4>2 DEF OwnInv, TypeInv, TypeOK
        <5>2. PICK u \in Threads : idx[u] = i
          BY <5>1 DEF OwnInv
        <5>3. u # t
          BY <2>1, <5>2 DEF Idx, None
        <5> QED
          BY <2>4, <5>2, <5>3 DEF OwnInv, TypeInv, TypeOK
      <4> QED
        BY <4>1, <4>2
    <3> QED
      BY <3>1
  <2> QED
    BY <2>6, <2>7, <2>8
<1>3. ASSUME NEW t \in Threads, SetupDatagram(t)
      PROVE  (Marked /\ IndexExclusive /\ NoOrphanBuffer)'
  BY <1>0, <1>3 DEF SetupDatagram, Goto, SetStat, OwnInv, TypeInv, TypeOK
<1>4. ASSUME NEW t \in Threads, OutframeMark(t)
      PROVE  (Marked /\ IndexExclusive /\ NoOrphanBuffer)'
  BY <1>0, <1>4 DEF OutframeMark, Goto, SetStat, OwnInv, TypeInv, TypeOK
<1>5. ASSUME NEW t \in Threads, OutframeSent(t)
      PROVE  (Marked /\ IndexExclusive /\ NoOrphanBuffer)'
  BY <1>0, <1>5 DEF OutframeSent, Goto, SetStat, OwnInv, TypeInv, TypeOK
<1>6. ASSUME NEW t \in Threads, InframeReady(t)
      PROVE  (Marked /\ IndexExclusive /\ NoOrphanBuffer)'
  BY <1>0, <1>6 DEF InframeReady, Goto, SetStat, OwnInv, TypeInv, TypeOK
<1>7. ASSUME NEW t \in Threads, InframeNotReady(t)
      PROVE  (Marked /\ IndexExclusive /\ NoOrphanBuffer)'
  BY <1>0, <1>7 DEF InframeNotReady, Goto, SetStat, OwnInv, TypeInv, TypeOK
<1>8. ASSUME NEW t \in Threads, LockRx(t)
      PROVE  (Marked /\ IndexExclusive /\ NoOrphanBuffer)'
  BY <1>0, <1>8 DEF LockRx, Goto, SetStat, OwnInv, TypeInv, TypeOK
<1>9. ASSUME NEW t \in Threads, LockedReady(t)
      PROVE  (Marked /\ IndexExclusive /\ NoOrphanBuffer)'
  BY <1>0, <1>9 DEF LockedReady, Goto, SetStat, OwnInv, TypeInv, TypeOK
<1>10. ASSUME NEW t \in Threads, RecvNothing(t)
      PROVE  (Marked /\ IndexExclusive /\ NoOrphanBuffer)'
  BY <1>0, <1>10 DEF RecvNothing, Goto, SetStat, OwnInv, TypeInv, TypeOK
<1>11. ASSUME NEW t \in Threads, Retransmit(t)
      PROVE  (Marked /\ IndexExclusive /\ NoOrphanBuffer)'
  BY <1>0, <1>11 DEF Retransmit, Goto, SetStat, OwnInv, TypeInv, TypeOK
<1>12. ASSUME NEW t \in Threads, TimeOut(t)
      PROVE  (Marked /\ IndexExclusive /\ NoOrphanBuffer)'
  BY <1>0, <1>12 DEF TimeOut, Goto, SetStat, OwnInv, TypeInv, TypeOK
<1>13. ASSUME NEW t \in Threads, OutframeFailed(t)
      PROVE  FALSE
  BY <1>13 DEF OutframeFailed, OwnInv
<1>14. ASSUME NEW t \in Threads, Park(t)
      PROVE  FALSE
  BY <1>14 DEF Park, OwnInv
<1>15. ASSUME NEW t \in Threads, NEW f \in net, RecvOwn(t, f)
      PROVE  (Marked /\ IndexExclusive /\ NoOrphanBuffer)'
  <2>1. f.idx \in Idx
    BY DEF OwnInv, TypeInv, TypeOK, Frames
  <2> QED
    BY <1>0, <1>15, <2>1 DEF RecvOwn, Goto, SetStat, OwnInv, TypeInv, TypeOK
<1>16. ASSUME NEW t \in Threads, NEW f \in net, RecvOther(t, f)
      PROVE  (Marked /\ IndexExclusive /\ NoOrphanBuffer)'
  <2>1. f.idx \in Idx
    BY DEF OwnInv, TypeInv, TypeOK, Frames
  <2> QED
    BY <1>0, <1>16, <2>1 DEF RecvOther, Goto, SetStat, OwnInv, TypeInv, TypeOK
<1>17. ASSUME NEW t \in Threads, NEW f \in net, RecvStray(t, f)
      PROVE  (Marked /\ IndexExclusive /\ NoOrphanBuffer)'
  <2>1. f.idx \in Idx
    BY DEF OwnInv, TypeInv, TypeOK, Frames
  <2> QED
    BY <1>0, <1>17, <2>1 DEF RecvStray, Goto, SetStat, OwnInv, TypeInv, TypeOK
<1>18. ASSUME NEW t \in Threads, Release(t)
      PROVE  (Marked /\ IndexExclusive /\ NoOrphanBuffer)'
  <2>1. /\ idx' = [idx EXCEPT ![t] = None]
        /\ rxbufstat' = [rxbufstat EXCEPT ![idx[t]] = "EMPTY"]
        /\ pc' = [pc EXCEPT ![t] = "idle"]
        /\ idx[t] # None
    BY <1>0, <1>18 DEF Release, SetStat, Goto
  <2> QED
    BY <1>0, <2>1 DEF OwnInv, TypeInv, TypeOK
<1> QED
  BY <1>1, <1>2, <1>3, <1>4, <1>5, <1>6, <1>7, <1>8, <1>9, <1>10, <1>11,
     <1>12, <1>13, <1>14, <1>15, <1>16, <1>17, <1>18 DEF Next, Inframe

(* Two threads never work with the same frame index, as long as there are  *)
(* no more threads than buffers.                                           *)
THEOREM IndexIsExclusive ==
  ASSUME ~ SendFails, ~ Preempt, Cardinality(Threads) <= MaxBuf
  PROVE  Spec => []IndexExclusive
<1>1. Init => OwnInv
  BY InitOwnInv
<1>2. OwnInv /\ [Next]_vars => OwnInv'
  BY StepOwnInv
<1>3. OwnInv => IndexExclusive
  BY DEF OwnInv
<1> QED
  BY <1>1, <1>2, <1>3, PTL DEF Spec

(* Under the same conditions no buffer stays marked used without an owner: *)
(* the buffer array does not fill up.                                      *)
THEOREM NoBufferIsLost ==
  ASSUME ~ SendFails, ~ Preempt, Cardinality(Threads) <= MaxBuf
  PROVE  Spec => []NoOrphanBuffer
<1>1. Init => OwnInv
  BY InitOwnInv
<1>2. OwnInv /\ [Next]_vars => OwnInv'
  BY StepOwnInv
<1>3. OwnInv => NoOrphanBuffer
  BY DEF OwnInv
<1> QED
  BY <1>1, <1>2, <1>3, PTL DEF Spec

-----------------------------------------------------------------------------
(* Late frames.  Dist is the number of the trial in which a scan that      *)
(* starts behind l reaches buffer i; Ahead are the threads whose buffers   *)
(* it meets before.                                                        *)
Dist(l, i) == IF i > l THEN i - l ELSE i - l + MaxBuf

Ahead(own, l, n) == {u \in Threads : own[u] # None /\ Dist(l, own[u]) < n}

LEMMA DistInRange ==
  ASSUME NEW l \in Idx, NEW i \in Idx
  PROVE  /\ Dist(l, i) \in 1 .. MaxBuf
         /\ After(l, Dist(l, i)) = i
         /\ \A j \in Idx : Dist(l, i) = Dist(l, j) => i = j
<1>1. /\ i \in Int /\ 0 <= i /\ i < MaxBuf /\ MaxBuf \in Nat
      /\ l \in Int /\ 0 <= l /\ l < MaxBuf
  BY NicAssumption DEF Idx
<1>2. i % MaxBuf = i /\ (i + MaxBuf) % MaxBuf = i
  BY <1>1
<1>3. Dist(l, i) \in 1 .. MaxBuf
  BY <1>1 DEF Dist
<1>4. l + Dist(l, i) = i \/ l + Dist(l, i) = i + MaxBuf
  BY <1>1 DEF Dist
<1>5. After(l, Dist(l, i)) = i
  BY <1>2, <1>4 DEF After
<1>6. ASSUME NEW j \in Idx, Dist(l, i) = Dist(l, j)
      PROVE  i = j
  BY <1>1, <1>6, NicAssumption DEF Dist, Idx
<1> QED
  BY <1>3, <1>5, <1>6

(* The buffer in trial n.                                                  *)
LEMMA AtDist ==
  ASSUME NEW l \in Idx, NEW n \in 1 .. MaxBuf
  PROVE  \E i \in Idx : Dist(l, i) = n
<1> DEFINE i == IF l + n < MaxBuf THEN l + n ELSE l + n - MaxBuf
<1>1. i \in Idx /\ Dist(l, i) = n
  BY NicAssumption DEF Idx, Dist
<1> QED
  BY <1>1

LEMMA AheadFinite ==
  ASSUME NEW own, NEW l, NEW n
  PROVE  /\ IsFiniteSet(Ahead(own, l, n))
         /\ Cardinality(Ahead(own, l, n)) \in Nat
<1>1. IsFiniteSet(Threads) /\ Ahead(own, l, n) \subseteq Threads
  BY NicAssumption DEF Ahead
<1>2. IsFiniteSet(Ahead(own, l, n))
  BY <1>1, FS_Subset
<1> QED
  BY <1>2, FS_CardinalityType

(* What the scan skips has owners, and no two buffers the same.            *)
LEMMA SkippedHaveOwners ==
  ASSUME NEW own, NEW l \in Idx, NEW n \in 1 .. MaxBuf,
         \A j \in Idx : Dist(l, j) < n => \E u \in Threads : own[u] = j
  PROVE  n - 1 <= Cardinality(Ahead(own, l, n))
<1> DEFINE at == [m \in 1 .. n - 1 |-> CHOOSE i \in Idx : Dist(l, i) = m]
           owner == [m \in 1 .. n - 1 |-> CHOOSE u \in Threads :
                                            own[u] = at[m]]
           S == Ahead(own, l, n)
<1>0. n \in Nat /\ 1 .. n - 1 \subseteq 1 .. MaxBuf
  BY NicAssumption
<1>1. \A m \in 1 .. n - 1 : at[m] \in Idx /\ Dist(l, at[m]) = m
  BY <1>0, AtDist
<1>2. \A m \in 1 .. n - 1 : Dist(l, at[m]) < n
  BY <1>0, <1>1
<1>3. \A m \in 1 .. n - 1 : owner[m] \in Threads /\ own[owner[m]] = at[m]
  BY <1>1, <1>2
<1>4. \A m \in 1 .. n - 1 : owner[m] \in S
  BY <1>1, <1>2, <1>3 DEF Ahead, Idx, None
<1>5. \A m, k \in 1 .. n - 1 : owner[m] = owner[k] => m = k
  BY <1>1, <1>3
<1>6. owner \in [1 .. n - 1 -> S]
  BY <1>4
<1> HIDE DEF owner, at, S
<1>7. owner \in Injection(1 .. n - 1, S)
  BY <1>5, <1>6 DEF Injection, IsInjective
<1>8. IsFiniteSet(1 .. n - 1) /\ Cardinality(1 .. n - 1) = n - 1
  <2>1. /\ IsFiniteSet(1 .. n - 1)
        /\ Cardinality(1 .. n - 1)
             = IF 1 > n - 1 THEN 0 ELSE (n - 1) - 1 + 1
    BY <1>0, FS_Interval
  <2> QED
    BY <1>0, <2>1
<1>9. IsFiniteSet(S)
  BY AheadFinite DEF S
<1> QED
  BY <1>7, <1>8, <1>9, FS_Injection DEF S

(* Buffer i has been handed out n calls of ecx_getindex ago.  Each call    *)
(* moves the scan one buffer, and beyond those it skips.  A skipped buffer *)
(* is in use since before i was handed out, so that its owner is counted   *)
(* once in a round: after n calls, with m threads in all, the scan has at  *)
(* most n + m - 1 buffers behind it less those whose owners are ahead.     *)
Since(own, l, i, n) ==
  MaxBuf + Cardinality(Ahead(own, l, Dist(l, i)))
    < n + Cardinality(Threads) + Dist(l, i)

(* One call of ecx_getindex, as long as the buffer is not older than the   *)
(* threads let the scan take for a round.                                  *)
LEMMA ScanMovesOn ==
  ASSUME NEW own \in [Threads -> Idx \cup {None}], NEW l \in Idx,
         NEW t \in Threads, own[t] = None, NEW new \in Idx,
         \A j \in Idx : Dist(l, j) < Dist(l, new)
                          => \E u \in Threads : own[u] = j,
         NEW i \in Idx, NEW n \in Nat, n < MaxAge, Since(own, l, i, n),
         MaxAge + Cardinality(Threads) <= MaxBuf
  PROVE  i # new /\ Since([own EXCEPT ![t] = new], new, i, n + 1)
<1> DEFINE own2 == [own EXCEPT ![t] = new]
           k == Dist(l, new)
           d == Dist(l, i)
           N == Cardinality(Threads)
           A == Ahead(own, l, d)
           S == Ahead(own, l, k)
           B == Ahead(own2, new, Dist(new, i))
<1>0. /\ MaxBuf \in Nat /\ MaxAge \in Nat /\ N \in Nat
      /\ d \in 1 .. MaxBuf /\ k \in 1 .. MaxBuf
      /\ Cardinality(A) \in Nat /\ Cardinality(S) \in Nat
      /\ Cardinality(B) \in Nat
  BY NicAssumption, FS_CardinalityType, DistInRange, AheadFinite
<1>1. k < d
  <2>1. SUFFICES ASSUME d <= k PROVE FALSE
    BY <1>0
  <2>2. \A j \in Idx : Dist(l, j) < d => \E u \in Threads : own[u] = j
    <3>1. SUFFICES ASSUME NEW j \in Idx, Dist(l, j) < d
                   PROVE  \E u \in Threads : own[u] = j
      OBVIOUS
    <3>2. Dist(l, j) < k
      BY <1>0, <2>1, <3>1, DistInRange
    <3> QED
      BY <3>2
  <2>3. d - 1 <= Cardinality(A)
    <3> HIDE DEF d
    <3> QED
      BY <1>0, <2>2, SkippedHaveOwners
  <2> QED
    BY <1>0, <2>3 DEF Since
<1>2. Dist(new, i) = d - k
  <2>1. i \in Nat /\ new \in Nat /\ l \in Nat
        /\ i < MaxBuf /\ new < MaxBuf /\ l < MaxBuf
    BY <1>0 DEF Idx
  <2> QED
    BY <1>0, <1>1, <2>1 DEF Dist
<1>3. k - 1 <= Cardinality(S)
  <2> HIDE DEF k
  <2> QED
    BY <1>0, SkippedHaveOwners DEF k
<1>4. B \subseteq A \ S
  <2>1. SUFFICES ASSUME NEW u \in Threads, own2[u] # None,
                        Dist(new, own2[u]) < d - k
                 PROVE  /\ own[u] # None /\ Dist(l, own[u]) < d
                        /\ ~ Dist(l, own[u]) < k
    BY <1>2 DEF Ahead
  <2>2. l \in Nat /\ new \in Nat /\ new < MaxBuf /\ l < MaxBuf
    BY <1>0 DEF Idx
  <2>3. u # t
    <3>1. Dist(new, new) = MaxBuf
      BY <1>0, <2>2 DEF Dist
    <3>2. ~ MaxBuf < d - k
      BY <1>0
    <3> QED
      BY <2>1, <3>1, <3>2
  <2>4. own2[u] = own[u] /\ own[u] \in Idx
    BY <2>1, <2>3
  <2>5. PICK j \in Idx : j = own[u]
    BY <2>4
  <2>6. j \in Nat /\ j < MaxBuf
    BY <1>0 DEF Idx
  <2>7. Dist(new, j) < d - k
    BY <2>1, <2>4, <2>5
  <2>8. k < Dist(l, j) /\ Dist(l, j) < d
    BY <1>0, <2>2, <2>6, <2>7 DEF Dist
  <2>9. Dist(l, j) \in 1 .. MaxBuf
    BY DistInRange
  <2> QED
    BY <1>0, <2>4, <2>5, <2>8, <2>9, <2>1
<1>5. S \subseteq A
  <2>1. SUFFICES ASSUME NEW u \in Threads, own[u] # None,
                        Dist(l, own[u]) < k
                 PROVE  Dist(l, own[u]) < d
    BY DEF Ahead
  <2>2. Dist(l, own[u]) \in 1 .. MaxBuf
    BY <2>1, DistInRange
  <2> QED
    BY <1>0, <1>1, <2>1, <2>2
<1>6. Cardinality(B) + Cardinality(S) <= Cardinality(A)
  <2> HIDE DEF A, B, S
  <2>1. IsFiniteSet(A) /\ IsFiniteSet(B) /\ IsFiniteSet(S)
    BY AheadFinite DEF A, B, S
  <2>2. Cardinality(B \cup S)
          = Cardinality(B) + Cardinality(S) - Cardinality(B \cap S)
    BY <2>1, FS_Union
  <2>3. B \cap S = {}
    BY <1>4
  <2>4. Cardinality(B \cap S) = 0
    BY <2>3, FS_EmptySet
  <2>5. Cardinality(B \cup S) <= Cardinality(A)
    BY <1>4, <1>5, <2>1, FS_Subset
  <2> QED
    BY <1>0, <2>2, <2>4, <2>5
<1>7. i # new
  BY <1>0, <1>1
<1>8. MaxBuf + Cardinality(A) < n + N + d
  BY DEF Since
<1>9. MaxBuf + Cardinality(B) < n + 1 + N + (d - k)
  <2> HIDE DEF A, B, S, N, d, k
  <2> QED
    BY <1>0, <1>3, <1>6, <1>8
<1>10. Since(own2, new, i, n + 1)
  BY <1>2, <1>9 DEF Since
<1> QED
  BY <1>7, <1>10

(* The buffer that is handed out.                                          *)
LEMMA NextIdxFirst ==
  ASSUME TypeOK, \E i \in Idx : rxbufstat[i] = "EMPTY",
         NEW j \in Idx, Dist(lastidx, j) < Dist(lastidx, NextIdx)
  PROVE  rxbufstat[j] # "EMPTY"
<1> DEFINE free == {k \in 1 .. MaxBuf : rxbufstat[After(lastidx, k)] = "EMPTY"}
           least == CHOOSE k \in free : \A m \in free : k <= m
<1>1. lastidx \in Idx /\ NextIdx \in Idx
  BY NextIdxInRange DEF TypeOK
<1>2. \A i \in Idx : rxbufstat[i] = "EMPTY" => Dist(lastidx, i) \in free
  BY <1>1, DistInRange
<1>3. free # {} /\ free \in SUBSET Nat
  BY <1>2, NicAssumption
<1>4. least \in free /\ \A m \in free : least <= m
  <2> HIDE DEF free
  <2>1. \E k \in free : \A m \in free : k <= m
    BY <1>3, LeastNat
  <2> QED
    BY <2>1
<1>5. NextIdx = After(lastidx, least)
  BY <1>3 DEF NextIdx
<1>6. Dist(lastidx, NextIdx) = least
  <2>1. least \in 1 .. MaxBuf
    BY <1>4
  <2> HIDE DEF least, free
  <2>2. PICK i \in Idx : Dist(lastidx, i) = least
    BY <1>1, <2>1, AtDist
  <2>3. i = NextIdx
    BY <1>1, <1>5, <2>2, DistInRange
  <2> QED
    BY <2>2, <2>3
<1>7. Dist(lastidx, j) \in 1 .. MaxBuf
  BY <1>1, DistInRange
<1>8. Dist(lastidx, j) \notin free
  <2> HIDE DEF free, least
  <2> QED
    BY <1>3, <1>4, <1>6, <1>7
<1> QED
  BY <1>2, <1>8

(* Frames on the wire are not as old as a round of the scan takes, and nor *)
(* are those a thread may still send.                                      *)
AgeOK ==
  /\ \A f \in net : Since(idx, lastidx, f.idx, f.age)
  /\ \A t \in Holders :
       age[t] <= MaxAge => Since(idx, lastidx, idx[t], age[t])

(* Frames that carry an index in use belong to its holder, who built his   *)
(* request in the tx buffer; a frame of a request that is not over finds   *)
(* its buffer marked, and what was parked is the reply to the holder.      *)
InUse == {"TX", "RCVD", "COMPLETE"}

ContentOK ==
  /\ \A f \in net, t \in Threads : f.idx = idx[t] => f.req = t
  /\ \A f \in net :
       f.req # Over => f.idx = idx[f.req] /\ rxbufstat[f.idx] \in InUse
  /\ \A t \in Threads : pc[t] \notin {"idle", "setup"} => txbuf[idx[t]] = t
  /\ \A t \in Threads :
       pc[t] \notin {"idle", "setup", "mark"} => rxbufstat[idx[t]] \in InUse
  /\ \A t \in Holders : rxbufstat[idx[t]] = "RCVD" => rxbuf[idx[t]] = t

ReplyInv == OwnInv /\ AgeOK /\ ContentOK /\ ReplyMatchesRequest

LEMMA InitReplyInv == Init => ReplyInv
<1> SUFFICES ASSUME Init PROVE ReplyInv
  OBVIOUS
<1>1. OwnInv
  BY InitOwnInv
<1> QED
  BY <1>1 DEF Init, ReplyInv, AgeOK, ContentOK, ReplyMatchesRequest, Holders

(* The buffer that has just been handed out to t.                          *)
LEMMA SinceNow ==
  ASSUME NEW own, NEW t \in Threads, NEW new \in Idx, own[t] = new
  PROVE  Since(own, new, new, 0)
<1> DEFINE A == Ahead(own, new, Dist(new, new))
           N == Cardinality(Threads)
<1>1. new \in Nat /\ MaxBuf \in Nat
  BY NicAssumption DEF Idx
<1>2. Dist(new, new) = MaxBuf
  BY <1>1 DEF Dist
<1>3. A \subseteq Threads \ {t}
  BY <1>1, <1>2 DEF Ahead
<1>4. Cardinality(A) \in Nat /\ N \in Nat /\ Cardinality(A) <= N - 1
  <2> HIDE DEF A
  <2>1. IsFiniteSet(Threads)
    BY NicAssumption
  <2>2. /\ IsFiniteSet(Threads \ {t})
        /\ Cardinality(Threads \ {t}) = N - 1
    BY <2>1, FS_RemoveElement
  <2>3. /\ IsFiniteSet(A) /\ Cardinality(A) \in Nat
    BY <2>2, <1>3, FS_Subset, FS_CardinalityType
  <2>4. Cardinality(A) <= Cardinality(Threads \ {t})
    BY <2>2, <1>3, FS_Subset
  <2> QED
    BY <2>1, <2>2, <2>3, <2>4, FS_CardinalityType
<1> QED
  BY <1>1, <1>2, <1>4 DEF Since

LEMMA GetIndexReplyInv ==
  ASSUME MaxAge + Cardinality(Threads) <= MaxBuf,
         ReplyInv, NEW t \in Threads, GetIndex(t)
  PROVE  (AgeOK /\ ContentOK /\ ReplyMatchesRequest)'
<1>0. /\ TypeOK /\ idx \in [Threads -> Idx \cup {None}] /\ lastidx \in Idx
      /\ rxbufstat \in [Idx -> BufStat] /\ pc \in [Threads -> Labels]
      /\ age \in [Threads -> 0 .. MaxAge + 1] /\ net \in SUBSET Frames
      /\ MaxAge \in Nat /\ Over = None /\ None \notin Idx
      /\ Cardinality(Threads) \in Nat /\ MaxBuf \in Nat
  <2>1. TypeOK
    BY DEF ReplyInv, OwnInv, TypeInv
  <2>2. /\ idx \in [Threads -> Idx \cup {None}] /\ lastidx \in Idx
        /\ rxbufstat \in [Idx -> BufStat] /\ pc \in [Threads -> Labels]
        /\ age \in [Threads -> 0 .. MaxAge + 1] /\ net \in SUBSET Frames
    BY <2>1, Zenon DEF TypeOK
  <2>3. Over = None /\ None \notin Idx
    BY NicAssumption DEF Over, None, Idx
  <2>4. Cardinality(Threads) \in Nat
    BY NicAssumption, FS_CardinalityType
  <2> QED
    BY <2>1, <2>2, <2>3, <2>4, NicAssumption
<1>1. idx[t] = None /\ pc[t] = "idle"
  BY DEF ReplyInv, OwnInv, TypeInv, Labelled, GetIndex
<1>2. \E i \in Idx : rxbufstat[i] = "EMPTY"
  BY <1>0, <1>1, FreeIndex DEF ReplyInv
<1>3. PICK new \in Idx : new = NextIdx
  BY <1>0, NextIdxInRange
<1>4. rxbufstat[new] = "EMPTY"
  BY <1>0, <1>2, <1>3, NextIdxFree
<1>5. /\ idx' = [idx EXCEPT ![t] = new] /\ lastidx' = new
      /\ rxbufstat' = [rxbufstat EXCEPT ![new] = "ALLOC"]
      /\ pc' = [pc EXCEPT ![t] = "setup"]
      /\ age' = [u \in Threads |-> IF u = t \/ idx[u] = None THEN 0
                                   ELSE Older(age[u])]
      /\ net' = Aged(net) /\ rxbuf' = rxbuf /\ txbuf' = txbuf
  BY <1>3 DEF GetIndex, SetStat, Goto
<1>6. \A u \in Threads : idx[u] # new
  BY <1>4, <1>0 DEF ReplyInv, OwnInv, Marked
<1>7. \A j \in Idx : Dist(lastidx, j) < Dist(lastidx, new)
                       => \E u \in Threads : idx[u] = j
  BY <1>0, <1>2, <1>3, NextIdxFirst DEF ReplyInv, OwnInv, NoOrphanBuffer
<1>8. \A i \in Idx, n \in Nat :
        n < MaxAge /\ Since(idx, lastidx, i, n)
          => i # new /\ Since(idx', lastidx', i, n + 1)
  BY <1>0, <1>1, <1>5, <1>7, ScanMovesOn
<1>9. ASSUME NEW f \in net'
      PROVE  \E g \in net : /\ f.idx = g.idx /\ f.req = g.req
                            /\ f.age = g.age + 1 /\ g.age < MaxAge
                            /\ g.idx \in Idx /\ g.age \in Nat
                            /\ g.req \in Requests
  BY <1>0, <1>5 DEF Aged, Frames
<1>10. \A f \in net' : f.idx # new /\ Since(idx', lastidx', f.idx, f.age)
  <2>1. SUFFICES ASSUME NEW f \in net'
                 PROVE  f.idx # new /\ Since(idx', lastidx', f.idx, f.age)
    OBVIOUS
  <2>2. PICK g \in net : /\ f.idx = g.idx /\ f.age = g.age + 1
                         /\ g.age < MaxAge /\ g.idx \in Idx /\ g.age \in Nat
    BY <1>9
  <2>3. Since(idx, lastidx, g.idx, g.age)
    BY DEF ReplyInv, AgeOK
  <2> QED
    BY <1>8, <2>2, <2>3
<1>11. ASSUME NEW u \in Threads, idx'[u] # None, age'[u] <= MaxAge
       PROVE  Since(idx', lastidx', idx'[u], age'[u])
  <2>1. CASE u = t
    <3>1. age'[u] = 0 /\ idx'[u] = new
      BY <1>0, <1>5, <2>1
    <3> QED
      BY <1>5, <3>1, SinceNow
  <2>2. CASE u # t
    <3>1. /\ idx'[u] = idx[u] /\ idx[u] \in Idx /\ age[u] \in Nat
          /\ age'[u] = Older(age[u])
      BY <1>0, <1>5, <1>11, <2>2
    <3>2. age[u] < MaxAge /\ age'[u] = age[u] + 1
      BY <1>0, <1>11, <3>1 DEF Older
    <3>3. Since(idx, lastidx, idx[u], age[u])
      BY <1>0, <3>1, <3>2 DEF ReplyInv, AgeOK, Holders
    <3> QED
      BY <1>8, <3>1, <3>2, <3>3
  <2> QED
    BY <2>1, <2>2
<1>12. AgeOK'
  BY <1>10, <1>11 DEF AgeOK, Holders
<1>13. \A u \in Threads : u # t => idx'[u] = idx[u] /\ pc'[u] = pc[u]
                             /\ (idx[u] # None
                                   => rxbufstat'[idx[u]] = rxbufstat[idx[u]])
  BY <1>0, <1>5, <1>6
<1>14. idx'[t] = new /\ pc'[t] = "setup" /\ rxbufstat'[new] = "ALLOC"
  BY <1>0, <1>5
<1>15. ASSUME NEW f \in net'
       PROVE  /\ \A u \in Threads : f.idx = idx'[u] => f.req = u
              /\ f.req # Over => /\ f.idx = idx'[f.req]
                                 /\ rxbufstat'[f.idx] \in InUse
  <2>1. PICK g \in net : /\ f.idx = g.idx /\ f.req = g.req
                         /\ g.idx \in Idx /\ g.req \in Requests
    BY <1>9
  <2>2. f.idx # new
    BY <1>10
  <2>3. ASSUME f.req # Over
        PROVE  f.idx = idx'[f.req] /\ rxbufstat'[f.idx] \in InUse
    <3>1. g.req \in Threads /\ g.idx = idx[g.req]
          /\ rxbufstat[g.idx] \in InUse
      BY <2>1, <2>3 DEF ReplyInv, ContentOK, Requests
    <3> QED
      BY <1>0, <1>1, <1>13, <2>1, <3>1
  <2>4. ASSUME NEW u \in Threads, f.idx = idx'[u]
        PROVE  f.req = u
    <3>1. u # t
      BY <1>14, <2>2, <2>4
    <3>2. g.idx = idx[u]
      BY <1>13, <2>1, <2>4, <3>1
    <3>3. g.req = u
      BY <3>2 DEF ReplyInv, ContentOK
    <3> QED
      BY <2>1, <3>3
  <2> QED
    BY <2>3, <2>4
<1>16. \A u \in Threads : u # t /\ pc[u] # "idle" => idx[u] # None
  BY DEF ReplyInv, OwnInv, TypeInv, Labelled
<1>17. \A u \in Threads : /\ pc'[u] \notin {"idle", "setup"}
                               => txbuf'[idx'[u]] = u
                          /\ pc'[u] \notin {"idle", "setup", "mark"}
                               => rxbufstat'[idx'[u]] \in InUse
  BY <1>5, <1>13, <1>14, <1>16 DEF ReplyInv, ContentOK
<1>18. \A u \in Threads : idx'[u] # None /\ rxbufstat'[idx'[u]] = "RCVD"
                            => rxbuf'[idx'[u]] = u
  BY <1>5, <1>13, <1>14 DEF ReplyInv, ContentOK, Holders
<1>19. ContentOK'
  BY <1>15, <1>17, <1>18 DEF ContentOK, Holders, InUse
<1>20. ReplyMatchesRequest'
  BY <1>5, <1>13, <1>14 DEF ReplyInv, ReplyMatchesRequest
<1> QED
  BY <1>12, <1>19, <1>20

(* A thread that gives its buffer back is ahead of nothing any more.       *)
LEMMA SinceFewer ==
  ASSUME NEW own \in [Threads -> Idx \cup {None}], NEW t \in Threads,
         NEW l \in Idx, NEW i \in Idx, NEW n \in Nat, Since(own, l, i, n)
  PROVE  Since([own EXCEPT ![t] = None], l, i, n)
<1> DEFINE A == Ahead(own, l, Dist(l, i))
           B == Ahead([own EXCEPT ![t] = None], l, Dist(l, i))
<1>1. B \subseteq A
  BY DEF Ahead
<1>2. /\ IsFiniteSet(A) /\ Cardinality(A) \in Nat /\ Cardinality(B) \in Nat
      /\ Cardinality(Threads) \in Nat /\ MaxBuf \in Nat
      /\ Dist(l, i) \in Nat
  BY AheadFinite, FS_CardinalityType, DistInRange, NicAssumption
<1>3. Cardinality(B) <= Cardinality(A)
  <2> HIDE DEF A, B
  <2> QED
    BY <1>1, <1>2, FS_Subset
<1>4. MaxBuf + Cardinality(A) < n + Cardinality(Threads) + Dist(l, i)
  BY DEF Since
<1>5. MaxBuf + Cardinality(B) < n + Cardinality(Threads) + Dist(l, i)
  <2> HIDE DEF A, B
  <2> QED
    BY <1>2, <1>3, <1>4
<1> QED
  BY <1>5 DEF Since

(* What the cases below use of the ownership of buffers.                   *)
LEMMA Owned ==
  ASSUME ReplyInv
  PROVE  /\ idx \in [Threads -> Idx \cup {None}]
         /\ pc \in [Threads -> Labels]
         /\ rxbufstat \in [Idx -> BufStat]
         /\ rxbuf \in [Idx -> Requests] /\ txbuf \in [Idx -> Requests]
         /\ net \in SUBSET Frames
         /\ tx \in [Threads -> 0 .. MaxTx]
         /\ age \in [Threads -> 0 .. MaxAge + 1]
         /\ None \notin Idx /\ Over = None /\ None \notin Threads
         /\ \A t \in Threads : pc[t] # "idle" <=> idx[t] \in Idx
         /\ \A t, u \in Threads :
              t # u /\ idx[t] \in Idx => idx[t] # idx[u]
<1>1. None \notin Idx /\ Over = None /\ None \notin Threads
  BY NicAssumption DEF Idx, None, Over
<1>2. TypeOK /\ \A t \in Threads : pc[t] = "idle" <=> idx[t] = None
  BY DEF ReplyInv, OwnInv, TypeInv, Labelled
<1>3. \A t \in Threads : pc[t] # "idle" <=> idx[t] \in Idx
  BY <1>1, <1>2 DEF TypeOK
<1>4. \A t, u \in Threads : t # u /\ idx[t] \in Idx => idx[t] # idx[u]
  BY <1>1 DEF ReplyInv, OwnInv, IndexExclusive, Holders
<1> QED
  BY <1>1, <1>2, <1>3, <1>4 DEF TypeOK

(* Nothing gets older and nothing is added to the wire.                    *)
LEMMA AgeKept ==
  ASSUME AgeOK, idx' = idx, lastidx' = lastidx, age' = age,
         net' \subseteq net
  PROVE  AgeOK'
BY DEF AgeOK, Holders

LEMMA StepReplyInv ==
  ASSUME ~ SendFails, ~ Preempt, MaxAge + Cardinality(Threads) <= MaxBuf
  PROVE  ReplyInv /\ [Next]_vars => ReplyInv'
<1> SUFFICES ASSUME ReplyInv, [Next]_vars
             PROVE  (AgeOK /\ ContentOK /\ ReplyMatchesRequest)'
  <2>1. Cardinality(Threads) <= MaxBuf
    BY NicAssumption, FS_CardinalityType
  <2> QED
    BY <2>1, StepOwnInv DEF ReplyInv
<1> USE DEF ContentOK, ReplyMatchesRequest, Holders, InUse, Goto, SetStat
<1>0. AgeOK /\ ContentOK /\ ReplyMatchesRequest
  BY DEF ReplyInv
<1>1. CASE UNCHANGED vars
  BY <1>0, <1>1, AgeKept DEF vars
<1>2. ASSUME NEW t \in Threads, GetIndex(t)
      PROVE  (AgeOK /\ ContentOK /\ ReplyMatchesRequest)'
  BY <1>2, GetIndexReplyInv
<1>3. ASSUME NEW t \in Threads, SetupDatagram(t)
      PROVE  (AgeOK /\ ContentOK /\ ReplyMatchesRequest)'
  <2>1. AgeOK'
    BY <1>0, <1>3, AgeKept DEF SetupDatagram
  <2>2. ContentOK' /\ ReplyMatchesRequest'
    BY <1>0, <1>3, Owned DEF SetupDatagram
  <2> QED
    BY <2>1, <2>2
<1>4. ASSUME NEW t \in Threads, OutframeMark(t)
      PROVE  (AgeOK /\ ContentOK /\ ReplyMatchesRequest)'
  <2>1. AgeOK'
    BY <1>0, <1>4, AgeKept DEF OutframeMark
  <2>2. ContentOK' /\ ReplyMatchesRequest'
    BY <1>0, <1>4, Owned DEF OutframeMark
  <2> QED
    BY <2>1, <2>2
<1>6. ASSUME NEW t \in Threads, InframeReady(t)
      PROVE  (AgeOK /\ ContentOK /\ ReplyMatchesRequest)'
  <2>1. AgeOK'
    BY <1>0, <1>6, AgeKept DEF InframeReady
  <2>2. ContentOK' /\ ReplyMatchesRequest'
    BY <1>0, <1>6, Owned DEF InframeReady
  <2> QED
    BY <2>1, <2>2
<1>7. ASSUME NEW t \in Threads, InframeNotReady(t)
      PROVE  (AgeOK /\ ContentOK /\ ReplyMatchesRequest)'
  <2>1. AgeOK'
    BY <1>0, <1>7, AgeKept DEF InframeNotReady
  <2>2. ContentOK' /\ ReplyMatchesRequest'
    BY <1>0, <1>7, Owned DEF InframeNotReady
  <2> QED
    BY <2>1, <2>2
<1>8. ASSUME NEW t \in Threads, LockRx(t)
      PROVE  (AgeOK /\ ContentOK /\ ReplyMatchesRequest)'
  <2>1. AgeOK'
    BY <1>0, <1>8, AgeKept DEF LockRx
  <2>2. ContentOK' /\ ReplyMatchesRequest'
    BY <1>0, <1>8, Owned DEF LockRx
  <2> QED
    BY <2>1, <2>2
<1>9. ASSUME NEW t \in Threads, LockedReady(t)
      PROVE  (AgeOK /\ ContentOK /\ ReplyMatchesRequest)'
  <2>1. AgeOK'
    BY <1>0, <1>9, AgeKept DEF LockedReady
  <2>2. ContentOK' /\ ReplyMatchesRequest'
    BY <1>0, <1>9, Owned DEF LockedReady
  <2> QED
    BY <2>1, <2>2
<1>10. ASSUME NEW t \in Threads, RecvNothing(t)
      PROVE  (AgeOK /\ ContentOK /\ ReplyMatchesRequest)'
  <2>1. AgeOK'
    BY <1>0, <1>10, AgeKept DEF RecvNothing
  <2>2. ContentOK' /\ ReplyMatchesRequest'
    BY <1>0, <1>10, Owned DEF RecvNothing
  <2> QED
    BY <2>1, <2>2
<1>11. ASSUME NEW t \in Threads, Retransmit(t)
      PROVE  (AgeOK /\ ContentOK /\ ReplyMatchesRequest)'
  <2>1. AgeOK'
    BY <1>0, <1>11, AgeKept DEF Retransmit
  <2>2. ContentOK' /\ ReplyMatchesRequest'
    BY <1>0, <1>11, Owned DEF Retransmit
  <2> QED
    BY <2>1, <2>2
<1>12. ASSUME NEW t \in Threads, TimeOut(t)
      PROVE  (AgeOK /\ ContentOK /\ ReplyMatchesRequest)'
  <2>1. AgeOK'
    BY <1>0, <1>12, AgeKept DEF TimeOut
  <2>2. ContentOK' /\ ReplyMatchesRequest'
    BY <1>0, <1>12, Owned DEF TimeOut
  <2> QED
    BY <2>1, <2>2
<1>13. ASSUME NEW t \in Threads, OutframeFailed(t)
      PROVE  FALSE
  BY <1>13 DEF OutframeFailed
<1>14. ASSUME NEW t \in Threads, Park(t)
      PROVE  FALSE
  BY <1>14 DEF Park, ReplyInv, OwnInv, Marked
<1>5. ASSUME NEW t \in Threads, OutframeSent(t)
      PROVE  (AgeOK /\ ContentOK /\ ReplyMatchesRequest)'
  <2>1. /\ pc[t] = "send" /\ idx[t] \in Idx /\ txbuf[idx[t]] = t
        /\ rxbufstat[idx[t]] \in InUse /\ pc' = [pc EXCEPT ![t] = "poll"]
        /\ UNCHANGED <<rxbufstat, rxbuf, txbuf, lastidx, idx, age>>
    BY <1>0, <1>5, Owned DEF OutframeSent
  <2>2. \A f \in net' : \/ f \in net
                        \/ /\ f.idx = idx[t] /\ f.req = t
                           /\ f.age = age[t] /\ age[t] <= MaxAge
    BY <1>5, <2>1 DEF OutframeSent
  <2>3. AgeOK'
    <3>1. idx[t] # None
      BY <2>1, Owned
    <3> QED
      BY <1>0, <2>1, <2>2, <3>1 DEF AgeOK
  <2>4. ContentOK' /\ ReplyMatchesRequest'
    BY <1>0, <2>1, <2>2, Owned
  <2> QED
    BY <2>3, <2>4
<1>15. ASSUME NEW t \in Threads, NEW f \in net, RecvOwn(t, f)
       PROVE  (AgeOK /\ ContentOK /\ ReplyMatchesRequest)'
  <2>1. AgeOK'
    BY <1>0, <1>15, AgeKept DEF RecvOwn
  <2>2. f.req = t /\ idx[t] \in Idx
    BY <1>0, <1>15, Owned DEF RecvOwn
  <2>3. ContentOK' /\ ReplyMatchesRequest'
    BY <1>0, <1>15, <2>2, Owned DEF RecvOwn
  <2> QED
    BY <2>1, <2>3
<1>16. ASSUME NEW t \in Threads, NEW f \in net, RecvOther(t, f)
       PROVE  (AgeOK /\ ContentOK /\ ReplyMatchesRequest)'
  <2>1. AgeOK'
    BY <1>0, <1>16, AgeKept DEF RecvOther
  <2>2. f.idx \in Idx
    BY Owned DEF Frames
  <2>3. PICK u \in Threads : idx[u] = f.idx
    BY <1>16, <2>2 DEF RecvOther, ReplyInv, OwnInv, NoOrphanBuffer
  <2>4. f.req = u
    BY <1>0, <2>3
  <2>5. /\ rxbufstat' = [rxbufstat EXCEPT ![f.idx] = "RCVD"]
        /\ rxbuf' = [rxbuf EXCEPT ![f.idx] = u]
        /\ pc' = [pc EXCEPT ![t] = "missed"] /\ pc[t] = "locked"
        /\ net' \subseteq net /\ idx' = idx /\ txbuf' = txbuf
    BY <1>16, <2>4 DEF RecvOther
  <2>6. \A v \in Threads : idx[v] \in Idx =>
          /\ rxbuf'[idx[v]] = IF v = u THEN u ELSE rxbuf[idx[v]]
          /\ rxbufstat'[idx[v]] = IF v = u THEN "RCVD"
                                  ELSE rxbufstat[idx[v]]
    BY <2>2, <2>3, <2>5, Owned
  <2>7. \A g \in net : rxbufstat[g.idx] \in InUse
                          => rxbufstat'[g.idx] \in InUse
    BY <2>2, <2>5, Owned DEF Frames
  <2>8. ContentOK' /\ ReplyMatchesRequest'
    BY <1>0, <2>5, <2>6, <2>7, Owned
  <2> QED
    BY <2>1, <2>8
<1>17. ASSUME NEW t \in Threads, NEW f \in net, RecvStray(t, f)
       PROVE  (AgeOK /\ ContentOK /\ ReplyMatchesRequest)'
  <2>1. AgeOK'
    BY <1>0, <1>17, AgeKept DEF RecvStray
  <2>2. ContentOK' /\ ReplyMatchesRequest'
    BY <1>0, <1>17, Owned DEF RecvStray
  <2> QED
    BY <2>1, <2>2
<1>18. ASSUME NEW t \in Threads, Release(t)
       PROVE  (AgeOK /\ ContentOK /\ ReplyMatchesRequest)'
  <2>1. /\ idx[t] \in Idx /\ pc[t] \in {"replied", "failed"}
        /\ rxbufstat' = [rxbufstat EXCEPT ![idx[t]] = "EMPTY"]
        /\ idx' = [idx EXCEPT ![t] = None]
        /\ age' = [age EXCEPT ![t] = 0]
        /\ pc' = [pc EXCEPT ![t] = "idle"] /\ lastidx' = lastidx
        /\ rxbuf' = [i \in Idx |-> Finished(t, rxbuf[i])]
        /\ txbuf' = [i \in Idx |-> Finished(t, txbuf[i])]
    BY <1>18, Owned DEF Release
  <2>2. ASSUME NEW f \in net'
        PROVE  \E g \in net : /\ f.idx = g.idx /\ f.age = g.age
                              /\ f.req = Finished(t, g.req)
                              /\ g.idx \in Idx /\ g.req \in Requests
                              /\ g.age \in Nat
    BY <1>18, Owned, NicAssumption DEF Release, Retired, Frames
  <2>3. AgeOK'
    <3>1. \A l, i, n : l \in Idx /\ i \in Idx /\ n \in Nat
                         /\ Since(idx, l, i, n)
                         => Since(idx', l, i, n)
      BY <2>1, Owned, SinceFewer
    <3>2. lastidx \in Idx
      BY DEF ReplyInv, OwnInv, TypeInv, TypeOK
    <3>3. \A f \in net' : Since(idx', lastidx', f.idx, f.age)
      BY <1>0, <2>1, <2>2, <3>1, <3>2 DEF AgeOK
    <3>4. ASSUME NEW u \in Threads, idx'[u] # None, age'[u] <= MaxAge
          PROVE  Since(idx', lastidx', idx'[u], age'[u])
      <4>1. /\ idx'[u] = idx[u] /\ age'[u] = age[u] /\ idx[u] \in Idx
            /\ age[u] \in Nat
        BY <2>1, <3>4, Owned, NicAssumption
      <4>2. Since(idx, lastidx, idx[u], age[u])
        BY <1>0, <3>4, <4>1 DEF AgeOK
      <4> QED
        BY <2>1, <3>1, <3>2, <4>1, <4>2
    <3> QED
      BY <3>3, <3>4 DEF AgeOK
  <2>4. \A u \in Threads : u # t =>
          /\ idx'[u] = idx[u] /\ pc'[u] = pc[u]
          /\ idx[u] \in Idx =>
               /\ rxbufstat'[idx[u]] = rxbufstat[idx[u]]
               /\ rxbuf[idx[u]] = u => rxbuf'[idx[u]] = u
               /\ txbuf[idx[u]] = u => txbuf'[idx[u]] = u
    BY <2>1, Owned DEF Finished
  <2>5. idx'[t] = None /\ pc'[t] = "idle"
    BY <2>1, Owned
  <2>6. ASSUME NEW f \in net'
        PROVE  /\ \A u \in Threads : f.idx = idx'[u] => f.req = u
               /\ f.req # Over => /\ f.idx = idx'[f.req]
                                  /\ rxbufstat'[f.idx] \in InUse
    <3>1. PICK g \in net : /\ f.idx = g.idx /\ f.req = Finished(t, g.req)
                           /\ g.idx \in Idx /\ g.req \in Requests
      BY <2>2
    <3>2. ASSUME NEW u \in Threads, f.idx = idx'[u]
          PROVE  f.req = u
      <4>1. u # t /\ g.idx = idx[u]
        BY <2>4, <2>5, <3>1, <3>2, Owned
      <4>2. g.req = u
        BY <1>0, <4>1
      <4> QED
        BY <3>1, <4>1, <4>2 DEF Finished
    <3>3. ASSUME f.req # Over
          PROVE  f.idx = idx'[f.req] /\ rxbufstat'[f.idx] \in InUse
      <4>1. f.req = g.req /\ f.req # t /\ f.req \in Threads
        BY <3>1, <3>3 DEF Finished, Requests
      <4>2. g.idx = idx[g.req] /\ rxbufstat[g.idx] \in InUse
        BY <1>0, <3>3, <4>1
      <4> QED
        BY <2>4, <3>1, <4>1, <4>2
    <3> QED
      BY <3>2, <3>3
  <2>7. \A u \in Threads : pc[u] # "idle" <=> idx[u] \in Idx
    BY Owned
  <2>8. \A u \in Threads :
          /\ pc'[u] \notin {"idle", "setup"} => txbuf'[idx'[u]] = u
          /\ pc'[u] \notin {"idle", "setup", "mark"}
               => rxbufstat'[idx'[u]] \in InUse
          /\ idx'[u] # None /\ rxbufstat'[idx'[u]] = "RCVD"
               => rxbuf'[idx'[u]] = u
          /\ pc'[u] = "replied" => rxbuf'[idx'[u]] = u
    BY <1>0, <2>4, <2>5, <2>7, Owned
  <2>9. ContentOK' /\ ReplyMatchesRequest'
    BY <2>6, <2>8
  <2> QED
    BY <2>3, <2>9
<1> QED
  BY <1>1, <1>2, <1>3, <1>4, <1>5, <1>6, <1>7, <1>8, <1>9, <1>10, <1>11,
     <1>12, <1>13, <1>14, <1>15, <1>16, <1>17, <1>18 DEF Next, Inframe

(* The reply to a request is the reply to this request, for every number   *)
(* of threads and buffers, as long as a frame is lost for good after at    *)
(* most as many calls of ecx_getindex as there are buffers beyond one for  *)
(* each thread.  With one call more TLC finds the late reply to an earlier *)
(* request taken for the answer.                                           *)
THEOREM RepliesAreToRequests ==
  ASSUME ~ SendFails, ~ Preempt, MaxAge + Cardinality(Threads) <= MaxBuf
  PROVE  Spec => []ReplyMatchesRequest
<1>1. Init => ReplyInv
  BY InitReplyInv
<1>2. ReplyInv /\ [Next]_vars => ReplyInv'
  BY StepReplyInv
<1>3. ReplyInv => ReplyMatchesRequest
  BY DEF ReplyInv
<1> QED
  BY <1>1, <1>2, <1>3, PTL DEF Spec

(* Under the same conditions the reader throws no reply away that another  *)
(* thread still waits for.                                                 *)
THEOREM RepliesAreKept ==
  ASSUME ~ SendFails, ~ Preempt, MaxAge + Cardinality(Threads) <= MaxBuf
  PROVE  Spec => ReplyNotDiscarded
<1> DEFINE Kept ==
      \A f \in net \ net' :
        (f.req # Over /\ \E t \in Threads : pc[t] = "locked" /\ pc'[t] # pc[t])
          => HasReply(f.idx)
               \/ (HasReply(f.idx)' /\ rxbuf'[f.idx] = f.req)
<1>1. Init => ReplyInv
  BY InitReplyInv
<1>2. ReplyInv /\ [Next]_vars => ReplyInv'
  BY StepReplyInv
<1>3. ReplyInv /\ [Next]_vars => Kept
  <2> SUFFICES ASSUME ReplyInv, [Next]_vars, NEW f \in net, f \notin net',
                      f.req # Over,
                      NEW u \in Threads, pc[u] = "locked", pc'[u] # pc[u]
               PROVE  \/ HasReply(f.idx)
                      \/ HasReply(f.idx)' /\ rxbuf'[f.idx] = f.req
    OBVIOUS
  <2>1. PICK t \in Threads, g \in net :
          RecvOwn(t, g) \/ RecvOther(t, g) \/ RecvStray(t, g)
    <3>1. ~ UNCHANGED vars
      BY DEF vars
    <3>2. PICK t \in Threads :
            \/ GetIndex(t) \/ SetupDatagram(t)
            \/ OutframeMark(t) \/ OutframeSent(t) \/ OutframeFailed(t)
            \/ Inframe(t)
            \/ Retransmit(t) \/ TimeOut(t)
            \/ Release(t)
      BY <3>1 DEF Next
    <3>3. ~ GetIndex(t) /\ ~ Release(t)
      BY Owned DEF GetIndex, Release, Goto
    <3>4. Inframe(t)
      BY <3>2, <3>3 DEF SetupDatagram, OutframeMark, OutframeSent,
         OutframeFailed, Retransmit, TimeOut
    <3> QED
      BY <3>4 DEF Inframe, InframeReady, InframeNotReady, LockRx,
         LockedReady, RecvNothing, Park
  <2>2. f = g
    BY <2>1 DEF RecvOwn, RecvOther, RecvStray
  <2>3. f.idx \in Idx /\ rxbufstat[f.idx] \in InUse
    BY Owned DEF ReplyInv, ContentOK, Frames
  <2>4. CASE RecvOwn(t, g)
    BY <2>2, <2>3, <2>4, Owned DEF RecvOwn, SetStat, HasReply
  <2>5. CASE RecvOther(t, g)
    BY <2>2, <2>3, <2>5, Owned DEF RecvOther, SetStat, HasReply
  <2>6. CASE RecvStray(t, g)
    BY <2>2, <2>3, <2>6 DEF RecvStray, HasReply, InUse
  <2> QED
    BY <2>1, <2>4, <2>5, <2>6
<1>4. Spec => [][Kept]_vars
  BY <1>1, <1>2, <1>3, PTL DEF Spec
<1> QED
  BY <1>4 DEF ReplyNotDiscarded

=============================================================================
