-------------------------- MODULE Transfers_proofs --------------------------
(***************************************************************************)
(* Proofs about the acyclic protocols, for mailboxes and pools of every    *)
(* size, any items, faults and applications: the mailboxes of the pool,    *)
(* counted exactly; the files that FoE reports as moved are whole, what    *)
(* CoE reports as read of the dictionary is what was asked for, and so are *)
(* the Ethernet frames of EoE, of applications that do not mix their       *)
(* transfers with other calls.                                             *)
(***************************************************************************)
EXTENDS Transfers, SequenceTheorems, TLAPS

-----------------------------------------------------------------------------
(* The mailboxes.  What the caller holds and what is free are together the *)
(* mailboxes of the pool, one more for each that was dropped twice, and    *)
(* one less for each that is kept for good.  A call of CoE has dropped     *)
(* what it has drained, although it keeps the pointer.                     *)
Posted == {"try", "wait", "retry"}
EmptyHanded == {"idle", "drain", "draindrop", "receive", "sdoread", "done"}

AppOK ==
  /\ op \in application \cup {"none"}
  /\ pc = "drain" => op \notin InfoCalls
  /\ pc = "draindrop" => op \in InfoCalls
  /\ pc = "endentry" => op = "readoe"

HandsOK ==
  /\ mbxout # Nothing <=> pc \in Posted
  /\ pc \in EmptyHanded => mbxin = Nothing
  /\ pc = "received" => mbxin # Nothing

tally == <<doubled, kept>>

InfoDropped == pc = "next" /\ op \in InfoCalls

PoolOK ==
  /\ {pool, doubled, kept} \subseteq Int
  /\ pool + Held(mbxout) + (IF InfoDropped THEN 0 ELSE Held(mbxin)) = PoolSize + doubled - kept

KeptOK == AppOK /\ HandsOK /\ PoolOK

LEMMA HeldValue ==
  /\ Held(Nothing) = 0
  /\ \A m : Held(m) \in 0 .. 1 /\ (m # Nothing => Held(m) = 1)
BY DEF Held

LEMMA RequestIsSomething ==
  \A cnt, body : [cnt |-> cnt, body |-> body] # Nothing
BY DEF Nothing

LEMMA PoolSizeInt == PoolSize \in Int
BY AcyclicMbxAssumption

(* Nothing happens to the mailboxes the caller holds.                      *)
LEMMA KeptGoto ==
  ASSUME KeptOK, UNCHANGED <<mailboxes, op, application, tally>>,
         pc \in Posted <=> pc' \in Posted,
         pc' \in EmptyHanded => pc \in EmptyHanded,
         pc' = "received" => pc = "received",
         pc' # "drain", pc' = "endentry" => op = "readoe",
         pc' = "draindrop" => op \in InfoCalls,
         op \in InfoCalls => (pc' = "next" <=> pc = "next")
  PROVE  KeptOK'
<1>1. AppOK'
  BY DEF KeptOK, AppOK
<1>2. HandsOK'
  BY DEF KeptOK, HandsOK, mailboxes
<1>3. PoolOK'
  <2>1. UNCHANGED <<pool, Held(mbxout), Held(mbxin)>>
    BY DEF mailboxes, Held
  <2>2. Held(mbxin) \in 0 .. 1 /\ Held(mbxout) \in 0 .. 1
    BY HeldValue
  <2> QED
    BY <2>1, <2>2, PoolSizeInt DEF KeptOK, PoolOK, InfoDropped, tally
<1> QED
  BY <1>1, <1>2, <1>3 DEF KeptOK

LEMMA KeptBegin ==
  ASSUME KeptOK, NEW function \in application, NEW i, NEW size, NEW first,
         Begin(function, i, size, first), UNCHANGED <<application, tally>>,
         first \in {"drain", "next", "receive", "draindrop", "sdoread"},
         first = "draindrop" <=> function \in InfoCalls
  PROVE  KeptOK'
<1>1. pc = "idle" /\ pc' = first /\ op' = function /\ UNCHANGED mailboxes
  BY DEF Begin, Goto
<1>2. AppOK'
  BY <1>1 DEF AppOK
<1>3. HandsOK'
  BY <1>1 DEF KeptOK, HandsOK, mailboxes, Posted, EmptyHanded
<1>4. PoolOK'
  <2>1. UNCHANGED <<pool, Held(mbxout), Held(mbxin)>>
    BY <1>1 DEF mailboxes, Held
  <2>2. Held(mbxin) \in 0 .. 1 /\ Held(mbxout) \in 0 .. 1
    BY HeldValue
  <2>3. ~(pc' = "next" /\ op' \in InfoCalls)
    BY <1>1
  <2>4. pc # "next"
    BY <1>1
  <2> QED
    BY <2>1, <2>2, <2>3, <2>4, PoolSizeInt DEF KeptOK, PoolOK, InfoDropped, tally
<1> QED
  BY <1>2, <1>3, <1>4 DEF KeptOK

LEMMA KeptReturn ==
  ASSUME KeptOK, Return, UNCHANGED <<application, tally>>
  PROVE  KeptOK'
<1>1. pc = "done" /\ pc' = "idle" /\ op' = "none" /\ UNCHANGED mailboxes
  BY DEF Return, Goto
<1>2. AppOK'
  BY <1>1 DEF AppOK
<1>3. HandsOK'
  BY <1>1 DEF KeptOK, HandsOK, mailboxes, Posted, EmptyHanded
<1>4. PoolOK'
  <2>1. UNCHANGED <<pool, Held(mbxout), Held(mbxin)>>
    BY <1>1 DEF mailboxes, Held
  <2>2. Held(mbxin) \in 0 .. 1 /\ Held(mbxout) \in 0 .. 1
    BY HeldValue
  <2> QED
    BY <1>1, <2>1, <2>2, PoolSizeInt DEF KeptOK, PoolOK, InfoDropped, tally
<1> QED
  BY <1>2, <1>3, <1>4 DEF KeptOK

(* A mailbox is taken and posted, or there is none.                        *)
LEMMA KeptPost ==
  ASSUME KeptOK, NEW body, Post(body), UNCHANGED <<op, application, tally>>,
         pc \in {"next", "received"}, op \notin InfoCalls
  PROVE  KeptOK'
<1>1. CASE pc' = "crashed" /\ UNCHANGED mailboxes
  BY <1>1, KeptGoto DEF Posted, EmptyHanded
<1>2. CASE /\ mbxout' = [cnt |-> NextCnt, body |-> body]
           /\ pool' = pool - 1 /\ pc' = "try" /\ mbxin' = mbxin
  <2>1. mbxout' # Nothing
    BY <1>2, RequestIsSomething
  <2>2. mbxout = Nothing
    BY DEF KeptOK, HandsOK, Posted
  <2>3. AppOK'
    BY <1>2 DEF KeptOK, AppOK
  <2>4. HandsOK'
    BY <1>2, <2>1 DEF HandsOK, Posted, EmptyHanded
  <2>5. PoolOK'
    <3>1. Held(mbxout) = 0 /\ Held(mbxout') = 1 /\ Held(mbxin') = Held(mbxin)
      BY <1>2, <2>1, <2>2, HeldValue
    <3>2. Held(mbxin) \in 0 .. 1
      BY HeldValue
    <3> QED
      BY <1>2, <3>1, <3>2, PoolSizeInt DEF KeptOK, PoolOK, InfoDropped, tally
  <2> QED
    BY <2>3, <2>4, <2>5 DEF KeptOK
<1> QED
  BY <1>1, <1>2 DEF Post, Goto

(* The mailbox that was received goes back, or was none.                   *)
LEMMA KeptDrop ==
  ASSUME KeptOK, mbxin' = Nothing, pool' = pool + Held(mbxin),
         UNCHANGED <<mbxout, op, application, tally>>,
         pc \in {"sent", "received", "finish", "endentry"},
         pc' \notin Posted \cup {"received", "endentry", "next", "drain"},
         pc' = "draindrop" => op \in InfoCalls
  PROVE  KeptOK'
<1>1. AppOK'
  BY DEF KeptOK, AppOK
<1>2. HandsOK'
  BY DEF KeptOK, HandsOK, Posted, EmptyHanded
<1>3. PoolOK'
  <2>1. Held(mbxin') = 0 /\ Held(mbxout') = Held(mbxout)
    BY HeldValue
  <2>2. Held(mbxin) \in 0 .. 1 /\ Held(mbxout) \in 0 .. 1
    BY HeldValue
  <2> QED
    BY <2>1, <2>2, PoolSizeInt DEF KeptOK, PoolOK, InfoDropped, tally
<1> QED
  BY <1>1, <1>2, <1>3 DEF KeptOK

(* The mailbox that was posted goes back.                                  *)
LEMMA KeptSent ==
  ASSUME KeptOK, mbxout' = Nothing, pool' = pool + 1,
         UNCHANGED <<mbxin, op, application, tally>>,
         pc \in Posted, pc' \in {"sent", "unsent"}
  PROVE  KeptOK'
<1>1. AppOK'
  BY DEF KeptOK, AppOK
<1>2. HandsOK'
  BY DEF KeptOK, HandsOK, Posted, EmptyHanded
<1>3. PoolOK'
  <2>1. Held(mbxout') = 0 /\ Held(mbxout) = 1 /\ Held(mbxin') = Held(mbxin)
    BY HeldValue DEF KeptOK, HandsOK
  <2>2. Held(mbxin) \in 0 .. 1 /\ pc # "next"
    BY HeldValue DEF Posted
  <2> QED
    BY <2>1, <2>2, PoolSizeInt DEF KeptOK, PoolOK, InfoDropped, tally
<1> QED
  BY <1>1, <1>2, <1>3 DEF KeptOK

-----------------------------------------------------------------------------
(* The steps of AcyclicMbx and MbxCall.                                    *)
LEMMA KeptTransport ==
  ASSUME KeptOK, Transport, UNCHANGED <<op, application, tally>>
  PROVE  KeptOK'
<1>1. CASE FirstTry
  <2>1. CASE pc' = "sent" /\ mbxout' = Nothing /\ pool' = pool + 1
    BY <1>1, <2>1, KeptSent DEF FirstTry, Posted
  <2>2. CASE pc' = "wait" /\ UNCHANGED <<mbxout, pool>>
    BY <1>1, <2>2, KeptGoto DEF FirstTry, Posted, EmptyHanded, mailboxes
  <2> QED
    BY <1>1, <2>1, <2>2 DEF FirstTry
<1>2. CASE WaitEmpty
  BY <1>2, KeptGoto DEF WaitEmpty, Posted, EmptyHanded
<1>3. CASE WaitEmptyFails
  BY <1>3, KeptSent DEF WaitEmptyFails, Posted
<1>4. CASE Retry
  BY <1>4, KeptSent DEF Retry, Posted
<1>5. CASE Receive
  <2>1. /\ pc = "receive" /\ pc' = "received" /\ mbxin = Nothing
        /\ mbxin' # Nothing /\ pool' = pool - 1 /\ mbxout' = mbxout
    BY <1>5 DEF Receive, KeptOK, HandsOK, EmptyHanded
  <2>2. AppOK'
    BY <2>1 DEF KeptOK, AppOK
  <2>3. HandsOK'
    BY <2>1 DEF KeptOK, HandsOK, Posted, EmptyHanded
  <2>4. PoolOK'
    <3>1. Held(mbxin) = 0 /\ Held(mbxin') = 1 /\ Held(mbxout') = Held(mbxout)
      BY <2>1, HeldValue
    <3>2. Held(mbxout) \in 0 .. 1
      BY HeldValue
    <3> QED
      BY <2>1, <3>1, <3>2, PoolSizeInt DEF KeptOK, PoolOK, InfoDropped, tally
  <2> QED
    BY <2>2, <2>3, <2>4 DEF KeptOK
<1>6. CASE ReceiveLoses \/ ReceiveTimesOut
  BY <1>6, KeptGoto DEF ReceiveLoses, ReceiveTimesOut, Posted, EmptyHanded
<1> QED
  BY <1>1, <1>2, <1>3, <1>4, <1>5, <1>6 DEF Transport

LEMMA KeptDrain ==
  ASSUME KeptOK, Drain, UNCHANGED <<application, tally>>
  PROVE  KeptOK'
<1>1. /\ pc = "drain" /\ pc' = "next" /\ pool' = pool - Held(mbxin')
      /\ mbxin = Nothing /\ UNCHANGED <<mbxout, op>>
  BY DEF Drain, Goto, KeptOK, HandsOK, EmptyHanded, callvars
<1>2. AppOK'
  BY <1>1 DEF KeptOK, AppOK
<1>3. HandsOK'
  BY <1>1 DEF KeptOK, HandsOK, Posted, EmptyHanded
<1>4. PoolOK'
  <2>1. op \notin InfoCalls
    BY <1>1 DEF KeptOK, AppOK
  <2>2. Held(mbxin) = 0 /\ Held(mbxin') \in 0 .. 1 /\ Held(mbxout) \in 0 .. 1
        /\ Held(mbxout') = Held(mbxout)
    BY <1>1, HeldValue
  <2> QED
    BY <1>1, <2>1, <2>2, PoolSizeInt DEF KeptOK, PoolOK, InfoDropped, tally
<1> QED
  BY <1>2, <1>3, <1>4 DEF KeptOK

LEMMA KeptFinish ==
  ASSUME KeptOK, Finish, UNCHANGED <<application, tally>>
  PROVE  KeptOK'
BY KeptDrop DEF Finish, Goto, Posted, callvars

LEMMA KeptAwaitReply ==
  ASSUME KeptOK, AwaitReply, pc = "sent", UNCHANGED <<application, tally>>
  PROVE  KeptOK'
BY KeptDrop DEF AwaitReply, Goto, Posted

(* Nothing but the result and the place change.                            *)
LEMMA KeptConclude ==
  ASSUME KeptOK, NEW result, NEW label, Conclude(result, label), UNCHANGED <<application, tally>>,
         pc \in {"sent", "received", "unsent", "unreceived"},
         label = "finish" \/ (label = "endentry" /\ op = "readoe")
           \/ (label = "next" /\ op \notin InfoCalls)
  PROVE  KeptOK'
BY KeptGoto DEF Conclude, Goto, Posted, EmptyHanded

LEMMA KeptQuiet ==
  ASSUME KeptOK, UNCHANGED <<pc, mailboxes, op, application, tally>>
  PROVE  KeptOK'
<1>1. UNCHANGED <<pool, mbxout, mbxin>>
  BY DEF mailboxes
<1> QED
  BY <1>1 DEF KeptOK, AppOK, HandsOK, PoolOK, InfoDropped, Held, tally

LEMMA KeptSlave ==
  ASSUME KeptOK, Slave, UNCHANGED <<callvars, application, tally>>
  PROVE  KeptOK'
BY KeptQuiet DEF Slave, TakeCopy, PlaceReply, FallSilent, callvars

LEMMA KeptServer ==
  ASSUME KeptOK, Server, UNCHANGED <<application, tally>>
  PROVE  KeptOK'
<1>1. CASE FileServer
  BY <1>1, KeptQuiet DEF FileServer, ServeRead, ServeWrite, ServeAck, ServeData, ServeBusy,
                         ServeError, FoeServe, Take, callvars
<1>2. CASE Drive
  BY <1>2, KeptQuiet DEF Drive, DropFragments, ServeReadIDN, SendRest, ServeFragment,
                         ServeWriteIDN, ServeSoeError, SoeServe, Take, callvars, mbxvars
<1>3. CASE Stack
  BY <1>3, KeptQuiet DEF Stack, TakeFragment, SetSlaveIp, TellSlaveIp, RefuseIp, SendFrame,
                         BeginFrame, EoeServe, Take, callvars, mbxvars
<1>4. CASE InfoServer
  BY <1>4, KeptQuiet DEF InfoServer, ServeList, ServeRxPdo, ServeObject, SendList, GiveUpList,
                         ServeInfoError, ServeInfo, Take, callvars, mbxvars
<1> QED
  BY <1>1, <1>2, <1>3, <1>4 DEF Server, Foe, Soe, Eoe, Coe

-----------------------------------------------------------------------------
(* The steps of the protocols.                                             *)
LEMMA KeptFoe ==
  ASSUME KeptOK, FoeMaster, UNCHANGED <<application, tally>>
  PROVE  KeptOK'
<1>1. op \in {"foeread", "foewrite"} => op \notin InfoCalls
  BY DEF InfoCalls, Receiving
<1>2. CASE FoeRequest
  BY <1>1, <1>2, KeptPost DEF FoeRequest, Ask, callvars
<1>3. CASE FoeAwaitReply
  BY <1>3, KeptAwaitReply, KeptConclude DEF FoeAwaitReply
<1>4. CASE FoeGiveUp
  BY <1>4, KeptConclude DEF FoeGiveUp, GiveUp
<1>5. CASE TakePacket
  BY <1>1, <1>5, KeptPost DEF TakePacket
<1>6. CASE RefusePacket \/ BusyAtOnce \/ FoeRefused
  BY <1>6, KeptConclude DEF RefusePacket, BusyAtOnce, FoeRefused
<1>7. ASSUME NEW from, NEW number, pc = "received", op = "foewrite",
             SendPacket(from, number), op' = op
      PROVE  KeptOK'
  <2>1. CASE Post(FoeData(number, Bytes(item, from, Least(Size[item] - from, MaxData))))
    BY <1>1, <1>7, <2>1, KeptPost
  <2>2. CASE pc' = "finish" /\ UNCHANGED mailboxes
    BY <1>7, <2>2, KeptGoto DEF Posted, EmptyHanded
  <2> QED
    BY <1>7, <2>1, <2>2 DEF SendPacket, Goto
<1>8. CASE NextPacket \/ SameAgain
  BY <1>7, <1>8 DEF NextPacket, SameAgain
<1> QED
  BY <1>2, <1>3, <1>4, <1>5, <1>6, <1>8 DEF FoeMaster

LEMMA KeptSoe ==
  ASSUME KeptOK, SoeMaster, UNCHANGED <<application, tally>>
  PROVE  KeptOK'
<1>1. op \in {"soeread", "soewrite"} => op \notin InfoCalls
  BY DEF InfoCalls, Receiving
<1>2. CASE SoeAwaitReply
  BY <1>2, KeptAwaitReply DEF SoeAwaitReply
<1>3. CASE ReadIDN
  BY <1>1, <1>3, KeptPost DEF ReadIDN, Ask, callvars
<1>4. CASE CopyFragment
  BY <1>4, KeptGoto DEF CopyFragment, Goto, Posted, EmptyHanded
<1>5. CASE SoeReadFails
  BY <1>5, KeptConclude DEF SoeReadFails, GiveUp
<1>6. CASE WriteFragment
  <2>1. \E body : Post(body)
    BY <1>6 DEF WriteFragment
  <2> QED
    BY <1>1, <1>6, <2>1, KeptPost DEF WriteFragment
<1>7. CASE FragmentTaken \/ WriteAnswered \/ WriteGoesOn
  BY <1>1, <1>7, KeptConclude DEF FragmentTaken, WriteAnswered, WriteGoesOn
<1>8. CASE FragmentStuck
  BY <1>8, KeptDrop DEF FragmentStuck, Goto, Posted
<1> QED
  BY <1>2, <1>3, <1>4, <1>5, <1>6, <1>7, <1>8 DEF SoeMaster

LEMMA KeptEoe ==
  ASSUME KeptOK, EoeMaster, UNCHANGED <<application, tally>>
  PROVE  KeptOK'
<1>1. op \in EoeOps => op \notin InfoCalls
  BY DEF InfoCalls, Receiving, EoeOps
<1>2. CASE SendFragment
  <2>1. \E body : Post(body)
    BY <1>2 DEF SendFragment
  <2> QED
    BY <1>1, <1>2, <2>1, KeptPost DEF SendFragment, EoeOps
<1>3. CASE FragmentSent
  BY <1>1, <1>3, KeptGoto DEF FragmentSent, Goto, Posted, EmptyHanded, EoeOps
<1>4. CASE ReceiveFragment
  <2>1. CASE pc' = "finish" /\ UNCHANGED <<mbxin, pool>>
    BY <1>4, <2>1, KeptGoto DEF ReceiveFragment, Posted, EmptyHanded, mailboxes
  <2>2. CASE pc' = "receive" /\ mbxin' = Nothing /\ pool' = pool + 1
    <3>1. Held(mbxin) = 1
      BY <1>4, HeldValue DEF ReceiveFragment, KeptOK, HandsOK
    <3> QED
      BY <1>4, <2>2, <3>1, KeptDrop DEF ReceiveFragment, Posted
  <2> QED
    BY <1>4, <2>1, <2>2 DEF ReceiveFragment, Goto
<1>5. CASE ReceiveRefused \/ ReadFragment \/ ReadRefused
  BY <1>5, KeptConclude DEF ReceiveRefused, ReadFragment, ReadRefused
<1>6. CASE AskIp
  BY <1>1, <1>6, KeptPost DEF AskIp, Ask, callvars, EoeOps
<1>7. CASE AwaitIp
  BY <1>7, KeptAwaitReply DEF AwaitIp
<1>8. CASE IpAnswered
  BY <1>8, KeptGoto DEF IpAnswered, Goto, Posted, EmptyHanded
<1>9. CASE EoeGiveUp
  BY <1>9, KeptConclude DEF EoeGiveUp, GiveUp
<1> QED
  BY <1>2, <1>3, <1>4, <1>5, <1>6, <1>7, <1>8, <1>9 DEF EoeMaster

LEMMA KeptInfo ==
  ASSUME KeptOK, InfoMaster, UNCHANGED <<application, kept>>
  PROVE  KeptOK'
<1>0. ~AskInfo => UNCHANGED tally
  BY DEF InfoMaster, DrainAndDrop, PdoSent, AwaitInfo, InfoFails, InfoRefused, TakeTxPdo, TakeIndices,
         TakeDescription, TakeEntry, Gets, EndEntry, infovars, tally
<1>1. CASE DrainAndDrop
  <2>1. /\ pc = "draindrop" /\ pc' = "next" /\ mbxin = Nothing
        /\ UNCHANGED <<mbxout, pool, op>> /\ op \in InfoCalls
    BY <1>1 DEF DrainAndDrop, Goto, KeptOK, AppOK, HandsOK, EmptyHanded
  <2>2. UNCHANGED tally
    BY <1>0, <1>1 DEF DrainAndDrop, AskInfo
  <2>3. AppOK'
    BY <2>1 DEF KeptOK, AppOK
  <2>4. HandsOK'
    BY <2>1 DEF KeptOK, HandsOK, Posted, EmptyHanded
  <2>5. PoolOK'
    <3>1. Held(mbxin) = 0 /\ Held(mbxin') \in 0 .. 1 /\ Held(mbxout') = Held(mbxout)
      BY <2>1, HeldValue
    <3>2. Held(mbxout) \in 0 .. 1
      BY HeldValue
    <3>3. ~InfoDropped /\ InfoDropped'
      BY <2>1 DEF InfoDropped
    <3> QED
      BY <2>1, <2>2, <3>1, <3>2, <3>3, PoolSizeInt DEF KeptOK, PoolOK, tally
  <2> QED
    BY <2>3, <2>4, <2>5 DEF KeptOK
<1>2. CASE AskInfo
  <2>1. /\ pc = "next" /\ op \in InfoCalls /\ mbxout = Nothing /\ UNCHANGED <<op, application>>
    BY <1>2 DEF AskInfo, KeptOK, HandsOK, Posted, callvars
  <2>2. pool + 0 + 0 = PoolSize + doubled - kept
    <3>1. InfoDropped /\ Held(mbxout) = 0
      BY <2>1, HeldValue DEF InfoDropped
    <3> QED
      BY <3>1 DEF KeptOK, PoolOK
  <2>3. Held(mbxout) = 0 /\ Held(mbxin') \in 0 .. 1
    BY <2>1, HeldValue
  <2>4. CASE /\ mbxout' = [cnt |-> NextCnt, body |-> Body] /\ pool' = pool - 1 /\ pc' = "try"
             /\ doubled' = doubled + Held(mbxin')
    <3>1. mbxout' # Nothing
      BY <2>4, RequestIsSomething
    <3>2. Held(mbxout') = 1
      BY <3>1, HeldValue
    <3>3. AppOK'
      BY <2>1, <2>4 DEF KeptOK, AppOK
    <3>4. HandsOK'
      BY <2>4, <3>1 DEF HandsOK, Posted, EmptyHanded
    <3>5. PoolOK'
      <4>1. ~InfoDropped'
        BY <2>4 DEF InfoDropped
      <4> QED
        BY <2>2, <2>3, <2>4, <3>2, <4>1, PoolSizeInt DEF KeptOK, PoolOK
    <3> QED
      BY <3>3, <3>4, <3>5 DEF KeptOK
  <2>5. CASE NoMailbox /\ doubled' = doubled
    <3>1. /\ pc' \in {"endentry", "finish"} /\ (pc' = "endentry" => op = "readoe")
          /\ mbxin' = Nothing /\ UNCHANGED <<mbxout, pool>>
      BY <2>5 DEF NoMailbox, Goto, AtEnd
    <3>2. Held(mbxout') = 0 /\ Held(mbxin') = 0
      BY <2>1, <3>1, HeldValue
    <3>3. AppOK'
      BY <2>1, <3>1 DEF KeptOK, AppOK
    <3>4. HandsOK'
      BY <2>1, <3>1 DEF HandsOK, Posted, EmptyHanded
    <3>5. PoolOK'
      <4>1. ~InfoDropped'
        BY <3>1 DEF InfoDropped
      <4> QED
        BY <2>2, <2>5, <3>1, <3>2, <4>1, PoolSizeInt DEF KeptOK, PoolOK
    <3> QED
      BY <3>3, <3>4, <3>5 DEF KeptOK
  <2> QED
    BY <1>2, <2>4, <2>5 DEF AskInfo, Goto
<1>3. CASE PdoSent
  BY <1>0, <1>3, KeptConclude DEF PdoSent, AskInfo
<1>4. CASE AwaitInfo
  BY <1>0, <1>4, KeptAwaitReply DEF AwaitInfo, AskInfo
<1>5. CASE InfoFails \/ InfoRefused
  BY <1>0, <1>5, KeptConclude DEF InfoFails, InfoRefused, AtEnd, AskInfo
<1>6. ASSUME NEW function, NEW contents, NEW label, Gets(function, contents, label),
             label \in {"sent", "finish", "endentry"}, label = "endentry" => op = "readoe"
      PROVE  KeptOK'
  <2>1. UNCHANGED tally
    BY <1>0, <1>6 DEF Gets, AskInfo
  <2> QED
    BY <1>6, <2>1, KeptGoto DEF Gets, Goto, Posted, EmptyHanded
<1>7. CASE TakeTxPdo \/ TakeDescription
  BY <1>6, <1>7 DEF TakeTxPdo, TakeDescription
<1>8. CASE TakeIndices
  <2>1. \E contents, label : Gets("odlist", contents, label) /\ label \in {"sent", "finish"}
    BY <1>8 DEF TakeIndices
  <2> QED
    BY <1>6, <2>1
<1>9. CASE TakeEntry
  <2>1. \E contents : Gets("readoe", contents, AtEnd)
    BY <1>9 DEF TakeEntry
  <2>2. op = "readoe"
    BY <1>9 DEF TakeEntry
  <2> QED
    BY <1>6, <2>1, <2>2 DEF AtEnd
<1>10. CASE EndEntry
  <2>1. UNCHANGED tally
    BY <1>0, <1>10 DEF EndEntry, AskInfo
  <2> QED
    BY <1>10, <2>1, KeptDrop DEF EndEntry, Goto, Posted, KeptOK, AppOK, InfoCalls, Receiving
<1> QED
  BY <1>1, <1>2, <1>3, <1>4, <1>5, <1>7, <1>8, <1>9, <1>10 DEF InfoMaster

LEMMA KeptPdo ==
  ASSUME KeptOK, PdoMaster, UNCHANGED <<application, doubled>>
  PROVE  KeptOK'
<1>1. CASE ReadCount \/ ReadType \/ ReadAssign \/ ReadIndex \/ ReadEntries \/ ReadEntry
           \/ ReadTypesCA \/ ReadAssignCA \/ ReadPdoCA
  <2>1. Answered
    BY <1>1 DEF ReadCount, ReadType, ReadAssign, ReadIndex, ReadEntries, ReadEntry,
                ReadTypesCA, ReadAssignCA, ReadPdoCA
  <2> QED
    BY <2>1, KeptQuiet DEF Answered, callvars, tally
<1>2. CASE ReadFails
  BY <1>2, KeptQuiet DEF ReadFails, callvars, tally
<1>3. CASE EndOfMap
  BY <1>3, KeptGoto DEF EndOfMap, Conclude, Goto, Posted, EmptyHanded, pdomapvars, tally
<1>4. CASE ReadKeeps
  <2>1. PICK drained : /\ pool' = pool - Held(drained) /\ kept' = kept + Held(drained)
                       /\ pc = "sdoread" /\ UNCHANGED <<pc, op, mbxout, mbxin>>
    BY <1>4 DEF ReadKeeps, callvars
  <2>2. AppOK' /\ HandsOK'
    BY <2>1 DEF KeptOK, AppOK, HandsOK
  <2>3. PoolOK'
    <3>1. /\ {Held(drained), Held(mbxout), Held(mbxin)} \subseteq Int
          /\ UNCHANGED <<Held(mbxout), Held(mbxin)>>
      BY <2>1, HeldValue
    <3>2. ~InfoDropped /\ ~InfoDropped'
      BY <2>1 DEF InfoDropped
    <3> QED
      BY <2>1, <3>1, <3>2, PoolSizeInt DEF KeptOK, PoolOK
  <2> QED
    BY <2>2, <2>3 DEF KeptOK
<1> QED
  BY <1>1, <1>2, <1>3, <1>4 DEF PdoMaster

LEMMA KeptCall ==
  ASSUME KeptOK, NEW function \in application, NEW i, NEW size, Call(function, i, size),
         UNCHANGED <<application, tally>>
  PROVE  KeptOK'
<1>1. \E first, bytes :
        /\ Begin(function, i, bytes, first)
        /\ first \in {"drain", "next", "receive", "draindrop", "sdoread"}
        /\ first = "draindrop" <=> function \in InfoCalls
  <2>1. CASE Foe(FOEread(i, size)) /\ function = "foeread"
    BY <2>1 DEF Foe, FOEread, InfoCalls, Receiving
  <2>2. CASE Foe(FOEwrite(i)) /\ function = "foewrite"
    BY <2>2 DEF Foe, FOEwrite, InfoCalls, Receiving
  <2>3. CASE Soe(SoEread(i, size)) /\ function = "soeread"
    BY <2>3 DEF Soe, SoEread, InfoCalls, Receiving
  <2>4. CASE Soe(SoEwrite(i)) /\ function = "soewrite"
    BY <2>4 DEF Soe, SoEwrite, InfoCalls, Receiving
  <2>5. CASE Eoe(EOEsend(i)) /\ function = "eoesend"
    BY <2>5 DEF Eoe, EOEsend, InfoCalls, Receiving
  <2>6. CASE Eoe(EOErecv(i, size)) /\ function = "eoerecv"
    BY <2>6 DEF Eoe, EOErecv, InfoCalls, Receiving
  <2>7. CASE Eoe(EOEreadfragment(i, size)) /\ function = "eoeread"
    BY <2>7 DEF Eoe, EOEreadfragment, InfoCalls, Receiving
  <2>8. CASE Eoe(EOEsetIp(i)) /\ function = "eoesetip"
    BY <2>8 DEF Eoe, EOEsetIp, InfoCalls, Receiving
  <2>9. CASE Eoe(EOEgetIp(i)) /\ function = "eoegetip"
    BY <2>9 DEF Eoe, EOEgetIp, InfoCalls, Receiving
  <2>10. CASE Coe(RxPDO(i)) /\ function = "rxpdo"
    BY <2>10 DEF Coe, RxPDO, Info, InfoCalls, Receiving
  <2>11. CASE Coe(TxPDO(i)) /\ function = "txpdo"
    BY <2>11 DEF Coe, TxPDO, Info, InfoCalls, Receiving
  <2>12. CASE Coe(readODlist(i, size)) /\ function = "odlist"
    BY <2>12 DEF Coe, readODlist, Info, InfoCalls, Receiving
  <2>13. CASE Coe(readODdescription(i)) /\ function = "oddesc"
    BY <2>13 DEF Coe, readODdescription, Info, InfoCalls, Receiving
  <2>14. CASE Coe(readOE(i)) /\ function = "readoe"
    BY <2>14 DEF Coe, readOE, Info, InfoCalls, Receiving
  <2>15. CASE Map(readPDOmap(i)) /\ function = "pdomap"
    BY <2>15 DEF Map, readPDOmap, PdoBegin, InfoCalls, Receiving
  <2>16. CASE Map(readPDOmapCA(i)) /\ function = "pdomapca"
    BY <2>16 DEF Map, readPDOmapCA, PdoBegin, InfoCalls, Receiving
  <2> QED
    BY <2>1, <2>2, <2>3, <2>4, <2>5, <2>6, <2>7, <2>8, <2>9, <2>10, <2>11, <2>12, <2>13,
       <2>14, <2>15, <2>16 DEF Call
<1> QED
  BY <1>1, KeptBegin

LEMMA KeptInit == Init => KeptOK
<1> SUFFICES ASSUME Init
             PROVE  KeptOK
  OBVIOUS
<1>1. /\ pc = "idle" /\ op = "none" /\ mbxout = Nothing /\ mbxin = Nothing
      /\ pool = PoolSize /\ doubled = 0 /\ kept = 0
  BY DEF Init, MbxInit, CallInit, InfoInit, PdoMapInit
<1> QED
  BY <1>1, HeldValue, PoolSizeInt DEF KeptOK, AppOK, HandsOK, PoolOK, InfoDropped, Posted, EmptyHanded

(* What counts the mailboxes that are dropped twice, or kept.              *)
LEMMA TallyKept ==
  /\ UNCHANGED coevars => UNCHANGED tally
  /\ UNCHANGED infovars => doubled' = doubled
  /\ UNCHANGED pdomapvars => kept' = kept
BY DEF coevars, infovars, pdomapvars, tally

LEMMA CallTally ==
  ASSUME NEW function, NEW i, NEW size, Call(function, i, size)
  PROVE  UNCHANGED tally
<1>1. \/ UNCHANGED coevars
      \/ UNCHANGED <<infovars, pdomapvars>>
      \/ UNCHANGED infovars /\ kept' = kept
  BY DEF Call, Foe, Soe, Eoe, Coe, Map, RxPDO, TxPDO, readODlist, readODdescription, readOE, Info,
         readPDOmap, readPDOmapCA, PdoBegin
<1> QED
  BY <1>1, TallyKept DEF tally

LEMMA ReturnTally ==
  ASSUME Returns
  PROVE  UNCHANGED tally
<1>1. \/ UNCHANGED coevars
      \/ doubled' = doubled /\ UNCHANGED pdomapvars
      \/ UNCHANGED infovars /\ kept' = kept
  BY DEF Returns, Foe, Soe, Eoe, Coe, Map, InfoReturn, PdoReturn
<1> QED
  BY <1>1, TallyKept DEF tally

LEMMA ServerTally ==
  ASSUME Server
  PROVE  UNCHANGED tally
<1>1. UNCHANGED coevars \/ (doubled' = doubled /\ UNCHANGED pdomapvars)
  <2>1. InfoServer => doubled' = doubled
    BY DEF InfoServer, ServeList, ServeRxPdo, ServeObject, SendList, GiveUpList, ServeInfoError,
           infovars
  <2> QED
    BY <2>1 DEF Server, Foe, Soe, Eoe, Coe
<1> QED
  BY <1>1, TallyKept DEF tally

LEMMA KeptNext == KeptOK /\ [Next]_vars => KeptOK'
<1> SUFFICES ASSUME KeptOK, [Next]_vars
             PROVE  KeptOK'
  OBVIOUS
<1>1. ASSUME NEW function \in application, NEW i \in Items, NEW size \in Rooms[i],
             Outside(Call(function, i, size))
      PROVE  KeptOK'
  BY <1>1, CallTally, KeptCall DEF Outside
<1>2. CASE Master
  <2>1. CASE Returns
    <3>1. Return
      BY <2>1 DEF Returns, Foe, Soe, Eoe, Coe, Map, FoeReturn, SoeReturn, EoeReturn, InfoReturn,
                  PdoReturn
    <3> QED
      BY <1>2, <2>1, <3>1, ReturnTally, KeptReturn DEF Master
  <2>2. CASE MasterWorks
    <3>1. CASE Foe(FoeMaster) \/ Soe(SoeMaster) \/ Eoe(EoeMaster)
      BY <1>2, <3>1, TallyKept, KeptFoe, KeptSoe, KeptEoe DEF Master, Foe, Soe, Eoe
    <3>2. CASE Coe(InfoMaster)
      BY <1>2, <3>2, TallyKept, KeptInfo DEF Master, Coe
    <3>3. CASE Map(PdoMaster)
      BY <1>2, <3>3, TallyKept, KeptPdo DEF Master, Map
    <3>4. CASE Shared(Drain \/ Finish) \/ Shared(Transport /\ UNCHANGED callvars)
      BY <1>2, <3>4, TallyKept, KeptDrain, KeptFinish, KeptTransport DEF Master, Shared, callvars
    <3> QED
      BY <2>2, <3>1, <3>2, <3>3, <3>4 DEF MasterWorks
  <2> QED
    BY <1>2, <2>1, <2>2 DEF Master
<1>3. CASE Outside(Server)
  BY <1>3, ServerTally, KeptServer DEF Outside
<1>4. CASE Outside(Shared(Slave /\ UNCHANGED callvars))
  BY <1>4, TallyKept, KeptSlave DEF Outside, Shared
<1>5. CASE UNCHANGED vars
  BY <1>5, TallyKept, KeptQuiet DEF vars, mbxvars, callvars
<1> QED
  BY <1>1, <1>2, <1>3, <1>4, <1>5 DEF Next

(* Whatever fails on its way and whatever else has gone before, every      *)
(* mailbox that a call has taken is given back once, but for those that    *)
(* ecx_TxPDO and the information services have drained and drop twice, and *)
(* those that a read of the PDO mapping has drained and keeps, exactly one *)
(* for each.                                                               *)
THEOREM CallsKeepNoMailbox == Spec => []NoMailboxKept
<1>1. KeptOK => NoMailboxKept
  BY HeldValue, PoolSizeInt DEF KeptOK, HandsOK, PoolOK, InfoDropped, NoMailboxKept, Posted, EmptyHanded
<1> QED
  BY KeptInit, KeptNext, <1>1, PTL DEF Spec

-----------------------------------------------------------------------------
(* FoE.  What belongs to a call in which nothing is late: the request that *)
(* was posted last, copies of the one before, which the slave has answered *)
(* already, and at most one reply, which is the one to that request.       *)
FoeOps == {"foeread", "foewrite"}
FoeReplies == {"foedata", "foeack", "foebusy", "foeerror"}

IsFoe(m) == m.cmd \in FoeReplies

UnderWay == {"drain", "next"} \cup Posted \cup {"sent", "receive", "received"}
Over == {"unsent", "unreceived", "finish", "done", "crashed"}

(* The request that was posted last.                                       *)
FoeAsked ==
  IF op = "foeread"
  THEN IF packet = 0 THEN FoeRead(item) ELSE FoeAck(packet)
  ELSE IF packet = 0 THEN FoeWrite(item)
       ELSE FoeData(packet, Bytes(item, moved - segmentdata, segmentdata))

(* The replies that the caller may still take for one to its requests, or  *)
(* has.                                                                    *)
InFlight(m) ==
  \/ ~silent /\ pc # "drain" /\ m \in {work, outbox}
  \/ pc = "received" /\ m = mbxin

GeneralOK == item \in Items /\ faults \in [Kinds -> Nat]

(* At the start of a call, and outside.                                    *)
FoeLocals ==
  /\ op \notin FoeOps => packet = 0 /\ segmentdata = 0 /\ dofinalzero = TRUE
  /\ pc = "idle" => op = "none" /\ moved = 0 /\ got = <<>> /\ more = TRUE
  /\ op \in FoeOps => pc \in UnderWay \cup Over
  /\ op = "foeread" /\ pc \in {"receive", "received"} => more
  /\ op \in FoeOps /\ pc \in {"drain", "next"} =>
       /\ packet = 0 /\ segmentdata = 0 /\ dofinalzero = TRUE
       /\ moved = 0 /\ got = <<>> /\ more = TRUE

Calm == op \in FoeOps /\ faults["late"] = 0
CalmCall == Calm /\ pc \in UnderWay

NoneInFlight ==
  ~IsFoe(work) /\ ~IsFoe(outbox) /\ (pc = "received" => ~IsFoe(mbxin))

(* A request that the slave answers is the one that was posted last.       *)
FoeFlight ==
  /\ pc = "drain" => inbox = Nothing /\ ~IsFoe(work)
  /\ pc \in {"next", "try"} => NoneInFlight
  /\ pc \in Posted => mbxout = [cnt |-> mbxcnt, body |-> FoeAsked]
  /\ inbox # Nothing =>
       \/ inbox.cnt = lastcnt
       \/ /\ inbox = [cnt |-> mbxcnt, body |-> FoeAsked]
          /\ NoneInFlight /\ pc \notin {"drain", "next", "try"}
  /\ ~(IsFoe(work) /\ IsFoe(outbox))
  /\ pc \in Posted /\ ~NoneInFlight => lastcnt = mbxcnt
  /\ pc = "received" /\ IsFoe(mbxin) => ~IsFoe(work) /\ ~IsFoe(outbox)

(* A file that is read.                                                    *)
FoeReadOK ==
  /\ packet \in Nat
  /\ IF more THEN got = Bytes(item, 0, packet * MaxData) /\ packet * MaxData <= Size[item]
     ELSE got = Content(item)
  /\ \A m : InFlight(m) /\ m.cmd = "foedata" =>
       /\ m = FoeData(packet + 1, Packet(item, packet + 1))
       /\ files.mode = "read" => files.item = item
  /\ packet > 0 => (files.mode = "read" => files.item = item)

(* A file that is written: what the slave has of it before and after the   *)
(* last packet.                                                            *)
HasBefore ==
  files.mode = "write" =>
    /\ files.item = item /\ files.packet = packet - 1
    /\ files.data = Bytes(item, 0, moved - segmentdata)

HasAfter ==
  IF packet > 0 /\ segmentdata < MaxData
  THEN written = <<item, Bytes(item, 0, moved)>>
  ELSE files.mode = "write" => /\ files.item = item /\ files.packet = packet
                               /\ files.data = Bytes(item, 0, moved)

PacketOK ==
  /\ packet \in Nat /\ segmentdata \in Nat /\ moved \in Nat
  /\ IF packet = 0 THEN moved = 0 /\ segmentdata = 0 /\ dofinalzero = TRUE
     ELSE /\ segmentdata <= moved /\ moved <= Size[item]
          /\ segmentdata = Least(Size[item] - (moved - segmentdata), MaxData)
          /\ dofinalzero = (moved = Size[item] /\ segmentdata = MaxData)
  /\ more = TRUE

FoeWriteOK ==
  /\ PacketOK
  /\ packet > 0 /\ (lastcnt # mbxcnt \/ InFlight(FoeBusy)) => HasBefore
  /\ InFlight(FoeAck(packet)) => HasAfter
  /\ InFlight(FoeBusy) /\ (packet = 0 \/ segmentdata = 0) => busy.ends

(* After a file was written no packet of it is left.                       *)
FoeResult ==
  /\ op = "foeread" => got = Content(item)
  /\ op = "foewrite" /\ ~busy.ends =>
       /\ written = <<item, Content(item)>>
       /\ ~silent /\ inbox # Nothing => inbox.cnt = lastcnt

FoeInv ==
  /\ FoeLocals
  /\ CalmCall /\ ~silent => FoeFlight
  /\ CalmCall /\ op = "foeread" => FoeReadOK
  /\ CalmCall /\ op = "foewrite" => FoeWriteOK
  /\ Calm /\ pc \in {"finish", "done"} /\ wkc => FoeResult

-----------------------------------------------------------------------------
(* Within a call faults are added only, and the call stays with its item.  *)
(* A read of the PDO mapping, whether it succeeds or not.                  *)
Reads ==
  /\ pc = "sdoread" /\ UNCHANGED <<pc, op, item, got, wkc>>
  /\ outbox' \in {outbox, Nothing}
  /\ work' = work \/ (work = Nothing /\ work' = SdoAnswer)
  /\ UNCHANGED faults \/ \E k \in Kinds : Fault(k) \/ Noted(k)

LEMMA PdoSteps == PdoMaster => Reads \/ EndOfMap
<1>1. Kinds = {"request", "acknowledge", "reply", "late", "pool"}
  BY DEF Kinds
<1>2. ASSUME Answered, pc = "sdoread"
      PROVE  Reads
  BY <1>2 DEF Answered, Reads, callvars
<1>3. ReadFails => Reads
  BY <1>1 DEF ReadFails, Reads, callvars
<1>4. ReadKeeps => Reads
  BY <1>1 DEF ReadKeeps, Reads, callvars
<1>5. ReadCount \/ ReadType \/ ReadAssign \/ ReadIndex \/ ReadEntries \/ ReadEntry
      \/ ReadTypesCA \/ ReadAssignCA \/ ReadPdoCA => Answered /\ pc = "sdoread"
  BY DEF ReadCount, ReadType, ReadAssign, ReadIndex, ReadEntries, ReadEntry, ReadTypesCA,
         ReadAssignCA, ReadPdoCA, Reading
<1> QED
  BY <1>2, <1>3, <1>4, <1>5 DEF PdoMaster

Worse ==
  /\ faults' \in [Kinds -> Nat] /\ \A k \in Kinds : faults[k] <= faults'[k]
  /\ item' = item

LEMMA FaultsAdd ==
  ASSUME GeneralOK, item' = item,
         \/ UNCHANGED faults
         \/ \E k \in Kinds : Fault(k) \/ Noted(k)
         \/ Expires
  PROVE  Worse
<1>1. "late" \in Kinds /\ Faulty \subseteq Kinds
  BY AcyclicMbxAssumption DEF Kinds
<1>2. ASSUME NEW k \in Kinds, Fault(k) \/ Noted(k)
      PROVE  Worse
  <2>1. faults' = [faults EXCEPT ![k] = faults[k] + 1] \/ faults' = faults
    BY <1>2 DEF Fault, Noted, GeneralOK
  <2>2. CASE faults' = faults
    BY <2>2 DEF Worse, GeneralOK
  <2>3. CASE faults' = [faults EXCEPT ![k] = faults[k] + 1]
    BY <2>3 DEF Worse, GeneralOK
  <2> QED
    BY <2>1, <2>2, <2>3
<1>3. CASE UNCHANGED faults
  BY <1>3 DEF Worse, GeneralOK
<1>4. CASE Expires
  BY <1>1, <1>2, <1>3, <1>4 DEF Expires
<1> QED
  BY <1>2, <1>3, <1>4

LEMMA MistakeIs == Mistake \in Kinds
BY DEF Mistake, Kinds

LEMMA TransportWorse ==
  ASSUME GeneralOK, Transport, UNCHANGED callvars
  PROVE  Worse
<1> USE FaultsAdd, MistakeIs
<1>1. {"late", "acknowledge", "reply"} \subseteq Kinds /\ item' = item
  BY DEF Kinds, callvars
<1>2. CASE FirstTry \/ WaitEmpty \/ Receive
  BY <1>1, <1>2 DEF FirstTry, WaitEmpty, Receive
<1>3. CASE WaitEmptyFails
  BY <1>1, <1>3 DEF WaitEmptyFails
<1>4. CASE Retry
  BY <1>1, <1>4 DEF Retry
<1>5. CASE ReceiveLoses
  BY <1>1, <1>5 DEF ReceiveLoses
<1>6. CASE ReceiveTimesOut
  BY <1>1, <1>6 DEF ReceiveTimesOut
<1> QED
  BY <1>2, <1>3, <1>4, <1>5, <1>6 DEF Transport

LEMMA PostWorse ==
  ASSUME GeneralOK, NEW body, Post(body), item' = item
  PROVE  Worse
<1>1. "pool" \in Kinds
  BY DEF Kinds
<1> QED
  BY <1>1, FaultsAdd DEF Post

LEMMA MasterWorse ==
  ASSUME GeneralOK, MasterWorks
  PROVE  Worse
<1>1. "late" \in Kinds /\ "pool" \in Kinds /\ "reply" \in Kinds
  BY DEF Kinds
<1>2. ASSUME NEW result, NEW label, Conclude(result, label)
      PROVE  Worse
  BY <1>2, FaultsAdd DEF Conclude
<1>3. ASSUME AwaitReply
      PROVE  Worse
  BY <1>3, FaultsAdd DEF AwaitReply
<1>4. ASSUME NEW from, NEW number, SendPacket(from, number), item' = item
      PROVE  Worse
  BY <1>4, PostWorse, FaultsAdd DEF SendPacket
<1>5. CASE FoeMaster
  <2>1. CASE FoeRequest
    BY <2>1, PostWorse DEF FoeRequest, Ask, callvars
  <2>2. CASE FoeAwaitReply \/ FoeGiveUp \/ RefusePacket \/ BusyAtOnce \/ FoeRefused
    BY <1>2, <1>3, <2>2 DEF FoeAwaitReply, FoeGiveUp, RefusePacket, BusyAtOnce, FoeRefused, GiveUp
  <2>3. CASE TakePacket
    BY <2>3, PostWorse DEF TakePacket
  <2>4. CASE NextPacket \/ SameAgain
    BY <1>4, <2>4 DEF NextPacket, SameAgain
  <2> QED
    BY <1>5, <2>1, <2>2, <2>3, <2>4 DEF FoeMaster
<1>6. CASE SoeMaster
  <2>1. CASE SoeAwaitReply \/ SoeReadFails \/ FragmentTaken \/ WriteAnswered \/ WriteGoesOn
    BY <1>2, <1>3, <2>1 DEF SoeAwaitReply, SoeReadFails, FragmentTaken, WriteAnswered,
                            WriteGoesOn, GiveUp
  <2>2. CASE ReadIDN
    BY <2>2, PostWorse DEF ReadIDN, Ask, callvars
  <2>3. CASE CopyFragment \/ FragmentStuck
    BY <2>3, FaultsAdd DEF CopyFragment, FragmentStuck
  <2>4. CASE WriteFragment
    <3>1. \E body : Post(body)
      BY <2>4 DEF WriteFragment
    <3> QED
      BY <2>4, <3>1, PostWorse DEF WriteFragment
  <2> QED
    BY <1>6, <2>1, <2>2, <2>3, <2>4 DEF SoeMaster
<1>7. CASE EoeMaster
  <2>1. CASE SendFragment
    <3>1. \E body : Post(body)
      BY <2>1 DEF SendFragment
    <3> QED
      BY <2>1, <3>1, PostWorse DEF SendFragment
  <2>2. CASE FragmentSent \/ ReceiveFragment \/ IpAnswered
    BY <2>2, FaultsAdd DEF FragmentSent, ReceiveFragment, IpAnswered
  <2>3. CASE ReceiveRefused \/ ReadFragment \/ ReadRefused \/ AwaitIp \/ EoeGiveUp
    BY <1>2, <1>3, <2>3 DEF ReceiveRefused, ReadFragment, ReadRefused, AwaitIp, EoeGiveUp, GiveUp
  <2>4. CASE AskIp
    BY <2>4, PostWorse DEF AskIp, Ask, callvars
  <2> QED
    BY <1>7, <2>1, <2>2, <2>3, <2>4 DEF EoeMaster
<1>8. CASE InfoMaster
  <2>1. CASE DrainAndDrop \/ EndEntry
    BY <1>1, <2>1, FaultsAdd DEF DrainAndDrop, EndEntry
  <2>2. CASE AskInfo
    BY <1>1, <2>2, FaultsAdd DEF AskInfo, NoMailbox, callvars
  <2>3. CASE PdoSent \/ AwaitInfo \/ InfoFails \/ InfoRefused
    BY <1>2, <1>3, <2>3 DEF PdoSent, AwaitInfo, InfoFails, InfoRefused
  <2>4. ASSUME NEW function, NEW contents, NEW label, Gets(function, contents, label)
        PROVE  Worse
    BY <2>4, FaultsAdd DEF Gets
  <2>5. CASE TakeTxPdo \/ TakeDescription \/ TakeEntry
    BY <2>4, <2>5 DEF TakeTxPdo, TakeDescription, TakeEntry
  <2>6. CASE TakeIndices
    <3>1. \E contents, label : Gets("odlist", contents, label)
      BY <2>6 DEF TakeIndices
    <3> QED
      BY <2>4, <3>1
  <2> QED
    BY <1>8, <2>1, <2>2, <2>3, <2>5, <2>6 DEF InfoMaster
<1>9. CASE PdoMaster
  <2>1. CASE Reads
    <3>1. {"request", "acknowledge"} \subseteq Kinds
      BY DEF Kinds
    <3> QED
      BY <1>1, <2>1, <3>1, FaultsAdd DEF Reads
  <2>2. CASE EndOfMap
    BY <1>2, <2>2 DEF EndOfMap
  <2> QED
    BY <1>9, <2>1, <2>2, PdoSteps
<1>10. CASE Drain \/ Finish
  BY <1>1, <1>10, FaultsAdd DEF Drain, Finish, callvars
<1>11. CASE Transport /\ UNCHANGED callvars
  BY <1>11, TransportWorse
<1> QED
  BY <1>5, <1>6, <1>7, <1>8, <1>9, <1>10, <1>11 DEF MasterWorks, Foe, Soe, Eoe, Coe, Map, Shared

LEMMA ServerWorse ==
  ASSUME GeneralOK, Server \/ (Slave /\ UNCHANGED callvars)
  PROVE  Worse /\ faults' = faults
<1>1. UNCHANGED <<faults, item>>
  <2>1. CASE FileServer
    BY <2>1 DEF FileServer, ServeRead, ServeWrite, ServeAck, ServeData, ServeBusy,
                ServeError, FoeServe, Take, callvars
  <2>2. CASE Drive
    BY <2>2 DEF Drive, DropFragments, ServeReadIDN, SendRest, ServeFragment,
                ServeWriteIDN, ServeSoeError, SoeServe, Take, callvars, mbxvars
  <2>3. CASE Stack
    BY <2>3 DEF Stack, TakeFragment, SetSlaveIp, TellSlaveIp, RefuseIp, SendFrame,
                BeginFrame, EoeServe, Take, callvars, mbxvars
  <2>4. CASE InfoServer
    BY <2>4 DEF InfoServer, ServeList, ServeRxPdo, ServeObject, SendList, GiveUpList,
                ServeInfoError, ServeInfo, Take, callvars, mbxvars
  <2>5. CASE Slave /\ UNCHANGED callvars
    BY <2>5 DEF Slave, TakeCopy, PlaceReply, FallSilent, callvars
  <2> QED
    BY <2>1, <2>2, <2>3, <2>4, <2>5 DEF Server, Foe, Soe, Eoe, Coe
<1> QED
  BY <1>1, FaultsAdd

(* A call in which nothing is late finds the slave idle.                   *)
LEMMA BeginGeneral ==
  ASSUME GeneralOK, NEW function, NEW i \in Items, NEW size, NEW first,
         Begin(function, i, size, first)
  PROVE  /\ GeneralOK'
         /\ MaxFaults > 0 /\ faults'["late"] = 0 => inbox = Nothing /\ work = Nothing
<1>1. "late" \in Kinds /\ MaxFaults \in Nat
  BY AcyclicMbxAssumption DEF Kinds
<1>2. CASE inbox = Nothing /\ work = Nothing
  <2>1. faults' = [k \in Kinds |-> IF k = "pool" THEN faults[k] ELSE 0]
    BY <1>2 DEF Begin, Overlaps, BeginCall
  <2> QED
    BY <1>2, <2>1 DEF GeneralOK, Begin
<1>3. CASE ~(inbox = Nothing /\ work = Nothing)
  <2>1. Noted("late") \/ Fault("late")
    BY <1>3 DEF Begin, Overlaps
  <2>2. \/ faults' = [faults EXCEPT !["late"] = faults["late"] + 1]
        \/ faults' = faults /\ ~(faults["late"] < MaxFaults)
    BY <1>1, <2>1 DEF Noted, Fault, GeneralOK
  <2>3. faults' \in [Kinds -> Nat]
    BY <1>1, <2>2 DEF GeneralOK
  <2>4. MaxFaults > 0 => faults'["late"] # 0
    BY <1>1, <2>2 DEF GeneralOK
  <2> QED
    BY <2>3, <2>4 DEF GeneralOK, Begin
<1> QED
  BY <1>2, <1>3

LEMMA CallBegins ==
  ASSUME NEW function, NEW i, NEW size, Call(function, i, size)
  PROVE  \E bytes, first :
           /\ Begin(function, i, bytes, first) /\ first # "idle" /\ UNCHANGED <<foevars, fileserver>>
           /\ function \in {"foeread", "foewrite"} => first = "drain"
BY DEF Call, Foe, Soe, Eoe, Coe, Map, FOEread, FOEwrite, SoEread, SoEwrite, EOEsend, EOErecv,
       EOEreadfragment, EOEsetIp, EOEgetIp, RxPDO, TxPDO, readODlist, readODdescription, readOE,
       Info, readPDOmap, readPDOmapCA, PdoBegin, foe, fileserver

LEMMA ReturnsIs ==
  ASSUME Returns
  PROVE  Return
BY DEF Returns, Foe, Soe, Eoe, Coe, Map, FoeReturn, SoeReturn, EoeReturn, InfoReturn, PdoReturn

LEMMA GeneralNext == GeneralOK /\ [Next]_vars => GeneralOK'
<1> SUFFICES ASSUME GeneralOK, [Next]_vars
             PROVE  GeneralOK'
  OBVIOUS
<1>1. Worse => GeneralOK'
  BY DEF Worse, GeneralOK
<1>2. ASSUME NEW function \in application, NEW i \in Items, NEW size \in Rooms[i],
             Outside(Call(function, i, size))
      PROVE  GeneralOK'
  BY <1>2, CallBegins, BeginGeneral DEF Outside
<1>3. CASE Master
  BY <1>1, <1>3, MasterWorse, ReturnsIs, FaultsAdd DEF Master, Return
<1>4. CASE Outside(Server) \/ Outside(Shared(Slave /\ UNCHANGED callvars))
  BY <1>1, <1>4, ServerWorse DEF Outside, Shared
<1>5. CASE UNCHANGED vars
  BY <1>5 DEF vars, mbxvars, callvars, GeneralOK
<1> QED
  BY <1>2, <1>3, <1>4, <1>5 DEF Next

-----------------------------------------------------------------------------
(* The bytes of an item.                                                   *)
Data == Items \X Int

LEMMA Sizes ==
  /\ \A i \in Items : Size[i] \in Nat
  /\ MaxData \in Nat /\ MaxData > 0
BY MbxCallAssumption

LEMMA BytesAre ==
  ASSUME NEW i \in Items, NEW from \in Int, NEW len \in Nat
  PROVE  /\ Bytes(i, from, len) \in Seq(Data) /\ Len(Bytes(i, from, len)) = len
         /\ \A k \in 1 .. len : Bytes(i, from, len)[k] = <<i, from + k>>
<1> DEFINE b == [k \in 1 .. len |-> <<i, from + k>>]
<1>1. b \in [1 .. len -> Data]
  BY DEF Data
<1>2. b \in Seq(Data)
  BY <1>1
<1>3. DOMAIN b = 1 .. len /\ \A k \in 1 .. len : b[k] = <<i, from + k>>
  OBVIOUS
<1> HIDE DEF b
<1>4. Len(b) = len
  BY <1>2, <1>3
<1> QED
  BY <1>2, <1>3, <1>4 DEF Bytes, b

LEMMA BytesJoin ==
  ASSUME NEW i \in Items, NEW from \in Int, NEW m \in Nat, NEW n \in Nat
  PROVE  Bytes(i, from, m) \o Bytes(i, from + m, n) = Bytes(i, from, m + n)
<1> DEFINE a == Bytes(i, from, m)
           b == Bytes(i, from + m, n)
           c == Bytes(i, from, m + n)
<1>1. /\ a \in Seq(Data) /\ Len(a) = m /\ \A k \in 1 .. m : a[k] = <<i, from + k>>
      /\ b \in Seq(Data) /\ Len(b) = n /\ \A k \in 1 .. n : b[k] = <<i, (from + m) + k>>
      /\ c \in Seq(Data) /\ Len(c) = m + n /\ \A k \in 1 .. m + n : c[k] = <<i, from + k>>
  <2>1. from + m \in Int /\ m + n \in Nat
    OBVIOUS
  <2> QED
    BY <2>1, BytesAre, Zenon
<1> HIDE DEF a, b, c
<1>2. /\ a \o b \in Seq(Data) /\ Len(a \o b) = Len(a) + Len(b)
      /\ \A k \in 1 .. Len(a) + Len(b) :
           (a \o b)[k] = IF k <= Len(a) THEN a[k] ELSE b[k - Len(a)]
  BY <1>1, ConcatProperties, Zenon
<1>3. ASSUME NEW k \in 1 .. m + n
      PROVE  (a \o b)[k] = c[k]
  <2>1. (a \o b)[k] = IF k <= m THEN a[k] ELSE b[k - m]
    BY <1>1, <1>2
  <2>2. CASE k <= m
    <3>1. k \in 1 .. m
      BY <2>2
    <3> QED
      BY <1>1, <2>1, <2>2, <3>1
  <2>3. CASE ~(k <= m)
    <3>1. k - m \in 1 .. n /\ (from + m) + (k - m) = from + k
      BY <2>3
    <3> QED
      BY <1>1, <2>1, <2>3, <3>1
  <2> QED
    BY <2>2, <2>3
<1>4. a \o b = c
  BY <1>1, <1>2, <1>3, SeqEqual
<1> QED
  BY <1>4 DEF a, b, c

LEMMA BytesNone ==
  ASSUME NEW i \in Items, NEW from \in Int, NEW len \in Int, len <= 0
  PROVE  Bytes(i, from, len) = <<>>
<1>1. 1 .. len = {}
  OBVIOUS
<1> QED
  BY <1>1 DEF Bytes

-----------------------------------------------------------------------------
(* FoE: steps that leave the transfer where it is.                         *)
transfer == <<op, item, foevars, moved, got, more, fileserver, lastcnt, mbxcnt>>

FewerReplies == \A m : IsFoe(m) /\ InFlight(m)' => InFlight(m)

LEMMA FoeKinds ==
  /\ \A k : IsFoe(FoeAck(k))
  /\ \A k, d : IsFoe(FoeData(k, d))
  /\ IsFoe(FoeBusy) /\ IsFoe(FoeError) /\ ~IsFoe(Nothing)
  /\ \A m : m.cmd = "foedata" => IsFoe(m)
BY DEF IsFoe, FoeReplies, FoeAck, FoeData, FoeBusy, FoeError, Nothing

LEMMA FoeReadStays ==
  ASSUME FoeReadOK, UNCHANGED transfer, FewerReplies
  PROVE  FoeReadOK'
BY FoeKinds DEF FoeReadOK, transfer, foevars, fileserver, FewerReplies, Content, Bytes, Packet

LEMMA FoeWriteStays ==
  ASSUME FoeWriteOK, UNCHANGED transfer, FewerReplies
  PROVE  FoeWriteOK'
<1>1. UNCHANGED <<op, item, packet, segmentdata, dofinalzero, moved, more, files, written, busy,
                  lastcnt, mbxcnt>>
  BY DEF transfer, foevars, fileserver
<1>2. PacketOK'
  BY <1>1 DEF FoeWriteOK, PacketOK
<1>3. (HasBefore <=> HasBefore') /\ (HasAfter <=> HasAfter')
  BY <1>1 DEF HasBefore, HasAfter
<1>4. InFlight(FoeBusy)' => InFlight(FoeBusy)
  BY FoeKinds DEF FewerReplies
<1>5. InFlight(FoeAck(packet))' => InFlight(FoeAck(packet))
  BY <1>1, FoeKinds DEF FewerReplies
<1> QED
  BY <1>1, <1>2, <1>3, <1>4, <1>5 DEF FoeWriteOK

LEMMA CalmBefore ==
  ASSUME GeneralOK, Worse, op' = op, Calm'
  PROVE  Calm
<1>1. "late" \in Kinds
  BY DEF Kinds
<1> QED
  BY <1>1 DEF GeneralOK, Worse, Calm

LEMMA FoeStays ==
  ASSUME FoeInv, GeneralOK, Worse, op \in FoeOps, UNCHANGED transfer,
         CalmCall /\ CalmCall' => FewerReplies,
         pc' \in UnderWay \cup Over,
         pc' \in UnderWay => pc \in UnderWay,
         pc' \in {"drain", "next"} => pc \in {"drain", "next"},
         pc' \in {"receive", "received"} => pc \in {"receive", "received"} \/ more,
         pc' \in {"finish", "done"} /\ wkc' =>
           pc \in {"finish", "done"} /\ wkc /\ inbox' \in {inbox, Nothing},
         silent => silent',
         CalmCall /\ CalmCall' /\ ~silent' => FoeFlight'
  PROVE  FoeInv'
<1>1. UNCHANGED <<op, item, packet, segmentdata, dofinalzero, moved, got, more, files, written,
                  busy, lastcnt, mbxcnt>>
  BY DEF transfer, foevars, fileserver
<1>2. Calm' => Calm
  BY <1>1, CalmBefore
<1>3. CalmCall' => CalmCall
  BY <1>2 DEF CalmCall
<1>4. FoeLocals'
  BY <1>1 DEF FoeInv, FoeLocals, UnderWay, Over, Posted
<1>5. CalmCall' /\ ~silent' => FoeFlight'
  BY <1>3
<1>6. CalmCall' /\ op' = "foeread" => FoeReadOK'
  BY <1>1, <1>3, FoeReadStays DEF FoeInv
<1>7. CalmCall' /\ op' = "foewrite" => FoeWriteOK'
  BY <1>1, <1>3, FoeWriteStays DEF FoeInv
<1>8. Calm' /\ pc' \in {"finish", "done"} /\ wkc' => FoeResult'
  <2> SUFFICES ASSUME Calm', pc' \in {"finish", "done"}, wkc'
               PROVE  FoeResult'
    OBVIOUS
  <2>1. FoeResult
    BY <1>2 DEF FoeInv
  <2> QED
    BY <1>1, <2>1 DEF FoeResult, Content
<1> QED
  BY <1>4, <1>5, <1>6, <1>7, <1>8 DEF FoeInv

LEMMA FoeElsewhere ==
  ASSUME FoeInv, op \notin FoeOps, op' \notin FoeOps, UNCHANGED foevars,
         pc' = "idle" => op' = "none" /\ moved' = 0 /\ got' = <<>> /\ more' = TRUE
  PROVE  FoeInv'
BY DEF FoeInv, FoeLocals, Calm, CalmCall, foevars, FoeOps

LEMMA AskedStays == UNCHANGED transfer => FoeAsked' = FoeAsked
BY DEF transfer, foevars, FoeAsked, FoeRead, FoeAck, FoeWrite, FoeData, Bytes

LEMMA Phases ==
  /\ pc \in Posted => pc \in UnderWay
  /\ {"sent", "receive", "received", "drain", "next"} \subseteq UnderWay
  /\ UnderWay \cap Over = {} /\ "idle" \notin UnderWay \cup Over
BY DEF Posted, UnderWay, Over

LEMMA FoeFirstTry ==
  ASSUME FoeInv, GeneralOK, Worse, op \in FoeOps, FirstTry,
         UNCHANGED <<callvars, foevars, fileserver>>
  PROVE  FoeInv'
<1>1. /\ pc = "try" /\ pc' \in {"sent", "wait"}
      /\ UNCHANGED <<mbxin, mbxcnt, work, outbox, lastcnt, silent>>
      /\ inbox' = inbox \/ (inbox = Nothing /\ inbox' = mbxout)
      /\ pc' = "wait" => mbxout' = mbxout
  BY DEF FirstTry
<1>2. UNCHANGED transfer
  BY <1>1 DEF transfer, callvars
<1>3. FewerReplies
  BY <1>1 DEF FewerReplies, InFlight
<1>4. ASSUME CalmCall, ~silent
      PROVE  FoeFlight'
  <2>1. FoeFlight
    BY <1>4 DEF FoeInv
  <2>2. NoneInFlight /\ NoneInFlight'
    BY <1>1, <2>1 DEF FoeFlight, NoneInFlight, IsFoe
  <2>3. mbxout = [cnt |-> mbxcnt, body |-> FoeAsked]
    BY <1>1, <2>1 DEF FoeFlight, Posted
  <2>4. inbox' # Nothing =>
          \/ inbox'.cnt = lastcnt'
          \/ inbox' = [cnt |-> mbxcnt', body |-> FoeAsked']
    BY <1>1, <1>2, <2>1, <2>3, AskedStays DEF FoeFlight
  <2>5. pc' \in Posted => mbxout' = [cnt |-> mbxcnt', body |-> FoeAsked']
    BY <1>1, <1>2, <2>3, AskedStays DEF Posted
  <2> QED
    BY <1>1, <2>2, <2>4, <2>5 DEF FoeFlight, NoneInFlight
<1>5. pc' \in UnderWay \cup Over /\ pc \in UnderWay /\ pc' \notin {"drain", "next", "finish", "done"}
  BY <1>1, Phases DEF Posted, UnderWay
<1> QED
  BY <1>1, <1>2, <1>3, <1>4, <1>5, FoeStays

LEMMA FoeWaits ==
  ASSUME FoeInv, GeneralOK, Worse, op \in FoeOps, WaitEmpty \/ WaitEmptyFails,
         UNCHANGED <<callvars, foevars, fileserver>>
  PROVE  FoeInv'
<1>1. /\ pc = "wait" /\ pc' \in {"retry", "unsent"}
      /\ UNCHANGED <<mbxin, mbxcnt, slavembx>>
      /\ pc' = "retry" => mbxout' = mbxout
  BY DEF WaitEmpty, WaitEmptyFails, mailboxes
<1>2. UNCHANGED transfer
  BY <1>1 DEF transfer, callvars, slavembx
<1>3. FewerReplies
  BY <1>1 DEF FewerReplies, InFlight, slavembx
<1>4. ASSUME CalmCall, CalmCall', ~silent
      PROVE  FoeFlight'
  <2>1. FoeFlight
    BY <1>4 DEF FoeInv
  <2>2. pc' = "retry"
    BY <1>1, <1>4 DEF CalmCall, UnderWay, Posted
  <2>3. UNCHANGED <<inbox, work, outbox, lastcnt, mbxin, mbxout, mbxcnt>>
    BY <1>1, <2>2 DEF slavembx
  <2>4. NoneInFlight' <=> NoneInFlight
    BY <1>1, <2>2, <2>3 DEF NoneInFlight, IsFoe
  <2> QED
    BY <1>1, <1>2, <2>1, <2>2, <2>3, <2>4, AskedStays DEF FoeFlight, Posted, IsFoe
<1>5. pc' \in UnderWay \cup Over /\ pc \in UnderWay /\ pc' \notin {"drain", "next", "finish", "done"}
  BY <1>1 DEF Posted, UnderWay, Over
<1>6. silent' = silent
  BY <1>1 DEF slavembx
<1> QED
  BY <1>1, <1>2, <1>3, <1>4, <1>5, <1>6, FoeStays

LEMMA FoeRetry ==
  ASSUME FoeInv, GeneralOK, Worse, op \in FoeOps, Retry,
         UNCHANGED <<callvars, foevars, fileserver>>
  PROVE  FoeInv'
<1>1. /\ pc = "retry" /\ pc' \in {"sent", "unsent"}
      /\ UNCHANGED <<mbxin, mbxcnt, work, outbox, lastcnt, silent>>
      /\ pc' = "sent" => inbox' = mbxout
  BY DEF Retry
<1>2. UNCHANGED transfer
  BY <1>1 DEF transfer, callvars
<1>3. FewerReplies
  BY <1>1 DEF FewerReplies, InFlight
<1>4. ASSUME CalmCall, CalmCall', ~silent
      PROVE  FoeFlight'
  <2>1. FoeFlight
    BY <1>4 DEF FoeInv
  <2>2. pc' = "sent" /\ inbox' = mbxout
    BY <1>1, <1>4 DEF CalmCall, UnderWay, Posted
  <2>3. mbxout = [cnt |-> mbxcnt, body |-> FoeAsked]
    BY <1>1, <2>1 DEF FoeFlight, Posted
  <2>4. NoneInFlight' <=> NoneInFlight
    BY <1>1, <2>2 DEF NoneInFlight, IsFoe
  <2>5. ~NoneInFlight => lastcnt = mbxcnt
    BY <1>1, <2>1 DEF FoeFlight, Posted
  <2>6. inbox'.cnt = mbxcnt /\ inbox' = [cnt |-> mbxcnt', body |-> FoeAsked']
    BY <1>1, <1>2, <2>2, <2>3, AskedStays
  <2> QED
    BY <1>1, <2>1, <2>2, <2>4, <2>5, <2>6 DEF FoeFlight, Posted, IsFoe
<1>5. pc' \in UnderWay \cup Over /\ pc \in UnderWay /\ pc' \notin {"drain", "next", "finish", "done"}
  BY <1>1 DEF Posted, UnderWay, Over
<1> QED
  BY <1>1, <1>2, <1>3, <1>4, <1>5, FoeStays

LEMMA FoeReceive ==
  ASSUME FoeInv, GeneralOK, Worse, op \in FoeOps, Receive,
         UNCHANGED <<callvars, foevars, fileserver>>
  PROVE  FoeInv'
<1>1. /\ pc = "receive" /\ pc' = "received" /\ mbxin' = outbox /\ outbox' = Nothing /\ ~silent
      /\ UNCHANGED <<mbxout, mbxcnt, inbox, work, lastcnt, silent>>
  BY DEF Receive
<1>2. UNCHANGED transfer
  BY <1>1 DEF transfer, callvars
<1>3. FewerReplies
  BY <1>1, FoeKinds DEF FewerReplies, InFlight
<1>4. ASSUME CalmCall
      PROVE  FoeFlight'
  <2>1. FoeFlight
    BY <1>1, <1>4 DEF FoeInv
  <2>2. NoneInFlight' <=> NoneInFlight
    BY <1>1, FoeKinds DEF NoneInFlight, IsFoe
  <2>3. ~IsFoe(outbox') /\ (IsFoe(mbxin') => ~IsFoe(work'))
    BY <1>1, <2>1, FoeKinds DEF FoeFlight, IsFoe
  <2> QED
    BY <1>1, <1>2, <2>1, <2>2, <2>3, AskedStays DEF FoeFlight, Posted
<1>5. pc' \in UnderWay \cup Over /\ pc \in UnderWay /\ pc' \notin {"drain", "next", "finish", "done"}
  BY <1>1 DEF Posted, UnderWay, Over
<1> QED
  BY <1>1, <1>2, <1>3, <1>4, <1>5, FoeStays

LEMMA FoeTransport ==
  ASSUME FoeInv, GeneralOK, Worse, op \in FoeOps, Transport,
         UNCHANGED <<callvars, foevars, fileserver>>
  PROVE  FoeInv'
<1>1. CASE ReceiveLoses \/ ReceiveTimesOut
  <2>1. /\ pc = "receive" /\ pc' = "unreceived"
        /\ UNCHANGED <<mbxcnt, inbox, work, lastcnt, silent>> /\ outbox' \in {outbox, Nothing}
    BY <1>1 DEF ReceiveLoses, ReceiveTimesOut, mailboxes, slavembx
  <2>2. UNCHANGED transfer
    BY <2>1 DEF transfer, callvars
  <2>3. FewerReplies
    BY <2>1, FoeKinds DEF FewerReplies, InFlight
  <2>4. pc' \in Over /\ pc' \notin UnderWay /\ pc' \notin {"finish", "done"}
    BY <2>1 DEF Posted, UnderWay, Over
  <2> QED
    BY <2>1, <2>2, <2>3, <2>4, FoeStays DEF CalmCall, UnderWay
<1> QED
  BY <1>1, FoeFirstTry, FoeWaits, FoeRetry, FoeReceive DEF Transport

LEMMA FoeDrain ==
  ASSUME FoeInv, GeneralOK, Worse, op \in FoeOps, Drain, UNCHANGED <<foevars, fileserver>>
  PROVE  FoeInv'
<1>1. /\ pc = "drain" /\ pc' = "next"
      /\ UNCHANGED <<mbxcnt, inbox, work, lastcnt, silent, callvars>>
      /\ \/ outbox' = Nothing
         \/ silent
         \/ Fault("late")
      /\ outbox' \in {outbox, Nothing}
  BY DEF Drain, Goto
<1>2. UNCHANGED transfer
  BY <1>1 DEF transfer, callvars
<1>3. ASSUME CalmCall, CalmCall', ~silent
      PROVE  FoeFlight'
  <2>1. FoeFlight
    BY <1>3 DEF FoeInv
  <2>2. outbox' = Nothing
    <3>1. CASE Fault("late")
      <4>1. faults'["late"] # 0
        BY <3>1 DEF Fault, GeneralOK, Kinds
      <4> QED
        BY <1>3, <4>1 DEF CalmCall, Calm
    <3> QED
      BY <1>1, <1>3, <3>1
  <2>3. inbox' = Nothing /\ ~IsFoe(work') /\ ~IsFoe(outbox')
    BY <1>1, <2>1, <2>2, FoeKinds DEF FoeFlight, IsFoe
  <2> QED
    BY <1>1, <2>3 DEF FoeFlight, NoneInFlight, Posted
<1>4. ASSUME CalmCall, CalmCall'
      PROVE  FewerReplies
  <2>1. ~silent => FoeFlight'
    BY <1>3, <1>4
  <2> QED
    BY <1>1, <2>1 DEF FewerReplies, InFlight, FoeFlight, NoneInFlight
<1>5. pc' \in UnderWay \cup Over /\ pc \in UnderWay /\ pc' \notin {"finish", "done"}
  BY <1>1, Phases
<1> QED
  BY <1>1, <1>2, <1>3, <1>4, <1>5, FoeStays

(* Nothing but the result and the place change, in a call that is over.    *)
LEMMA FoeConclude ==
  ASSUME FoeInv, GeneralOK, Worse, op \in FoeOps, NEW result, Conclude(result, "finish"),
         UNCHANGED <<foevars, fileserver>>, Calm /\ result => FoeResult
  PROVE  FoeInv'
<1>1. /\ pc' = "finish" /\ wkc' = result
      /\ UNCHANGED <<op, item, packet, segmentdata, dofinalzero, moved, got, more, files, written,
                     busy, silent, inbox, lastcnt>>
  BY DEF Conclude, Goto, foevars, fileserver, slavembx
<1>2. Calm' => Calm
  BY <1>1, CalmBefore
<1>3. FoeLocals'
  BY <1>1 DEF FoeInv, FoeLocals, UnderWay, Over, Posted
<1>4. ~CalmCall'
  BY <1>1 DEF CalmCall, UnderWay, Posted
<1>5. FoeResult => FoeResult'
  BY <1>1 DEF FoeResult, Content
<1> QED
  BY <1>1, <1>2, <1>3, <1>4, <1>5 DEF FoeInv

LEMMA FoeFails ==
  ASSUME FoeInv, GeneralOK, Worse, op \in FoeOps, Conclude(FALSE, "finish"),
         UNCHANGED <<foevars, fileserver>>
  PROVE  FoeInv'
BY FoeConclude

LEMMA FoeFinish ==
  ASSUME FoeInv, GeneralOK, Worse, op \in FoeOps, Finish, UNCHANGED <<foevars, fileserver>>
  PROVE  FoeInv'
<1>1. /\ pc = "finish" /\ pc' = "done"
      /\ UNCHANGED <<mbxcnt, inbox, work, outbox, lastcnt, silent, callvars>>
  BY DEF Finish, Goto, slavembx
<1>2. UNCHANGED transfer /\ wkc' = wkc
  BY <1>1 DEF transfer, callvars
<1>3. FewerReplies
  BY <1>1 DEF FewerReplies, InFlight
<1>4. pc' \in Over /\ pc' \notin UnderWay
  BY <1>1 DEF Posted, UnderWay, Over
<1> QED
  BY <1>1, <1>2, <1>3, <1>4, FoeStays DEF CalmCall

LEMMA FoeAwaits ==
  ASSUME FoeInv, GeneralOK, Worse, FoeAwaitReply
  PROVE  FoeInv'
<1>1. op \in FoeOps /\ pc = "sent" /\ UNCHANGED <<foevars, fileserver>>
  BY DEF FoeAwaitReply, FoeOps
<1>2. CASE more /\ AwaitReply
  <2>1. /\ pc' = "receive" /\ UNCHANGED <<mbxout, mbxcnt, slavembx, op, item, moved, got, more>>
    BY <1>2 DEF AwaitReply, Goto
  <2>2. UNCHANGED transfer
    BY <1>1, <2>1 DEF transfer, slavembx
  <2>3. FewerReplies
    BY <1>1, <2>1 DEF FewerReplies, InFlight, slavembx
  <2>4. ASSUME CalmCall, ~silent
        PROVE  FoeFlight'
    <3>1. FoeFlight
      BY <2>4 DEF FoeInv
    <3>2. NoneInFlight' <=> NoneInFlight
      BY <1>1, <2>1 DEF NoneInFlight, IsFoe, slavembx
    <3> QED
      BY <1>1, <2>1, <2>2, <3>1, <3>2, AskedStays DEF FoeFlight, Posted, slavembx, IsFoe
  <2>5. pc' \in UnderWay /\ pc \in UnderWay /\ pc' \notin {"drain", "next", "finish", "done"}
        /\ silent' = silent
    BY <1>1, <2>1 DEF UnderWay, slavembx
  <2> QED
    BY <1>1, <1>2, <2>1, <2>2, <2>3, <2>4, <2>5, FoeStays
<1>3. CASE ~more /\ Conclude(TRUE, "finish")
  <2>1. ASSUME Calm
        PROVE  FoeResult
    <3>1. CalmCall
      BY <1>1, <2>1, Phases DEF CalmCall
    <3>2. op = "foeread"
      BY <1>1, <1>3, <3>1 DEF FoeInv, FoeWriteOK, PacketOK, FoeOps
    <3> QED
      BY <1>3, <3>1, <3>2 DEF FoeInv, FoeReadOK, FoeResult
  <2> QED
    BY <1>1, <1>3, <2>1, FoeConclude
<1> QED
  BY <1>2, <1>3 DEF FoeAwaitReply

LEMMA FoeRequests ==
  ASSUME FoeInv, GeneralOK, Worse, FoeRequest
  PROVE  FoeInv'
<1>1. /\ op \in FoeOps /\ pc = "next"
      /\ UNCHANGED <<callvars, slavembx, foevars, fileserver>>
      /\ \/ /\ mbxout' = [cnt |-> NextCnt,
                          body |-> IF op = "foeread" THEN FoeRead(item) ELSE FoeWrite(item)]
            /\ mbxcnt' = NextCnt /\ pc' = "try" /\ UNCHANGED <<mbxin, faults>>
         \/ pc' = "crashed"
  BY DEF FoeRequest, Ask, Post, FoeOps, Goto
<1>2. UNCHANGED <<op, item, packet, segmentdata, dofinalzero, moved, got, more, files, written,
                  busy, silent, inbox, work, outbox, lastcnt>>
  BY <1>1 DEF callvars, foevars, fileserver, slavembx
<1>3. packet = 0 /\ segmentdata = 0 /\ dofinalzero = TRUE /\ moved = 0 /\ more = TRUE
  BY <1>1 DEF FoeInv, FoeLocals
<1>4. FoeLocals'
  BY <1>1, <1>2 DEF FoeInv, FoeLocals, UnderWay, Over, Posted
<1>5. CASE pc' = "crashed"
  BY <1>4, <1>5 DEF FoeInv, CalmCall, UnderWay, Posted
<1>6. CASE /\ mbxout' = [cnt |-> NextCnt,
                         body |-> IF op = "foeread" THEN FoeRead(item) ELSE FoeWrite(item)]
           /\ mbxcnt' = NextCnt /\ pc' = "try" /\ UNCHANGED <<mbxin, faults>>
  <2>1. ASSUME CalmCall', ~silent'
        PROVE  FoeFlight'
    <3>1. FoeFlight
      BY <1>1, <1>2, <1>6, <2>1, Phases DEF FoeInv, CalmCall, Calm
    <3>2. FoeAsked' = IF op = "foeread" THEN FoeRead(item) ELSE FoeWrite(item)
      BY <1>2, <1>3 DEF FoeAsked, FoeRead, FoeWrite
    <3>3. NoneInFlight'
      BY <1>1, <1>2, <1>6, <3>1 DEF FoeFlight, NoneInFlight, IsFoe
    <3> QED
      BY <1>1, <1>2, <1>6, <3>1, <3>2, <3>3 DEF FoeFlight, NoneInFlight
  <2>2. FewerReplies
    BY <1>1, <1>2, <1>6 DEF FewerReplies, InFlight
  <2>3. ASSUME CalmCall', op' = "foeread"
        PROVE  FoeReadOK'
    <3>1. FoeReadOK
      BY <1>1, <1>2, <1>6, <2>3, Phases DEF FoeInv, CalmCall, Calm
    <3> QED
      BY <1>2, <2>2, <3>1, FoeKinds DEF FoeReadOK, FewerReplies, Content, Bytes, Packet
  <2>4. ASSUME CalmCall', op' = "foewrite"
        PROVE  FoeWriteOK'
    <3>1. FoeWriteOK
      BY <1>1, <1>2, <1>6, <2>4, Phases DEF FoeInv, CalmCall, Calm
    <3>2. PacketOK'
      BY <1>2, <3>1 DEF FoeWriteOK, PacketOK
    <3>3. InFlight(FoeBusy)' => InFlight(FoeBusy)
      BY <2>2, FoeKinds DEF FewerReplies
    <3>4. InFlight(FoeAck(packet))' => InFlight(FoeAck(packet))
      BY <1>2, <2>2, FoeKinds DEF FewerReplies
    <3>5. HasAfter' <=> HasAfter
      BY <1>2 DEF HasAfter
    <3> QED
      BY <1>2, <1>3, <3>1, <3>2, <3>3, <3>4, <3>5 DEF FoeWriteOK
  <2> QED
    BY <1>4, <1>6, <2>1, <2>3, <2>4 DEF FoeInv
<1> QED
  BY <1>1, <1>5, <1>6

(* The next request follows a reply, which was the only one.               *)
LEMMA FoePosts ==
  ASSUME FoeInv, GeneralOK, Worse, op \in FoeOps, op' = op, pc = "received", IsFoe(mbxin),
         NEW body, Post(body), CalmCall', body = FoeAsked'
  PROVE  /\ CalmCall /\ pc' = "try" /\ UNCHANGED <<silent, lastcnt>>
         /\ ~silent' => FoeFlight'
         /\ \A m : IsFoe(m) => ~InFlight(m)'
<1>1. /\ pc' = "try" /\ mbxout' = [cnt |-> NextCnt, body |-> FoeAsked'] /\ mbxcnt' = NextCnt
      /\ UNCHANGED <<mbxin, faults, silent, inbox, work, outbox, lastcnt>>
  BY DEF Post, Goto, CalmCall, UnderWay, Posted, slavembx
<1>2. CalmCall
  BY <1>1, Phases DEF CalmCall, Calm
<1>3. ~silent => FoeFlight
  BY <1>2 DEF FoeInv
<1>4. ~silent => NoneInFlight'
  BY <1>1, <1>3 DEF FoeFlight, NoneInFlight, IsFoe
<1>5. ~silent' => FoeFlight'
  BY <1>1, <1>3, <1>4 DEF FoeFlight, NoneInFlight
<1>6. \A m : IsFoe(m) => ~InFlight(m)'
  BY <1>1, <1>4 DEF InFlight, NoneInFlight, IsFoe
<1> QED
  BY <1>1, <1>2, <1>5, <1>6

LEMMA PacketIs ==
  ASSUME NEW i \in Items, NEW k \in Nat
  PROVE  Packet(i, k + 1) = Bytes(i, k * MaxData, Least(Size[i] - k * MaxData, MaxData))
<1>1. (k + 1) - 1 = k
  OBVIOUS
<1> QED
  BY <1>1 DEF Packet

LEMMA FoeTakes ==
  ASSUME FoeInv, GeneralOK, Worse, TakePacket
  PROVE  FoeInv'
<1>1. /\ pc = "received" /\ op = "foeread" /\ mbxin.cmd = "foedata" /\ mbxin.packet = packet + 1
      /\ got' = got \o mbxin.data /\ more' = (Len(mbxin.data) = MaxData)
      /\ packet' = mbxin.packet /\ Post(FoeAck(mbxin.packet))
      /\ UNCHANGED <<op, item, moved, segmentdata, dofinalzero, files, written, busy>>
      /\ pc' \in {"try", "crashed"}
  BY DEF TakePacket, ExpectsPacket, fileserver, Post, Goto
<1>2. FoeLocals'
  BY <1>1 DEF FoeInv, FoeLocals, UnderWay, Over, Posted, FoeOps
<1>3. CASE ~CalmCall'
  BY <1>1, <1>2, <1>3 DEF FoeInv
<1>4. CASE CalmCall'
  <2>1. Calm
    BY <1>1, <1>4, CalmBefore DEF CalmCall
  <2>2. CalmCall
    BY <1>1, <2>1, Phases DEF CalmCall
  <2>3. FoeReadOK
    BY <1>1, <2>2 DEF FoeInv
  <2>4. mbxin = FoeData(packet + 1, Packet(item, packet + 1))
        /\ (files.mode = "read" => files.item = item)
    BY <1>1, <2>3 DEF FoeReadOK, InFlight
  <2>5. packet \in Nat /\ item \in Items /\ packet' = packet + 1
    BY <1>1, <2>3 DEF FoeReadOK, GeneralOK
  <2>6. FoeAck(mbxin.packet) = FoeAsked'
    BY <1>1, <2>5 DEF FoeAsked
  <2>7. (~silent' => FoeFlight') /\ (\A m : IsFoe(m) => ~InFlight(m)')
    BY <1>1, <1>4, <2>6, FoeKinds, FoePosts DEF FoeOps
  <2> DEFINE from == packet * MaxData
             rest == Size[item] - from
             len == Least(rest, MaxData)
  <2>8. mbxin.data = Bytes(item, from, len)
    BY <2>4, <2>5, PacketIs DEF FoeData
  <2>9. from \in Nat /\ Size[item] \in Nat /\ MaxData \in Nat /\ MaxData > 0
    BY <2>5, Sizes
  <2>10. (packet + 1) * MaxData = from + MaxData
    BY <2>5, <2>9
  <2>11. ASSUME more
         PROVE  /\ got = Bytes(item, 0, from) /\ from <= Size[item]
                /\ len \in Nat /\ len <= rest /\ (len # MaxData => len = rest)
    BY <2>3, <2>9, <2>11 DEF FoeReadOK, Least
  <2>12. more
    BY <1>1 DEF FoeInv, FoeLocals
  <2>13. FoeReadOK' => FoeInv'
    BY <1>1, <1>2, <1>4, <2>7 DEF FoeInv, Calm, CalmCall, UnderWay, Over, Posted
  <2>14. FoeReadOK'
    <3> HIDE DEF from, len, rest
    <3>0. got = Bytes(item, 0, from) /\ len \in Nat
      BY <2>11, <2>12
    <3>1. got' = Bytes(item, 0, from + len)
      <4>1. 0 + from = from
        BY <2>9
      <4>2. Bytes(item, 0, from) \o Bytes(item, 0 + from, len) = Bytes(item, 0, from + len)
        <5>1. 0 \in Int /\ from \in Nat /\ len \in Nat /\ item \in Items
          BY <2>5, <2>9, <3>0
        <5> QED
          BY <5>1, BytesJoin, Zenon
      <4> QED
        BY <1>1, <2>8, <3>0, <4>1, <4>2
    <3>2. Len(mbxin.data) = len
      BY <2>5, <2>8, <2>9, <3>0, BytesAre
    <3>3. CASE len = MaxData
      <4>1. more' /\ got' = Bytes(item', 0, packet' * MaxData)
        BY <1>1, <2>5, <2>10, <3>1, <3>2, <3>3
      <4>2. packet' * MaxData <= Size[item']
        <5>1. rest = Size[item] - from
          BY DEF rest
        <5> QED
          BY <1>1, <2>5, <2>9, <2>10, <2>11, <2>12, <3>3, <5>1
      <4> QED
        BY <1>1, <2>4, <2>5, <2>7, <4>1, <4>2, FoeKinds DEF FoeReadOK
    <3>4. CASE len # MaxData
      <4>1. ~more' /\ got' = Content(item')
        <5>1. from + len = Size[item]
          BY <2>9, <2>11, <2>12, <3>4 DEF rest
        <5> QED
          BY <1>1, <3>1, <3>2, <3>4, <5>1 DEF Content
      <4> QED
        BY <1>1, <2>4, <2>5, <2>7, <4>1, FoeKinds DEF FoeReadOK
    <3> QED
      BY <3>3, <3>4
  <2> QED
    BY <2>13, <2>14
<1> QED
  BY <1>3, <1>4

LEMMA FoeEnds ==
  ASSUME FoeInv, GeneralOK, Worse, FoeGiveUp \/ RefusePacket \/ BusyAtOnce \/ FoeRefused
  PROVE  FoeInv'
<1>1. op \in FoeOps /\ UNCHANGED <<foevars, fileserver>>
  BY DEF FoeGiveUp, RefusePacket, BusyAtOnce, FoeRefused, FoeOps
<1>2. CASE FoeGiveUp \/ RefusePacket \/ FoeRefused
  BY <1>1, <1>2, FoeFails DEF FoeGiveUp, GiveUp, RefusePacket, FoeRefused
<1>3. CASE BusyAtOnce
  <2>1. pc = "received" /\ op = "foewrite" /\ mbxin = FoeBusy /\ packet = 0
        /\ Conclude(TRUE, "finish")
    BY <1>3 DEF BusyAtOnce
  <2>2. ASSUME Calm
        PROVE  FoeResult
    <3>1. CalmCall
      BY <2>1, <2>2, Phases DEF CalmCall
    <3>2. busy.ends
      BY <2>1, <3>1 DEF FoeInv, FoeWriteOK, InFlight
    <3> QED
      BY <2>1, <3>2 DEF FoeResult
  <2> QED
    BY <1>1, <2>1, <2>2, FoeConclude
<1> QED
  BY <1>2, <1>3

(* What the slave is to have of the file when a packet from here is posted, *)
(* or nothing is left.                                                      *)
LEMMA FoeSends ==
  ASSUME FoeInv, GeneralOK, Worse, CalmCall, op = "foewrite", pc = "received", IsFoe(mbxin),
         UNCHANGED <<op, item, room, got, more, fileserver>>,
         NEW from \in Nat, from <= Size[item], NEW number \in Nat, number > 0,
         SendPacket(from, number),
         (Least(Size[item] - from, MaxData) > 0 \/ dofinalzero) =>
           (files.mode = "write" => /\ files.item = item /\ files.packet = number - 1
                                    /\ files.data = Bytes(item, 0, from)),
         ~(Least(Size[item] - from, MaxData) > 0 \/ dofinalzero) =>
           (~busy.ends => written = <<item, Content(item)>>)
  PROVE  FoeInv'
<1> DEFINE tsize == Least(Size[item] - from, MaxData)
<1>1. UNCHANGED <<op, item, got, more, files, written, busy>> /\ item \in Items
  BY DEF fileserver, GeneralOK
<1>2. FoeWriteOK /\ (~silent => FoeFlight)
  BY DEF FoeInv
<1>3. /\ tsize \in Nat /\ from + tsize \in Nat /\ from + tsize <= Size[item]
      /\ (from + tsize) - tsize = from
  BY <1>1, Sizes DEF Least
<1> HIDE DEF tsize
<1>4. CASE tsize > 0 \/ dofinalzero
  <2>1. /\ segmentdata' = tsize /\ moved' = from + tsize
        /\ dofinalzero' = (from + tsize = Size[item] /\ tsize = MaxData)
        /\ packet' = number /\ Post(FoeData(number, Bytes(item, from, tsize)))
    BY <1>4 DEF SendPacket, tsize
  <2>2. pc' \in {"try", "crashed"}
    BY <2>1 DEF Post, Goto
  <2>3. FoeLocals'
    BY <1>1, <2>2 DEF FoeInv, FoeLocals, UnderWay, Over, Posted, FoeOps
  <2>4. ASSUME CalmCall'
        PROVE  (~silent' => FoeFlight') /\ FoeWriteOK'
    <3>1. moved' - segmentdata' = from
      BY <1>3, <2>1
    <3>2. FoeData(number, Bytes(item, from, tsize)) = FoeAsked'
      BY <1>1, <2>1, <3>1 DEF FoeAsked
    <3>3. (~silent' => FoeFlight') /\ (\A m : IsFoe(m) => ~InFlight(m)')
      BY <1>1, <2>1, <2>4, <3>2, FoePosts DEF FoeOps
    <3>4. PacketOK'
      <4>1. segmentdata' = Least(Size[item'] - (moved' - segmentdata'), MaxData)
        BY <1>1, <2>1, <3>1 DEF tsize
      <4>2. more' = TRUE
        BY <1>1, <1>2 DEF FoeWriteOK, PacketOK
      <4>3. segmentdata' <= moved' /\ moved' <= Size[item']
        BY <1>1, <1>3, <2>1
      <4>4. packet' \in Nat /\ segmentdata' \in Nat /\ moved' \in Nat /\ packet' # 0
        BY <1>3, <2>1
      <4>5. dofinalzero' = (moved' = Size[item'] /\ segmentdata' = MaxData)
        BY <1>1, <2>1
      <4> QED
        BY <4>1, <4>2, <4>3, <4>4, <4>5 DEF PacketOK
    <3>5. HasBefore'
      BY <1>1, <1>4, <2>1, <3>1 DEF HasBefore, tsize
    <3>6. ~InFlight(FoeBusy)' /\ ~InFlight(FoeAck(packet))'
      BY <3>3, FoeKinds
    <3> QED
      BY <3>3, <3>4, <3>5, <3>6 DEF FoeWriteOK
  <2> QED
    BY <1>1, <2>2, <2>3, <2>4 DEF FoeInv, Calm
<1>5. CASE ~(tsize > 0 \/ dofinalzero)
  <2>1. pc' = "finish" /\ UNCHANGED <<slavembx, segmentdata, dofinalzero, faults>>
    BY <1>5 DEF SendPacket, tsize, Goto
  <2>2. FoeLocals'
    BY <1>1, <2>1 DEF FoeInv, FoeLocals, UnderWay, Over, Posted, FoeOps
  <2>3. ~CalmCall'
    BY <2>1 DEF CalmCall, UnderWay, Posted
  <2>4. ~silent /\ inbox # Nothing => inbox.cnt = lastcnt
    BY <1>2 DEF FoeFlight, NoneInFlight
  <2>5. FoeResult
    BY <1>5, <2>4 DEF FoeResult, tsize
  <2>6. FoeResult'
    BY <1>1, <2>1, <2>5 DEF FoeResult, Content, slavembx
  <2> QED
    BY <2>2, <2>3, <2>6 DEF FoeInv
<1> QED
  BY <1>4, <1>5

LEMMA FoeGoesOn ==
  ASSUME FoeInv, GeneralOK, Worse, NextPacket \/ SameAgain
  PROVE  FoeInv'
<1>1. /\ pc = "received" /\ op = "foewrite" /\ IsFoe(mbxin)
      /\ UNCHANGED <<op, item, room, got, more, fileserver>>
  BY FoeKinds DEF NextPacket, SameAgain
<1>2. pc' \in {"try", "crashed", "finish"}
  BY DEF NextPacket, SameAgain, SendPacket, Post, Goto
<1>3. FoeLocals'
  BY <1>1, <1>2 DEF FoeInv, FoeLocals, UnderWay, Over, Posted, FoeOps
<1>4. CASE ~Calm'
  BY <1>3, <1>4 DEF FoeInv, CalmCall
<1>5. CASE Calm'
  <2>1. CalmCall
    BY <1>1, <1>5, CalmBefore, Phases DEF CalmCall
  <2>2. FoeWriteOK /\ PacketOK
    BY <1>1, <2>1 DEF FoeInv, FoeWriteOK
  <2>3. item \in Items /\ Size[item] \in Nat /\ MaxData \in Nat /\ MaxData > 0
        /\ packet \in Nat /\ segmentdata \in Nat /\ moved \in Nat
        /\ moved <= Size[item] /\ segmentdata <= moved
    BY <2>2, Sizes DEF GeneralOK, PacketOK
  <2>4. CASE NextPacket
    <3>1. SendPacket(moved, packet + 1) /\ mbxin = FoeAck(packet)
      BY <2>4 DEF NextPacket
    <3>2. HasAfter
      BY <1>1, <2>2, <3>1 DEF FoeWriteOK, InFlight
    <3> DEFINE total == Size[item]
    <3>3. /\ packet = 0 => dofinalzero
          /\ packet # 0 => (dofinalzero <=> moved = total /\ segmentdata = MaxData)
      BY <2>2, Zenon DEF PacketOK
    <3>4. packet > 0 => segmentdata = Least(total - (moved - segmentdata), MaxData)
      BY <2>2, <2>3 DEF PacketOK
    <3>5. total \in Nat /\ moved <= total
      BY <2>3
    <3>6. packet > 0 /\ segmentdata < MaxData => moved = total
      <4> HIDE DEF total
      <4> QED
        BY <2>3, <3>4, <3>5 DEF Least
    <3>7. packet > 0 /\ segmentdata # MaxData => segmentdata < MaxData
      <4> HIDE DEF total
      <4> QED
        BY <2>3, <3>4, <3>5 DEF Least
    <3>8. ASSUME Least(Size[item] - moved, MaxData) > 0 \/ dofinalzero
          PROVE  files.mode = "write" => /\ files.item = item /\ files.packet = (packet + 1) - 1
                                         /\ files.data = Bytes(item, 0, moved)
      <4>1. ~(packet > 0 /\ segmentdata < MaxData)
        <5> SUFFICES ASSUME packet > 0, segmentdata < MaxData
                     PROVE  FALSE
          OBVIOUS
        <5>1. packet # 0 /\ segmentdata # MaxData /\ moved = Size[item]
          BY <2>3, <3>6
        <5>2. ~dofinalzero
          BY <3>3, <5>1, Zenon
        <5>3. ~(Least(Size[item] - moved, MaxData) > 0)
          BY <2>3, <5>1 DEF Least
        <5> QED
          BY <3>8, <5>2, <5>3, Zenon
      <4>2. (packet + 1) - 1 = packet
        BY <2>3
      <4> QED
        BY <3>2, <4>1, <4>2 DEF HasAfter
    <3>9. ASSUME ~(Least(Size[item] - moved, MaxData) > 0 \/ dofinalzero)
          PROVE  written = <<item, Content(item)>>
      <4>1. moved = Size[item]
        BY <2>3, <3>9 DEF Least
      <4>2. packet > 0 /\ segmentdata < MaxData
        <5>1. packet # 0 /\ segmentdata # MaxData
          BY <3>3, <3>9, <4>1, Zenon
        <5> QED
          BY <2>3, <3>7, <5>1
      <4> QED
        BY <3>2, <4>1, <4>2 DEF HasAfter, Content
    <3>10. packet + 1 \in Nat /\ packet + 1 > 0
      BY <2>3
    <3> QED
      BY <1>1, <2>1, <2>3, <3>1, <3>8, <3>9, <3>10, FoeSends
  <2>5. CASE SameAgain
    <3> DEFINE from == moved - segmentdata
    <3>1. SendPacket(from, packet) /\ mbxin = FoeBusy /\ packet > 0
      BY <2>5 DEF SameAgain
    <3>2. HasBefore /\ (segmentdata = 0 => busy.ends)
      BY <1>1, <2>2, <3>1 DEF FoeWriteOK, InFlight
    <3>3. from \in Nat /\ from <= Size[item]
      BY <2>3
    <3>4. files.mode = "write" => /\ files.item = item /\ files.packet = packet - 1
                                  /\ files.data = Bytes(item, 0, from)
      BY <3>2 DEF HasBefore
    <3>5. ASSUME ~(Least(Size[item] - from, MaxData) > 0 \/ dofinalzero)
          PROVE  busy.ends
      <4>1. segmentdata = Least(Size[item] - from, MaxData)
        BY <2>2, <3>1 DEF PacketOK
      <4>2. segmentdata = 0
        BY <2>3, <3>5, <4>1
      <4> QED
        BY <3>2, <4>2
    <3> HIDE DEF from
    <3> QED
      BY <1>1, <2>1, <2>3, <3>1, <3>3, <3>4, <3>5, FoeSends
  <2> QED
    BY <2>4, <2>5
<1> QED
  BY <1>4, <1>5

LEMMA FoeMasterKeeps ==
  ASSUME FoeInv, GeneralOK, Worse, FoeMaster
  PROVE  FoeInv'
BY FoeRequests, FoeAwaits, FoeTakes, FoeEnds, FoeGoesOn DEF FoeMaster

LEMMA FoeReturns ==
  ASSUME FoeInv, Return, UNCHANGED foevars \/ FoeReturn, op \notin FoeOps \/ FoeReturn
  PROVE  FoeInv'
<1>1. pc' = "idle" /\ op' = "none" /\ moved' = 0 /\ got' = <<>> /\ more' = TRUE
  BY DEF Return, Goto
<1>2. packet' = 0 /\ segmentdata' = 0 /\ dofinalzero' = TRUE
  BY DEF FoeReturn, foevars, FoeInv, FoeLocals
<1> QED
  BY <1>1, <1>2 DEF FoeInv, FoeLocals, Calm, CalmCall, FoeOps

-----------------------------------------------------------------------------
(* FoE: the slave.                                                         *)
LEMMA FoeQuiet ==
  ASSUME FoeInv, GeneralOK, Worse, op \in FoeOps,
         UNCHANGED <<pc, mailboxes, callvars, foevars, fileserver, lastcnt>>,
         inbox' \in {inbox, Nothing}, silent => silent', FewerReplies,
         CalmCall /\ ~silent' => FoeFlight'
  PROVE  FoeInv'
<1>1. UNCHANGED transfer /\ UNCHANGED <<pc, wkc>>
  BY DEF transfer, callvars, mailboxes
<1>2. pc \in UnderWay \cup Over
  BY DEF FoeInv, FoeLocals
<1> QED
  BY <1>1, <1>2, FoeStays

LEMMA FoeSlave ==
  ASSUME FoeInv, GeneralOK, Worse, op \in FoeOps, Slave,
         UNCHANGED <<callvars, foevars, fileserver>>
  PROVE  FoeInv'
<1>1. CASE TakeCopy
  <2>1. UNCHANGED <<pc, mailboxes, mbxin, mbxout, mbxcnt, work, outbox, lastcnt, silent>>
        /\ inbox' = Nothing
    BY <1>1 DEF TakeCopy, mailboxes
  <2>2. FewerReplies
    BY <2>1 DEF FewerReplies, InFlight
  <2>3. UNCHANGED transfer
    BY <2>1 DEF transfer, callvars
  <2>4. CalmCall /\ ~silent' => FoeFlight'
    BY <2>1, <2>3, AskedStays DEF FoeInv, FoeFlight, NoneInFlight, IsFoe
  <2> QED
    BY <2>1, <2>2, <2>4, FoeQuiet
<1>2. CASE PlaceReply
  <2>1. UNCHANGED <<pc, mailboxes, mbxin, mbxout, mbxcnt, inbox, lastcnt, silent>>
        /\ outbox = Nothing /\ outbox' = work /\ work' = Nothing /\ ~silent
    BY <1>2 DEF PlaceReply, mailboxes
  <2>2. FewerReplies
    BY <2>1, FoeKinds DEF FewerReplies, InFlight
  <2>3. UNCHANGED transfer
    BY <2>1 DEF transfer, callvars
  <2>4. NoneInFlight' <=> NoneInFlight
    BY <2>1, FoeKinds DEF NoneInFlight, IsFoe
  <2>5. ~IsFoe(work') /\ (IsFoe(outbox') <=> IsFoe(work))
    BY <2>1, FoeKinds DEF IsFoe
  <2>6. CalmCall /\ ~silent' => FoeFlight'
    BY <2>1, <2>3, <2>4, <2>5, AskedStays DEF FoeInv, FoeFlight, IsFoe
  <2> QED
    BY <2>1, <2>2, <2>6, FoeQuiet
<1>3. CASE FallSilent
  <2>1. UNCHANGED <<pc, mailboxes, mbxin, inbox, work, outbox, lastcnt>> /\ silent' = TRUE
    BY <1>3 DEF FallSilent, mailboxes
  <2>2. FewerReplies
    BY <2>1 DEF FewerReplies, InFlight
  <2> QED
    BY <2>1, <2>2, FoeQuiet
<1> QED
  BY <1>1, <1>2, <1>3 DEF Slave

(* The slave sends what is not part of FoE, unasked.                       *)
LEMMA FoeUnasked ==
  ASSUME FoeInv, GeneralOK, Worse, op \in FoeOps, ~IsFoe(work') \/ work' = work,
         UNCHANGED <<pc, mailboxes, inbox, outbox, lastcnt, silent, callvars, foevars, fileserver>>
  PROVE  FoeInv'
<1>1. UNCHANGED <<mbxin, mbxout, mbxcnt>> /\ UNCHANGED transfer
  BY DEF mailboxes, transfer, callvars
<1>2. FewerReplies
  BY <1>1 DEF FewerReplies, InFlight
<1>3. (IsFoe(work') => IsFoe(work)) /\ (NoneInFlight => NoneInFlight')
  BY <1>1 DEF NoneInFlight, IsFoe
<1>4. CalmCall /\ ~silent' => FoeFlight'
  BY <1>1, <1>3, AskedStays DEF FoeInv, FoeFlight, IsFoe
<1> QED
  BY <1>2, <1>4, FoeQuiet

(* The slave takes a request: in a call in which nothing is late it is the *)
(* one that was posted last, and the answer is the only reply.             *)
LEMMA FoeAnswers ==
  ASSUME FoeInv, GeneralOK, Worse, op \in FoeOps, NEW answer, Take(answer),
         UNCHANGED <<callvars, foevars>>, busy.ends => busy'.ends,
         CalmCall /\ inbox.body = FoeAsked /\ op = "foeread" /\ FoeReadOK =>
           /\ packet > 0 \/ answer.cmd = "foedata" =>
                (files'.mode = "read" => files'.item = item)
           /\ answer.cmd = "foedata" => answer = FoeData(packet + 1, Packet(item, packet + 1)),
         CalmCall /\ inbox.body = FoeAsked /\ op = "foewrite" /\ PacketOK
             /\ (packet > 0 => HasBefore) =>
           /\ answer = FoeBusy => /\ packet > 0 => HasBefore'
                                  /\ packet = 0 \/ segmentdata = 0 => busy'.ends
           /\ answer = FoeAck(packet) => HasAfter'
  PROVE  FoeInv'
<1>1. /\ UNCHANGED <<pc, mbxin, mbxout, mbxcnt, outbox, silent, faults>>
      /\ UNCHANGED <<op, item, packet, segmentdata, dofinalzero, moved, got, more, wkc>>
      /\ inbox # Nothing /\ ~silent /\ inbox.cnt # lastcnt
      /\ inbox' = Nothing /\ lastcnt' = inbox.cnt /\ work' = answer
  BY DEF Take, mailboxes, callvars, foevars
<1>2. FoeLocals'
  BY <1>1 DEF FoeInv, FoeLocals
<1>3. (Calm' <=> Calm) /\ (CalmCall' <=> CalmCall)
  BY <1>1 DEF CalmCall, Calm
<1>4. ASSUME Calm', pc' \in {"finish", "done"}, wkc'
      PROVE  FoeResult'
  <2>1. FoeResult
    BY <1>1, <1>3, <1>4 DEF FoeInv
  <2>2. op = "foewrite" => busy'.ends
    BY <1>1, <2>1 DEF FoeResult
  <2> QED
    BY <1>1, <2>1, <2>2 DEF FoeResult, Content
<1>5. CASE ~CalmCall
  BY <1>2, <1>3, <1>4, <1>5 DEF FoeInv
<1>6. CASE CalmCall
  <2>1. FoeFlight
    BY <1>1, <1>6 DEF FoeInv
  <2>2. /\ inbox = [cnt |-> mbxcnt, body |-> FoeAsked] /\ NoneInFlight
        /\ pc \notin {"drain", "next", "try"}
    BY <1>1, <2>1 DEF FoeFlight
  <2>3. lastcnt # mbxcnt /\ lastcnt' = mbxcnt' /\ inbox.body = FoeAsked
    BY <1>1, <2>2
  <2>4. FoeAsked' = FoeAsked
    BY <1>1 DEF FoeAsked, FoeRead, FoeAck, FoeWrite, FoeData, Bytes
  <2>5. ~IsFoe(outbox') /\ (pc' = "received" => ~IsFoe(mbxin'))
    BY <1>1, <2>2 DEF NoneInFlight, IsFoe
  <2>6. FoeFlight'
    BY <1>1, <2>1, <2>2, <2>3, <2>4, <2>5 DEF FoeFlight
  <2>7. \A m : IsFoe(m) /\ InFlight(m)' => m = answer
    BY <1>1, <2>5 DEF InFlight, IsFoe
  <2>8. ASSUME op = "foeread"
        PROVE  FoeReadOK'
    <3>1. FoeReadOK
      BY <1>6, <2>8 DEF FoeInv
    <3> QED
      BY <1>1, <1>6, <2>3, <2>7, <2>8, <3>1, FoeKinds DEF FoeReadOK, Content, Bytes, Packet
  <2>9. ASSUME op = "foewrite"
        PROVE  FoeWriteOK'
    <3>1. PacketOK /\ (packet > 0 => HasBefore)
      BY <1>6, <2>3, <2>9 DEF FoeInv, FoeWriteOK
    <3>2. PacketOK'
      BY <1>1, <3>1 DEF PacketOK
    <3>3. InFlight(FoeBusy)' => answer = FoeBusy
      BY <2>7, FoeKinds
    <3>4. InFlight(FoeAck(packet))' => answer = FoeAck(packet)
      BY <1>1, <2>7, FoeKinds
    <3> QED
      BY <1>1, <1>6, <2>3, <2>9, <3>1, <3>2, <3>3, <3>4 DEF FoeWriteOK
  <2> QED
    BY <1>1, <1>2, <1>4, <2>6, <2>8, <2>9 DEF FoeInv
<1> QED
  BY <1>5, <1>6

(* A request of another protocol was not posted in this call.              *)
LEMMA FoeOthersTake ==
  ASSUME FoeInv, GeneralOK, Worse, op \in FoeOps, NEW answer, Take(answer),
         UNCHANGED <<callvars, foevars, fileserver>>,
         inbox.body.cmd \notin {"foeread", "foewrite", "foedata", "foeack"}
  PROVE  FoeInv'
<1>1. inbox.body # FoeAsked
  BY DEF FoeAsked, FoeRead, FoeWrite, FoeData, FoeAck
<1> QED
  BY <1>1, FoeAnswers DEF fileserver

(* What the slave's file server keeps of an open file.                     *)
FilesOK ==
  /\ files.mode = "read" => {"mode", "item", "packet"} \subseteq DOMAIN files
  /\ files.mode = "write" => {"mode", "item", "packet", "data"} \subseteq DOMAIN files

LEMMA FilesInit == Init => FilesOK
BY DEF Init, FoeInit, Closed, FilesOK

LEMMA FilesNext == FilesOK /\ [Next]_vars => FilesOK'
<1> SUFFICES ASSUME FilesOK, [Next]_vars
             PROVE  FilesOK'
  OBVIOUS
<1>1. CASE UNCHANGED files
  BY <1>1 DEF FilesOK
<1>2. CASE FileServer
  <2>1. CASE ServeAck
    BY <2>1 DEF ServeAck, FoeServe, FilesOK, Closed
  <2>2. CASE ServeData
    BY <2>2 DEF ServeData, FoeServe, FilesOK, Closed
  <2>3. CASE \E f \in Items : ServeRead(f) \/ ServeWrite(f)
    BY <2>3 DEF ServeRead, ServeWrite, FoeServe, FilesOK
  <2>4. CASE ServeBusy \/ ServeError
    BY <2>4 DEF ServeBusy, ServeError, FoeServe, FilesOK, Closed
  <2> QED
    BY <1>2, <2>1, <2>2, <2>3, <2>4 DEF FileServer
<1>3. ASSUME NEW function, NEW i, NEW size, Call(function, i, size)
      PROVE  UNCHANGED files
  BY <1>3 DEF Call, Foe, Soe, Eoe, Coe, Map, FOEread, FOEwrite, foe, fileserver
<1>4. ASSUME FoeMaster \/ FoeReturn
      PROVE  UNCHANGED files
  BY <1>4 DEF FoeMaster, FoeRequest, FoeAwaitReply, FoeGiveUp, TakePacket, RefusePacket,
              NextPacket, SameAgain, BusyAtOnce, FoeRefused, FoeReturn, fileserver
<1>5. CASE Master
  BY <1>1, <1>4, <1>5 DEF Master, Returns, MasterWorks, Foe, Soe, Eoe, Coe, Map, Shared, foe,
                          fileserver
<1>6. CASE Outside(Server)
  BY <1>1, <1>2, <1>6 DEF Outside, Server, Foe, Soe, Eoe, Coe, foe, fileserver
<1>7. CASE Outside(Shared(Slave /\ UNCHANGED callvars))
  BY <1>1, <1>7 DEF Outside, Shared, foe, fileserver
<1> QED
  BY <1>1, <1>3, <1>5, <1>6, <1>7 DEF Next, Outside, vars, fileserver

LEMMA FoeServed ==
  ASSUME FoeInv, GeneralOK, FilesOK, Worse, op \in FoeOps, FileServer
  PROVE  FoeInv'
<1>1. ASSUME NEW f \in Items, ServeRead(f)
      PROVE  FoeInv'
  <2>1. /\ inbox.body = FoeRead(f) /\ Take(FoeData(1, Packet(f, 1)))
        /\ files' = [mode |-> "read", item |-> f, packet |-> 1]
        /\ UNCHANGED <<callvars, foevars, busy>>
    BY <1>1 DEF ServeRead, FoeServe
  <2>2. ASSUME inbox.body = FoeAsked
        PROVE  op = "foeread" /\ packet = 0 /\ item = f
    BY <2>1, <2>2 DEF FoeAsked, FoeRead, FoeAck, FoeWrite, FoeData
  <2>3. 0 + 1 = 1
    OBVIOUS
  <2> QED
    BY <2>1, <2>2, <2>3, FoeAnswers DEF FoeOps
<1>2. ASSUME NEW f \in Items, ServeWrite(f)
      PROVE  FoeInv'
  <2>1. /\ inbox.body = FoeWrite(f) /\ Take(FoeAck(0))
        /\ files' = [mode |-> "write", item |-> f, packet |-> 0, data |-> <<>>]
        /\ UNCHANGED <<callvars, foevars, busy>>
    BY <1>2 DEF ServeWrite, FoeServe
  <2>2. ASSUME inbox.body = FoeAsked, op = "foewrite" \/ op = "foeread"
        PROVE  op = "foewrite" /\ packet = 0 /\ item = f
    BY <2>1, <2>2 DEF FoeAsked, FoeRead, FoeAck, FoeWrite, FoeData
  <2>3. FoeAck(0) # FoeBusy
    BY DEF FoeAck, FoeBusy
  <2>4. ASSUME inbox.body = FoeAsked, op = "foewrite", PacketOK
        PROVE  HasAfter'
    <3>1. packet' = 0 /\ moved' = 0 /\ item' = f
      BY <2>1, <2>2, <2>4 DEF PacketOK, foevars, callvars
    <3>2. Bytes(f, 0, 0) = <<>>
      BY BytesNone
    <3> QED
      BY <2>1, <3>1, <3>2 DEF HasAfter
  <2> QED
    BY <2>1, <2>2, <2>3, <2>4, FoeAnswers DEF FoeOps
<1>3. CASE ServeAck
  <2> DEFINE next == files.packet + 1
             final == Len(Packet(files.item, files.packet)) < MaxData
             answer == IF final THEN Nothing ELSE FoeData(next, Packet(files.item, next))
  <2>1. /\ files.mode = "read" /\ inbox.body = FoeAck(files.packet) /\ Take(answer)
        /\ files' = IF final THEN Closed ELSE [files EXCEPT !.packet = next]
        /\ UNCHANGED <<callvars, foevars, busy>>
    BY <1>3 DEF ServeAck, FoeServe
  <2>2. files'.mode = "read" => files'.item = files.item
    BY <2>1 DEF FilesOK, Closed
  <2>3. ASSUME inbox.body = FoeAsked, op = "foeread", FoeReadOK
        PROVE  files.packet = packet /\ packet > 0 /\ files.item = item
    <3>1. packet # 0 /\ files.packet = packet
      BY <2>1, <2>3 DEF FoeAsked, FoeRead, FoeAck
    <3> QED
      BY <2>1, <2>3, <3>1 DEF FoeReadOK
  <2>4. ASSUME answer.cmd = "foedata"
        PROVE  answer = FoeData(next, Packet(files.item, next))
    BY <2>4 DEF Nothing
  <2>5. inbox.body = FoeAsked => op # "foewrite"
    BY <2>1 DEF FoeAsked, FoeWrite, FoeData, FoeAck
  <2> HIDE DEF answer
  <2> QED
    BY <2>1, <2>2, <2>3, <2>4, <2>5, FoeAnswers
<1>4. CASE ServeData
  <2> DEFINE body == inbox.body
             data == files.data \o body.data
             final == Len(body.data) < MaxData
  <2>1. /\ files.mode = "write" /\ body.cmd = "foedata" /\ body.packet = files.packet + 1
        /\ Take(FoeAck(body.packet))
        /\ files' = IF final THEN Closed
                    ELSE [files EXCEPT !.packet = body.packet, !.data = data]
        /\ written' = IF final THEN <<files.item, data>> ELSE written
        /\ UNCHANGED <<callvars, foevars, busy>>
    BY <1>4 DEF ServeData, FoeServe
  <2>2. inbox.body = FoeAsked => op # "foeread"
    BY <2>1 DEF FoeAsked, FoeRead, FoeAck
  <2>3. FoeAck(body.packet) # FoeBusy
    BY DEF FoeAck, FoeBusy
  <2>4. ASSUME body = FoeAsked, op = "foewrite", PacketOK, packet > 0 => HasBefore
        PROVE  HasAfter'
    <3> DEFINE from == moved - segmentdata
    <3>1. packet # 0 /\ packet \in Nat
      BY <2>1, <2>4 DEF FoeAsked, FoeWrite, PacketOK
    <3>2. body = FoeData(packet, Bytes(item, from, segmentdata))
      BY <2>4, <3>1 DEF FoeAsked
    <3>3. body.packet = packet /\ body.data = Bytes(item, from, segmentdata)
      BY <3>2 DEF FoeData
    <3>4. /\ item \in Items /\ segmentdata \in Nat /\ from \in Nat /\ 0 \in Int
          /\ 0 + from = from /\ from + segmentdata = moved
      BY <2>4, <3>1 DEF PacketOK, GeneralOK
    <3>5. files.item = item /\ files.data = Bytes(item, 0, from)
      BY <2>1, <2>4, <3>1 DEF HasBefore
    <3> HIDE DEF from
    <3>6. Bytes(item, 0, from) \o Bytes(item, 0 + from, segmentdata)
            = Bytes(item, 0, from + segmentdata)
      BY <3>4, BytesJoin, Zenon
    <3>7. data = Bytes(item, 0, moved)
      BY <3>3, <3>4, <3>5, <3>6
    <3>8. final <=> segmentdata < MaxData
      <4>1. Len(Bytes(item, from, segmentdata)) = segmentdata
        <5>1. from \in Int
          BY <3>4
        <5> QED
          BY <3>4, <5>1, BytesAre, Zenon
      <4> QED
        BY <3>3, <4>1
    <3>9. packet' = packet /\ segmentdata' = segmentdata /\ moved' = moved /\ item' = item
      BY <2>1 DEF callvars, foevars
    <3>10. packet > 0
      BY <3>1
    <3> HIDE DEF data, final
    <3>11. CASE final
      <4>1. written' = <<item, Bytes(item, 0, moved)>>
        BY <2>1, <3>5, <3>7, <3>11
      <4> QED
        BY <3>8, <3>9, <3>10, <3>11, <4>1 DEF HasAfter, Bytes
    <3>12. CASE ~final
      <4>1. files' = [files EXCEPT !.packet = body.packet, !.data = data]
        BY <2>1, <3>12
      <4>2. files'.item = item /\ files'.packet = packet /\ files'.data = Bytes(item, 0, moved)
        BY <2>1, <3>3, <3>5, <3>7, <4>1 DEF FilesOK
      <4> QED
        BY <3>8, <3>9, <3>10, <3>12, <4>2 DEF HasAfter, Bytes
    <3> QED
      BY <3>11, <3>12
  <2> HIDE DEF body
  <2> QED
    BY <2>1, <2>2, <2>3, <2>4, FoeAnswers DEF body
<1>5. CASE ServeBusy
  <2>1. /\ inbox.body.cmd \in {"foewrite", "foedata"} /\ Take(FoeBusy)
        /\ files' = files /\ UNCHANGED <<callvars, foevars>>
        /\ busy' = [all |-> busy.all + 1,
                    ends |-> busy.ends \/ inbox.body.cmd = "foewrite"
                               \/ (inbox.body.cmd = "foedata" /\ inbox.body.data = <<>>)]
    BY <1>5 DEF ServeBusy, FoeServe
  <2>2. inbox.body = FoeAsked => op # "foeread"
    BY <2>1 DEF FoeAsked, FoeRead, FoeAck
  <2>3. FoeBusy # FoeAck(packet)
    BY DEF FoeAck, FoeBusy
  <2>4. busy'.ends <=> \/ busy.ends \/ inbox.body.cmd = "foewrite"
                       \/ (inbox.body.cmd = "foedata" /\ inbox.body.data = <<>>)
    BY <2>1, Zenon
  <2>5. HasBefore => HasBefore'
    BY <2>1 DEF HasBefore, callvars, foevars
  <2>6. ASSUME inbox.body = FoeAsked, op = "foewrite", PacketOK, packet = 0 \/ segmentdata = 0
        PROVE  busy'.ends
    <3>1. CASE packet = 0
      <4>1. inbox.body.cmd = "foewrite"
        BY <2>6, <3>1 DEF FoeAsked, FoeWrite
      <4> QED
        BY <2>4, <4>1
    <3>2. CASE packet # 0
      <4>1. inbox.body = FoeData(packet, Bytes(item, moved - segmentdata, segmentdata))
        BY <2>6, <3>2 DEF FoeAsked
      <4>2. Bytes(item, moved - segmentdata, segmentdata) = <<>>
        <5>1. item \in Items /\ moved - segmentdata \in Int /\ segmentdata = 0
          BY <2>6, <3>2 DEF PacketOK, GeneralOK
        <5> QED
          BY <5>1, BytesNone
      <4>3. inbox.body.cmd = "foedata" /\ inbox.body.data = <<>>
        BY <4>1, <4>2 DEF FoeData
      <4> QED
        BY <2>4, <4>3
    <3> QED
      BY <3>1, <3>2
  <2> QED
    BY <2>1, <2>2, <2>3, <2>4, <2>5, <2>6, FoeAnswers
<1>6. CASE ServeError
  <2>1. Take(FoeError) /\ files'.mode = "closed" /\ UNCHANGED <<callvars, foevars, busy>>
    BY <1>6 DEF ServeError, FoeServe, Closed
  <2>2. FoeError # FoeBusy /\ FoeError # FoeAck(packet) /\ FoeError.cmd # "foedata"
    BY DEF FoeError, FoeBusy, FoeAck
  <2> QED
    BY <2>1, <2>2, FoeAnswers
<1> QED
  BY <1>1, <1>2, <1>3, <1>4, <1>5, <1>6 DEF FileServer

-----------------------------------------------------------------------------
(* FoE: a call begins, and what others do.                                 *)
LEMMA FoeBegins ==
  ASSUME FoeInv, GeneralOK, MaxFaults > 0, NEW function, NEW i \in Items, NEW size, NEW first,
         Begin(function, i, size, first), first # "idle", UNCHANGED <<foevars, fileserver>>,
         function \in FoeOps => first = "drain"
  PROVE  FoeInv'
<1>1. /\ pc = "idle" /\ pc' = first /\ op' = function /\ item' = i
      /\ UNCHANGED <<packet, segmentdata, dofinalzero, files, written, busy, moved, got, more,
                     inbox, work, silent>>
  BY DEF Begin, Goto, slavembx, foevars, fileserver
<1>2. /\ op \notin FoeOps /\ packet = 0 /\ segmentdata = 0 /\ dofinalzero = TRUE
      /\ moved = 0 /\ got = <<>> /\ more = TRUE
  BY <1>1 DEF FoeInv, FoeLocals, FoeOps
<1>3. CASE function \notin FoeOps
  BY <1>1, <1>2, <1>3, FoeElsewhere DEF FoeInv, FoeLocals
<1>4. CASE function \in FoeOps
  <2>1. pc' = "drain"
    BY <1>1, <1>4
  <2>2. FoeLocals'
    BY <1>1, <1>2, <1>4, <2>1 DEF FoeLocals, UnderWay, FoeOps
  <2>3. ASSUME Calm'
        PROVE  FoeFlight'
    <3>1. inbox' = Nothing /\ work' = Nothing
      BY <1>1, <2>3, BeginGeneral DEF Calm
    <3> QED
      BY <2>1, <3>1, FoeKinds DEF FoeFlight, Posted
  <2>4. \A m : ~InFlight(m)'
    BY <2>1 DEF InFlight
  <2>5. FoeReadOK'
    <3>1. packet' = 0 /\ packet' * MaxData = 0 /\ Bytes(item', 0, 0) = <<>> /\ Size[item'] >= 0
      BY <1>1, <1>2, Sizes, BytesNone
    <3> QED
      BY <1>1, <1>2, <2>4, <3>1 DEF FoeReadOK
  <2>6. FoeWriteOK'
    BY <1>1, <1>2, <2>4 DEF FoeWriteOK, PacketOK
  <2> QED
    BY <2>1, <2>2, <2>3, <2>5, <2>6 DEF FoeInv, CalmCall
<1> QED
  BY <1>3, <1>4

(* The master in the calls of other protocols.                             *)
LEMMA FoeOutside ==
  ASSUME FoeInv, SoeMaster \/ EoeMaster \/ InfoMaster \/ PdoMaster
  PROVE  op \notin FoeOps /\ op' = op /\ pc' # "idle"
<1>1. op \in FoeOps => pc \notin {"draindrop", "endentry", "sdoread"}
  BY DEF FoeInv, FoeLocals, UnderWay, Over, Posted
<1>2. CASE SoeMaster
  BY <1>2 DEF SoeMaster, SoeAwaitReply, ReadIDN, CopyFragment, SoeReadFails, WriteFragment,
              FragmentTaken, FragmentStuck, WriteAnswered, WriteGoesOn, FoeOps, AwaitReply,
              Conclude, Ask, Post, GiveUp, Goto, callvars
<1>3. CASE EoeMaster
  BY <1>3 DEF EoeMaster, SendFragment, FragmentSent, ReceiveFragment, ReceiveRefused,
              ReadFragment, ReadRefused, AskIp, AwaitIp, IpAnswered, EoeGiveUp, EoeOps, FoeOps,
              AwaitReply, Conclude, Ask, Post, GiveUp, Goto, callvars
<1>4. CASE InfoMaster
  <2>1. CASE DrainAndDrop \/ AskInfo \/ PdoSent \/ AwaitInfo \/ InfoFails \/ InfoRefused \/ EndEntry
    BY <1>1, <2>1 DEF DrainAndDrop, AskInfo, NoMailbox, PdoSent, AwaitInfo, InfoFails,
                      InfoRefused, EndEntry, AtEnd, InfoCalls, Receiving, FoeOps, AwaitReply,
                      Conclude, Goto, callvars
  <2>2. CASE TakeTxPdo \/ TakeDescription \/ TakeEntry
    BY <2>2 DEF TakeTxPdo, TakeDescription, TakeEntry, Gets, AtEnd, FoeOps, Goto
  <2>3. CASE TakeIndices
    <3>1. \E contents, label :
            Gets("odlist", contents, label) /\ label \in {"sent", "finish"}
      BY <2>3 DEF TakeIndices
    <3> QED
      BY <3>1 DEF Gets, FoeOps, Goto
  <2> QED
    BY <1>4, <2>1, <2>2, <2>3 DEF InfoMaster
<1>5. CASE PdoMaster
  <2>1. CASE EndOfMap
    BY <1>1, <2>1 DEF EndOfMap, Conclude, Goto
  <2>2. CASE ~EndOfMap
    BY <1>1, <1>5, <2>2, PdoSteps DEF Reads
  <2> QED
    BY <2>1, <2>2
<1> QED
  BY <1>2, <1>3, <1>4, <1>5

LEMMA FoeWorks ==
  ASSUME FoeInv, GeneralOK, MasterWorks
  PROVE  FoeInv'
<1>1. Worse
  BY MasterWorse
<1>2. CASE Foe(FoeMaster)
  BY <1>1, <1>2, FoeMasterKeeps DEF Foe
<1>3. CASE Soe(SoeMaster) \/ Eoe(EoeMaster) \/ Coe(InfoMaster) \/ Map(PdoMaster)
  <2>1. (SoeMaster \/ EoeMaster \/ InfoMaster \/ PdoMaster) /\ UNCHANGED foevars
    BY <1>3 DEF Soe, Eoe, Coe, Map, foe
  <2> QED
    BY <2>1, FoeOutside, FoeElsewhere
<1>4. CASE Shared(Drain \/ Finish) \/ Shared(Transport /\ UNCHANGED callvars)
  <2>1. UNCHANGED <<foevars, fileserver>>
        /\ (Drain \/ Finish \/ (Transport /\ UNCHANGED callvars))
    BY <1>4 DEF Shared, foe
  <2>2. CASE op \in FoeOps
    BY <1>1, <2>1, <2>2, FoeDrain, FoeFinish, FoeTransport
  <2>3. CASE op \notin FoeOps
    <3>1. op' = op /\ pc' # "idle"
      BY <2>1 DEF Drain, Finish, Transport, FirstTry, WaitEmpty, WaitEmptyFails, Retry, Receive,
                  ReceiveLoses, ReceiveTimesOut, Goto, callvars
    <3> QED
      BY <2>1, <2>3, <3>1, FoeElsewhere
  <2> QED
    BY <2>2, <2>3
<1> QED
  BY <1>2, <1>3, <1>4 DEF MasterWorks

LEMMA FoeReturned ==
  ASSUME FoeInv, Returns
  PROVE  FoeInv'
<1>1. Return /\ (FoeReturn \/ (UNCHANGED foevars /\ op \notin FoeOps))
  BY DEF Returns, Foe, Soe, Eoe, Coe, Map, FoeReturn, SoeReturn, EoeReturn, InfoReturn, PdoReturn,
         FoeOps, EoeOps, InfoCalls, Receiving, PdoCalls, foe
<1> QED
  BY <1>1, FoeReturns

(* What the other protocols of the slave do: they answer a request of      *)
(* theirs, or send or forget what is left of something.                    *)
LEMMA OthersServe ==
  ASSUME Drive \/ Stack \/ InfoServer
  PROVE  /\ UNCHANGED <<pc, mailboxes, outbox, silent, callvars>>
         /\ \/ /\ inbox.body.cmd \notin {"foeread", "foewrite", "foedata", "foeack"}
               /\ \E answer : Take(answer)
            \/ UNCHANGED <<inbox, lastcnt>> /\ (~IsFoe(work') \/ work' = work)
<1>1. CASE Drive
  <2>1. CASE DropFragments
    BY <2>1 DEF DropFragments, mbxvars, slavembx
  <2>2. CASE SendRest
    BY <2>2 DEF SendRest, SoeResponse, SoeReadResponse, IsFoe, FoeReplies
  <2>3. ASSUME NEW request, NEW answer, SoeServe(request, answer),
               request.cmd \in {"soereadreq", "soewritereq", "soefragment"}
        PROVE  /\ UNCHANGED <<pc, mailboxes, outbox, silent, callvars>>
               /\ inbox.body.cmd \notin {"foeread", "foewrite", "foedata", "foeack"}
               /\ Take(answer)
    BY <2>3 DEF SoeServe, Take
  <2>4. ASSUME NEW i \in Items, ServeReadIDN(i)
        PROVE  SoeServe(SoeReadRequest(i), SoeResponse(i, 0))
               /\ SoeReadRequest(i).cmd = "soereadreq"
    BY <2>4 DEF ServeReadIDN, SoeReadRequest
  <2>5. ASSUME ServeFragment \/ ServeWriteIDN \/ ServeSoeError
        PROVE  /\ \E answer : SoeServe(inbox.body, answer)
               /\ inbox.body.cmd \in {"soereadreq", "soewritereq", "soefragment"}
    BY <2>5 DEF ServeFragment, ServeWriteIDN, ServeSoeError
  <2> QED
    BY <1>1, <2>1, <2>2, <2>3, <2>4, <2>5 DEF Drive
<1>2. CASE Stack
  <2>1. CASE \E i \in Items : BeginFrame(i)
    BY <2>1 DEF BeginFrame, mbxvars, slavembx
  <2>2. CASE SendFrame
    BY <2>2 DEF SendFrame, Fragment, IsFoe, FoeReplies
  <2>3. ASSUME TakeFragment \/ SetSlaveIp \/ TellSlaveIp \/ RefuseIp
        PROVE  /\ \E answer : EoeServe(answer)
               /\ inbox.body.cmd \in {"eoe", "eoesetip", "eoegetip"}
    <3>1. CASE TakeFragment
      <4>1. EoeServe(Nothing) /\ inbox.body.cmd = "eoe"
        BY <3>1 DEF TakeFragment
      <4> QED
        BY <4>1
    <3>2. CASE SetSlaveIp \/ TellSlaveIp \/ RefuseIp
      BY <3>2 DEF SetSlaveIp, TellSlaveIp, RefuseIp, EoeGetIp
    <3> QED
      BY <2>3, <3>1, <3>2
  <2>4. ASSUME NEW answer, EoeServe(answer)
        PROVE  UNCHANGED <<pc, mailboxes, outbox, silent, callvars>> /\ Take(answer)
    BY <2>4 DEF EoeServe, Take
  <2> QED
    BY <1>2, <2>1, <2>2, <2>3, <2>4 DEF Stack
<1>3. CASE InfoServer
  <2>1. CASE GiveUpList
    BY <2>1 DEF GiveUpList, mbxvars, slavembx
  <2>2. CASE SendList
    BY <2>2 DEF SendList, Listed, ListFragment, IsFoe, FoeReplies
  <2>3. ASSUME NEW request, NEW answer, ServeInfo(request, answer),
               request.cmd \in {"rxpdo", "txpdoreq", "odlistreq", "odreq", "oereq"}
        PROVE  /\ UNCHANGED <<pc, mailboxes, outbox, silent, callvars>>
               /\ inbox.body.cmd \notin {"foeread", "foewrite", "foedata", "foeack"}
               /\ Take(answer)
    BY <2>3 DEF ServeInfo, Take
  <2>4. ASSUME NEW i \in Items, ServeList(i) \/ ServeRxPdo(i) \/ ServeObject(i)
        PROVE  \E request, answer :
                 /\ ServeInfo(request, answer)
                 /\ request.cmd \in {"rxpdo", "txpdoreq", "odlistreq", "odreq", "oereq"}
    <3>1. /\ ListRequest(i).cmd = "odlistreq" /\ RxPdo(i).cmd = "rxpdo"
          /\ TxPdoRequest(i).cmd = "txpdoreq" /\ DescriptionRequest(i).cmd = "odreq"
          /\ \A sub : EntryRequest(i, sub).cmd = "oereq"
      BY DEF ListRequest, RxPdo, TxPdoRequest, DescriptionRequest, EntryRequest
    <3>2. \/ ServeInfo(ListRequest(i), Listed(i, 0))
          \/ ServeInfo(RxPdo(i), Nothing)
          \/ ServeInfo(TxPdoRequest(i), TxPdo(i))
          \/ ServeInfo(DescriptionRequest(i), Description(i))
          \/ \E sub : ServeInfo(EntryRequest(i, sub), Entry(i, sub))
      BY <2>4 DEF ServeList, ServeRxPdo, ServeObject
    <3> QED
      BY <3>1, <3>2
  <2>5. ASSUME ServeInfoError
        PROVE  /\ ServeInfo(inbox.body, InfoError)
               /\ inbox.body.cmd \in {"txpdoreq", "odlistreq", "odreq", "oereq"}
    BY <2>5 DEF ServeInfoError
  <2> QED
    BY <1>3, <2>1, <2>2, <2>3, <2>4, <2>5 DEF InfoServer
<1> QED
  BY <1>1, <1>2, <1>3

LEMMA FoeServerWorks ==
  ASSUME FoeInv, GeneralOK, FilesOK, Server \/ Shared(Slave /\ UNCHANGED callvars)
  PROVE  FoeInv'
<1>1. Worse
  BY ServerWorse DEF Shared
<1>2. CASE Foe(FileServer)
  <2>1. CASE op \notin FoeOps
    <3>1. UNCHANGED <<pc, callvars, foevars>>
      BY <1>2 DEF Foe, FileServer, ServeRead, ServeWrite, ServeAck, ServeData, ServeBusy,
                  ServeError, FoeServe, Take
    <3> QED
      BY <2>1, <3>1, FoeElsewhere DEF callvars, FoeInv, FoeLocals
  <2>2. CASE op \in FoeOps
    BY <1>1, <1>2, <2>2, FoeServed DEF Foe
  <2> QED
    BY <2>1, <2>2
<1>3. CASE Shared(Slave /\ UNCHANGED callvars)
  <2>1. UNCHANGED <<pc, callvars, foevars, fileserver>> /\ Slave
    BY <1>3 DEF Shared, foe, Slave, TakeCopy, PlaceReply, FallSilent
  <2>2. CASE op \notin FoeOps
    BY <2>1, <2>2, FoeElsewhere DEF callvars, FoeInv, FoeLocals
  <2>3. CASE op \in FoeOps
    BY <1>1, <2>1, <2>3, FoeSlave
  <2> QED
    BY <2>2, <2>3
<1>4. CASE Soe(Drive) \/ Eoe(Stack) \/ Coe(InfoServer)
  <2>1. (Drive \/ Stack \/ InfoServer) /\ UNCHANGED <<foevars, fileserver>>
    BY <1>4 DEF Soe, Eoe, Coe, foe
  <2>2. /\ UNCHANGED <<pc, mailboxes, outbox, silent, callvars>>
        /\ \/ /\ inbox.body.cmd \notin {"foeread", "foewrite", "foedata", "foeack"}
              /\ \E answer : Take(answer)
           \/ UNCHANGED <<inbox, lastcnt>> /\ (~IsFoe(work') \/ work' = work)
    BY <2>1, OthersServe
  <2>3. CASE op \notin FoeOps
    BY <2>1, <2>2, <2>3, FoeElsewhere DEF callvars, FoeInv, FoeLocals
  <2>4. CASE op \in FoeOps
    BY <1>1, <2>1, <2>2, <2>4, FoeOthersTake, FoeUnasked
  <2> QED
    BY <2>3, <2>4
<1> QED
  BY <1>2, <1>3, <1>4 DEF Server

-----------------------------------------------------------------------------
LEMMA FoeInitially == Init => FoeInv /\ GeneralOK
BY DEF Init, MbxInit, CallInit, FoeInit, FoeInv, FoeLocals, FoeOps, Calm, CalmCall, GeneralOK

LEMMA FoeNext ==
  ASSUME MaxFaults > 0, FoeInv, GeneralOK, FilesOK, [Next]_vars
  PROVE  FoeInv'
<1>1. ASSUME NEW function \in application, NEW i \in Items, NEW size \in Rooms[i],
             Outside(Call(function, i, size))
      PROVE  FoeInv'
  BY <1>1, CallBegins, FoeBegins DEF Outside, FoeOps
<1>2. CASE Master
  BY <1>2, FoeWorks, FoeReturned DEF Master
<1>3. CASE Outside(Server) \/ Outside(Shared(Slave /\ UNCHANGED callvars))
  BY <1>3, FoeServerWorks DEF Outside
<1>4. CASE UNCHANGED vars
  <2>1. UNCHANGED <<pc, mailboxes, slavembx, inbox, outbox, work, lastcnt, silent, faults,
                    callvars, op, item, foevars, fileserver>>
    BY <1>4 DEF vars, mbxvars, callvars, slavembx
  <2>2. Worse
    BY <2>1, FaultsAdd
  <2>3. CASE op \notin FoeOps
    BY <2>1, <2>3, FoeElsewhere DEF callvars, FoeInv, FoeLocals
  <2>4. CASE op \in FoeOps
    BY <2>1, <2>2, <2>4, FoeUnasked
  <2> QED
    BY <2>3, <2>4
<1> QED
  BY <1>1, <1>2, <1>3, <1>4 DEF Next

(* Whatever is lost and however often the slave is busy, and whatever the  *)
(* calls of other protocols have left behind: a file that is read is whole *)
(* and in order, and one that is written is closed whole, unless a reply   *)
(* was late, or the slave was busy at the request or at the empty packet   *)
(* at the end.  (With MaxFaults = 0 the history would not note a late      *)
(* reply.)                                                                 *)
THEOREM FilesAreWhole ==
  ASSUME MaxFaults > 0
  PROVE  Spec => []FoeIsWhole
<1>1. FoeInv => FoeIsWhole
  BY DEF FoeInv, FoeIsWhole, Calm, FoeOps, Without, Succeeded, FoeResult
<1>2. FoeInv /\ GeneralOK /\ FilesOK /\ [Next]_vars => (FoeInv /\ GeneralOK /\ FilesOK)'
  BY FoeNext, GeneralNext, FilesNext
<1> QED
  BY FoeInitially, FilesInit, <1>1, <1>2, PTL DEF Spec

-----------------------------------------------------------------------------
(* CoE: lists, descriptions, entries and PDOs.  What belongs to a call in  *)
(* which nothing is late and the pool was never empty: the request and     *)
(* copies of it, and what the slave has answered, which may be one         *)
(* fragment of a list after the other.                                     *)
IsInfo(m) == m.cmd \in {"txpdo", "odlist", "od", "oe"}

InfoUnder == {"draindrop", "next"} \cup Posted \cup {"sent", "receive", "received"}
InfoOver == {"unsent", "unreceived", "endentry", "finish", "done"}

InfoCalm == op \in Receiving /\ faults["late"] = 0 /\ faults["pool"] = 0
InfoCall == InfoCalm /\ pc \in InfoUnder

NoInfo == ~IsInfo(work) /\ ~IsInfo(outbox) /\ listing = NoListing

(* The fragments of the list that the caller is about to take.             *)
One(m) == IF m.cmd = "odlist" THEN 1 ELSE 0
InHand == IF pc = "received" THEN One(mbxin) ELSE 0

(* The slave takes a request once.                                         *)
InfoFlight ==
  /\ pc = "draindrop" => inbox = Nothing /\ ~IsInfo(work) /\ listing = NoListing
  /\ pc \in {"next", "try"} => inbox = Nothing /\ NoInfo
  /\ pc \in Posted => mbxout = [cnt |-> mbxcnt, body |-> Body]
  /\ inbox # Nothing => inbox = [cnt |-> mbxcnt, body |-> Body]
  /\ op = "odlist" /\ lastcnt # mbxcnt /\ (inbox # Nothing \/ pc \in Posted) =>
       NoInfo /\ moved = 0 /\ InHand = 0

ReplyIs(m) ==
  /\ op = "txpdo" /\ m.cmd = "txpdo" => m = TxPdo(item)
  /\ op = "oddesc" /\ m.cmd = "od" => m = Description(item)
  /\ op = "readoe" /\ m.cmd = "oe" => m = Entry(item, moved)

RepliesOK ==
  /\ pc # "draindrop" /\ ~silent => ReplyIs(work) /\ ReplyIs(outbox)
  /\ pc = "received" => ReplyIs(mbxin)

(* The fragments of a list that are under way follow the ones taken.       *)
ListReply(m, n) ==
  m.cmd = "odlist" => m = Listed(item, n * MaxData) /\ n * MaxData <= Size[item]

ListFlight ==
  /\ ListReply(outbox, moved + InHand)
  /\ ListReply(work, moved + InHand + One(outbox))
  /\ listing # NoListing =>
       LET n == moved + InHand + One(outbox) + One(work)
       IN  listing = [item |-> item, from |-> n * MaxData] /\ n * MaxData <= Size[item]

ListFlow ==
  /\ pc \in {"draindrop", "next"} \cup Posted => moved = 0
  /\ pc = "received" => ListReply(mbxin, moved)
  /\ pc # "draindrop" /\ ~silent => ListFlight

InfoData ==
  /\ ~silent => InfoFlight
  /\ RepliesOK
  /\ op = "odlist" => ListFlow

(* The indices in the first n fragments; the first word of a list is none. *)
Seen(n) == IF n = 0 THEN 0 ELSE Least(n * MaxData, Size[item] + 1) - 1

Entries == [at : Nat, is : Items \X Nat]

EntriesBelow(n) ==
  /\ got \in Seq(Entries)
  /\ \A k \in DOMAIN got : got[k].is = <<item, got[k].at>> /\ got[k].at < n
  /\ \A k \in 2 .. Len(got) : got[k - 1].at < got[k].at

InfoGot ==
  /\ op = "odlist" => moved < MaxFragments /\ got = Bytes(item, 0, Least(room, Seen(moved)))
  /\ op = "readoe" => EntriesBelow(moved)

InfoResult ==
  /\ op = "readoe" => EntriesBelow(moved + 1)
  /\ pc \in {"finish", "done"} /\ wkc =>
       /\ op = "odlist" =>
            got = Bytes(item, 0, Least(Least(Size[item], room), MaxFragments * MaxData - 1))
       /\ op = "oddesc" => got = <<item>>
       /\ op = "txpdo" => got = Pdo(item)

InfoInv ==
  /\ op \in Receiving => pc \in InfoUnder \cup InfoOver /\ moved \in Nat
  /\ op = "odlist" => room \in Nat
  /\ InfoCall => InfoData /\ InfoGot
  /\ InfoCalm /\ pc \in InfoOver => InfoResult

-----------------------------------------------------------------------------
LEMMA InfoPhases ==
  /\ Posted \cup {"draindrop", "next", "sent", "receive", "received"} \subseteq InfoUnder
  /\ InfoUnder \cap InfoOver = {} /\ {"idle", "drain"} \cap (InfoUnder \cup InfoOver) = {}
  /\ Posted \cap {"draindrop", "next", "sent", "receive", "received"} = {}
BY DEF Posted, InfoUnder, InfoOver

LEMMA InfoKinds ==
  /\ ~IsInfo(Nothing) /\ ~IsInfo(InfoError) /\ One(Nothing) = 0 /\ One(InfoError) = 0
  /\ \A m : m.cmd = "odlist" => IsInfo(m)
  /\ \A m : ~IsInfo(m) => m.cmd # "odlist" /\ One(m) = 0 /\ ReplyIs(m)
  /\ \A m, n : ~IsInfo(m) => ListReply(m, n)
BY DEF IsInfo, Nothing, InfoError, One, ReplyIs, ListReply

LEMMA BodyStays == UNCHANGED <<op, item, moved>> => Body' = Body
BY DEF Body, RxPdo, Pdo, Bytes, TxPdoRequest, ListRequest, DescriptionRequest, EntryRequest

LEMMA BodyIs ==
  /\ op = "txpdo" => Body = TxPdoRequest(item)
  /\ op = "odlist" => Body = ListRequest(item)
  /\ op = "oddesc" => Body = DescriptionRequest(item)
  /\ op = "readoe" => Body = EntryRequest(item, moved)
BY DEF Body

LEMMA RepliesStay ==
  ASSUME UNCHANGED <<op, item, moved>>
  PROVE  \A m : ReplyIs(m) => ReplyIs(m)'
BY DEF ReplyIs, TxPdo, Pdo, Bytes, Description, Entry

LEMMA EntriesStay ==
  ASSUME UNCHANGED <<item, got>>, NEW n
  PROVE  EntriesBelow(n) => EntriesBelow(n)'
BY DEF EntriesBelow

LEMMA EntriesBelowMore ==
  ASSUME NEW n \in Nat, EntriesBelow(n)
  PROVE  EntriesBelow(n + 1)
<1>1. ASSUME NEW k \in DOMAIN got
      PROVE  got[k].at \in Nat
  <2>1. got[k] \in Entries
    BY <1>1 DEF EntriesBelow
  <2> QED
    BY <2>1 DEF Entries
<1> QED
  BY <1>1 DEF EntriesBelow

LEMMA InfoCalmBefore ==
  ASSUME GeneralOK, Worse, op' = op, InfoCalm'
  PROVE  InfoCalm
<1>1. {"late", "pool"} \subseteq Kinds
  BY DEF Kinds
<1> QED
  BY <1>1 DEF GeneralOK, Worse, InfoCalm

(* Steps that leave the results where they are.                            *)
LEMMA InfoStays ==
  ASSUME InfoInv, GeneralOK, Worse, op \in Receiving, UNCHANGED <<op, item, room, moved, got>>,
         pc' \in InfoUnder \cup InfoOver,
         pc' \in InfoUnder => pc \in InfoUnder,
         pc' \in {"finish", "done"} /\ wkc' => pc \in {"finish", "done"} /\ wkc,
         InfoCall /\ InfoData /\ InfoCall' => InfoData'
  PROVE  InfoInv'
<1>1. InfoCalm' => InfoCalm
  BY InfoCalmBefore
<1>2. moved \in Nat
  BY DEF InfoInv
<1>3. InfoCall' => InfoCall
  BY <1>1 DEF InfoCall
<1>4. ASSUME InfoCall'
      PROVE  InfoGot'
  <2>1. InfoGot
    BY <1>3, <1>4 DEF InfoInv
  <2>2. EntriesBelow(moved) => EntriesBelow(moved)'
    BY DEF EntriesBelow
  <2> QED
    BY <2>1, <2>2 DEF InfoGot, Seen, Bytes
<1>5. ASSUME InfoCalm', pc' \in InfoOver
      PROVE  InfoResult'
  <2>1. op = "readoe" => EntriesBelow(moved + 1)
    <3>1. CASE pc \in InfoUnder
      <4>1. op = "readoe" => EntriesBelow(moved)
        BY <1>1, <1>5, <3>1 DEF InfoInv, InfoCall, InfoGot
      <4> QED
        BY <1>2, <4>1, EntriesBelowMore
    <3>2. CASE pc \in InfoOver
      BY <1>1, <1>5, <3>2 DEF InfoInv, InfoResult
    <3> QED
      BY <3>1, <3>2 DEF InfoInv
  <2>2. EntriesBelow(moved + 1) => EntriesBelow(moved + 1)'
    BY DEF EntriesBelow
  <2>3. pc' \in {"finish", "done"} /\ wkc' => InfoResult
    BY <1>1, <1>5 DEF InfoInv, InfoOver
  <2> QED
    BY <2>1, <2>2, <2>3 DEF InfoResult, Bytes, Pdo
<1> QED
  BY <1>2, <1>3, <1>4, <1>5 DEF InfoInv

LEMMA ListFlightStays ==
  ASSUME ListFlight, UNCHANGED <<item, moved, work, outbox, listing>>, InHand' = InHand
  PROVE  ListFlight'
BY DEF ListFlight, ListReply, One, Listed, ListFragment, Words, Content, Bytes, Least

(* On its way to the slave a request meets no answer but to its copies.    *)
LEMMA InfoPosted ==
  ASSUME InfoInv, GeneralOK, Worse, op \in Receiving, pc \in Posted,
         pc' \in Posted \cup {"sent", "unsent"}, pc' # "try",
         pc' \in Posted => mbxout' = mbxout,
         inbox' = inbox \/ inbox' = mbxout,
         UNCHANGED <<callvars, listing, mbxin, mbxcnt, work, outbox, lastcnt, silent>>
  PROVE  InfoInv'
<1>1. UNCHANGED <<op, item, room, moved, got, wkc>>
  BY DEF callvars
<1>2. pc \in InfoUnder /\ pc' \in InfoUnder \cup InfoOver /\ pc' \notin {"finish", "done"}
  BY DEF Posted, InfoUnder, InfoOver
<1>3. ASSUME InfoCall, InfoData, InfoCall'
      PROVE  InfoData'
  <2>1. pc' \notin {"draindrop", "next", "try", "received"} /\ pc \notin {"draindrop", "received"}
    BY <1>3, InfoPhases DEF InfoCall, InfoUnder, Posted
  <2>2. InHand = 0 /\ InHand' = 0
    BY <2>1 DEF InHand
  <2>3. RepliesOK'
    BY <1>1, <1>3, <2>1, RepliesStay DEF InfoData, RepliesOK, ReplyIs, TxPdo, Pdo, Bytes, Description, Entry
  <2>4. op = "odlist" => ListFlow'
    BY <1>1, <1>3, <2>1, <2>2, ListFlightStays DEF InfoData, ListFlow
  <2>5. ASSUME ~silent
        PROVE  InfoFlight'
    <3>1. InfoFlight /\ Body' = Body
      BY <1>1, <1>3, <2>5, BodyStays DEF InfoData
    <3>2. NoInfo => NoInfo'
      BY DEF NoInfo, IsInfo
    <3> QED
      BY <1>1, <2>1, <2>2, <3>1, <3>2 DEF InfoFlight
  <2> QED
    BY <1>1, <2>3, <2>4, <2>5 DEF InfoData
<1> QED
  BY <1>1, <1>2, <1>3, InfoStays

LEMMA InfoTransport ==
  ASSUME InfoInv, GeneralOK, Worse, op \in Receiving, Transport, UNCHANGED <<callvars, infovars>>
  PROVE  InfoInv'
<1>1. UNCHANGED <<op, item, room, moved, got, wkc, listing>>
  BY DEF callvars, infovars
<1>2. CASE FirstTry \/ WaitEmpty \/ WaitEmptyFails \/ Retry
  <2>1. /\ pc \in Posted /\ pc' \in Posted \cup {"sent", "unsent"} /\ pc' # "try"
        /\ pc' \in Posted => mbxout' = mbxout
        /\ inbox' = inbox \/ inbox' = mbxout
        /\ UNCHANGED <<mbxin, mbxcnt, work, outbox, lastcnt, silent>>
    BY <1>2 DEF FirstTry, WaitEmpty, WaitEmptyFails, Retry, Posted, mailboxes, slavembx
  <2> QED
    BY <1>1, <2>1, InfoPosted
<1>3. CASE Receive
  <2>1. /\ pc = "receive" /\ pc' = "received" /\ mbxin' = outbox /\ outbox' = Nothing /\ ~silent
        /\ UNCHANGED <<mbxout, mbxcnt, inbox, work, lastcnt, silent>>
    BY <1>3 DEF Receive
  <2>2. pc \in InfoUnder /\ pc' \in InfoUnder /\ pc' \notin {"finish", "done"}
        /\ pc \notin Posted /\ pc' \notin Posted
    BY <2>1, InfoPhases
  <2>3. ASSUME InfoCall, InfoData
        PROVE  InfoData'
    <3>1. InHand = 0 /\ InHand' = One(outbox) /\ One(outbox') = 0
      BY <2>1, InfoKinds DEF InHand, One, Nothing
    <3>2. RepliesOK'
      BY <1>1, <2>1, <2>3, InfoKinds DEF InfoData, RepliesOK, ReplyIs, TxPdo, Pdo, Bytes,
                                         Description, Entry, Nothing
    <3>3. ASSUME op = "odlist"
          PROVE  ListFlow'
      <4>1. ListFlight
        BY <2>1, <2>3, <3>3 DEF InfoData, ListFlow
      <4>2. moved \in Nat /\ One(outbox) \in {0, 1} /\ One(work) \in {0, 1}
        BY <3>3 DEF InfoInv, Receiving, One
      <4>3. moved + InHand = moved /\ moved + InHand + One(outbox) = moved + One(outbox)
        BY <3>1, <4>2
      <4>4. ListReply(outbox, moved) /\ ListReply(work, moved + One(outbox))
        BY <4>1, <4>3 DEF ListFlight
      <4>5. ListReply(mbxin, moved)'
        BY <1>1, <2>1, <4>4 DEF ListReply, Listed, ListFragment, Words, Content, Bytes, Least
      <4>6. ListReply(outbox, moved + InHand)'
        BY <2>1 DEF ListReply, Nothing
      <4>7. moved' + InHand' + One(outbox') = moved + One(outbox)
        BY <1>1, <3>1, <4>2
      <4>8. ListReply(work, moved + InHand + One(outbox))'
        BY <1>1, <2>1, <4>4, <4>7 DEF ListReply, Listed, ListFragment, Words, Content, Bytes,
                                      Least, One
      <4>9. One(work') = One(work)
        BY <2>1 DEF One
      <4> QED
        BY <1>1, <2>1, <2>2, <4>1, <4>3, <4>5, <4>6, <4>7, <4>8, <4>9 DEF ListFlow, ListFlight, One
    <3>4. InfoFlight'
      <4>1. InfoFlight /\ Body' = Body
        BY <1>1, <2>1, <2>3, BodyStays DEF InfoData
      <4>2. NoInfo => NoInfo' /\ One(outbox) = 0
        BY <1>1, <2>1, InfoKinds DEF NoInfo, IsInfo, Nothing, One
      <4> QED
        BY <1>1, <2>1, <2>2, <3>1, <4>1, <4>2 DEF InfoFlight
    <3> QED
      BY <1>1, <2>1, <3>2, <3>3, <3>4 DEF InfoData
  <2> QED
    BY <1>1, <2>1, <2>2, <2>3, InfoStays
<1>4. CASE ReceiveLoses \/ ReceiveTimesOut
  <2>1. pc' = "unreceived"
    BY <1>4 DEF ReceiveLoses, ReceiveTimesOut
  <2>2. pc' \in InfoOver /\ pc' \notin InfoUnder
    BY <2>1 DEF InfoOver, InfoUnder, Posted
  <2> QED
    BY <1>1, <2>1, <2>2, InfoStays DEF InfoCall
<1> QED
  BY <1>2, <1>3, <1>4 DEF Transport

-----------------------------------------------------------------------------
(* CoE: the slave.                                                         *)
LEMMA InfoQuiet ==
  ASSUME InfoInv, GeneralOK, Worse, op \in Receiving, UNCHANGED <<pc, callvars>>,
         InfoCall /\ InfoData => InfoData'
  PROVE  InfoInv'
<1>1. UNCHANGED <<op, item, room, moved, got, wkc>>
  BY DEF callvars
<1>2. pc \in InfoUnder \cup InfoOver
  BY DEF InfoInv
<1> QED
  BY <1>1, <1>2, InfoStays

LEMMA InfoSlave ==
  ASSUME InfoInv, GeneralOK, Worse, op \in Receiving, Slave, UNCHANGED <<callvars, infovars>>
  PROVE  InfoInv'
<1>1. UNCHANGED <<op, item, moved, listing>>
  BY DEF callvars, infovars
<1>2. CASE TakeCopy
  <2>1. inbox' = Nothing
        /\ UNCHANGED <<pc, mbxin, mbxout, mbxcnt, work, outbox, lastcnt, silent>>
    BY <1>2 DEF TakeCopy, mailboxes
  <2>2. ASSUME InfoCall, InfoData
        PROVE  InfoData'
    <3>1. InHand' = InHand
      BY <2>1 DEF InHand, One
    <3>2. RepliesOK'
      BY <1>1, <2>1, <2>2 DEF InfoData, RepliesOK, ReplyIs, TxPdo, Pdo, Bytes, Description, Entry
    <3>3. op = "odlist" => ListFlow'
      BY <1>1, <2>1, <2>2, <3>1, ListFlightStays DEF InfoData, ListFlow, ListReply, Listed,
                                                     ListFragment, Words, Content, Bytes, Least
    <3>4. NoInfo => NoInfo'
      BY <1>1, <2>1 DEF NoInfo, IsInfo
    <3>5. ~silent => InfoFlight'
      BY <1>1, <2>1, <2>2, <3>1, <3>4, BodyStays DEF InfoData, InfoFlight, IsInfo
    <3> QED
      BY <1>1, <2>1, <3>2, <3>3, <3>5 DEF InfoData
  <2> QED
    BY <2>1, <2>2, InfoQuiet
<1>3. CASE PlaceReply
  <2>1. /\ outbox = Nothing /\ outbox' = work /\ work' = Nothing /\ ~silent
        /\ UNCHANGED <<pc, mbxin, mbxout, mbxcnt, inbox, lastcnt, silent>>
    BY <1>3 DEF PlaceReply, mailboxes
  <2>2. ASSUME InfoCall, InfoData
        PROVE  InfoData'
    <3>1. InHand' = InHand
      BY <2>1 DEF InHand, One
    <3>2. RepliesOK'
      BY <1>1, <2>1, <2>2 DEF InfoData, RepliesOK, ReplyIs, TxPdo, Pdo, Bytes, Description,
                              Entry, Nothing
    <3>3. ASSUME op = "odlist"
          PROVE  ListFlow'
      <4>1. moved \in Nat /\ InHand \in {0, 1} /\ One(work) \in {0, 1} /\ One(outbox) = 0
        BY <2>1, <3>3, InfoKinds DEF InfoInv, Receiving, One, InHand
      <4>2. /\ moved + InHand + One(outbox) = moved + InHand
            /\ moved' + InHand' + One(outbox') + One(work') = moved + InHand + One(work)
            /\ moved + InHand + One(outbox) + One(work) = moved + InHand + One(work)
            /\ moved' + InHand' = moved + InHand
        BY <1>1, <2>1, <3>1, <4>1 DEF One, Nothing
      <4>3. pc # "draindrop" => ListFlight
        BY <2>1, <2>2, <3>3 DEF InfoData, ListFlow
      <4>4. pc # "draindrop" => ListReply(outbox, moved + InHand)'
        BY <1>1, <2>1, <4>2, <4>3 DEF ListFlight, ListReply, Listed, ListFragment, Words,
                                      Content, Bytes, Least
      <4>5. ListReply(work, moved + InHand + One(outbox))'
        BY <2>1 DEF ListReply, Nothing
      <4>6. pc # "draindrop" => ListFlight'
        BY <1>1, <4>2, <4>3, <4>4, <4>5 DEF ListFlight
      <4> QED
        BY <1>1, <2>1, <2>2, <3>3, <4>6 DEF InfoData, ListFlow, ListReply, Listed, ListFragment,
                                            Words, Content, Bytes, Least
    <3>4. (NoInfo => NoInfo') /\ ~IsInfo(work')
      BY <1>1, <2>1, InfoKinds DEF NoInfo, IsInfo, Nothing
    <3>5. ~silent => InfoFlight'
      BY <1>1, <2>1, <2>2, <3>1, <3>4, BodyStays DEF InfoData, InfoFlight
    <3> QED
      BY <1>1, <2>1, <3>2, <3>3, <3>5 DEF InfoData
  <2> QED
    BY <2>1, <2>2, InfoQuiet
<1>4. CASE FallSilent
  <2>1. silent' /\ UNCHANGED <<pc, mbxin>>
    BY <1>4 DEF FallSilent, mailboxes
  <2>2. InfoCall /\ InfoData => InfoData'
    BY <1>1, <2>1 DEF InfoData, RepliesOK, ReplyIs, TxPdo, Pdo, Bytes, Description, Entry,
                      ListFlow, ListReply, Listed, ListFragment, Words, Content, Least
  <2> QED
    BY <2>1, <2>2, InfoQuiet
<1> QED
  BY <1>2, <1>3, <1>4 DEF Slave

(* The slave sends what is not part of CoE, or forgets a list that nobody  *)
(* reads.                                                                  *)
LEMMA InfoUnasked ==
  ASSUME InfoInv, GeneralOK, Worse, op \in Receiving,
         UNCHANGED <<pc, mailboxes, inbox, outbox, lastcnt, silent, callvars>>,
         work' = work \/ (work = Nothing /\ ~IsInfo(work')),
         listing' = listing \/ (op # "odlist" /\ listing' = NoListing)
  PROVE  InfoInv'
<1>1. UNCHANGED <<op, item, moved, mbxin, mbxout, mbxcnt>>
  BY DEF callvars, mailboxes
<1>2. ASSUME InfoCall, InfoData
      PROVE  InfoData'
  <2>1. InHand' = InHand
    BY <1>1 DEF InHand, One
  <2>2. (IsInfo(work') => IsInfo(work)) /\ (NoInfo => NoInfo')
        /\ (listing = NoListing => listing' = NoListing)
    BY DEF NoInfo, IsInfo
  <2>3. RepliesOK'
    BY <1>1, <1>2, InfoKinds DEF InfoData, RepliesOK, ReplyIs, TxPdo, Pdo, Bytes, Description,
                                 Entry, IsInfo
  <2>4. ASSUME op = "odlist"
        PROVE  ListFlow'
    <3>1. One(work') = One(work)
      BY InfoKinds DEF One, IsInfo
    <3>2. listing' = listing
      BY <2>4
    <3>3. \A n : ListReply(work, n) => ListReply(work', n)
      BY DEF ListReply, IsInfo
    <3>4. ListFlight => ListFlight'
      BY <1>1, <2>1, <3>1, <3>2, <3>3 DEF ListFlight, ListReply, One, Listed, ListFragment,
                                          Words, Content, Bytes, Least
    <3> QED
      BY <1>1, <1>2, <2>4, <3>4 DEF InfoData, ListFlow, ListReply, Listed, ListFragment, Words,
                                    Content, Bytes, Least
  <2>5. ~silent => InfoFlight'
    BY <1>1, <1>2, <2>1, <2>2, BodyStays DEF InfoData, InfoFlight
  <2> QED
    BY <1>1, <2>3, <2>4, <2>5 DEF InfoData
<1> QED
  BY <1>2, InfoQuiet

LEMMA WordsAre ==
  ASSUME NEW i \in Items
  PROVE  /\ Words(i) \in Seq(Data \cup {ListType}) /\ Len(Words(i)) = Size[i] + 1
         /\ \A k \in 1 .. Size[i] : Words(i)[k + 1] = <<i, k>>
<1> DEFINE head == <<ListType>>
           tail == Content(i)
<1>1. /\ tail \in Seq(Data) /\ Len(tail) = Size[i] /\ Size[i] \in Nat
      /\ \A k \in 1 .. Size[i] : tail[k] = <<i, 0 + k>>
  <2>1. 0 \in Int /\ Size[i] \in Nat
    BY Sizes
  <2> QED
    BY <2>1, BytesAre, Zenon DEF Content
<1>2. tail \in Seq(Data \cup {ListType})
  BY <1>1
<1>3. head \in Seq(Data \cup {ListType}) /\ Len(head) = 1
  OBVIOUS
<1> HIDE DEF head, tail
<1>4. /\ head \o tail \in Seq(Data \cup {ListType}) /\ Len(head \o tail) = Len(head) + Len(tail)
      /\ \A k \in 1 .. Len(head) + Len(tail) :
           (head \o tail)[k] = IF k <= Len(head) THEN head[k] ELSE tail[k - Len(head)]
  BY <1>2, <1>3, ConcatProperties, Zenon
<1>5. ASSUME NEW k \in 1 .. Size[i]
      PROVE  (head \o tail)[k + 1] = <<i, k>>
  <2>1. k + 1 \in 1 .. 1 + Size[i] /\ ~(k + 1 <= 1) /\ (k + 1) - 1 = k /\ 0 + k = k
    BY <1>1
  <2> QED
    BY <1>1, <1>3, <1>4, <2>1
<1>6. Len(head \o tail) = Size[i] + 1
  BY <1>1, <1>3, <1>4
<1> QED
  BY <1>4, <1>5, <1>6 DEF Words, head, tail

(* A fragment of a list, and where the list goes on.                       *)
LEMMA ListedIs ==
  ASSUME NEW i \in Items, NEW from \in Nat, from <= Size[i]
  PROVE  /\ Listed(i, from).cmd = "odlist"
         /\ Listed(i, from).words
              = SubSeq(Words(i), from + 1, from + Least(Size[i] + 1 - from, MaxData))
         /\ (Listed(i, from).left > 0) <=> (from + MaxData <= Size[i])
         /\ \/ Onward(i, from) = NoListing
            \/ /\ Onward(i, from) = [item |-> i, from |-> from + MaxData]
               /\ from + MaxData <= Size[i]
<1>1. Len(Words(i)) = Size[i] + 1 /\ Size[i] \in Nat /\ MaxData \in Nat
  BY WordsAre, Sizes
<1> DEFINE len == Least(Len(Words(i)) - from, MaxData)
<1>2. Listed(i, from) = ListFragment(SubSeq(Words(i), from + 1, from + len),
                                     Len(Words(i)) - from - len)
  BY DEF Listed
<1>3. (Len(Words(i)) - from - len > 0) <=> (from + MaxData <= Size[i])
  BY <1>1 DEF Least
<1>4. /\ Listed(i, from).cmd = "odlist"
      /\ Listed(i, from).words = SubSeq(Words(i), from + 1, from + len)
      /\ Listed(i, from).left = Len(Words(i)) - from - len
  <2>1. \A words, left :
          /\ ListFragment(words, left).cmd = "odlist"
          /\ ListFragment(words, left).words = words /\ ListFragment(words, left).left = left
    BY DEF ListFragment
  <2> DEFINE w == SubSeq(Words(i), from + 1, from + len)
             l == Len(Words(i)) - from - len
  <2>2. Listed(i, from) = ListFragment(w, l)
    BY <1>2
  <2> HIDE DEF w, l
  <2>3. Listed(i, from).cmd = "odlist" /\ Listed(i, from).words = w /\ Listed(i, from).left = l
    BY <2>1, <2>2
  <2> QED
    BY <2>3 DEF w, l
<1>5. Onward(i, from) = IF Listed(i, from).left > 0
                        THEN [item |-> i, from |-> from + MaxData] ELSE NoListing
  BY DEF Onward
<1>6. Len(Words(i)) - from = Size[i] + 1 - from
  BY <1>1
<1>7. Listed(i, from).left > 0 <=> from + MaxData <= Size[i]
  BY <1>3, <1>4
<1>8. len = Least(Size[i] + 1 - from, MaxData)
  BY <1>6
<1> HIDE DEF len
<1> QED
  BY <1>4, <1>5, <1>7, <1>8

LEMMA ListGoesOn ==
  ASSUME InfoInv, GeneralOK, Worse, op \in Receiving, SendList
  PROVE  InfoInv'
<1>1. /\ listing # NoListing /\ work = Nothing /\ ~silent
      /\ work' = Listed(listing.item, listing.from)
      /\ listing' = Onward(listing.item, listing.from)
      /\ UNCHANGED <<pc, mbxin, mbxout, mbxcnt, inbox, outbox, lastcnt, silent, callvars>>
      /\ UNCHANGED <<op, item, moved>>
  BY DEF SendList, mailboxes, callvars
<1>2. work'.cmd = "odlist"
  BY <1>1 DEF Listed, ListFragment
<1>3. ASSUME InfoCall, InfoData
      PROVE  InfoData'
  <2>1. InfoFlight /\ pc \notin {"draindrop", "next", "try"}
    BY <1>1, <1>3 DEF InfoData, InfoFlight, NoInfo
  <2>2. RepliesOK'
    BY <1>1, <1>2, <1>3 DEF InfoData, RepliesOK, ReplyIs, TxPdo, Pdo, Bytes, Description, Entry
  <2>3. InfoFlight'
    BY <1>1, <2>1, BodyStays DEF InfoFlight, NoInfo
  <2>4. ASSUME op = "odlist"
        PROVE  ListFlow'
    <3>1. ListFlow /\ ListFlight
      BY <1>1, <1>3, <2>1, <2>4 DEF InfoData, ListFlow
    <3>2. moved \in Nat /\ InHand \in {0, 1} /\ One(outbox) \in {0, 1} /\ One(work) = 0
      BY <1>1, <2>4, InfoKinds DEF InfoInv, Receiving, One, InHand
    <3>3. InHand' = InHand /\ One(outbox') = One(outbox) /\ One(work') = 1
      BY <1>1, <1>2 DEF InHand, One
    <3> DEFINE n == moved + InHand + One(outbox)
               from == n * MaxData
    <3>4. n \in Nat /\ n + One(work) = n /\ from \in Nat /\ item \in Items
      BY <3>2, Sizes DEF GeneralOK
    <3>5. listing = [item |-> item, from |-> from] /\ from <= Size[item]
      BY <1>1, <3>1, <3>4 DEF ListFlight
    <3>6. listing.item = item /\ listing.from = from
      BY <3>5
    <3>7. work' = Listed(item, from) /\ listing' = Onward(item, from)
      BY <1>1, <3>6
    <3>8. \/ listing' = NoListing
          \/ listing' = [item |-> item, from |-> from + MaxData] /\ from + MaxData <= Size[item]
      BY <3>4, <3>5, <3>7, ListedIs
    <3>9. from + MaxData = (n + 1) * MaxData
      BY <3>4, Sizes
    <3>10. ListReply(outbox, moved + InHand)'
      BY <1>1, <3>1, <3>3 DEF ListFlight, ListReply, Listed, ListFragment, Words, Content, Bytes,
                              Least
    <3>11. n' = n
      BY <1>1, <3>3
    <3>12. ListReply(work, n)'
      <4>1. ListReply(work', n)
        BY <3>5, <3>7 DEF ListReply
      <4> QED
        BY <1>1, <3>11, <4>1 DEF ListReply, Listed, ListFragment, Words, Content, Bytes, Least
    <3>13. (listing # NoListing =>
              LET k == moved + InHand + One(outbox) + One(work)
              IN  listing = [item |-> item, from |-> k * MaxData] /\ k * MaxData <= Size[item])'
      <4>1. (moved + InHand + One(outbox) + One(work))' = n + 1
        BY <3>3, <3>11
      <4> QED
        BY <1>1, <3>8, <3>9, <4>1
    <3> QED
      BY <1>1, <2>1, <3>1, <3>10, <3>12, <3>13
         DEF ListFlight, ListFlow, ListReply, Listed, ListFragment, Words, Content, Bytes, Least
  <2> QED
    BY <1>1, <2>2, <2>3, <2>4 DEF InfoData
<1> QED
  BY <1>1, <1>3, InfoQuiet

(* The slave takes a request, which in a call in which nothing is late is  *)
(* that of the call, and answers it once.                                  *)
LEMMA InfoAnswers ==
  ASSUME InfoInv, GeneralOK, Worse, op \in Receiving, NEW answer, Take(answer), UNCHANGED callvars,
         inbox.body = Body =>
           /\ ReplyIs(answer)
           /\ op = "odlist" =>
                \/ answer = Listed(item, 0) /\ listing' = Onward(item, 0)
                \/ ~IsInfo(answer) /\ listing' = listing
  PROVE  InfoInv'
<1>1. /\ inbox # Nothing /\ work = Nothing /\ ~silent /\ inbox.cnt # lastcnt
      /\ inbox' = Nothing /\ lastcnt' = inbox.cnt /\ work' = answer
      /\ UNCHANGED <<pc, mbxin, mbxout, mbxcnt, outbox, silent, op, item, moved>>
  BY DEF Take, mailboxes, callvars
<1>2. ASSUME InfoCall, InfoData
      PROVE  InfoData'
  <2>1. InfoFlight
    BY <1>1, <1>2 DEF InfoData
  <2>2. /\ inbox.body = Body /\ inbox.cnt = mbxcnt /\ lastcnt # mbxcnt
        /\ pc \notin {"draindrop", "next", "try"}
    BY <1>1, <2>1 DEF InfoFlight
  <2>3. RepliesOK'
    BY <1>1, <1>2, <2>2 DEF InfoData, RepliesOK, ReplyIs, TxPdo, Pdo, Bytes, Description, Entry
  <2>4. InfoFlight'
    BY <1>1, <2>1, <2>2, BodyStays DEF InfoFlight
  <2>5. ASSUME op = "odlist"
        PROVE  ListFlow'
    <3>1. NoInfo /\ moved = 0 /\ InHand = 0
      BY <1>1, <2>1, <2>2, <2>5 DEF InfoFlight
    <3>2. InHand' = 0 /\ One(outbox') = 0 /\ moved' = 0 /\ outbox'.cmd # "odlist"
      BY <1>1, <3>1, InfoKinds DEF InHand, One, NoInfo
    <3>3. /\ 0 * MaxData = 0 /\ 0 <= Size[item] /\ 1 * MaxData = MaxData /\ 0 + MaxData = MaxData
          /\ item \in Items
      BY Sizes DEF GeneralOK
    <3>4. ListReply(outbox, moved + InHand)'
      BY <3>2 DEF ListReply
    <3>5. ListReply(work, moved + InHand + One(outbox))'
          /\ (listing # NoListing =>
                LET n == moved + InHand + One(outbox) + One(work)
                IN  listing = [item |-> item, from |-> n * MaxData] /\ n * MaxData <= Size[item])'
      <4>1. (moved + InHand + One(outbox))' = 0
        BY <3>2
      <4>2. CASE ~IsInfo(answer) /\ listing' = listing
        BY <1>1, <3>1, <4>2 DEF NoInfo, ListReply, IsInfo
      <4>3. CASE answer = Listed(item, 0) /\ listing' = Onward(item, 0)
        <5>1. \/ listing' = NoListing
              \/ listing' = [item |-> item, from |-> MaxData] /\ MaxData <= Size[item]
          BY <3>3, <4>3, ListedIs
        <5>2. answer.cmd = "odlist"
          BY <3>3, <4>3, ListedIs
        <5>3. (moved + InHand + One(outbox) + One(work))' = 1
          BY <1>1, <4>1, <5>2 DEF One
        <5>4. ListReply(answer, 0)
          BY <3>3, <4>3 DEF ListReply
        <5>5. ListReply(work, moved + InHand + One(outbox))'
          BY <1>1, <4>1, <5>4 DEF ListReply, Listed, ListFragment, Words, Content, Bytes, Least
        <5> QED
          BY <1>1, <3>3, <5>1, <5>3, <5>5
      <4> QED
        BY <2>2, <2>5, <4>2, <4>3
    <3>6. ListFlight'
      BY <3>4, <3>5 DEF ListFlight
    <3> QED
      BY <1>1, <1>2, <2>2, <2>5, <3>6 DEF InfoData, ListFlow, ListReply, Listed, ListFragment,
                                          Words, Content, Bytes, Least
  <2> QED
    BY <1>1, <2>3, <2>4, <2>5 DEF InfoData
<1> QED
  BY <1>1, <1>2, InfoQuiet

InfoRequests == {"txpdoreq", "odlistreq", "odreq", "oereq"}

LEMMA InfoOthersTake ==
  ASSUME InfoInv, GeneralOK, Worse, op \in Receiving, NEW answer, Take(answer), UNCHANGED callvars,
         inbox.body.cmd \notin InfoRequests
  PROVE  InfoInv'
<1>1. inbox.body # Body
  BY DEF Body, Receiving, InfoRequests, TxPdoRequest, ListRequest, DescriptionRequest, EntryRequest
<1> QED
  BY <1>1, InfoAnswers

LEMMA InfoServes ==
  ASSUME InfoInv, GeneralOK, Worse, op \in Receiving, InfoServer
  PROVE  InfoInv'
<1>1. CASE SendList
  BY <1>1, ListGoesOn
<1>2. CASE GiveUpList
  <2>1. op # "odlist" /\ listing' = NoListing /\ work' = work
        /\ UNCHANGED <<pc, mailboxes, inbox, outbox, lastcnt, silent, callvars>>
    BY <1>2 DEF GiveUpList, mbxvars, slavembx
  <2> QED
    BY <2>1, InfoUnasked
<1>3. CASE ServeInfoError
  <2>1. Take(InfoError) /\ UNCHANGED callvars /\ listing' = listing
    BY <1>3 DEF ServeInfoError, ServeInfo, infovars
  <2> QED
    BY <2>1, InfoAnswers, InfoKinds
<1>4. ASSUME NEW i \in Items, ServeList(i)
      PROVE  InfoInv'
  <2>1. inbox.body = ListRequest(i) /\ Take(Listed(i, 0)) /\ UNCHANGED callvars
        /\ listing' = Onward(i, 0)
    BY <1>4 DEF ServeList, ServeInfo
  <2>2. inbox.body = Body => op = "odlist" /\ item = i
    BY <2>1 DEF Body, Receiving, TxPdoRequest, ListRequest, DescriptionRequest, EntryRequest
  <2>3. Listed(i, 0).cmd = "odlist"
    BY ListedIs, Sizes
  <2> QED
    BY <2>1, <2>2, <2>3, InfoAnswers DEF ReplyIs
<1>5. ASSUME NEW i \in Items, ServeRxPdo(i)
      PROVE  InfoInv'
  <2>1. Take(Nothing) /\ UNCHANGED callvars /\ inbox.body.cmd \notin InfoRequests
    BY <1>5 DEF ServeRxPdo, ServeInfo, RxPdo, InfoRequests
  <2> QED
    BY <2>1, InfoOthersTake
<1>6. ASSUME NEW i \in Items, ServeObject(i)
      PROVE  InfoInv'
  <2>1. listing' = listing
    BY <1>6 DEF ServeObject, infovars
  <2>2. ASSUME NEW request, NEW answer, ServeInfo(request, answer),
               request = Body => ReplyIs(answer) /\ op # "odlist"
        PROVE  InfoInv'
    BY <2>2, InfoAnswers DEF ServeInfo
  <2>3. TxPdoRequest(i) = Body => ReplyIs(TxPdo(i)) /\ op # "odlist"
    BY DEF Body, Receiving, TxPdoRequest, ListRequest, DescriptionRequest, EntryRequest,
           ReplyIs, TxPdo
  <2>4. DescriptionRequest(i) = Body => ReplyIs(Description(i)) /\ op # "odlist"
    BY DEF Body, Receiving, TxPdoRequest, ListRequest, DescriptionRequest, EntryRequest,
           ReplyIs, Description
  <2>5. ASSUME NEW sub \in 0 .. MaxSub
        PROVE  EntryRequest(i, sub) = Body => ReplyIs(Entry(i, sub)) /\ op # "odlist"
    BY DEF Body, Receiving, TxPdoRequest, ListRequest, DescriptionRequest, EntryRequest,
           ReplyIs, Entry
  <2> QED
    BY <1>6, <2>2, <2>3, <2>4, <2>5 DEF ServeObject
<1> QED
  BY <1>1, <1>2, <1>3, <1>4, <1>5, <1>6 DEF InfoServer

(* What the other protocols of the slave do.                               *)
LEMMA OthersThanInfoServe ==
  ASSUME FileServer \/ Drive \/ Stack
  PROVE  /\ UNCHANGED <<pc, mailboxes, outbox, silent, callvars>>
         /\ \/ inbox.body.cmd \notin InfoRequests /\ \E answer : Take(answer)
            \/ /\ UNCHANGED <<inbox, lastcnt>>
               /\ work' = work \/ (work = Nothing /\ ~IsInfo(work'))
<1>1. CASE FileServer
  <2>1. ASSUME NEW request, NEW answer, NEW after, FoeServe(request, answer, after),
               request.cmd \in {"foeread", "foewrite", "foedata", "foeack"}
        PROVE  /\ UNCHANGED <<pc, mailboxes, outbox, silent, callvars>>
               /\ inbox.body.cmd \notin InfoRequests /\ Take(answer)
    BY <2>1 DEF FoeServe, Take, InfoRequests
  <2>2. \E request, answer, after :
          /\ FoeServe(request, answer, after)
          /\ request.cmd \in {"foeread", "foewrite", "foedata", "foeack"}
    <3>1. CASE \E f \in Items : ServeRead(f) \/ ServeWrite(f)
      <4>1. \A f : FoeRead(f).cmd = "foeread" /\ FoeWrite(f).cmd = "foewrite"
        BY DEF FoeRead, FoeWrite
      <4> QED
        BY <3>1, <4>1 DEF ServeRead, ServeWrite
    <3>2. CASE ServeAck
      <4>1. \A k : FoeAck(k).cmd = "foeack"
        BY DEF FoeAck
      <4>2. \E answer, after : FoeServe(FoeAck(files.packet), answer, after)
        BY <3>2 DEF ServeAck
      <4> QED
        BY <4>1, <4>2
    <3>3. CASE ServeData
      <4>1. inbox.body.cmd = "foedata" /\ \E answer, after : FoeServe(inbox.body, answer, after)
        BY <3>3 DEF ServeData
      <4> QED
        BY <4>1
    <3>4. CASE ServeBusy \/ ServeError
      BY <3>4 DEF ServeBusy, ServeError
    <3> QED
      BY <1>1, <3>1, <3>2, <3>3, <3>4 DEF FileServer
  <2> QED
    BY <2>1, <2>2
<1>2. CASE Drive
  <2>1. CASE DropFragments
    BY <2>1 DEF DropFragments, mbxvars, slavembx
  <2>2. CASE SendRest
    BY <2>2 DEF SendRest, SoeResponse, SoeReadResponse, IsInfo
  <2>3. ASSUME NEW request, NEW answer, SoeServe(request, answer),
               request.cmd \in {"soereadreq", "soewritereq", "soefragment"}
        PROVE  /\ UNCHANGED <<pc, mailboxes, outbox, silent, callvars>>
               /\ inbox.body.cmd \notin InfoRequests /\ Take(answer)
    BY <2>3 DEF SoeServe, Take, InfoRequests
  <2>4. ASSUME NEW i \in Items, ServeReadIDN(i)
        PROVE  SoeServe(SoeReadRequest(i), SoeResponse(i, 0))
               /\ SoeReadRequest(i).cmd = "soereadreq"
    BY <2>4 DEF ServeReadIDN, SoeReadRequest
  <2>5. ASSUME ServeFragment \/ ServeWriteIDN \/ ServeSoeError
        PROVE  /\ \E answer : SoeServe(inbox.body, answer)
               /\ inbox.body.cmd \in {"soereadreq", "soewritereq", "soefragment"}
    BY <2>5 DEF ServeFragment, ServeWriteIDN, ServeSoeError
  <2> QED
    BY <1>2, <2>1, <2>2, <2>3, <2>4, <2>5 DEF Drive
<1>3. CASE Stack
  <2>1. CASE \E i \in Items : BeginFrame(i)
    BY <2>1 DEF BeginFrame, mbxvars, slavembx
  <2>2. CASE SendFrame
    BY <2>2 DEF SendFrame, Fragment, IsInfo
  <2>3. ASSUME TakeFragment \/ SetSlaveIp \/ TellSlaveIp \/ RefuseIp
        PROVE  /\ \E answer : EoeServe(answer)
               /\ inbox.body.cmd \in {"eoe", "eoesetip", "eoegetip"}
    <3>1. CASE TakeFragment
      <4>1. EoeServe(Nothing) /\ inbox.body.cmd = "eoe"
        BY <3>1 DEF TakeFragment
      <4> QED
        BY <4>1
    <3>2. CASE SetSlaveIp \/ TellSlaveIp \/ RefuseIp
      BY <3>2 DEF SetSlaveIp, TellSlaveIp, RefuseIp, EoeGetIp
    <3> QED
      BY <2>3, <3>1, <3>2
  <2>4. ASSUME NEW answer, EoeServe(answer), inbox.body.cmd \in {"eoe", "eoesetip", "eoegetip"}
        PROVE  /\ UNCHANGED <<pc, mailboxes, outbox, silent, callvars>>
               /\ inbox.body.cmd \notin InfoRequests /\ Take(answer)
    BY <2>4 DEF EoeServe, Take, InfoRequests
  <2> QED
    BY <1>3, <2>1, <2>2, <2>3, <2>4 DEF Stack
<1> QED
  BY <1>1, <1>2, <1>3

-----------------------------------------------------------------------------
(* CoE: the master.                                                        *)
LEMMA InfoDrains ==
  ASSUME InfoInv, GeneralOK, Worse, op \in Receiving, DrainAndDrop
  PROVE  InfoInv'
<1>1. /\ pc = "draindrop" /\ pc' = "next"
      /\ UNCHANGED <<inbox, work, listing, lastcnt, mbxcnt, silent, op, item, room, moved, got>>
      /\ outbox' = Nothing \/ silent \/ Fault("late")
  BY DEF DrainAndDrop, Goto, infovars
<1>2. pc \in InfoUnder /\ pc' \in InfoUnder /\ pc' \notin Posted
  BY <1>1, InfoPhases
<1>3. ASSUME InfoCall, InfoData, InfoCall'
      PROVE  InfoData'
  <2>1. silent \/ outbox' = Nothing
    <3>1. Fault("late") => faults'["late"] # 0
      BY DEF Fault, GeneralOK, Kinds
    <3> QED
      BY <1>1, <1>3, <3>1 DEF InfoCall, InfoCalm
  <2>2. ~silent => InfoFlight
    BY <1>3 DEF InfoData
  <2>3. ~silent => ~IsInfo(work') /\ ~IsInfo(outbox') /\ listing' = NoListing /\ inbox' = Nothing
    BY <1>1, <2>1, <2>2, InfoKinds DEF InfoFlight, IsInfo
  <2>4. RepliesOK'
    BY <1>1, <2>3 DEF RepliesOK, ReplyIs, IsInfo
  <2>5. op = "odlist" => ListFlow'
    BY <1>1, <1>3, <2>3 DEF InfoData, ListFlow, ListFlight, ListReply, IsInfo
  <2>6. ~silent' => InfoFlight'
    BY <1>1, <1>2, <2>3 DEF InfoFlight, NoInfo, IsInfo
  <2> QED
    BY <1>1, <2>4, <2>5, <2>6 DEF InfoData
<1> QED
  BY <1>1, <1>2, <1>3, InfoStays

LEMMA InfoAsks ==
  ASSUME InfoInv, GeneralOK, Worse, op \in Receiving, AskInfo
  PROVE  InfoInv'
<1>1. /\ pc = "next" /\ op \in InfoCalls
      /\ UNCHANGED <<inbox, work, outbox, listing, lastcnt, silent, op, item, room, moved, got, wkc>>
  BY DEF AskInfo, slavembx, callvars, infovars
<1>2. pc \in InfoUnder
  BY <1>1, InfoPhases
<1>3. CASE NoMailbox
  <2>1. pc' = AtEnd /\ faults'["pool"] # 0
    BY <1>3 DEF NoMailbox, Goto, Fault, GeneralOK, Kinds
  <2>2. ~InfoCalm'
    BY <2>1 DEF InfoCalm
  <2>3. pc' \in InfoOver
    BY <2>1 DEF AtEnd, InfoOver
  <2> QED
    BY <1>1, <2>2, <2>3 DEF InfoInv, InfoCall
<1>4. CASE ~NoMailbox
  <2>1. /\ mbxout' = [cnt |-> NextCnt, body |-> Body] /\ mbxcnt' = NextCnt /\ pc' = "try"
    BY <1>4 DEF AskInfo, Goto
  <2>2. pc' \in InfoUnder /\ pc' \notin {"finish", "done", "draindrop", "received"} /\ pc' \in Posted
    BY <2>1, InfoPhases DEF Posted
  <2>3. ASSUME InfoCall, InfoData
        PROVE  InfoData'
    <3>1. Body' = Body /\ InHand = 0 /\ InHand' = 0
      BY <1>1, <2>1, BodyStays DEF InHand
    <3>2. RepliesOK'
      BY <1>1, <2>1, <2>3 DEF InfoData, RepliesOK, ReplyIs, TxPdo, Pdo, Bytes, Description, Entry
    <3>3. op = "odlist" => moved = 0 /\ ListFlow'
      BY <1>1, <2>1, <2>3, <3>1, ListFlightStays DEF InfoData, ListFlow
    <3>4. ~silent => InfoFlight
      BY <2>3 DEF InfoData
    <3>5. ~silent' => InfoFlight'
      BY <1>1, <2>1, <2>2, <3>1, <3>3, <3>4 DEF InfoFlight, NoInfo, IsInfo
    <3> QED
      BY <1>1, <3>2, <3>3, <3>5 DEF InfoData
  <2> QED
    BY <1>1, <1>2, <2>2, <2>3, InfoStays
<1> QED
  BY <1>3, <1>4

LEMMA InfoAwaits ==
  ASSUME InfoInv, GeneralOK, Worse, AwaitInfo
  PROVE  InfoInv'
<1>1. /\ op \in Receiving /\ pc = "sent" /\ pc' = "receive"
      /\ UNCHANGED <<mbxcnt, inbox, work, outbox, listing, lastcnt, silent, op, item, room, moved,
                     got>>
  BY DEF AwaitInfo, AwaitReply, Goto, slavembx, infovars
<1>2. pc \in InfoUnder /\ pc' \in InfoUnder /\ pc' \notin Posted
  BY <1>1, InfoPhases
<1>3. ASSUME InfoCall, InfoData
      PROVE  InfoData'
  <2>1. Body' = Body /\ InHand = 0 /\ InHand' = 0
    BY <1>1, BodyStays DEF InHand
  <2>2. RepliesOK'
    BY <1>1, <1>3 DEF InfoData, RepliesOK, ReplyIs, TxPdo, Pdo, Bytes, Description, Entry
  <2>3. op = "odlist" => ListFlow'
    BY <1>1, <1>2, <1>3, <2>1, ListFlightStays DEF InfoData, ListFlow
  <2>4. ~silent => InfoFlight
    BY <1>3 DEF InfoData
  <2>5. ~silent' => InfoFlight'
    BY <1>1, <1>2, <2>1, <2>4 DEF InfoFlight, NoInfo, IsInfo
  <2> QED
    BY <1>1, <2>2, <2>3, <2>5 DEF InfoData
<1> QED
  BY <1>1, <1>2, <1>3, InfoStays

(* A call that is over.                                                    *)
LEMMA InfoConcludes ==
  ASSUME InfoInv, GeneralOK, Worse, op \in Receiving, UNCHANGED <<op, item, room, moved, got>>,
         pc' \in InfoOver, pc' \in {"finish", "done"} /\ wkc' => pc = "finish" /\ wkc
  PROVE  InfoInv'
<1>1. pc' \notin InfoUnder
  BY InfoPhases
<1> QED
  BY <1>1, InfoStays DEF InfoCall

LEMMA InfoEnds ==
  ASSUME InfoInv, GeneralOK, Worse, op \in Receiving, InfoFails \/ InfoRefused \/ Finish
  PROVE  InfoInv'
<1>1. CASE InfoFails \/ InfoRefused
  <2>1. Conclude(FALSE, AtEnd)
    BY <1>1 DEF InfoFails, InfoRefused
  <2>2. AtEnd \in InfoOver
    BY DEF AtEnd, InfoOver
  <2> QED
    BY <2>1, <2>2, InfoConcludes DEF Conclude, Goto
<1>2. CASE Finish
  BY <1>2, InfoConcludes DEF Finish, Goto, callvars, InfoOver
<1> QED
  BY <1>1, <1>2

LEMMA InfoTakes ==
  ASSUME InfoInv, GeneralOK, Worse, TakeTxPdo \/ TakeDescription
  PROVE  InfoInv'
<1>1. /\ pc = "received" /\ pc' = "finish" /\ op \in {"txpdo", "oddesc"}
      /\ UNCHANGED <<faults, op, item, room, moved>>
      /\ op = "txpdo" => mbxin.cmd = "txpdo" /\ got' = mbxin.data
      /\ op = "oddesc" => mbxin.cmd = "od" /\ got' = <<mbxin.item>>
  BY DEF TakeTxPdo, TakeDescription, Gets, Goto
<1>2. pc \in InfoUnder /\ pc' \in InfoOver /\ pc' \notin InfoUnder
  BY <1>1, InfoPhases DEF InfoOver
<1>3. ASSUME InfoCalm'
      PROVE  InfoResult'
  <2>1. ReplyIs(mbxin)
    BY <1>1, <1>2, <1>3 DEF InfoCalm, InfoInv, InfoCall, InfoData, RepliesOK
  <2>2. op = "txpdo" => got' = Pdo(item)
    BY <1>1, <2>1 DEF ReplyIs, TxPdo
  <2>3. op = "oddesc" => got' = <<item>>
    BY <1>1, <2>1 DEF ReplyIs, Description
  <2> QED
    BY <1>1, <2>2, <2>3 DEF InfoResult, Pdo, Bytes
<1> QED
  BY <1>1, <1>2, <1>3 DEF InfoInv, InfoCall, Receiving

LEMMA InfoTakesEntry ==
  ASSUME InfoInv, GeneralOK, Worse, TakeEntry
  PROVE  InfoInv'
<1>1. /\ pc = "received" /\ op = "readoe" /\ mbxin.cmd = "oe" /\ pc' = "endentry"
      /\ got' = Append(got, [at |-> moved, is |-> <<mbxin.item, mbxin.sub>>])
      /\ UNCHANGED <<faults, op, item, room, moved>>
  BY DEF TakeEntry, Gets, Goto, AtEnd
<1>2. pc \in InfoUnder /\ pc' \in InfoOver /\ pc' \notin InfoUnder
  BY <1>1, InfoPhases DEF InfoOver
<1>3. moved \in Nat /\ item \in Items
  BY <1>1 DEF InfoInv, Receiving, GeneralOK
<1>4. ASSUME InfoCalm'
      PROVE  EntriesBelow(moved + 1)'
  <2>1. ReplyIs(mbxin) /\ EntriesBelow(moved)
    BY <1>1, <1>2, <1>4 DEF InfoCalm, InfoInv, InfoCall, InfoData, RepliesOK, InfoGot
  <2> DEFINE e == [at |-> moved, is |-> <<item, moved>>]
  <2>2. mbxin.item = item /\ mbxin.sub = moved
    BY <1>1, <2>1 DEF ReplyIs, Entry
  <2>3. got' = Append(got, e) /\ e \in Entries /\ e.at = moved /\ e.is = <<item, moved>>
    BY <1>1, <1>3, <2>2 DEF Entries
  <2> HIDE DEF e
  <2>4. got \in Seq(Entries) /\ Len(got) \in Nat /\ DOMAIN got = 1 .. Len(got)
    BY <2>1, LenProperties DEF EntriesBelow
  <2>5. /\ got' \in Seq(Entries) /\ Len(got') = Len(got) + 1
        /\ \A k \in 1 .. Len(got) : got'[k] = got[k]
        /\ got'[Len(got) + 1] = e
    BY <2>3, <2>4, AppendProperties
  <2>6. DOMAIN got' = 1 .. Len(got) + 1
    BY <2>5, LenProperties
  <2>7. ASSUME NEW k \in DOMAIN got'
        PROVE  got'[k].is = <<item, got'[k].at>> /\ got'[k].at < moved + 1
    <3>1. CASE k \in 1 .. Len(got)
      <4>1. got'[k] = got[k] /\ got[k] \in Entries
        BY <2>4, <2>5, <3>1
      <4>2. got[k].is = <<item, got[k].at>> /\ got[k].at < moved /\ got[k].at \in Nat
        BY <2>1, <2>4, <3>1, <4>1 DEF EntriesBelow, Entries
      <4> QED
        BY <1>3, <4>1, <4>2
    <3>2. CASE k = Len(got) + 1
      BY <1>3, <2>3, <2>5, <3>2
    <3> QED
      BY <2>4, <2>6, <2>7, <3>1, <3>2
  <2>8. ASSUME NEW k \in 2 .. Len(got')
        PROVE  got'[k - 1].at < got'[k].at
    <3>1. CASE k \in 2 .. Len(got)
      <4>1. k \in 1 .. Len(got) /\ k - 1 \in 1 .. Len(got)
        BY <2>4, <3>1
      <4> QED
        BY <2>1, <2>5, <3>1, <4>1 DEF EntriesBelow
    <3>2. CASE k = Len(got) + 1
      <4>1. k - 1 = Len(got) /\ k - 1 \in 1 .. Len(got)
        BY <2>4, <2>5, <2>8, <3>2
      <4> QED
        BY <2>1, <2>3, <2>4, <2>5, <3>2, <4>1 DEF EntriesBelow
    <3> QED
      BY <2>4, <2>5, <2>8, <3>1, <3>2
  <2> QED
    BY <1>1, <2>5, <2>7, <2>8 DEF EntriesBelow
<1>5. InfoCalm' => InfoResult'
  BY <1>1, <1>4 DEF InfoResult
<1> QED
  BY <1>1, <1>2, <1>3, <1>5 DEF InfoInv, InfoCall, Receiving

(* While the entries of an object are read there is no list under way.     *)
FreeOfLists ==
  InfoCalm /\ op = "readoe" =>
    /\ listing = NoListing
    /\ inbox # Nothing => inbox.body.cmd # "odlistreq"
    /\ pc \in Posted => mbxout.body.cmd # "odlistreq"

LEMMA InfoNextEntry ==
  ASSUME InfoInv, GeneralOK, Worse, FreeOfLists, MaxFaults > 0, op = "readoe", EndEntry
  PROVE  InfoInv'
<1>1. /\ pc = "endentry" /\ UNCHANGED <<listing, inbox, work, op, item, room, got, wkc>>
      /\ \/ moved' = moved + 1 /\ pc' = "draindrop"
         \/ moved' = moved /\ pc' = "done"
  BY DEF EndEntry, Goto, infovars, slavembx
<1>2. pc \in InfoOver /\ op \in Receiving /\ moved \in Nat
  BY <1>1 DEF InfoOver, InfoInv, Receiving
<1>3. CASE moved' = moved /\ pc' = "done"
  <2>1. pc' \in InfoOver /\ pc' \notin InfoUnder
    BY <1>3, InfoPhases DEF InfoOver
  <2>2. InfoCalm' => InfoResult'
    BY <1>1, <1>2, <1>3, InfoCalmBefore DEF InfoInv, InfoResult, EntriesBelow
  <2> QED
    BY <1>1, <1>2, <1>3, <2>1, <2>2 DEF InfoInv, InfoCall, Receiving
<1>4. CASE moved' = moved + 1 /\ pc' = "draindrop"
  <2>1. pc' \in InfoUnder /\ pc' \notin InfoOver
    BY <1>4, InfoPhases
  <2>2. ASSUME InfoCalm'
        PROVE  InfoData' /\ InfoGot'
    <3>1. InfoCalm
      BY <1>1, <2>2, InfoCalmBefore
    <3>2. EntriesBelow(moved + 1) /\ listing = NoListing
      BY <1>1, <1>2, <3>1 DEF InfoInv, InfoResult, FreeOfLists
    <3>3. inbox = Nothing /\ work = Nothing
      <4>1. ASSUME ~(inbox = Nothing /\ work = Nothing)
            PROVE  faults'["late"] # 0
        <5>1. Noted("late") \/ Fault("late")
          BY <1>3, <1>4, <4>1 DEF EndEntry
        <5>2. MaxFaults \in Nat /\ "late" \in Kinds
          BY AcyclicMbxAssumption DEF Kinds
        <5> QED
          BY <5>1, <5>2 DEF Noted, Fault, GeneralOK
      <4> QED
        BY <2>2, <4>1 DEF InfoCalm
    <3>4. InfoData'
      BY <1>1, <1>4, <3>2, <3>3, InfoKinds DEF InfoData, InfoFlight, RepliesOK, Posted
    <3>5. EntriesBelow(moved)'
      BY <1>1, <1>4, <3>2 DEF EntriesBelow
    <3> QED
      BY <1>1, <3>4, <3>5 DEF InfoGot
  <2> QED
    BY <1>1, <1>2, <1>4, <2>1, <2>2 DEF InfoInv, InfoCall, Receiving
<1> QED
  BY <1>1, <1>3, <1>4

-----------------------------------------------------------------------------
(* CoE: the indices of a list.                                             *)
LEMMA BytesFirst ==
  ASSUME NEW i \in Items, NEW from \in Int, NEW len \in Nat, NEW n \in 0 .. len
  PROVE  SubSeq(Bytes(i, from, len), 1, n) = Bytes(i, from, n)
<1> DEFINE b == Bytes(i, from, len)
           c == Bytes(i, from, n)
<1>1. n \in Nat /\ 1 \in Int /\ n \in Int
  OBVIOUS
<1>2. /\ b \in Seq(Data) /\ Len(b) = len /\ \A k \in 1 .. len : b[k] = <<i, from + k>>
      /\ c \in Seq(Data) /\ Len(c) = n /\ \A k \in 1 .. n : c[k] = <<i, from + k>>
  BY <1>1, BytesAre, Zenon
<1> HIDE DEF b, c
<1>3. \A k \in 1 .. n : b[k] \in Data
  <2>1. \A k \in 1 .. len : b[k] \in Data
    BY <1>2, LenProperties
  <2> QED
    BY <2>1
<1>4. /\ SubSeq(b, 1, n) \in Seq(Data)
      /\ Len(SubSeq(b, 1, n)) = IF 1 <= n THEN n - 1 + 1 ELSE 0
      /\ \A k \in 1 .. n - 1 + 1 : SubSeq(b, 1, n)[k] = b[1 + k - 1]
  BY <1>1, <1>3, SubSeqProperties
<1>5. Len(SubSeq(b, 1, n)) = n
  BY <1>4
<1>6. ASSUME NEW k \in 1 .. n
      PROVE  SubSeq(b, 1, n)[k] = c[k]
  <2>1. k \in 1 .. n - 1 + 1 /\ 1 + k - 1 = k /\ k \in 1 .. len
    BY <1>6
  <2> QED
    BY <1>2, <1>4, <2>1
<1>7. SubSeq(b, 1, n) = c
  BY <1>2, <1>4, <1>5, <1>6, SeqEqual
<1> QED
  BY <1>7 DEF b, c

(* A fragment of a list in terms of bytes.                                 *)
LEMMA FragmentWords ==
  ASSUME NEW i \in Items, NEW from \in Nat, from <= Size[i], NEW len \in Nat,
         len <= Size[i] + 1 - from
  PROVE  /\ from > 0 => SubSeq(Words(i), from + 1, from + len) = Bytes(i, from - 1, len)
         /\ from = 0 /\ len > 0 =>
              Tail(SubSeq(Words(i), from + 1, from + len)) = Bytes(i, 0, len - 1)
<1> DEFINE w == Words(i)
           words == SubSeq(w, from + 1, from + len)
           S == Data \cup {ListType}
<1>1. /\ w \in Seq(S) /\ Len(w) = Size[i] + 1
      /\ \A k \in 1 .. Size[i] : w[k + 1] = <<i, k>>
  BY WordsAre
<1> HIDE DEF w
<1>2. Size[i] \in Nat /\ from + 1 \in Int /\ from + len \in Int
  BY Sizes
<1>3. \A k \in from + 1 .. from + len : w[k] \in S
  <2>1. \A k \in 1 .. Size[i] + 1 : w[k] \in S
    <3> HIDE DEF S
    <3> QED
      BY <1>1, LenProperties
  <2> QED
    BY <1>2, <2>1
<1>4. /\ words \in Seq(S)
      /\ Len(words) = IF from + 1 <= from + len THEN from + len - (from + 1) + 1 ELSE 0
      /\ \A k \in 1 .. from + len - (from + 1) + 1 : words[k] = w[from + 1 + k - 1]
  <2> HIDE DEF S
  <2> QED
    BY <1>2, <1>3, SubSeqProperties
<1> HIDE DEF words, S
<1>5. Len(words) = len
  BY <1>4
<1>6. ASSUME NEW k \in 1 .. len
      PROVE  words[k] = w[from + k]
  <2>1. k \in 1 .. from + len - (from + 1) + 1 /\ from + 1 + k - 1 = from + k
    BY <1>6
  <2> QED
    BY <1>4, <2>1
<1>7. ASSUME NEW k \in 1 .. len, from + k > 1
      PROVE  words[k] = <<i, from + k - 1>>
  <2>1. from + k - 1 \in 1 .. Size[i] /\ (from + k - 1) + 1 = from + k
    BY <1>2, <1>7
  <2> QED
    BY <1>1, <1>6, <2>1
<1>8. Data \subseteq S
  BY DEF S
<1>9. ASSUME from > 0
      PROVE  words = Bytes(i, from - 1, len)
  <2> DEFINE b == Bytes(i, from - 1, len)
  <2>1. b \in Seq(Data) /\ Len(b) = len /\ \A k \in 1 .. len : b[k] = <<i, (from - 1) + k>>
    <3>1. from - 1 \in Int
      OBVIOUS
    <3> QED
      BY <3>1, BytesAre, Zenon
  <2> HIDE DEF b
  <2>2. b \in Seq(S)
    BY <1>8, <2>1
  <2>3. ASSUME NEW k \in 1 .. len
        PROVE  words[k] = b[k]
    <3>1. from + k > 1 /\ (from - 1) + k = from + k - 1
      BY <1>9
    <3> QED
      BY <1>7, <2>1, <3>1
  <2>4. words = b
    BY <1>4, <1>5, <2>1, <2>2, <2>3, SeqEqual
  <2> QED
    BY <2>4 DEF b
<1>10. ASSUME from = 0, len > 0
       PROVE  Tail(words) = Bytes(i, 0, len - 1)
  <2> DEFINE b == Bytes(i, 0, len - 1)
             t == Tail(words)
  <2>1. b \in Seq(Data) /\ Len(b) = len - 1 /\ \A k \in 1 .. len - 1 : b[k] = <<i, 0 + k>>
    <3>1. 0 \in Int /\ len - 1 \in Nat
      BY <1>10
    <3> QED
      BY <3>1, BytesAre, Zenon
  <2>2. words # <<>>
    <3>1. Len(<<>>) = 0 /\ ~(len = 0)
      BY <1>10
    <3> QED
      BY <1>5, <3>1, Zenon
  <2>3. t \in Seq(S) /\ Len(t) = Len(words) - 1 /\ \A k \in 1 .. Len(t) : t[k] = words[k + 1]
    BY <1>4, <2>2, HeadTailProperties, Zenon
  <2> HIDE DEF b, t
  <2>4. b \in Seq(S)
    BY <1>8, <2>1
  <2>5. Len(t) = len - 1
    BY <1>5, <2>3
  <2>6. ASSUME NEW k \in 1 .. len - 1
        PROVE  t[k] = b[k]
    <3>1. k + 1 \in 1 .. len /\ from + (k + 1) > 1 /\ from + (k + 1) - 1 = 0 + k
      BY <1>10
    <3>2. words[k + 1] = <<i, from + (k + 1) - 1>>
      BY <1>7, <3>1
    <3> QED
      BY <2>1, <2>3, <2>5, <3>1, <3>2
  <2>7. t = b
    BY <2>1, <2>3, <2>4, <2>5, <2>6, SeqEqual
  <2> QED
    BY <2>7 DEF b, t
<1> QED
  BY <1>9, <1>10 DEF words, w

(* What the table has room for follows what is in it already.              *)
LEMMA BytesMore ==
  ASSUME NEW i \in Items, NEW size \in Nat, NEW seen \in Nat, NEW count \in Nat
  PROVE  Bytes(i, 0, Least(size, seen))
             \o SubSeq(Bytes(i, seen, count), 1, Least(count, size - Least(size, seen)))
           = Bytes(i, 0, Least(size, seen + count))
<1> DEFINE table == Bytes(i, 0, Least(size, seen))
           next == Bytes(i, seen, count)
           n == Least(count, size - Least(size, seen))
<1>1. Least(size, seen) \in Nat /\ 0 \in Int /\ seen \in Int
  BY DEF Least
<1>2. Len(table) = Least(size, seen) /\ Len(next) = count /\ table \in Seq(Data)
  BY <1>1, BytesAre, Zenon
<1>3. n \in 0 .. count /\ n \in Nat
  BY DEF Least
<1>4. SubSeq(next, 1, n) = Bytes(i, seen, n)
  <2> HIDE DEF n
  <2> QED
    BY <1>1, <1>3, BytesFirst, Zenon
<1>5. CASE seen <= size
  <2>1. Least(size, seen) = seen /\ 0 + seen = seen /\ seen + n = Least(size, seen + count)
    BY <1>5 DEF Least
  <2> HIDE DEF n
  <2>2. Bytes(i, 0, seen) \o Bytes(i, 0 + seen, n) = Bytes(i, 0, seen + n)
    BY <1>1, <1>3, BytesJoin, Zenon
  <2> QED
    BY <1>4, <2>1, <2>2 DEF n
<1>6. CASE ~(seen <= size)
  <2>1. n = 0 /\ Least(size, seen) = Least(size, seen + count)
    BY <1>6 DEF Least
  <2>2. Bytes(i, seen, 0) = <<>>
    BY <1>1, BytesNone
  <2>3. SubSeq(next, 1, n) = <<>>
    BY <1>4, <2>1, <2>2
  <2>4. table \o <<>> = table
    BY <1>2, ConcatEmptySeq
  <2> QED
    BY <2>1, <2>3, <2>4
<1> QED
  BY <1>5, <1>6

LEMMA Products ==
  /\ \A n \in Nat : n * MaxData \in Nat /\ (n + 1) * MaxData = n * MaxData + MaxData
  /\ \A m, n \in Nat : m <= n => m * MaxData <= n * MaxData
<1>1. MaxData \in Nat
  BY Sizes
<1>2. ASSUME NEW m \in Nat, NEW n \in Nat, m <= n
      PROVE  m * MaxData <= n * MaxData
  <2>1. n - m \in Nat /\ n = m + (n - m)
    BY <1>2
  <2>2. n * MaxData = m * MaxData + (n - m) * MaxData
    BY <1>1, <2>1
  <2>3. (n - m) * MaxData \in Nat /\ m * MaxData \in Nat
    BY <1>1, <2>1
  <2> QED
    BY <2>2, <2>3
<1>3. ASSUME NEW n \in Nat
      PROVE  n * MaxData \in Nat /\ (n + 1) * MaxData = n * MaxData + MaxData
  BY <1>1
<1> QED
  BY <1>2, <1>3

(* The indices in the next fragment are those after the ones seen.         *)
LEMMA IndicesAre ==
  ASSUME item \in Items, moved \in Nat, moved * MaxData <= Size[item],
         mbxin = Listed(item, moved * MaxData)
  PROVE  /\ Seen(moved) \in Nat /\ Seen(moved + 1) - Seen(moved) \in Nat
         /\ Indices = Bytes(item, Seen(moved), Seen(moved + 1) - Seen(moved))
         /\ mbxin.left > 0 <=> (moved + 1) * MaxData <= Size[item]
<1> DEFINE from == moved * MaxData
           len == Least(Size[item] + 1 - from, MaxData)
<1>1. /\ from \in Nat /\ Size[item] \in Nat /\ MaxData \in Nat /\ MaxData > 0
      /\ (moved + 1) * MaxData = from + MaxData /\ moved + 1 # 0 /\ moved + 1 \in Nat
      /\ moved > 0 => from >= MaxData
  <2>1. moved > 0 => 1 <= moved /\ 1 * MaxData = MaxData
    BY Sizes
  <2>2. moved > 0 => 1 * MaxData <= from
    BY <2>1, Products
  <2> QED
    BY <2>1, <2>2, Sizes, Products
<1>2. from <= Size[item] /\ mbxin = Listed(item, from)
  OBVIOUS
<1> HIDE DEF from
<1>3. len \in Nat /\ len > 0 /\ len <= Size[item] + 1 - from
  BY <1>1, <1>2 DEF Least
<1>4. mbxin.words = SubSeq(Words(item), from + 1, from + len)
      /\ (mbxin.left > 0 <=> from + MaxData <= Size[item])
  BY <1>1, <1>2, ListedIs
<1> HIDE DEF len
<1>5. /\ from > 0 => mbxin.words = Bytes(item, from - 1, len)
      /\ from = 0 => Tail(mbxin.words) = Bytes(item, 0, len - 1)
  <2>1. /\ item \in Items /\ from \in Nat /\ from <= Size[item] /\ len \in Nat
        /\ len <= Size[item] + 1 - from /\ len > 0
        /\ mbxin.words = SubSeq(Words(item), from + 1, from + len)
    BY <1>1, <1>2, <1>3, <1>4
  <2> QED
    BY <2>1, FragmentWords, Zenon
<1>6. Seen(moved + 1) = Least(from + MaxData, Size[item] + 1) - 1
  BY <1>1 DEF Seen
<1>7. Seen(moved + 1) = from + len - 1
  BY <1>1, <1>2, <1>6 DEF Least, len
<1>8. CASE moved = 0
  <2>1. from = 0 /\ Seen(moved) = 0
    BY <1>1, <1>8 DEF from, Seen
  <2>2. Seen(moved + 1) - Seen(moved) = len - 1 /\ len - 1 \in Nat
    BY <1>3, <1>7, <2>1
  <2>3. Indices = Bytes(item, 0, len - 1)
    BY <1>5, <1>8, <2>1 DEF Indices
  <2> QED
    BY <1>1, <1>4, <2>1, <2>2, <2>3
<1>9. CASE moved # 0
  <2>1. from > 0 /\ Seen(moved) = Least(from, Size[item] + 1) - 1
    BY <1>1, <1>9 DEF from, Seen
  <2>2. Seen(moved) = from - 1
    BY <1>1, <1>2, <2>1 DEF Least
  <2>3. Seen(moved + 1) - Seen(moved) = len /\ from - 1 \in Nat
    BY <1>1, <1>3, <1>7, <2>1, <2>2
  <2>4. Indices = Bytes(item, from - 1, len)
    BY <1>5, <1>9, <2>1 DEF Indices
  <2> QED
    BY <1>1, <1>3, <1>4, <2>2, <2>3, <2>4
<1> QED
  BY <1>8, <1>9

LEMMA InfoTakesIndices ==
  ASSUME InfoInv, GeneralOK, Worse, TakeIndices
  PROVE  InfoInv'
<1> DEFINE n == Least(Len(Indices), room - Len(got))
<1>1. /\ pc = "received" /\ op = "odlist" /\ mbxin.cmd = "odlist"
      /\ got' = got \o SubSeq(Indices, 1, n)
      /\ pc' = IF mbxin.left > 0 /\ moved + 1 < MaxFragments THEN "sent" ELSE "finish"
      /\ moved' = moved + 1 /\ wkc' = TRUE
      /\ UNCHANGED <<mbxin, mbxcnt, inbox, work, outbox, lastcnt, silent, listing, faults, op,
                     item, room>>
  BY DEF TakeIndices, Gets, Goto, mailboxes, slavembx, infovars
<1>2. pc \in InfoUnder /\ pc' \in InfoUnder \cup InfoOver /\ "sent" \notin InfoOver
      /\ "finish" \notin InfoUnder /\ "sent" \notin Posted
  BY <1>1, InfoPhases DEF InfoOver
<1>3. moved \in Nat /\ room \in Nat /\ item \in Items /\ moved + 1 \in Nat
  BY <1>1 DEF InfoInv, Receiving, GeneralOK
<1>4. InfoCalm' <=> InfoCalm
  BY <1>1 DEF InfoCalm
<1>5. CASE ~InfoCalm
  BY <1>1, <1>2, <1>3, <1>4, <1>5 DEF InfoInv, InfoCall
<1>6. CASE InfoCalm
  <2>1. InfoData /\ InfoGot
    BY <1>2, <1>6 DEF InfoInv, InfoCall
  <2>2. /\ mbxin = Listed(item, moved * MaxData) /\ moved * MaxData <= Size[item]
        /\ moved < MaxFragments /\ got = Bytes(item, 0, Least(room, Seen(moved)))
        /\ ~silent => ListFlight
    BY <1>1, <2>1 DEF InfoData, ListFlow, ListReply, InfoGot
  <2>3. /\ Seen(moved) \in Nat /\ Seen(moved + 1) - Seen(moved) \in Nat
        /\ Indices = Bytes(item, Seen(moved), Seen(moved + 1) - Seen(moved))
        /\ mbxin.left > 0 <=> (moved + 1) * MaxData <= Size[item]
    BY <1>3, <2>2, IndicesAre
  <2>4. got' = Bytes(item, 0, Least(room, Seen(moved + 1)))
    <3> DEFINE seen == Seen(moved)
               count == Seen(moved + 1) - seen
    <3>1. seen + count = Seen(moved + 1)
      <4>1. Seen(moved + 1) \in Int
        BY <1>3, Sizes, Products DEF Seen, Least
      <4> QED
        BY <2>3, <4>1
    <3>2. seen \in Nat /\ count \in Nat /\ Indices = Bytes(item, seen, count)
          /\ got = Bytes(item, 0, Least(room, seen))
      BY <2>2, <2>3
    <3> HIDE DEF seen, count
    <3>3. got \o SubSeq(Indices, 1, n) = Bytes(item, 0, Least(room, seen + count))
      <4>1. room \in Nat /\ item \in Items
        BY <1>3
      <4>2. n = Least(count, room - Least(room, seen))
        <5>1. Len(Indices) = count
          <6>1. seen \in Int
            BY <3>2
          <6> QED
            BY <3>2, <4>1, <6>1, BytesAre, Zenon
        <5>2. Len(got) = Least(room, seen)
          <6>1. 0 \in Int /\ Least(room, seen) \in Nat
            BY <3>2, <4>1 DEF Least
          <6> QED
            BY <3>2, <4>1, <6>1, BytesAre, Zenon
        <5> QED
          BY <5>1, <5>2, Zenon
      <4>3. Bytes(item, 0, Least(room, seen))
                \o SubSeq(Bytes(item, seen, count), 1, Least(count, room - Least(room, seen)))
              = Bytes(item, 0, Least(room, seen + count))
        BY <3>2, <4>1, BytesMore, Zenon
      <4> HIDE DEF n
      <4> QED
        BY <3>2, <4>2, <4>3, Zenon
    <3> QED
      BY <1>1, <3>1, <3>3
  <2>5. CASE mbxin.left > 0 /\ moved + 1 < MaxFragments
    <3>1. pc' = "sent" /\ pc' \in InfoUnder
      BY <1>1, <2>5, InfoPhases
    <3>2. InfoGot'
      BY <1>1, <2>4, <2>5 DEF InfoGot, Seen, Bytes, Least
    <3>3. RepliesOK'
      BY <1>1, <2>1, <3>1 DEF InfoData, RepliesOK, ReplyIs
    <3>4. ASSUME ~silent
          PROVE  InfoFlight'
      <4>1. InfoFlight /\ InHand = 1 /\ Body' = Body
        BY <1>1, <2>1, <3>4 DEF InfoData, InHand, One, Body, ListRequest
      <4> QED
        BY <1>1, <1>2, <3>1, <4>1 DEF InfoFlight
    <3>5. ListFlow'
      <4>1. InHand = 1 /\ InHand' = 0
        BY <1>1, <3>1 DEF InHand, One
      <4>2. One(outbox') = One(outbox) /\ One(work') = One(work)
        BY <1>1 DEF One
      <4>3. moved' + InHand' = moved + InHand
        BY <1>1, <1>3, <4>1
      <4>4. moved' + InHand' + One(outbox') = moved + InHand + One(outbox)
        BY <4>2, <4>3
      <4>5. moved' + InHand' + One(outbox') + One(work') = moved + InHand + One(outbox) + One(work)
        BY <4>2, <4>4
      <4>6. ASSUME ~silent
            PROVE  ListFlight'
        <5>1. ListReply(outbox, moved + InHand)'
          BY <1>1, <2>2, <4>3, <4>6
             DEF ListFlight, ListReply, Listed, ListFragment, Words, Content, Bytes, Least
        <5>2. ListReply(work, moved + InHand + One(outbox))'
          BY <1>1, <2>2, <4>4, <4>6
             DEF ListFlight, ListReply, Listed, ListFragment, Words, Content, Bytes, Least
        <5> QED
          BY <1>1, <2>2, <4>5, <4>6, <5>1, <5>2 DEF ListFlight
      <4> QED
        BY <1>1, <1>2, <3>1, <4>6 DEF ListFlow
    <3>6. InfoData'
      BY <1>1, <3>3, <3>4, <3>5 DEF InfoData
    <3> QED
      BY <1>1, <1>2, <1>3, <3>1, <3>2, <3>6 DEF InfoInv, Receiving
  <2>6. CASE ~(mbxin.left > 0 /\ moved + 1 < MaxFragments)
    <3>1. pc' = "finish"
      BY <1>1, <2>6
    <3> DEFINE next == (moved + 1) * MaxData
               all == MaxFragments * MaxData
               size == Size[item]
    <3>2. /\ next \in Nat /\ all \in Nat /\ size \in Nat /\ MaxFragments \in Nat /\ MaxData > 0
          /\ next <= all /\ (moved + 1 = MaxFragments => next = all) /\ next > 0
      BY <1>3, <2>2, Sizes, Products, DictionaryAssumption
    <3>3. Seen(moved + 1) = Least(next, size + 1) - 1
      BY <1>3 DEF Seen
    <3>4. next > size \/ moved + 1 = MaxFragments
      BY <1>3, <2>2, <2>3, <2>6, <3>2
    <3> HIDE DEF next, all, size
    <3>5. Least(room, Seen(moved + 1)) = Least(Least(size, room), all - 1)
      BY <1>3, <3>2, <3>3, <3>4 DEF Least
    <3>6. got' = Bytes(item, 0, Least(Least(Size[item], room), MaxFragments * MaxData - 1))
      BY <2>4, <3>5 DEF all, size
    <3>7. InfoResult'
      BY <1>1, <3>6 DEF InfoResult, Bytes, Least
    <3> QED
      BY <1>1, <1>2, <1>3, <3>1, <3>7 DEF InfoInv, InfoCall, Receiving
  <2> QED
    BY <2>5, <2>6
<1> QED
  BY <1>5, <1>6

-----------------------------------------------------------------------------
(* CoE: what others do, and how a call begins and ends.                    *)
LEMMA InfoElsewhere == op' \notin Receiving => (InfoInv /\ FreeOfLists)'
BY DEF InfoInv, InfoCall, InfoCalm, FreeOfLists, Receiving

LEMMA FreeStays ==
  ASSUME FreeOfLists, GeneralOK, Worse, op' = op,
         op = "readoe" =>
           /\ \/ listing' \in {listing, NoListing} \/ listing # NoListing
              \/ inbox # Nothing /\ inbox.body.cmd = "odlistreq"
           /\ inbox' \in {inbox, Nothing} \/ (pc \in Posted /\ inbox' = mbxout)
           /\ pc' \in Posted =>
                (pc \in Posted /\ mbxout' = mbxout) \/ mbxout'.body.cmd # "odlistreq"
  PROVE  FreeOfLists'
<1> SUFFICES ASSUME InfoCalm', op = "readoe"
             PROVE  /\ listing' = NoListing
                    /\ inbox' # Nothing => inbox'.body.cmd # "odlistreq"
                    /\ pc' \in Posted => mbxout'.body.cmd # "odlistreq"
  BY DEF FreeOfLists
<1>1. InfoCalm
  BY InfoCalmBefore
<1> QED
  BY <1>1 DEF FreeOfLists

(* The master in the calls of other protocols.                             *)
LEMMA InfoOutside ==
  ASSUME InfoInv, FoeMaster \/ SoeMaster \/ EoeMaster \/ PdoMaster \/ Drain
  PROVE  op \notin Receiving /\ op' = op
<1>1. op \in Receiving => pc \notin {"drain", "sdoread"}
  BY DEF InfoInv, InfoUnder, InfoOver, Posted
<1>2. CASE FoeMaster
  BY <1>2 DEF FoeMaster, FoeRequest, FoeAwaitReply, FoeGiveUp, TakePacket, RefusePacket,
              NextPacket, SameAgain, SendPacket, BusyAtOnce, FoeRefused, Receiving, AwaitReply,
              Conclude, Ask, Post, GiveUp, callvars
<1>3. CASE SoeMaster
  BY <1>3 DEF SoeMaster, SoeAwaitReply, ReadIDN, CopyFragment, SoeReadFails, WriteFragment,
              FragmentTaken, FragmentStuck, WriteAnswered, WriteGoesOn, Receiving, AwaitReply,
              Conclude, Ask, Post, GiveUp, callvars
<1>4. CASE EoeMaster
  BY <1>4 DEF EoeMaster, SendFragment, FragmentSent, ReceiveFragment, ReceiveRefused,
              ReadFragment, ReadRefused, AskIp, AwaitIp, IpAnswered, EoeGiveUp, EoeOps, Receiving,
              AwaitReply, Conclude, Ask, Post, GiveUp, callvars
<1>5. CASE PdoMaster
  BY <1>1, <1>5, PdoSteps DEF Reads, EndOfMap, Conclude
<1>6. CASE Drain
  BY <1>1, <1>6 DEF Drain, callvars
<1> QED
  BY <1>2, <1>3, <1>4, <1>5, <1>6

LEMMA InfoMasterWorks ==
  ASSUME InfoInv, FreeOfLists, GeneralOK, KeptOK, MaxFaults > 0, MasterWorks
  PROVE  (InfoInv /\ FreeOfLists)'
<1>1. Worse
  BY MasterWorse
<1>2. CASE Foe(FoeMaster) \/ Soe(SoeMaster) \/ Eoe(EoeMaster) \/ Map(PdoMaster) \/ Shared(Drain)
  <2>1. FoeMaster \/ SoeMaster \/ EoeMaster \/ PdoMaster \/ Drain
    BY <1>2 DEF Foe, Soe, Eoe, Map, Shared
  <2> QED
    BY <2>1, InfoOutside, InfoElsewhere
<1>3. CASE Coe(InfoMaster)
  <2>1. InfoMaster /\ op' = op
    <3>1. CASE TakeIndices
      <4>1. \E contents, label : Gets("odlist", contents, label)
        BY <3>1 DEF TakeIndices
      <4> QED
        BY <3>1, <4>1 DEF Gets, InfoMaster
    <3> QED
      BY <1>3, <3>1 DEF Coe, InfoMaster, DrainAndDrop, AskInfo, PdoSent, AwaitInfo, InfoFails,
                        InfoRefused, TakeTxPdo, TakeDescription, TakeEntry, Gets, EndEntry,
                        AwaitReply, Conclude, callvars
  <2>2. CASE op \notin Receiving
    BY <2>1, <2>2, InfoElsewhere
  <2>3. CASE op \in Receiving
    <3>1. ~PdoSent
      BY <2>3 DEF PdoSent, Receiving
    <3>2. EndEntry => op = "readoe"
      BY DEF EndEntry, KeptOK, AppOK
    <3>3. InfoInv'
      BY <1>1, <2>1, <2>3, <3>1, <3>2, InfoDrains, InfoAsks, InfoAwaits, InfoEnds, InfoTakes,
         InfoTakesIndices, InfoTakesEntry, InfoNextEntry DEF InfoMaster
    <3>4. ASSUME op = "readoe"
          PROVE  /\ listing' = listing /\ inbox' = inbox
                 /\ pc' \in Posted => mbxout'.body.cmd # "odlistreq"
      <4>1. CASE AskInfo
        <5>1. listing' = listing /\ inbox' = inbox
          BY <4>1 DEF AskInfo, infovars, slavembx
        <5>2. CASE NoMailbox
          BY <3>4, <5>1, <5>2 DEF NoMailbox, Goto, AtEnd, Posted
        <5>3. CASE ~NoMailbox
          <6>1. mbxout'.body = EntryRequest(item, moved)
            BY <3>4, <4>1, <5>3, BodyIs DEF AskInfo
          <6> QED
            BY <5>1, <6>1 DEF EntryRequest
        <5> QED
          BY <5>2, <5>3
      <4>2. CASE DrainAndDrop \/ AwaitInfo \/ InfoFails \/ InfoRefused \/ TakeEntry \/ EndEntry
        BY <3>4, <4>2 DEF DrainAndDrop, AwaitInfo, InfoFails, InfoRefused, TakeEntry, Gets,
                          EndEntry, AwaitReply, Conclude, Goto, AtEnd, Posted, infovars, slavembx
      <4> QED
        BY <2>1, <3>1, <3>4, <4>1, <4>2 DEF InfoMaster, TakeTxPdo, TakeIndices, TakeDescription
    <3>5. FreeOfLists'
      BY <1>1, <2>1, <3>4, FreeStays
    <3> QED
      BY <3>3, <3>5
  <2> QED
    BY <2>2, <2>3
<1>4. CASE Shared(Finish) \/ Shared(Transport /\ UNCHANGED callvars)
  <2>1. UNCHANGED infovars /\ op' = op /\ (Finish \/ (Transport /\ UNCHANGED callvars))
    BY <1>4 DEF Shared, coevars, Finish, callvars
  <2>2. CASE op \notin Receiving
    BY <2>1, <2>2, InfoElsewhere
  <2>3. CASE op \in Receiving
    <3>1. InfoInv'
      BY <1>1, <2>1, <2>3, InfoEnds, InfoTransport
    <3>2. /\ listing' = listing
          /\ inbox' = inbox \/ (pc \in Posted /\ inbox' = mbxout)
          /\ pc' \in Posted => pc \in Posted /\ mbxout' = mbxout
      BY <2>1 DEF Finish, Transport, FirstTry, WaitEmpty, WaitEmptyFails, Retry, Receive,
                  ReceiveLoses, ReceiveTimesOut, Goto, Posted, infovars, mailboxes, slavembx
    <3>3. FreeOfLists'
      BY <1>1, <2>1, <3>2, FreeStays
    <3> QED
      BY <3>1, <3>3
  <2> QED
    BY <2>2, <2>3
<1> QED
  BY <1>2, <1>3, <1>4 DEF MasterWorks, Shared

LEMMA InfoServerWorks ==
  ASSUME InfoInv, FreeOfLists, GeneralOK, Server \/ Shared(Slave /\ UNCHANGED callvars)
  PROVE  (InfoInv /\ FreeOfLists)'
<1>1. Worse
  BY ServerWorse DEF Shared
<1>2. CASE Foe(FileServer) \/ Soe(Drive) \/ Eoe(Stack)
  <2>1. (FileServer \/ Drive \/ Stack) /\ UNCHANGED infovars
    BY <1>2 DEF Foe, Soe, Eoe, coevars
  <2>2. /\ UNCHANGED <<pc, mailboxes, outbox, silent, callvars>>
        /\ \/ inbox.body.cmd \notin InfoRequests /\ \E answer : Take(answer)
           \/ /\ UNCHANGED <<inbox, lastcnt>>
              /\ work' = work \/ (work = Nothing /\ ~IsInfo(work'))
    BY <2>1, OthersThanInfoServe
  <2>3. op' = op /\ pc' = pc /\ mbxout' = mbxout /\ listing' = listing
        /\ inbox' \in {inbox, Nothing}
    BY <2>1, <2>2 DEF callvars, mailboxes, infovars, Take
  <2>4. CASE op \notin Receiving
    BY <2>3, <2>4, InfoElsewhere
  <2>5. CASE op \in Receiving
    <3>1. InfoInv'
      BY <1>1, <2>2, <2>3, <2>5, InfoOthersTake, InfoUnasked
    <3>2. FreeOfLists'
      BY <1>1, <2>3, FreeStays
    <3> QED
      BY <3>1, <3>2
  <2> QED
    BY <2>4, <2>5
<1>3. CASE Coe(InfoServer)
  <2>1. InfoServer
    BY <1>3 DEF Coe
  <2>2. /\ UNCHANGED <<pc, mailboxes, callvars>>
        /\ UNCHANGED inbox \/ \E answer : Take(answer)
    BY <2>1, OthersServe
  <2>3. op' = op /\ pc' = pc /\ mbxout' = mbxout /\ inbox' \in {inbox, Nothing}
    BY <2>2 DEF callvars, mailboxes, Take
  <2>4. \/ listing' \in {listing, NoListing} \/ listing # NoListing
        \/ inbox # Nothing /\ inbox.body.cmd = "odlistreq"
    <3>1. CASE SendList \/ GiveUpList
      BY <3>1 DEF SendList, GiveUpList
    <3>2. CASE ServeInfoError
      BY <3>2 DEF ServeInfoError, infovars
    <3>3. ASSUME NEW i \in Items, ServeList(i) \/ ServeRxPdo(i) \/ ServeObject(i)
          PROVE  listing' = listing \/ (inbox # Nothing /\ inbox.body.cmd = "odlistreq")
      BY <3>3 DEF ServeList, ServeRxPdo, ServeObject, ServeInfo, ListRequest, infovars
    <3> QED
      BY <2>1, <3>1, <3>2, <3>3 DEF InfoServer
  <2>5. CASE op \notin Receiving
    BY <2>3, <2>5, InfoElsewhere
  <2>6. CASE op \in Receiving
    <3>1. InfoInv'
      BY <1>1, <2>1, <2>6, InfoServes
    <3>2. FreeOfLists'
      BY <1>1, <2>3, <2>4, FreeStays
    <3> QED
      BY <3>1, <3>2
  <2> QED
    BY <2>5, <2>6
<1>4. CASE Shared(Slave /\ UNCHANGED callvars)
  <2>1. Slave /\ UNCHANGED <<callvars, infovars>>
    BY <1>4 DEF Shared, coevars
  <2>2. op' = op /\ pc' = pc /\ mbxout' = mbxout /\ listing' = listing
        /\ inbox' \in {inbox, Nothing}
    BY <2>1 DEF Slave, TakeCopy, PlaceReply, FallSilent, callvars, mailboxes, infovars
  <2>3. CASE op \notin Receiving
    BY <2>2, <2>3, InfoElsewhere
  <2>4. CASE op \in Receiving
    <3>1. InfoInv'
      BY <1>1, <2>1, <2>4, InfoSlave
    <3>2. FreeOfLists'
      BY <1>1, <2>2, FreeStays
    <3> QED
      BY <3>1, <3>2
  <2> QED
    BY <2>3, <2>4
<1> QED
  BY <1>2, <1>3, <1>4 DEF Server

LEMMA InfoBegins ==
  ASSUME FoeInv, GeneralOK, MaxFaults > 0, NEW function, NEW i \in Items, NEW size \in Rooms[i],
         Call(function, i, size)
  PROVE  (InfoInv /\ FreeOfLists)'
<1>1. PICK bytes, first : Begin(function, i, bytes, first)
  BY CallBegins
<1>2. /\ op' = function /\ item' = i /\ pc = "idle"
      /\ UNCHANGED <<moved, got, inbox, work>>
  BY <1>1 DEF Begin, slavembx
<1>3. CASE function \notin Receiving
  BY <1>2, <1>3, InfoElsewhere
<1>4. CASE function \in Receiving
  <2>1. PICK psize : Info(function, i, psize) /\ (function = "odlist" => psize = size)
    BY <1>4 DEF Call, Coe, TxPDO, readODlist, readODdescription, readOE, Receiving
  <2>2. /\ pc' = "draindrop" /\ room' = psize /\ listing' = NoListing
        /\ Begin(function, i, psize, "draindrop")
    BY <2>1 DEF Info, Begin, Goto, infovars
  <2>3. moved' = 0 /\ got' = <<>>
    BY <1>2 DEF FoeInv, FoeLocals
  <2>4. op' = "odlist" => room' \in Nat
    BY <1>2, <2>1, <2>2, TransfersAssumption
  <2>5. InfoCalm' => inbox' = Nothing /\ work' = Nothing
    BY <1>2, <2>2, BeginGeneral DEF InfoCalm
  <2>6. InfoCalm' => InfoData'
    BY <2>2, <2>3, <2>5, InfoKinds DEF InfoData, InfoFlight, RepliesOK, ListFlow, Posted
  <2>7. InfoGot'
    <3>1. op' = "odlist" => got' = Bytes(item, 0, Least(room, Seen(moved)))'
      <4>1. op' = "odlist" => Least(room', 0) = 0
        BY <2>4 DEF Least
      <4>2. \A len \in Int : len <= 0 => Bytes(i, 0, len) = <<>>
        BY BytesNone
      <4>3. Bytes(i, 0, 0) = <<>>
        BY <4>2
      <4> QED
        BY <1>2, <2>3, <4>1, <4>3 DEF Seen, Bytes, Least
    <3>2. EntriesBelow(moved)'
      <4>1. <<>> \in Seq(Entries) /\ DOMAIN <<>> = {} /\ Len(<<>>) = 0
        OBVIOUS
      <4>2. 2 .. 0 = {}
        OBVIOUS
      <4> QED
        BY <2>3, <4>1, <4>2 DEF EntriesBelow
    <3> QED
      BY <2>3, <3>1, <3>2, DictionaryAssumption DEF InfoGot
  <2>8. FreeOfLists'
    BY <2>2, <2>5 DEF FreeOfLists, Posted
  <2>9. pc' \in InfoUnder /\ pc' \notin InfoOver
    BY <2>2, InfoPhases
  <2> QED
    BY <1>2, <1>4, <2>3, <2>4, <2>6, <2>7, <2>8, <2>9 DEF InfoInv, InfoCall
<1> QED
  BY <1>3, <1>4

LEMMA InfoNext ==
  ASSUME MaxFaults > 0, InfoInv, FreeOfLists, FoeInv, GeneralOK, KeptOK, [Next]_vars
  PROVE  (InfoInv /\ FreeOfLists)'
<1>1. ASSUME NEW function \in application, NEW i \in Items, NEW size \in Rooms[i],
             Outside(Call(function, i, size))
      PROVE  (InfoInv /\ FreeOfLists)'
  BY <1>1, InfoBegins DEF Outside
<1>2. CASE Master
  <2>1. Returns => op' \notin Receiving
    BY ReturnsIs DEF Return, Receiving
  <2> QED
    BY <1>2, <2>1, InfoElsewhere, InfoMasterWorks DEF Master
<1>3. CASE Outside(Server) \/ Outside(Shared(Slave /\ UNCHANGED callvars))
  BY <1>3, InfoServerWorks DEF Outside
<1>4. CASE UNCHANGED vars
  <2>1. UNCHANGED <<pc, mailboxes, mbxout, inbox, outbox, work, lastcnt, silent, faults, callvars,
                    op, item, listing>>
    BY <1>4 DEF vars, mbxvars, callvars, mailboxes, slavembx, coevars, infovars
  <2>2. Worse
    BY <2>1, FaultsAdd
  <2>3. CASE op \notin Receiving
    BY <2>1, <2>3, InfoElsewhere
  <2>4. CASE op \in Receiving
    BY <2>1, <2>2, <2>4, InfoUnasked, FreeStays
  <2> QED
    BY <2>3, <2>4
<1> QED
  BY <1>1, <1>2, <1>3, <1>4 DEF Next

LEMMA InfoInvShows == InfoInv /\ GeneralOK => DictionaryIsTrue
<1> SUFFICES ASSUME InfoInv, GeneralOK, Without({"late", "pool"}), pc = "done", op \in Receiving
             PROVE  DictionaryIsTrue
  BY DEF DictionaryIsTrue, ListIsWhole, EntriesAreTrue, Succeeded, Receiving
<1>1. InfoResult /\ moved \in Nat
  BY DEF InfoInv, InfoCalm, InfoOver, Without
<1>2. ASSUME op = "odlist", wkc
      PROVE  ListIsWhole
  <2> DEFINE len == Least(Least(Size[item], room), MaxFragments * MaxData - 1)
  <2>1. got = Bytes(item, 0, len)
    BY <1>1, <1>2 DEF InfoResult
  <2>2. item \in Items /\ Size[item] \in Nat /\ room \in Nat /\ 0 \in Int
    BY <1>2, Sizes DEF GeneralOK, InfoInv
  <2>3. MaxFragments * MaxData - 1 \in Nat
    <3>1. MaxFragments \in Nat /\ 1 <= MaxFragments /\ 1 * MaxData = MaxData /\ MaxData > 0
      BY DictionaryAssumption, Sizes
    <3> DEFINE all == MaxFragments * MaxData
    <3>2. MaxData <= all /\ all \in Nat /\ MaxData \in Nat /\ MaxData > 0
      BY <3>1, Sizes, Products
    <3> HIDE DEF all
    <3>3. all - 1 \in Nat
      BY <3>2
    <3> QED
      BY <3>3 DEF all
  <2>4. len \in 0 .. Size[item]
    BY <2>2, <2>3 DEF Least
  <2>5. SubSeq(Content(item), 1, len) = Bytes(item, 0, len)
    <3> HIDE DEF len
    <3> QED
      BY <2>2, <2>4, BytesFirst, Zenon DEF Content
  <2> QED
    BY <2>1, <2>5 DEF ListIsWhole
<1>3. ASSUME op = "readoe"
      PROVE  EntriesAreTrue
  BY <1>1, <1>3 DEF InfoResult, EntriesBelow, EntriesAreTrue
<1>4. /\ op = "oddesc" /\ wkc => got = <<item>>
      /\ op = "txpdo" /\ wkc => got = Pdo(item)
  BY <1>1 DEF InfoResult
<1> QED
  BY <1>2, <1>3, <1>4 DEF DictionaryIsTrue, ListIsWhole, EntriesAreTrue, Succeeded

(* Whatever is lost and whatever the calls of other protocols have left    *)
(* behind, the lists, descriptions, entries and PDOs that calls of CoE     *)
(* report as read are those of the slave, unless a reply was late or the   *)
(* pool was empty.  (With MaxFaults = 0 the history would not note a late  *)
(* reply.)                                                                 *)
THEOREM DictionaryReadsAreTrue ==
  ASSUME MaxFaults > 0
  PROVE  Spec => []DictionaryIsTrue
<1>1. Init => InfoInv /\ FreeOfLists
  BY DEF Init, CallInit, InfoInv, InfoCall, InfoCalm, FreeOfLists, Receiving
<1>2. /\ FoeInv /\ GeneralOK /\ FilesOK /\ KeptOK /\ InfoInv /\ FreeOfLists /\ [Next]_vars
      => (FoeInv /\ GeneralOK /\ FilesOK /\ KeptOK /\ InfoInv /\ FreeOfLists)'
  BY FoeNext, GeneralNext, FilesNext, KeptNext, InfoNext
<1> QED
  BY FoeInitially, FilesInit, KeptInit, <1>1, <1>2, InfoInvShows, PTL DEF Spec

-----------------------------------------------------------------------------
(* EoE, receiving.  The fragments under way are a stream: the one in the   *)
(* slave's mailbox, the one it works on and what it is still to send       *)
(* follow one another.  A cursor is a place in it: a frame, its number, a  *)
(* fragment of it and where this begins.                                   *)
Cursors ==
  {c \in [item : Items, fragment : Nat, from : Nat, no : 0 .. FrameNos - 1] :
     c.from <= Size[c.item] /\ (c.fragment = 0 => c.from = 0)}

NextNo(n) == (n + 1) % FrameNos
Part(left) == IF left > MaxData THEN (MaxData \div Block) * Block ELSE left
PartAt(c) == Part(Size[c.item] - c.from)
Ends(c) == PartAt(c) = Size[c.item] - c.from

IsAt(f, c) ==
  /\ f.fragment = c.fragment /\ f.no = c.no /\ f.last = Ends(c)
  /\ LET data == Bytes(c.item, c.from, PartAt(c))
     IN  \/ ~(f.last /\ f.stamped) /\ f.data = data
         \/ f.last /\ f.stamped /\ f.data = data \o [k \in 1 .. Stamp |-> "stamp"]

Follows(c, d) ==
  IF Ends(c) THEN d.fragment = 0 /\ d.no = NextNo(c.no)
  ELSE d = [c EXCEPT !.fragment = @ + 1, !.from = @ + PartAt(c)]

(* m is the fragment at c, and d the place after it; or m is no fragment.  *)
Line(m, c, d) == IF m.cmd = "eoe" THEN IsAt(m, c) /\ Follows(c, d) ELSE c = d

Source(c) ==
  /\ c.fragment = sending.fragment
  /\ IF sending = NotSending THEN c.no = NextNo(sentno)
     ELSE c.item = sending.item /\ c.from = sending.from /\ c.no = sentno

StreamFrom(c) ==
  /\ c \in Cursors
  /\ \E w, s \in Cursors : Source(s) /\ Line(work, w, s) /\ Line(outbox, c, w)

(* The place the caller is at.                                             *)
Upcoming(c) ==
  IF pc = "received" THEN c \in Cursors /\ \E d \in Cursors : StreamFrom(d) /\ Line(mbxin, c, d)
  ELSE StreamFrom(c)

SendingOK ==
  /\ sentno \in 0 .. FrameNos - 1
  /\ sending \in [item : Items \cup {"none"}, fragment : Nat, from : Nat]
  /\ sending # NotSending => sending.item \in Items

LEMMA NextNoIs ==
  ASSUME NEW n \in 0 .. FrameNos - 1
  PROVE  /\ NextNo(n) \in 0 .. FrameNos - 1
         /\ NextNo(n) = n + 1 \/ NextNo(n) = n + 1 - FrameNos
<1>1. FrameNos \in Nat /\ FrameNos > 0
  BY EoeAssumption
<1>2. CASE n + 1 < FrameNos
  <2>1. NextNo(n) = n + 1
    BY <1>1, <1>2 DEF NextNo
  <2> QED
    BY <1>1, <1>2, <2>1
<1>3. CASE n + 1 = FrameNos
  <2>1. NextNo(n) = 0
    BY <1>1, <1>3 DEF NextNo
  <2> QED
    BY <1>1, <1>3, <2>1
<1> QED
  BY <1>1, <1>2, <1>3

LEMMA PartIs ==
  /\ (MaxData \div Block) * Block \in 0 .. MaxData
  /\ \A left \in Nat : Part(left) \in 0 .. left /\ (Part(left) = left <=> left <= MaxData)
<1>1. Block \in Nat /\ Block > 0 /\ MaxData \in Nat
  BY EoeAssumption, MbxCallAssumption
<1> DEFINE q == MaxData \div Block
<1>2. q \in Nat /\ q * Block <= MaxData
  BY <1>1
<1>3. q * Block \in Nat
  BY <1>1, <1>2
<1> QED
  BY <1>1, <1>2, <1>3 DEF Part

LEMMA BlocksOf ==
  ASSUME NEW m \in Nat
  PROVE  ((m * Block) \div Block) * Block = m * Block
<1>1. Block \in Nat /\ Block > 0
  BY EoeAssumption
<1>2. m * Block \in Nat
  BY <1>1
<1>3. (m * Block) \div Block = m
  BY <1>1, <1>2
<1> QED
  BY <1>3

(* What stands where.                                                      *)
LEMMA NothingIsNoFragment == Nothing.cmd # "eoe"
BY DEF Nothing

LEMMA CursorIs ==
  ASSUME NEW c \in Cursors
  PROVE  /\ c.item \in Items /\ c.fragment \in Nat /\ c.from \in Nat /\ c.no \in 0 .. FrameNos - 1
         /\ c.from <= Size[c.item] /\ (c.fragment = 0 => c.from = 0)
         /\ Size[c.item] \in Nat /\ PartAt(c) \in Nat /\ c.from + PartAt(c) <= Size[c.item]
<1>1. /\ c.item \in Items /\ c.fragment \in Nat /\ c.from \in Nat /\ c.no \in 0 .. FrameNos - 1
      /\ c.from <= Size[c.item] /\ (c.fragment = 0 => c.from = 0)
  BY DEF Cursors
<1>2. Size[c.item] \in Nat
  BY <1>1, Sizes
<1>3. Size[c.item] - c.from \in Nat
  BY <1>1, <1>2
<1>4. PartAt(c) \in 0 .. Size[c.item] - c.from
  BY <1>3, PartIs DEF PartAt
<1> QED
  BY <1>1, <1>2, <1>3, <1>4

(* The same place, but for the item of a frame that is still to begin.     *)
Alike(c, d) == d.no = c.no /\ d.fragment = c.fragment /\ (c.fragment # 0 => d = c)

LEMMA LineAlike ==
  ASSUME NEW m, NEW c \in Cursors, NEW d \in Cursors, NEW e \in Cursors, Line(m, c, d), Alike(d, e)
  PROVE  \E b \in Cursors : Line(m, b, e) /\ Alike(c, b)
<1>1. CASE m.cmd = "eoe"
  <2>1. CASE Ends(c)
    BY <1>1, <2>1 DEF Line, Follows, Alike
  <2>2. CASE ~Ends(c)
    <3>1. d.fragment = c.fragment + 1
      BY <1>1, <2>2 DEF Line, Follows, Cursors
    <3>2. d.fragment # 0
      BY <3>1, CursorIs
    <3> QED
      BY <1>1, <2>2, <3>2 DEF Line, Alike
  <2> QED
    BY <2>1, <2>2
<1>2. CASE m.cmd # "eoe"
  BY <1>2 DEF Line
<1> QED
  BY <1>1, <1>2

stream == <<work, outbox, sending, sentno>>

LEMMA StreamStays ==
  ASSUME NEW c, UNCHANGED stream
  PROVE  StreamFrom(c)' = StreamFrom(c)
BY DEF stream, StreamFrom, Source

LEMMA UpcomingStays ==
  ASSUME NEW c, Upcoming(c), UNCHANGED stream, UNCHANGED mbxin, pc = "received" <=> pc' = "received"
  PROVE  Upcoming(c)'
BY StreamStays DEF Upcoming

(* The caller has done with the fragment it received, or there was none.   *)
LEMMA Consumed ==
  ASSUME NEW c, Upcoming(c), UNCHANGED stream, pc' # "received"
  PROVE  \E d \in Cursors : Upcoming(d)' /\ (IF pc = "received" THEN Line(mbxin, c, d) ELSE d = c)
<1>1. CASE pc = "received"
  <2>1. PICK d \in Cursors : StreamFrom(d) /\ Line(mbxin, c, d)
    BY <1>1 DEF Upcoming
  <2>2. Upcoming(d)'
    BY <2>1, StreamStays DEF Upcoming
  <2> QED
    BY <1>1, <2>1, <2>2
<1>2. CASE pc # "received"
  BY <1>2, StreamStays DEF Upcoming, StreamFrom
<1> QED
  BY <1>1, <1>2

(* What is in the slave's mailbox is received.                             *)
LEMMA ReceivesNext ==
  ASSUME NEW c, Upcoming(c), Receive, UNCHANGED <<sending, sentno>>
  PROVE  Upcoming(c)' /\ c \in Cursors
<1>1. /\ pc = "receive" /\ pc' = "received" /\ mbxin' = outbox /\ outbox' = Nothing
      /\ work' = work
  BY DEF Receive
<1>2. c \in Cursors
  BY <1>1 DEF Upcoming, StreamFrom
<1>3. PICK w \in Cursors, s \in Cursors : Source(s) /\ Line(work, w, s) /\ Line(outbox, c, w)
  BY <1>1 DEF Upcoming, StreamFrom
<1>4. Source(s)' /\ Line(work', w, s) /\ Line(outbox', w, w) /\ Line(mbxin', c, w)
  BY <1>1, <1>3, NothingIsNoFragment DEF Source, Line
<1>5. StreamFrom(w)'
  BY <1>4 DEF StreamFrom
<1> QED
  BY <1>1, <1>2, <1>4, <1>5 DEF Upcoming

(* It is drained or lost.                                                  *)
LEMMA Dropped ==
  ASSUME NEW c, Upcoming(c), outbox' = Nothing, UNCHANGED <<work, sending, sentno>>,
         pc # "received", pc' # "received"
  PROVE  \E d \in Cursors : Upcoming(d)' /\ Line(outbox, c, d)
<1>1. PICK w \in Cursors, s \in Cursors : Source(s) /\ Line(work, w, s) /\ Line(outbox, c, w)
  BY DEF Upcoming, StreamFrom
<1>2. Source(s)' /\ Line(work', w, s) /\ Line(outbox', w, w)
  BY <1>1, NothingIsNoFragment DEF Source, Line
<1>3. StreamFrom(w)'
  BY <1>2 DEF StreamFrom
<1> QED
  BY <1>1, <1>3 DEF Upcoming

(* A read drains the slave's mailbox, and may leave an answer.             *)
LEMMA ReadsOn ==
  ASSUME NEW c, Upcoming(c), Reads, UNCHANGED <<sending, sentno>>
  PROVE  \E d \in Cursors : Upcoming(d)'
<1>0. pc = "sdoread" /\ pc' = "sdoread"
  BY DEF Reads
<1>1. PICK w \in Cursors, s \in Cursors : Source(s) /\ Line(work, w, s) /\ Line(outbox, c, w)
  BY <1>0 DEF Upcoming, StreamFrom
<1>2. c \in Cursors
  BY <1>0 DEF Upcoming, StreamFrom
<1>3. Source(s)' /\ Line(work', w, s)
  <2>1. Source(s)'
    BY <1>1 DEF Source
  <2>2. CASE work' = work
    BY <1>1, <2>1, <2>2
  <2>3. CASE work = Nothing /\ work' = SdoAnswer
    BY <1>1, <2>1, <2>3, NothingIsNoFragment DEF Line, SdoAnswer
  <2> QED
    BY <2>2, <2>3 DEF Reads
<1>4. CASE outbox' = outbox
  BY <1>0, <1>1, <1>2, <1>3, <1>4 DEF Upcoming, StreamFrom
<1>5. CASE outbox' = Nothing
  <2>1. Line(outbox', w, w)
    BY <1>5, NothingIsNoFragment DEF Line
  <2> QED
    BY <1>0, <1>1, <1>3, <2>1 DEF Upcoming, StreamFrom
<1> QED
  BY <1>4, <1>5 DEF Reads

-----------------------------------------------------------------------------
(* The slave's steps.                                                      *)
LEMMA StreamPlaced ==
  ASSUME NEW c, StreamFrom(c), PlaceReply, UNCHANGED <<sending, sentno>>
  PROVE  StreamFrom(c)'
<1>1. outbox = Nothing /\ outbox' = work /\ work' = Nothing
  BY DEF PlaceReply
<1>2. PICK w \in Cursors, s \in Cursors : Source(s) /\ Line(work, w, s) /\ Line(outbox, c, w)
  BY DEF StreamFrom
<1>3. Source(s)' /\ Line(work', s, s) /\ Line(outbox', c, s)
  BY <1>1, <1>2, NothingIsNoFragment DEF Source, Line
<1> QED
  BY <1>2, <1>3 DEF StreamFrom

LEMMA StreamAnswered ==
  ASSUME NEW c, StreamFrom(c), work = Nothing, work'.cmd # "eoe", UNCHANGED <<outbox, sending, sentno>>
  PROVE  StreamFrom(c)'
<1>1. PICK w \in Cursors, s \in Cursors : Source(s) /\ Line(work, w, s) /\ Line(outbox, c, w)
  BY DEF StreamFrom
<1>2. Source(s)' /\ Line(work', w, s) /\ Line(outbox', c, w)
  BY <1>1, NothingIsNoFragment DEF Source, Line
<1> QED
  BY <1>1, <1>2 DEF StreamFrom

LEMMA CursorStep ==
  ASSUME NEW s \in Cursors, NEW part \in Nat
  PROVE  LET t == [s EXCEPT !.fragment = @ + 1, !.from = @ + part]
         IN  /\ t.item = s.item /\ t.fragment = s.fragment + 1 /\ t.from = s.from + part /\ t.no = s.no
             /\ t \in [item : Items, fragment : Nat, from : Nat, no : 0 .. FrameNos - 1]
<1>1. s \in [item : Items, fragment : Nat, from : Nat, no : 0 .. FrameNos - 1]
  BY DEF Cursors
<1>2. s.fragment + 1 \in Nat /\ s.from + part \in Nat
  BY <1>1
<1> QED
  BY <1>1, <1>2

LEMMA SourceFragment ==
  ASSUME SendingOK, SendFrame, NEW s \in Cursors, Source(s)
  PROVE  IsAt(work', s)
<1>1. /\ sending # NotSending /\ s.item = sending.item /\ s.from = sending.from /\ s.no = sentno
      /\ s.fragment = sending.fragment
  BY DEF SendFrame, Source
<1> DEFINE left == Size[sending.item] - sending.from
           size == IF left > MaxData THEN (MaxData \div Block) * Block ELSE left
           data == Bytes(sending.item, sending.from, size)
           pos == IF sending.fragment = 0 THEN Blocks(Size[sending.item])
                  ELSE sending.from \div Block
<1>2. PICK stamped \in {left = size /\ size + Stamp <= MaxData, FALSE} :
        work' = Fragment(sending.fragment, pos, sentno, left = size, stamped,
                         IF stamped THEN data \o [k \in 1 .. Stamp |-> "stamp"] ELSE data)
  BY DEF SendFrame
<1>3. left = Size[s.item] - s.from /\ size = PartAt(s) /\ data = Bytes(s.item, s.from, PartAt(s))
  BY <1>1 DEF PartAt, Part
<1>4. (left = size) = Ends(s)
  BY <1>3 DEF Ends
<1>5. stamped => left = size
  BY <1>2
<1> HIDE DEF left, size, data, pos
<1>6. /\ work'.fragment = sending.fragment /\ work'.no = sentno /\ work'.last = (left = size)
      /\ work'.stamped = stamped /\ work'.cmd = "eoe"
      /\ work'.data = IF stamped THEN data \o [k \in 1 .. Stamp |-> "stamp"] ELSE data
  BY <1>2 DEF Fragment
<1>7. stamped \in BOOLEAN
  BY <1>2
<1> QED
  BY <1>1, <1>3, <1>4, <1>5, <1>6, <1>7 DEF IsAt

LEMMA StreamSent ==
  ASSUME NEW c, StreamFrom(c), SendingOK, SendFrame
  PROVE  StreamFrom(c)' /\ SendingOK'
<1>1. PICK w \in Cursors, s \in Cursors : Source(s) /\ Line(work, w, s) /\ Line(outbox, c, w)
  BY DEF StreamFrom
<1>2. work = Nothing /\ outbox' = outbox /\ sentno' = sentno /\ sending # NotSending
      /\ work'.cmd = "eoe"
  BY DEF SendFrame, Fragment
<1>3. w = s
  BY <1>1, <1>2, NothingIsNoFragment DEF Line
<1>4. IsAt(work', s)
  BY <1>1, SourceFragment
<1>5. s.item = sending.item /\ s.from = sending.from /\ s.no = sentno /\ s.fragment = sending.fragment
  BY <1>1, <1>2 DEF Source
<1>6. sending' = IF Ends(s) THEN NotSending
                 ELSE [sending EXCEPT !.fragment = @ + 1, !.from = @ + PartAt(s)]
  BY <1>5 DEF SendFrame, PartAt, Part, Ends
<1>7. /\ s.from \in Nat /\ s.fragment \in Nat /\ PartAt(s) \in Nat /\ s.item \in Items
      /\ s.from + PartAt(s) <= Size[s.item]
  BY CursorIs
<1>8. CASE Ends(s)
  <2> DEFINE t == [item |-> s.item, fragment |-> 0, from |-> 0, no |-> NextNo(sentno)]
  <2>1. t \in Cursors
    <3>1. NextNo(sentno) \in 0 .. FrameNos - 1
      BY NextNoIs DEF SendingOK
    <3>2. Size[s.item] \in Nat
      BY <1>7, Sizes
    <3> QED
      BY <1>7, <3>1, <3>2 DEF Cursors
  <2>2. sending' = NotSending /\ NotSending.fragment = 0
    BY <1>6, <1>8 DEF NotSending
  <2>3. Source(t)'
    BY <1>2, <2>2 DEF Source
  <2>4. Line(work', s, t)
    BY <1>2, <1>4, <1>5, <1>8 DEF Line, Follows
  <2>5. StreamFrom(c)'
    BY <1>1, <1>2, <1>3, <2>1, <2>3, <2>4 DEF StreamFrom
  <2>6. SendingOK'
    BY <1>2, <2>2 DEF SendingOK, NotSending
  <2> QED
    BY <2>5, <2>6
<1>9. CASE ~Ends(s)
  <2> DEFINE t == [s EXCEPT !.fragment = @ + 1, !.from = @ + PartAt(s)]
  <2>1. /\ t.item = s.item /\ t.fragment = s.fragment + 1 /\ t.from = s.from + PartAt(s) /\ t.no = s.no
        /\ t \in [item : Items, fragment : Nat, from : Nat, no : 0 .. FrameNos - 1]
    BY <1>7, CursorStep
  <2>2. t \in Cursors
    <3>1. t.from <= Size[t.item] /\ t.fragment # 0
      BY <1>7, <2>1
    <3> HIDE DEF t
    <3> QED
      BY <2>1, <3>1 DEF Cursors
  <2>3. /\ sending' = [sending EXCEPT !.fragment = @ + 1, !.from = @ + PartAt(s)]
        /\ sending'.fragment = s.fragment + 1 /\ sending'.from = s.from + PartAt(s)
        /\ sending'.item = s.item /\ sending' \in [item : Items, fragment : Nat, from : Nat]
    <3>1. sending \in [item : Items, fragment : Nat, from : Nat]
      BY <1>2 DEF SendingOK
    <3>2. /\ sending.fragment + 1 = s.fragment + 1 /\ sending.from + PartAt(s) = s.from + PartAt(s)
          /\ s.fragment + 1 \in Nat /\ s.from + PartAt(s) \in Nat
      BY <1>5, <1>7
    <3>3. sending' = [sending EXCEPT !.fragment = s.fragment + 1, !.from = s.from + PartAt(s)]
      BY <1>6, <1>9, <3>2
    <3> QED
      BY <1>5, <1>6, <1>9, <3>1, <3>2, <3>3
  <2>4. sending' # NotSending
    <3>1. sending'.fragment # 0
      BY <1>7, <2>3
    <3> QED
      BY <3>1 DEF NotSending
  <2>5. Source(t)'
    BY <1>2, <1>5, <2>1, <2>3, <2>4 DEF Source
  <2>6. Line(work', s, t)
    BY <1>2, <1>4, <1>9 DEF Line, Follows
  <2>7. StreamFrom(c)'
    BY <1>1, <1>2, <1>3, <2>2, <2>5, <2>6 DEF StreamFrom
  <2>8. SendingOK'
    BY <1>2, <2>3 DEF SendingOK
  <2> QED
    BY <2>7, <2>8
<1> QED
  BY <1>8, <1>9

LEMMA StreamBegins ==
  ASSUME NEW c, StreamFrom(c), SendingOK, NEW i \in Items, BeginFrame(i)
  PROVE  /\ SendingOK'
         /\ \E d \in Cursors : StreamFrom(d)' /\ Alike(c, d)
<1>1. /\ sending = NotSending /\ sending' = [NotSending EXCEPT !.item = i]
      /\ sentno' = NextNo(sentno) /\ UNCHANGED <<work, outbox>>
  BY DEF BeginFrame, NextNo, mbxvars, slavembx
<1>2. PICK w \in Cursors, s \in Cursors : Source(s) /\ Line(work, w, s) /\ Line(outbox, c, w)
  BY DEF StreamFrom
<1>3. s.fragment = 0 /\ s.from = 0 /\ s.no = NextNo(sentno)
  BY <1>1, <1>2, CursorIs DEF Source, NotSending
<1>4. sending' = [item |-> i, fragment |-> 0, from |-> 0] /\ i # "none"
  BY <1>1, EoeAssumption DEF NotSending
<1>5. sending' # NotSending
  BY <1>4 DEF NotSending
<1> DEFINE t == [item |-> i, fragment |-> 0, from |-> 0, no |-> s.no]
<1>6. t \in Cursors
  BY Sizes, CursorIs DEF Cursors
<1>7. Alike(s, t)
  BY <1>3 DEF Alike
<1>8. Source(t)'
  BY <1>1, <1>3, <1>4, <1>5 DEF Source
<1>9. PICK v \in Cursors : Line(work, v, t) /\ Alike(w, v)
  BY <1>2, <1>6, <1>7, LineAlike
<1>10. c \in Cursors
  BY DEF StreamFrom
<1>11. PICK d \in Cursors : Line(outbox, d, v) /\ Alike(c, d)
  BY <1>2, <1>9, <1>10, LineAlike
<1>12. StreamFrom(d)'
  BY <1>1, <1>6, <1>8, <1>9, <1>11 DEF StreamFrom
<1>13. SendingOK'
  <2>1. sentno' \in 0 .. FrameNos - 1
    BY <1>1, NextNoIs DEF SendingOK
  <2> QED
    BY <1>4, <2>1 DEF SendingOK
<1> QED
  BY <1>11, <1>12, <1>13

Quiet == UNCHANGED <<pc, mailboxes, callvars, rxvars, txframeno, txfragment>>
Kept == UNCHANGED <<outbox, sending, sentno>>
(* What the slave has of the frames it was sent does not change.           *)
Other == UNCHANGED <<inbox, lastcnt, stack, delivered>> \/ (inbox # Nothing /\ inbox.body.cmd # "eoe")
Answers == work = Nothing /\ work'.cmd # "eoe" /\ Kept
Served == Quiet /\ Other /\ (UNCHANGED stream \/ Answers)

LEMMA TakeServes ==
  ASSUME NEW answer, answer.cmd # "eoe", Take(answer), inbox.body.cmd # "eoe",
         UNCHANGED <<callvars, eoevars>>
  PROVE  Served
BY DEF Take, Served, Quiet, Kept, Other, Answers, eoevars, stackvars

LEMMA FileServerServes ==
  ASSUME FileServer, UNCHANGED eoevars
  PROVE  Served
<1>1. \E request, answer, after :
        /\ FoeServe(request, answer, after) /\ answer.cmd # "eoe"
        /\ request.cmd \in {"foeread", "foewrite", "foedata", "foeack"}
  <2>1. /\ \A f : FoeRead(f).cmd = "foeread" /\ FoeWrite(f).cmd = "foewrite"
        /\ \A k : FoeAck(k).cmd = "foeack"
        /\ \A k, data : FoeData(k, data).cmd = "foedata"
        /\ FoeBusy.cmd # "eoe" /\ FoeError.cmd # "eoe" /\ Nothing.cmd # "eoe"
    BY DEF FoeRead, FoeWrite, FoeAck, FoeData, FoeBusy, FoeError, Nothing
  <2>2. CASE \E f \in Items : ServeRead(f) \/ ServeWrite(f)
    BY <2>1, <2>2 DEF ServeRead, ServeWrite
  <2>3. CASE ServeAck
    <3>1. \E answer, after :
            /\ FoeServe(FoeAck(files.packet), answer, after)
            /\ answer = Nothing \/ \E k, data : answer = FoeData(k, data)
      BY <2>3 DEF ServeAck
    <3> QED
      BY <2>1, <3>1
  <2>4. CASE ServeData
    <3>1. /\ inbox.body.cmd = "foedata"
          /\ \E after : FoeServe(inbox.body, FoeAck(inbox.body.packet), after)
      BY <2>4 DEF ServeData
    <3> QED
      BY <2>1, <3>1
  <2>5. CASE ServeBusy \/ ServeError
    BY <2>1, <2>5 DEF ServeBusy, ServeError
  <2> QED
    BY <2>2, <2>3, <2>4, <2>5 DEF FileServer
<1> QED
  BY <1>1, TakeServes DEF FoeServe

LEMMA DriveServes ==
  ASSUME Drive, UNCHANGED eoevars
  PROVE  Served
<1>1. /\ \A i : SoeReadRequest(i).cmd = "soereadreq"
      /\ \A i, from : SoeResponse(i, from).cmd # "eoe"
      /\ SoeWriteResponse.cmd # "eoe" /\ SoeError.cmd # "eoe" /\ Nothing.cmd # "eoe"
  BY DEF SoeReadRequest, SoeResponse, SoeReadResponse, SoeWriteResponse, SoeError, Nothing
<1>2. CASE DropFragments
  BY <1>2 DEF DropFragments, mbxvars, slavembx, Served, Quiet, Other, stream, eoevars, stackvars
<1>3. CASE SendRest
  BY <1>1, <1>3 DEF SendRest, Served, Quiet, Kept, Other, Answers, eoevars, stackvars
<1>4. ASSUME NEW request, NEW answer, SoeServe(request, answer),
             request.cmd \in {"soereadreq", "soewritereq", "soefragment"}, answer.cmd # "eoe"
      PROVE  Served
  BY <1>4, TakeServes DEF SoeServe
<1>5. CASE \E i \in Items : ServeReadIDN(i)
  BY <1>1, <1>4, <1>5 DEF ServeReadIDN
<1>6. CASE ServeFragment \/ ServeWriteIDN \/ ServeSoeError
  BY <1>1, <1>4, <1>6 DEF ServeFragment, ServeWriteIDN, ServeSoeError
<1> QED
  BY <1>2, <1>3, <1>5, <1>6 DEF Drive

LEMMA InfoServerServes ==
  ASSUME InfoServer, UNCHANGED eoevars
  PROVE  Served
<1>1. /\ \A i : ListRequest(i).cmd # "eoe" /\ RxPdo(i).cmd # "eoe" /\ TxPdoRequest(i).cmd # "eoe"
      /\ \A i : DescriptionRequest(i).cmd # "eoe" /\ \A sub : EntryRequest(i, sub).cmd # "eoe"
      /\ \A i, from : Listed(i, from).cmd # "eoe"
      /\ \A i : TxPdo(i).cmd # "eoe" /\ Description(i).cmd # "eoe"
      /\ \A i, sub : Entry(i, sub).cmd # "eoe"
      /\ InfoError.cmd # "eoe" /\ Nothing.cmd # "eoe"
  BY DEF ListRequest, RxPdo, TxPdoRequest, DescriptionRequest, EntryRequest, Listed, ListFragment,
         TxPdo, Description, Entry, InfoError, Nothing
<1>2. CASE GiveUpList
  BY <1>2 DEF GiveUpList, mbxvars, slavembx, Served, Quiet, Other, stream, eoevars, stackvars
<1>3. CASE SendList
  BY <1>1, <1>3 DEF SendList, Served, Quiet, Kept, Other, Answers, eoevars, stackvars
<1>4. ASSUME NEW request, NEW answer, ServeInfo(request, answer),
             request.cmd # "eoe", answer.cmd # "eoe"
      PROVE  Served
  BY <1>4, TakeServes DEF ServeInfo
<1>5. ASSUME NEW i \in Items, ServeList(i) \/ ServeRxPdo(i) \/ ServeObject(i)
      PROVE  Served
  <2>1. \/ ServeInfo(ListRequest(i), Listed(i, 0))
        \/ ServeInfo(RxPdo(i), Nothing)
        \/ ServeInfo(TxPdoRequest(i), TxPdo(i))
        \/ ServeInfo(DescriptionRequest(i), Description(i))
        \/ \E sub : ServeInfo(EntryRequest(i, sub), Entry(i, sub))
    BY <1>5 DEF ServeList, ServeRxPdo, ServeObject
  <2> QED
    BY <1>1, <1>4, <2>1
<1>6. CASE ServeInfoError
  BY <1>1, <1>4, <1>6 DEF ServeInfoError
<1> QED
  BY <1>2, <1>3, <1>5, <1>6 DEF InfoServer

LEMMA StackServes ==
  ASSUME Stack
  PROVE  \/ Served
         \/ Quiet /\ TakeFragment /\ Answers
         \/ Quiet /\ Other /\ (SendFrame \/ \E i \in Items : BeginFrame(i))
<1>1. EoeIpSet.cmd # "eoe" /\ EoeIp(ip).cmd # "eoe" /\ EoeRefused.cmd # "eoe" /\ Nothing.cmd # "eoe"
  BY DEF EoeIpSet, EoeIp, EoeRefused, Nothing
<1>2. ASSUME NEW answer, EoeServe(answer), answer.cmd # "eoe"
      PROVE  Quiet /\ Answers
  BY <1>2 DEF EoeServe, Take, Quiet, Kept, Answers
<1>3. CASE TakeFragment
  <2>1. EoeServe(Nothing)
    BY <1>3 DEF TakeFragment
  <2> QED
    BY <1>1, <1>2, <1>3, <2>1
<1>4. CASE SetSlaveIp \/ TellSlaveIp \/ RefuseIp
  <2>1. inbox # Nothing /\ inbox.body.cmd # "eoe"
    BY <1>4 DEF SetSlaveIp, TellSlaveIp, RefuseIp, EoeGetIp
  <2>2. EoeServe(EoeIpSet) \/ EoeServe(EoeIp(ip)) \/ EoeServe(EoeRefused)
    BY <1>4 DEF SetSlaveIp, TellSlaveIp, RefuseIp
  <2>3. Quiet /\ Answers
    BY <1>1, <1>2, <2>2
  <2> QED
    BY <2>1, <2>3 DEF Served, Other
<1>5. CASE SendFrame
  BY <1>5 DEF SendFrame, Quiet, Other, rxvars
<1>6. CASE \E i \in Items : BeginFrame(i)
  BY <1>6 DEF BeginFrame, Quiet, Other, rxvars, mbxvars, slavembx
<1> QED
  BY <1>3, <1>4, <1>5, <1>6 DEF Stack

LEMMA ServerServes ==
  ASSUME Server
  PROVE  \/ Served
         \/ Quiet /\ TakeFragment /\ Answers
         \/ Quiet /\ Other /\ (SendFrame \/ \E i \in Items : BeginFrame(i))
BY FileServerServes, DriveServes, InfoServerServes, StackServes DEF Server, Foe, Soe, Eoe, Coe

(* The slave goes on, and the stream is still the one the caller is at.    *)
LEMMA StreamServed ==
  ASSUME NEW c, Upcoming(c), SendingOK,
         Server \/ (Slave /\ UNCHANGED <<callvars, eoevars>>)
  PROVE  /\ Quiet /\ SendingOK'
         /\ \E d \in Cursors : Upcoming(d)' /\ Alike(c, d)
<1>1. ASSUME NEW d, StreamFrom(d)
      PROVE  Quiet /\ SendingOK' /\ \E e \in Cursors : StreamFrom(e)' /\ Alike(d, e)
  <2>1. CASE Served \/ (Quiet /\ TakeFragment /\ Answers)
    <3>1. Quiet /\ UNCHANGED <<sending, sentno>>
      BY <2>1 DEF Served, Kept, Answers, stream
    <3>2. StreamFrom(d)'
      BY <1>1, <2>1, StreamStays, StreamAnswered DEF Served, Kept, Answers
    <3> QED
      BY <3>1, <3>2 DEF SendingOK, StreamFrom, Alike
  <2>2. CASE Quiet /\ (SendFrame \/ \E i \in Items : BeginFrame(i))
    BY <1>1, <2>2, StreamSent, StreamBegins DEF StreamFrom, Alike
  <2>3. CASE Slave /\ UNCHANGED <<callvars, eoevars>>
    <3>1. Quiet /\ UNCHANGED <<sending, sentno>>
      BY <2>3 DEF Slave, TakeCopy, PlaceReply, FallSilent, Quiet, eoevars, stackvars
    <3>2. StreamFrom(d)'
      BY <1>1, <2>3, <3>1, StreamStays, StreamPlaced DEF Slave, TakeCopy, FallSilent, stream
    <3> QED
      BY <3>1, <3>2 DEF SendingOK, StreamFrom, Alike
  <2> QED
    BY <2>1, <2>2, <2>3, ServerServes
<1>2. CASE pc = "received"
  <2>1. PICK d \in Cursors : StreamFrom(d) /\ Line(mbxin, c, d)
    BY <1>2 DEF Upcoming
  <2>2. PICK e \in Cursors : StreamFrom(e)' /\ Alike(d, e)
    BY <1>1, <2>1
  <2>3. c \in Cursors
    BY <1>2 DEF Upcoming
  <2>4. PICK b \in Cursors : Line(mbxin, b, e) /\ Alike(c, b)
    BY <2>1, <2>2, <2>3, LineAlike
  <2>5. Quiet /\ SendingOK'
    BY <1>1, <2>1
  <2>6. mbxin' = mbxin /\ pc' = pc
    BY <2>5 DEF Quiet, mailboxes
  <2> QED
    BY <1>2, <2>2, <2>4, <2>5, <2>6 DEF Upcoming
<1>3. CASE pc # "received"
  <2>1. Quiet /\ SendingOK' /\ \E e \in Cursors : StreamFrom(e)' /\ Alike(c, e)
    BY <1>1, <1>3 DEF Upcoming
  <2>2. pc' = pc
    BY <2>1 DEF Quiet
  <2> QED
    BY <1>3, <2>1, <2>2 DEF Upcoming
<1> QED
  BY <1>2, <1>3

-----------------------------------------------------------------------------
(* The master's steps: most leave the stream alone, some take its head.    *)
Leaves == UNCHANGED <<work, outbox>> /\ pc' # "received"
Drops == outbox' = Nothing /\ UNCHANGED work /\ pc \in {"drain", "draindrop", "receive"} /\ pc' # "received"

LEMMA PostLeaves ==
  ASSUME NEW body, Post(body)
  PROVE  Leaves
BY DEF Post, Goto, Leaves, slavembx

LEMMA ConcludeLeaves ==
  ASSUME NEW result, NEW label, Conclude(result, label), label # "received"
  PROVE  Leaves
BY DEF Conclude, Goto, Leaves, slavembx

LEMMA AwaitLeaves ==
  ASSUME AwaitReply
  PROVE  Leaves
BY DEF AwaitReply, Goto, Leaves, slavembx

LEMMA FoeMoves ==
  ASSUME FoeMaster
  PROVE  Leaves
<1>1. CASE FoeRequest
  BY <1>1, PostLeaves DEF FoeRequest, Ask
<1>2. CASE FoeAwaitReply \/ FoeGiveUp \/ RefusePacket \/ BusyAtOnce \/ FoeRefused
  BY <1>2, AwaitLeaves, ConcludeLeaves
     DEF FoeAwaitReply, FoeGiveUp, RefusePacket, BusyAtOnce, FoeRefused, GiveUp
<1>3. CASE TakePacket
  BY <1>3, PostLeaves DEF TakePacket
<1>4. ASSUME NEW from, NEW number, SendPacket(from, number), pc = "received"
      PROVE  Leaves
  <2>1. CASE Post(FoeData(number, Bytes(item, from, Least(Size[item] - from, MaxData))))
    BY <2>1, PostLeaves
  <2>2. CASE pc' = "finish" /\ UNCHANGED slavembx
    BY <2>2 DEF Leaves, slavembx
  <2> QED
    BY <1>4, <2>1, <2>2 DEF SendPacket, Goto
<1>5. CASE NextPacket \/ SameAgain
  BY <1>4, <1>5 DEF NextPacket, SameAgain
<1> QED
  BY <1>1, <1>2, <1>3, <1>5 DEF FoeMaster

LEMMA SoeMoves ==
  ASSUME SoeMaster
  PROVE  Leaves
<1>1. CASE SoeAwaitReply \/ SoeReadFails \/ FragmentTaken \/ WriteAnswered \/ WriteGoesOn
  BY <1>1, AwaitLeaves, ConcludeLeaves
     DEF SoeAwaitReply, SoeReadFails, FragmentTaken, WriteAnswered, WriteGoesOn, GiveUp
<1>2. CASE ReadIDN
  BY <1>2, PostLeaves DEF ReadIDN, Ask
<1>3. CASE CopyFragment \/ FragmentStuck
  BY <1>3 DEF CopyFragment, FragmentStuck, Goto, Leaves, slavembx
<1>4. CASE WriteFragment
  <2>1. \E body : Post(body)
    BY <1>4 DEF WriteFragment
  <2> QED
    BY <2>1, PostLeaves
<1> QED
  BY <1>1, <1>2, <1>3, <1>4 DEF SoeMaster

LEMMA EoeMoves ==
  ASSUME EoeMaster
  PROVE  Leaves /\ UNCHANGED <<sending, sentno>>
<1>1. CASE SendFragment
  <2>1. \E body : Post(body)
    BY <1>1 DEF SendFragment
  <2> QED
    BY <1>1, <2>1, PostLeaves DEF SendFragment, stackvars
<1>2. CASE FragmentSent \/ ReceiveFragment \/ IpAnswered
  BY <1>2 DEF FragmentSent, ReceiveFragment, IpAnswered, Goto, Leaves, slavembx, eoevars, stackvars
<1>3. CASE ReceiveRefused \/ ReadFragment \/ ReadRefused \/ AwaitIp \/ EoeGiveUp
  BY <1>3, AwaitLeaves, ConcludeLeaves
     DEF ReceiveRefused, ReadFragment, ReadRefused, AwaitIp, EoeGiveUp, GiveUp, eoevars, stackvars
<1>4. CASE AskIp
  BY <1>4, PostLeaves DEF AskIp, Ask, eoevars, stackvars
<1> QED
  BY <1>1, <1>2, <1>3, <1>4 DEF EoeMaster

LEMMA InfoMoves ==
  ASSUME InfoMaster
  PROVE  Leaves \/ Drops
<1>1. CASE DrainAndDrop
  BY <1>1 DEF DrainAndDrop, Goto, Leaves, Drops
<1>2. CASE AskInfo
  BY <1>2 DEF AskInfo, NoMailbox, AtEnd, Goto, Leaves, slavembx
<1>3. CASE PdoSent \/ AwaitInfo \/ InfoFails \/ InfoRefused
  BY <1>3, AwaitLeaves, ConcludeLeaves
     DEF PdoSent, AwaitInfo, InfoFails, InfoRefused, AtEnd
<1>4. ASSUME NEW function, NEW contents, NEW label, Gets(function, contents, label), label # "received"
      PROVE  Leaves
  BY <1>4 DEF Gets, Goto, Leaves, slavembx
<1>5. CASE TakeTxPdo \/ TakeDescription \/ TakeEntry
  BY <1>4, <1>5 DEF TakeTxPdo, TakeDescription, TakeEntry, AtEnd
<1>6. CASE TakeIndices
  <2>1. \E contents, label : Gets("odlist", contents, label) /\ label # "received"
    BY <1>6 DEF TakeIndices
  <2> QED
    BY <1>4, <2>1
<1>7. CASE EndEntry
  BY <1>7 DEF EndEntry, Goto, Leaves, slavembx
<1> QED
  BY <1>1, <1>2, <1>3, <1>5, <1>6, <1>7 DEF InfoMaster

LEMMA PdoMoves ==
  ASSUME PdoMaster
  PROVE  Leaves \/ Reads
<1>1. CASE EndOfMap
  BY <1>1, ConcludeLeaves DEF EndOfMap
<1> QED
  BY <1>1, PdoSteps

LEMMA TransportMoves ==
  ASSUME Transport
  PROVE  Leaves \/ Drops \/ Receive
<1>1. CASE FirstTry \/ WaitEmpty \/ WaitEmptyFails \/ Retry
  BY <1>1 DEF FirstTry, WaitEmpty, WaitEmptyFails, Retry, Leaves, slavembx
<1>2. CASE ReceiveLoses \/ ReceiveTimesOut
  BY <1>2 DEF ReceiveLoses, ReceiveTimesOut, Leaves, Drops, slavembx
<1> QED
  BY <1>1, <1>2 DEF Transport

LEMMA MasterMoves ==
  ASSUME MasterWorks
  PROVE  (Leaves \/ Drops \/ Receive \/ Reads) /\ UNCHANGED <<sending, sentno>>
<1>1. CASE Foe(FoeMaster) \/ Soe(SoeMaster) \/ Coe(InfoMaster) \/ Map(PdoMaster)
  BY <1>1, FoeMoves, SoeMoves, InfoMoves, PdoMoves DEF Foe, Soe, Coe, Map, eoevars, stackvars
<1>2. CASE Eoe(EoeMaster)
  BY <1>2, EoeMoves DEF Eoe
<1>3. CASE Shared(Drain \/ Finish)
  BY <1>3 DEF Shared, Drain, Finish, Goto, Leaves, Drops, slavembx, eoevars, stackvars
<1>4. CASE Shared(Transport /\ UNCHANGED callvars)
  BY <1>4, TransportMoves DEF Shared, eoevars, stackvars
<1> QED
  BY <1>1, <1>2, <1>3, <1>4 DEF MasterWorks

LEMMA StreamMoves ==
  ASSUME NEW c, Upcoming(c), MasterWorks
  PROVE  \E d \in Cursors : Upcoming(d)'
<1>1. CASE Leaves
  BY <1>1, MasterMoves, Consumed DEF Leaves, stream
<1>2. CASE Drops
  BY <1>2, MasterMoves, Dropped DEF Drops
<1>3. CASE Receive
  BY <1>3, MasterMoves, ReceivesNext
<1>4. CASE Reads
  BY <1>4, MasterMoves, ReadsOn
<1> QED
  BY <1>1, <1>2, <1>3, <1>4, MasterMoves

-----------------------------------------------------------------------------
(* ecx_EOErecv.  A call that loses a fragment fails at once, so what it    *)
(* has is what came before the place it is at.                             *)
RecvOK(c) ==
  /\ op # "eoerecv" => rx.fragment = 0
  /\ pc = "idle" => got = <<>> /\ op = "none"
  /\ op = "eoerecv" =>
       /\ pc # "sdoread"
       /\ rx.fragment \in Nat
       /\ pc \in {"receive", "received"} =>
            IF rx.fragment = 0 THEN got = <<>>
            ELSE ~cut => c.fragment = rx.fragment /\ got = Bytes(c.item, 0, c.from)
       /\ pc \in {"finish", "done"} /\ wkc /\ ~cut => IsFrame(got)

RecvInv == \E c \in Cursors : Upcoming(c) /\ RecvOK(c)

LEMMA RecvStays ==
  ASSUME NEW c \in Cursors, NEW d \in Cursors, RecvOK(c), Alike(c, d), Quiet
  PROVE  RecvOK(d)'
<1>1. UNCHANGED <<pc, op, got, wkc, rx, cut>>
  BY DEF Quiet, callvars, rxvars
<1>2. c.fragment # 0 => d = c
  BY DEF Alike
<1> QED
  BY <1>1, <1>2 DEF RecvOK

LEMMA FrontOfThree ==
  ASSUME NEW S, NEW a \in Seq(S), NEW b \in Seq(S), NEW t \in Seq(S)
  PROVE  SubSeq(a \o (b \o t), 1, Len(a \o (b \o t)) - Len(t)) = a \o b
<1> DEFINE all == a \o (b \o t)
           n == Len(all) - Len(t)
<1>1. Len(a) \in Nat /\ Len(b) \in Nat /\ Len(t) \in Nat
  BY LenProperties
<1>2. /\ a \o b \in Seq(S) /\ Len(a \o b) = Len(a) + Len(b)
      /\ \A k \in 1 .. Len(a) + Len(b) : (a \o b)[k] = IF k <= Len(a) THEN a[k] ELSE b[k - Len(a)]
  BY ConcatProperties, Zenon
<1>3. /\ b \o t \in Seq(S) /\ Len(b \o t) = Len(b) + Len(t)
      /\ \A k \in 1 .. Len(b) + Len(t) : (b \o t)[k] = IF k <= Len(b) THEN b[k] ELSE t[k - Len(b)]
  BY ConcatProperties, Zenon
<1>4. /\ all \in Seq(S) /\ Len(all) = Len(a) + Len(b \o t)
      /\ \A k \in 1 .. Len(a) + Len(b \o t) : all[k] = IF k <= Len(a) THEN a[k] ELSE (b \o t)[k - Len(a)]
  BY <1>3, ConcatProperties, Zenon
<1> HIDE DEF all
<1>5. n = Len(a) + Len(b) /\ n \in Nat /\ n <= Len(all)
  BY <1>1, <1>3, <1>4
<1> HIDE DEF n
<1>6. \A k \in 1 .. n : all[k] \in S
  <2>1. \A k \in 1 .. Len(all) : all[k] \in S
    BY <1>4, LenProperties
  <2> QED
    BY <1>1, <1>3, <1>4, <1>5, <2>1
<1>7. /\ SubSeq(all, 1, n) \in Seq(S)
      /\ Len(SubSeq(all, 1, n)) = IF 1 <= n THEN n - 1 + 1 ELSE 0
      /\ \A k \in 1 .. n - 1 + 1 : SubSeq(all, 1, n)[k] = all[1 + k - 1]
  <2>1. 1 \in Int /\ n \in Int
    BY <1>5
  <2> QED
    BY <1>6, <2>1, SubSeqProperties
<1>8. Len(SubSeq(all, 1, n)) = Len(a \o b)
  BY <1>2, <1>5, <1>7
<1>9. ASSUME NEW k \in 1 .. Len(a \o b)
      PROVE  SubSeq(all, 1, n)[k] = (a \o b)[k]
  <2>1. /\ k \in 1 .. n - 1 + 1 /\ 1 + k - 1 = k /\ k \in 1 .. Len(a) + Len(b)
        /\ k \in 1 .. Len(a) + Len(b \o t)
    BY <1>1, <1>2, <1>3, <1>5
  <2>2. SubSeq(all, 1, n)[k] = IF k <= Len(a) THEN a[k] ELSE (b \o t)[k - Len(a)]
    BY <1>4, <1>7, <2>1
  <2>3. CASE k <= Len(a)
    BY <1>2, <2>1, <2>2, <2>3
  <2>4. CASE ~(k <= Len(a))
    <3>1. k - Len(a) \in 1 .. Len(b) + Len(t) /\ k - Len(a) <= Len(b)
      BY <1>1, <2>1, <2>4
    <3> QED
      BY <1>2, <1>3, <2>1, <2>2, <2>4, <3>1
  <2> QED
    BY <2>3, <2>4
<1>10. SubSeq(all, 1, n) = a \o b
  BY <1>2, <1>7, <1>8, <1>9, SeqEqual
<1> QED
  BY <1>10 DEF all, n

(* What the data of a fragment adds to those before it.                    *)
LEMMA PieceJoins ==
  ASSUME NEW f, NEW c \in Cursors, IsAt(f, c)
  PROVE  /\ ~Ends(c) => ~f.last /\ Bytes(c.item, 0, c.from) \o f.data = Bytes(c.item, 0, c.from + PartAt(c))
         /\ Ends(c) => f.last /\ Unstamped(Bytes(c.item, 0, c.from) \o f.data, f) = Content(c.item)
<1> DEFINE before == Bytes(c.item, 0, c.from)
           data == Bytes(c.item, c.from, PartAt(c))
           stamp == [k \in 1 .. Stamp |-> "stamp"]
<1>1. c.item \in Items /\ c.from \in Nat /\ PartAt(c) \in Nat /\ Size[c.item] \in Nat
  BY CursorIs
<1>2. before \o data = Bytes(c.item, 0, c.from + PartAt(c))
  <2>1. 0 + c.from = c.from /\ 0 \in Int
    BY <1>1
  <2>2. before \o Bytes(c.item, 0 + c.from, PartAt(c)) = Bytes(c.item, 0, c.from + PartAt(c))
    BY <1>1, <2>1, BytesJoin, Zenon
  <2> QED
    BY <2>1, <2>2
<1>3. Ends(c) => before \o data = Content(c.item)
  <2>1. Ends(c) => c.from + PartAt(c) = Size[c.item]
    BY <1>1 DEF Ends
  <2> QED
    BY <1>2, <2>1 DEF Content
<1>4. before \in Seq(Data) /\ data \in Seq(Data)
  <2>1. 0 \in Int /\ c.from \in Int
    BY <1>1
  <2> QED
    BY <1>1, <2>1, BytesAre
<1> HIDE DEF before, data
<1>5. f.last = Ends(c)
  BY DEF IsAt
<1>6. CASE ~(f.last /\ f.stamped) /\ f.data = data
  BY <1>2, <1>3, <1>5, <1>6 DEF Unstamped, before
<1>7. CASE f.last /\ f.stamped /\ f.data = data \o stamp
  <2>1. SubSeq(before \o (data \o stamp), 1, Len(before \o (data \o stamp)) - Stamp) = before \o data
    <3> DEFINE Marks == Data \cup {"stamp"}
    <3>1. Stamp \in Nat
      BY EoeAssumption
    <3>2. stamp \in Seq(Marks) /\ Len(stamp) = Stamp
      <4>1. stamp \in [1 .. Stamp -> Marks]
        OBVIOUS
      <4>2. stamp \in Seq(Marks)
        BY <3>1, <4>1
      <4> QED
        BY <3>1, <4>1, <4>2
    <3>3. before \in Seq(Marks) /\ data \in Seq(Marks)
      BY <1>4
    <3> HIDE DEF stamp, Marks
    <3> QED
      BY <3>1, <3>2, <3>3, FrontOfThree
  <2> QED
    BY <1>3, <1>5, <1>7, <2>1 DEF Unstamped, before
<1> QED
  BY <1>6, <1>7 DEF IsAt, data

LEMMA RecvTakes ==
  ASSUME NEW c \in Cursors, Upcoming(c), RecvOK(c), ReceiveFragment, mbxin # Nothing
  PROVE  RecvInv'
<1>1. /\ pc = "received" /\ op = "eoerecv" /\ InSequence(mbxin) /\ op' = op /\ wkc' = TRUE
      /\ pc' \in {"finish", "receive"} /\ (pc' = "finish" <=> mbxin.last)
      /\ UNCHANGED stream
  BY DEF ReceiveFragment, Goto, stream, slavembx, stackvars
<1>2. PICK d \in Cursors : Upcoming(d)' /\ Line(mbxin, c, d)
  BY <1>1, Consumed
<1>3. IsAt(mbxin, c) /\ Follows(c, d)
  BY <1>1, <1>2 DEF Line, InSequence
<1>4. mbxin.fragment = c.fragment /\ (mbxin.last <=> Ends(c))
  BY <1>3 DEF IsAt
<1>5. /\ c.item \in Items /\ c.from \in Nat /\ c.fragment \in Nat /\ rx.fragment \in Nat
      /\ c.fragment = 0 => c.from = 0
  BY <1>1, CursorIs DEF RecvOK
<1>6. ~cut => got = Bytes(c.item, 0, c.from) /\ c.fragment = rx.fragment
  <2>1. CASE rx.fragment = 0
    <3>1. c.fragment = 0 /\ c.from = 0 /\ got = <<>>
      BY <1>1, <1>4, <1>5, <2>1 DEF InSequence, RecvOK
    <3>2. Bytes(c.item, 0, 0) = <<>>
      <4>1. \A len \in Int : len <= 0 => Bytes(c.item, 0, len) = <<>>
        BY <1>5, BytesNone
      <4> QED
        BY <4>1
    <3> QED
      BY <2>1, <3>1, <3>2
  <2>2. CASE rx.fragment # 0
    BY <1>1, <2>2 DEF RecvOK
  <2> QED
    BY <2>1, <2>2
<1> DEFINE fits == Len(got) + Len(mbxin.data) <= room
           data == IF fits THEN got \o mbxin.data ELSE got
<1>7. /\ got' = Unstamped(data, mbxin) /\ cut' = (cut \/ ~fits)
      /\ rx'.fragment = IF fits THEN rx.fragment + 1 ELSE rx.fragment
  BY DEF ReceiveFragment
<1>8. rx'.fragment \in Nat
  BY <1>5, <1>7
<1>9. ~cut' => got' = Unstamped(got \o mbxin.data, mbxin) /\ rx'.fragment = rx.fragment + 1 /\ ~cut
  BY <1>7
<1> HIDE DEF fits, data
<1>10. CASE Ends(c)
  <2>1. pc' = "finish"
    BY <1>1, <1>4, <1>10
  <2>2. ~cut' => got' = Content(c.item)
    BY <1>3, <1>6, <1>9, <1>10, PieceJoins
  <2> QED
    BY <1>1, <1>2, <1>5, <1>8, <2>1, <2>2 DEF RecvInv, RecvOK, IsFrame
<1>11. CASE ~Ends(c)
  <2>1. pc' = "receive" /\ ~mbxin.last
    BY <1>1, <1>4, <1>11
  <2>2. ~cut' => got' = Bytes(c.item, 0, c.from + PartAt(c))
    BY <1>3, <1>6, <1>9, <1>11, <2>1, PieceJoins DEF Unstamped
  <2>3. d.item = c.item /\ d.fragment = c.fragment + 1 /\ d.from = c.from + PartAt(c)
    <3>1. d = [c EXCEPT !.fragment = @ + 1, !.from = @ + PartAt(c)]
      BY <1>3, <1>11 DEF Follows
    <3>2. PartAt(c) \in Nat
      BY CursorIs
    <3> QED
      BY <3>1, <3>2, CursorStep
  <2>4. IF rx'.fragment = 0 THEN got' = <<>>
        ELSE ~cut' => d.fragment = rx'.fragment /\ got' = Bytes(d.item, 0, d.from)
    <3>1. CASE rx'.fragment = 0
      <4>1. ~fits /\ rx.fragment = 0
        BY <1>5, <1>7, <3>1
      <4>2. got' = got
        BY <1>7, <2>1, <4>1 DEF Unstamped, data
      <4> QED
        BY <1>1, <3>1, <4>1, <4>2 DEF RecvOK
    <3>2. CASE rx'.fragment # 0
      BY <1>6, <1>9, <2>2, <2>3, <3>2
    <3> QED
      BY <3>1, <3>2
  <2> QED
    BY <1>1, <1>2, <1>8, <2>1, <2>4 DEF RecvInv, RecvOK
<1> QED
  BY <1>10, <1>11

LEMMA OthersWork ==
  ASSUME KeptOK, MasterWorks, pc = "sdoread" => op # "eoerecv"
  PROVE  \/ Eoe(EoeMaster) /\ op = "eoerecv"
         \/ Shared(Drain \/ Finish)
         \/ Shared(Transport /\ UNCHANGED callvars)
         \/ op # "eoerecv" /\ op' = op /\ pc' # "idle" /\ rx' = rx
<1> DEFINE Alone == op # "eoerecv" /\ op' = op /\ pc' # "idle"
<1>1. ASSUME NEW body, Post(body)
      PROVE  pc' # "idle"
  BY <1>1 DEF Post, Goto
<1>2. ASSUME NEW result, NEW label, Conclude(result, label), label # "idle"
      PROVE  pc' # "idle" /\ op' = op
  BY <1>2 DEF Conclude, Goto
<1>3. ASSUME AwaitReply
      PROVE  pc' # "idle" /\ op' = op
  BY <1>3 DEF AwaitReply, Goto
<1>4. CASE Foe(FoeMaster)
  <2>1. FoeMaster /\ rx' = rx
    BY <1>4 DEF Foe, eoevars, rxvars
  <2>2. ASSUME FoeRequest
        PROVE  Alone
    BY <1>1, <2>2 DEF FoeRequest, Ask, callvars
  <2>3. ASSUME FoeAwaitReply \/ FoeGiveUp \/ RefusePacket \/ BusyAtOnce \/ FoeRefused
        PROVE  Alone
    BY <1>2, <1>3, <2>3 DEF FoeAwaitReply, FoeGiveUp, RefusePacket, BusyAtOnce, FoeRefused, GiveUp
  <2>4. ASSUME TakePacket
        PROVE  Alone
    BY <1>1, <2>4 DEF TakePacket
  <2>5. ASSUME NEW from, NEW number, SendPacket(from, number)
        PROVE  pc' # "idle"
    BY <1>1, <2>5 DEF SendPacket, Goto
  <2>6. ASSUME NextPacket \/ SameAgain
        PROVE  Alone
    BY <2>5, <2>6 DEF NextPacket, SameAgain
  <2> QED
    BY <2>1, <2>2, <2>3, <2>4, <2>6 DEF FoeMaster
<1>5. CASE Soe(SoeMaster)
  <2>1. SoeMaster /\ rx' = rx
    BY <1>5 DEF Soe, eoevars, rxvars
  <2>2. ASSUME SoeAwaitReply \/ SoeReadFails \/ FragmentTaken \/ WriteAnswered \/ WriteGoesOn
        PROVE  Alone
    BY <1>2, <1>3, <2>2
       DEF SoeAwaitReply, SoeReadFails, FragmentTaken, WriteAnswered, WriteGoesOn, GiveUp
  <2>3. ASSUME ReadIDN
        PROVE  Alone
    BY <1>1, <2>3 DEF ReadIDN, Ask, callvars
  <2>4. ASSUME CopyFragment \/ FragmentStuck
        PROVE  Alone
    BY <2>4 DEF CopyFragment, FragmentStuck, Goto
  <2>5. ASSUME WriteFragment
        PROVE  Alone
    <3>1. \E body : Post(body)
      BY <2>5 DEF WriteFragment
    <3> QED
      BY <1>1, <2>5, <3>1 DEF WriteFragment
  <2> QED
    BY <2>1, <2>2, <2>3, <2>4, <2>5 DEF SoeMaster
<1>6. CASE Eoe(EoeMaster) /\ op # "eoerecv"
  <2>1. EoeMaster
    BY <1>6 DEF Eoe
  <2>2. ASSUME SendFragment
        PROVE  Alone /\ rx' = rx
    <3>1. \E body : Post(body)
      BY <2>2 DEF SendFragment
    <3> QED
      BY <1>1, <1>6, <2>2, <3>1 DEF SendFragment, rxvars
  <2>3. ASSUME FragmentSent \/ IpAnswered
        PROVE  Alone /\ rx' = rx
    BY <1>6, <2>3 DEF FragmentSent, IpAnswered, Goto, eoevars, rxvars
  <2>4. ASSUME ReadFragment \/ ReadRefused \/ AwaitIp \/ EoeGiveUp
        PROVE  Alone /\ rx' = rx
    BY <1>2, <1>3, <1>6, <2>4
       DEF ReadFragment, ReadRefused, AwaitIp, EoeGiveUp, GiveUp, eoevars, rxvars
  <2>5. ASSUME AskIp
        PROVE  Alone /\ rx' = rx
    BY <1>1, <1>6, <2>5 DEF AskIp, Ask, callvars, eoevars, rxvars
  <2>6. ~ReceiveFragment /\ ~ReceiveRefused
    BY <1>6 DEF ReceiveFragment, ReceiveRefused
  <2> QED
    BY <2>1, <2>2, <2>3, <2>4, <2>5, <2>6 DEF EoeMaster
<1>7. CASE Coe(InfoMaster)
  <2>1. InfoMaster /\ rx' = rx
    BY <1>7 DEF Coe, eoevars, rxvars
  <2>2. op \in InfoCalls => op # "eoerecv"
    BY DEF InfoCalls, Receiving
  <2>3. ASSUME DrainAndDrop \/ EndEntry
        PROVE  Alone
    BY <2>2, <2>3 DEF DrainAndDrop, EndEntry, Goto, KeptOK, AppOK
  <2>4. ASSUME AskInfo
        PROVE  Alone
    BY <2>2, <2>4 DEF AskInfo, NoMailbox, AtEnd, Goto, callvars
  <2>5. ASSUME PdoSent \/ AwaitInfo \/ InfoFails \/ InfoRefused
        PROVE  Alone
    BY <1>2, <1>3, <2>2, <2>5 DEF PdoSent, AwaitInfo, InfoFails, InfoRefused, AtEnd, InfoCalls
  <2>6. ASSUME NEW function, NEW contents, NEW label, Gets(function, contents, label),
               label # "idle", function # "eoerecv"
        PROVE  Alone
    BY <2>6 DEF Gets, Goto
  <2>7. ASSUME TakeTxPdo \/ TakeDescription \/ TakeEntry
        PROVE  Alone
    BY <2>6, <2>7 DEF TakeTxPdo, TakeDescription, TakeEntry, AtEnd
  <2>8. ASSUME TakeIndices
        PROVE  Alone
    <3>1. \E contents, label : Gets("odlist", contents, label) /\ label # "idle"
      BY <2>8 DEF TakeIndices
    <3> QED
      BY <2>6, <3>1
  <2> QED
    BY <2>1, <2>3, <2>4, <2>5, <2>7, <2>8 DEF InfoMaster
<1>8. CASE Map(PdoMaster)
  <2>1. PdoMaster /\ rx' = rx
    BY <1>8 DEF Map, eoevars, rxvars
  <2>2. ASSUME Reads
        PROVE  Alone
    BY <2>1, <2>2 DEF Reads
  <2>3. ASSUME EndOfMap
        PROVE  Alone
    BY <1>2, <2>1, <2>3 DEF EndOfMap
  <2> QED
    BY <2>1, <2>2, <2>3, PdoSteps
<1> QED
  BY <1>4, <1>5, <1>6, <1>7, <1>8 DEF MasterWorks

(* In the master's other steps eoerecv gets nothing.                       *)
LEMMA RecvWorks ==
  ASSUME RecvInv, KeptOK, MasterWorks
  PROVE  RecvInv'
<1>1. PICK c \in Cursors : Upcoming(c) /\ RecvOK(c)
  BY DEF RecvInv
<1>2. CASE Eoe(EoeMaster) /\ op = "eoerecv"
  <2>1. CASE ReceiveFragment
    <3>1. mbxin # Nothing
      BY <2>1 DEF ReceiveFragment, KeptOK, HandsOK
    <3> QED
      BY <1>1, <2>1, <3>1, RecvTakes
  <2>2. CASE ReceiveRefused \/ EoeGiveUp
    <3>1. pc' = "finish" /\ wkc' = FALSE /\ UNCHANGED <<op, rx, got>>
      BY <2>2 DEF ReceiveRefused, EoeGiveUp, GiveUp, Conclude, Goto, eoevars, rxvars
    <3>2. PICK d \in Cursors : Upcoming(d)'
      BY <1>1, StreamMoves
    <3>3. RecvOK(d)'
      BY <1>1, <1>2, <3>1 DEF RecvOK
    <3> QED
      BY <3>2, <3>3 DEF RecvInv
  <2>3. ReceiveFragment \/ ReceiveRefused \/ EoeGiveUp
    BY <1>2 DEF Eoe, EoeMaster, SendFragment, FragmentSent, ReadFragment, ReadRefused, AskIp, AwaitIp,
                IpAnswered
  <2> QED
    BY <2>1, <2>2, <2>3
<1>3. CASE Shared(Drain \/ Finish)
  <2>1. /\ UNCHANGED <<op, got, wkc, rx, cut>> /\ pc' \notin {"idle", "receive", "received", "sdoread"}
        /\ pc' = "done" => pc = "finish"
        /\ pc' # "finish"
    BY <1>3 DEF Shared, Drain, Finish, Goto, callvars, eoevars, rxvars
  <2>2. PICK d \in Cursors : Upcoming(d)'
    BY <1>1, StreamMoves
  <2>3. RecvOK(d)'
    BY <1>1, <2>1 DEF RecvOK
  <2> QED
    BY <2>2, <2>3 DEF RecvInv
<1>4. CASE Shared(Transport /\ UNCHANGED callvars)
  <2>1. UNCHANGED <<op, got, wkc, rx, cut, sending, sentno>> /\ Transport
    BY <1>4 DEF Shared, callvars, eoevars, rxvars, stackvars
  <2>2. CASE Receive
    <3>1. Upcoming(c)'
      BY <1>1, <2>1, <2>2, ReceivesNext
    <3>2. pc = "receive" /\ pc' = "received"
      BY <2>2 DEF Receive
    <3>3. RecvOK(c)'
      BY <1>1, <2>1, <3>2 DEF RecvOK
    <3> QED
      BY <3>1, <3>3 DEF RecvInv
  <2>3. CASE ~Receive
    <3>1. pc' \in {"wait", "retry", "sent", "unsent", "unreceived"}
      BY <1>4, <2>3 DEF Shared, Transport, FirstTry, WaitEmpty, WaitEmptyFails, Retry, ReceiveLoses,
                        ReceiveTimesOut
    <3>2. PICK d \in Cursors : Upcoming(d)'
      BY <1>1, StreamMoves
    <3>3. RecvOK(d)'
      BY <1>1, <2>1, <3>1 DEF RecvOK
    <3> QED
      BY <3>2, <3>3 DEF RecvInv
  <2> QED
    BY <2>2, <2>3
<1>5. CASE op # "eoerecv" /\ op' = op /\ pc' # "idle" /\ rx'.fragment = 0
  <2>1. PICK d \in Cursors : Upcoming(d)'
    BY <1>1, StreamMoves
  <2> QED
    BY <1>5, <2>1 DEF RecvInv, RecvOK
<1>6. pc = "sdoread" => op # "eoerecv"
  BY <1>1 DEF RecvOK
<1>7. op # "eoerecv" => rx.fragment = 0
  BY <1>1 DEF RecvOK
<1> QED
  BY <1>2, <1>3, <1>4, <1>5, <1>6, <1>7, OthersWork
-----------------------------------------------------------------------------
(* Between the calls.                                                      *)
LEMMA EoeBegins ==
  ASSUME NEW function, NEW i, NEW size, Call(function, i, size)
  PROVE  \E bytes, first :
           /\ Begin(function, i, bytes, first) /\ UNCHANGED eoevars
           /\ first \in {"drain", "draindrop", "next", "receive", "sdoread"}
           /\ function \in {"eoerecv", "eoeread"} <=> first = "receive"
           /\ function = "eoesend" <=> first = "next"
BY DEF Call, Foe, Soe, Eoe, Coe, Map, FOEread, FOEwrite, SoEread, SoEwrite, EOEsend, EOErecv,
       EOEreadfragment, EOEsetIp, EOEgetIp, RxPDO, TxPDO, readODlist, readODdescription, readOE,
       Info, readPDOmap, readPDOmapCA, PdoBegin

LEMMA StreamBetween ==
  ASSUME NEW c, Upcoming(c), UNCHANGED stream, pc # "received", pc' # "received"
  PROVE  c \in Cursors /\ Upcoming(c)'
<1>1. PICK d \in Cursors : Upcoming(d)' /\ d = c
  BY Consumed
<1> QED
  BY <1>1

LEMMA BeginLeaves ==
  ASSUME NEW function, NEW i, NEW size, NEW first, Begin(function, i, size, first), first # "received",
         UNCHANGED eoevars
  PROVE  UNCHANGED stream /\ pc = "idle" /\ pc' = first /\ op' = function /\ UNCHANGED <<got, wkc, moved>>
BY DEF Begin, Goto, stream, slavembx, eoevars, stackvars

LEMMA ReturnLeaves ==
  ASSUME Returns
  PROVE  /\ UNCHANGED stream /\ pc = "done" /\ pc' = "idle" /\ op' = "none" /\ got' = <<>>
         /\ \/ EoeReturn
            \/ op \notin EoeOps /\ UNCHANGED eoevars
<1>1. CASE Eoe(EoeReturn)
  BY <1>1 DEF Eoe, EoeReturn, Return, Goto, stream, slavembx
<1>2. CASE Foe(FoeReturn) \/ Soe(SoeReturn) \/ Coe(InfoReturn) \/ Map(PdoReturn)
  <2>1. UNCHANGED eoevars
    BY <1>2 DEF Foe, Soe, Coe, Map
  <2>2. op \notin EoeOps
    BY <1>2 DEF Foe, Soe, Coe, Map, FoeReturn, SoeReturn, InfoReturn, PdoReturn, EoeOps,
             InfoCalls, Receiving, PdoCalls
  <2> QED
    BY <2>1, <2>2, ReturnsIs DEF Return, Goto, stream, slavembx, eoevars, stackvars
<1> QED
  BY <1>1, <1>2 DEF Returns

LEMMA SendingNext ==
  ASSUME NEW c, Upcoming(c), SendingOK, [Next]_vars
  PROVE  SendingOK'
<1>1. UNCHANGED <<sending, sentno>> => SendingOK'
  BY DEF SendingOK
<1>2. ASSUME NEW function \in application, NEW i \in Items, NEW size \in Rooms[i],
             Outside(Call(function, i, size))
      PROVE  SendingOK'
  BY <1>1, <1>2, EoeBegins DEF Outside, eoevars, stackvars
<1>3. CASE Master
  BY <1>1, <1>3, MasterMoves, ReturnLeaves DEF Master, stream
<1>4. CASE Outside(Server) \/ Outside(Shared(Slave /\ UNCHANGED callvars))
  BY <1>4, StreamServed DEF Outside, Shared
<1>5. CASE UNCHANGED vars
  BY <1>1, <1>5 DEF vars, eoevars, stackvars
<1> QED
  BY <1>2, <1>3, <1>4, <1>5 DEF Next

LEMMA RecvNext ==
  ASSUME RecvInv, SendingOK, KeptOK, [Next]_vars
  PROVE  RecvInv' /\ SendingOK'
<1>1. PICK c \in Cursors : Upcoming(c) /\ RecvOK(c)
  BY DEF RecvInv
<1>2. ASSUME NEW function \in application, NEW i \in Items, NEW size \in Rooms[i],
             Outside(Call(function, i, size))
      PROVE  RecvInv'
  <2>1. PICK bytes, first :
          /\ Begin(function, i, bytes, first) /\ UNCHANGED eoevars
          /\ first \in {"drain", "draindrop", "next", "receive", "sdoread"}
          /\ function \in {"eoerecv", "eoeread"} <=> first = "receive"
    BY <1>2, EoeBegins DEF Outside
  <2>2. UNCHANGED stream /\ pc = "idle" /\ pc' = first /\ op' = function /\ UNCHANGED <<got, rx>>
    BY <2>1, BeginLeaves DEF eoevars, rxvars
  <2>3. Upcoming(c)'
    BY <1>1, <2>1, <2>2, StreamBetween
  <2>4. RecvOK(c)'
    BY <1>1, <2>1, <2>2 DEF RecvOK
  <2> QED
    BY <2>3, <2>4 DEF RecvInv
<1>3. ASSUME Returns
      PROVE  RecvInv'
  <2>1. Upcoming(c)'
    BY <1>1, <1>3, ReturnLeaves, StreamBetween
  <2>2. rx'.fragment = 0
    BY <1>1, <1>3, ReturnLeaves DEF RecvOK, EoeReturn, EoeOps, eoevars, rxvars
  <2>3. RecvOK(c)'
    BY <1>3, <2>2, ReturnLeaves DEF RecvOK
  <2> QED
    BY <2>1, <2>3 DEF RecvInv
<1>4. ASSUME Outside(Server) \/ Outside(Shared(Slave /\ UNCHANGED callvars))
      PROVE  RecvInv'
  <2>1. Server \/ (Slave /\ UNCHANGED <<callvars, eoevars>>)
    BY <1>4 DEF Outside, Shared
  <2>2. Quiet /\ \E d \in Cursors : Upcoming(d)' /\ Alike(c, d)
    BY <1>1, <2>1, StreamServed
  <2> QED
    BY <1>1, <2>2, RecvStays DEF RecvInv
<1>5. ASSUME UNCHANGED vars
      PROVE  RecvInv'
  <2>1. Quiet /\ UNCHANGED stream /\ UNCHANGED <<pc, mbxin>>
    BY <1>5 DEF vars, Quiet, mbxvars, mailboxes, slavembx, eoevars, stackvars, stream
  <2>2. Upcoming(c)'
    BY <1>1, <2>1, UpcomingStays
  <2> QED
    BY <1>1, <2>1, <2>2, RecvStays DEF RecvInv, Alike
<1> QED
  BY <1>1, <1>2, <1>3, <1>4, <1>5, RecvWorks, SendingNext DEF Next, Master
-----------------------------------------------------------------------------
(* ecx_EOEreadfragment.  A mailbox that is lost costs a call, so the frame *)
(* that the slave is at is the one that the caller assembles, or one of    *)
(* the next ones, not so many that its number would come round.            *)
Same(c) ==
  /\ c.no = frame.no /\ c.fragment >= frame.fragment
  /\ c.fragment = frame.fragment /\ ~cut => frame.data = Bytes(c.item, 0, c.from)

Later(c, lost) == \E j \in 1 .. lost : c.no = frame.no + j \/ c.no = frame.no + j - FrameNos

Along(c, lost) == frame.fragment # 0 => Same(c) \/ Later(c, lost)

Lost ==
  IF pc \in {"finish", "done"} /\ wkc THEN 0
  ELSE IF pc \in {"unreceived", "finish", "done"} THEN failed + 1 ELSE failed

FrameOK ==
  /\ frame = [fragment |-> frame.fragment, no |-> frame.no, size |-> frame.size, data |-> frame.data]
  /\ frame.fragment \in Nat /\ frame.no \in 0 .. FrameNos - 1

FailedOK == failed \in 0 .. MaxFailed /\ (pc # "idle" => failed < MaxFailed)

ReadPlaces == {"idle", "receive", "received", "unreceived", "finish", "done"}

ReadOK ==
  /\ pc \in ReadPlaces /\ (op = "none" <=> pc = "idle")
  /\ FrameOK /\ FailedOK
  /\ ended # Nothing => op = "eoeread" /\ pc \in {"finish", "done"}
  /\ ended # Nothing /\ ~cut => IsFrame(ended.data)

ReadInv ==
  application = {"eoeread"} => ReadOK /\ \E c \in Cursors : Upcoming(c) /\ Along(c, Lost)

LEMMA FailedLess ==
  ASSUME FailedOK
  PROVE  /\ failed \in Nat /\ MaxFailed \in Nat /\ MaxFailed < FrameNos /\ FrameNos \in Nat
         /\ failed <= MaxFailed /\ (pc # "idle" => failed + 1 <= MaxFailed) /\ Lost \in Nat
BY TransfersAssumption, EoeAssumption DEF FailedOK, Lost

LEMMA AlongMore ==
  ASSUME NEW c, NEW lost \in Nat, NEW others \in Nat, lost <= others, Along(c, lost)
  PROVE  Along(c, others)
BY DEF Along, Later

LEMMA AlongAlike ==
  ASSUME FrameOK, NEW c \in Cursors, NEW d \in Cursors, NEW lost, Along(c, lost), Alike(c, d)
  PROVE  Along(d, lost)
<1>1. c.fragment \in Nat /\ frame.fragment \in Nat
  BY CursorIs DEF FrameOK
<1> QED
  BY <1>1 DEF Along, Same, Later, Alike

LEMMA AlongNext ==
  ASSUME FrameOK, FailedOK, pc # "idle", NEW m, NEW c \in Cursors, NEW d \in Cursors, Line(m, c, d),
         Along(c, failed)
  PROVE  Along(d, failed + 1)
<1>1. /\ failed \in Nat /\ MaxFailed \in Nat /\ FrameNos \in Nat /\ failed + 1 < FrameNos
  BY FailedLess
<1>2. /\ c.fragment \in Nat /\ c.no \in 0 .. FrameNos - 1 /\ frame.no \in 0 .. FrameNos - 1
      /\ frame.fragment \in Nat /\ PartAt(c) \in Nat /\ d.no \in 0 .. FrameNos - 1
  BY CursorIs DEF FrameOK
<1> SUFFICES ASSUME frame.fragment # 0
             PROVE  Same(d) \/ Later(d, failed + 1)
  BY DEF Along
<1>3. CASE m.cmd # "eoe"
  BY <1>1, <1>3, AlongMore DEF Line, Along
<1>4. CASE m.cmd = "eoe" /\ Ends(c)
  <2>1. d.no = c.no + 1 \/ d.no = c.no + 1 - FrameNos
    BY <1>2, <1>4, NextNoIs DEF Line, Follows
  <2>2. CASE Same(c)
    <3>1. d.no = frame.no + 1 \/ d.no = frame.no + 1 - FrameNos
      BY <2>1, <2>2 DEF Same
    <3> QED
      BY <1>1, <3>1 DEF Later
  <2>3. CASE Later(c, failed)
    <3>1. PICK j \in 1 .. failed : c.no = frame.no + j \/ c.no = frame.no + j - FrameNos
      BY <2>3 DEF Later
    <3>2. j + 1 \in 1 .. failed + 1
      BY <1>1
    <3>3. d.no = frame.no + (j + 1) \/ d.no = frame.no + (j + 1) - FrameNos
      BY <1>1, <1>2, <2>1, <3>1
    <3> QED
      BY <3>2, <3>3 DEF Later
  <2> QED
    BY <2>2, <2>3 DEF Along
<1>5. CASE m.cmd = "eoe" /\ ~Ends(c)
  <2>1. d.no = c.no /\ d.fragment = c.fragment + 1
    BY <1>2, <1>5, CursorStep DEF Line, Follows
  <2>2. CASE Same(c)
    BY <1>2, <2>1, <2>2 DEF Same
  <2>3. CASE Later(c, failed)
    BY <1>1, <2>1, <2>3 DEF Later
  <2> QED
    BY <2>2, <2>3 DEF Along
<1> QED
  BY <1>3, <1>4, <1>5

(* What the master does in a call of EoE.                                  *)
LEMMA EoeWorks ==
  ASSUME KeptOK, MasterWorks, op \in {"eoeread", "eoesend"}, pc # "sdoread"
  PROVE  \/ EoeMaster
         \/ (Drain \/ Finish) /\ UNCHANGED eoevars
         \/ Transport /\ UNCHANGED <<callvars, eoevars>>
<1>1. /\ op \notin {"foeread", "foewrite", "soeread", "soewrite", "readoe"} /\ op \notin InfoCalls
      /\ op \notin PdoCalls
  BY DEF InfoCalls, Receiving, PdoCalls
<1>2. ~FoeMaster
  BY <1>1 DEF FoeMaster, FoeRequest, FoeAwaitReply, FoeGiveUp, RefusePacket, BusyAtOnce, FoeRefused,
              TakePacket, NextPacket, SameAgain
<1>3. ~SoeMaster
  BY <1>1 DEF SoeMaster, SoeAwaitReply, ReadIDN, CopyFragment, FragmentStuck, SoeReadFails,
              FragmentTaken, WriteAnswered, WriteGoesOn, WriteFragment
<1>4. ~InfoMaster
  BY <1>1 DEF InfoMaster, DrainAndDrop, AskInfo, PdoSent, AwaitInfo, InfoFails, InfoRefused,
              TakeTxPdo, TakeIndices, TakeDescription, TakeEntry, EndEntry, KeptOK, AppOK, Receiving,
              InfoCalls
<1>5. ~PdoMaster
  BY <1>1, PdoSteps DEF Reads, EndOfMap
<1> QED
  BY <1>2, <1>3, <1>4, <1>5 DEF MasterWorks, Foe, Soe, Eoe, Coe, Map, Shared
(* Outside a call the master does nothing.                                 *)
LEMMA IdleWaits ==
  ASSUME op = "none", pc = "idle"
  PROVE  ~MasterWorks
<1>1. ~FoeMaster /\ ~SoeMaster /\ ~EoeMaster /\ ~InfoMaster /\ ~PdoMaster
  BY PdoSteps
     DEF FoeMaster, FoeRequest, FoeAwaitReply, FoeGiveUp, RefusePacket, BusyAtOnce, FoeRefused,
         TakePacket, NextPacket, SameAgain, SoeMaster, SoeAwaitReply, ReadIDN, CopyFragment,
         FragmentStuck, SoeReadFails, FragmentTaken, WriteAnswered, WriteGoesOn, WriteFragment,
         EoeMaster, SendFragment, FragmentSent, ReceiveFragment, ReceiveRefused, ReadFragment,
         ReadRefused, AskIp, AwaitIp, IpAnswered, EoeGiveUp, EoeOps,
         InfoMaster, DrainAndDrop, AskInfo, PdoSent, AwaitInfo, InfoFails, InfoRefused,
         TakeTxPdo, TakeIndices, TakeDescription, TakeEntry, EndEntry, Gets, Receiving, InfoCalls, Reads, EndOfMap
<1>2. ~Drain /\ ~Finish /\ ~Transport
  BY DEF Drain, Finish, Transport, FirstTry, WaitEmpty, WaitEmptyFails, Retry, Receive,
         ReceiveLoses, ReceiveTimesOut
<1> QED
  BY <1>1, <1>2 DEF MasterWorks, Foe, Soe, Eoe, Coe, Map, Shared

LEMMA ReadTakes ==
  ASSUME ReadOK, NEW c \in Cursors, Upcoming(c), Along(c, Lost), ReadFragment, UNCHANGED failed
  PROVE  ReadOK' /\ \E d \in Cursors : Upcoming(d)' /\ Along(d, Lost)'
<1>1. /\ pc = "received" /\ op = "eoeread" /\ mbxin.cmd = "eoe" /\ op' = op
      /\ pc' = "finish" /\ wkc' = TRUE /\ UNCHANGED stream
      /\ Begins(mbxin) \/ Continues(mbxin)
  BY DEF ReadFragment, Conclude, Goto, stream, slavembx, stackvars
<1>2. PICK d \in Cursors : Upcoming(d)' /\ Line(mbxin, c, d)
  BY <1>1, Consumed
<1>3. IsAt(mbxin, c) /\ Follows(c, d)
  BY <1>1, <1>2 DEF Line
<1>4. /\ mbxin.fragment = c.fragment /\ mbxin.no = c.no /\ (mbxin.last <=> Ends(c))
  BY <1>3 DEF IsAt
<1>5. /\ c.item \in Items /\ c.from \in Nat /\ c.fragment \in Nat /\ c.no \in 0 .. FrameNos - 1
      /\ c.fragment = 0 => c.from = 0
  BY CursorIs
<1>6. /\ FrameOK /\ failed \in Nat /\ Lost = failed /\ failed < FrameNos /\ FrameNos \in Nat
      /\ FailedOK
  BY <1>1, FailedLess DEF ReadOK, Lost
<1> DEFINE before == IF mbxin.fragment = 0
                     THEN [fragment |-> 0, no |-> mbxin.no, size |-> mbxin.pos * Block, data |-> <<>>]
                     ELSE frame
           fits == Len(before.data) + Len(mbxin.data) <= before.size
                     /\ Len(before.data) + Len(mbxin.data) <= room
           data == IF fits THEN before.data \o mbxin.data ELSE before.data
<1>7. /\ cut' = (cut \/ ~fits)
      /\ IF mbxin.last THEN frame' = NoFrame /\ ended' = [data |-> Unstamped(data, mbxin)]
         ELSE /\ frame' = [before EXCEPT !.data = data, !.fragment = IF fits THEN @ + 1 ELSE @]
              /\ ended' = ended
  BY DEF ReadFragment
<1>8. Bytes(c.item, 0, 0) = <<>>
  <2>1. \A len \in Int : len <= 0 => Bytes(c.item, 0, len) = <<>>
    BY <1>5, BytesNone
  <2> QED
    BY <2>1
<1>9. /\ before = [fragment |-> c.fragment, no |-> c.no, size |-> before.size, data |-> before.data]
      /\ ~cut => before.data = Bytes(c.item, 0, c.from)
  <2>1. CASE c.fragment = 0
    BY <1>4, <1>5, <1>8, <2>1
  <2>2. CASE c.fragment # 0
    <3>1. before = frame /\ frame.fragment = c.fragment /\ frame.no = c.no
      BY <1>1, <1>4, <2>2 DEF Begins, Continues
    <3>2. ~Later(c, Lost)
      BY <1>5, <1>6, <3>1 DEF Later
    <3>3. ~cut => frame.data = Bytes(c.item, 0, c.from)
      BY <2>2, <3>1, <3>2 DEF Along, Same
    <3> QED
      BY <1>6, <3>1, <3>3 DEF FrameOK
  <2> QED
    BY <2>1, <2>2
<1>10. ended = Nothing
  BY <1>1 DEF ReadOK
<1>11. Lost' = 0 /\ FailedOK'
  BY <1>1, <1>6 DEF Lost, FailedOK
<1>12. ~cut' => ~cut /\ data = Bytes(c.item, 0, c.from) \o mbxin.data
  BY <1>7, <1>9
<1>13. CASE Ends(c)
  <2>1. frame' = NoFrame /\ ended' = [data |-> Unstamped(data, mbxin)]
    BY <1>4, <1>7, <1>13
  <2>2. FrameOK' /\ frame'.fragment = 0
    BY <1>6, <2>1 DEF FrameOK, NoFrame
  <2>3. ~cut' => IsFrame(ended'.data)
    BY <1>3, <1>5, <1>12, <1>13, <2>1, PieceJoins DEF IsFrame
  <2>4. ReadOK'
    BY <1>1, <1>11, <2>2, <2>3 DEF ReadOK, ReadPlaces
  <2> QED
    BY <1>2, <2>2, <2>4 DEF Along
<1>14. CASE ~Ends(c)
  <2>1. frame' = [before EXCEPT !.data = data, !.fragment = IF fits THEN @ + 1 ELSE @] /\ ended' = ended
    BY <1>4, <1>7, <1>14
  <2>2. (~cut' => fits /\ data = Bytes(c.item, 0, c.from + PartAt(c))) /\ fits \in BOOLEAN
    BY <1>3, <1>7, <1>12, <1>14, PieceJoins
  <2> HIDE DEF data, fits
  <2>3. frame' = [fragment |-> IF fits THEN c.fragment + 1 ELSE c.fragment, no |-> c.no,
                  size |-> before.size, data |-> data]
    <3> HIDE DEF before
    <3>1. PICK size, old : before = [fragment |-> c.fragment, no |-> c.no, size |-> size, data |-> old]
      BY <1>9
    <3> DEFINE to == IF fits THEN c.fragment + 1 ELSE c.fragment
    <3>2. before.fragment = c.fragment /\ before.size = size
      BY <3>1
    <3>3. frame' = [before EXCEPT !.data = data, !.fragment = to]
      BY <2>1, <3>2
    <3> HIDE DEF to
    <3>4. [before EXCEPT !.data = data, !.fragment = to] = [[before EXCEPT !.data = data] EXCEPT !.fragment = to]
      BY <3>1
    <3>5. [before EXCEPT !.data = data] = [fragment |-> c.fragment, no |-> c.no, size |-> size, data |-> data]
      BY <3>1
    <3>6. [[fragment |-> c.fragment, no |-> c.no, size |-> size, data |-> data] EXCEPT !.fragment = to]
          = [fragment |-> to, no |-> c.no, size |-> size, data |-> data]
      OBVIOUS
    <3>7. frame' = [fragment |-> to, no |-> c.no, size |-> size, data |-> data]
      BY <3>3, <3>4, <3>5, <3>6
    <3> QED
      BY <3>2, <3>7 DEF to
  <2>4. /\ frame'.fragment = (IF fits THEN c.fragment + 1 ELSE c.fragment) /\ frame'.no = c.no
        /\ frame'.data = data /\ FrameOK'
    <3> HIDE DEF before
    <3> QED
      BY <1>5, <2>3 DEF FrameOK
  <2>5. d.item = c.item /\ d.fragment = c.fragment + 1 /\ d.from = c.from + PartAt(c) /\ d.no = c.no
    <3>1. d = [c EXCEPT !.fragment = @ + 1, !.from = @ + PartAt(c)]
      BY <1>3, <1>14 DEF Follows
    <3>2. PartAt(c) \in Nat
      BY CursorIs
    <3> QED
      BY <3>1, <3>2, CursorStep
  <2>6. Same(d)'
    BY <1>5, <2>2, <2>4, <2>5 DEF Same
  <2>7. ReadOK'
    BY <1>1, <1>10, <1>11, <2>1, <2>4 DEF ReadOK, ReadPlaces
  <2> QED
    BY <1>2, <2>6, <2>7 DEF Along
<1> QED
  BY <1>13, <1>14

(* Nothing is read.                                                        *)
LEMMA ReadWaits ==
  ASSUME ReadOK, pc' \in ReadPlaces, op' = op, UNCHANGED <<frame, cut, failed>>,
         pc # "idle", pc' # "idle", op = "eoeread",
         ended' = ended, pc' \in {"finish", "done"} \/ ended = Nothing
  PROVE  ReadOK'
BY DEF ReadOK, FrameOK, FailedOK

LEMMA ReadWorks ==
  ASSUME ReadInv, KeptOK, MasterWorks, application = {"eoeread"}, UNCHANGED <<application, failed>>
  PROVE  ReadInv'
<1>1. PICK c \in Cursors : Upcoming(c) /\ Along(c, Lost) /\ ReadOK
  BY DEF ReadInv
<1> SUFFICES ReadOK' /\ \E d \in Cursors : Upcoming(d)' /\ Along(d, Lost)'
  BY DEF ReadInv
<1>2. op \in {"none", "eoeread"} /\ pc \in ReadPlaces
  BY <1>1 DEF KeptOK, AppOK, ReadOK
<1>3. op = "eoeread" /\ pc # "idle"
  BY <1>1, <1>2, IdleWaits DEF ReadOK
<1>4. FailedOK /\ FrameOK /\ failed \in Nat /\ failed + 1 \in Nat
  BY <1>1, FailedLess DEF ReadOK
<1>5. CASE ReadFragment
  BY <1>1, <1>5, ReadTakes
<1>6. CASE ReadRefused
  <2>1. /\ pc = "received" /\ pc' = "finish" /\ wkc' = FALSE /\ op' = op /\ UNCHANGED <<ended, cut>>
        /\ UNCHANGED stream
        /\ frame' = IF mbxin.cmd = "eoe" THEN NoFrame ELSE frame
    BY <1>6 DEF ReadRefused, Conclude, Goto, stream, slavembx, stackvars
  <2>2. PICK d \in Cursors : Upcoming(d)' /\ Line(mbxin, c, d)
    BY <1>1, <2>1, Consumed
  <2>3. Lost = failed /\ Lost' = failed + 1 /\ ended = Nothing
    BY <1>1, <2>1 DEF Lost, ReadOK
  <2>4. FrameOK'
    BY <1>4, <2>1, EoeAssumption DEF FrameOK, NoFrame
  <2>5. Along(d, failed + 1)'
    <3>1. CASE mbxin.cmd = "eoe"
      BY <2>1, <3>1 DEF Along, NoFrame
    <3>2. CASE mbxin.cmd # "eoe"
      <4>1. Along(d, failed + 1)
        BY <1>1, <1>4, <2>2, <2>3, <3>2, AlongMore DEF Line
      <4> QED
        BY <2>1, <3>2, <4>1 DEF Along, Same, Later
    <3> QED
      BY <3>1, <3>2
  <2>6. ReadOK'
    BY <1>1, <1>3, <2>1, <2>3, <2>4 DEF ReadOK, ReadPlaces, FailedOK
  <2> QED
    BY <2>2, <2>3, <2>5, <2>6 DEF Along, Later
<1>7. CASE EoeGiveUp \/ (Finish /\ UNCHANGED eoevars)
  <2>1. /\ UNCHANGED stream /\ UNCHANGED <<op, frame, ended, cut>>
        /\ \/ pc = "unreceived" /\ pc' = "finish" /\ wkc' = FALSE
           \/ pc = "finish" /\ pc' = "done" /\ wkc' = wkc
    BY <1>2, <1>7 DEF EoeGiveUp, GiveUp, Conclude, Finish, Goto, ReadPlaces, stream, slavembx, eoevars,
                      rxvars, stackvars, callvars
  <2>2. Upcoming(c)'
    BY <1>1, <2>1, StreamBetween
  <2>3. Lost' = Lost
    BY <2>1 DEF Lost
  <2>4. Along(c, Lost)'
    BY <1>1, <2>1, <2>3 DEF Along, Same, Later
  <2>5. ReadOK'
    BY <1>1, <1>3, <2>1, ReadWaits DEF ReadPlaces
  <2> QED
    BY <2>2, <2>4, <2>5
<1>8. CASE Transport /\ UNCHANGED <<callvars, eoevars>>
  <2>1. UNCHANGED <<op, wkc, frame, ended, cut, sending, sentno>>
    BY <1>8 DEF callvars, eoevars, rxvars, stackvars
  <2>2. CASE Receive
    <3>1. Upcoming(c)' /\ pc = "receive" /\ pc' = "received"
      BY <1>1, <2>1, <2>2, ReceivesNext DEF Receive
    <3>2. Lost = failed /\ Lost' = failed
      BY <3>1 DEF Lost
    <3>3. Along(c, Lost)'
      BY <1>1, <2>1, <3>2 DEF Along, Same, Later
    <3>4. ReadOK'
      BY <1>1, <1>3, <2>1, <3>1, ReadWaits DEF ReadPlaces, ReadOK
    <3> QED
      BY <3>1, <3>3, <3>4
  <2>3. CASE ReceiveLoses \/ ReceiveTimesOut
    <3>1. pc = "receive" /\ pc' = "unreceived"
      BY <2>3 DEF ReceiveLoses, ReceiveTimesOut
    <3>2. Lost = failed /\ Lost' = failed + 1
      BY <3>1 DEF Lost
    <3>3. PICK d \in Cursors : Upcoming(d)' /\ (Line(outbox, c, d) \/ d = c)
      <4>1. CASE ReceiveLoses
        <5>1. outbox' = Nothing /\ UNCHANGED <<work, sending, sentno>>
          BY <2>1, <4>1 DEF ReceiveLoses
        <5> QED
          BY <1>1, <3>1, <5>1, Dropped
      <4>2. CASE ReceiveTimesOut
        <5>1. UNCHANGED stream
          BY <2>1, <4>2 DEF ReceiveTimesOut, stream, slavembx
        <5> QED
          BY <1>1, <3>1, <5>1, StreamBetween
      <4> QED
        BY <2>3, <4>1, <4>2
    <3>4. Along(d, failed + 1)
      BY <1>1, <1>3, <1>4, <3>2, <3>3, AlongNext, AlongMore
    <3>5. Along(d, Lost)'
      BY <2>1, <3>2, <3>4 DEF Along, Same, Later
    <3>6. ReadOK'
      BY <1>1, <1>3, <2>1, <3>1, ReadWaits DEF ReadPlaces, ReadOK
    <3> QED
      BY <3>3, <3>5, <3>6
  <2> QED
    BY <1>2, <1>8, <2>2, <2>3 DEF Transport, FirstTry, WaitEmpty, WaitEmptyFails, Retry, ReadPlaces
<1> QED
  <2>1. ~Drain /\ pc # "sdoread"
    BY <1>2 DEF Drain, ReadPlaces
  <2>2. EoeMaster => ReadFragment \/ ReadRefused \/ EoeGiveUp
    BY <1>3 DEF EoeMaster, SendFragment, FragmentSent, ReceiveFragment, ReceiveRefused, AskIp, AwaitIp,
                IpAnswered
  <2> QED
    <3>1. \/ EoeMaster
          \/ (Drain \/ Finish) /\ UNCHANGED eoevars
          \/ Transport /\ UNCHANGED <<callvars, eoevars>>
      BY <1>3, <2>1, EoeWorks
    <3> QED
      BY <1>5, <1>6, <1>7, <1>8, <2>1, <2>2, <3>1
LEMMA ReadStays ==
  ASSUME ReadOK, NEW c \in Cursors, NEW d \in Cursors, Along(c, Lost), Alike(c, d), Quiet, failed' = failed
  PROVE  ReadOK' /\ Along(d, Lost)'
<1>1. UNCHANGED <<pc, op, wkc, frame, ended, cut, failed>>
  BY DEF Quiet, callvars, rxvars
<1>2. Along(d, Lost)
  BY AlongAlike DEF ReadOK
<1>3. Lost' = Lost
  BY <1>1 DEF Lost
<1>4. Along(d, Lost)'
  BY <1>1, <1>2, <1>3 DEF Along, Same, Later
<1> QED
  BY <1>1, <1>4 DEF ReadOK, FrameOK, FailedOK

LEMMA ReadNext ==
  ASSUME ReadInv, SendingOK, KeptOK, [Next]_vars
  PROVE  ReadInv'
<1>1. application' = application
  BY DEF Next, Master, Outside, vars
<1> SUFFICES ASSUME application = {"eoeread"}
             PROVE  ReadOK' /\ \E d \in Cursors : Upcoming(d)' /\ Along(d, Lost)'
  BY <1>1 DEF ReadInv
<1>2. PICK c \in Cursors : Upcoming(c) /\ Along(c, Lost) /\ ReadOK
  BY DEF ReadInv
<1>3. ASSUME NEW function \in application, NEW i \in Items, NEW size \in Rooms[i], failed < MaxFailed,
             Outside(Call(function, i, size))
      PROVE  ReadOK' /\ \E d \in Cursors : Upcoming(d)' /\ Along(d, Lost)'
  <2>1. PICK bytes, first :
          /\ Begin(function, i, bytes, first) /\ UNCHANGED eoevars
          /\ function \in {"eoerecv", "eoeread"} <=> first = "receive"
    BY <1>3, EoeBegins DEF Outside
  <2>2. function = "eoeread" /\ first = "receive"
    BY <2>1
  <2>3. /\ UNCHANGED stream /\ pc = "idle" /\ pc' = "receive" /\ op' = "eoeread"
        /\ UNCHANGED <<frame, ended, cut, failed>>
    BY <1>3, <2>1, <2>2, BeginLeaves DEF eoevars, rxvars, Outside
  <2>4. Upcoming(c)'
    BY <1>2, <2>3, StreamBetween
  <2>5. Lost' = Lost
    BY <2>3 DEF Lost
  <2>6. Along(c, Lost)'
    BY <1>2, <2>3, <2>5 DEF Along, Same, Later
  <2>7. ReadOK'
    BY <1>2, <1>3, <2>3 DEF ReadOK, FrameOK, FailedOK, ReadPlaces
  <2> QED
    BY <2>4, <2>6, <2>7
<1>4. ASSUME Returns
      PROVE  ReadOK' /\ \E d \in Cursors : Upcoming(d)' /\ Along(d, Lost)'
  <2>1. /\ UNCHANGED stream /\ pc = "done" /\ pc' = "idle" /\ op' = "none"
        /\ failed' = IF wkc THEN 0 ELSE failed + 1
    BY <1>4, ReturnLeaves DEF Returns
  <2>2. op = "eoeread"
    BY <1>2, <2>1 DEF KeptOK, AppOK, ReadOK
  <2>3. frame' = frame /\ ended' = Nothing /\ cut' = (frame.fragment # 0 /\ cut)
    BY <1>4, <2>2, ReturnLeaves DEF EoeReturn, EoeOps
  <2>4. Upcoming(c)'
    BY <1>2, <2>1, StreamBetween
  <2>5. Lost' = Lost
    BY <2>1 DEF Lost
  <2>6. Along(c, Lost)'
    BY <1>2, <2>3, <2>5 DEF Along, Same, Later
  <2>7. FailedOK'
    BY <1>2, <2>1, FailedLess DEF ReadOK, FailedOK
  <2>8. ReadOK'
    BY <1>2, <2>1, <2>3, <2>7 DEF ReadOK, FrameOK, ReadPlaces
  <2> QED
    BY <2>4, <2>6, <2>8
<1>5. ASSUME Outside(Server) \/ Outside(Shared(Slave /\ UNCHANGED callvars))
      PROVE  ReadOK' /\ \E d \in Cursors : Upcoming(d)' /\ Along(d, Lost)'
  <2>1. Server \/ (Slave /\ UNCHANGED <<callvars, eoevars>>)
    BY <1>5 DEF Outside, Shared
  <2>2. failed' = failed
    BY <1>5 DEF Outside
  <2>3. Quiet /\ \E d \in Cursors : Upcoming(d)' /\ Alike(c, d)
    BY <1>2, <2>1, StreamServed
  <2> QED
    BY <1>2, <2>2, <2>3, ReadStays
<1>6. ASSUME UNCHANGED vars
      PROVE  ReadOK' /\ \E d \in Cursors : Upcoming(d)' /\ Along(d, Lost)'
  <2>1. Quiet /\ UNCHANGED stream /\ UNCHANGED <<pc, mbxin, failed>>
    BY <1>6 DEF vars, Quiet, mbxvars, mailboxes, slavembx, eoevars, stackvars, stream
  <2>2. Upcoming(c)'
    BY <1>2, <2>1, UpcomingStays
  <2> QED
    BY <1>2, <2>1, <2>2, ReadStays DEF Alike
<1>7. ASSUME MasterWorks, failed' = failed
      PROVE  ReadOK' /\ \E d \in Cursors : Upcoming(d)' /\ Along(d, Lost)'
  <2>1. ReadInv'
    BY <1>1, <1>7, ReadWorks
  <2> QED
    BY <1>1, <2>1 DEF ReadInv
<1> QED
  BY <1>3, <1>4, <1>5, <1>6, <1>7 DEF Next, Master

(* Without calls of ecx_EOEreadfragment it has returned nothing.           *)
EndedOK == "eoeread" \notin application => ended = Nothing

LEMMA EndedNext ==
  ASSUME EndedOK, KeptOK, [Next]_vars
  PROVE  EndedOK'
<1>1. application' = application
  BY DEF Next, Master, Outside, vars
<1> SUFFICES ASSUME "eoeread" \notin application
             PROVE  ended' = ended \/ ended' = Nothing
  BY <1>1 DEF EndedOK
<1>2. op # "eoeread"
  BY DEF KeptOK, AppOK
<1>3. UNCHANGED eoevars => ended' = ended
  BY DEF eoevars, rxvars
<1>4. ASSUME NEW function \in application, NEW i \in Items, NEW size \in Rooms[i],
             Outside(Call(function, i, size))
      PROVE  ended' = ended
  BY <1>3, <1>4, EoeBegins DEF Outside
<1>5. CASE Returns
  BY <1>3, <1>5, ReturnLeaves DEF EoeReturn
<1>6. CASE Foe(FoeMaster) \/ Soe(SoeMaster) \/ Coe(InfoMaster) \/ Map(PdoMaster) \/ Shared(Drain \/ Finish)
           \/ Shared(Transport /\ UNCHANGED callvars)
  BY <1>3, <1>6 DEF Foe, Soe, Coe, Map, Shared
<1>7. CASE Eoe(EoeMaster)
  BY <1>2, <1>7 DEF Eoe, EoeMaster, SendFragment, FragmentSent, ReceiveFragment, ReceiveRefused,
                    ReadFragment, ReadRefused, AskIp, AwaitIp, IpAnswered, EoeGiveUp, eoevars, rxvars
<1>8. CASE Outside(Server)
  <2>1. Quiet
    BY <1>8, ServerServes DEF Outside, Served
  <2> QED
    BY <2>1 DEF Quiet, rxvars
<1>9. CASE Outside(Shared(Slave /\ UNCHANGED callvars))
  BY <1>3, <1>9 DEF Outside, Shared
<1>10. CASE UNCHANGED vars
  BY <1>3, <1>10 DEF vars
<1> QED
  BY <1>4, <1>5, <1>6, <1>7, <1>8, <1>9, <1>10 DEF Next, Master, MasterWorks
-----------------------------------------------------------------------------
(* ecx_EOEsend.  What counts is what the slave has once it has taken the   *)
(* fragment in its mailbox, if this is not a copy of the last one.         *)
Joins(f) ==
  \/ f.fragment = 0
  \/ f.fragment = stack.fragment /\ f.no = stack.no /\ f.pos * Block = Len(stack.data)
Joined(f) == IF f.fragment = 0 THEN f.data ELSE stack.data \o f.data

StackWith(f) ==
  IF Joins(f) /\ ~f.last
  THEN [fragment |-> f.fragment + 1, no |-> f.no, size |-> 0, data |-> Joined(f)] ELSE NoFrame
DeliveredWith(f) == IF Joins(f) /\ f.last THEN Joined(f) ELSE delivered

Pending == inbox # Nothing /\ inbox.cnt # lastcnt
StackThen == IF Pending THEN StackWith(inbox.body) ELSE stack
DeliveredThen == IF Pending THEN DeliveredWith(inbox.body) ELSE delivered
NewestCnt == IF inbox = Nothing THEN lastcnt ELSE inbox.cnt

InboxOK == inbox # Nothing => inbox.body.cmd = "eoe" /\ inbox.cnt \in 1 .. MaxCnt

(* The fragment that is sent, and what the slave has before and after it.  *)
Piece ==
  Fragment(txfragment, IF txfragment = 0 THEN Blocks(Size[item]) ELSE moved \div Block,
           txframeno, ~more, FALSE, Bytes(item, moved, FragmentSize))

StackHas(number, to) ==
  StackThen.fragment = number /\ StackThen.no = txframeno /\ StackThen.data = Bytes(item, 0, to)

HasSent == txfragment # 0 => StackHas(txfragment, moved)
HasPiece ==
  IF more THEN StackHas(txfragment + 1, moved + FragmentSize) ELSE DeliveredThen = Content(item)

MovedOK ==
  /\ txfragment \in Nat /\ \E m \in Nat : moved = m * Block
  /\ moved <= Size[item]
  /\ txfragment = 0 => moved = 0

(* A request of the caller's that got lost is less than a round behind.    *)
Behind(most) == \E g \in 0 .. most : mbxcnt = NewestCnt + g \/ mbxcnt = NewestCnt + g - MaxCnt

Most ==
  IF pc = "sent" \/ (pc \in {"finish", "done"} /\ wkc) THEN 0
  ELSE IF pc \in Posted \cup {"unsent", "finish", "done"} THEN failed + 1 ELSE failed

Placed == NewestCnt = mbxcnt

SendPlaces == {"idle", "next", "sent", "unsent", "finish", "done", "crashed"} \cup Posted

SendOK ==
  /\ pc \in SendPlaces /\ (op = "none" <=> pc = "idle")
  /\ FailedOK /\ InboxOK /\ MovedOK
  /\ mbxcnt \in 0 .. MaxCnt /\ lastcnt \in 0 .. MaxCnt
  /\ Behind(Most)
  /\ pc = "idle" => txfragment = 0
  /\ pc = "next" => HasSent
  /\ pc \in Posted \cup {"sent"} => more = (FragmentSize # Rest)
  /\ pc \in Posted => /\ mbxout = [cnt |-> mbxcnt, body |-> Piece] /\ mbxcnt # 0
                      /\ IF Placed THEN HasPiece ELSE HasSent
  /\ pc = "sent" => HasPiece
  /\ pc \in {"finish", "done"} /\ wkc => DeliveredThen = Content(item)

SendInv == application = {"eoesend"} => SendOK
LEMMA FragmentSizeIs ==
  ASSUME MovedOK, item \in Items
  PROVE  /\ moved \in Nat /\ Size[item] \in Nat /\ Rest \in Nat /\ txfragment \in Nat
         /\ FragmentSize \in 0 .. Rest /\ moved + FragmentSize <= Size[item]
         /\ FragmentSize # Rest => FragmentSize = (MaxData \div Block) * Block
         /\ FragmentSize = Rest => moved + FragmentSize = Size[item]
<1>1. Block \in Nat
  BY EoeAssumption
<1>2. moved \in Nat /\ Size[item] \in Nat /\ moved <= Size[item] /\ txfragment \in Nat
  <2>1. PICK m \in Nat : moved = m * Block
    BY DEF MovedOK
  <2> QED
    BY <1>1, <2>1, Sizes DEF MovedOK
<1>3. Rest \in Nat /\ moved + Rest = Size[item]
  BY <1>2 DEF Rest
<1>4. FragmentSize = Part(Rest)
  BY DEF FragmentSize, Part
<1>5. FragmentSize \in 0 .. Rest
  BY <1>3, <1>4, PartIs
<1>6. FragmentSize # Rest => FragmentSize = (MaxData \div Block) * Block
  BY DEF FragmentSize
<1> QED
  BY <1>2, <1>3, <1>5, <1>6

LEMMA PieceIs ==
  /\ Piece.cmd = "eoe" /\ Piece.fragment = txfragment /\ Piece.no = txframeno /\ Piece.last = ~more
  /\ Piece.pos = IF txfragment = 0 THEN Blocks(Size[item]) ELSE moved \div Block
  /\ Piece.data = Bytes(item, moved, FragmentSize)
BY DEF Piece, Fragment

(* The fragment brings the slave from the one to the other.                *)
LEMMA PieceArrives ==
  ASSUME MovedOK, item \in Items, more = (FragmentSize # Rest),
         txfragment # 0 => /\ stack.fragment = txfragment /\ stack.no = txframeno
                           /\ stack.data = Bytes(item, 0, moved)
  PROVE  IF more
         THEN StackWith(Piece) = [fragment |-> txfragment + 1, no |-> txframeno, size |-> 0,
                                  data |-> Bytes(item, 0, moved + FragmentSize)]
         ELSE DeliveredWith(Piece) = Content(item)
<1>1. /\ moved \in Nat /\ Size[item] \in Nat /\ txfragment \in Nat /\ FragmentSize \in Nat
      /\ FragmentSize = Rest => moved + FragmentSize = Size[item]
  BY FragmentSizeIs
<1>2. Joined(Piece) = Bytes(item, 0, moved + FragmentSize)
  <2>1. CASE txfragment = 0
    <3>1. moved = 0 /\ moved + FragmentSize = FragmentSize
      BY <1>1, <2>1 DEF MovedOK
    <3> QED
      BY <2>1, <3>1, PieceIs DEF Joined
  <2>2. CASE txfragment # 0
    <3>1. 0 + moved = moved /\ 0 \in Int
      BY <1>1
    <3>2. Bytes(item, 0, moved) \o Bytes(item, 0 + moved, FragmentSize)
          = Bytes(item, 0, moved + FragmentSize)
      BY <1>1, <3>1, BytesJoin, Zenon
    <3> QED
      BY <2>2, <3>1, <3>2, PieceIs DEF Joined
  <2> QED
    BY <2>1, <2>2
<1>3. Joins(Piece)
  <2>1. CASE txfragment = 0
    BY <2>1, PieceIs DEF Joins
  <2>2. CASE txfragment # 0
    <3>1. PICK m \in Nat : moved = m * Block
      BY DEF MovedOK
    <3>2. (moved \div Block) * Block = moved
      BY <3>1, BlocksOf
    <3>3. Len(Bytes(item, 0, moved)) = moved
      BY <1>1 DEF Bytes
    <3> QED
      BY <2>2, <3>2, <3>3, PieceIs DEF Joins
  <2> QED
    BY <2>1, <2>2
<1>4. CASE more
  BY <1>2, <1>3, <1>4, PieceIs DEF StackWith
<1>5. CASE ~more
  <2>1. moved + FragmentSize = Size[item]
    BY <1>1, <1>5
  <2> QED
    BY <1>2, <1>3, <1>5, <2>1, PieceIs DEF DeliveredWith, Content
<1> QED
  BY <1>4, <1>5

(* Whatever the slave does, what it has in the end stays the same.         *)
LEMMA SlaveHas ==
  ASSUME InboxOK, lastcnt \in 0 .. MaxCnt, Server \/ (Slave /\ UNCHANGED <<callvars, eoevars>>)
  PROVE  /\ Quiet /\ UNCHANGED <<StackThen, DeliveredThen, NewestCnt>>
         /\ InboxOK' /\ lastcnt' \in 0 .. MaxCnt
<1>1. CASE Quiet /\ UNCHANGED <<inbox, lastcnt, stack, delivered>>
  BY <1>1 DEF StackThen, DeliveredThen, NewestCnt, Pending, StackWith, DeliveredWith, Joins, Joined, InboxOK
<1>2. CASE Quiet /\ TakeFragment
  <2>1. /\ inbox # Nothing /\ inbox.cnt # lastcnt /\ inbox' = Nothing /\ lastcnt' = inbox.cnt
        /\ inbox.cnt \in 1 .. MaxCnt
    BY <1>2 DEF TakeFragment, EoeServe, Take, InboxOK
  <2>2. stack' = StackWith(inbox.body) /\ delivered' = DeliveredWith(inbox.body)
    BY <1>2 DEF TakeFragment, StackWith, DeliveredWith, Joins, Joined
  <2>3. StackThen' = stack' /\ DeliveredThen' = delivered' /\ NewestCnt' = inbox.cnt
    BY <2>1 DEF StackThen, DeliveredThen, NewestCnt, Pending
  <2>4. StackThen = StackWith(inbox.body) /\ DeliveredThen = DeliveredWith(inbox.body)
        /\ NewestCnt = inbox.cnt
    BY <2>1 DEF StackThen, DeliveredThen, NewestCnt, Pending
  <2>5. InboxOK' /\ lastcnt' \in 0 .. MaxCnt
    BY <2>1, AcyclicMbxAssumption DEF InboxOK
  <2> QED
    BY <1>2, <2>2, <2>3, <2>4, <2>5
<1>3. CASE Server
  <2>1. Other => UNCHANGED <<inbox, lastcnt, stack, delivered>>
    BY DEF Other, InboxOK
  <2> QED
    BY <1>1, <1>2, <1>3, <2>1, ServerServes DEF Served
<1>4. CASE Slave /\ UNCHANGED <<callvars, eoevars>>
  <2>1. Quiet /\ UNCHANGED <<stack, delivered>>
    BY <1>4 DEF Slave, TakeCopy, PlaceReply, FallSilent, Quiet, eoevars, stackvars
  <2>2. CASE TakeCopy
    <3>1. inbox # Nothing /\ inbox.cnt = lastcnt /\ inbox' = Nothing /\ lastcnt' = lastcnt
      BY <2>2 DEF TakeCopy
    <3> QED
      BY <2>1, <3>1 DEF StackThen, DeliveredThen, NewestCnt, Pending, InboxOK
  <2>3. CASE PlaceReply \/ FallSilent
    BY <1>1, <2>1, <2>3 DEF PlaceReply, FallSilent
  <2> QED
    BY <1>4, <2>2, <2>3 DEF Slave
<1> QED
  BY <1>3, <1>4

LEMMA SendStays ==
  ASSUME SendOK, Quiet, UNCHANGED <<StackThen, DeliveredThen, NewestCnt, failed>>,
         InboxOK', lastcnt' \in 0 .. MaxCnt
  PROVE  SendOK'
<1>1. UNCHANGED <<pc, mbxout, mbxcnt, op, item, moved, more, wkc, txframeno, txfragment>>
  BY DEF Quiet, callvars, mailboxes
<1>2. UNCHANGED <<FragmentSize, Rest, Piece, Most>>
  BY <1>1 DEF FragmentSize, Rest, Piece, Most
<1>3. UNCHANGED <<HasSent, HasPiece, MovedOK, Placed, FailedOK, Behind(Most)>>
  BY <1>1, <1>2 DEF HasSent, HasPiece, StackHas, MovedOK, Placed, FailedOK, Behind
<1> QED
  BY <1>1, <1>2, <1>3 DEF SendOK
LEMMA NewestCntIs ==
  ASSUME InboxOK, lastcnt \in 0 .. MaxCnt
  PROVE  NewestCnt \in 0 .. MaxCnt
BY AcyclicMbxAssumption DEF InboxOK, NewestCnt

LEMMA OneMoreBehind ==
  ASSUME FailedOK, pc # "idle", mbxcnt \in 0 .. MaxCnt, NewestCnt \in 0 .. MaxCnt, Behind(failed)
  PROVE  /\ NextCnt \in 1 .. MaxCnt /\ NextCnt # NewestCnt
         /\ \E g \in 0 .. failed + 1 : NextCnt = NewestCnt + g \/ NextCnt = NewestCnt + g - MaxCnt
<1>1. MaxCnt \in Nat /\ failed \in Nat /\ failed + 2 < MaxCnt
  BY FailedLess, TransfersAssumption, AcyclicMbxAssumption
<1>2. PICK g \in 0 .. failed : mbxcnt = NewestCnt + g \/ mbxcnt = NewestCnt + g - MaxCnt
  BY DEF Behind
<1>3. NextCnt \in 1 .. MaxCnt /\ (NextCnt = mbxcnt + 1 \/ (NextCnt = mbxcnt + 1 - MaxCnt /\ mbxcnt = MaxCnt))
  BY <1>1 DEF NextCnt
<1>4. NextCnt = NewestCnt + (g + 1) \/ NextCnt = NewestCnt + (g + 1) - MaxCnt
  BY <1>1, <1>2, <1>3
<1>5. g + 1 \in 0 .. failed + 1 /\ g + 1 > 0 /\ g + 1 < MaxCnt
  BY <1>1
<1>6. NextCnt # NewestCnt
  BY <1>1, <1>4, <1>5
<1> QED
  BY <1>3, <1>4, <1>5, <1>6

LEMMA BehindMore ==
  ASSUME NEW most \in Nat, NEW others \in Nat, most <= others, Behind(most)
  PROVE  Behind(others)
BY DEF Behind

LEMMA SendsFragment ==
  ASSUME SendOK, item \in Items, SendFragment, failed' = failed
  PROVE  SendOK'
<1>1. /\ pc = "next" /\ op = "eoesend" /\ op' = op /\ more' = (FragmentSize # Rest)
      /\ UNCHANGED <<item, moved, txfragment, stack, delivered>> /\ UNCHANGED slavembx
      /\ txfragment # 0 => txframeno' = txframeno
  BY DEF SendFragment, Post, stackvars
<1>2. UNCHANGED <<FragmentSize, Rest, StackThen, DeliveredThen, NewestCnt, Pending, InboxOK, lastcnt>>
  BY <1>1 DEF FragmentSize, Rest, StackThen, DeliveredThen, NewestCnt, Pending, StackWith,
              DeliveredWith, Joins, Joined, InboxOK, slavembx
<1>3. InboxOK' /\ MovedOK' /\ lastcnt' \in 0 .. MaxCnt /\ HasSent'
  BY <1>1, <1>2 DEF SendOK, MovedOK, HasSent, StackHas
<1>4. FailedOK /\ Most = failed /\ failed \in Nat /\ NewestCnt \in 0 .. MaxCnt
  BY <1>1, FailedLess, NewestCntIs DEF SendOK, Most, Posted
<1>5. CASE pc' = "crashed" /\ UNCHANGED mailboxes
  <2>1. mbxcnt' = mbxcnt /\ Most' = failed
    BY <1>5 DEF mailboxes, Most, Posted
  <2>2. Behind(Most)'
    BY <1>2, <1>4, <2>1 DEF SendOK, Behind
  <2> QED
    BY <1>1, <1>3, <1>5, <2>1, <2>2 DEF SendOK, SendPlaces, FailedOK, Posted
<1>6. CASE pc' = "try" /\ mbxcnt' = NextCnt /\ mbxout' = [cnt |-> NextCnt, body |-> Piece']
  <2>1. /\ mbxcnt' \in 1 .. MaxCnt /\ mbxcnt' # NewestCnt'
        /\ \E g \in 0 .. failed + 1 : mbxcnt' = NewestCnt' + g \/ mbxcnt' = NewestCnt' + g - MaxCnt
    BY <1>1, <1>2, <1>4, <1>6, OneMoreBehind DEF SendOK
  <2>2. Most' = failed + 1
    BY <1>6 DEF Most, Posted
  <2>3. Behind(Most)'
    BY <2>1, <2>2 DEF Behind
  <2>4. ~Placed'
    BY <2>1 DEF Placed
  <2>5. mbxcnt' \in 0 .. MaxCnt /\ mbxcnt' # 0
    BY <2>1, AcyclicMbxAssumption
  <2> QED
    BY <1>1, <1>2, <1>3, <1>4, <1>6, <2>3, <2>4, <2>5 DEF SendOK, SendPlaces, FailedOK, Posted
<1> QED
  <2>1. Piece' = Fragment(txfragment, IF txfragment = 0 THEN Blocks(Size[item]) ELSE moved \div Block,
                          txframeno', ~more', FALSE, Bytes(item, moved, FragmentSize))
    BY <1>1, <1>2 DEF Piece, Blocks, Bytes, Fragment
  <2>2. Post(Fragment(txfragment, IF txfragment = 0 THEN Blocks(Size[item]) ELSE moved \div Block,
                      txframeno', ~more', FALSE, Bytes(item, moved, FragmentSize)))
    BY DEF SendFragment
  <2>3. Post(Piece')
    BY <2>1, <2>2
  <2> QED
    BY <1>5, <1>6, <2>3 DEF Post, Goto

LEMMA FragmentIsSent ==
  ASSUME SendOK, item \in Items, FragmentSent, failed' = failed
  PROVE  SendOK'
<1>1. /\ pc = "sent" /\ op = "eoesend" /\ op' = op /\ wkc' = TRUE
      /\ UNCHANGED <<item, txframeno, stack, delivered, mbxcnt>> /\ UNCHANGED slavembx
      /\ IF more THEN moved' = moved + FragmentSize /\ txfragment' = txfragment + 1 /\ pc' = "next"
         ELSE pc' = "finish" /\ UNCHANGED <<moved, txfragment>>
      /\ more = (FragmentSize # Rest) /\ HasPiece
  BY DEF FragmentSent, Goto, stackvars, mailboxes, SendOK
<1>2. UNCHANGED <<StackThen, DeliveredThen, NewestCnt, InboxOK, lastcnt>>
  BY <1>1 DEF StackThen, DeliveredThen, NewestCnt, Pending, StackWith, DeliveredWith, Joins, Joined,
              InboxOK, slavembx
<1>3. FailedOK /\ failed \in Nat /\ Most = 0 /\ Behind(0)
  BY <1>1, FailedLess DEF SendOK, Most
<1>4. Most' \in Nat
  BY <1>1, <1>3 DEF Most, Posted
<1>5. Behind(Most)'
  <2>1. Behind(Most')
    BY <1>3, <1>4, BehindMore
  <2> QED
    BY <1>1, <1>2, <2>1 DEF Behind
<1>6. CASE more
  <2>1. /\ moved \in Nat /\ FragmentSize \in Nat /\ moved + FragmentSize <= Size[item]
        /\ FragmentSize = (MaxData \div Block) * Block /\ txfragment \in Nat
    <3>1. MovedOK
      BY DEF SendOK
    <3>2. FragmentSize # Rest
      BY <1>1, <1>6
    <3>3. /\ moved \in Nat /\ Rest \in Nat /\ txfragment \in Nat
          /\ FragmentSize \in 0 .. Rest /\ moved + FragmentSize <= Size[item]
          /\ FragmentSize # Rest => FragmentSize = (MaxData \div Block) * Block
      BY <3>1, FragmentSizeIs
    <3>4. FragmentSize \in Nat
      BY <3>3
    <3> QED
      BY <3>2, <3>3, <3>4, Zenon
  <2>2. PICK m \in Nat : moved = m * Block
    BY DEF SendOK, MovedOK
  <2>3. moved' = (m + (MaxData \div Block)) * Block /\ m + (MaxData \div Block) \in Nat
    <3> DEFINE q == MaxData \div Block
    <3>1. q \in Nat /\ Block \in Nat
      BY EoeAssumption, MbxCallAssumption
    <3>2. moved' = m * Block + q * Block
      BY <1>1, <1>6, <2>1, <2>2
    <3> HIDE DEF q
    <3>3. m * Block + q * Block = (m + q) * Block /\ m + q \in Nat
      BY <3>1
    <3> QED
      BY <3>2, <3>3 DEF q
  <2>4. moved' <= Size[item'] /\ txfragment' \in Nat /\ txfragment' # 0
    BY <1>1, <1>6, <2>1
  <2>5. MovedOK'
    BY <2>3, <2>4 DEF MovedOK
  <2>6. HasSent'
    BY <1>1, <1>2, <1>6 DEF HasPiece, HasSent, StackHas, Bytes
  <2> QED
    BY <1>1, <1>2, <1>3, <1>5, <1>6, <2>5, <2>6 DEF SendOK, SendPlaces, FailedOK, Posted
<1>7. CASE ~more
  <2>1. DeliveredThen' = Content(item')
    BY <1>1, <1>2, <1>7 DEF HasPiece
  <2>2. MovedOK' /\ pc' = "finish" /\ item' = item
    BY <1>1, <1>7 DEF SendOK, MovedOK
  <2> QED
    BY <1>1, <1>2, <1>3, <1>5, <2>1, <2>2 DEF SendOK, SendPlaces, FailedOK, Posted
<1> QED
  BY <1>6, <1>7

(* The piece is placed in the slave's empty mailbox.                       *)
LEMMA PiecePlaced ==
  ASSUME SendOK, item \in Items, pc \in Posted, inbox = Nothing, inbox' = mbxout,
         UNCHANGED <<lastcnt, stack, delivered, mbxcnt, callvars, txframeno, txfragment>>
  PROVE  InboxOK' /\ NewestCnt' = mbxcnt /\ HasPiece' /\ lastcnt' \in 0 .. MaxCnt
<1>1. /\ mbxout = [cnt |-> mbxcnt, body |-> Piece] /\ mbxcnt \in 1 .. MaxCnt
      /\ more = (FragmentSize # Rest) /\ MovedOK
  <2>1. mbxcnt \in 0 .. MaxCnt /\ mbxcnt # 0
    BY DEF SendOK
  <2> QED
    BY <2>1, AcyclicMbxAssumption DEF SendOK
<1>2. inbox'.cnt = mbxcnt /\ inbox'.body = Piece /\ inbox' # Nothing
  BY <1>1, RequestIsSomething
<1>3. UNCHANGED <<item, moved, more>>
  BY DEF callvars
<1>4. StackThen = stack /\ DeliveredThen = delivered /\ NewestCnt = lastcnt
  BY DEF StackThen, DeliveredThen, NewestCnt, Pending
<1>5. UNCHANGED <<FragmentSize, Rest>>
  BY <1>3 DEF FragmentSize, Rest
<1>6. HasPiece'
  <2>1. CASE Placed
    <3>1. lastcnt = mbxcnt /\ HasPiece
      BY <1>4, <2>1 DEF Placed, SendOK
    <3>2. StackThen' = stack /\ DeliveredThen' = delivered
      BY <1>2, <3>1 DEF StackThen, DeliveredThen, Pending
    <3> QED
      BY <1>3, <1>4, <1>5, <3>1, <3>2 DEF HasPiece, StackHas, Bytes, Content
  <2>2. CASE ~Placed
    <3>1. lastcnt # mbxcnt /\ HasSent
      BY <1>4, <2>2 DEF Placed, SendOK
    <3>2. StackThen' = StackWith(Piece) /\ DeliveredThen' = DeliveredWith(Piece)
      BY <1>2, <3>1 DEF StackThen, DeliveredThen, Pending, StackWith, DeliveredWith, Joins, Joined
    <3>3. IF more
          THEN StackWith(Piece) = [fragment |-> txfragment + 1, no |-> txframeno, size |-> 0,
                                   data |-> Bytes(item, 0, moved + FragmentSize)]
          ELSE DeliveredWith(Piece) = Content(item)
      BY <1>1, <1>4, <3>1, PieceArrives DEF HasSent, StackHas
    <3> QED
      <4>1. CASE more
        BY <1>3, <1>5, <3>2, <3>3, <4>1 DEF HasPiece, StackHas
      <4>2. CASE ~more
        <5>1. Content(item)' = Content(item)
          BY <1>3 DEF Content, Bytes
        <5> QED
          BY <1>3, <3>2, <3>3, <4>2, <5>1 DEF HasPiece
      <4> QED
        BY <4>1, <4>2
  <2> QED
    BY <2>1, <2>2
<1>7. InboxOK' /\ NewestCnt' = mbxcnt
  BY <1>1, <1>2, PieceIs DEF InboxOK, NewestCnt
<1> QED
  BY <1>6, <1>7 DEF SendOK
(* The mailbox is under way, or given up.                                  *)
LEMMA SendTries ==
  ASSUME SendOK, item \in Items, op = "eoesend", Transport, UNCHANGED <<callvars, eoevars, failed>>
  PROVE  SendOK'
<1>1. /\ UNCHANGED <<op, item, moved, more, wkc, txframeno, txfragment, stack, delivered, mbxcnt>>
      /\ lastcnt' = lastcnt
  BY DEF callvars, eoevars, stackvars, Transport, FirstTry, WaitEmpty, WaitEmptyFails, Retry, Receive,
         ReceiveLoses, ReceiveTimesOut, mailboxes, slavembx
<1>2. pc \in Posted /\ pc' \in Posted \cup {"sent", "unsent"}
  BY DEF Transport, FirstTry, WaitEmpty, WaitEmptyFails, Retry, Receive, ReceiveLoses,
         ReceiveTimesOut, SendOK, SendPlaces, Posted
<1>3. UNCHANGED <<FragmentSize, Rest, Piece, MovedOK>> /\ FailedOK'
  <2>1. UNCHANGED <<FragmentSize, Rest>>
    BY <1>1 DEF FragmentSize, Rest
  <2>2. UNCHANGED <<Piece, MovedOK>>
    BY <1>1, <2>1 DEF Piece, Fragment, MovedOK
  <2>3. pc # "idle"
    BY <1>2 DEF Posted
  <2> QED
    BY <2>1, <2>2, <2>3 DEF SendOK, FailedOK
<1>4. /\ (inbox = Nothing /\ inbox' = mbxout) \/ (inbox' = inbox /\ pc' # "sent")
      /\ pc' \in Posted => mbxout' = mbxout
  BY DEF Transport, FirstTry, WaitEmpty, WaitEmptyFails, Retry, Receive, ReceiveLoses,
         ReceiveTimesOut, Posted, slavembx, mailboxes
<1>5. FailedOK /\ failed \in Nat /\ Most = failed + 1 /\ NewestCnt \in 0 .. MaxCnt
  BY <1>2, FailedLess, NewestCntIs DEF SendOK, Most, Posted
<1>6. Most' = IF pc' = "sent" THEN 0 ELSE failed + 1
  BY <1>2, <1>5 DEF Most, Posted
<1>7. mbxcnt \in 0 .. MaxCnt /\ MaxCnt \in Nat
  BY AcyclicMbxAssumption DEF SendOK
<1>8. CASE inbox = Nothing /\ inbox' = mbxout
  <2>1. InboxOK' /\ NewestCnt' = mbxcnt /\ HasPiece' /\ lastcnt' \in 0 .. MaxCnt
    BY <1>1, <1>2, <1>8, PiecePlaced
  <2>2. Placed' /\ Behind(Most)'
    <3>1. mbxcnt' = NewestCnt' + 0 /\ 0 \in 0 .. Most'
      BY <1>1, <1>5, <1>6, <1>7, <2>1
    <3> QED
      BY <1>1, <2>1, <3>1 DEF Placed, Behind
  <2> QED
    BY <1>1, <1>2, <1>3, <1>4, <2>1, <2>2 DEF SendOK, SendPlaces, Posted
<1>9. CASE inbox' = inbox /\ pc' # "sent"
  <2>1. UNCHANGED <<StackThen, DeliveredThen, NewestCnt, InboxOK, Placed>>
    BY <1>1, <1>9 DEF StackThen, DeliveredThen, NewestCnt, Pending, StackWith, DeliveredWith, Joins,
                      Joined, InboxOK, Placed
  <2>2. UNCHANGED <<HasSent, HasPiece>>
    BY <1>1, <1>3, <2>1 DEF HasSent, HasPiece, StackHas, Content, Bytes
  <2>3. Behind(Most)'
    <3>1. Most' = Most
      BY <1>5, <1>6, <1>9
    <3> QED
      BY <1>1, <2>1, <3>1 DEF Behind, SendOK
  <2> QED
    BY <1>1, <1>2, <1>3, <1>4, <1>9, <2>1, <2>2, <2>3 DEF SendOK, SendPlaces, Posted
<1> QED
  BY <1>4, <1>8, <1>9

(* The place goes on, and the slave and the request stay as they are.      *)
LEMMA SendGoes ==
  ASSUME SendOK, UNCHANGED <<inbox, lastcnt, stack, delivered, mbxcnt>>,
         UNCHANGED <<item, moved, txfragment, failed>>,
         pc # "idle", pc' \in {"finish", "done"}, op' = op,
         Most' = Most, wkc' => wkc /\ pc \in {"finish", "done"}
  PROVE  SendOK'
<1>1. UNCHANGED <<StackThen, DeliveredThen, NewestCnt, InboxOK>>
  BY DEF StackThen, DeliveredThen, NewestCnt, Pending, StackWith, DeliveredWith, Joins, Joined, InboxOK
<1>2. Behind(Most)' /\ MovedOK' /\ FailedOK' /\ Content(item)' = Content(item)
  BY <1>1 DEF SendOK, Behind, MovedOK, FailedOK, Content, Bytes
<1> QED
  BY <1>1, <1>2 DEF SendOK, SendPlaces, Posted

LEMMA SendWorks ==
  ASSUME SendInv, GeneralOK, KeptOK, MasterWorks, application = {"eoesend"},
         UNCHANGED <<application, failed>>
  PROVE  SendOK'
<1>1. SendOK /\ item \in Items
  BY DEF SendInv, GeneralOK
<1>2. op \in {"none", "eoesend"} /\ pc \in SendPlaces
  BY <1>1 DEF KeptOK, AppOK, SendOK
<1>3. op = "eoesend" /\ pc # "idle"
  BY <1>1, <1>2, IdleWaits DEF SendOK
<1>4. CASE SendFragment \/ FragmentSent
  BY <1>1, <1>4, SendsFragment, FragmentIsSent
<1>5. CASE Transport /\ UNCHANGED <<callvars, eoevars>>
  BY <1>1, <1>3, <1>5, SendTries
<1>6. CASE EoeGiveUp \/ (Finish /\ UNCHANGED eoevars)
  <2>1. /\ UNCHANGED <<inbox, lastcnt, stack, delivered, mbxcnt>>
        /\ UNCHANGED <<op, item, moved, txfragment>>
        /\ \/ pc = "unsent" /\ pc' = "finish" /\ wkc' = FALSE
           \/ pc = "finish" /\ pc' = "done" /\ wkc' = wkc
    BY <1>2, <1>6 DEF EoeGiveUp, GiveUp, Conclude, Finish, Goto, SendPlaces, Posted, slavembx,
                      mailboxes, eoevars, stackvars, callvars
  <2>2. Most' = Most
    BY <2>1 DEF Most, Posted
  <2> QED
    BY <1>1, <1>3, <2>1, <2>2, SendGoes
<1> QED
  <2>1. ~Drain /\ pc # "sdoread"
    BY <1>2 DEF Drain, SendPlaces, Posted
  <2>2. EoeMaster => SendFragment \/ FragmentSent \/ EoeGiveUp
    BY <1>3 DEF EoeMaster, ReceiveFragment, ReceiveRefused, ReadFragment, ReadRefused, AskIp, AwaitIp,
                IpAnswered
  <2>3. \/ EoeMaster
        \/ (Drain \/ Finish) /\ UNCHANGED eoevars
        \/ Transport /\ UNCHANGED <<callvars, eoevars>>
    BY <1>3, <2>1, EoeWorks
  <2> QED
    BY <1>4, <1>5, <1>6, <2>1, <2>2, <2>3

LEMMA SendNext ==
  ASSUME SendInv, GeneralOK, KeptOK, [Next]_vars
  PROVE  SendInv'
<1>1. application' = application
  BY DEF Next, Master, Outside, vars
<1> SUFFICES ASSUME application = {"eoesend"}
             PROVE  SendOK'
  BY <1>1 DEF SendInv
<1>2. SendOK
  BY DEF SendInv
<1>3. FailedOK /\ failed \in Nat /\ MaxFailed \in Nat
  BY <1>2, FailedLess DEF SendOK
<1>4. UNCHANGED <<inbox, lastcnt, stack>> =>
        UNCHANGED <<StackThen, NewestCnt, InboxOK>>
  BY DEF StackThen, NewestCnt, Pending, StackWith, Joins, Joined, InboxOK
<1>5. ASSUME NEW function \in application, NEW i \in Items, NEW size \in Rooms[i], failed < MaxFailed,
             Outside(Call(function, i, size))
      PROVE  SendOK'
  <2>1. PICK bytes, first :
          /\ Begin(function, i, bytes, first) /\ UNCHANGED eoevars
          /\ function = "eoesend" <=> first = "next"
    BY <1>5, EoeBegins DEF Outside
  <2>2. function = "eoesend" /\ first = "next"
    BY <2>1
  <2>3. /\ pc = "idle" /\ pc' = "next" /\ op' = "eoesend" /\ item' = i /\ UNCHANGED slavembx
        /\ UNCHANGED <<moved, mbxcnt, lastcnt, txfragment, failed>>
        /\ UNCHANGED <<StackThen, NewestCnt, InboxOK>>
    BY <1>4, <1>5, <2>1, <2>2 DEF Begin, Goto, mailboxes, slavembx, eoevars, stackvars, Outside
  <2>4. Most' = Most
    BY <2>3 DEF Most, Posted
  <2>5. Behind(Most)'
    BY <1>2, <2>3, <2>4 DEF SendOK, Behind
  <2>6. txfragment' = 0 /\ HasSent'
    BY <1>2, <2>3 DEF SendOK, HasSent
  <2>7. MovedOK'
    BY <1>2, <2>3, Sizes DEF SendOK, MovedOK
  <2> QED
    BY <1>2, <1>5, <2>3, <2>5, <2>6, <2>7 DEF SendOK, SendPlaces, FailedOK, Posted
<1>6. ASSUME Returns
      PROVE  SendOK'
  <2>1. /\ pc = "done" /\ pc' = "idle" /\ op' = "none" /\ moved' = 0
        /\ UNCHANGED slavembx /\ UNCHANGED <<item, mbxcnt, lastcnt>>
        /\ failed' = IF wkc THEN 0 ELSE failed + 1
    BY <1>6, ReturnsIs DEF Return, Goto, Returns, mailboxes, slavembx
  <2>2. op = "eoesend"
    BY <1>2, <2>1 DEF KeptOK, AppOK, SendOK
  <2>3. txfragment' = 0 /\ stack' = stack
    BY <1>6, <2>2, ReturnLeaves DEF EoeReturn, EoeOps
  <2>4. UNCHANGED <<StackThen, NewestCnt, InboxOK>>
    BY <1>4, <2>1, <2>3 DEF slavembx
  <2>5. Most' = Most
    BY <2>1 DEF Most, Posted
  <2>6. Behind(Most)'
    BY <1>2, <2>1, <2>4, <2>5 DEF SendOK, Behind
  <2>7. MovedOK'
    <3>1. 0 * Block = 0
      BY EoeAssumption
    <3>2. Size[item] \in Nat
      BY Sizes DEF GeneralOK
    <3> QED
      BY <2>1, <2>3, <3>1, <3>2 DEF MovedOK
  <2>8. FailedOK'
    BY <1>2, <2>1, FailedLess DEF SendOK, FailedOK
  <2> QED
    BY <1>2, <2>1, <2>3, <2>4, <2>6, <2>7, <2>8 DEF SendOK, SendPlaces, Posted
<1>7. ASSUME Outside(Server) \/ Outside(Shared(Slave /\ UNCHANGED callvars))
      PROVE  SendOK'
  <2>1. Server \/ (Slave /\ UNCHANGED <<callvars, eoevars>>)
    BY <1>7 DEF Outside, Shared
  <2>2. failed' = failed
    BY <1>7 DEF Outside
  <2>3. InboxOK /\ lastcnt \in 0 .. MaxCnt
    BY <1>2 DEF SendOK
  <2> QED
    BY <1>2, <2>1, <2>2, <2>3, SlaveHas, SendStays
<1>8. ASSUME UNCHANGED vars
      PROVE  SendOK'
  <2>1. Quiet /\ UNCHANGED <<inbox, lastcnt, stack, delivered, failed>>
    BY <1>8 DEF vars, Quiet, mbxvars, mailboxes, slavembx, eoevars, stackvars
  <2>2. DeliveredThen' = DeliveredThen /\ InboxOK' /\ lastcnt' \in 0 .. MaxCnt
    BY <1>2, <1>4, <2>1 DEF SendOK, DeliveredThen, Pending, DeliveredWith, Joins, Joined
  <2> QED
    BY <1>2, <1>4, <2>1, <2>2, SendStays
<1> QED
  BY <1>1, <1>5, <1>6, <1>7, <1>8, SendWorks DEF Next, Master

-----------------------------------------------------------------------------
FramesAlone == \A a \in Applications : a \cap {"eoesend", "eoeread"} # {} => \E function : a = {function}

EoeInv == RecvInv /\ SendingOK /\ EndedOK /\ ReadInv /\ SendInv /\ application \in Applications

LEMMA EoeInitially == Init => EoeInv
<1> SUFFICES ASSUME Init
             PROVE  EoeInv
  OBVIOUS
<1>1. PICK i \in Items : item = i
  BY DEF Init, CallInit
<1> DEFINE c == [item |-> i, fragment |-> 0, from |-> 0, no |-> NextNo(0)]
<1>2. FrameNos \in Nat /\ FrameNos > 0 /\ 0 \in 0 .. FrameNos - 1
  BY EoeAssumption
<1>3. c \in Cursors
  BY <1>2, Sizes, NextNoIs DEF Cursors
<1>4. /\ pc = "idle" /\ op = "none" /\ got = <<>> /\ moved = 0 /\ failed = 0 /\ wkc = FALSE
      /\ work = Nothing /\ outbox = Nothing /\ inbox = Nothing /\ lastcnt = 0 /\ mbxcnt = 0
      /\ rx.fragment = 0 /\ frame = NoFrame /\ ended = Nothing /\ sending = NotSending /\ sentno = 0
      /\ txfragment = 0 /\ application \in Applications
  BY DEF Init, MbxInit, CallInit, EoeInit
<1>5. Upcoming(c)
  <2>1. Source(c)
    BY <1>4 DEF Source, NotSending
  <2> QED
    BY <1>3, <1>4, <2>1, NothingIsNoFragment DEF Upcoming, StreamFrom, Line
<1>6. RecvInv
  BY <1>3, <1>4, <1>5 DEF RecvInv, RecvOK
<1>7. SendingOK
  BY <1>2, <1>4 DEF SendingOK, NotSending
<1>8. FailedOK
  BY <1>4, TransfersAssumption DEF FailedOK
<1>9. ReadInv
  BY <1>2, <1>3, <1>4, <1>5, <1>8 DEF ReadInv, ReadOK, FrameOK, NoFrame, Along, ReadPlaces
<1>10. SendOK
  <2>1. MovedOK
    <3>1. 0 * Block = 0
      BY EoeAssumption
    <3> QED
      BY <1>1, <1>4, <3>1, Sizes DEF MovedOK
  <2>2. Behind(Most)
    <3>1. Most = 0 /\ NewestCnt = 0 /\ mbxcnt = 0 + 0
      BY <1>4 DEF Most, NewestCnt, Posted
    <3> QED
      BY <3>1 DEF Behind
  <2> QED
    BY <1>4, <1>8, <2>1, <2>2, AcyclicMbxAssumption DEF SendOK, SendPlaces, InboxOK, Posted
<1> QED
  BY <1>4, <1>6, <1>7, <1>9, <1>10 DEF EoeInv, EndedOK, SendInv

LEMMA EoeNext ==
  ASSUME EoeInv, GeneralOK, KeptOK, [Next]_vars
  PROVE  EoeInv'
<1>1. application' = application
  BY DEF Next, Master, Outside, vars
<1> QED
  BY <1>1, RecvNext, EndedNext, ReadNext, SendNext DEF EoeInv

LEMMA EoeInvShows ==
  ASSUME FramesAlone, EoeInv, KeptOK
  PROVE  FramesAreWhole
<1>1. op \in application \cup {"none"} /\ application \in Applications
  BY DEF EoeInv, KeptOK, AppOK
<1>2. Succeeded("eoerecv") /\ ~cut => IsFrame(got)
  BY DEF EoeInv, RecvInv, RecvOK, Succeeded
<1>3. ended # Nothing /\ ~cut => IsFrame(ended.data)
  <2>1. CASE "eoeread" \notin application
    BY <2>1 DEF EoeInv, EndedOK
  <2>2. CASE "eoeread" \in application
    <3>1. application = {"eoeread"}
      BY <1>1, <2>2 DEF FramesAlone
    <3> QED
      BY <3>1 DEF EoeInv, ReadInv, ReadOK
  <2> QED
    BY <2>1, <2>2
<1>4. Succeeded("eoesend") /\ inbox = Nothing => delivered = Content(item)
  <2> SUFFICES ASSUME pc = "done", op = "eoesend", wkc, inbox = Nothing
               PROVE  delivered = Content(item)
    BY DEF Succeeded
  <2>1. application = {"eoesend"}
    BY <1>1 DEF FramesAlone
  <2> QED
    BY <2>1 DEF EoeInv, SendInv, SendOK, DeliveredThen, Pending
<1> QED
  BY <1>2, <1>3, <1>4 DEF FramesAreWhole

(* Whatever is lost, late or left behind: a frame that was received is one *)
(* that the slave sent, whole and unmixed, unless its time stamp found no  *)
(* room, and a frame that was sent with success arrives whole.  It is      *)
(* assumed of the application that if it sends frames, or reads them a     *)
(* mailbox at a time, it does nothing else meanwhile: the calls that       *)
(* succeed in between are no measure of the fragments that were lost.      *)
THEOREM FramesArriveWhole ==
  ASSUME \A a \in Applications : a \cap {"eoesend", "eoeread"} # {} => \E function : a = {function}
  PROVE  Spec => []FramesAreWhole
<1>1. FramesAlone
  BY DEF FramesAlone
<1>2. EoeInv /\ GeneralOK /\ KeptOK /\ [Next]_vars => (EoeInv /\ GeneralOK /\ KeptOK)'
  BY EoeNext, GeneralNext, KeptNext
<1>3. EoeInv /\ KeptOK => FramesAreWhole
  BY <1>1, EoeInvShows
<1>4. Init => GeneralOK
  BY FoeInitially
<1> QED
  BY EoeInitially, KeptInit, <1>2, <1>3, <1>4, PTL DEF Spec

=============================================================================
