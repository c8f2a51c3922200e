----------------------------- MODULE Dictionary -----------------------------
(***************************************************************************)
(* CoE beyond the transfer of objects (native/soem/src/ec_coe.c): PDOs as  *)
(* mailboxes (ecx_RxPDO, ecx_TxPDO), the list of a slave's objects         *)
(* (ecx_readODlist) and their description (ecx_readODdescription,          *)
(* ecx_readOEsingle, ecx_readOE).                                          *)
(*                                                                         *)
(* Unlike the other protocols these functions drop the mailbox they have   *)
(* drained at once.  All but ecx_RxPDO keep the pointer, and drop the same *)
(* mailbox again before they receive, or at their end, although            *)
(* ecx_mbxreceive asks for one drop: the ring of the pool then lists it    *)
(* twice, in place of another one.  The pool counts one too many, and      *)
(* doubled counts how often that has happened.                             *)
(***************************************************************************)
EXTENDS MbxCall

CONSTANTS
  MaxFragments,  \* 129: turns of the loop of ecx_readODlist
  MaxSub         \* pODlist->MaxSub: the last subindex of an object

ASSUME DictionaryAssumption == {MaxFragments, MaxSub} \subseteq Nat \ {0}

VARIABLES
  listing,  \* what of a list the slave is still to send
  outputs,  \* the RxPDO that the slave was brought since the call began (history)
  doubled   \* drained mailboxes that are dropped a second time (history)

infovars == <<listing, outputs, doubled>>

NoListing == [item |-> "none", from |-> 0]
InfoInit == listing = NoListing /\ outputs = <<>> /\ doubled = 0

(* A list begins with a word that says which list it is.                   *)
ListType == "type"
Words(i) == <<ListType>> \o Content(i)

(* A PDO is what fits into a mailbox.                                      *)
Pdo(i) == Bytes(i, 0, Least(Size[i], MaxData))

RxPdo(i) == [cmd |-> "rxpdo", data |-> Pdo(i)]
TxPdoRequest(i) == [cmd |-> "txpdoreq", item |-> i]
TxPdo(i) == [cmd |-> "txpdo", data |-> Pdo(i)]
ListRequest(i) == [cmd |-> "odlistreq", item |-> i]
ListFragment(words, left) == [cmd |-> "odlist", words |-> words, left |-> left]
DescriptionRequest(i) == [cmd |-> "odreq", item |-> i]
Description(i) == [cmd |-> "od", item |-> i]
EntryRequest(i, sub) == [cmd |-> "oereq", item |-> i, sub |-> sub]
Entry(i, sub) == [cmd |-> "oe", item |-> i, sub |-> sub]
InfoError == [cmd |-> "infoerror"]

Receiving == {"txpdo", "odlist", "oddesc", "readoe"}
InfoCalls == {"rxpdo"} \cup Receiving

-----------------------------------------------------------------------------
(* A call begins when the slave has given up a list that was not read to   *)
(* its end; what it has placed of it may still be there.                   *)
Info(function, i, size) ==
  /\ listing = NoListing
  /\ Begin(function, i, size, "draindrop")
  /\ UNCHANGED infovars

RxPDO(i) == Info("rxpdo", i, 0)
TxPDO(i) == \E psize \in {MaxData - 1, MaxData} : Info("txpdo", i, psize)
readODlist(i, maxodlist) == Info("odlist", i, maxodlist)
readODdescription(i) == Info("oddesc", i, 0)
readOE(i) == Info("readoe", i, 0)

(* Mutant: what is left of an earlier call is not drained.                 *)
DrainNothing ==
  /\ pc = "draindrop"
  /\ wkc' = FALSE
  /\ Goto("next")
  /\ UNCHANGED <<mailboxes, slavembx, faults, op, item, room, moved, got, more, infovars>>

(* The mailbox is free again while mbxin still points to it.               *)
DrainAndDrop ==
  /\ pc = "draindrop"
  /\ \/ mbxin' = outbox /\ outbox' = Nothing /\ ~silent /\ UNCHANGED faults
     \/ silent /\ UNCHANGED <<mbxin, outbox, faults>>
     \/ outbox # Nothing /\ ~silent /\ Fault("late") /\ UNCHANGED <<mbxin, outbox>>
  /\ wkc' = (mbxin' # Nothing)
  /\ Goto("next")
  /\ UNCHANGED <<mbxout, pool, mbxcnt, inbox, work, lastcnt, silent, op, item, room, moved,
                 got, more, infovars>>

(* A call to ecx_readOEsingle ends the turn of a loop.                     *)
AtEnd == IF op = "readoe" THEN "endentry" ELSE "finish"

(* Without a mailbox the result is that of the drain.                      *)
NoMailbox ==
  /\ Fault("pool")
  /\ mbxin' = Nothing
  /\ Goto(AtEnd)
  /\ UNCHANGED <<mbxout, pool, mbxcnt>>

Body ==
  CASE op = "rxpdo" -> RxPdo(item)
    [] op = "txpdo" -> TxPdoRequest(item)
    [] op = "odlist" -> ListRequest(item)
    [] op = "oddesc" -> DescriptionRequest(item)
    [] op = "readoe" -> EntryRequest(item, moved)

AskInfo ==
  /\ pc = "next" /\ op \in InfoCalls
  /\ \/ /\ mbxout' = [cnt |-> NextCnt, body |-> Body]
        /\ mbxcnt' = NextCnt
        /\ pool' = pool - 1
        /\ mbxin' = IF op = "rxpdo" THEN Nothing ELSE mbxin
        /\ doubled' = doubled + Held(mbxin')
        /\ Goto("try")
        /\ UNCHANGED faults
     \/ NoMailbox /\ UNCHANGED doubled
  /\ UNCHANGED <<slavembx, callvars, listing, outputs>>

PdoSent ==
  /\ pc = "sent" /\ op = "rxpdo"
  /\ Conclude(TRUE, "finish")
  /\ UNCHANGED infovars

AwaitInfo == pc = "sent" /\ op \in Receiving /\ AwaitReply /\ UNCHANGED infovars

InfoFails ==
  /\ pc \in {"unsent", "unreceived"} /\ op \in InfoCalls
  /\ Conclude(FALSE, AtEnd)
  /\ UNCHANGED infovars

Expected ==
  CASE op = "txpdo" -> "txpdo" [] op = "odlist" -> "odlist"
    [] op = "oddesc" -> "od" [] op = "readoe" -> "oe"

TooLong == mbxin.cmd = "txpdo" /\ Len(mbxin.data) > room

(* Any other reply; a PDO that is too long for the caller's buffer.        *)
InfoRefused ==
  /\ pc = "received" /\ op \in Receiving
  /\ mbxin.cmd = Expected => TooLong
  /\ Conclude(FALSE, AtEnd)
  /\ UNCHANGED infovars

-----------------------------------------------------------------------------
(* What is read.  No reply is compared with the number, index or subindex  *)
(* of the request.                                                         *)

(* The reply that op waits for has come, and the buffer gets contents.     *)
Gets(function, contents, label) ==
  /\ pc = "received" /\ op = function /\ mbxin.cmd = Expected
  /\ got' = contents
  /\ wkc' = TRUE
  /\ Goto(label)
  /\ UNCHANGED <<mailboxes, slavembx, faults, op, item, room, more, infovars>>

TakeTxPdo ==
  /\ pc = "received" /\ op = "txpdo" /\ mbxin.cmd = "txpdo" /\ ~TooLong
  /\ Gets("txpdo", mbxin.data, "finish")
  /\ UNCHANGED moved

Indices == IF moved = 0 THEN Tail(mbxin.words) ELSE mbxin.words

(* What the table of objects has no room for is left out.                  *)
TakeIndices ==
  /\ pc = "received" /\ op = "odlist" /\ mbxin.cmd = "odlist"
  /\ LET n == Least(Len(Indices), room - Len(got))
     IN  Gets("odlist", got \o SubSeq(Indices, 1, n),
              IF mbxin.left > 0 /\ moved + 1 < MaxFragments THEN "sent" ELSE "finish")
  /\ moved' = moved + 1

TakeDescription ==
  /\ pc = "received" /\ op = "oddesc" /\ mbxin.cmd = "od"
  /\ Gets("oddesc", <<mbxin.item>>, "finish")
  /\ UNCHANGED moved

(* pOElist->Entries is the length of got.                                  *)
TakeEntry ==
  /\ pc = "received" /\ op = "readoe" /\ mbxin.cmd = "oe"
  /\ Gets("readoe", Append(got, [at |-> moved, is |-> <<mbxin.item, mbxin.sub>>]), AtEnd)
  /\ UNCHANGED moved

(* The next entry is read, whether there was a reply to this one or not;   *)
(* failures of this one count for the whole object.                        *)
EndEntry ==
  /\ pc = "endentry"
  /\ mbxin' = Nothing /\ pool' = pool + Held(mbxin)
  /\ IF moved < MaxSub
     THEN /\ moved' = moved + 1 /\ Goto("draindrop")
          /\ IF inbox = Nothing /\ work = Nothing THEN UNCHANGED faults
             ELSE IF Settled THEN Noted("late") ELSE Fault("late")
     ELSE Goto("done") /\ UNCHANGED <<moved, faults>>
  /\ UNCHANGED <<mbxout, mbxcnt, slavembx, op, item, room, got, more, wkc, infovars>>

InfoReturn ==
  op \in InfoCalls /\ Return /\ outputs' = <<>> /\ UNCHANGED <<listing, doubled>>

InfoMaster ==
  \/ DrainAndDrop \/ AskInfo \/ PdoSent \/ AwaitInfo \/ InfoFails \/ InfoRefused
  \/ TakeTxPdo \/ TakeIndices \/ TakeDescription \/ TakeEntry \/ EndEntry

-----------------------------------------------------------------------------
(* The slave.  Only to show more than one length does it have a list for   *)
(* every item; the request of the code does not name one.                  *)

ServeInfo(request, answer) ==
  /\ inbox # Nothing /\ inbox.body = request
  /\ Take(answer)
  /\ UNCHANGED callvars

Listed(i, from) ==
  LET len == Least(Len(Words(i)) - from, MaxData)
  IN  ListFragment(SubSeq(Words(i), from + 1, from + len), Len(Words(i)) - from - len)

Onward(i, from) ==
  IF Listed(i, from).left > 0 THEN [item |-> i, from |-> from + MaxData] ELSE NoListing

ServeList(i) ==
  /\ ServeInfo(ListRequest(i), Listed(i, 0))
  /\ listing' = Onward(i, 0)
  /\ UNCHANGED <<outputs, doubled>>

SendList ==
  /\ listing # NoListing /\ work = Nothing /\ ~silent
  /\ work' = Listed(listing.item, listing.from)
  /\ listing' = Onward(listing.item, listing.from)
  /\ UNCHANGED <<pc, mailboxes, inbox, outbox, lastcnt, silent, faults, callvars, outputs, doubled>>

GiveUpList ==
  /\ op # "odlist" /\ listing # NoListing
  /\ listing' = NoListing
  /\ UNCHANGED <<mbxvars, callvars, outputs, doubled>>

ServeRxPdo(i) ==
  ServeInfo(RxPdo(i), Nothing) /\ outputs' = Pdo(i) /\ UNCHANGED <<listing, doubled>>

ServeObject(i) ==
  /\ \/ ServeInfo(TxPdoRequest(i), TxPdo(i))
     \/ ServeInfo(DescriptionRequest(i), Description(i))
     \/ \E sub \in 0 .. MaxSub : ServeInfo(EntryRequest(i, sub), Entry(i, sub))
  /\ UNCHANGED infovars

ServeInfoError ==
  /\ inbox # Nothing
  /\ inbox.body.cmd \in {"txpdoreq", "odlistreq", "odreq", "oereq"}
  /\ ServeInfo(inbox.body, InfoError)
  /\ UNCHANGED infovars

InfoServer ==
  \/ \E i \in Items : ServeList(i) \/ ServeRxPdo(i) \/ ServeObject(i)
  \/ SendList \/ GiveUpList \/ ServeInfoError

-----------------------------------------------------------------------------
ListIsWhole ==
  Succeeded("odlist") =>
    got = SubSeq(Content(item), 1,
                 Least(Least(Size[item], room), MaxFragments * MaxData - 1))

EntriesAreTrue ==
  pc = "done" /\ op = "readoe" =>
    /\ \A n \in DOMAIN got : got[n].is = <<item, got[n].at>>
    /\ \A n \in 2 .. Len(got) : got[n - 1].at < got[n].at

(* What a call reports as read is what the slave has: the whole list, or   *)
(* as much as the table and the loop hold, the description asked for, each *)
(* entry at its subindex (though not every entry when one was lost), the   *)
(* whole PDO.  Unless a reply was late, which is taken for that to the     *)
(* next request, or the pool was empty, when the result is that of the     *)
(* drain.                                                                  *)
DictionaryIsTrue ==
  Without({"late", "pool"}) =>
    /\ ListIsWhole /\ EntriesAreTrue
    /\ Succeeded("oddesc") => got = <<item>>
    /\ Succeeded("txpdo") => got = Pdo(item)

(* An RxPDO that is reported as sent is with the slave.                    *)
PdoArrives ==
  Succeeded("rxpdo") /\ Without({"pool"}) =>
    outputs = Pdo(item) \/ (inbox # Nothing /\ inbox.body = RxPdo(item))

=============================================================================
