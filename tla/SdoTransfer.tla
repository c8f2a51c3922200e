---------------------------- MODULE SdoTransfer ----------------------------
(***************************************************************************)
(* CoE service data objects (native/soem/src/ec_coe.c: ecx_SDOread and     *)
(* ecx_SDOwrite) over the mailboxes of a slave.  An object is a row of     *)
(* chunks: the first travels with the initial exchange, every other one in *)
(* a segment of its own with an alternating toggle bit.  An object of one  *)
(* chunk stands for the expedited and the normal unsegmented transfer.     *)
(*                                                                         *)
(* One thread makes one call after the other.  The slave is a server as    *)
(* the protocol wants it: it answers an initial request with the first     *)
(* chunk or an acknowledge, a segment request with the toggle bit it       *)
(* expects with the next one, and anything else, or what it does not like, *)
(* with an abort.                                                          *)
(***************************************************************************)
EXTENDS AcyclicMbx

CONSTANTS
  Objects,  \* objects of the slave's dictionary, [index, subindex]
  Size      \* Size[o]: the number of chunks of object o

ASSUME SdoAssumption == Size \in [Objects -> Nat \ {0}]

VARIABLES
  op,       \* "up" inside ecx_SDOread, "down" inside ecx_SDOwrite
  object,   \* Index and Subindex of the call
  fits,     \* whether the caller's buffer has room for the object
  phase,    \* the initial exchange, or the segments
  toggle,   \* the toggle bit
  pos,      \* chunks of a download handed to ecx_mbxsend so far
  got,      \* chunks of an upload copied to the caller's buffer
  wkc,      \* whether wkc > 0, what the call returns
  server,   \* the slave's transfer
  stored    \* what the slave was brought since the call began (history)

call == <<op, object, fits, phase, toggle, pos, got, wkc>>
slave == <<server, stored>>
vars == <<mbxvars, call, slave>>

Toggles == {0, 1}
Flip(t) == 1 - t

Chunks == UNION {{<<o, k>> : k \in 1 .. Size[o]} : o \in Objects}
Content(o) == [k \in 1 .. Size[o] |-> <<o, k>>]
IsLast(chunk) == chunk[2] = Size[chunk[1]]

(* What the mailboxes say.  A segment does not name its object.            *)
Upload(o) == [cmd |-> "up", obj |-> o]
UploadSegment(t) == [cmd |-> "upseg", toggle |-> t]
Download(o) == [cmd |-> "down", obj |-> o, chunk |-> <<o, 1>>]
DownloadSegment(chunk, t) == [cmd |-> "downseg", chunk |-> chunk, toggle |-> t]

UploadReply(o) == [cmd |-> "upres", obj |-> o, chunk |-> <<o, 1>>]
SegmentReply(chunk) == [cmd |-> "segres", chunk |-> chunk]
DownloadReply(o) == [cmd |-> "downres", obj |-> o]
DownloadSegmentReply == [cmd |-> "downsegres"]
Abort == [cmd |-> "abort"]

Requests ==
  [cnt : 1 .. MaxCnt,
   body : {Upload(o) : o \in Objects} \cup {Download(o) : o \in Objects}
          \cup {UploadSegment(t) : t \in Toggles}
          \cup {DownloadSegment(c, t) : c \in Chunks, t \in Toggles}]

Replies ==
  {UploadReply(o) : o \in Objects} \cup {DownloadReply(o) : o \in Objects}
    \cup {SegmentReply(c) : c \in Chunks} \cup {DownloadSegmentReply, Abort}

Idle == [mode |-> "idle", toggle |-> 0, data |-> <<>>]

TypeOK ==
  /\ MbxTypeOK(Requests, Replies)
  /\ pc \in {"idle", "drain", "try", "wait", "retry", "sent", "unsent",
             "receive", "received", "unreceived", "next", "finish", "done"}
  /\ op \in {"up", "down"}
  /\ object \in Objects
  /\ fits \in BOOLEAN
  /\ phase \in {"init", "segments"}
  /\ toggle \in Toggles
  /\ pos \in 0 .. Size[object]
  /\ got \in Seq(Chunks)
  /\ wkc \in BOOLEAN
  /\ server \in [mode : {"idle", "up", "down"}, toggle : Toggles, data : Seq(Chunks)]
  /\ stored \in Seq(Chunks)
  /\ (mbxout = Nothing) = (pc \notin {"try", "wait", "retry"})

Init ==
  /\ MbxInit /\ pc = "idle"
  /\ op = "up" /\ object \in Objects /\ fits = TRUE
  /\ phase = "init" /\ toggle = 0 /\ pos = 0 /\ got = <<>> /\ wkc = FALSE
  /\ server = Idle /\ stored = <<>>

Goto(label) == pc' = label

-----------------------------------------------------------------------------
(* A call begins, with its local variables as Return left them.            *)

Call(how, o, room) ==
  /\ pc = "idle"
  /\ op' = how /\ object' = o /\ fits' = room
  /\ how = "down" => room
  /\ BeginCall
  /\ Goto("drain")
  /\ UNCHANGED <<mailboxes, slavembx, phase, toggle, pos, got, wkc, slave>>

(* The mailbox MbxOut is filled and goes to ecx_mbxsend.                   *)
Post(body) ==
  /\ mbxout' = [cnt |-> NextCnt, body |-> body]
  /\ mbxcnt' = NextCnt
  /\ Goto("try")

PostInitial ==
  /\ Post(IF op = "up" THEN Upload(object) ELSE Download(object))
  /\ pos' = IF op = "down" THEN 1 ELSE 0

(* Mutant: the mailbox of the slave is not drained before the request.     *)
DrainNothing ==
  /\ pc = "drain"
  /\ PostInitial
  /\ pool' = pool - 1
  /\ UNCHANGED <<mbxin, op, object, fits, phase, toggle, got, wkc, slavembx,
                 faults, slave>>

(* The reply that was left behind is read, to be dropped later.  Without a *)
(* mailbox for the request the call ends here, with that reply in hand.    *)
Drain ==
  /\ pc = "drain"
  /\ mbxin' = IF silent THEN Nothing ELSE outbox
  /\ outbox' = IF silent THEN outbox ELSE Nothing
  /\ wkc' = (mbxin' # Nothing)
  /\ \/ /\ PostInitial
        /\ pool' = pool - Held(mbxin') - 1
        /\ UNCHANGED faults
     \/ /\ Fault("pool")
        /\ pool' = pool - Held(mbxin')
        /\ Goto("done")
        /\ UNCHANGED <<mbxout, mbxcnt, pos>>
  /\ UNCHANGED <<op, object, fits, phase, toggle, got, inbox, work, lastcnt,
                 silent, slave>>

(* The timeout of 0 leaves one look at the slave's mailbox, which may fail.*)
DrainMisses ==
  /\ pc = "drain"
  /\ outbox # Nothing /\ ~silent
  /\ Fault("late")
  /\ PostInitial
  /\ pool' = pool - 1
  /\ UNCHANGED <<mbxin, op, object, fits, phase, toggle, got, wkc, slavembx,
                 slave>>

Sent ==
  /\ pc = "sent"
  /\ mbxin' = Nothing /\ pool' = pool + Held(mbxin)
  /\ wkc' = TRUE
  /\ Goto("receive")
  /\ UNCHANGED <<mbxout, mbxcnt, slavembx, faults, op, object, fits, phase,
                 toggle, pos, got, slave>>

(* Mutant: the toggle bit stays as it is when an exchange fails.           *)
ExchangeFailsUnflipped ==
  /\ pc \in {"unsent", "unreceived"}
  /\ wkc' = FALSE
  /\ Goto(IF phase = "init" THEN "finish" ELSE "next")
  /\ UNCHANGED <<mailboxes, slavembx, faults, op, object, fits, phase, toggle,
                 pos, got, slave>>

(* Neither sending nor receiving is tried again; a segmented transfer goes *)
(* on with the next segment.                                               *)
ExchangeFails ==
  /\ pc \in {"unsent", "unreceived"}
  /\ wkc' = FALSE
  /\ IF phase = "init" THEN Goto("finish") /\ UNCHANGED toggle
     ELSE Goto("next") /\ toggle' = Flip(toggle)
  /\ UNCHANGED <<mailboxes, slavembx, faults, op, object, fits, phase, pos,
                 got, slave>>

-----------------------------------------------------------------------------
(* What the reply must be, and what is done with it.                       *)

(* The reply to a request for the object, of either kind: the command of   *)
(* the reply is not looked at.                                             *)
InitialReply ==
  /\ mbxin.cmd \in {"upres", "downres"}
  /\ IF op = "up" THEN mbxin.obj.index = object.index ELSE mbxin.obj = object

(* An acknowledge of a download has no data; taken for the reply to an     *)
(* upload it is an empty object, and fits.                                 *)
Fits == op = "up" /\ mbxin.cmd = "upres" => fits
Carried == IF mbxin.cmd = "upres" THEN <<mbxin.chunk>> ELSE <<>>
Whole == mbxin.cmd = "upres" => IsLast(mbxin.chunk)

CheckInitial ==
  /\ pc = "received" /\ phase = "init"
  /\ InitialReply /\ Fits
  /\ wkc' = TRUE
  /\ phase' = "segments"
  /\ toggle' = 0
  /\ IF op = "up"
     THEN got' = Carried /\ Goto(IF Whole THEN "finish" ELSE "next")
     ELSE UNCHANGED got /\ Goto("next")
  /\ UNCHANGED <<mailboxes, slavembx, faults, op, object, fits, pos, slave>>

SegmentAnswer == mbxin.cmd = IF op = "up" THEN "segres" ELSE "downsegres"

CheckSegment ==
  /\ pc = "received" /\ phase = "segments"
  /\ SegmentAnswer
  /\ wkc' = TRUE
  /\ toggle' = Flip(toggle)
  /\ IF op = "up"
     THEN /\ got' = Append(got, mbxin.chunk)
          /\ Goto(IF IsLast(mbxin.chunk) THEN "finish" ELSE "next")
     ELSE UNCHANGED got /\ Goto("next")
  /\ UNCHANGED <<mailboxes, slavembx, faults, op, object, fits, phase, pos,
                 slave>>

(* Mutant: the segment loop goes on after an abort.                        *)
RejectGoingOn ==
  /\ pc = "received"
  /\ IF phase = "init" THEN ~(InitialReply /\ Fits)
     ELSE ~SegmentAnswer
  /\ wkc' = FALSE
  /\ Goto(IF phase = "init" THEN "finish" ELSE "next")
  /\ UNCHANGED <<mailboxes, slavembx, faults, op, object, fits, phase, toggle,
                 pos, got, slave>>

(* An abort, a reply to something else, or no room for the object.         *)
Reject ==
  /\ pc = "received"
  /\ IF phase = "init" THEN ~(InitialReply /\ Fits)
     ELSE ~SegmentAnswer
  /\ wkc' = FALSE
  /\ Goto("finish")
  /\ UNCHANGED <<mailboxes, slavembx, faults, op, object, fits, phase, toggle,
                 pos, got, slave>>

-----------------------------------------------------------------------------
(* The segment loops.  That of an upload ends with the last segment, or    *)
(* with a reply that is none; that of a download when all is handed over.  *)

NotLast == op = "up" \/ pos < Size[object]

NextSegment ==
  /\ pc = "next" /\ NotLast
  /\ Post(IF op = "up" THEN UploadSegment(toggle)
          ELSE DownloadSegment(<<object, pos + 1>>, toggle))
  /\ pos' = IF op = "down" THEN pos + 1 ELSE pos
  /\ pool' = pool - 1
  /\ UNCHANGED <<mbxin, slavembx, faults, op, object, fits, phase, toggle, got,
                 wkc, slave>>

NoMailbox ==
  /\ pc = "next" /\ NotLast
  /\ Fault("pool")
  /\ Goto("finish")
  /\ UNCHANGED <<mailboxes, slavembx, call, slave>>

AllHanded ==
  /\ pc = "next" /\ ~NotLast
  /\ Goto("finish")
  /\ UNCHANGED <<mailboxes, slavembx, faults, call, slave>>

Finish ==
  /\ pc = "finish"
  /\ mbxin' = Nothing /\ pool' = pool + Held(mbxin)
  /\ Goto("done")
  /\ UNCHANGED <<mbxout, mbxcnt, slavembx, faults, call, slave>>

Return ==
  /\ pc = "done"
  /\ op' = "up" /\ fits' = TRUE
  /\ phase' = "init" /\ toggle' = 0 /\ pos' = 0 /\ got' = <<>>
  /\ wkc' = FALSE /\ stored' = <<>>
  /\ mbxin' = Nothing
  /\ Goto("idle")
  /\ UNCHANGED <<object, mbxout, pool, mbxcnt, slavembx, faults, server>>

-----------------------------------------------------------------------------
(* The slave's server.                                                     *)

Refuse ==
  /\ Take(Abort)
  /\ server' = Idle
  /\ UNCHANGED <<call, stored>>

Serve(answer, mode, toggled, data) ==
  /\ Take(answer)
  /\ server' = [mode |-> mode, toggle |-> toggled, data |-> data]
  /\ UNCHANGED call

StartUpload(o) ==
  /\ inbox # Nothing /\ inbox.body = Upload(o)
  /\ Serve(UploadReply(o), "up", 0, <<<<o, 1>>>>)
  /\ UNCHANGED stored

UploadNext ==
  /\ inbox # Nothing /\ server.mode = "up"
  /\ inbox.body = UploadSegment(server.toggle)
  /\ LET last == server.data[Len(server.data)]
         chunk == <<last[1], last[2] + 1>>
     IN  /\ ~IsLast(last)
         /\ Serve(SegmentReply(chunk), "up", Flip(server.toggle), <<chunk>>)
  /\ UNCHANGED stored

Commit(data) == stored' = IF IsLast(data[Len(data)]) THEN data ELSE stored

StartDownload(o) ==
  /\ inbox # Nothing /\ inbox.body = Download(o)
  /\ Serve(DownloadReply(o), "down", 0, <<<<o, 1>>>>)
  /\ Commit(<<<<o, 1>>>>)

DownloadNext ==
  /\ inbox # Nothing /\ server.mode = "down"
  /\ \E chunk \in Chunks :
       LET data == Append(server.data, chunk)
       IN  /\ inbox.body = DownloadSegment(chunk, server.toggle)
           /\ Serve(DownloadSegmentReply, "down", Flip(server.toggle), data)
           /\ Commit(data)

Server ==
  \/ Refuse \/ UploadNext \/ DownloadNext
  \/ \E o \in Objects : StartUpload(o) \/ StartDownload(o)

-----------------------------------------------------------------------------
Master ==
  \/ Drain \/ DrainMisses \/ Sent \/ ExchangeFails
  \/ CheckInitial \/ CheckSegment \/ Reject
  \/ NextSegment \/ NoMailbox \/ AllHanded \/ Finish \/ Return
  \/ Transport /\ UNCHANGED <<call, slave>>

Next ==
  \/ \E how \in {"up", "down"}, o \in Objects, room \in BOOLEAN :
       Call(how, o, room)
  \/ Master
  \/ Server
  \/ Slave /\ UNCHANGED <<call, slave>>

Spec == Init /\ [][Next]_vars

(* A call that was begun goes on, and the slave works on as long as it is  *)
(* there.                                                                  *)
Fairness ==
  /\ WF_vars(Master)
  /\ WF_vars(Server)
  /\ WF_vars(TakeCopy /\ UNCHANGED <<call, slave>>)
  /\ WF_vars(PlaceReply /\ UNCHANGED <<call, slave>>)

FairSpec == Spec /\ Fairness

-----------------------------------------------------------------------------
Succeeded(how) == pc = "done" /\ op = how /\ wkc

Without(kinds) == \A k \in kinds : faults[k] = 0

(* An upload that reports success has copied the whole object, chunk by    *)
(* chunk in order, and nothing of another one, although requests and one   *)
(* acknowledge are lost: as long as no reply is lost or late and the pool  *)
(* has a mailbox.                                                          *)
UploadIsWhole ==
  Succeeded("up") /\ Without({"reply", "late", "pool"})
                  /\ faults["acknowledge"] <= 1
    => got = Content(object)

(* After a download that reports success the slave has stored the object   *)
(* whole and in order, although replies and one request of it may be lost: *)
(* as long as no request is delivered that the master takes for lost, and  *)
(* no timer expires early.                                                 *)
DownloadIsWhole ==
  Succeeded("down") /\ Without({"acknowledge", "late", "pool"})
                    /\ faults["request"] <= 1
    => stored = Content(object)

(* A call ends, whatever the slave answers, if the slave is there.         *)
TransferEnds == pc # "idle" ~> pc = "idle" \/ silent

=============================================================================
