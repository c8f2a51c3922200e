------------------------- MODULE SdoTransfer_proofs -------------------------
(***************************************************************************)
(* Proofs about SDO transfers: an upload or a download that is reported as *)
(* done is whole and in order, for any objects, any number of calls, and   *)
(* any sequence of the losses that the properties allow.                   *)
(***************************************************************************)
EXTENDS SdoTransfer, TLAPS

-----------------------------------------------------------------------------
(* Types.                                                                  *)
Bodies ==
  {Upload(o) : o \in Objects} \cup {Download(o) : o \in Objects}
    \cup {UploadSegment(t) : t \in Toggles}
    \cup {DownloadSegment(c, t) : c \in Chunks, t \in Toggles}

Exchanging == {"try", "wait", "retry"}

Labels == {"idle", "drain", "try", "wait", "retry", "sent", "unsent",
           "receive", "received", "unreceived", "next", "finish", "done"}

BoxTypes ==
  /\ mbxout \in Requests \cup {Nothing}
  /\ inbox \in Requests \cup {Nothing}
  /\ mbxin \in Replies \cup {Nothing}
  /\ work \in Replies \cup {Nothing}
  /\ outbox \in Replies \cup {Nothing}
  /\ mbxcnt \in 0 .. MaxCnt
  /\ lastcnt \in 0 .. MaxCnt
  /\ silent \in BOOLEAN
  /\ faults \in [Kinds -> Nat]

(* Mailboxes are in hand only at some places of the code, a call starts    *)
(* with its local variables fresh, and the loop is one over segments.      *)
PlaceTypes ==
  /\ pc \in Labels
  /\ (mbxout = Nothing) = (pc \notin Exchanging)
  /\ pc = "received" => mbxin # Nothing
  /\ pc \in {"idle", "drain"} => phase = "init" /\ pos = 0 /\ got = <<>>
  /\ pc = "next" => phase = "segments"

CallTypes ==
  /\ op \in {"up", "down"}
  /\ object \in Objects
  /\ fits \in BOOLEAN
  /\ phase \in {"init", "segments"}
  /\ toggle \in Toggles
  /\ pos \in 0 .. Size[object]
  /\ got \in Seq(Chunks)
  /\ wkc \in BOOLEAN

ServerTypes ==
  /\ server \in [mode : {"idle", "up", "down"}, toggle : Toggles,
                 data : Seq(Chunks)]
  /\ server.mode # "idle" => server.data # <<>>
  /\ stored \in Seq(Chunks)

Types == BoxTypes /\ PlaceTypes /\ CallTypes /\ ServerTypes

LEMMA Sizes ==
  /\ MaxCnt \in Nat /\ 0 < MaxCnt
  /\ \A o \in Objects : Size[o] \in Nat /\ 0 < Size[o]
BY AcyclicMbxAssumption, SdoAssumption

LEMMA ChunkOf ==
  /\ \A o \in Objects : \A k \in 1 .. Size[o] : <<o, k>> \in Chunks
  /\ \A c \in Chunks : \E o \in Objects : \E k \in 1 .. Size[o] : c = <<o, k>>
BY DEF Chunks

LEMMA FirstChunk == ASSUME NEW o \in Objects PROVE <<o, 1>> \in Chunks
<1>1. 1 \in 1 .. Size[o]
  BY Sizes
<1> QED
  BY <1>1, ChunkOf

(* The chunk behind one that is not the last of its object.                *)
LEMMA ChunkBehind ==
  ASSUME NEW c \in Chunks, ~ IsLast(c)
  PROVE  <<c[1], c[2] + 1>> \in Chunks
<1>0. PICK o \in Objects : \E k \in 1 .. Size[o] : c = <<o, k>>
  BY ChunkOf
<1>1. PICK k \in 1 .. Size[o] : c = <<o, k>>
  BY <1>0
<1>2. Size[o] \in Nat /\ k # Size[o]
  BY <1>1, Sizes DEF IsLast
<1>3. k + 1 \in 1 .. Size[o]
  BY <1>2
<1> QED
  BY <1>1, <1>3, ChunkOf

LEMMA RepliesAre ==
  ASSUME NEW m \in Replies
  PROVE  /\ m # Nothing
         /\ m.cmd \in {"upres", "segres", "downres", "downsegres", "abort"}
         /\ m.cmd = "upres" =>
              m.obj \in Objects /\ m.chunk = <<m.obj, 1>> /\ m.chunk \in Chunks
         /\ m.cmd = "segres" => m.chunk \in Chunks
<1>1. \/ \E o \in Objects : m = UploadReply(o)
      \/ \E o \in Objects : m = DownloadReply(o)
      \/ \E c \in Chunks : m = SegmentReply(c)
      \/ m = DownloadSegmentReply \/ m = Abort
  BY DEF Replies
<1>2. m.cmd # "nothing" => m # Nothing
  BY DEF Nothing
<1>3. CASE \E o \in Objects : m = UploadReply(o)
  BY <1>2, <1>3, FirstChunk DEF UploadReply
<1>4. CASE \E o \in Objects : m = DownloadReply(o)
  BY <1>2, <1>4 DEF DownloadReply
<1>5. CASE \E c \in Chunks : m = SegmentReply(c)
  BY <1>2, <1>5 DEF SegmentReply
<1>6. CASE m = DownloadSegmentReply \/ m = Abort
  BY <1>2, <1>6 DEF DownloadSegmentReply, Abort
<1> QED
  BY <1>1, <1>3, <1>4, <1>5, <1>6

LEMMA NothingIs == Nothing.cmd = "nothing" /\ Nothing \notin Replies
                   /\ Nothing \notin Requests
<1>1. Nothing \notin Replies
  BY RepliesAre
<1>2. Nothing \notin Requests
  BY DEF Nothing, Requests
<1> QED
  BY <1>1, <1>2 DEF Nothing

LEMMA RequestsAre ==
  ASSUME NEW m \in Requests
  PROVE  /\ m.cnt \in 1 .. MaxCnt /\ m.body \in Bodies
         /\ m = [cnt |-> m.cnt, body |-> m.body]
BY DEF Requests, Bodies

LEMMA IsRequest ==
  ASSUME NEW n \in 1 .. MaxCnt, NEW b \in Bodies
  PROVE  [cnt |-> n, body |-> b] \in Requests
BY DEF Requests, Bodies

LEMMA NextCntIs ==
  ASSUME BoxTypes
  PROVE  NextCnt \in 1 .. MaxCnt
BY Sizes DEF BoxTypes, NextCnt

(* Faults are only added, but when a call begins.                          *)
LEMMA FaultAdds ==
  ASSUME BoxTypes, NEW kind \in Kinds
  PROVE  /\ Fault(kind) =>
              /\ faults' \in [Kinds -> Nat]
              /\ faults'[kind] = faults[kind] + 1
              /\ \A k \in Kinds \ {kind} : faults'[k] = faults[k]
         /\ Noted(kind) =>
              /\ faults' \in [Kinds -> Nat]
              /\ \A k \in Kinds : faults[k] <= faults'[k]
              /\ \A k \in Kinds \ {kind} : faults'[k] = faults[k]
<1>1. faults \in [Kinds -> Nat] /\ MaxFaults \in Nat
  BY AcyclicMbxAssumption DEF BoxTypes
<1>2. ASSUME Fault(kind)
      PROVE  /\ faults' \in [Kinds -> Nat]
             /\ faults'[kind] = faults[kind] + 1
             /\ \A k \in Kinds \ {kind} : faults'[k] = faults[k]
  BY <1>1, <1>2 DEF Fault
<1>3. ASSUME Noted(kind)
      PROVE  /\ faults' \in [Kinds -> Nat]
             /\ \A k \in Kinds : faults[k] <= faults'[k]
             /\ \A k \in Kinds \ {kind} : faults'[k] = faults[k]
  BY <1>1, <1>3 DEF Noted
<1> QED
  BY <1>2, <1>3

LEMMA ExpiresAdds ==
  ASSUME BoxTypes, Expires
  PROVE  /\ faults' \in [Kinds -> Nat]
         /\ \A k \in Kinds : faults[k] <= faults'[k]
         /\ ~Settled => faults'["late"] = faults["late"] + 1
<1>1. faults \in [Kinds -> Nat] /\ "late" \in Kinds
  BY DEF BoxTypes, Kinds
<1>2. CASE Settled /\ UNCHANGED faults
  BY <1>1, <1>2
<1>3. CASE ~Settled /\ Fault("late")
  <2>1. /\ faults' \in [Kinds -> Nat]
        /\ faults'["late"] = faults["late"] + 1
        /\ \A k \in Kinds \ {"late"} : faults'[k] = faults[k]
    BY <1>1, <1>3, FaultAdds
  <2> QED
    BY <1>1, <2>1
<1> QED
  BY <1>2, <1>3 DEF Expires

(* The steps of ecx_mbxsend and ecx_mbxreceive.                            *)
LEMMA TransportTypes ==
  ASSUME Types, Transport, UNCHANGED <<call, slave>>
  PROVE  Types'
<1> USE DEF Types
<1>1. CallTypes' /\ ServerTypes'
  BY DEF CallTypes, ServerTypes, call, slave
<1>2. CASE FirstTry
  BY <1>1, <1>2, NothingIs
  DEF FirstTry, BoxTypes, PlaceTypes, Exchanging, Labels
<1>3. CASE WaitEmpty
  BY <1>1, <1>3
  DEF WaitEmpty, BoxTypes, PlaceTypes, Exchanging, Labels, mailboxes, slavembx
<1>4. CASE WaitEmptyFails
  <2>1. faults' \in [Kinds -> Nat]
    BY <1>4, FaultAdds DEF WaitEmptyFails, Mistake, Kinds
  <2> QED
    BY <1>1, <1>4, <2>1
    DEF WaitEmptyFails, BoxTypes, PlaceTypes, Exchanging, Labels, slavembx
<1>5. CASE Retry
  <2>1. faults' \in [Kinds -> Nat]
    BY <1>5, FaultAdds DEF Retry, Mistake, Kinds, BoxTypes
  <2> QED
    BY <1>1, <1>5, <2>1 DEF Retry, BoxTypes, PlaceTypes, Exchanging, Labels
<1>6. CASE Receive
  BY <1>1, <1>6 DEF Receive, BoxTypes, PlaceTypes, Exchanging, Labels
<1>7. CASE ReceiveLoses
  <2>1. faults' \in [Kinds -> Nat]
    BY <1>7, FaultAdds DEF ReceiveLoses, Kinds
  <2> QED
    BY <1>1, <1>7, <2>1
    DEF ReceiveLoses, BoxTypes, PlaceTypes, Exchanging, Labels, mailboxes
<1>8. CASE ReceiveTimesOut
  <2>1. faults' \in [Kinds -> Nat]
    BY <1>8, ExpiresAdds DEF ReceiveTimesOut
  <2> QED
    BY <1>1, <1>8, <2>1
    DEF ReceiveTimesOut, BoxTypes, PlaceTypes, Exchanging, Labels, mailboxes,
        slavembx
<1> QED
  BY <1>2, <1>3, <1>4, <1>5, <1>6, <1>7, <1>8 DEF Transport

LEMMA SlaveTypes ==
  ASSUME Types, Slave, UNCHANGED <<call, slave>>
  PROVE  Types'
<1>1. CallTypes' /\ ServerTypes'
  BY DEF Types, CallTypes, ServerTypes, call, slave
<1>2. UNCHANGED <<pc, mailboxes, phase, pos, got, faults>>
  BY DEF Slave, TakeCopy, PlaceReply, FallSilent, call
<1>3. PlaceTypes'
  BY <1>2 DEF Types, PlaceTypes, mailboxes
<1>4. CASE TakeCopy \/ PlaceReply
  BY <1>1, <1>2, <1>3, <1>4
  DEF Types, TakeCopy, PlaceReply, BoxTypes, mailboxes
<1>5. CASE FallSilent
  <2>1. silent' \in BOOLEAN
    BY <1>5, Zenon DEF FallSilent
  <2> QED
    BY <1>1, <1>2, <1>3, <1>5, <2>1 DEF Types, FallSilent, BoxTypes, mailboxes
<1> QED
  BY <1>4, <1>5 DEF Slave

LEMMA RepliesIn ==
  /\ \A o \in Objects : UploadReply(o) \in Replies
  /\ \A o \in Objects : DownloadReply(o) \in Replies
  /\ \A c \in Chunks : SegmentReply(c) \in Replies
  /\ DownloadSegmentReply \in Replies /\ Abort \in Replies
BY DEF Replies

LEMMA TakeTypes ==
  ASSUME BoxTypes, PlaceTypes, NEW answer \in Replies, Take(answer),
         UNCHANGED call
  PROVE  BoxTypes' /\ PlaceTypes'
<1>1. inbox \in Requests
  BY DEF Take, BoxTypes
<1>2. inbox.cnt \in 0 .. MaxCnt
  BY <1>1, RequestsAre, Sizes
<1> QED
  BY <1>2 DEF Take, BoxTypes, PlaceTypes, mailboxes, call

LEMMA ServeTypes ==
  ASSUME Types, NEW answer \in Replies, NEW mode \in {"up", "down"},
         NEW t \in Toggles, NEW data \in Seq(Chunks), data # <<>>,
         Serve(answer, mode, t, data), stored' \in Seq(Chunks)
  PROVE  Types'
<1>1. Take(answer) /\ UNCHANGED call
      /\ server' = [mode |-> mode, toggle |-> t, data |-> data]
  BY DEF Serve
<1>2. BoxTypes' /\ PlaceTypes'
  BY <1>1, TakeTypes DEF Types
<1>3. CallTypes'
  BY <1>1 DEF Types, CallTypes, call
<1> QED
  BY <1>1, <1>2, <1>3 DEF Types, ServerTypes

LEMMA ServerStepTypes ==
  ASSUME Types, Server
  PROVE  Types'
<1> USE DEF Types
<1>1. CASE Refuse
  <2>1. BoxTypes' /\ PlaceTypes'
    BY <1>1, TakeTypes, RepliesIn DEF Refuse
  <2> QED
    BY <1>1, <2>1 DEF Refuse, CallTypes, ServerTypes, call, Idle, Toggles
<1>2. CASE UploadNext
  <2>1. PICK last : last = server.data[Len(server.data)]
    OBVIOUS
  <2>2. /\ server.mode = "up" /\ stored' = stored
        /\ ~IsLast(last)
        /\ Serve(SegmentReply(<<last[1], last[2] + 1>>), "up",
                 Flip(server.toggle), <<<<last[1], last[2] + 1>>>>)
    BY <1>2, <2>1 DEF UploadNext
  <2>3. server.data \in Seq(Chunks) /\ server.data # <<>>
        /\ server.toggle \in Toggles /\ stored \in Seq(Chunks)
    BY <2>2 DEF ServerTypes
  <2>4. last \in Chunks
    BY <2>1, <2>3
  <2>5. PICK c \in Chunks : c = <<last[1], last[2] + 1>>
    BY <2>2, <2>4, ChunkBehind
  <2>6. <<c>> \in Seq(Chunks) /\ <<c>> # <<>>
    OBVIOUS
  <2>7. Flip(server.toggle) \in Toggles /\ SegmentReply(c) \in Replies
    BY <2>3, RepliesIn DEF Flip, Toggles
  <2>8. Serve(SegmentReply(c), "up", Flip(server.toggle), <<c>>)
    BY <2>2, <2>5
  <2> QED
    BY <2>2, <2>3, <2>6, <2>7, <2>8, ServeTypes
<1>3. CASE DownloadNext
  <2>1. server.mode = "down"
    BY <1>3 DEF DownloadNext
  <2>2. PICK chunk \in Chunks :
          /\ Serve(DownloadSegmentReply, "down", Flip(server.toggle),
                   Append(server.data, chunk))
          /\ Commit(Append(server.data, chunk))
    BY <1>3 DEF DownloadNext
  <2>3. PICK data : data = Append(server.data, chunk)
    OBVIOUS
  <2>4. server.data \in Seq(Chunks)
        /\ server.toggle \in Toggles /\ stored \in Seq(Chunks)
    BY DEF ServerTypes
  <2>5. data \in Seq(Chunks) /\ data # <<>>
    BY <2>3, <2>4
  <2>6. stored' \in Seq(Chunks)
    BY <2>2, <2>3, <2>4, <2>5 DEF Commit
  <2>7. Flip(server.toggle) \in Toggles /\ DownloadSegmentReply \in Replies
    BY <2>4, RepliesIn DEF Flip, Toggles
  <2> QED
    BY <2>2, <2>3, <2>5, <2>6, <2>7, ServeTypes
<1>4. ASSUME NEW o \in Objects, StartUpload(o) PROVE Types'
  <2>0. PICK c \in Chunks : c = <<o, 1>>
    BY FirstChunk
  <2>a. <<c>> \in Seq(Chunks) /\ <<c>> # <<>>
    OBVIOUS
  <2>1. PICK data : data = <<<<o, 1>>>> /\ data \in Seq(Chunks) /\ data # <<>>
    BY <2>0, <2>a
  <2>2. Serve(UploadReply(o), "up", 0, data) /\ stored' = stored
    BY <1>4, <2>1 DEF StartUpload
  <2>3. UploadReply(o) \in Replies /\ 0 \in Toggles /\ stored' \in Seq(Chunks)
    BY <2>2, RepliesIn DEF Toggles, ServerTypes
  <2> QED
    BY <2>1, <2>2, <2>3, ServeTypes
<1>5. ASSUME NEW o \in Objects, StartDownload(o) PROVE Types'
  <2>0. PICK c \in Chunks : c = <<o, 1>>
    BY FirstChunk
  <2>a. <<c>> \in Seq(Chunks) /\ <<c>> # <<>>
    OBVIOUS
  <2>1. PICK data : data = <<<<o, 1>>>> /\ data \in Seq(Chunks) /\ data # <<>>
    BY <2>0, <2>a
  <2>2. Serve(DownloadReply(o), "down", 0, data) /\ Commit(data)
    BY <1>5, <2>1 DEF StartDownload
  <2>3. DownloadReply(o) \in Replies /\ 0 \in Toggles /\ stored' \in Seq(Chunks)
    BY <2>1, <2>2, RepliesIn DEF Toggles, ServerTypes, Commit
  <2> QED
    BY <2>1, <2>2, <2>3, ServeTypes
<1> QED
  BY <1>1, <1>2, <1>3, <1>4, <1>5 DEF Server

(* A request is posted.                                                    *)
LEMMA PostTypes ==
  ASSUME BoxTypes, NEW body \in Bodies, Post(body)
  PROVE  /\ mbxout' \in Requests /\ mbxout' # Nothing /\ mbxcnt' = NextCnt
         /\ mbxout' = [cnt |-> NextCnt, body |-> body]
         /\ mbxcnt' \in 1 .. MaxCnt /\ pc' = "try"
<1>1. /\ mbxout' = [cnt |-> NextCnt, body |-> body] /\ mbxcnt' = NextCnt
      /\ pc' = "try"
  BY DEF Post, Goto
<1>2. NextCnt \in 1 .. MaxCnt
  BY NextCntIs
<1>3. mbxout' \in Requests
  BY <1>1, <1>2, IsRequest
<1> QED
  BY <1>1, <1>2, <1>3, NothingIs

LEMMA BodiesIn ==
  /\ \A o \in Objects : Upload(o) \in Bodies /\ Download(o) \in Bodies
  /\ \A t \in Toggles : UploadSegment(t) \in Bodies
  /\ \A c \in Chunks : \A t \in Toggles : DownloadSegment(c, t) \in Bodies
BY DEF Bodies

LEMMA PostInitialTypes ==
  ASSUME BoxTypes, CallTypes, PostInitial
  PROVE  /\ mbxout' \in Requests /\ mbxout' # Nothing /\ mbxcnt' = NextCnt
         /\ mbxout' = [cnt |-> NextCnt, body |-> IF op = "up" THEN Upload(object)
                                                 ELSE Download(object)]
         /\ mbxcnt' \in 0 .. MaxCnt /\ pc' = "try"
         /\ pos' = (IF op = "down" THEN 1 ELSE 0) /\ pos' \in 0 .. Size[object]
<1>1. PICK body \in Bodies :
           body = IF op = "up" THEN Upload(object) ELSE Download(object)
  BY BodiesIn DEF CallTypes
<1>2. Post(body) /\ pos' = IF op = "down" THEN 1 ELSE 0
  BY <1>1 DEF PostInitial
<1>3. pos' \in 0 .. Size[object]
  BY <1>2, Sizes DEF CallTypes
<1>4. /\ mbxout' \in Requests /\ mbxout' # Nothing /\ mbxcnt' = NextCnt
      /\ mbxout' = [cnt |-> NextCnt, body |-> body]
      /\ mbxcnt' \in 1 .. MaxCnt /\ pc' = "try"
  BY <1>2, PostTypes
<1>5. mbxcnt' \in 0 .. MaxCnt
  BY <1>4, Sizes
<1> QED
  BY <1>1, <1>2, <1>3, <1>4, <1>5

(* The steps of ecx_SDOread and ecx_SDOwrite.                              *)
LEMMA DrainTypes ==
  ASSUME Types, Drain \/ DrainMisses
  PROVE  Types'
<1> USE DEF Types
<1>1. ServerTypes' /\ UNCHANGED <<op, object, fits, phase, toggle, got>>
  BY DEF Drain, DrainMisses, slave, ServerTypes
<1>2. mbxin' \in Replies \cup {Nothing} /\ outbox' \in Replies \cup {Nothing}
      /\ wkc' \in BOOLEAN
      /\ UNCHANGED <<inbox, work, lastcnt, silent>>
  <2>1. CASE Drain
    <3>1. wkc' \in BOOLEAN
      BY <2>1 DEF Drain
    <3> QED
      BY <2>1, <3>1 DEF Drain, BoxTypes
  <2>2. CASE DrainMisses
    BY <2>2 DEF DrainMisses, BoxTypes, CallTypes, slavembx
  <2> QED
    BY <2>1, <2>2
<1>3. faults' \in [Kinds -> Nat]
  <2>1. UNCHANGED faults \/ Fault("pool") \/ Fault("late")
    BY DEF Drain, DrainMisses
  <2> QED
    BY <2>1, FaultAdds DEF BoxTypes, Kinds
<1>4. CASE PostInitial
  <2>1. /\ mbxout' \in Requests /\ mbxout' # Nothing
        /\ mbxcnt' \in 0 .. MaxCnt /\ pc' = "try"
        /\ pos' \in 0 .. Size[object]
    BY <1>4, PostInitialTypes
  <2>2. BoxTypes'
    BY <1>2, <1>3, <2>1 DEF BoxTypes
  <2>3. PlaceTypes'
    BY <2>1 DEF PlaceTypes, Exchanging, Labels
  <2>4. CallTypes'
    BY <1>1, <1>2, <2>1 DEF CallTypes
  <2> QED
    BY <1>1, <2>2, <2>3, <2>4
<1>5. CASE Goto("done") /\ pc = "drain" /\ UNCHANGED <<mbxout, mbxcnt, pos>>
  <2>1. BoxTypes'
    BY <1>2, <1>3, <1>5 DEF BoxTypes
  <2>2. PlaceTypes'
    BY <1>5 DEF PlaceTypes, Exchanging, Labels, Goto
  <2>3. CallTypes'
    BY <1>1, <1>2, <1>5 DEF CallTypes
  <2> QED
    BY <1>1, <2>1, <2>2, <2>3
<1> QED
  BY <1>4, <1>5 DEF Drain, DrainMisses

LEMMA CheckTypes ==
  ASSUME Types, CheckInitial \/ CheckSegment \/ Reject \/ ExchangeFails
  PROVE  Types'
<1> USE DEF Types
<1>1. UNCHANGED <<mailboxes, slavembx, faults, slave>>
  BY DEF CheckInitial, CheckSegment, Reject, ExchangeFails
<1>2. BoxTypes' /\ ServerTypes'
  BY <1>1 DEF BoxTypes, ServerTypes, mailboxes, slavembx, slave
<1>3. UNCHANGED <<op, object, fits, pos>>
  BY DEF CheckInitial, CheckSegment, Reject, ExchangeFails
<1>a. phase' \in {"init", "segments"}
  BY DEF CheckInitial, CheckSegment, Reject, ExchangeFails, CallTypes
<1>b. toggle \in Toggles /\ 0 \in Toggles /\ Flip(toggle) \in Toggles
  BY DEF CallTypes, Toggles, Flip
<1>c. toggle' \in {toggle, 0, Flip(toggle)}
  BY DEF CheckInitial, CheckSegment, Reject, ExchangeFails
<1>d. wkc' = TRUE \/ wkc' = FALSE
  BY Zenon DEF CheckInitial, CheckSegment, Reject, ExchangeFails
<1>4. phase' \in {"init", "segments"} /\ toggle' \in Toggles /\ wkc' \in BOOLEAN
  BY <1>a, <1>b, <1>c, <1>d
<1>5. got' \in Seq(Chunks)
  <2>1. CASE op = "up" /\ (CheckInitial \/ CheckSegment) /\ mbxin.cmd # "downres"
    <3>1. mbxin \in Replies /\ mbxin.cmd \in {"upres", "segres"}
      BY <2>1
      DEF CheckInitial, CheckSegment, InitialReply, SegmentAnswer, BoxTypes,
          PlaceTypes
    <3>2. PICK c \in Chunks : c = mbxin.chunk
      BY <3>1, RepliesAre
    <3>3. got' = <<c>> \/ got' = Append(got, c)
      BY <2>1, <3>1, <3>2 DEF CheckInitial, CheckSegment, InitialReply, Carried
    <3>4. got \in Seq(Chunks)
      BY DEF CallTypes
    <3>5. <<c>> \in Seq(Chunks) /\ Append(got, c) \in Seq(Chunks)
      BY <3>4
    <3> QED
      BY <3>3, <3>5
  <2>2. CASE UNCHANGED got
    BY <2>2 DEF CallTypes
  <2>3. CASE got' = <<>>
    BY <2>3
  <2> QED
    BY <2>1, <2>2, <2>3 DEF CheckInitial, CheckSegment, SegmentAnswer, Carried, Reject,
                            ExchangeFails, CallTypes
<1>6. CallTypes'
  BY <1>3, <1>4, <1>5 DEF CallTypes
<1>7. /\ pc \notin Exchanging /\ pc' \in {"finish", "next"}
      /\ pc' = "next" => phase' = "segments"
  BY DEF CheckInitial, CheckSegment, Reject, ExchangeFails, Goto, CallTypes,
         Exchanging
<1>8. PlaceTypes'
  BY <1>1, <1>7 DEF PlaceTypes, Exchanging, Labels, mailboxes
<1> QED
  BY <1>2, <1>6, <1>8

LEMMA NextSegmentTypes ==
  ASSUME Types, NextSegment
  PROVE  /\ Types'
         /\ mbxcnt' = NextCnt /\ pc' = "try"
         /\ op = "up" => mbxout'.body = UploadSegment(toggle) /\ pos' = pos
         /\ op = "down" =>
              /\ pos' = pos + 1
              /\ mbxout' = [cnt |-> NextCnt,
                            body |-> DownloadSegment(<<object, pos + 1>>, toggle)]
<1> USE DEF Types
<1>1. /\ UNCHANGED <<mbxin, slavembx, faults, op, object, fits, phase, toggle,
                     got, wkc, slave>>
      /\ pos' = IF op = "down" THEN pos + 1 ELSE pos
      /\ pc = "next"
      /\ NotLast
  BY DEF NextSegment
<1>2. pos' \in 0 .. Size[object]
  BY <1>1, Sizes DEF NotLast, CallTypes
<1>3. op = "down" => <<object, pos + 1>> \in Chunks
  <2>1. op = "down" => pos + 1 \in 1 .. Size[object]
    BY <1>1, Sizes DEF NotLast, CallTypes
  <2> QED
    BY <2>1, ChunkOf DEF CallTypes
<1>4. PICK body \in Bodies :
          body = IF op = "up" THEN UploadSegment(toggle)
                 ELSE DownloadSegment(<<object, pos + 1>>, toggle)
  BY <1>3, BodiesIn DEF CallTypes
<1>5. Post(body)
  BY <1>4 DEF NextSegment
<1>6. /\ mbxout' \in Requests /\ mbxout' # Nothing /\ mbxcnt' = NextCnt
      /\ mbxout' = [cnt |-> NextCnt, body |-> body]
      /\ mbxcnt' \in 1 .. MaxCnt /\ pc' = "try"
  BY <1>5, PostTypes
<1>7. BoxTypes'
  BY <1>1, <1>6, Sizes DEF BoxTypes, slavembx
<1>8. PlaceTypes'
  BY <1>6 DEF PlaceTypes, Exchanging, Labels
<1>9. CallTypes' /\ ServerTypes'
  BY <1>1, <1>2 DEF CallTypes, ServerTypes, slave
<1> QED
  BY <1>1, <1>4, <1>6, <1>7, <1>8, <1>9 DEF CallTypes

LEMMA OtherTypes ==
  ASSUME Types, Sent \/ NoMailbox \/ AllHanded \/ Finish \/ Return
  PROVE  Types'
<1> USE DEF Types
<1>0. UNCHANGED <<server, object>> /\ (stored' = stored \/ stored' = <<>>)
  BY DEF Sent, NoMailbox, AllHanded, Finish, Return, slave, call
<1>a. <<>> \in Seq(Chunks)
  OBVIOUS
<1>1. UNCHANGED <<server, object>> /\ stored' \in Seq(Chunks)
  BY <1>0, <1>a DEF ServerTypes
<1>2. ServerTypes'
  BY <1>1 DEF ServerTypes
<1>3. faults' \in [Kinds -> Nat]
  <2>1. UNCHANGED faults \/ Fault("pool")
    BY DEF Sent, NoMailbox, AllHanded, Finish, Return
  <2> QED
    BY <2>1, FaultAdds DEF BoxTypes, Kinds
<1>4. UNCHANGED <<mbxout, mbxcnt, slavembx>> /\ mbxin' \in {mbxin, Nothing}
  BY DEF Sent, NoMailbox, AllHanded, Finish, Return, mailboxes
<1>5. BoxTypes'
  BY <1>3, <1>4 DEF BoxTypes, slavembx
<1>6. CASE Return
  <2>1. PlaceTypes'
    BY <1>6 DEF Return, PlaceTypes, Exchanging, Labels, Goto
  <2>0. /\ op' = "up" /\ fits' = TRUE /\ phase' = "init" /\ toggle' = 0
        /\ pos' = 0 /\ got' = <<>> /\ wkc' = FALSE /\ object' = object
    BY <1>6 DEF Return
  <2>a. 0 \in 0 .. Size[object] /\ object \in Objects
    BY Sizes DEF CallTypes
  <2>b. fits' \in BOOLEAN /\ wkc' \in BOOLEAN
    BY <2>0, Zenon
  <2>2. CallTypes'
    BY <2>0, <2>a, <2>b DEF CallTypes, Toggles
  <2> QED
    BY <1>2, <1>5, <2>1, <2>2
<1>7. CASE Sent
  <2>1. PlaceTypes'
    BY <1>7 DEF Sent, PlaceTypes, Exchanging, Labels, Goto
  <2>2. CallTypes'
    BY <1>7 DEF Sent, CallTypes
  <2> QED
    BY <1>2, <1>5, <2>1, <2>2
<1>8. CASE NoMailbox \/ AllHanded \/ Finish
  <2>1. PlaceTypes'
    BY <1>8 DEF NoMailbox, AllHanded, Finish, PlaceTypes, Exchanging, Labels,
                Goto, mailboxes
  <2>2. CallTypes'
    BY <1>8 DEF NoMailbox, AllHanded, Finish, CallTypes, call
  <2> QED
    BY <1>2, <1>5, <2>1, <2>2
<1> QED
  BY <1>6, <1>7, <1>8

LEMMA CallTypesStep ==
  ASSUME Types, NEW how \in {"up", "down"}, NEW o \in Objects,
         NEW room \in BOOLEAN, Call(how, o, room)
  PROVE  Types'
<1> USE DEF Types
<1>1. /\ pc = "idle" /\ pc' = "drain"
      /\ op' = how /\ object' = o /\ fits' = room
      /\ UNCHANGED <<mailboxes, slavembx, phase, toggle, pos, got, wkc, slave>>
  BY Zenon DEF Call, Goto
<1>2. fits' \in BOOLEAN
  BY <1>1, Zenon
<1>3. faults' \in [Kinds -> Nat]
  <2>1. BeginCall
    BY Zenon DEF Call
  <2>2. faults \in [Kinds -> Nat]
    BY DEF BoxTypes
  <2> QED
    BY <2>1, <2>2, ExpiresAdds DEF BeginCall
<1>4. BoxTypes' /\ ServerTypes'
  BY <1>1, <1>3 DEF BoxTypes, ServerTypes, mailboxes, slavembx, slave
<1>5. PlaceTypes'
  BY <1>1 DEF PlaceTypes, Exchanging, Labels, mailboxes
<1>6. CallTypes'
  BY <1>1, <1>2, <1>5, Sizes DEF CallTypes, PlaceTypes
<1> QED
  BY <1>4, <1>5, <1>6

LEMMA StepTypes ==
  ASSUME Types, [Next]_vars
  PROVE  Types'
<1>1. CASE \E how \in {"up", "down"}, o \in Objects, room \in BOOLEAN :
             Call(how, o, room)
  BY <1>1, CallTypesStep
<1>2. CASE Master
  BY <1>2, DrainTypes, CheckTypes, NextSegmentTypes, OtherTypes, TransportTypes
  DEF Master
<1>3. CASE Server
  BY <1>3, ServerStepTypes
<1>4. CASE Slave /\ UNCHANGED <<call, slave>>
  BY <1>4, SlaveTypes
<1>5. CASE UNCHANGED vars
  BY <1>5 DEF vars, mbxvars, mailboxes, slavembx, call, slave, Types, BoxTypes,
              PlaceTypes, CallTypes, ServerTypes
<1> QED
  BY <1>1, <1>2, <1>3, <1>4, <1>5 DEF Next

LEMMA InitTypes == Init => Types
<1> SUFFICES ASSUME Init PROVE Types
  OBVIOUS
<1>a. /\ mbxout = Nothing /\ mbxin = Nothing /\ mbxcnt = 0
      /\ inbox = Nothing /\ work = Nothing /\ outbox = Nothing
      /\ lastcnt = 0 /\ silent = FALSE
      /\ faults = [k \in Kinds |-> 0]
  BY DEF Init, MbxInit
<1>b. silent \in BOOLEAN
  BY <1>a, Zenon
<1>1. BoxTypes
  BY <1>a, <1>b, Sizes DEF BoxTypes
<1>2. PlaceTypes
  BY DEF Init, MbxInit, PlaceTypes, Exchanging, Labels
<1>c. /\ op = "up" /\ fits = TRUE /\ phase = "init" /\ toggle = 0
      /\ pos = 0 /\ got = <<>> /\ wkc = FALSE /\ object \in Objects
  BY DEF Init
<1>d. fits \in BOOLEAN /\ wkc \in BOOLEAN
  BY <1>c, Zenon
<1>3. CallTypes
  BY <1>c, <1>d, Sizes DEF CallTypes, Toggles
<1>4. ServerTypes
  BY DEF Init, ServerTypes, Idle, Toggles
<1> QED
  BY <1>1, <1>2, <1>3, <1>4 DEF Types

-----------------------------------------------------------------------------
(* What is under way.  Every reply under way, and a request the slave has  *)
(* not yet seen, belongs to the exchange that is going on, or to one whose *)
(* acknowledge was lost.                                                   *)
Acks == faults["acknowledge"]

Steady == faults["late"] = 0 /\ Acks <= 1

Fresh == inbox # Nothing /\ inbox.cnt # lastcnt

Answers == Held(outbox) + Held(work)

Load == Answers + IF Fresh THEN 1 ELSE 0

Resting == {"idle", "try", "next", "unsent", "unreceived", "finish", "done"}

Loads ==
  /\ pc \in {"sent", "receive"} => Load <= Acks + 1
  /\ pc = "received" => Load <= Acks
  /\ pc \in Resting => silent \/ Load <= Acks
  /\ pc = "drain" => silent \/ (inbox = Nothing /\ work = Nothing)
  /\ pc = "wait" =>
       \/ silent
       \/ inbox = mbxout /\ Answers <= Acks
       \/ inbox = Nothing /\ lastcnt = mbxout.cnt /\ Load <= Acks + 1
       \/ Load <= Acks
  /\ pc = "retry" =>
       \/ silent
       \/ /\ inbox = Nothing
          /\ Load <= Acks + IF lastcnt = mbxout.cnt THEN 1 ELSE 0

(* A call begins with no acknowledge lost.                                 *)
FirstAcks ==
  phase = "init" =>
    /\ pc \in {"sent", "receive", "received"} => Acks = 0
    /\ pc \in {"drain", "try", "wait", "retry"} => silent \/ Acks = 0

Counted == Steady => Loads /\ FirstAcks

LEMMA FaultCounts ==
  ASSUME BoxTypes
  PROVE  /\ \A k \in Kinds : faults[k] \in Nat
         /\ Acks \in Nat /\ faults["late"] \in Nat
         /\ faults["reply"] \in Nat /\ faults["request"] \in Nat
         /\ faults["pool"] \in Nat
BY DEF BoxTypes, Kinds, Acks

(* Only the begin of a call takes faults back.                             *)
LEMMA FaultsGrow ==
  ASSUME Types, Master \/ Server \/ (Slave /\ UNCHANGED <<call, slave>>)
  PROVE  /\ faults' \in [Kinds -> Nat]
         /\ \A k \in Kinds : faults[k] <= faults'[k]
<1>0. BoxTypes /\ faults \in [Kinds -> Nat]
  BY DEF Types, BoxTypes
<1>1. \/ UNCHANGED faults
      \/ \E k \in Kinds : Fault(k) \/ Noted(k)
      \/ Expires
  <2>1. CASE Master
    <3>1. CASE Transport
      BY <3>1
      DEF Transport, FirstTry, WaitEmpty, WaitEmptyFails, Retry, Receive,
          ReceiveLoses, ReceiveTimesOut, Kinds, Mistake
    <3>2. CASE ~Transport
      BY <2>1, <3>2
      DEF Master, Drain, DrainMisses, Sent, ExchangeFails, CheckInitial,
          CheckSegment, Reject, NextSegment, NoMailbox, AllHanded, Finish,
          Return, Kinds
    <3> QED
      BY <3>1, <3>2
  <2>2. CASE Server
    BY <2>2
    DEF Server, Refuse, UploadNext, DownloadNext, StartUpload, StartDownload,
        Serve, Take
  <2>3. CASE Slave
    BY <2>3 DEF Slave, TakeCopy, PlaceReply, FallSilent
  <2> QED
    BY <2>1, <2>2, <2>3
<1>2. CASE UNCHANGED faults
  BY <1>0, <1>2
<1>3. ASSUME NEW k \in Kinds, Fault(k) \/ Noted(k)
      PROVE  /\ faults' \in [Kinds -> Nat]
             /\ \A j \in Kinds : faults[j] <= faults'[j]
  <2>1. CASE Fault(k)
    <3>1. /\ faults' \in [Kinds -> Nat]
          /\ faults'[k] = faults[k] + 1
          /\ \A j \in Kinds \ {k} : faults'[j] = faults[j]
      BY <1>0, <2>1, FaultAdds
    <3> QED
      BY <1>0, <3>1
  <2>2. CASE Noted(k)
    BY <1>0, <2>2, FaultAdds
  <2> QED
    BY <1>3, <2>1, <2>2
<1>4. CASE Expires
  BY <1>0, <1>4, ExpiresAdds
<1> QED
  BY <1>1, <1>2, <1>3, <1>4

LEMMA SteadyBefore ==
  ASSUME Types, Steady',
         Master \/ Server \/ (Slave /\ UNCHANGED <<call, slave>>)
  PROVE  /\ Steady
         /\ Acks \in Nat /\ Acks' \in Nat /\ Acks <= Acks'
<1>1. /\ faults' \in [Kinds -> Nat]
      /\ \A k \in Kinds : faults[k] <= faults'[k]
  BY FaultsGrow
<1>2. faults \in [Kinds -> Nat]
  BY DEF Types, BoxTypes
<1> QED
  BY <1>1, <1>2 DEF Steady, Acks, Kinds

(* A fault of one kind.                                                    *)
LEMMA NotLate ==
  ASSUME Types, Fault("late")
  PROVE  ~ Steady'
<1>1. faults'["late"] = faults["late"] + 1 /\ faults["late"] \in Nat
  BY FaultAdds, FaultCounts DEF Types, Kinds
<1> QED
  BY <1>1 DEF Steady

LEMMA AckLost ==
  ASSUME Types, Fault("acknowledge")
  PROVE  Acks' = Acks + 1
BY FaultAdds DEF Types, Kinds, Acks

LEMMA HeldIs ==
  ASSUME NEW m
  PROVE  Held(m) \in {0, 1} /\ (Held(m) = 0 <=> m = Nothing)
BY DEF Held

(* The slave carries the load on.                                          *)
LEMMA TakeCounts ==
  ASSUME Types, Counted, NEW answer \in Replies, Take(answer), UNCHANGED call
  PROVE  Counted'
<1> SUFFICES ASSUME Steady' PROVE Loads' /\ FirstAcks'
  BY DEF Counted
<1>1. /\ inbox # Nothing /\ work = Nothing /\ ~silent
      /\ inbox.cnt # lastcnt /\ inbox' = Nothing /\ lastcnt' = inbox.cnt
      /\ work' = answer
      /\ UNCHANGED <<pc, mbxout, outbox, silent, faults, phase>>
  BY DEF Take, mailboxes, call
<1>2. Steady /\ Acks' = Acks /\ Acks \in Nat
  BY <1>1, FaultCounts DEF Steady, Acks, Types
<1>3. Loads /\ FirstAcks
  BY <1>2 DEF Counted
<1>4. answer # Nothing
  BY RepliesAre
<1>5. Answers' = Answers + 1 /\ Answers \in Nat /\ Load = Answers + 1
      /\ Load' = Load
  BY <1>1, <1>4 DEF Answers, Load, Fresh, Held
<1>6. FirstAcks'
  BY <1>1, <1>2, <1>3 DEF FirstAcks
<1>7. Loads'
  BY <1>1, <1>2, <1>3, <1>5 DEF Loads, Resting
<1> QED
  BY <1>6, <1>7

LEMMA SlaveCounts ==
  ASSUME Types, Counted, Slave, UNCHANGED <<call, slave>>
  PROVE  Counted'
<1> SUFFICES ASSUME Steady' PROVE Loads' /\ FirstAcks'
  BY DEF Counted
<1>0. /\ UNCHANGED <<pc, mbxout, faults, phase, lastcnt>>
      /\ silent => silent'
  BY DEF Slave, TakeCopy, PlaceReply, FallSilent, mailboxes, call
<1>2. Steady /\ Acks' = Acks /\ Acks \in Nat
  BY <1>0, FaultCounts DEF Steady, Acks, Types
<1>3. Loads /\ FirstAcks
  BY <1>2 DEF Counted
<1>6. FirstAcks'
  BY <1>0, <1>2, <1>3 DEF FirstAcks
<1>4. CASE TakeCopy
  <2>1. /\ Answers' = Answers /\ Load = Answers /\ Load' = Load
        /\ inbox # Nothing /\ inbox.cnt = lastcnt /\ inbox' = Nothing
        /\ UNCHANGED silent
    BY <1>4 DEF TakeCopy, Answers, Load, Fresh, Held
  <2>2. Answers \in Nat
    BY DEF Answers, Held
  <2> QED
    BY <1>0, <1>2, <1>3, <1>6, <2>1, <2>2 DEF Loads, Resting
<1>5. CASE PlaceReply
  <2>1. /\ Answers' = Answers /\ Load' = Load
        /\ UNCHANGED <<inbox, silent>> /\ work # Nothing
    BY <1>5 DEF PlaceReply, Answers, Load, Fresh, Held
  <2> QED
    BY <1>0, <1>2, <1>3, <1>6, <2>1 DEF Loads, Resting
<1>7. CASE FallSilent
  <2>1. Answers' = Answers /\ Load' = Load /\ silent'
    BY <1>7 DEF FallSilent, Answers, Load, Fresh, Held
  <2> QED
    BY <1>0, <1>2, <1>3, <1>6, <2>1 DEF Loads, Resting
<1> QED
  BY <1>4, <1>5, <1>7 DEF Slave

(* Two replies under way are one too many, so that the slave is not stuck. *)
LEMMA NotStuck ==
  ASSUME Types, Steady, Settled, ~silent, Answers <= Acks + 1, inbox # Nothing
  PROVE  Answers = 2 /\ Acks = 1
<1>1. work # Nothing /\ outbox # Nothing
  BY DEF Settled
<1>2. Answers = 2
  BY <1>1 DEF Answers, Held
<1> QED
  BY <1>2, FaultCounts DEF Steady, Types

LEMMA SendCounts ==
  ASSUME Types, Counted, FirstTry \/ WaitEmpty \/ WaitEmptyFails \/ Retry,
         UNCHANGED <<call, slave>>
  PROVE  Counted'
<1> SUFFICES ASSUME Steady' PROVE Loads' /\ FirstAcks'
  BY DEF Counted
<1>1. Master
  BY DEF Master, Transport
<1>2. Steady /\ Acks \in Nat /\ Acks' \in Nat /\ Acks <= Acks'
      /\ Acks <= 1 /\ Acks' <= 1
  BY <1>1, SteadyBefore DEF Steady
<1>3. Loads /\ FirstAcks
  BY <1>2 DEF Counted
<1>4. phase' = phase
  BY DEF call
<1>5. Answers \in Nat /\ Answers <= 2
  BY DEF Answers, Held
<1>6. CASE FirstTry
  <2>1. /\ pc = "try" /\ UNCHANGED <<faults, lastcnt, silent>>
        /\ mbxout # Nothing
    BY <1>6 DEF FirstTry, Types, PlaceTypes, Exchanging
  <2>2. Answers' = Answers /\ Acks' = Acks
    BY <1>6 DEF FirstTry, Answers, Held, Acks
  <2>3. \/ /\ inbox = Nothing /\ ~silent /\ inbox' = mbxout
           /\ \/ pc' = "sent"
              \/ pc' = "wait" /\ mbxout' = mbxout
        \/ pc' = "wait" /\ inbox' = inbox /\ mbxout' = mbxout
    BY <1>6 DEF FirstTry
  <2>4. silent \/ Load <= Acks
    BY <1>3, <2>1 DEF Loads, Resting
  <2>5. inbox = Nothing => Load = Answers
    BY <1>5 DEF Load, Fresh
  <2>6. Load' = Answers \/ Load' = Answers + 1
    BY <1>5, <2>2 DEF Load
  <2>7. inbox' = inbox => Load' = Load
    BY <2>1, <2>2 DEF Load, Fresh
  <2>8. Loads'
    BY <1>2, <1>5, <2>1, <2>2, <2>3, <2>4, <2>5, <2>6, <2>7 DEF Loads, Resting
  <2>9. FirstAcks'
    BY <1>3, <1>4, <2>1, <2>2, <2>3 DEF FirstAcks
  <2> QED
    BY <2>8, <2>9
<1>7. CASE WaitEmpty
  <2>1. /\ pc = "wait" /\ inbox = Nothing /\ ~silent /\ pc' = "retry"
        /\ mbxout # Nothing
        /\ UNCHANGED <<mbxout, inbox, work, outbox, lastcnt, silent, faults>>
    BY <1>7 DEF WaitEmpty, mailboxes, slavembx, Types, PlaceTypes, Exchanging
  <2>2. Load' = Load /\ Acks' = Acks /\ Load \in Nat
    BY <1>5, <2>1 DEF Load, Answers, Fresh, Acks
  <2>3. Loads'
    BY <1>2, <1>3, <2>1, <2>2 DEF Loads, Resting
  <2>4. FirstAcks'
    BY <1>3, <1>4, <2>1, <2>2 DEF FirstAcks
  <2> QED
    BY <2>3, <2>4
<1>8. CASE WaitEmptyFails
  <2>1. /\ pc = "wait" /\ (inbox # Nothing \/ silent) /\ pc' = "unsent"
        /\ UNCHANGED <<inbox, work, outbox, lastcnt, silent>>
        /\ Settled
    BY <1>8, NotLate DEF WaitEmptyFails, slavembx
  <2>2. CASE silent
    BY <2>1, <2>2 DEF Loads, Resting, FirstAcks
  <2>3. CASE ~silent
    <3>1. Load = Answers \/ Load = Answers + 1
      BY <1>5 DEF Load
    <3>2. Answers <= Acks
      BY <1>2, <1>3, <1>5, <2>1, <2>3, <3>1 DEF Loads
    <3>3. Answers = 2
      BY <1>2, <1>5, <2>1, <2>3, <3>2, NotStuck
    <3> QED
      BY <1>2, <3>2, <3>3
  <2> QED
    BY <2>2, <2>3
<1>9. CASE Retry
  <2>1. /\ pc = "retry" /\ UNCHANGED <<work, outbox, lastcnt, silent>>
        /\ mbxout # Nothing
        /\ \/ inbox = Nothing /\ inbox' = mbxout /\ pc' = "sent"
              /\ UNCHANGED faults /\ ~silent
           \/ inbox = Nothing /\ inbox' = mbxout /\ pc' = "unsent"
              /\ Fault("acknowledge")
           \/ pc' = "unsent" /\ inbox' = inbox
              /\ (silent \/ Fault(Mistake))
    BY <1>9 DEF Retry, Types, PlaceTypes, Exchanging
  <2>2. Answers' = Answers
    BY <2>1 DEF Answers
  <2>3. Load' = Answers + IF Fresh' THEN 1 ELSE 0
    BY <2>2 DEF Load
  <2>4. silent \/ (inbox = Nothing /\ Load = Answers /\
                   Answers <= Acks + IF lastcnt = mbxout.cnt THEN 1 ELSE 0)
    BY <1>3, <1>5, <2>1 DEF Loads, Load, Fresh
  <2>5. inbox' = mbxout => (Fresh' <=> lastcnt # mbxout.cnt)
    BY <2>1 DEF Fresh
  <2>6. FirstAcks'
    <3>1. CASE pc' = "sent"
      <4>1. Acks' = Acks
        BY <2>1, <3>1 DEF Acks
      <4> QED
        BY <1>3, <1>4, <2>1, <3>1, <4>1 DEF FirstAcks
    <3>2. CASE pc' = "unsent"
      BY <3>2 DEF FirstAcks
    <3> QED
      BY <2>1, <3>1, <3>2
  <2>7. CASE silent
    BY <2>1, <2>6, <2>7 DEF Loads, Resting
  <2>8. CASE ~silent
    <3>1. CASE inbox' = mbxout /\ pc' = "sent" /\ UNCHANGED faults
      <4>1. Acks' = Acks
        BY <3>1 DEF Acks
      <4> QED
        BY <1>2, <1>5, <2>3, <2>4, <2>5, <2>6, <2>8, <3>1, <4>1 DEF Loads, Resting
    <3>2. CASE inbox' = mbxout /\ pc' = "unsent" /\ Fault("acknowledge")
      <4>1. Acks' = Acks + 1
        BY <3>2, AckLost
      <4> QED
        BY <1>2, <1>5, <2>3, <2>4, <2>5, <2>6, <2>8, <3>2, <4>1 DEF Loads, Resting
    <3>3. CASE pc' = "unsent" /\ inbox' = inbox /\ Fault(Mistake)
      <4>1. Load' = Answers
        BY <1>5, <2>1, <2>3, <2>4, <2>8, <3>3 DEF Fresh
      <4>2. lastcnt = mbxout.cnt => Acks' = Acks + 1
        BY <3>3, AckLost DEF Mistake
      <4> QED
        BY <1>2, <1>5, <2>4, <2>6, <2>8, <3>3, <4>1, <4>2 DEF Loads, Resting
    <3> QED
      BY <2>1, <2>8, <3>1, <3>2, <3>3
  <2> QED
    BY <2>7, <2>8
<1> QED
  BY <1>6, <1>7, <1>8, <1>9

LEMMA ReceiveCounts ==
  ASSUME Types, Counted, Receive \/ ReceiveLoses \/ ReceiveTimesOut,
         UNCHANGED <<call, slave>>
  PROVE  Counted'
<1> SUFFICES ASSUME Steady' PROVE Loads' /\ FirstAcks'
  BY DEF Counted
<1>1. Master
  BY DEF Master, Transport
<1>2. Steady /\ Acks \in Nat /\ Acks' \in Nat /\ Acks <= Acks'
      /\ Acks <= 1 /\ Acks' <= 1
  BY <1>1, SteadyBefore DEF Steady
<1>3. Loads /\ FirstAcks
  BY <1>2 DEF Counted
<1>4. phase' = phase
  BY DEF call
<1>5. Answers \in Nat
  BY DEF Answers, Held
<1>6. pc = "receive" /\ pc' \in {"received", "unreceived"}
      /\ UNCHANGED <<inbox, work, lastcnt, silent>> /\ Load <= Acks + 1
  BY <1>3 DEF Receive, ReceiveLoses, ReceiveTimesOut, slavembx, Loads
<1>7. CASE Receive \/ ReceiveLoses
  <2>1. outbox # Nothing /\ outbox' = Nothing
    BY <1>7 DEF Receive, ReceiveLoses
  <2>2. Load \in Nat /\ Load' = Load - 1
    BY <1>5, <1>6, <2>1 DEF Load, Answers, Fresh, Held
  <2>3. pc' = "received" => Acks' = Acks
    BY <1>7 DEF Receive, ReceiveLoses, Acks
  <2>4. Load' <= Acks'
    BY <1>2, <1>6, <2>2
  <2>5. Loads'
    BY <1>6, <2>4 DEF Loads, Resting
  <2> QED
    BY <1>3, <1>4, <1>6, <2>3, <2>5 DEF FirstAcks
<1>8. CASE ReceiveTimesOut
  <2>1. pc' = "unreceived" /\ (outbox = Nothing \/ silent) /\ Settled
        /\ outbox' = outbox
    BY <1>8, NotLate DEF ReceiveTimesOut, Expires, slavembx
  <2>2. ~silent => inbox = Nothing /\ work = Nothing /\ outbox = Nothing
    BY <2>1 DEF Settled
  <2>3. ~silent => Load' = 0
    BY <1>6, <2>1, <2>2 DEF Load, Answers, Fresh, Held
  <2>4. Loads'
    BY <1>2, <1>6, <2>1, <2>3 DEF Loads, Resting
  <2> QED
    BY <2>1, <2>4 DEF FirstAcks
<1> QED
  BY <1>7, <1>8

LEMMA CallCounts ==
  ASSUME Types, Counted, NEW how \in {"up", "down"}, NEW o \in Objects,
         NEW room \in BOOLEAN, Call(how, o, room)
  PROVE  Counted'
<1> SUFFICES ASSUME Steady' PROVE Loads' /\ FirstAcks'
  BY DEF Counted
<1>1. /\ pc = "idle" /\ pc' = "drain" /\ BeginCall
      /\ UNCHANGED <<slavembx, phase>>
  BY Zenon DEF Call, Goto
<1>2. UNCHANGED <<inbox, work, outbox, lastcnt, silent>>
  BY <1>1 DEF slavembx
<1>3. CASE inbox = Nothing /\ work = Nothing
  <2>1. faults' = [k \in Kinds |-> IF k = "pool" THEN faults[k] ELSE 0]
    BY <1>1, <1>3 DEF BeginCall
  <2>2. Acks' = 0
    BY <2>1 DEF Acks, Kinds
  <2> QED
    BY <1>1, <1>2, <1>3, <2>2 DEF Loads, FirstAcks, Resting
<1>4. CASE ~(inbox = Nothing /\ work = Nothing)
  <2>1. Settled /\ UNCHANGED faults
    BY <1>1, <1>4, NotLate DEF BeginCall, Expires
  <2>2. Steady /\ Acks \in Nat /\ Acks <= 1
    BY <2>1, FaultCounts DEF Steady, Acks, Types
  <2>3. silent \/ Load <= Acks
    BY <1>1, <2>2 DEF Counted, Loads, Resting
  <2>4. silent \/ Answers = 2
    BY <1>4, <2>1 DEF Settled, Answers, Held
  <2>5. silent
    BY <2>2, <2>3, <2>4 DEF Load
  <2> QED
    BY <1>1, <1>2, <2>5 DEF Loads, FirstAcks, Resting
<1> QED
  BY <1>3, <1>4

LEMMA CallStepCounts ==
  ASSUME Types, Counted, Drain \/ DrainMisses \/ Sent \/ ExchangeFails
           \/ CheckInitial \/ CheckSegment \/ Reject
           \/ NextSegment \/ NoMailbox \/ AllHanded \/ Finish \/ Return
  PROVE  Counted'
<1> SUFFICES ASSUME Steady' PROVE Loads' /\ FirstAcks'
  BY DEF Counted
<1>1. Master
  BY DEF Master
<1>2. Steady /\ Acks \in Nat /\ Acks' \in Nat /\ Acks <= Acks'
      /\ Acks <= 1 /\ Acks' <= 1
  BY <1>1, SteadyBefore DEF Steady
<1>3. Loads /\ FirstAcks
  BY <1>2 DEF Counted
<1>4. UNCHANGED <<inbox, work, lastcnt, silent>>
  BY DEF Drain, DrainMisses, Sent, ExchangeFails, CheckInitial, CheckSegment,
         Reject, NextSegment, NoMailbox, AllHanded, Finish, Return, slavembx
<1>5. CASE Drain
  <2>1. pc = "drain" /\ pc' \in {"try", "done"} /\ phase' = phase
    BY <1>5 DEF Drain, PostInitial, Post, Goto
  <2>2. silent \/ (inbox = Nothing /\ work = Nothing /\ outbox' = Nothing)
    BY <1>3, <1>5, <2>1 DEF Drain, Loads
  <2>3. silent \/ Load' = 0
    BY <1>4, <2>2 DEF Load, Answers, Fresh, Held
  <2>4. Loads'
    BY <1>2, <1>4, <2>1, <2>3 DEF Loads, Resting
  <2>5. pc' = "try" => Acks' = Acks
    BY <1>5 DEF Drain, Goto, Acks
  <2>6. FirstAcks'
    BY <1>3, <1>4, <2>1, <2>5 DEF FirstAcks
  <2> QED
    BY <2>4, <2>6
<1>6. CASE ~Drain
  <2>1. ~DrainMisses
    BY NotLate DEF DrainMisses
  <2>2. outbox' = outbox
    BY <1>6, <2>1
    DEF Sent, ExchangeFails, CheckInitial, CheckSegment, Reject, NextSegment,
        NoMailbox, AllHanded, Finish, Return, slavembx
  <2>3. Load' = Load
    BY <1>4, <2>2 DEF Load, Answers, Fresh
  <2>4. CASE Sent
    <3>1. /\ pc = "sent" /\ pc' = "receive" /\ UNCHANGED <<faults, phase>>
      BY <2>4 DEF Sent, Goto
    <3>2. Acks' = Acks
      BY <3>1 DEF Acks
    <3>3. Loads'
      BY <1>3, <2>3, <3>1, <3>2 DEF Loads, Resting
    <3> QED
      BY <1>3, <3>1, <3>2, <3>3 DEF FirstAcks
  <2>5. CASE ~Sent
    <3>1. /\ pc \in Resting \cup {"received"}
          /\ pc' \in {"finish", "next", "idle", "done", "try"}
      BY <1>6, <2>1, <2>5
      DEF ExchangeFails, CheckInitial, CheckSegment, Reject, NextSegment, Post,
          NoMailbox, AllHanded, Finish, Return, Goto, Resting
    <3>2. silent \/ Load' <= Acks'
      BY <1>2, <1>3, <2>3, <3>1 DEF Loads, Load, Answers, Held
    <3>3. pc' = "try" => phase' = "segments"
      BY <1>6, <2>1, <2>5
      DEF ExchangeFails, CheckInitial, CheckSegment, Reject, NextSegment, Post,
          NoMailbox, AllHanded, Finish, Return, Goto, Types, PlaceTypes
    <3>4. Loads'
      BY <1>4, <3>1, <3>2 DEF Loads, Resting
    <3> QED
      BY <3>1, <3>3, <3>4 DEF FirstAcks
  <2> QED
    BY <2>4, <2>5
<1> QED
  BY <1>5, <1>6

(* Whatever the slave's server does, it takes a request.                   *)
LEMMA ServerTakes ==
  ASSUME Types, Server
  PROVE  \E answer \in Replies : Take(answer) /\ UNCHANGED call
<1>1. CASE Refuse
  BY <1>1, RepliesIn DEF Refuse
<1>2. CASE UploadNext
  <2>1. PICK last : last = server.data[Len(server.data)]
    OBVIOUS
  <2>2. /\ server.mode = "up" /\ ~IsLast(last)
        /\ Serve(SegmentReply(<<last[1], last[2] + 1>>), "up",
                 Flip(server.toggle), <<<<last[1], last[2] + 1>>>>)
    BY <1>2, <2>1 DEF UploadNext
  <2>3. server.data \in Seq(Chunks) /\ server.data # <<>>
    BY <2>2 DEF Types, ServerTypes
  <2>4. last \in Chunks
    BY <2>1, <2>3
  <2> QED
    BY <2>2, <2>4, ChunkBehind, RepliesIn DEF Serve
<1>3. CASE DownloadNext
  BY <1>3, RepliesIn DEF DownloadNext, Serve
<1>4. CASE \E o \in Objects : StartUpload(o) \/ StartDownload(o)
  BY <1>4, RepliesIn DEF StartUpload, StartDownload, Serve
<1> QED
  BY <1>1, <1>2, <1>3, <1>4 DEF Server

LEMMA StepCounts ==
  ASSUME Types, Counted, [Next]_vars
  PROVE  Counted'
<1>1. CASE \E how \in {"up", "down"}, o \in Objects, room \in BOOLEAN :
             Call(how, o, room)
  BY <1>1, CallCounts
<1>2. CASE Master
  BY <1>2, CallStepCounts, SendCounts, ReceiveCounts DEF Master, Transport
<1>3. CASE Server
  BY <1>3, ServerTakes, TakeCounts
<1>4. CASE Slave /\ UNCHANGED <<call, slave>>
  BY <1>4, SlaveCounts
<1>5. CASE UNCHANGED vars
  BY <1>5
  DEF vars, mbxvars, mailboxes, slavembx, call, slave, Counted, Steady, Loads,
      FirstAcks, Load, Answers, Fresh, Acks, Resting
<1> QED
  BY <1>1, <1>2, <1>3, <1>4, <1>5 DEF Next

LEMMA InitCounts == Init => Counted
<1> SUFFICES ASSUME Init PROVE Counted
  OBVIOUS
<1>1. pc = "idle" /\ inbox = Nothing /\ work = Nothing /\ outbox = Nothing
  BY DEF Init, MbxInit
<1>2. Load = 0 /\ Acks \in Nat
  BY <1>1, InitTypes, FaultCounts DEF Load, Answers, Fresh, Held, Types
<1> QED
  BY <1>1, <1>2 DEF Counted, Loads, FirstAcks, Resting

(* Without a lost acknowledge a request the slave has not seen is all that *)
(* is under way.                                                           *)
LEMMA RequestAlone ==
  ASSUME Types, Counted, Steady, Acks = 0, Fresh, ~silent
  PROVE  pc \in {"wait", "sent", "receive"} /\ outbox = Nothing /\ work = Nothing
<1>1. Loads /\ inbox # Nothing
  BY DEF Counted, Fresh
<1>2. Answers \in Nat /\ Load = Answers + 1
  BY DEF Load, Answers, Held
<1>3. pc \in Labels
  BY DEF Types, PlaceTypes
<1>4. pc \in {"wait", "sent", "receive"} /\ Answers = 0
  BY <1>1, <1>2, <1>3 DEF Loads, Resting, Labels
<1> QED
  BY <1>4 DEF Answers, Held

LEMMA NothingUnderWay ==
  ASSUME Types, Counted, Steady, Acks = 0,
         pc = "received" \/ (pc \in Resting /\ ~silent)
  PROVE  outbox = Nothing /\ work = Nothing /\ ~Fresh
<1>1. Load <= 0
  BY DEF Counted, Loads, Resting
<1>2. Answers \in Nat /\ Load \in Nat
      /\ (Load = 0 => Answers = 0 /\ ~Fresh)
  BY DEF Load, Answers, Held
<1> QED
  BY <1>1, <1>2 DEF Answers, Held

-----------------------------------------------------------------------------
(* Rows of chunks.                                                         *)
Row(o, n) == [k \in 1 .. n |-> <<o, k>>]

LEMMA RowOne == ASSUME NEW o PROVE <<<<o, 1>>>> = Row(o, 1)
BY DEF Row

LEMMA RowTyped ==
  ASSUME NEW o \in Objects, NEW n \in 0 .. Size[o]
  PROVE  Row(o, n) \in Seq(Chunks)
<1>1. Size[o] \in Nat
  BY Sizes
<1>2. \A k \in 1 .. n : <<o, k>> \in Chunks
  BY <1>1, ChunkOf
<1> QED
  BY <1>2 DEF Row

LEMMA RowLength ==
  ASSUME NEW o \in Objects, NEW n \in 0 .. Size[o]
  PROVE  Len(Row(o, n)) = n
<1>1. n \in Nat /\ Row(o, n) \in Seq(Chunks)
  BY Sizes, RowTyped
<1> QED
  BY <1>1 DEF Row

LEMMA RowGrows ==
  ASSUME NEW o \in Objects, NEW n \in 0 .. Size[o] - 1
  PROVE  Append(Row(o, n), <<o, n + 1>>) = Row(o, n + 1)
<1>0. n \in Nat /\ n + 1 \in 0 .. Size[o] /\ n \in 0 .. Size[o]
      /\ n + 1 \in 1 .. Size[o]
  BY Sizes
<1>1. PICK s \in Seq(Chunks) : s = Row(o, n)
  BY <1>0, RowTyped
<1>2. PICK c \in Chunks : c = <<o, n + 1>>
  BY <1>0, ChunkOf
<1>3. DOMAIN s = 1 .. n /\ Len(s) = n /\ \A k \in 1 .. n : s[k] = <<o, k>>
  BY <1>0, <1>1, RowLength DEF Row
<1>4. PICK a : a = Append(s, c)
  OBVIOUS
<1>5. a \in Seq(Chunks) /\ Len(a) = n + 1 /\ a[n + 1] = c
      /\ \A k \in 1 .. n : a[k] = s[k]
  BY <1>0, <1>1, <1>2, <1>3, <1>4
<1>6. \A k \in 1 .. (n + 1) : a[k] = <<o, k>>
  BY <1>0, <1>2, <1>3, <1>5
<1>7. a = [k \in 1 .. (n + 1) |-> a[k]]
  BY <1>0, <1>5
<1> QED
  BY <1>1, <1>2, <1>4, <1>6, <1>7 DEF Row

-----------------------------------------------------------------------------
(* Uploads.  While the initial exchange is open, all that is under way is  *)
(* about the object of the call; while segments are, what is in the hand of*)
(* the master, in the mailbox of the slave and in its work follows what is *)
(* in the caller's buffer, chunk by chunk.                                 *)
Undisturbed == Steady /\ faults["reply"] = 0 /\ faults["pool"] = 0

Hand == IF pc = "received" THEN mbxin ELSE Nothing

Begun ==
  /\ phase = "init"
  /\ pc \in {"try", "wait", "retry", "sent", "receive", "received"}
  /\ silent => pc \in {"sent", "receive", "received"}

Looping ==
  /\ phase = "segments"
  /\ pc \in {"next", "try", "wait", "retry", "sent", "receive", "received",
             "unsent", "unreceived"}

UploadBegun ==
  /\ mbxout # Nothing => mbxout.body = Upload(object)
  /\ Fresh => inbox.body = Upload(object)
  /\ \A m \in {outbox, work, Hand} : m.cmd # "downres"
  /\ \A m \in {outbox, work, Hand} : m.cmd = "upres" =>
       /\ m.chunk = <<object, 1>>
       /\ server.mode = "up" /\ server.data = <<<<object, 1>>>>

Reading(n) ==
  /\ got = Row(object, n)
  /\ mbxout # Nothing => mbxout.body.cmd = "upseg"
  /\ Fresh => inbox.body.cmd = "upseg"
  /\ Hand.cmd = "segres" => Hand.chunk = <<object, n + 1>>
  /\ outbox.cmd = "segres" => outbox.chunk = <<object, n + Held(Hand) + 1>>
  /\ work.cmd = "segres" =>
       work.chunk = <<object, n + Held(Hand) + Held(outbox) + 1>>
  /\ server.mode = "up" =>
       server.data = <<<<object, n + Held(Hand) + Held(outbox) + Held(work)>>>>

Uploading ==
  op = "up" /\ Undisturbed =>
    /\ Begun => UploadBegun
    /\ Looping => \E n \in 1 .. Size[object] - 1 : Reading(n)
    /\ pc \in {"finish", "done"} /\ wkc => got = Content(object)

LEMMA UndisturbedBefore ==
  ASSUME Types, Undisturbed',
         Master \/ Server \/ (Slave /\ UNCHANGED <<call, slave>>)
  PROVE  /\ Undisturbed /\ Acks \in Nat /\ Acks' \in Nat /\ Acks <= Acks'
         /\ ~Fault("reply") /\ ~Fault("pool") /\ ~Fault("late")
<1>1. /\ faults' \in [Kinds -> Nat]
      /\ \A k \in Kinds : faults[k] <= faults'[k]
  BY FaultsGrow
<1>2. faults \in [Kinds -> Nat] /\ BoxTypes
  BY DEF Types, BoxTypes
<1>3. Steady /\ Acks \in Nat /\ Acks' \in Nat /\ Acks <= Acks'
  BY SteadyBefore DEF Undisturbed
<1>4. ~Fault("reply") /\ ~Fault("pool") /\ ~Fault("late")
  BY <1>2, FaultAdds, FaultCounts DEF Undisturbed, Steady, Kinds
<1>5. faults["reply"] = 0 /\ faults["pool"] = 0
  BY <1>1, <1>2 DEF Undisturbed, Kinds
<1> QED
  BY <1>3, <1>4, <1>5 DEF Undisturbed

(* A server that takes a request.                                          *)
LEMMA UploadServer ==
  ASSUME Types, Counted, Uploading, Server
  PROVE  Uploading'
<1> SUFFICES ASSUME op' = "up", Undisturbed'
             PROVE  /\ Begun' => UploadBegun'
                    /\ Looping' =>
                         (\E n \in 1 .. Size[object] - 1 : Reading(n))'
                    /\ pc' \in {"finish", "done"} /\ wkc' => got' = Content(object')
  BY DEF Uploading
<1>1. PICK answer \in Replies : Take(answer) /\ UNCHANGED call
  BY ServerTakes
<1>2. /\ Fresh /\ work = Nothing /\ ~silent
      /\ inbox' = Nothing /\ work' = answer
      /\ UNCHANGED <<pc, mbxout, mbxin, outbox, silent, faults>>
      /\ UNCHANGED <<op, object, fits, phase, pos, got, wkc>>
  BY <1>1 DEF Take, mailboxes, call, Fresh
<1>3. Undisturbed /\ Steady
  BY UndisturbedBefore DEF Undisturbed
<1>4. pc' \in {"finish", "done"} /\ wkc' => got' = Content(object')
  BY <1>2, <1>3 DEF Uploading
<1>5. ~Fresh' /\ Hand' = Hand /\ answer # Nothing /\ Held(work') = 1
      /\ (Begun' <=> Begun) /\ (Looping' <=> Looping)
  BY <1>2, RepliesAre DEF Fresh, Hand, Begun, Looping, Held
<1>6. ASSUME Begun PROVE UploadBegun'
  <2>1. UploadBegun
    BY <1>2, <1>3, <1>6 DEF Uploading
  <2>2. Acks = 0
    BY <1>2, <1>3, <1>6 DEF Counted, FirstAcks, Begun
  <2>3. pc # "received" /\ outbox = Nothing
    BY <1>2, <1>3, <2>2, RequestAlone
  <2>4. outbox' = Nothing /\ Hand' = Nothing
    BY <1>2, <2>3 DEF Hand
  <2>5. inbox.body = Upload(object) /\ inbox.body.cmd = "up"
    BY <1>2, <2>1 DEF UploadBegun, Upload
  <2>6. \/ work' = Abort
        \/ work' = UploadReply(object) /\ server'.mode = "up"
           /\ server'.data = <<<<object, 1>>>>
    <3>1. CASE Refuse
      BY <3>1 DEF Refuse, Take
    <3>2. CASE UploadNext \/ DownloadNext
      BY <2>5, <3>2
      DEF UploadNext, DownloadNext, UploadSegment, DownloadSegment
    <3>3. ASSUME NEW o \in Objects, StartUpload(o)
          PROVE  work' = UploadReply(object) /\ server'.mode = "up"
                 /\ server'.data = <<<<object, 1>>>>
      <4>1. o = object
        BY <2>5, <3>3 DEF StartUpload, Upload
      <4> QED
        BY <3>3, <4>1 DEF StartUpload, Serve, Take
    <3>4. ASSUME NEW o \in Objects, StartDownload(o) PROVE FALSE
      BY <2>5, <3>4 DEF StartDownload, Upload, Download
    <3> QED
      BY <3>1, <3>2, <3>3, <3>4 DEF Server
  <2>7. \A m \in {outbox', work', Hand'} : m.cmd = "upres" =>
           /\ m.chunk = <<object, 1>>
           /\ server'.mode = "up" /\ server'.data = <<<<object, 1>>>>
    BY <2>4, <2>6, NothingIs DEF Abort, UploadReply
  <2>8. \A m \in {outbox', work', Hand'} : m.cmd # "downres"
    BY <2>4, <2>6, NothingIs DEF Abort, UploadReply
  <2> QED
    BY <1>2, <1>5, <2>1, <2>7, <2>8 DEF UploadBegun
<1>7. ASSUME Looping
      PROVE  (\E n \in 1 .. Size[object] - 1 : Reading(n))'
  <2>1. PICK n \in 1 .. Size[object] - 1 : Reading(n)
    BY <1>2, <1>3, <1>7 DEF Uploading
  <2>2. PICK h \in Nat, r \in Nat : h = Held(Hand) /\ r = Held(outbox)
    BY DEF Held
  <2>3. n \in Nat /\ Held(work) = 0 /\ Held(Hand') = h /\ Held(outbox') = r
        /\ n \in 1 .. Size[object'] - 1
    BY <1>2, <1>5, <2>2, Sizes DEF Held, Types, CallTypes
  <2>4. inbox.body.cmd = "upseg"
    BY <1>2, <2>1 DEF Reading
  <2>5. \/ work' = Abort /\ server'.mode = "idle"
        \/ work' = SegmentReply(<<object, n + h + r + 1>>)
           /\ server'.data = <<<<object, n + h + r + 1>>>>
    <3>1. CASE Refuse
      BY <3>1 DEF Refuse, Take, Idle
    <3>2. CASE UploadNext
      <4>1. server.mode = "up"
        BY <3>2 DEF UploadNext
      <4>2. server.data = <<<<object, n + h + r>>>>
        BY <2>1, <2>2, <2>3, <4>1 DEF Reading
      <4>3. server.data[Len(server.data)] = <<object, n + h + r>>
        BY <4>2
      <4>4. Serve(SegmentReply(<<object, n + h + r + 1>>), "up",
                  Flip(server.toggle), <<<<object, n + h + r + 1>>>>)
        BY <3>2, <4>3 DEF UploadNext
      <4> QED
        BY <4>4 DEF Serve, Take
    <3>3. CASE DownloadNext
      BY <2>4, <3>3 DEF DownloadNext, DownloadSegment
    <3>4. ASSUME NEW o \in Objects, StartUpload(o) \/ StartDownload(o)
          PROVE  FALSE
      BY <2>4, <3>4 DEF StartUpload, StartDownload, Upload, Download
    <3> QED
      BY <3>1, <3>2, <3>3, <3>4 DEF Server
  <2>6. Reading(n)'
    <3>1. work'.cmd = "segres" => work'.chunk = <<object, n + h + r + 1>>
      BY <2>5 DEF Abort, SegmentReply
    <3>2. server'.mode = "up" =>
            server'.data = <<<<object, n + h + r + 1>>>>
      BY <2>5
    <3>3. /\ got = Row(object, n)
          /\ mbxout # Nothing => mbxout.body.cmd = "upseg"
          /\ Hand.cmd = "segres" => Hand.chunk = <<object, n + 1>>
          /\ outbox.cmd = "segres" => outbox.chunk = <<object, n + h + 1>>
      BY <2>1, <2>2 DEF Reading
    <3> QED
      BY <1>2, <1>5, <2>3, <3>1, <3>2, <3>3 DEF Reading
  <2> QED
    BY <2>3, <2>6
<1> QED
  BY <1>4, <1>5, <1>6, <1>7

LEMMA UploadSlave ==
  ASSUME Types, Uploading, Slave, UNCHANGED <<call, slave>>
  PROVE  Uploading'
<1> SUFFICES ASSUME op' = "up", Undisturbed'
             PROVE  /\ Begun' => UploadBegun'
                    /\ Looping' =>
                         (\E n \in 1 .. Size[object] - 1 : Reading(n))'
                    /\ pc' \in {"finish", "done"} /\ wkc' => got' = Content(object')
  BY DEF Uploading
<1>1. /\ UNCHANGED <<pc, mbxout, mbxin, lastcnt, faults>>
      /\ UNCHANGED <<op, object, phase, got, wkc, server>>
      /\ silent => silent'
  BY DEF Slave, TakeCopy, PlaceReply, FallSilent, mailboxes, call, slave
<1>2. Undisturbed
  BY UndisturbedBefore
<1>3. Hand' = Hand /\ (Begun' => Begun) /\ (Looping' <=> Looping)
  BY <1>1 DEF Hand, Begun, Looping
<1>4. /\ Fresh' => Fresh /\ inbox' = inbox
      /\ \/ UNCHANGED <<work, outbox>>
         \/ outbox = Nothing /\ work # Nothing
            /\ outbox' = work /\ work' = Nothing
  BY DEF Slave, TakeCopy, PlaceReply, FallSilent, Fresh
<1>5. ASSUME Begun PROVE UploadBegun'
  <2>1. UploadBegun
    BY <1>1, <1>2, <1>5 DEF Uploading
  <2>2. outbox' \in {outbox, work} /\ work' \in {work, Nothing}
    BY <1>4
  <2> QED
    BY <1>1, <1>3, <1>4, <2>1, <2>2, NothingIs DEF UploadBegun
<1>6. ASSUME Looping
      PROVE  (\E n \in 1 .. Size[object] - 1 : Reading(n))'
  <2>1. PICK n \in 1 .. Size[object] - 1 : Reading(n)
    BY <1>1, <1>2, <1>6 DEF Uploading
  <2>2. PICK h \in Nat : h = Held(Hand)
    BY DEF Held
  <2>3. n \in Nat /\ Held(Hand') = h /\ n \in 1 .. Size[object'] - 1
    BY <1>1, <1>3, <2>2, Sizes DEF Types, CallTypes
  <2>4. CASE UNCHANGED <<work, outbox>>
    BY <1>1, <1>3, <1>4, <2>1, <2>3, <2>4 DEF Reading
  <2>5. CASE outbox = Nothing /\ work # Nothing
             /\ outbox' = work /\ work' = Nothing
    <3>1. Held(outbox) = 0 /\ Held(work) = 1
          /\ Held(outbox') = 1 /\ Held(work') = 0
      BY <2>5 DEF Held
    <3>2. n + h + 0 + 1 = n + h + 1 /\ n + h + 1 + 0 = n + h + 1
      BY <2>3
    <3>3. /\ work.cmd = "segres" => work.chunk = <<object, n + h + 1>>
          /\ server.mode = "up" => server.data = <<<<object, n + h + 1>>>>
      BY <2>1, <2>2, <3>1, <3>2 DEF Reading
    <3>4. /\ got = Row(object, n)
          /\ mbxout # Nothing => mbxout.body.cmd = "upseg"
          /\ Fresh => inbox.body.cmd = "upseg"
          /\ Hand.cmd = "segres" => Hand.chunk = <<object, n + 1>>
      BY <2>1 DEF Reading
    <3> QED
      BY <1>1, <1>3, <1>4, <2>3, <2>5, <3>1, <3>2, <3>3, <3>4, NothingIs
      DEF Reading
  <2> QED
    BY <1>4, <2>4, <2>5
<1>7. pc' \in {"finish", "done"} /\ wkc' => got' = Content(object')
  BY <1>1, <1>2 DEF Uploading
<1> QED
  BY <1>3, <1>5, <1>6, <1>7

LEMMA UploadSends ==
  ASSUME Types, Uploading, FirstTry \/ WaitEmpty \/ WaitEmptyFails \/ Retry,
         UNCHANGED <<call, slave>>
  PROVE  Uploading'
<1> SUFFICES ASSUME op' = "up", Undisturbed'
             PROVE  /\ Begun' => UploadBegun'
                    /\ Looping' =>
                         (\E n \in 1 .. Size[object] - 1 : Reading(n))'
                    /\ pc' \in {"finish", "done"} /\ wkc' => got' = Content(object')
  BY DEF Uploading
<1>0. Master
  BY DEF Master, Transport
<1>1. /\ UNCHANGED <<mbxin, work, outbox, lastcnt, silent>>
      /\ UNCHANGED <<op, object, phase, got, wkc, server>>
      /\ pc \in {"try", "wait", "retry"}
      /\ pc' \in {"wait", "retry", "sent", "unsent"}
      /\ (inbox' = inbox \/ inbox' = mbxout)
      /\ (mbxout' = mbxout \/ mbxout' = Nothing)
      /\ mbxout # Nothing
      /\ pc' = "sent" => ~silent
  BY DEF FirstTry, WaitEmpty, WaitEmptyFails, Retry, mailboxes, slavembx, call,
         slave, Types, PlaceTypes, Exchanging
<1>2. Undisturbed
  BY <1>0, UndisturbedBefore
<1>3. Hand' = Hand /\ (Begun' => Begun) /\ (Looping' => Looping)
      /\ (Fresh' => (Fresh /\ inbox' = inbox) \/ inbox' = mbxout)
  BY <1>1 DEF Hand, Begun, Looping, Fresh
<1>5. ASSUME Begun PROVE UploadBegun'
  <2>1. UploadBegun
    BY <1>1, <1>2, <1>5 DEF Uploading
  <2> QED
    BY <1>1, <1>3, <2>1 DEF UploadBegun
<1>6. ASSUME Looping
      PROVE  (\E n \in 1 .. Size[object] - 1 : Reading(n))'
  <2>1. PICK n \in 1 .. Size[object] - 1 : Reading(n)
    BY <1>1, <1>2, <1>6 DEF Uploading
  <2>2. Reading(n)'
    BY <1>1, <1>3, <2>1 DEF Reading
  <2> QED
    BY <1>1, <2>2
<1> QED
  BY <1>1, <1>3, <1>5, <1>6

LEMMA UploadReceives ==
  ASSUME Types, Uploading, Receive \/ ReceiveLoses \/ ReceiveTimesOut \/ Sent,
         UNCHANGED slave, UNCHANGED <<op, object, phase, got>>
  PROVE  Uploading'
<1> SUFFICES ASSUME op' = "up", Undisturbed'
             PROVE  /\ Begun' => UploadBegun'
                    /\ Looping' =>
                         (\E n \in 1 .. Size[object] - 1 : Reading(n))'
                    /\ pc' \in {"finish", "done"} /\ wkc' => got' = Content(object')
  BY DEF Uploading
<1>1. /\ UNCHANGED <<mbxout, inbox, work, lastcnt, silent, server>>
      /\ pc \in {"sent", "receive"}
      /\ pc' \in {"receive", "received", "unreceived"}
      /\ mbxout = Nothing
  <2>1. mbxout = Nothing
    BY DEF Receive, ReceiveLoses, ReceiveTimesOut, Sent, Types, PlaceTypes,
           Exchanging
  <2>2. CASE Receive \/ ReceiveLoses
    BY <2>1, <2>2 DEF Receive, ReceiveLoses, mailboxes, slave
  <2>3. CASE ReceiveTimesOut \/ Sent
    BY <2>1, <2>3 DEF ReceiveTimesOut, Sent, Goto, mailboxes, slavembx, slave
  <2> QED
    BY <2>1, <2>2, <2>3
<1>a. Hand = Nothing /\ Held(Hand) = 0
  BY <1>1 DEF Hand, Held
<1>3. (Begun' => Begun) /\ (Looping' => Looping) /\ (Fresh' <=> Fresh)
  BY <1>1 DEF Begun, Looping, Fresh
<1>b. UNCHANGED faults \/ Fault("reply") \/ Fault("late")
  BY DEF Receive, ReceiveLoses, ReceiveTimesOut, Sent, Expires
<1>2. Undisturbed /\ UNCHANGED faults
  <2>1. faults \in [Kinds -> Nat] /\ BoxTypes
    BY DEF Types, BoxTypes
  <2>2. ~Fault("reply") /\ ~Fault("late")
    BY <2>1, FaultAdds, FaultCounts DEF Undisturbed, Steady, Kinds
  <2> QED
    BY <1>b, <2>2 DEF Undisturbed, Steady, Acks
<1>4. \/ outbox' = outbox /\ Hand' = Nothing
      \/ outbox # Nothing /\ Hand' = outbox /\ outbox' = Nothing
  <2>1. CASE Receive
    BY <2>1 DEF Receive, Hand
  <2>2. CASE ReceiveLoses
    BY <1>2, <2>2, FaultAdds, FaultCounts
    DEF ReceiveLoses, Types, Undisturbed, Kinds
  <2>3. CASE ReceiveTimesOut \/ Sent
    BY <1>1, <2>3 DEF ReceiveTimesOut, Sent, slavembx, Hand, Goto
  <2> QED
    BY <2>1, <2>2, <2>3
<1>5. ASSUME Begun PROVE UploadBegun'
  <2>1. UploadBegun
    BY <1>1, <1>2, <1>5 DEF Uploading
  <2> QED
    BY <1>1, <1>3, <1>4, <1>a, <2>1, NothingIs DEF UploadBegun
<1>6. ASSUME Looping
      PROVE  (\E n \in 1 .. Size[object] - 1 : Reading(n))'
  <2>1. PICK n \in 1 .. Size[object] - 1 : Reading(n)
    BY <1>1, <1>2, <1>6 DEF Uploading
  <2>2. n \in Nat /\ n \in 1 .. Size[object'] - 1
    BY Sizes DEF Types, CallTypes
  <2>3. PICK w \in Nat : w = Held(work)
    BY DEF Held
  <2>4. CASE outbox' = outbox /\ Hand' = Nothing
    BY <1>1, <1>3, <1>a, <2>1, <2>2, <2>4 DEF Reading
  <2>5. CASE outbox # Nothing /\ Hand' = outbox /\ outbox' = Nothing
    <3>1. Held(outbox) = 1 /\ Held(Hand') = 1 /\ Held(outbox') = 0
      BY <2>5 DEF Held
    <3>2. /\ n + 0 + 1 = n + 1 /\ n + 0 + 1 + 1 = n + 2
          /\ n + 1 + 0 + 1 = n + 2 /\ n + 0 + 1 + w = n + 1 + w
          /\ n + 1 + 0 + w = n + 1 + w
      BY <2>2, <2>3
    <3>3. /\ got = Row(object, n)
          /\ Fresh => inbox.body.cmd = "upseg"
          /\ outbox.cmd = "segres" => outbox.chunk = <<object, n + 1>>
          /\ work.cmd = "segres" => work.chunk = <<object, n + 2>>
          /\ server.mode = "up" => server.data = <<<<object, n + 1 + w>>>>
      BY <1>a, <2>1, <2>3, <3>1, <3>2 DEF Reading
    <3> QED
      BY <1>1, <1>3, <2>2, <2>3, <2>5, <3>1, <3>2, <3>3, NothingIs DEF Reading
  <2> QED
    BY <1>4, <2>4, <2>5
<1> QED
  BY <1>1, <1>3, <1>5, <1>6

(* The steps between the exchanges.                                        *)
LEMMA UploadStarts ==
  ASSUME Types, Counted, Drain \/ DrainMisses
  PROVE  Uploading'
<1> SUFFICES ASSUME op' = "up", Undisturbed'
             PROVE  /\ Begun' => UploadBegun'
                    /\ Looping' =>
                         (\E n \in 1 .. Size[object] - 1 : Reading(n))'
                    /\ pc' \in {"finish", "done"} /\ wkc' => got' = Content(object')
  BY DEF Uploading
<1>0. Master
  BY DEF Master
<1>1. Undisturbed /\ ~Fault("pool") /\ ~Fault("late")
  BY <1>0, UndisturbedBefore
<1>2. /\ pc = "drain" /\ PostInitial
      /\ UNCHANGED <<op, object, phase, inbox, work, lastcnt, silent>>
      /\ outbox' = IF silent THEN outbox ELSE Nothing
  BY <1>1 DEF Drain, DrainMisses
<1>3. pc' = "try" /\ phase' = "init" /\ op = "up"
      /\ mbxout'.body = Upload(object)
  BY <1>2, PostInitialTypes DEF Types, PlaceTypes
<1>4. silent \/ (inbox = Nothing /\ work = Nothing)
  BY <1>1, <1>2 DEF Counted, Undisturbed, Loads
<1>5. ASSUME Begun' PROVE UploadBegun'
  <2>1. ~silent
    BY <1>2, <1>3, <1>5 DEF Begun
  <2>2. inbox' = Nothing /\ work' = Nothing /\ outbox' = Nothing /\ Hand' = Nothing
    BY <1>2, <1>3, <1>4, <2>1 DEF Hand
  <2> QED
    BY <1>2, <1>3, <2>2, NothingIs DEF UploadBegun, Fresh
<1> QED
  BY <1>3, <1>5 DEF Looping

(* The reply to the initial request holds the first chunk.                 *)
LEMMA UploadChecksInitial ==
  ASSUME Types, Counted, Uploading, CheckInitial
  PROVE  Uploading'
<1> SUFFICES ASSUME op' = "up", Undisturbed'
             PROVE  /\ Begun' => UploadBegun'
                    /\ Looping' =>
                         (\E n \in 1 .. Size[object] - 1 : Reading(n))'
                    /\ pc' \in {"finish", "done"} /\ wkc' => got' = Content(object')
  BY DEF Uploading
<1>0. Master
  BY DEF Master
<1>1. Undisturbed
  BY <1>0, UndisturbedBefore
<1>2. /\ pc = "received" /\ phase = "init" /\ op = "up" /\ phase' = "segments"
      /\ InitialReply
      /\ got' = Carried
      /\ pc' = (IF Whole THEN "finish" ELSE "next")
      /\ UNCHANGED <<mailboxes, slavembx, object, server>>
  BY DEF CheckInitial, Goto, slave
<1>3. UploadBegun /\ Acks = 0 /\ Begun
  BY <1>1, <1>2 DEF Uploading, Begun, Counted, FirstAcks, Undisturbed
<1>4. outbox = Nothing /\ work = Nothing /\ ~Fresh
  BY <1>1, <1>2, <1>3, NothingUnderWay DEF Undisturbed
<1>5. mbxin.cmd = "upres" /\ Hand = mbxin /\ mbxout = Nothing
  <2>1. Hand = mbxin /\ mbxout = Nothing
    BY <1>2 DEF Hand, Types, PlaceTypes, Exchanging
  <2> QED
    BY <1>2, <1>3, <2>1 DEF InitialReply, UploadBegun
<1>6. mbxin.chunk = <<object, 1>> /\ server.data = <<<<object, 1>>>>
  BY <1>3, <1>5 DEF UploadBegun
<1>7. got' = Row(object, 1)
  BY <1>2, <1>5, <1>6, RowOne DEF Carried
<1>8. object \in Objects /\ Size[object] \in Nat /\ 0 < Size[object]
  BY Sizes DEF Types, CallTypes
<1>9. Whole <=> Size[object] = 1
  BY <1>5, <1>6, <1>8 DEF IsLast, Whole
<1>10. CASE Size[object] = 1
  <2>1. pc' = "finish" /\ got' = Content(object)
    BY <1>2, <1>7, <1>9, <1>10 DEF Row, Content
  <2> QED
    BY <1>2, <2>1 DEF Begun, Looping
<1>11. CASE Size[object] # 1
  <2>1. pc' = "next" /\ 1 \in 1 .. Size[object'] - 1
    BY <1>2, <1>8, <1>9, <1>11
  <2>2. /\ Hand' = Nothing /\ outbox' = Nothing /\ work' = Nothing
        /\ mbxout' = Nothing /\ ~Fresh'
    BY <1>2, <1>4, <1>5, <2>1 DEF Hand, mailboxes, slavembx, Fresh
  <2>3. /\ Held(Hand') = 0 /\ Held(outbox') = 0 /\ Held(work') = 0
        /\ 1 + 0 + 0 + 0 = 1
    BY <2>2 DEF Held
  <2>4. Reading(1)'
    BY <1>2, <1>6, <1>7, <2>2, <2>3, NothingIs DEF Reading
  <2> QED
    BY <2>1, <2>4 DEF Begun
<1> QED
  BY <1>10, <1>11

(* A segment is the next chunk.                                            *)
LEMMA UploadChecksSegment ==
  ASSUME Types, Uploading, CheckSegment
  PROVE  Uploading'
<1> SUFFICES ASSUME op' = "up", Undisturbed'
             PROVE  /\ Begun' => UploadBegun'
                    /\ Looping' =>
                         (\E n \in 1 .. Size[object] - 1 : Reading(n))'
                    /\ pc' \in {"finish", "done"} /\ wkc' => got' = Content(object')
  BY DEF Uploading
<1>0. Master
  BY DEF Master
<1>1. Undisturbed
  BY <1>0, UndisturbedBefore
<1>2. /\ pc = "received" /\ phase = "segments" /\ op = "up"
      /\ phase' = "segments" /\ SegmentAnswer
      /\ got' = Append(got, mbxin.chunk)
      /\ pc' = (IF IsLast(mbxin.chunk) THEN "finish" ELSE "next")
      /\ UNCHANGED <<mailboxes, slavembx, object, server>>
  BY DEF CheckSegment, Goto, slave
<1>3. PICK n \in 1 .. Size[object] - 1 : Reading(n)
  BY <1>1, <1>2 DEF Uploading, Looping
<1>4. mbxin.cmd = "segres" /\ Hand = mbxin /\ mbxout = Nothing
      /\ mbxin # Nothing
  BY <1>2 DEF SegmentAnswer, Hand, Types, PlaceTypes, Exchanging
<1>5. mbxin.chunk = <<object, n + 1>> /\ got = Row(object, n)
  BY <1>3, <1>4 DEF Reading
<1>6. object \in Objects /\ Size[object] \in Nat /\ n \in Nat
      /\ n \in 0 .. Size[object] - 1
  BY Sizes DEF Types, CallTypes
<1>7. got' = Row(object, n + 1)
  BY <1>2, <1>5, <1>6, RowGrows
<1>8. IsLast(mbxin.chunk) <=> n + 1 = Size[object]
  BY <1>5, <1>6 DEF IsLast
<1>9. CASE n + 1 = Size[object]
  <2>1. pc' = "finish" /\ got' = Content(object)
    BY <1>2, <1>7, <1>8, <1>9 DEF Row, Content
  <2> QED
    BY <1>2, <2>1 DEF Begun, Looping
<1>10. CASE n + 1 # Size[object]
  <2>1. pc' = "next" /\ n + 1 \in 1 .. Size[object'] - 1
    BY <1>2, <1>6, <1>8, <1>10
  <2>2. /\ Hand' = Nothing /\ mbxout' = Nothing
        /\ UNCHANGED <<outbox, work, inbox, lastcnt>>
    BY <1>2, <1>4, <2>1 DEF Hand, mailboxes, slavembx
  <2>3. PICK r \in Nat, w \in Nat : r = Held(outbox) /\ w = Held(work)
    BY DEF Held
  <2>4. /\ Held(Hand') = 0 /\ Held(outbox') = r /\ Held(work') = w
        /\ Held(Hand) = 1
    BY <1>4, <2>2, <2>3 DEF Held
  <2>5. n + 1 + 0 = n + 1
    BY <1>6
  <2>6. /\ Fresh => inbox.body.cmd = "upseg"
        /\ outbox.cmd = "segres" => outbox.chunk = <<object, n + 1 + 1>>
        /\ work.cmd = "segres" => work.chunk = <<object, n + 1 + r + 1>>
        /\ server.mode = "up" => server.data = <<<<object, n + 1 + r + w>>>>
    BY <1>3, <2>3, <2>4 DEF Reading
  <2>7. Fresh' <=> Fresh
    BY <2>2 DEF Fresh
  <2>8. Reading(n + 1)'
    BY <1>2, <1>7, <2>2, <2>4, <2>5, <2>6, <2>7, NothingIs DEF Reading
  <2> QED
    BY <2>1, <2>8 DEF Begun
<1> QED
  BY <1>9, <1>10

LEMMA UploadGoesOn ==
  ASSUME Types, Uploading,
         ExchangeFails \/ Reject \/ NextSegment \/ NoMailbox \/ AllHanded
           \/ Finish \/ Return
  PROVE  Uploading'
<1> SUFFICES ASSUME op' = "up", Undisturbed'
             PROVE  /\ Begun' => UploadBegun'
                    /\ Looping' =>
                         (\E n \in 1 .. Size[object] - 1 : Reading(n))'
                    /\ pc' \in {"finish", "done"} /\ wkc' => got' = Content(object')
  BY DEF Uploading
<1>0. Master
  BY DEF Master
<1>1. Undisturbed /\ ~Fault("pool")
  BY <1>0, UndisturbedBefore
<1>2. CASE Return
  BY <1>2 DEF Return, Goto, Begun, Looping
<1>3. CASE ~Return
  <2>1. UNCHANGED <<op, object, phase, got>> /\ UNCHANGED slavembx
        /\ UNCHANGED server
    BY <1>3 DEF ExchangeFails, Reject, NextSegment, NoMailbox, AllHanded, Finish,
                call, slave
  <2>2. ~NoMailbox
    BY <1>1 DEF NoMailbox
  <2>3. ~AllHanded
    BY <2>1 DEF AllHanded, NotLast
  <2>4. CASE Finish
    BY <1>1, <2>1, <2>4 DEF Finish, Goto, Begun, Looping, call, Uploading
  <2>5. CASE Reject
    BY <2>5 DEF Reject, Goto, Begun, Looping
  <2>6. CASE ExchangeFails \/ NextSegment
    <3>1. /\ pc \in {"unsent", "unreceived", "next"} /\ pc' \in {"try", "finish", "next"}
          /\ pc' = "finish" => ~wkc'
          /\ mbxin' = mbxin
      BY <2>6 DEF ExchangeFails, NextSegment, Post, Goto, mailboxes
    <3>2. pc' = "finish" \/ (phase' = "segments" /\ Looping)
      BY <2>1, <2>6, <3>1
      DEF ExchangeFails, NextSegment, Goto, Types, CallTypes, PlaceTypes, Looping
    <3>3. ASSUME pc' # "finish"
          PROVE  (\E n \in 1 .. Size[object] - 1 : Reading(n))'
      <4>1. PICK n \in 1 .. Size[object] - 1 : Reading(n)
        BY <1>1, <2>1, <3>2, <3>3 DEF Uploading
      <4>2. Hand = Nothing /\ Hand' = Nothing
        BY <3>1 DEF Hand
      <4>3. mbxout' # Nothing => mbxout'.body.cmd = "upseg"
        <5>1. CASE ExchangeFails
          BY <5>1, <4>1 DEF ExchangeFails, mailboxes, Reading
        <5>2. CASE NextSegment
          BY <5>2, <2>1, NextSegmentTypes DEF UploadSegment
        <5> QED
          BY <2>6, <5>1, <5>2
      <4>4. UNCHANGED <<outbox, work, inbox, lastcnt>> /\ (Fresh' <=> Fresh)
        BY <2>1 DEF slavembx, Fresh
      <4>5. Reading(n)'
        BY <2>1, <4>1, <4>2, <4>3, <4>4 DEF Reading
      <4> QED
        BY <2>1, <4>5
    <3>4. CASE pc' = "finish"
      BY <3>1, <3>4 DEF Begun, Looping
    <3>5. CASE pc' # "finish"
      <4>1. phase' = "segments"
        BY <3>2, <3>5
      <4> QED
        BY <3>1, <3>3, <3>5, <4>1 DEF Begun
    <3> QED
      BY <3>4, <3>5
  <2> QED
    BY <1>3, <2>2, <2>3, <2>4, <2>5, <2>6
<1> QED
  BY <1>2, <1>3

LEMMA UploadStep ==
  ASSUME Types, Counted, Uploading, [Next]_vars
  PROVE  Uploading'
<1>1. CASE \E how \in {"up", "down"}, o \in Objects, room \in BOOLEAN :
             Call(how, o, room)
  <2>1. pc' = "drain"
    BY <1>1, Zenon DEF Call, Goto
  <2> QED
    BY <2>1 DEF Uploading, Begun, Looping
<1>2. CASE Master
  <2>1. CASE Transport /\ UNCHANGED <<call, slave>>
    <3>1. UNCHANGED <<op, object, phase, got>> /\ UNCHANGED slave
      BY <2>1 DEF call
    <3> QED
      BY <2>1, <3>1, UploadSends, UploadReceives DEF Transport
  <2>2. CASE Sent
    <3>1. UNCHANGED <<op, object, phase, got>> /\ UNCHANGED slave
      BY <2>2 DEF Sent
    <3> QED
      BY <2>2, <3>1, UploadReceives
  <2> QED
    BY <1>2, <2>1, <2>2, UploadStarts, UploadChecksInitial, UploadChecksSegment,
       UploadGoesOn
    DEF Master
<1>3. CASE Server
  BY <1>3, UploadServer
<1>4. CASE Slave /\ UNCHANGED <<call, slave>>
  BY <1>4, UploadSlave
<1>5. CASE UNCHANGED vars
  BY <1>5
  DEF vars, mbxvars, mailboxes, slavembx, call, slave, Uploading, Undisturbed,
      Steady, Acks, Begun, UploadBegun, Looping, Reading, Fresh, Hand
<1> QED
  BY <1>1, <1>2, <1>3, <1>4, <1>5 DEF Next

(* For any dictionary of objects, any counter and any number of calls, an  *)
(* upload that ecx_SDOread reports as done has copied the whole object in  *)
(* order, although requests and one acknowledge are lost.                  *)
THEOREM UploadsAreWhole == Spec => []UploadIsWhole
<1> DEFINE Inv == Types /\ Counted /\ Uploading
<1>1. Init => Inv
  <2>1. Init => Uploading
    BY DEF Init, Uploading, Begun, Looping
  <2> QED
    BY <2>1, InitTypes, InitCounts
<1>2. Inv /\ [Next]_vars => Inv'
  BY StepTypes, StepCounts, UploadStep
<1>3. Inv => UploadIsWhole
  BY DEF Uploading, UploadIsWhole, Succeeded, Without, Undisturbed, Steady, Acks
<1> QED
  BY <1>1, <1>2, <1>3, PTL DEF Spec

-----------------------------------------------------------------------------
(* Downloads.  While a segment is exchanged, the server has either stored  *)
(* it (Taken), or expects it (Early), or is one segment behind because a   *)
(* request was lost (Behind): then it refuses the toggle bit of every other*)
(* request, unless it has refused already (Broken).                        *)
Quiet ==
  Steady /\ Acks = 0 /\ faults["request"] <= 1 /\ faults["pool"] = 0

Following(c) == IF c + 1 > MaxCnt THEN 1 ELSE c + 1

InStep(t, k) ==
  /\ server.mode = "down" /\ server.toggle = t /\ server.data = Row(object, k)
  /\ k = Size[object] => stored = Content(object)

Taken == InStep(Flip(toggle), pos) /\ lastcnt = mbxcnt

Early == InStep(toggle, pos - 1) /\ mbxcnt = Following(lastcnt)

Behind ==
  /\ server.mode = "down" /\ server.toggle = Flip(toggle)
  /\ mbxcnt = Following(Following(lastcnt)) /\ faults["request"] = 1

Broken == server.mode = "idle"

DownloadBegun ==
  /\ pos = 1
  /\ mbxout # Nothing => mbxout = [cnt |-> mbxcnt, body |-> Download(object)]
  /\ Fresh => inbox = [cnt |-> mbxcnt, body |-> Download(object)]
  /\ \A m \in {outbox, work, Hand} :
       /\ m.cmd # "upres"
       /\ m.cmd = "downres" => InStep(0, 1) /\ lastcnt = mbxcnt

Segment == [cnt |-> mbxcnt, body |-> DownloadSegment(<<object, pos>>, toggle)]

Open ==
  /\ phase = "segments"
  /\ pc \in {"try", "wait", "retry", "sent", "receive", "received", "unsent",
             "unreceived"}
  /\ silent => pc \in {"sent", "receive", "received"}

Writing ==
  /\ pos \in 2 .. Size[object]
  /\ mbxout # Nothing => mbxout = Segment
  /\ Fresh => inbox = Segment
  /\ \A m \in {outbox, work, Hand} : m.cmd = "downsegres" => Taken
  /\ pc = "try" => Early \/ Behind \/ Broken
  /\ pc \in {"wait", "retry"} => Early \/ Behind \/ Taken \/ Broken
  /\ pc \in {"sent", "receive"} =>
       (Fresh /\ (Early \/ Behind)) \/ Taken \/ Broken
  /\ pc \in {"received", "unreceived"} => Taken \/ Broken
  /\ pc = "unsent" => (Early /\ faults["request"] = 1) \/ Broken

(* Between two segments.                                                   *)
Turning ==
  /\ wkc => InStep(toggle, pos)
  /\ \/ silent
     \/ /\ 0 < pos
        /\ \/ Broken
           \/ InStep(toggle, pos) /\ lastcnt = mbxcnt
           \/ /\ server.mode = "down" /\ server.toggle = Flip(toggle)
              /\ mbxcnt = Following(lastcnt) /\ faults["request"] = 1

Downloading ==
  op = "down" /\ Quiet =>
    /\ Begun => DownloadBegun
    /\ Open => Writing
    /\ pc = "next" => Turning
    /\ pc \in {"finish", "done"} /\ wkc => stored = Content(object)

LEMMA FollowingIs ==
  ASSUME MaxCnt > 2, NEW c \in 0 .. MaxCnt
  PROVE  /\ Following(c) \in 1 .. MaxCnt
         /\ Following(c) # c /\ Following(Following(c)) # c
BY Sizes DEF Following

LEMMA FlipIs ==
  ASSUME NEW t \in Toggles
  PROVE  Flip(t) \in Toggles /\ Flip(t) # t /\ Flip(Flip(t)) = t
BY DEF Toggles, Flip

LEMMA QuietBefore ==
  ASSUME Types, Quiet',
         Master \/ Server \/ (Slave /\ UNCHANGED <<call, slave>>)
  PROVE  /\ Quiet
         /\ ~Fault("acknowledge") /\ ~Fault("pool") /\ ~Fault("late")
         /\ Fault("request") => faults["request"] = 0 /\ faults'["request"] = 1
         /\ faults["request"] = 1 => faults'["request"] = 1
<1>1. /\ faults' \in [Kinds -> Nat]
      /\ \A k \in Kinds : faults[k] <= faults'[k]
  BY FaultsGrow
<1>2. faults \in [Kinds -> Nat] /\ BoxTypes
  BY DEF Types, BoxTypes
<1>3. Steady /\ Acks \in Nat /\ Acks' \in Nat /\ Acks <= Acks'
  BY SteadyBefore DEF Quiet
<1>4. ~Fault("pool") /\ ~Fault("late") /\ ~Fault("acknowledge")
  BY <1>2, FaultAdds, FaultCounts DEF Quiet, Steady, Kinds, Acks
<1>5. faults["request"] <= faults'["request"] /\ faults["pool"] = 0
      /\ faults["request"] \in Nat /\ faults'["request"] \in Nat
      /\ faults'["request"] <= 1
  BY <1>1, <1>2 DEF Quiet, Kinds
<1>6. Fault("request") => faults'["request"] = faults["request"] + 1
  BY <1>2, FaultAdds DEF Kinds
<1> QED
  BY <1>3, <1>4, <1>5, <1>6 DEF Quiet

LEMMA DownloadServer ==
  ASSUME Types, Counted, Downloading, Server
  PROVE  Downloading'
<1> SUFFICES ASSUME op' = "down", Quiet'
             PROVE  /\ Begun' => DownloadBegun'
                    /\ Open' => Writing'
                    /\ pc' = "next" => Turning'
                    /\ pc' \in {"finish", "done"} /\ wkc' =>
                         stored' = Content(object')
  BY DEF Downloading
<1>1. PICK answer \in Replies : Take(answer) /\ UNCHANGED call
  BY ServerTakes
<1>2. /\ Fresh /\ work = Nothing /\ ~silent
      /\ inbox' = Nothing /\ work' = answer /\ lastcnt' = inbox.cnt
      /\ UNCHANGED <<pc, mbxout, mbxin, mbxcnt, outbox, silent, faults>>
      /\ UNCHANGED <<op, object, fits, phase, toggle, pos, got, wkc>>
  BY <1>1 DEF Take, mailboxes, call, Fresh
<1>3. Quiet /\ Steady /\ Acks = 0
  BY QuietBefore DEF Quiet
<1>4. pc \in {"wait", "sent", "receive"} /\ outbox = Nothing
  BY <1>2, <1>3, RequestAlone
<1>5. ~Fresh' /\ Hand' = Nothing /\ outbox' = Nothing
      /\ (Begun' <=> Begun) /\ (Open' <=> Open)
  BY <1>2, <1>4 DEF Fresh, Hand, Begun, Open
<1>6. object \in Objects /\ toggle \in Toggles
  BY DEF Types, CallTypes
<1>7. ASSUME Begun PROVE DownloadBegun'
  <2>1. DownloadBegun
    BY <1>2, <1>3, <1>7 DEF Downloading
  <2>2. inbox.body = Download(object) /\ inbox.cnt = mbxcnt
        /\ inbox.body.cmd = "down"
    BY <1>2, <2>1 DEF DownloadBegun, Download
  <2>3. work' = Abort \/ (work' = DownloadReply(object) /\ InStep(0, 1)')
    <3>1. CASE Refuse
      BY <3>1 DEF Refuse, Take
    <3>2. CASE UploadNext \/ DownloadNext
      BY <2>2, <3>2
      DEF UploadNext, DownloadNext, UploadSegment, DownloadSegment
    <3>3. ASSUME NEW o \in Objects, StartUpload(o) PROVE FALSE
      BY <2>2, <3>3 DEF StartUpload, Upload
    <3>4. ASSUME NEW o \in Objects, StartDownload(o)
          PROVE  work' = DownloadReply(object) /\ InStep(0, 1)'
      <4>1. o = object
        BY <2>2, <3>4 DEF StartDownload, Download
      <4>a. PICK data : data = <<<<object, 1>>>>
        OBVIOUS
      <4>2. data = <<<<object, 1>>>> /\ data[Len(data)] = <<object, 1>>
        BY <4>a
      <4>3. /\ server'.mode = "down" /\ server'.toggle = 0
            /\ server'.data = data /\ Commit(data) /\ work' = DownloadReply(object)
        BY <3>4, <4>1, <4>2 DEF StartDownload, Serve, Take
      <4>4. 1 = Size[object] => stored' = data
        BY <4>2, <4>3 DEF Commit, IsLast
      <4>5. data = Row(object, 1)
        BY <4>2, RowOne
      <4>6. 1 = Size[object] => stored' = Content(object)
        BY <4>4, <4>5 DEF Row, Content
      <4> QED
        BY <1>2, <4>3, <4>5, <4>6 DEF InStep
    <3> QED
      BY <3>1, <3>2, <3>3, <3>4 DEF Server
  <2>4. \A m \in {outbox', work', Hand'} :
          /\ m.cmd # "upres"
          /\ m.cmd = "downres" => InStep(0, 1)' /\ lastcnt' = mbxcnt'
    BY <1>2, <1>5, <2>2, <2>3, NothingIs DEF Abort, DownloadReply
  <2> QED
    BY <1>2, <1>5, <2>1, <2>4 DEF DownloadBegun
<1>8. ASSUME Open PROVE Writing'
  <2>1. Writing
    BY <1>2, <1>3, <1>8 DEF Downloading
  <2>2. inbox = Segment /\ (Early \/ Behind \/ Taken \/ Broken)
    BY <1>2, <1>4, <2>1 DEF Writing
  <2>3. inbox.body = DownloadSegment(<<object, pos>>, toggle)
        /\ inbox.cnt = mbxcnt /\ inbox.body.cmd = "downseg"
    BY <2>2 DEF Segment, DownloadSegment
  <2>4. PICK p \in Nat : p = pos - 1 /\ p + 1 = pos /\ p \in 0 .. Size[object] - 1
                         /\ pos \in 0 .. Size[object]
    BY <1>6, <2>1, Sizes DEF Writing
  <2>5. \/ work' = Abort /\ server'.mode = "idle"
        \/ InStep(Flip(toggle), pos)'
    <3>1. CASE Refuse
      BY <3>1 DEF Refuse, Take, Idle
    <3>2. CASE UploadNext
      BY <2>3, <3>2 DEF UploadNext, UploadSegment
    <3>3. ASSUME NEW o \in Objects, StartUpload(o) \/ StartDownload(o)
          PROVE  FALSE
      BY <2>3, <3>3 DEF StartUpload, StartDownload, Upload, Download
    <3>4. CASE DownloadNext
      <4>1. server.mode = "down"
        BY <3>4 DEF DownloadNext
      <4>2. PICK chunk \in Chunks :
              /\ inbox.body = DownloadSegment(chunk, server.toggle)
              /\ Serve(DownloadSegmentReply, "down", Flip(server.toggle),
                       Append(server.data, chunk))
              /\ Commit(Append(server.data, chunk))
        BY <3>4 DEF DownloadNext
      <4>3. chunk = <<object, pos>> /\ server.toggle = toggle
        BY <2>3, <4>2 DEF DownloadSegment
      <4>4. Early
        BY <1>6, <2>2, <4>1, <4>3, FlipIs DEF Behind, Taken, Broken, InStep
      <4>5. server.data = Row(object, p)
        BY <2>4, <4>4 DEF Early, InStep
      <4>6. PICK data : data = Append(server.data, chunk)
        OBVIOUS
      <4>7. data = Row(object, pos)
        BY <1>6, <2>4, <4>3, <4>5, <4>6, RowGrows
      <4>8. Len(data) = pos
        BY <1>6, <2>4, <4>7, RowLength
      <4>9. data[Len(data)] = <<object, pos>>
        BY <2>4, <4>7, <4>8 DEF Row
      <4>10. /\ server'.mode = "down" /\ server'.toggle = Flip(toggle)
             /\ server'.data = data /\ Commit(data)
        BY <4>2, <4>3, <4>6 DEF Serve
      <4>11. pos = Size[object] => stored' = data
        BY <4>9, <4>10 DEF Commit, IsLast
      <4>12. pos = Size[object] => stored' = Content(object)
        BY <4>7, <4>11 DEF Row, Content
      <4> QED
        BY <1>2, <4>7, <4>10, <4>12 DEF InStep, Flip
    <3> QED
      BY <3>1, <3>2, <3>3, <3>4 DEF Server
  <2>6. lastcnt' = mbxcnt'
    BY <1>2, <2>3
  <2>7. (work' = Abort /\ Broken') \/ Taken'
    BY <1>2, <2>5, <2>6 DEF Taken, Broken, InStep, Flip
  <2>8. \A m \in {outbox', work', Hand'} : m.cmd = "downsegres" => Taken'
    BY <1>5, <2>7, NothingIs DEF Abort
  <2>9. mbxout' # Nothing => mbxout' = Segment'
    BY <1>2, <2>1 DEF Writing, Segment
  <2>10. pos' \in 2 .. Size[object']
    BY <1>2, <2>1 DEF Writing
  <2> QED
    BY <1>2, <1>4, <1>5, <2>7, <2>8, <2>9, <2>10 DEF Writing
<1> QED
  BY <1>2, <1>4, <1>5, <1>7, <1>8

(* Where the server stands depends on these.                               *)
LEMMA StandsStill ==
  ASSUME UNCHANGED <<server, stored, object, toggle, pos, lastcnt, mbxcnt>>
  PROVE  /\ Taken' <=> Taken
         /\ Early' <=> Early
         /\ Broken' <=> Broken
         /\ Behind /\ (faults["request"] = 1 => faults'["request"] = 1) => Behind'
         /\ Segment' = Segment
         /\ InStep(0, 1)' <=> InStep(0, 1)
         /\ InStep(toggle, pos)' <=> InStep(toggle, pos)
<1>1. Following(lastcnt)' = Following(lastcnt)
      /\ Following(Following(lastcnt))' = Following(Following(lastcnt))
  BY DEF Following
<1>2. /\ InStep(0, 1)' <=> InStep(0, 1)
      /\ InStep(toggle, pos)' <=> InStep(toggle, pos)
      /\ InStep(Flip(toggle), pos)' <=> InStep(Flip(toggle), pos)
      /\ InStep(toggle, pos - 1)' <=> InStep(toggle, pos - 1)
  BY DEF InStep, Flip
<1>3. Segment' = Segment
  BY DEF Segment
<1> QED
  BY <1>1, <1>2, <1>3 DEF Taken, Early, Broken, Behind, Flip

LEMMA DownloadSlave ==
  ASSUME Types, Downloading, Slave, UNCHANGED <<call, slave>>
  PROVE  Downloading'
<1> SUFFICES ASSUME op' = "down", Quiet'
             PROVE  /\ Begun' => DownloadBegun'
                    /\ Open' => Writing'
                    /\ pc' = "next" => Turning'
                    /\ pc' \in {"finish", "done"} /\ wkc' =>
                         stored' = Content(object')
  BY DEF Downloading
<1>1. /\ UNCHANGED <<pc, mbxout, mbxin, mbxcnt, lastcnt, faults>>
      /\ UNCHANGED <<op, object, phase, toggle, pos, wkc, server, stored>>
      /\ silent => silent'
  BY DEF Slave, TakeCopy, PlaceReply, FallSilent, mailboxes, call, slave
<1>2. Quiet
  BY QuietBefore
<1>3. Hand' = Hand /\ (Begun' => Begun) /\ (Open' => Open)
  BY <1>1 DEF Hand, Begun, Open
<1>4. /\ Fresh' <=> Fresh
      /\ Fresh => inbox' = inbox
      /\ outbox' \in {outbox, work} /\ work' \in {work, Nothing}
  BY DEF Slave, TakeCopy, PlaceReply, FallSilent, Fresh
<1>5. /\ Taken' <=> Taken
      /\ Early' <=> Early
      /\ Broken' <=> Broken
      /\ Behind => Behind'
      /\ Segment' = Segment
      /\ InStep(0, 1)' <=> InStep(0, 1)
      /\ InStep(toggle, pos)' <=> InStep(toggle, pos)
  BY <1>1, StandsStill
<1>6. ASSUME Begun PROVE DownloadBegun'
  <2>1. DownloadBegun
    BY <1>1, <1>2, <1>6 DEF Downloading
  <2> QED
    BY <1>1, <1>3, <1>4, <1>5, <2>1, NothingIs DEF DownloadBegun
<1>7. ASSUME Open PROVE Writing'
  <2>1. Writing
    BY <1>1, <1>2, <1>7 DEF Downloading
  <2> QED
    BY <1>1, <1>3, <1>4, <1>5, <2>1, NothingIs DEF Writing
<1>8. ASSUME pc = "next" PROVE Turning'
  <2>1. Turning
    BY <1>1, <1>2, <1>8 DEF Downloading
  <2>2. Following(lastcnt)' = Following(lastcnt)
    BY <1>1 DEF Following
  <2> QED
    BY <1>1, <1>5, <2>1, <2>2 DEF Turning
<1>9. pc' \in {"finish", "done"} /\ wkc' => stored' = Content(object')
  BY <1>1, <1>2 DEF Downloading
<1> QED
  BY <1>1, <1>3, <1>6, <1>7, <1>8, <1>9

LEMMA DownloadSends ==
  ASSUME MaxCnt > 2,
         Types, Counted, Downloading,
         FirstTry \/ WaitEmpty \/ WaitEmptyFails \/ Retry,
         UNCHANGED <<call, slave>>
  PROVE  Downloading'
<1> SUFFICES ASSUME op' = "down", Quiet'
             PROVE  /\ Begun' => DownloadBegun'
                    /\ Open' => Writing'
                    /\ pc' = "next" => Turning'
                    /\ pc' \in {"finish", "done"} /\ wkc' =>
                         stored' = Content(object')
  BY DEF Downloading
<1>0. Master
  BY DEF Master, Transport
<1>1. /\ UNCHANGED <<mbxin, mbxcnt, work, outbox, lastcnt, silent>>
      /\ UNCHANGED <<op, object, phase, toggle, pos, wkc, server, stored>>
      /\ pc \in {"try", "wait", "retry"}
      /\ pc' \in {"wait", "retry", "sent", "unsent"}
      /\ (inbox' = inbox \/ inbox' = mbxout)
      /\ (mbxout' = mbxout \/ mbxout' = Nothing)
      /\ mbxout # Nothing
      /\ pc' = "sent" => ~silent /\ inbox' = mbxout
      /\ pc' = "wait" => pc = "try"
      /\ pc' = "retry" => pc = "wait"
  BY DEF FirstTry, WaitEmpty, WaitEmptyFails, Retry, mailboxes, slavembx, call,
         slave, Types, PlaceTypes, Exchanging
<1>2. /\ Quiet /\ Steady /\ Acks = 0
      /\ ~Fault("acknowledge") /\ ~Fault("late")
      /\ Fault("request") => faults["request"] = 0 /\ faults'["request"] = 1
      /\ faults["request"] = 1 => faults'["request"] = 1
  BY <1>0, QuietBefore DEF Quiet
<1>3. Hand' = Hand /\ (Begun' => Begun) /\ (Open' => Open)
      /\ (Fresh' => (Fresh /\ inbox' = inbox) \/ inbox' = mbxout)
  BY <1>1 DEF Hand, Begun, Open, Fresh
<1>5. /\ Taken' <=> Taken
      /\ Early' <=> Early
      /\ Broken' <=> Broken
      /\ Behind => Behind'
      /\ Segment' = Segment
      /\ InStep(0, 1)' <=> InStep(0, 1)
  BY <1>1, <1>2, StandsStill
<1>6. ASSUME Begun PROVE DownloadBegun'
  <2>1. DownloadBegun
    BY <1>1, <1>2, <1>6 DEF Downloading
  <2> QED
    BY <1>1, <1>3, <1>5, <2>1 DEF DownloadBegun
<1>7. ASSUME Open' PROVE Writing'
  <2>1. Writing
    BY <1>1, <1>2, <1>3, <1>7 DEF Downloading
  <2>2. mbxout = Segment /\ mbxout.cnt = mbxcnt
    BY <1>1, <2>1 DEF Writing, Segment
  <2>3. lastcnt \in 0 .. MaxCnt
    BY DEF Types, BoxTypes
  <2>4. Early \/ Behind => mbxcnt # lastcnt
    BY <2>3, FollowingIs DEF Early, Behind
  <2>5. /\ pos' \in 2 .. Size[object']
        /\ mbxout' # Nothing => mbxout' = Segment'
        /\ Fresh' => inbox' = Segment'
        /\ \A m \in {outbox', work', Hand'} : m.cmd = "downsegres" => Taken'
    BY <1>1, <1>3, <1>5, <2>1, <2>2 DEF Writing
  <2>6. Early \/ Behind \/ Taken \/ Broken
    BY <1>1, <2>1 DEF Writing
  <2>7. CASE pc' \in {"wait", "retry"}
    BY <1>5, <2>5, <2>6, <2>7 DEF Writing
  <2>8. CASE pc' = "sent"
    <3>1. mbxcnt # lastcnt => Fresh'
      BY <1>1, <2>2, <2>8 DEF Fresh
    <3> QED
      BY <1>5, <2>4, <2>5, <2>6, <2>8, <3>1 DEF Writing
  <2>9. CASE pc' = "unsent"
    <3>1. ~silent
      BY <1>1, <1>7, <2>9 DEF Open
    <3>2. ~WaitEmptyFails
      <4>1. SUFFICES ASSUME WaitEmptyFails PROVE FALSE
        OBVIOUS
      <4>2. pc = "wait" /\ inbox # Nothing /\ Settled
        BY <1>2, <3>1, <4>1 DEF WaitEmptyFails
      <4>3. Answers \in Nat /\ (Load = Answers \/ Load = Answers + 1)
        BY DEF Load, Answers, Held
      <4>4. Answers <= Acks
        BY <1>2, <3>1, <4>2, <4>3 DEF Counted, Loads
      <4>5. Answers = 2
        BY <1>2, <3>1, <4>2, <4>3, <4>4, NotStuck
      <4> QED
        BY <1>2, <4>4, <4>5
    <3>3. Retry
      BY <2>9, <3>2 DEF FirstTry, WaitEmpty
    <3>4. lastcnt # mbxout.cnt /\ Fault("request")
      BY <1>2, <2>9, <3>1, <3>3 DEF Retry, Mistake
    <3>5. faults["request"] = 0 /\ faults'["request"] = 1
      BY <1>2, <3>4
    <3>6. ~Taken /\ ~Behind
      BY <2>2, <3>4, <3>5 DEF Taken, Behind
    <3> QED
      BY <1>5, <2>5, <2>6, <2>9, <3>5, <3>6 DEF Writing
  <2> QED
    BY <1>1, <2>7, <2>8, <2>9
<1> QED
  BY <1>1, <1>3, <1>6, <1>7

LEMMA DownloadReceives ==
  ASSUME Types, Counted, Downloading,
         Receive \/ ReceiveLoses \/ ReceiveTimesOut \/ Sent,
         UNCHANGED <<op, object, phase, toggle, pos, slave>>
  PROVE  Downloading'
<1> SUFFICES ASSUME op' = "down", Quiet', Quiet
             PROVE  /\ Begun' => DownloadBegun'
                    /\ Open' => Writing'
                    /\ pc' = "next" => Turning'
                    /\ pc' \in {"finish", "done"} /\ wkc' =>
                         stored' = Content(object')
  <2>1. Quiet' => Quiet
    <3>1. BoxTypes /\ faults \in [Kinds -> Nat]
      BY DEF Types, BoxTypes
    <3>2. UNCHANGED faults \/ Fault("reply") \/ Fault("late")
      BY DEF Receive, ReceiveLoses, ReceiveTimesOut, Sent, Expires
    <3>3. \A k \in {"late", "acknowledge", "request", "pool"} :
            faults[k] <= faults'[k] /\ faults[k] \in Nat /\ faults'[k] \in Nat
      <4>1. CASE UNCHANGED faults
        BY <3>1, <4>1 DEF Kinds
      <4>2. CASE Fault("reply")
        BY <3>1, <4>2, FaultAdds DEF Kinds
      <4>3. CASE Fault("late")
        <5>1. /\ faults' \in [Kinds -> Nat]
              /\ faults'["late"] = faults["late"] + 1
              /\ \A k \in Kinds \ {"late"} : faults'[k] = faults[k]
          BY <3>1, <4>3, FaultAdds DEF Kinds
        <5> QED
          BY <3>1, <5>1 DEF Kinds
      <4> QED
        BY <3>2, <4>1, <4>2, <4>3
    <3> QED
      BY <3>3 DEF Quiet, Steady, Acks
  <2> QED
    BY <2>1 DEF Downloading
<1>1. /\ UNCHANGED <<mbxout, mbxcnt, inbox, work, lastcnt, silent, server, stored>>
      /\ pc \in {"sent", "receive"}
      /\ pc' \in {"receive", "received", "unreceived"}
      /\ mbxout = Nothing
  <2>1. mbxout = Nothing
    BY DEF Receive, ReceiveLoses, ReceiveTimesOut, Sent, Types, PlaceTypes,
           Exchanging
  <2>2. CASE Receive \/ ReceiveLoses
    BY <2>1, <2>2 DEF Receive, ReceiveLoses, mailboxes, slave
  <2>3. CASE ReceiveTimesOut \/ Sent
    BY <2>1, <2>3 DEF ReceiveTimesOut, Sent, Goto, mailboxes, slavembx, slave
  <2> QED
    BY <2>1, <2>2, <2>3
<1>2. Steady /\ Acks = 0 /\ ~Fault("late")
  BY NotLate DEF Quiet
<1>3. (Begun' => Begun) /\ (Open' => Open) /\ (Fresh' <=> Fresh)
      /\ Hand = Nothing
  BY <1>1 DEF Begun, Open, Fresh, Hand
<1>4. /\ outbox' \in {outbox, Nothing}
      /\ Hand' \in {outbox, Nothing}
      /\ pc' = "receive" => pc = "sent"
      /\ pc' \in {"received", "unreceived"} => pc = "receive"
  <2>1. CASE Receive \/ ReceiveLoses
    BY <2>1 DEF Receive, ReceiveLoses, Hand
  <2>2. CASE ReceiveTimesOut \/ Sent
    BY <1>1, <2>2 DEF ReceiveTimesOut, Sent, slavembx, Hand, Goto
  <2> QED
    BY <2>1, <2>2
<1>a. faults["request"] = 1 => faults'["request"] = 1
  <2>1. UNCHANGED faults \/ Fault("reply")
    BY <1>2 DEF Receive, ReceiveLoses, ReceiveTimesOut, Sent, Expires
  <2>2. Fault("reply") => faults'["request"] = faults["request"]
    BY FaultAdds DEF Types, Kinds
  <2> QED
    BY <2>1, <2>2
<1>5. /\ Taken' <=> Taken
      /\ Early' <=> Early
      /\ Broken' <=> Broken
      /\ Behind => Behind'
      /\ InStep(0, 1)' <=> InStep(0, 1)
  BY <1>1, <1>a, StandsStill DEF slave
<1>6. ASSUME Begun PROVE DownloadBegun'
  <2>1. DownloadBegun
    BY <1>6 DEF Downloading
  <2> QED
    BY <1>1, <1>3, <1>4, <1>5, <2>1, NothingIs DEF DownloadBegun
<1>7. ASSUME Open' PROVE Writing'
  <2>1. Writing
    BY <1>3, <1>7 DEF Downloading
  <2>2. /\ pos' \in 2 .. Size[object']
        /\ Fresh' => inbox' = Segment'
        /\ \A m \in {outbox', work', Hand'} : m.cmd = "downsegres" => Taken'
    BY <1>1, <1>3, <1>4, <1>5, <2>1, NothingIs DEF Writing, Segment
  <2>3. (Fresh /\ (Early \/ Behind)) \/ Taken \/ Broken
    BY <1>1, <2>1 DEF Writing
  <2>4. CASE pc' = "receive"
    BY <1>1, <1>3, <1>5, <2>2, <2>3, <2>4 DEF Writing
  <2>5. CASE pc' \in {"received", "unreceived"}
    <3>1. ~Fresh
      <4>1. Load <= 1 /\ Answers \in Nat
        BY <1>2, <1>4, <2>5 DEF Counted, Loads, Answers, Held
      <4>2. CASE outbox # Nothing
        BY <4>1, <4>2 DEF Load, Answers, Held
      <4>3. CASE outbox = Nothing
        <5>1. ReceiveTimesOut
          BY <1>4, <2>5, <4>3 DEF Receive, ReceiveLoses, Sent, Goto
        <5>2. Settled /\ pc' = "unreceived"
          BY <1>2, <5>1 DEF ReceiveTimesOut, Expires
        <5>3. ~silent
          BY <1>1, <1>7, <5>2 DEF Open
        <5> QED
          BY <4>3, <5>2, <5>3 DEF Settled, Fresh
      <4> QED
        BY <4>2, <4>3
    <3> QED
      BY <1>1, <1>5, <2>2, <2>3, <2>5, <3>1 DEF Writing
  <2> QED
    BY <1>1, <2>4, <2>5
<1> QED
  BY <1>1, <1>3, <1>6, <1>7

LEMMA DownloadStarts ==
  ASSUME Types, Counted, Drain \/ DrainMisses
  PROVE  Downloading'
<1> SUFFICES ASSUME op' = "down", Quiet'
             PROVE  /\ Begun' => DownloadBegun'
                    /\ Open' => Writing'
                    /\ pc' = "next" => Turning'
                    /\ pc' \in {"finish", "done"} /\ wkc' =>
                         stored' = Content(object')
  BY DEF Downloading
<1>0. Master
  BY DEF Master
<1>1. Steady /\ ~Fault("pool") /\ ~Fault("late")
  BY <1>0, QuietBefore DEF Quiet
<1>2. /\ pc = "drain" /\ PostInitial
      /\ UNCHANGED <<op, object, phase, inbox, work, lastcnt, silent>>
      /\ outbox' = IF silent THEN outbox ELSE Nothing
  BY <1>1 DEF Drain, DrainMisses
<1>3. /\ pc' = "try" /\ phase' = "init" /\ op = "down" /\ mbxcnt' = NextCnt
      /\ mbxout' = [cnt |-> NextCnt, body |-> Download(object)] /\ pos' = 1
  BY <1>2, PostInitialTypes DEF Types, PlaceTypes
<1>4. silent \/ (inbox = Nothing /\ work = Nothing)
  BY <1>1, <1>2 DEF Counted, Loads
<1>5. ASSUME Begun' PROVE DownloadBegun'
  <2>1. ~silent
    BY <1>2, <1>3, <1>5 DEF Begun
  <2>2. inbox' = Nothing /\ work' = Nothing /\ outbox' = Nothing /\ Hand' = Nothing
    BY <1>2, <1>3, <1>4, <2>1 DEF Hand
  <2> QED
    BY <1>2, <1>3, <2>2, NothingIs DEF DownloadBegun, Fresh
<1> QED
  BY <1>3, <1>5 DEF Open

LEMMA DownloadChecks ==
  ASSUME Types, Downloading, CheckInitial \/ CheckSegment
  PROVE  Downloading'
<1> SUFFICES ASSUME op' = "down", Quiet'
             PROVE  /\ Begun' => DownloadBegun'
                    /\ Open' => Writing'
                    /\ pc' = "next" => Turning'
                    /\ pc' \in {"finish", "done"} /\ wkc' =>
                         stored' = Content(object')
  BY DEF Downloading
<1>0. Master
  BY DEF Master
<1>1. Quiet
  BY <1>0, QuietBefore
<1>2. /\ pc = "received" /\ op = "down" /\ pc' = "next"
      /\ UNCHANGED <<mailboxes, slavembx, object, pos, server, stored>>
  BY DEF CheckInitial, CheckSegment, Goto, slave
<1>3. Hand = mbxin /\ UNCHANGED <<mbxcnt, lastcnt>>
  BY <1>2 DEF Hand, mailboxes, slavembx
<1>4. /\ InStep(toggle, pos)' /\ 0 < pos' /\ lastcnt' = mbxcnt'
  <2>1. CASE CheckInitial
    <3>1. phase = "init" /\ mbxin.cmd \in {"upres", "downres"} /\ toggle' = 0
      BY <1>2, <2>1 DEF CheckInitial, InitialReply
    <3>2. DownloadBegun
      BY <1>1, <1>2, <3>1 DEF Downloading, Begun
    <3>3. InStep(0, 1) /\ lastcnt = mbxcnt /\ pos = 1
      BY <1>3, <3>1, <3>2 DEF DownloadBegun
    <3> QED
      BY <1>2, <1>3, <3>1, <3>3 DEF InStep
  <2>2. CASE CheckSegment
    <3>1. phase = "segments" /\ mbxin.cmd = "downsegres"
          /\ toggle' = Flip(toggle)
      BY <1>2, <2>2 DEF CheckSegment, SegmentAnswer
    <3>2. Writing
      BY <1>1, <1>2, <3>1 DEF Downloading, Open
    <3>3. Taken /\ 0 < pos
      BY <1>3, <3>1, <3>2, Sizes DEF Writing, Types, CallTypes
    <3> QED
      BY <1>2, <1>3, <3>1, <3>3 DEF Taken, InStep
  <2> QED
    BY <2>1, <2>2
<1> QED
  BY <1>2, <1>4 DEF Turning, Begun, Open

LEMMA DownloadGoesOn ==
  ASSUME Types, Counted, Downloading,
         ExchangeFails \/ Reject \/ NoMailbox \/ AllHanded \/ Finish \/ Return
  PROVE  Downloading'
<1> SUFFICES ASSUME op' = "down", Quiet'
             PROVE  /\ Begun' => DownloadBegun'
                    /\ Open' => Writing'
                    /\ pc' = "next" => Turning'
                    /\ pc' \in {"finish", "done"} /\ wkc' =>
                         stored' = Content(object')
  BY DEF Downloading
<1>0. Master
  BY DEF Master
<1>1. Quiet /\ ~Fault("pool")
      /\ (faults["request"] = 1 => faults'["request"] = 1)
  BY <1>0, QuietBefore
<1>2. ~Return /\ ~NoMailbox
  BY <1>1 DEF Return, NoMailbox
<1>3. pc' \in {"finish", "next", "done"} /\ ~Begun' /\ ~Open'
  BY <1>2 DEF ExchangeFails, Reject, AllHanded, Finish, Goto, Begun, Open
<1>4. UNCHANGED <<op, object, phase, pos, server, stored, mbxcnt, lastcnt, silent>>
  <2>1. CASE Finish
    BY <2>1 DEF Finish, call, slave, slavembx
  <2>2. CASE ExchangeFails \/ Reject \/ AllHanded
    BY <2>2 DEF ExchangeFails, Reject, AllHanded, call, slave, mailboxes,
                slavembx
  <2> QED
    BY <1>2, <2>1, <2>2
<1>5. CASE Reject
  BY <1>3, <1>5 DEF Reject, Goto
<1>6. CASE Finish
  BY <1>1, <1>3, <1>4, <1>6 DEF Finish, Goto, call, Downloading
<1>7. CASE AllHanded
  <2>1. pc = "next" /\ pos = Size[object] /\ wkc' = wkc /\ pc' = "finish"
    BY <1>4, <1>7, Sizes DEF AllHanded, NotLast, Goto, call, Types, CallTypes
  <2>2. wkc => InStep(toggle, pos)
    BY <1>1, <1>4, <2>1 DEF Downloading, Turning
  <2> QED
    BY <1>3, <1>4, <2>1, <2>2 DEF InStep
<1>8. CASE ExchangeFails
  <2>1. pc \in {"unsent", "unreceived"} /\ ~wkc'
    BY <1>8 DEF ExchangeFails
  <2>2. ASSUME pc' = "next" PROVE Turning'
    <3>1. phase = "segments" /\ toggle' = Flip(toggle)
      BY <1>8, <2>2 DEF ExchangeFails, Goto, Types, CallTypes
    <3>2. CASE silent
      BY <1>4, <2>1, <3>2 DEF Turning
    <3>3. CASE ~silent
      <4>1. Writing
        BY <1>1, <1>4, <2>1, <3>1, <3>3 DEF Downloading, Open
      <4>2. pos \in Nat /\ 0 < pos
        BY <4>1, Sizes DEF Writing, Types, CallTypes
      <4>3. \/ Taken
            \/ Broken
            \/ Early /\ faults["request"] = 1
        BY <2>1, <4>1 DEF Writing
      <4>4. CASE Taken
        BY <1>4, <2>1, <3>1, <4>2, <4>4 DEF Taken, InStep, Turning
      <4>5. CASE Broken
        BY <1>4, <2>1, <4>2, <4>5 DEF Broken, Turning
      <4>6. CASE Early /\ faults["request"] = 1
        <5>1. server'.mode = "down" /\ server'.toggle = Flip(toggle')
          BY <1>4, <3>1, <4>6, FlipIs DEF Early, InStep, Types, CallTypes
        <5>2. mbxcnt' = Following(lastcnt') /\ faults'["request"] = 1
          BY <1>1, <1>4, <4>6 DEF Early
        <5>3. (mbxcnt = Following(lastcnt))'
          BY <5>2 DEF Following
        <5> QED
          BY <1>4, <2>1, <4>2, <5>1, <5>2, <5>3 DEF Turning, Flip
      <4> QED
        BY <4>3, <4>4, <4>5, <4>6
    <3> QED
      BY <3>2, <3>3
  <2> QED
    BY <1>3, <2>1, <2>2
<1> QED
  BY <1>2, <1>5, <1>6, <1>7, <1>8

LEMMA DownloadNextSegment ==
  ASSUME Types, Counted, Downloading, NextSegment
  PROVE  Downloading'
<1> SUFFICES ASSUME op' = "down", Quiet'
             PROVE  /\ Begun' => DownloadBegun'
                    /\ Open' => Writing'
                    /\ pc' = "next" => Turning'
                    /\ pc' \in {"finish", "done"} /\ wkc' =>
                         stored' = Content(object')
  BY DEF Downloading
<1>0. Master
  BY DEF Master
<1>1. Quiet /\ Steady /\ Acks = 0
  BY <1>0, QuietBefore DEF Quiet
<1>2. /\ pc = "next" /\ op = "down" /\ pos < Size[object]
      /\ phase' = "segments"
      /\ UNCHANGED <<slavembx, faults, object, toggle, slave>>
  BY DEF NextSegment, NotLast, Types, PlaceTypes
<1>3. /\ mbxcnt' = NextCnt /\ pc' = "try" /\ pos' = pos + 1
      /\ mbxout' = [cnt |-> NextCnt,
                    body |-> DownloadSegment(<<object, pos + 1>>, toggle)]
  BY <1>2, NextSegmentTypes
<1>4. ASSUME Open' PROVE Writing'
  <2>1. ~silent
    BY <1>2, <1>3, <1>4 DEF Open, slavembx
  <2>2. outbox = Nothing /\ work = Nothing /\ ~Fresh
    BY <1>1, <1>2, <2>1, NothingUnderWay DEF Resting
  <2>3. Hand' = Nothing /\ outbox' = Nothing /\ work' = Nothing /\ ~Fresh'
    BY <1>2, <1>3, <2>2 DEF Hand, slavembx, Fresh
  <2>4. Turning
    BY <1>1, <1>2 DEF Downloading
  <2>5. PICK p \in Nat : p = pos /\ 0 < p /\ pos' = p + 1 /\ p + 1 - 1 = p
                         /\ pos' \in 2 .. Size[object']
    BY <1>2, <1>3, <2>1, <2>4, Sizes DEF Turning, Types, CallTypes
  <2>6. mbxcnt' = Following(mbxcnt)
    BY <1>3 DEF NextCnt, Following
  <2>7. mbxout' = Segment'
    BY <1>2, <1>3 DEF Segment, DownloadSegment
  <2>8. UNCHANGED <<server, stored, lastcnt>>
    BY <1>2 DEF slave, slavembx
  <2>9. \/ Broken
        \/ InStep(toggle, p) /\ lastcnt = mbxcnt
        \/ /\ server.mode = "down" /\ server.toggle = Flip(toggle)
           /\ mbxcnt = Following(lastcnt) /\ faults["request"] = 1
    BY <2>1, <2>4, <2>5 DEF Turning
  <2>10. Early' \/ Behind' \/ Broken'
    <3>1. CASE Broken
      BY <2>8, <3>1 DEF Broken
    <3>2. CASE InStep(toggle, p) /\ lastcnt = mbxcnt
      <4>1. mbxcnt' = Following(lastcnt')
        BY <2>6, <2>8, <3>2
      <4>2. (mbxcnt = Following(lastcnt))'
        BY <4>1 DEF Following
      <4>3. InStep(toggle, pos - 1)'
        BY <1>2, <2>5, <2>8, <3>2 DEF InStep
      <4> QED
        BY <4>2, <4>3 DEF Early
    <3>3. CASE /\ server.mode = "down" /\ server.toggle = Flip(toggle)
               /\ mbxcnt = Following(lastcnt) /\ faults["request"] = 1
      <4>1. mbxcnt' = Following(Following(lastcnt'))
        BY <2>6, <2>8, <3>3
      <4>2. (mbxcnt = Following(Following(lastcnt)))'
        BY <4>1 DEF Following
      <4> QED
        BY <1>2, <2>8, <3>3, <4>2 DEF Behind, Flip
    <3> QED
      BY <2>9, <3>1, <3>2, <3>3
  <2> QED
    BY <1>3, <2>3, <2>5, <2>7, <2>10, NothingIs DEF Writing
<1> QED
  BY <1>2, <1>3, <1>4 DEF Begun

LEMMA DownloadStep ==
  ASSUME MaxCnt > 2, Types, Counted, Downloading, [Next]_vars
  PROVE  Downloading'
<1>1. CASE \E how \in {"up", "down"}, o \in Objects, room \in BOOLEAN :
             Call(how, o, room)
  <2>1. pc' = "drain"
    BY <1>1, Zenon DEF Call, Goto
  <2> QED
    BY <2>1 DEF Downloading, Begun, Open
<1>2. CASE Master
  <2>1. CASE Transport /\ UNCHANGED <<call, slave>>
    <3>1. UNCHANGED <<op, object, phase, toggle, pos, slave>>
      BY <2>1 DEF call
    <3> QED
      BY <2>1, <3>1, DownloadSends, DownloadReceives DEF Transport
  <2>2. CASE Sent
    <3>1. UNCHANGED <<op, object, phase, toggle, pos, slave>>
      BY <2>2 DEF Sent
    <3> QED
      BY <2>2, <3>1, DownloadReceives
  <2> QED
    BY <1>2, <2>1, <2>2, DownloadStarts, DownloadChecks, DownloadGoesOn,
       DownloadNextSegment
    DEF Master
<1>3. CASE Server
  BY <1>3, DownloadServer
<1>4. CASE Slave /\ UNCHANGED <<call, slave>>
  BY <1>4, DownloadSlave
<1>5. CASE UNCHANGED vars
  <2>1. /\ UNCHANGED <<pc, mbxout, mbxin, mbxcnt, inbox, work, outbox, lastcnt>>
        /\ UNCHANGED <<silent, faults, op, object, phase, toggle, pos, wkc>>
        /\ UNCHANGED <<server, stored>>
    BY <1>5 DEF vars, mbxvars, mailboxes, slavembx, call, slave
  <2>2. /\ Taken' <=> Taken
        /\ Early' <=> Early
        /\ Broken' <=> Broken
        /\ Behind => Behind'
        /\ Segment' = Segment
        /\ InStep(0, 1)' <=> InStep(0, 1)
        /\ InStep(toggle, pos)' <=> InStep(toggle, pos)
    BY <2>1, StandsStill
  <2>3. (Quiet' <=> Quiet) /\ (Fresh' <=> Fresh) /\ Hand' = Hand
        /\ (Begun' <=> Begun) /\ (Open' <=> Open)
    BY <2>1 DEF Quiet, Steady, Acks, Fresh, Hand, Begun, Open
  <2>4. (DownloadBegun => DownloadBegun') /\ (Writing => Writing')
    BY <2>1, <2>2, <2>3 DEF DownloadBegun, Writing
  <2>5. Turning => Turning'
    <3>1. Following(lastcnt)' = Following(lastcnt)
      BY <2>1 DEF Following
    <3> QED
      BY <2>1, <2>2, <3>1 DEF Turning
  <2> QED
    BY <2>1, <2>3, <2>4, <2>5 DEF Downloading
<1> QED
  BY <1>1, <1>2, <1>3, <1>4, <1>5 DEF Next

(* For any dictionary of objects and any number of calls, after a download *)
(* that ecx_SDOwrite reports as done the slave has stored the whole object *)
(* in order, although replies and one request are lost.  The counter of a  *)
(* mailbox tells a lost request from a copy if it takes more than two      *)
(* values; that of the code takes seven.                                   *)
THEOREM DownloadsAreWhole ==
  ASSUME MaxCnt > 2
  PROVE  Spec => []DownloadIsWhole
<1> DEFINE Inv == Types /\ Counted /\ Downloading
<1>1. Init => Inv
  <2>1. Init => Downloading
    BY DEF Init, Downloading, Begun, Open
  <2> QED
    BY <2>1, InitTypes, InitCounts
<1>2. Inv /\ [Next]_vars => Inv'
  BY StepTypes, StepCounts, DownloadStep
<1>3. Inv => DownloadIsWhole
  <2>1. Inv /\ Without({"acknowledge", "late", "pool"})
            /\ faults["request"] <= 1 => Quiet
    BY DEF Without, Quiet, Steady, Acks
  <2> QED
    BY <2>1 DEF Downloading, DownloadIsWhole, Succeeded
<1> QED
  BY <1>1, <1>2, <1>3, PTL DEF Spec

=============================================================================
