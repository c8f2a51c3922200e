# TLA+ models of SOEM.NET

SOEM.NET is an EtherCAT master: a C# class (`src/src/Soem.Net/SoemMaster.cs`)
over a small C shim (`src/native/soem_wrapper.c`) over SOEM, the Simple Open
EtherCAT Master in C (`src/native/soem`).  A master sends Ethernet frames that
run through all slaves and come back with the slaves' answers in them.  These
modules model the parts of it in which order, loss, time and sharing decide
what happens, TLC checks them on small instances, and TLAPS proves what can be
proved for every size.

Paths below are relative to the repository.

## The system

| Component | State it keeps | Operations | What makes it hard |
|---|---|---|---|
| Frame layer, `soem/oshw/*/nicdrv.c` | `rxbufstat`, `rxbuf`, `txbuf`, `lastidx`, socket, three mutexes | `ecx_getindex`, `ecx_setbufstat`, `ecx_outframe`, `ecx_inframe`, `ecx_waitinframe`, `ecx_srconfirm`, the `_red` variants | threads read one another's frames; lost, late and repeated frames; retransmission |
| Datagram primitives, `ec_base.c` | none | `ecx_BWR` ... `ecx_LRWDC` | each is: index, datagram, `srconfirm`, copy, release |
| Mailbox pool, `ec_main.c` | ring of free mailbox numbers | `ecx_getmbx`, `ecx_dropmbx` | taken and returned by every thread, the handler and the receive path |
| Mailbox transmit queue, `ec_main.c` | ring of entries, ticket table, states, removal marks | `ecx_mbxaddqueue`, `donequeue`, `expirequeue`, `rotatequeue`, `dropqueue`, `ecx_mbxouthandler`, `ecx_mbxsend` | a sender polls and expires what the handler moves and writes |
| Mailbox reception, `ec_main.c` | per slave: one pointer per protocol, full flag, repeat state | `ecx_mbxinhandler`, `ecx_mbxreceive`, `ecx_mbxempty` | repeat requests, two receivers, error and emergency mailboxes in between |
| Process data, `ec_main.c` | index stack, group segments, pointers into the I/O map | `ecx_send_processdata`, `ecx_receive_processdata` | several frames per cycle, lost frames, second send, working counter |
| Slave states, `ec_main.c` | `slavelist[].state`, `ALstatuscode` | `ecx_readstate`, `ecx_writestate`, `ecx_statecheck` | broadcast reads hide a slave; timeouts |
| SII/EEPROM, `ec_main.c` | cache of one slave's SII bytes and its bitmap | `ecx_siigetbyte`, `ecx_siifind`, `ecx_readeeprom*`, `ecx_writeeeprom*` | busy and error bits, ownership shared with the slave, one cache for all slaves |
| Error ring, `ec_main.c` | ring of errors | `ecx_pusherror`, `ecx_poperror` | writers and reader without a lock |
| CoE, `ec_coe.c` | none across calls | `ecx_SDOread`, `ecx_SDOwrite`, PDO and object dictionary access | segments, toggle bit, aborts, lost replies |
| FoE, `ec_foe.c` | none across calls | `ecx_FOEread`, `ecx_FOEwrite` | packet numbers, BUSY, final empty packet |
| EoE, `ec_eoe.c` | static frame number | `ecx_EOEsend`, `ecx_EOErecv`, `ecx_EOEreadfragment` | fragments missing, repeated, mixed |
| SoE, `ec_soe.c` | none across calls | `ecx_SoEread`, `ecx_SoEwrite` | fragments left, order |
| Distributed clocks, `ec_dc.c` | slave topology and delays | `ecx_configdc`, `ecx_dcsync0`, `ecx_dcsync01` | time wrap, tree of ports |
| Configuration, `ec_config.c` | slave list, groups, segments, I/O map | `ecx_config_init`, `ecx_config_map_group`, `ecx_recover_slave`, `ecx_reconfig_slave` | limits of tables, slaves that vanish and return |
| Master object, `SoemMaster.cs`, `soem_wrapper.c` | `_handle`, `_initialized`, `_ioMap` and its pin, the native context | `Init`, `ConfigInit`, `ConfigMap`, `SendProcessdata`, `ReceiveProcessdata`, `Close`, `Dispose`, SDO and state calls | lifetimes across the managed border |
| Adapters, loader, OS layer, tables of text, samples | | | input and output only |

How they interact: the master object calls configuration, process data, state
and SDO functions; CoE, FoE, EoE and SoE build a mailbox from the **pool** and
hand it to `ecx_mbxsend`, which for a slave in cyclic mode puts it in the
**transmit queue** of the slave's group, and otherwise writes it itself;
`ecx_mbxhandler`, called in the application's cycle, works the queue off and
reads the slaves' mailboxes into the pointers `ecx_mbxreceive` collects from.
Everything that reaches the wire is a **datagram primitive** in an indexed
buffer of the **frame layer**.  The mutexes are `getindex_mutex`, `tx_mutex`
and `rx_mutex` of a port, `mbxmutex` of the pool and one `mbxmutex` per queue.

What correctness means, component by component:

* frame layer: an index has one user; a reply goes to the request it answers;
  no buffer is lost; every exchange ends.
* pool and queue: no mailbox is lost, freed twice or written after it was
  freed; a sender that is told "sent" was sent; a waiting sender's ticket leads
  to its own entry; what can be sent is sent in the end.
* reception: a mailbox is delivered once, to its protocol; none is lost
  although frames are.
* protocols: what a transfer returns as success is the whole data in order;
  a transfer ends.
* process data: the working counter sums what came back in this cycle; the
  outputs sent and inputs stored are those of the current map.
* states: "all slaves are in state S" is reported only if they are.
* master object: what was created is released once; process data stays within the
  map the caller sees, as far as the caller keeps to the order of calls.

## Modules

| Module | Models | Runs |
|---|---|---|
| `NicDrv` | the frame layer in single NIC mode | `nic`, `nic_ends` |
| `NicDrv_proofs` | theorems about `NicDrv` | |
| `BufferPool` | abstract: a set of free buffers | |
| `MbxPool` | the ring that implements it | `mailbox_in` |
| `MbxQueue` | the transmit queue, `ecx_mbxsend` in cyclic mode, `ecx_mbxouthandler` | `queue` |
| `MbxQueue_proofs` | theorems about `MbxQueue` | |
| `ErrorRing` | the ring of errors | `mailbox_in` |
| `MailboxIn` | cyclic reception: slave, handler, receivers, over `MbxPool` and `ErrorRing` | `mailbox_in` |
| `MailboxIn_proofs` | theorems about `MbxPool`, `ErrorRing` and `MailboxIn` | |
| `AcyclicMbx` | `ecx_mbxsend` and `ecx_mbxreceive` for a slave without cyclic mailbox, and the slave's mailboxes | |
| `SdoTransfer` | `ecx_SDOread` and `ecx_SDOwrite` over `AcyclicMbx`, and the slave's SDO server | `sdo` |
| `SdoTransfer_proofs` | theorems about `SdoTransfer` | |
| `MbxCall` | what all other protocol calls over `AcyclicMbx` share | |
| `FoeTransfer`, `SoeTransfer`, `EoeFragments` | `ec_foe.c`, `ec_soe.c`, `ec_eoe.c` | |
| `Dictionary`, `PdoMap` | `ec_coe.c` beyond the transfer of objects | |
| `Transfers` | these five, over the mailboxes of one slave | `transfers`, `transfers_end`, `soe_read` |
| `Transfers_proofs` | theorems about `Transfers`, `FoeTransfer`, `EoeFragments` and `Dictionary` | |
| `IOMap` | the layout of the process image and its segments | |
| `ProcessData` | the cyclic exchange over `IOMap` | `process_data` |
| `ProcessData_proofs` | theorems about `IOMap` and `ProcessData` | |
| `Bus` | the slave controllers on the wire, and the datagrams that reach them | |
| `SlaveState` | states, recovery and reconfiguration of slaves, over `Bus` | |
| `Eeprom` | access to the EEPROMs and the SII cache, over `Bus` | |
| `Slaves` | an application that uses the two | `slaves` |
| `Slaves_proofs` | theorems about `SlaveState` and `Eeprom` | |
| `Topology` | the wiring, and the parent search of the scan | `dc` |
| `DistributedClocks` | `ec_dc.c` over `Topology` | `dc` |
| `SoemMaster` | the life of a master object | `master` |
| `SoemMaster_proofs` | theorems about `SoemMaster` | |

`MCx` extends module `x` and defines the values and symmetry sets of its runs.  Each
`.cfg` is one run.  Operators whose comment begins with "Mutant" are variants of
the definition below them with a plausible bug; the runs do not use them, and
each of them breaks the property it was written for.  `TypeOK` and the like
state the types of a module's variables.

Many properties have premises: a loss, an order of calls or a layout for which the
code does not keep the promise.  They were found by leaving them out and
reading TLC's counterexample, and each is named below with its place in the code.

### NicDrv

Threads run in parallel, so one step is one access to shared state.  `pc` is
where a thread is in this chain:

`idle` -GetIndex-> `setup` -SetupDatagram-> `mark` -OutframeMark-> `send`
-OutframeSent/Failed-> `poll` -InframeReady-> `replied`, or -InframeNotReady->
`lock` -LockRx-> `locked`, then one of LockedReady, RecvNothing, RecvOwn,
RecvOther, RecvStray, and from `missed` again to `poll`'s checks, to `mark`
(Retransmit) or to `failed` (TimeOut); Release returns to `idle`.

`rxbufstat`, `rxbuf`, `txbuf` and `lastidx` are the fields of `ecx_portt`; the
content of a frame is the request it carries, that is the thread whose current
request it is, or `Over` when that request has ended.  `net` holds the frames on
the wire and in the receive queue: a frame may stay there for ever (a loss) or be
taken out in any order.  `age` counts the `ecx_getindex` calls since the one that
gave the index and is history only: it bounds how long a frame survives.

Two assumptions are constants, because the properties depend on them:
`SendFails` (may `send()` return -1) and `Preempt` (may a thread stop between
the check of `rxbufstat` and the assignment of `EC_BUF_RCVD`, nicdrv.c:447-453).
With `SendFails` two threads can share an index: `ecx_outframe` marks the buffer `EMPTY`,
its owner goes on polling and transmitting, and `ecx_getindex` gives the index away.
With `Preempt` a thread parks a reply for one that gives up in the same moment,
and the buffer stays `RCVD` without an owner (TLC refutes `NoOrphanBuffer`).

| Run | Shows |
|---|---|
| `nic` | 2 threads, 3 buffers, 2 transmissions: no shared index, no lost buffer, no foreign or stale reply, no reply thrown away, if a frame dies before its index comes round again |
| `nic_ends` | every exchange ends, with losses, failing `send()` and preemption |

Bounds: `MaxTx` stands for the timer of `ecx_srconfirm`; with two transmissions
there are replies of an earlier and a later one on the wire.  Three buffers are
enough for the scan to skip, to wrap and to come round.  `MaxAge` is less than the
number of buffers less one, and `ReplyMatchesRequest` needs that: with `MaxBuf = 3` and `MaxAge =
2` TLC finds a late frame that is taken for the reply to the next request with
its index.  In the code the distance is 16 calls of `ecx_getindex`.

Fairness (`nic_ends`): weak fairness of the steps of a thread inside a call;
strong fairness of `LockRx`, as the mutex is created with priority inheritance
and hands itself to waiters; strong fairness of `TimeOut`, as a timer that is
started expires and the loop reads it every time.

Proved for all sizes: `TypeCorrect`; `IndexIsExclusive` and `NoBufferIsLost`
under `~SendFails`, `~Preempt` and at most as many threads as buffers.  The
invariant `OwnInv` strengthens both by `Marked`: what a thread holds is not
`EMPTY`.  The core is `FreeIndex`: if a thread is without an index and there are
not more threads than buffers, a buffer is empty, because otherwise owners map
the buffers one to one into the other threads (a pigeonhole argument over
`Cardinality`); and `NextIdxFree`: then the scan finds an empty one.

`RepliesAreToRequests` and `RepliesAreKept` add `MaxAge + Cardinality(Threads) <= MaxBuf`.
Their invariant `ReplyInv` is about late frames.  A thread builds its request in a buffer, and a
frame of an older request with the same index would be taken for the reply.  `AgeOK` excludes it: for a frame that
was sent `age` calls of `ecx_getindex` ago, the scan has since then moved on from its index by at most `age`
buffers and those it skipped; and a skipped buffer has an owner who took it before
(`SkippedHaveOwners`), so each thread is counted once (`Since`, `ScanMovesOn`).  Only when `age` plus the
threads reach `MaxBuf` can the scan come round.  The bound is exact: with one call more
TLC finds the stale reply.  With 16 buffers and two threads a frame may be 14 calls late.

### BufferPool and MbxPool

`BufferPool` is what users of the pool rely on: `Get` takes some free buffer, or
none if there is none, `Drop` returns one.  `MbxPool` is the ring
(`mbxemptylist`, `listhead`, `listtail`, `listcount`) with `owned`, the mailboxes
each user has a pointer to; `HandOver` passes one on (to the queue, the handler,
the caller).  Every access holds `mbxmutex`, so a call is one step.

Its properties are checked where the pool is shared, in `mailbox_in`: `RingConsistent`
(the ring lists each free mailbox once, head is where the next one goes, and
what is not listed is held), `OneHolder`, and `RefinesPool`, the refinement of `BufferPool`
with `free <- Free`, the set of listed numbers.  All three are proved in
`MailboxIn_proofs` for every `PoolSize` and every set of users; the inductive invariant is
their conjunction, and the lemmas follow the window of the ring (`Slot`, `SlotsDiffer`,
`SuccSlot`) through `GetMbx` and `DropMbx`.  `FullIsAll` shows that a full ring
leaves nothing to return.  They rest on callers that drop only what they hold, which
`ec_coe.c` does not always do, see `Dictionary`.

### MbxQueue

Senders (`Prepare`, `AddQueue`, `GiveBack`, `DoneQueue`, `ExpireQueue`,
`Return`) against the handler (`HandlerStart`, `HandlerFetch`, `WriteSkipped`,
`WriteOk`, `WriteFailed`, `ReturnMbx`, `ClearMbx`, `RotateQueue`, `CheckRemove`,
`DropQueue`).  A queue function that holds `mbxmutex` is one step; what the handler
reads or writes outside the mutex is a step of its own.  `sent` is history: the
senders whose current request a slave has taken.  `content` tells which request
a mailbox carries and whether its sender has given it up (`old`).

`queue` (2 senders, 3 slots, 2 mailboxes, 2 entries per call): tickets lead to their
entries; a mailbox is in one place, and the handler writes only one that its entry owns
(`MbxAccountedFor`); "done" means written; a given-up request never overtakes a later
one; and what can be sent is sent (`SentInTheEnd`).  `Wavering` senders address a
slave that is sometimes below PRE_OP, when the handler skips the write; `Patient`
ones have no timeout that runs out.

`Preempt = FALSE`: the handler runs from the rotation to its check of `mbxremove`
(ec_main.c:1486-1491) without a sender in between.  With `Preempt = TRUE` TLC refutes
`MbxAccountedFor`: the check reads a slot that by then belongs to another request.

Proved for every number of senders, mailboxes and slots, under `Preempt = FALSE`: `TypeCorrect`,
`TicketsLead`, `MailboxesAccountedFor`, `ReportsAreTrue` and `GivenUpStaysBehind`, which state every property
of `queue` but the liveness.  They share one inductive invariant:

* `RingOK`: head, tail and count of the ring fit together.  `WindowIs`, `RingAdd`, `RingDrop` and `RingRotate` say what the
  three moves do to the entries in use and to their distance from the tail, without modulo.
* `HandlerOK`: what the handler read outside the mutex is still so when it uses it, since its entry stays at
  the tail until the rotation.  This is what fails with `Preempt`.
* `TicketsOK`, `EntriesOK`: tickets lead one to one to the entries that are not marked for removal.  A free ticket is found since there
  are as many as slots (`TicketIsFree`).
* `RequestsOK`, `HoldingsOK`: what lies in a mailbox is the request of who holds it, and nothing is held twice, except for
  the moment when the handler has returned the mailbox and its entry still names it.
* `OrderOK`: an entry that was given up lies nearer to the tail than the next entry of its sender.

Fairness: the handler is called in every cycle; strong fairness that a slave
that stays up takes a mailbox that it is offered over and over; strong fairness of
a sender's poll, since its loop sleeps and looks again.  Two slots are the smallest ring in
which an entry can rotate past another one, three the smallest in which the freed
slot is taken while the handler still looks at it.

### ErrorRing and MailboxIn

`ErrorRing` is `ecx_pusherror` in the three steps a reader can come between
(`PushError`, `Advance`, `Overtake`), `ecx_poperror` and `ecx_iserror`.  `MailboxIn` is one
slave in cyclic mode.  Its mailbox is external (`Offer`, `Repeat`): it offers the `Messages` one
after the other and, asked by the repeat bit, the last one again.  The handler: `Exchange` is
`ecx_clearmbxstatus` and the process data that brings the status byte anew, `RepeatMailbox` the machine of
`rmpState` with its read, write and acknowledge, each over frames that may be lost on either
way, `TakeMailbox`, `ReadMailbox` and `Dispatch` the rest of a turn: a CoE reply goes to its slot
if that is enabled (`DispatchCoE`, then `MarkFull`), an error or emergency becomes an
entry of the error ring, and what has no slot is counted as `overrun`.  The receiver takes the
pointer in the four steps of `ecx_mbxreceive` (ec_main.c:1617-1628).  `sender` stands for all
others that use the pool.  Other slots than CoE's are never enabled by this library, so what comes for them
is overrun.

`mailbox_in` shows `MailboxesInOrder` (each is handled in its turn, again only after
a lost frame, and skipped only after the application has marked the slave as lost, which
resets the repeat), `DeliveredOrCounted` (every reply handled is with its
receiver, in the slot, or counted; none disappears), `ErrorsInOrder`,
and the three properties of the pool in this use of it.

Premises: one receiver for a slave (two of them both see the slot full and
take the same pointer: TLC refutes `OneHolder`); errors are popped between pushes
(a pop between the increment of `head` and the test of `tail`, ec_main.c:88-93, reads
entries of the past: with `Concurrent = TRUE` TLC refutes `ErrorsInOrder`); the handler is called once per exchange
of process data, as its status flag stays set until then.

Bounds: five mailboxes of the four kinds with a reply on either side of the others, one lost
frame, two mailboxes in the pool so that it runs empty, one error in the ring so that it overflows.
No liveness: a full slot that nobody empties makes the rest overrun, as it does in the code.

Proved for every list of messages, number of losses, and size of pool and ring:

* `MailsAreInOrder`, without any assumption.  The invariant `OrderInv` follows a message from the slave (`SlaveOK`: in the mailbox,
  put aside, or read) through the repeat machine (`RepeatOK`: whenever the handler reads on, what was read last was
  handled or is back in the mailbox) to `dispatched`.
* `ErrorsAreInOrder`, with `Concurrent = FALSE`.  `RingOK` gives the place of each error that is not popped by its distance
  from the tail; `RingModulus` does away with the modulo.
* `HandlerUsesPool`: each step of `MailboxIn` is a step of `MbxPool`, so what is proved there holds here
  (`HandlerKeepsPool`).  The invariant `HolderOK` says who holds which mailbox at each `pc`, which is
  why a `dropmbx` or a hand-over is always one that the holder makes.
* `RepliesAreDelivered`.  `DeliverInv` counts: the CoE mailboxes dispatched are those received, the one in the slot and the
  overruns, at any step between them.

The last two need `OneReceiver`, at most one receiver per slave, and that is exact: TLC refutes `OneHolder` and
`DeliveredOrCounted` with two.

### AcyclicMbx and SdoTransfer

`AcyclicMbx` is the transport every mailbox protocol shares: `FirstTry`,
`WaitEmpty` and `Retry` are the two writes of `ecx_mbxsend` with `ecx_mbxempty`
between them, `Receive` takes the reply, repeat requests included.  The slave's
part (`TakeCopy`, `Take`, `PlaceReply`) is external: it recognises a repeated
mailbox by its counter, works on one request at a time and places its reply when
there is room.  `SdoTransfer` adds the caller (`Call`, `Drain`, `Sent`, `CheckInitial`,
`CheckSegment`, `Reject`, `NextSegment`, `Finish`, ...), where the pc labels follow
the code from the drain of line 132 to the returns, and the slave's server.  Upload and download
have the same skeleton, `ecx_SDOread` 117-324 and `ecx_SDOwrite` 343-570; `op` says which
one runs, and the places where they differ are cases (what a reply must be, when the loop ends).
Data are chunks: the first in the initial exchange, the others in segments.  Of the reply to the initial request the code
compares index and, in a download, sub-index, and not the command (ec_coe.c:176-178, 392-395, 465-468): `InitialReply` takes a reply of either kind.

Everything may fail: a request lost in both tries, a request that arrives while
the master believes it lost, a reply lost for good, a timer that expires too
early, an empty pool, a slave that falls silent.  `faults` counts the failures
whose effects may last, and each property names the kinds it needs to be absent, so
the run says what the code's promise rests on:

* `UploadIsWhole`: needs that no reply is lost or late, and that at most one acknowledge is lost.  Without the first condition, the
  toggle bit flips although the segment was lost, and the next segment is taken for
  it (the upload has a hole); without the second, a reply of an earlier call for another
  sub-index is accepted, as only the index is compared and the mailbox counter, the
  "session handle", is not.  Two lost acknowledges leave two replies with the slave when the next call drains one,
  which comes to the same (TLC shows it with `MaxFaults = 3`).
* `DownloadIsWhole`: needs that no request is delivered that the master takes for lost, and that
  at most one is lost: the toggle bit catches one lost segment, two cancel out.  With a mailbox counter of two values
  one lost request is enough: the segment behind it then has the counter the slave saw last and passes for a copy.
* `TransferEnds`: or the slave has fallen silent.  With a silent slave the loop of
  `ecx_SDOread` never returns: its condition (ec_coe.c:216) stays as it is when a segment
  is not answered.

Bounds: objects of 1 and 4 chunks, sub-indices of one index, so that the index check
cannot tell them apart; one failure at a time, of any kind and at any place, in any number of
calls one after the other; counters 1 to 3, which tells neighbours apart as 1 to 7
does.  Fairness: the thread inside a call goes on, and a slave that is not silent
works.  Assumed: the slave is in PRE_OP or above and has mailboxes, no emergency or EoE message
comes in between, the mailbox `SDOp` points to keeps its content after it was handed over, the
replies are those of a conforming slave.

Proved in `SdoTransfer_proofs`, for every dictionary and size of its objects, any number of calls and failures of the kinds the properties
allow, and slaves that fall silent at any time: `UploadsAreWhole` and, for a counter of more than two values,
`DownloadsAreWhole`.  The run has one failure at a time; the theorems have no such bound.  The invariant has four layers:

* `Types`: which mailboxes are in hand where (`PlaceTypes`), and what the server may hold.
* `Counted`: replies under way, and a request not yet seen, number at most the acknowledges lost, and one more while an
  exchange is open (`Loads`); a call begins with none lost (`FirstAcks`).  This is why `BeginCall` may
  take the faults back, and why a slave that is stuck with two replies (`NotStuck`) takes two lost acknowledges.
* `Uploading`: in the initial exchange all that is under way is about the object of the call (`UploadBegun`); after it, what the master has in hand,
  the slave's mailbox and its work hold the chunks that follow `got`, in this order (`Reading`).
* `Downloading`: at each segment the server has stored it (`Taken`), expects it (`Early`), is one behind because a request was lost
  (`Behind`), or has refused (`Broken`), and does not return from the last two within the call.  `DownloadNext` works in `Early` only.

### MbxCall and the protocols of Transfers

`MbxCall` has what the other calls share: `Begin` and `Drain`, `Post` (`ecx_getmbx` and
`ecx_mbxsend`), `AwaitReply` (drop the reply before, read the next), `Conclude`, `GiveUp`, `Finish`,
`Return`.  `op` is the function that runs, `got` what is in the caller's buffer, `wkc` whether the call
reports success.  Except in `ec_coe.c` nobody looks whether `ecx_getmbx` found a mailbox; with an
empty pool these calls write through a null pointer, `pc = "crashed"`.

* `FoeTransfer`: `TakePacket` and `RefusePacket` are the branches of `ecx_FOEread`'s loop,
  `SendPacket`, `NextPacket`, `SameAgain` (BUSY), `BusyAtOnce` and `FoeRefused` those of `ecx_FOEwrite`.
  The file server is external.
* `SoeTransfer`: `WriteFragment`, `FragmentTaken` and `FragmentStuck` (the wait for an empty mailbox
  instead of an answer), `WriteGoesOn` (on to the next fragment although this one
  failed); `ReadIDN` and `CopyFragment`.  The drive is external.
* `EoeFragments`: `SendFragment` cuts a frame to blocks of 32 octets, `ReceiveFragment`
  (`ecx_EOErecv`) and `ReadFragment` (`ecx_EOEreadfragment`, which keeps what it has between calls) put it
  together; getting and setting the IP parameters.  The Ethernet stack of the slave is external.
* `Dictionary`: `ecx_RxPDO`, `ecx_TxPDO`, `ecx_readODlist` with its fragments, `ecx_readODdescription`, `ecx_readOE`,
  which goes through all subindices (`EndEntry`).
* `PdoMap`: `ecx_readPDOmap` and `ecx_readPDOmapCA` with what they call.  A transfer of
  an object is one step here, with what it does to the mailboxes: it drains one, and either succeeds (`Answered`), or fails because
  something is lost, late or taken for something else (`ReadFails`), or finds the pool empty behind the drain (`ReadKeeps`).  `ecx_SDOread` then returns
  the result of the drain and never drops the mailbox that it drained (ec_coe.c:132-134); with one, the caller believes that it has
  read, and the variable is 0.  `todo` are the reads of the nested loops that are known to come.
  It includes the corrections for slaves that name their sync managers wrong.  Not part of it: an object that an empty pool cuts short between
  two segments (`NoMailbox` of `SdoTransfer`), and the mailbox counters of the reads.

`Transfers` puts them over one pair of mailboxes.  An application calls some of the functions one
after the other, so that what a call leaves behind, a late reply or an unfinished list, file or frame, meets
the next one.  It gives up after `MaxFailed` calls without result, when the slave has fallen silent in a
call, and when a mailbox was dropped twice, for then the ring of the pool is corrupt.  `transfers` shows:

* `FoeIsWhole`: a file read or written with success is whole, even when requests and
  acknowledges are lost and the server is busy, if no reply is late.  A BUSY to the request or
  to the final empty packet ends a write as a success (ec_foe.c:334): `~busy.ends`.
* `SoeWriteIsWhole`: needs that no request is lost: fragments are sent on after
  one that failed.
* `FramesAreWhole`: what is received is a frame that was sent, unmixed, whatever is lost.  A time
  stamp that found no room is dropped with four bytes before it (ec_eoe.c:510-526): `~cut`.
* `DictionaryIsTrue`: the lists, descriptions, entries and PDOs that calls report as read are those asked for, if no reply is
  late and the pool was never empty: replies are compared by their opcode only, and a drain without a mailbox drains nothing.
* `CoeIsTrue`: an RxPDO reported as sent has arrived.  The sizes of outputs and inputs are
  the slave's if every read succeeds, and never larger in sum; a lost read, or one without a mailbox,
  makes them smaller or exchanges them and the call succeeds all the same.  A late answer is left out, for it may be taken for the next one.  `TypesKnown`: with complete access
  unknown types are not corrected.
* `NoMailboxKept`: between calls the pool has `PoolSize + doubled - kept` mailboxes, exactly, whatever fails.  The doc of
  `ecx_mbxreceive` (ec_main.c:1592-1593) says that the caller is owner of the mailbox and should drop it when finished, so once.  There are two
  places where the code does not, and the two histories count what happens there: `doubled`, because `ecx_TxPDO`, `ecx_readODlist`,
  `ecx_readODdescription` and `ecx_readOEsingle` drop a drained mailbox and keep its pointer (ec_coe.c:643, 1062, 1189, 1281), and
  drop it again before they read the reply (660, 1092, 1212, 1306), so that `listcount` becomes one too large and the ring lists the mailbox twice; and `kept`, because an
  `ecx_SDOread` that finds the pool empty keeps what it has drained.  TLC reaches both (an application of the run mixes `ecx_readPDOmapCA` with
  `ecx_readODdescription`, so that there is something to drain).  Every other mailbox goes back exactly once.

`transfers_end`: `CallEnds`, every call of these protocols ends, whatever is lost, the slave included.
Fairness: the thread goes on, the slave works as long as it is not silent.  `soe_read` is a finding:
`ecx_SoEread` computes `mp` before the response is there (ec_soe.c:109) and copies from next to address 0, or
from a mailbox that went back to the pool.

Bounds: items of one mailbox and a bit (4 bytes of 3) and of two full ones (6), buffers that are large enough and not,
blocks of 2 bytes, one failure at a time of every kind, two failed calls in a row, one BUSY.  `MaxFailed`
is less than it takes for the counter of a mailbox or the number of a frame to come round; beyond it TLC finds
requests taken for copies and fragments of two frames mixed.  `transfers_end` has one item.  The dictionaries of `MCMappings` are
one correct slave and one of each kind the code corrects or cuts off.

Proved in `Transfers_proofs`, for every application, set of items and their sizes, size of the pool and of the mailboxes, any faults and
any number of calls:

* `CallsKeepNoMailbox` (`NoMailboxKept`).  `HandsOK` says at which places the caller holds a mailbox to send or one received, `PoolOK` that
  what it holds and what is free are together the pool, plus `doubled` and less `kept`; between the drain of a call of CoE and its request the caller has
  a pointer to a mailbox that is free again (`InfoDropped`), which does not count.
* `FilesAreWhole` (`FoeIsWhole`), if `MaxFaults > 0`: with a bound of 0 the history of faults cannot note that a reply was late.  `FoeInv` is about
  calls in which nothing is late (`CalmCall`).  `FoeFlight`: the slave has the last request (`FoeAsked`) and no reply is under way, or
  it has answered, and there is at most one reply; any other request in its mailbox is a copy.  A call begins so, because the slave is idle (`BeginGeneral`) and
  the reply that is left is drained, and what other protocols of the slave still send is no reply of FoE (`OthersServe`).  `FoeReadOK`: the caller has the packets
  up to `packet`, and the one under way is the next.  `FoeWriteOK`: while the last packet is not taken, or was answered with BUSY, the slave has what was
  before it (`HasBefore`); once it is acknowledged, also that packet, or the slave has closed the file with it (`HasAfter`).
* `DictionaryReadsAreTrue` (`DictionaryIsTrue`), on the same premise.  `InfoInv` is about calls in which nothing is late and the pool was never
  empty (`InfoCalm`).  `InfoFlight`: the slave's mailbox has no request but that of the call, and when the drain has ended nothing of
  the dictionary is under way (`NoInfo`), so all replies from there on are to this request (`RepliesOK`).  A list comes in many:
  `ListFlow` says that the fragment in hand, the one in the mailbox, the one in work and those still to be sent follow one
  another from `moved` on, and `InfoGot` that the table has the indices of the fragments taken (`Seen`).  `FreeOfLists`: while entries are read
  one by one no list is under way, so the drain of the next entry leaves nothing that comes later.
* `FramesArriveWhole` (`FramesAreWhole`), late replies included.  For the receivers the fragments under way are a stream (`StreamFrom`): the one in the
  slave's mailbox, the one in work and what is left to send follow one another, and every step of the slave or the master leaves the
  caller at a place in it (`Upcoming`).  A call of `ecx_EOErecv` that loses a fragment fails at once, so what it has is what came before its place (`RecvOK`).
  `ecx_EOEreadfragment` goes on after a loss: the slave is then at a later fragment of the same frame, which the offset shows, or at one of the
  next frames, no more of them than calls have failed (`Along`), so its number cannot be that of the frame begun.  For the sender
  `SendOK` is about what the slave has once it has taken the fragment in its mailbox (`StackThen`, `DeliveredThen`): before a fragment is placed the
  part sent so far, then that fragment too; and the counter of a request that got lost is less than a round ahead of the newest one the slave knows
  (`Behind`), so that no fragment passes for a copy.  Both rest on `MaxFailed` (calls that fail in a row) below the number of counters and of frame numbers, and on
  an application that, if it sends frames or reads them a mailbox at a time, makes no other calls: with
  two functions in turn each success of the one starts the count of failures anew, and TLC finds a frame mixed or
  missing for `{"eoesend", "eoerecv"}` and for `{"eoesend", "eoeread"}` once numbers have come round.

### IOMap and ProcessData

`IOMap` is `ecx_main_config_map_group` for group 0: three loops over the slaves (`pass`),
which place outputs, inputs and mailbox status bytes (`AddSlave`, `MapMbxStatus`), close
a segment the next slave does not fit into (`Closes`), cut slaves larger than a segment
(`CutSegment`) and count the working counter to expect (`CountWKC`).  `ProcessData`
extends it.  `SendProcessdata` and `SendDatagram` are the call of `ecx_send_processdata_group` and
one turn of its loops, by LRW or by LRD and then LWR; `ReceiveProcessdata`, `ReceiveFrame`,
`MissFrame` and `EndReceive` are `ecx_receive_processdata_group`.  `idxstack` and `pulled` are the
index stack, `used` the buffers that are not `EMPTY`.  A byte of the image is a record of the
place it belongs to and the write or the cycle it stems from.  The slaves' part, `Reply`
and `Hit`, is external: a slave counts one when it is read and two when it is
written in an LRW, at most once per datagram.

`process_data` takes every network of two slaves whose outputs and inputs are
empty, fill a segment, fit into what is left or need several, with LRW or without,
with the clock or without; it maps the image, then sends up to twice, with up to one lost frame
per cycle, failing `send()`, receives that find nothing, and application writes anywhere.  It shows:

* `ExpectedWkcReached`: the counter of a complete cycle is `2 * outputsWKC +
  inputsWKC`, and `FreshWhenExpected`: that counter means fresh inputs.
* `OutputsKept`: the image keeps the outputs the application wrote.
* `ImageSentOnce`: the datagrams of a cycle cover the image, once, and each fits into a frame
  (`FramesFit`).
* `BuffersOnStack`: no buffer is forgotten, even when the stack is full.

Their premises are places where the code does not keep the promise; TLC refutes each property
without its premise:

* `SegmentsEnough`: a table of segments that is full stops the mapping of the status bytes short, and addresses behind
  it are in no segment (ec_config.c:1228-1236).  With 64 segments, as in the code, the run does not fill it;
  with two (`MaxSegments = 2`) TLC refutes `ImageSentOnce` and `ExpectedWkcReached` without the premise.
* `NoCutBehindFull`: behind a segment that is exactly full, a slave too large for
  the next is counted in the full one too (ec_config.c:1117-1123), so
  the expected counter is one that no cycle reaches.
* `StatusBesideInputs`: the status byte of a slave with inputs is not counted
  (ec_config.c:1056), but when it lies in another segment the slave counts
  twice, and a lost frame of inputs goes unnoticed behind the expected counter.
* `StatusIsAsked`: with LRD and LWR the status bytes are read only as far as the
  last input segment holds them, and not at all without inputs, but they are expected.
* `~blockLRW` in `FramesFit`: the room for the clock is kept in segment 0, while
  the first frame is then the LRD of segment `Isegment`.
* one send per receive: the second clock frame assigns the counter (line 2633), and
  without a clock the frames of the first send make up for lost ones of the second.
* `hist.overrun`: with more datagrams than buffers an index in use is taken again, and a
  reply is copied to the place of another datagram.  For the outputs that is `hist.crossed`: bytes in the wrong
  place stay there until the application writes its outputs, over any number of cycles.
* `hist.early`: an LRW frame is copied back whole, over outputs written since the send.

Proved for every set of networks, size of frames and of the table of segments, number of buffers, cycles and
losses: `MapTypesCorrect` (`MapTypeOK`), `NoBufferIsForgotten` (`BuffersOnStack`) and `OutputsAreKept`
(`OutputsKept`).  The invariant:

* `MapOK`: the offset of the inputs in their first segment is within that segment, however it is closed (`OffsetOK`), so that no
  datagram has a negative length.
* `StackOK`: the places of the stack are buffers that follow one another round the ring (`InTurn`).  The next one is
  therefore free as long as the stack is not full (`PushInTurn`), and a full stack has all buffers (`FullStack`).
  That is why nothing is forgotten when the push fails.
* `WireOK`: a frame on the wire is described by a place of the stack that is not pulled yet, unless a buffer was taken twice, and an LRW
  frame carries the outputs as they are in the image, unless the application wrote since.  `FrameOfTop`: receive then
  copies a frame only to where it was cut from.
* `ImageOK`: `OutputsKept` during calls too.

`ImageIsSentOnce` (`ImageSentOnce`) is proved in two layers.  The layout: `FitOK` says that no segment is larger than
what its datagram may carry, the clock included in the first one; `LayoutOK` that there is a function of the ends of the segments
(`Ends`; a function that exists, because what a recursive definition computes is out of the prover's reach), whose last value
is the size of the image and which meets the inputs at `Isegment` and `Ioffset`.  The datagrams: `PlaceOK`
says that the next one starts where segment `currentsegment` does (LRD: or the inputs) and that `length` is
what is left of its command, and `AskedOK` that the frames so far cover all addresses up to there, each by one frame (`Covered`).
`CoveredMore` adds a frame at the end, and `Advance` says that the last turn of the loop ends at the end of
the image, of the inputs or of the outputs.  `FramesOK` is about the size of frames.

Bounds: a segment of 5 bytes, 2 for the clock, 5 buffers where the code has 1486, 20 and
16: the largest images overrun the stack with one send, smaller ones with two.  With two cycles TLC
sees little of what an overrun leaves behind; `OutputsAreKept` covers any number of them (and `MaxBuf = 4`,
`MaxCycles = 3`, `MaxLost = 0` lets TLC see it).  One thread works here, as `SoemMaster`
assumes; what other threads do to the buffers is in `NicDrv`.  A frame later than its timeout
finds its buffer `EMPTY` and is dropped.

### Bus, SlaveState, Eeprom and Slaves

`Bus` is what the datagram primitives do to devices: `wire` are the devices in the order of
the frame, `reg` their registers; `Everyone`, `Configured(a)` and `Position(s)` are whom a datagram reaches,
`Ways` whether its frame is lost before or after the devices.  The devices (`Obey`, `Refuse`, `FallBack`, and
being unplugged, plugged in, swapped for a stranger or restarted) are external.

`SlaveState` is `ecx_readstate` (the broadcast, then groups of `ecx_FPRD_multi`), `ecx_writestate`,
`ecx_statecheck`, `ecx_recover_slave` with its temporary address, and the state changes of
`ecx_reconfig_slave`.  One datagram is one step.  `Eeprom` is reads and writes by address and by position, the reads of
several slaves in parallel (`ecx_readeeprom1` and `2`), the hand-over between master and PDI, and the
byte cache of `ecx_siigetbyte`.  The EEPROM is external: it may be busy for any time and refuse a
command.  `Slaves` lets an application call some of these functions.  `slaves` shows:

* `NoStrangerAddressed`: who has the address of a slave passes for it (`PassesFor`): alias, product, vendor and revision
  are asked one after the other, each over frames of its own (`Identify`), and each agrees or may be mistaken (`Mistakable`).  An
  answer that is lost is no refusal: `ecx_FPRDw` returns 0 (ec_base.c:341-348), which is what most slaves have as alias, so one lost
  frame is enough for a device with another alias to take the address.  An EEPROM that refuses reads as 0 too, without any
  loss, and a word whose command was lost reads as the one before it.  For a device that does not even pass, `Traceable`: it takes two
  lost frames, or one that comes back with the temporary address.  The stranger of the run differs from slave 1 in its
  alias alone, so TLC reaches the mistake.  A slave that is left with the temporary address is not
  recovered: `ecx_recover_slave` looks for address 0 only.
* `ReportedStateWasSeen`: a slave that a call reports in a state was in it during the call, or a device that passes for it was.
  `~absent`: `ecx_statecheck(0)` does not look at the working counter (ec_main.c:1068); `~strange`: the
  broadcast counts devices and not slaves.
* `EepromIsTrue`: a read that the EEPROM answers returns exactly the words asked for, one that it refuses (three commands in
  a row not acknowledged, or busy until the timeout) returns 0, a successful write has written, and a word in the cache is that
  word of its slave, at its place.  For a refused read the doc of `ecx_siigetbyte` (ec_main.c:524) says 0xff "if not
  available", but the code (556-583) enters the zeros into the cache like words that were read and marks them as there, so the byte
  is 0, then and in later calls; `refused` is the history that tells these words, and the property says that they are 0 and no others
  are.  All this needs no lost frame.  After one there is no promise: a lost status frame reads as "ready", and a lost read of data as
  zeros, which the cache keeps; the premise is `lost = 0`.  `ecx_readeeprom2` cannot tell an EEPROM that refused.  A write
  does not renew the cache, so a cached word is one of an earlier time.

All three are proved in `Slaves_proofs`, for every number of slaves, strangers and words, every size of the groups and any calls, while
devices change state and are plugged and restarted at any time.

* `EepromReadsAreTrue` (`EepromIsTrue`) rests on `EepromInv`.  `InterfaceOK`: what the interface of a slave has latched is a word of
  the slave as it is, unless a call is between writing the value and the command.  `CommandOK`: from the command on the interface has the word and the kind of this
  call.  `AnswerOK`: what the call has collected so far is what it will return.  `CacheOK`: a word that the map of the cache marks
  is that word of `esislave`, erased behind the end of its EEPROM, and 0 if it was refused.
* `RecoverKeepsIdentities` (`NoStrangerAddressed`) rests on `AddressInv`, which counts.  `GiveAddress` writes to every device with the temporary
  address, so the invariant is about how a second one could have it: it got it in an earlier call, and missed the clearing because a frame
  was lost or because it was away.  `WiringOK` says how many changes of the wiring are behind devices without a slave's address,
  `BeforeOK`, `LeftoverOK` and `AfterOK` where the call is and what the changes and losses left are enough for.  `TakenBy` goes through the identification
  with the call: the fields that were asked (`Asked`) agree or may be mistaken.  With two losses or
  four changes the last step fails, and TLC shows the second device.
* `ReportsAreOfItsKind` (`ReportedStateWasSeen`) needs `AddressInv` too: what answers to the address of a slave passes for it, so a state that is
  reported (`SeenOK`) was seen in such a device during the call.  Where no device can pass for another whatever is lost (`NoTwins`: each differs in a field that is not
  0 and not another word of its own), `ReportsAreTrue` says that it was the slave itself.
  For the broadcast the count of slaves decides: that many devices and no stranger are all slaves.

Bounds of the run: two slaves and a stranger, groups of one, two changes of the wiring, one lost frame; two words of
EEPROM; slave 2 has a revision of 0; recoveries and reconfigurations are mixed for slave 1, and of both slaves each kind alone.
No liveness: how long anything takes is the timers' and the devices' choice.

### Topology and DistributedClocks

`Topology` describes wirings (a tree, the ports of its branches, cables, local clocks) and has `ScanSlave`, a turn of
the loop of `ecx_config_init` with its parent search.  `DistributedClocks` is `ecx_configdc`, a slave
at a time (`ClockSlave`, `NoClockSlave`), then `ecx_dcsync0` and `ecx_dcsync01` with their datagrams, any of which
may be lost.  The times that ports latch follow from the wiring (`Arrival`, `Latched`) and are external, in signed numbers of
`HalfTime`.

`dc` goes through every tree of up to four slaves with every choice of clocks, and trees of five with clocks everywhere:

* `ParentIsTrue`: the parent search finds the slave each one hangs on, if no answer is lost.
* `DelayIsTrue`: the delay is the time from the first clock to the slave, against the cables.
  `SplitsHaveClocks`: behind a split without clock, ports are consumed for branches they do not belong
  to; `NoTimeWraps`: port times are compared as signed numbers.
* `SyncInPhase`: slaves with the same cycle fire together, whenever they were started, if
  no datagram is lost.  `CyclTime0 = 0` divides by zero in `ecx_dcsync01`; the model does not call it so.

### SoemMaster

One call of the class is one step, because the class is for one thread.  The
native context is represented by the handles that must be released
(`poolmutex`, `queuemutex`, `sockhandle`), by `mapped`, the map the
group's pointers lead into, and by `image`, the bytes behind them.  `size` is what `ConfigMap` was given and allocates; the
wrapper drops it (soem_wrapper.c:118) and `ecx_config_map_group` has no bound, so any image may come out of any size.  `released[o]` counts how
often an object was destroyed, `touched` are the bytes of maps the last call read or wrote through
native pointers, `pending` those that outstanding replies will be copied into.

Nothing in the code enforces the order of calls in the repository's README.  The model does not either: `liberties` are what
a caller takes that is not that order, every subset of them is an initial state, and each property names the ones it does not survive:

* `"unscanned"`: Init, ConfigInit, Close, Init, Close destroys the queue mutexes twice, because `ecx_close` leaves their
  pointers behind (ec_main.c:260).
* `"rescan"`: `ConfigInit` a second time in one life, which the code allows and the doc of `SlaveCount` ("the last ConfigInit call")
  suggests.  `ecx_init_context` zeroes the groups (ec_config.c:47) with the mutexes of the transmit queues in them and creates new
  ones: the old mutexes leak, on every rescan (`dropped`).  It also zeroes the pointers into the map.
* `"unmapped"`: an exchange while `IoMap` is empty.  After a `ConfigMap` that threw (the size is negative or too large), or after Close and
  Init, the native side still has the pointers into the map that was released, and the exchange goes through them.
* `"oversized"`: an exchange although `ConfigMap` returned more bytes than it was given.  The exchange then reads and writes behind
  the pinned array, and only the caller can prevent it, by that comparison.
* `"inflight"`: `ConfigMap` or `Close` between `SendProcessdata` and `ReceiveProcessdata`.  Replies are then copied into the released map.

`Close` before `Init` would destroy a null mutex and close descriptor 0; `_initialized` prevents it.  `master` shows, for every caller:

* `ReleasedOnce`: the null mutex and descriptor 0 are never released, and nothing twice without `"unscanned"`.
* `NothingLeaks`: what is not released still can be, whatever liberties are taken.  Lost are what a failed `Init` created (`failed`: the
  pool's mutex and perhaps a socket, since `Dispose` closes only what `_initialized` says is open, SoemMaster.cs:416, and the next `Init` forgets
  them) and the mutexes of a rescan (`dropped`), and nothing else.
* `ExchangeUsesIoMap`: without `"unmapped"` and `"inflight"`, an exchange touches the map that `IoMap` shows and that is pinned, and
  stays within its bytes without `"oversized"`.  It survives `"rescan"` and `"unscanned"`.

Without the exception for any one of these liberties TLC refutes the property that names it.

Proved for any number of objects, maps and bytes and every caller: `TypeCorrect`, `ExchangeIsSafe` (`ExchangeUsesIoMap`),
`MasterLeaksNothing` and `MasterReleasesOnce`.  The invariant says which handles an open
master has (`OpenHasHandles`), that only an open one has anything unreleased (`OnlyOpenOwns`), and that the managed map, its
pin and the native pointers are one map or null, within which the extents under way lie (`OneMap`).

Bounds: 7 native objects are two lives of a master with a scan each and one object more, so that a rescan, a second Init without a scan or a
failed Init fits; 3 maps allow a second map in one of the lives; sizes of up to 2 bytes let an image be smaller than its map, equal and
larger.  The master may stop after `Dispose`, so this run does not check deadlock.

## What is only model-checked

Everything but the theorems of the eight proof modules:

* liveness (`ExchangeEnds`, `SentInTheEnd`, `TransferEnds`, `CallEnds`), which is out of the prover's reach;
* `ExpectedWkcReached` and `FreshWhenExpected`: they compare counts of slaves with the replies of several
  frames, sums over slaves and frames that take induction over data;
* the type invariant of `SdoTransfer` in full: that the pool does not run below 0 depends on the sum of all failures
  (`Failures`), a fold.  `Types` in `SdoTransfer_proofs` has the rest of it;
* `SoeWriteIsWhole`: it depends on the counters of mailboxes not coming round within a call that sends on after fragments
  that failed, which takes the number of them in all calls since the last that the slave took, a sum again;
* `CoeIsTrue`: the sizes of process data are sums (folds), and that an RxPDO reported as sent has arrived depends on the
  counters of mailboxes not coming round;
* the properties of `DistributedClocks`: the reference for delay and parent is a recursion over the tree.

The theorems hold under the assumptions named with them, on constants that stand for what the code leaves open: `SendFails`, `Preempt`,
`Concurrent`, `OneReceiver`, `MaxAge`, and `MaxCnt` (7 in the code).  For each of them TLC has a counterexample without it.

A note for who extends the proofs.  The SMT backend of tlapm 1.4.5 takes `Len(s) = n` for `DOMAIN s = 1 .. n` and a natural number whatever `s`
is, so a leaf that has both `Len` and a function with another domain (the error ring, the ends of the
segments) may follow from a contradiction.  All proofs here were also checked with these axioms replaced by ones that require `s` to be
a sequence; leaves that passed only with the former were rewritten.  A leaf that uses `Len` cites that its argument is a sequence.

## Not modelled

* The redundant mode of the frame layer: the wrapper opens one port.
* The overlapped process image, which the wrapper cannot select, and packed mapping (`ecx_config_map_group` with a bit alignment).
* The search in the SII (`ecx_siifind`, `ecx_siistring`, `ecx_siiFMMU`, `ecx_siiSM`, `ecx_siiPDO`) and the mapping it gives:
  parsers without state of their own.  Two things a reader may like to know: `ecx_siifind` follows section
  lengths without an end when they wrap, and `ecx_siigetbyte` fills beyond its buffer when a read begins within its last bytes.
* Identification in `ecx_config_init`, the mapping of PDOs to sync managers and FMMUs, init commands of an ENI: one
  write after the other, whose results later calls read.
* `ecx_readIDNmap`: sums of attributes of two reads.
* Emergencies, mailbox errors and frames for the EoE hook in the middle of an acyclic `ecx_mbxreceive`.  The
  loop goes on with a null pointer then (ec_main.c:1678), see the hazards.
* Adapter enumeration, library loading, managed declarations, the OS layer, tables of text, samples: input and
  output, or declarations.

## Plan

1. Proofs: the working counters of `ProcessData`, if the sums can be stated without induction, and the rest of `Transfers`.
2. The receive loop of the acyclic mailbox with emergencies in between.
3. The packed image, and identification in the scan.
