----------------------------- MODULE SoemMaster -----------------------------
(***************************************************************************)
(* The life of a master object: the class SoemMaster                       *)
(* (src/Soem.Net/SoemMaster.cs) over the native context that               *)
(* native/soem_wrapper.c allocates for it.                                 *)
(*                                                                         *)
(* The object owns native resources (the mutex of the mailbox pool, the    *)
(* mutexes of the mailbox queues, a raw socket) and pinned managed memory  *)
(* (the I/O map).  Init, ConfigInit, ConfigMap, Close and Dispose create   *)
(* and release them; SendProcessdata and ReceiveProcessdata use the        *)
(* pointers that ConfigMap left in the native context.  One call is one    *)
(* step.  The queue mutexes of the groups are created and destroyed        *)
(* together and are one object here.                                       *)
(***************************************************************************)
EXTENDS Integers, FiniteSets

CONSTANTS
  MaxObjects,  \* bound on the mutexes and sockets that are created
  MaxMaps,     \* bound on the I/O maps that are allocated
  MaxBytes,    \* bound on the sizes of I/O maps and process images
  InitFails    \* whether Init may return false

ASSUME SoemMasterAssumption ==
  /\ MaxObjects \in Nat /\ MaxMaps \in Nat /\ MaxBytes \in Nat
  /\ InitFails \in BOOLEAN

(* Zeroed memory: a NULL mutex, and the descriptor 0, which belongs to the *)
(* process and not to this object.                                         *)
Null == 0
Objects == 1 .. MaxObjects
Maps == 1 .. MaxMaps
NoSocket == -1

(* What a caller may do although it is not the use that the README and the *)
(* comments of the class describe.  Nothing in the code prevents any of it:*)
(* "unscanned"  Close or Dispose after an Init, with the mutexes of a scan *)
(*              before that Init;                                          *)
(* "rescan"     ConfigInit a second time, without Close between;           *)
(* "unmapped"   an exchange while IoMap is empty;                          *)
(* "oversized"  an exchange although ConfigMap returned more than the size *)
(*              it was given;                                              *)
(* "inflight"   ConfigMap or Close between an exchange's send and receive. *)
Liberties == {"unscanned", "rescan", "unmapped", "oversized", "inflight"}

VARIABLES
  liberties,  \* those that this caller takes
  disposed, initialized,  \* _disposed and _initialized
  iomap,      \* _ioMap, or Null
  pinned,     \* the map _ioMapPin pins, or Null
  size,       \* _ioMap.Length, the ioMapSize of the last ConfigMap
  context,    \* whether the native context is allocated
  poolmutex,  \* mbxpool.mbxmutex
  queuemutex, \* grouplist[].mbxtxqueue.mbxmutex
  sockhandle, \* port.sockhandle
  slaves,     \* whether the last scan found slaves
  mapped,     \* the map grouplist[0].inputs and outputs point into, or Null
  image,      \* bytes of the process image behind these pointers
  pending,    \* extents that replies still under way are copied into (idxstack)
  created,    \* number of objects created so far
  released,   \* released[o]: how often object o was destroyed or closed
  failed,     \* objects that an Init which returned false created (history)
  dropped,    \* mutexes that a second ConfigInit has overwritten (history)
  maps,       \* number of maps allocated so far
  touched     \* extents the last call read or wrote through native pointers

managed == <<disposed, initialized, iomap, pinned, size>>
native == <<context, poolmutex, queuemutex, sockhandle, slaves, mapped, image>>
history == <<failed, dropped>>
vars == <<liberties, managed, native, pending, created, released, history, maps, touched>>

(* The first bytes of a map, from its beginning.                           *)
Sizes == 0 .. MaxBytes
Extents == [map : Maps, bytes : Sizes]

TypeOK ==
  /\ liberties \subseteq Liberties
  /\ disposed \in BOOLEAN /\ initialized \in BOOLEAN
  /\ iomap \in Maps \cup {Null} /\ pinned \in Maps \cup {Null}
  /\ context \in BOOLEAN
  /\ poolmutex \in Objects \cup {Null}
  /\ queuemutex \in Objects \cup {Null}
  /\ sockhandle \in Objects \cup {Null, NoSocket}
  /\ slaves \in BOOLEAN
  /\ mapped \in Maps \cup {Null}
  /\ size \in Sizes /\ image \in Sizes
  /\ pending \subseteq Extents
  /\ created \in 0 .. MaxObjects
  /\ released \in [Objects \cup {Null} -> 0 .. 2]
  /\ failed \subseteq 1 .. created /\ dropped \subseteq 1 .. created
  /\ maps \in 0 .. MaxMaps
  /\ touched \subseteq Extents
  /\ (iomap = Null) = (pinned = Null)

(* The constructor has run: soem_master_create has zeroed the context.     *)
Init ==
  /\ liberties \in SUBSET Liberties
  /\ disposed = FALSE /\ initialized = FALSE
  /\ iomap = Null /\ pinned = Null /\ size = 0
  /\ context = TRUE
  /\ poolmutex = Null /\ queuemutex = Null /\ sockhandle = Null
  /\ slaves = FALSE /\ mapped = Null /\ image = 0
  /\ pending = {} /\ created = 0 /\ failed = {} /\ dropped = {}
  /\ released = [o \in Objects \cup {Null} |-> 0]
  /\ maps = 0 /\ touched = {}

(* ThrowIfDisposed is the first statement of every method.                 *)
Usable == ~disposed

-----------------------------------------------------------------------------
(* The calls of a caller who initializes, scans, maps, exchanges and       *)
(* closes, as often as he likes; the other conjuncts are his liberties.    *)
Takes(liberty) == liberty \in liberties

Scanned == queuemutex # Null /\ released[queuemutex] = 0
MayClose == Scanned \/ queuemutex = Null \/ Takes("unscanned")
Received == pending = {} \/ Takes("inflight")
Fits == image <= size \/ Takes("oversized")

ReleaseIoMap == pinned' = Null /\ iomap' = Null /\ size' = 0

(* MasterInit: ecx_init creates the pool's mutex, ecx_setupnic the socket. *)
InitMaster ==
  /\ Usable /\ ~initialized
  /\ created + 2 <= MaxObjects
  /\ poolmutex' = created + 1
  /\ sockhandle' = created + 2
  /\ created' = created + 2
  /\ initialized' = TRUE
  /\ touched' = {}
  /\ UNCHANGED <<liberties, disposed, iomap, pinned, size, context, queuemutex,
                 slaves, mapped, image, pending, released, history, maps>>

(* The interface cannot be bound, or there is no socket at all.            *)
InitMasterFails ==
  /\ InitFails
  /\ Usable /\ ~initialized
  /\ created + 2 <= MaxObjects
  /\ poolmutex' = created + 1
  /\ \/ sockhandle' = created + 2 /\ created' = created + 2
     \/ sockhandle' = NoSocket /\ created' = created + 1
  /\ failed' = failed \cup (created + 1 .. created')
  /\ initialized' = FALSE
  /\ touched' = {}
  /\ UNCHANGED <<liberties, disposed, iomap, pinned, size, context, queuemutex,
                 slaves, mapped, image, pending, released, dropped, maps>>

(* ecx_initmbxqueue for the groups; a scan in the same life drops the      *)
(* mutexes of the one before.                                              *)
NewQueueMutex ==
  /\ created + 1 <= MaxObjects
  /\ queuemutex' = created + 1
  /\ created' = created + 1
  /\ dropped' = IF Scanned THEN dropped \cup {queuemutex} ELSE dropped

(* Mutant: the scan does not clear the groups of the scan before.          *)
ConfigInitKeeping ==
  /\ Usable /\ initialized
  /\ Scanned => Takes("rescan")
  /\ NewQueueMutex
  /\ slaves' \in BOOLEAN
  /\ touched' = {}
  /\ UNCHANGED <<liberties, managed, context, poolmutex, sockhandle, mapped, image,
                 pending, released, failed, maps>>

(* MasterConfigInit: ecx_init_context zeroes the groups, with the mutexes  *)
(* and the pointers into the I/O map, and creates new mutexes.             *)
ConfigInit ==
  /\ Usable /\ initialized
  /\ Scanned => Takes("rescan")
  /\ NewQueueMutex
  /\ slaves' \in BOOLEAN
  /\ mapped' = Null /\ image' = 0
  /\ touched' = {}
  /\ UNCHANGED <<liberties, managed, context, poolmutex, sockhandle, pending,
                 released, failed, maps>>

(* ConfigMap: ReleaseIoMap, a new pinned map, and the group's pointers     *)
(* into it, which stay as they are when there are no slaves.  How large    *)
(* the image is depends on the slaves; the wrapper drops the size of the   *)
(* map, and nothing compares the two.                                      *)
ConfigMap ==
  /\ Usable /\ initialized /\ Received
  /\ maps < MaxMaps
  /\ maps' = maps + 1
  /\ iomap' = maps' /\ pinned' = maps' /\ size' \in Sizes \ {0}
  /\ IF slaves THEN mapped' = maps' /\ image' \in Sizes
     ELSE UNCHANGED <<mapped, image>>
  /\ touched' = {}
  /\ UNCHANGED <<liberties, disposed, initialized, context, poolmutex, queuemutex,
                 sockhandle, slaves, pending, created, released, history>>

(* The new map cannot be allocated: the old one is released already.       *)
ConfigMapThrows ==
  /\ Usable /\ initialized /\ Received
  /\ ReleaseIoMap
  /\ touched' = {}
  /\ UNCHANGED <<liberties, disposed, initialized, native, pending, created, released,
                 history, maps>>

(* The outputs are copied into frames; the reply is to be copied back to   *)
(* where they came from.                                                   *)
SendProcessdata ==
  /\ Usable /\ initialized
  /\ IF iomap = Null THEN Takes("unmapped") ELSE Fits
  /\ mapped # Null
  /\ touched' = {[map |-> mapped, bytes |-> image]}
  /\ pending' = pending \cup touched'
  /\ UNCHANGED <<liberties, managed, native, created, released, history, maps>>

(* Replies that do not come within the timeout are given up.               *)
ReceiveProcessdata ==
  /\ Usable
  /\ touched' \in SUBSET pending
  /\ pending' = {}
  /\ UNCHANGED <<liberties, managed, native, created, released, history, maps>>

-----------------------------------------------------------------------------
(* ecx_close destroys the queue mutexes that are not NULL, the pool's      *)
(* mutex, and closes the socket, and leaves their values in the context.   *)
Handles ==
  (IF queuemutex = Null THEN {} ELSE {queuemutex})
    \cup {poolmutex}
    \cup (IF sockhandle = NoSocket THEN {} ELSE {sockhandle})

Once(n) == IF n < 2 THEN n + 1 ELSE n

(* Mutant: the socket stays open.                                          *)
EcxCloseKeeping ==
  released' = [o \in Objects \cup {Null} |->
                 IF o \in Handles \ {sockhandle} THEN Once(released[o])
                 ELSE released[o]]

EcxClose ==
  released' = [o \in Objects \cup {Null} |->
                 IF o \in Handles THEN Once(released[o]) ELSE released[o]]

Close ==
  /\ Usable /\ initialized /\ Received /\ MayClose
  /\ EcxClose
  /\ initialized' = FALSE
  /\ ReleaseIoMap
  /\ touched' = {}
  /\ UNCHANGED <<liberties, disposed, native, pending, created, history, maps>>

(* Mutant: Dispose closes the native master although Close has done so.    *)
DisposeAlways ==
  /\ Usable /\ (initialized => MayClose)
  /\ disposed' = TRUE
  /\ ReleaseIoMap
  /\ EcxClose
  /\ context' = FALSE
  /\ touched' = {}
  /\ UNCHANGED <<liberties, initialized, poolmutex, queuemutex, sockhandle, slaves,
                 mapped, image, pending, created, history, maps>>

(* Dispose closes only what Init reported as open, and frees the context.  *)
Dispose ==
  /\ Usable /\ (initialized => MayClose)
  /\ disposed' = TRUE
  /\ ReleaseIoMap
  /\ IF initialized THEN EcxClose ELSE UNCHANGED released
  /\ context' = FALSE
  /\ touched' = {}
  /\ UNCHANGED <<liberties, initialized, poolmutex, queuemutex, sockhandle, slaves,
                 mapped, image, pending, created, history, maps>>

Next ==
  \/ InitMaster \/ InitMasterFails \/ ConfigInit
  \/ ConfigMap \/ ConfigMapThrows
  \/ SendProcessdata \/ ReceiveProcessdata
  \/ Close \/ Dispose

Spec == Init /\ [][Next]_vars

-----------------------------------------------------------------------------
(* Every mutex is destroyed and every socket closed at most once, and only *)
(* what Init and ConfigInit created: no NULL mutex, no descriptor of       *)
(* somebody else.  Unless the caller closes what he opened again without a *)
(* scan: ecx_close then destroys the mutexes of the life before again.     *)
ReleasedOnce ==
  /\ released[Null] = 0
  /\ ~Takes("unscanned") => \A o \in Objects : released[o] <= 1

(* A mutex or a socket that is not released yet can still be: the native   *)
(* context is there and refers to it, so that Close or Dispose finds it.   *)
(* The exceptions are what an Init that returned false has created (Dispose*)
(* passes it over, and the next Init forgets it), and the queue mutexes    *)
(* that a second ConfigInit in one life has zeroed.                        *)
NothingLeaks ==
  \A o \in (1 .. created) \ (failed \cup dropped) :
    released[o] = 0 =>
      context /\ o \in {poolmutex, queuemutex, sockhandle}

(* Process data goes to and comes from the map that IoMap shows, and that  *)
(* map is pinned: if the caller leaves the exchange alone while there is   *)
(* no map, and receives what he has sent before he maps anew or closes.    *)
(* It stays within the bytes of the map if he also compares what ConfigMap *)
(* returned with the size that he gave it, for nothing else does.          *)
ExchangeUsesIoMap ==
  liberties \cap {"unmapped", "inflight"} = {} =>
    \A e \in touched :
      /\ e.map = iomap /\ e.map = pinned
      /\ e.bytes <= size \/ Takes("oversized")

=============================================================================
