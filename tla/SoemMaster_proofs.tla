------------------------- MODULE SoemMaster_proofs -------------------------
(***************************************************************************)
(* Proofs about the life of a master object, for every number of objects   *)
(* and maps and every caller: what the exchange touches are the bytes of   *)
(* the map that IoMap shows, nothing that Init reported as open is leaked, *)
(* and nothing is released twice, but for the liberties that each of these *)
(* names.                                                                  *)
(***************************************************************************)
EXTENDS SoemMaster, TLAPS

(* What the context refers to was created, and what is not created yet is  *)
(* not released; nobody releases what is not there.                        *)
HandlesCreated ==
  /\ poolmutex <= created /\ queuemutex <= created /\ sockhandle <= created
  /\ \A o \in Objects : o > created => released[o] = 0
  /\ released[Null] = 0

(* The context is there until Dispose frees it, and a master that is open  *)
(* has its pool mutex and its socket, unreleased.                          *)
OpenHasHandles ==
  /\ ~disposed => context
  /\ initialized /\ ~disposed =>
    /\ poolmutex # Null /\ sockhandle # Null /\ sockhandle # NoSocket
    /\ released[poolmutex] = 0 /\ released[sockhandle] = 0

(* NothingLeaks as the calls need it: only an open master has anything     *)
(* left to release.                                                        *)
OnlyOpenOwns ==
  \A o \in (1 .. created) \ (failed \cup dropped) :
    released[o] = 0 =>
      initialized /\ ~disposed /\ o \in {poolmutex, queuemutex, sockhandle}

(* The map of the managed side and the pointers of the native side, which  *)
(* agree whenever there is a map; the extents that were sent.              *)
Whole(extents) ==
  \A e \in extents : e.map = iomap /\ (e.bytes <= size \/ Takes("oversized"))

OneMap ==
  /\ iomap = pinned
  /\ iomap # Null => mapped \in {Null, iomap}
  /\ ~slaves => mapped = Null
  /\ liberties \cap {"unmapped", "inflight"} = {} =>
       Whole(touched) /\ (~disposed => Whole(pending))

Inv ==
  TypeOK /\ HandlesCreated /\ OpenHasHandles /\ OnlyOpenOwns /\ OneMap

LEMMA InitInv == Init => Inv
<1> SUFFICES ASSUME Init PROVE Inv
  OBVIOUS
<1> USE SoemMasterAssumption DEF Init
<1>1. TypeOK
  <2>1. released \in [Objects \cup {Null} -> 0 .. 2]
    OBVIOUS
  <2>2. (iomap = Null) = (pinned = Null)
    BY Zenon
  <2>3. failed \subseteq 1 .. created /\ created \in 0 .. MaxObjects
        /\ maps \in 0 .. MaxMaps
    OBVIOUS
  <2>4. /\ size \in Sizes /\ image \in Sizes
        /\ pending \subseteq Extents /\ touched \subseteq Extents
    BY DEF Sizes
  <2>5. /\ liberties \subseteq Liberties
        /\ disposed \in BOOLEAN /\ initialized \in BOOLEAN
        /\ context \in BOOLEAN /\ slaves \in BOOLEAN
    BY Zenon
  <2> QED
    BY <2>1, <2>2, <2>3, <2>4, <2>5, Zenon DEF TypeOK
<1>2. HandlesCreated
  BY DEF HandlesCreated, Objects, Null
<1>3. OpenHasHandles /\ OnlyOpenOwns
  BY DEF OpenHasHandles, OnlyOpenOwns
<1>4. OneMap
  BY DEF OneMap, Whole
<1> QED
  BY <1>1, <1>2, <1>3, <1>4 DEF Inv

(* ecx_close releases every handle of an open master once.                 *)
LEMMA EcxCloseReleases ==
  ASSUME Inv, initialized, ~disposed, EcxClose
  PROVE  /\ released' \in [Objects \cup {Null} -> 0 .. 2]
         /\ released'[Null] = 0
         /\ \A o \in Objects : o > created => released'[o] = 0
         /\ \A o \in Objects : released[o] # 0 => released'[o] # 0
         /\ \A o \in Objects \cap {poolmutex, queuemutex, sockhandle} :
              released'[o] # 0
<1>1. /\ created \in 0 .. MaxObjects /\ MaxObjects \in Nat
      /\ released \in [Objects \cup {Null} -> 0 .. 2]
      /\ released[Null] = 0
      /\ \A o \in Objects : o > created => released[o] = 0
  BY SoemMasterAssumption DEF Inv, TypeOK, HandlesCreated
<1>2. Handles \subseteq {poolmutex, queuemutex, sockhandle}
  BY DEF Handles
<1>3. \A o \in Objects \cap {poolmutex, queuemutex, sockhandle} :
        o \in Handles
  BY SoemMasterAssumption DEF Handles, Objects, Null, NoSocket
<1>4. \A o \in Objects : o > created => o \notin Handles
  BY <1>1, <1>2 DEF Inv, TypeOK, HandlesCreated, Objects, Null, NoSocket
<1>5. Null \notin Handles
  BY DEF Handles, Inv, OpenHasHandles, Null, NoSocket
<1>6. \A n \in 0 .. 2 : Once(n) \in 1 .. 2
  BY DEF Once
<1>7. \A o \in Objects \cup {Null} :
        released'[o] = IF o \in Handles THEN Once(released[o])
                       ELSE released[o]
  BY DEF EcxClose
<1>8. released' \in [Objects \cup {Null} -> 0 .. 2]
  BY <1>1, <1>6, <1>7 DEF EcxClose
<1> QED
  BY <1>1, <1>3, <1>4, <1>5, <1>6, <1>7, <1>8

LEMMA StepInv == Inv /\ [Next]_vars => Inv'
<1> SUFFICES ASSUME Inv, [Next]_vars PROVE Inv'
  OBVIOUS
<1> USE SoemMasterAssumption
    DEF Inv, TypeOK, HandlesCreated, OpenHasHandles, OnlyOpenOwns, OneMap,
        Whole, Takes, Objects, Maps, Extents, Sizes, Null, NoSocket
<1>1. CASE UNCHANGED vars
  BY <1>1 DEF vars, managed, native, history
<1>2. CASE InitMaster
  <2>1. /\ ~disposed /\ ~initialized /\ created + 2 \in Objects
        /\ created + 1 \in Objects
        /\ poolmutex' = created + 1 /\ sockhandle' = created + 2
        /\ created' = created + 2 /\ initialized' = TRUE /\ touched' = {}
        /\ UNCHANGED <<liberties, disposed, iomap, pinned, size, context,
                       queuemutex, slaves, mapped, image, pending, released,
                       failed, dropped, maps>>
    BY <1>2 DEF InitMaster, Usable, history
  <2>2. TypeOK'
    <3>1. created' \in 0 .. MaxObjects /\ poolmutex' \in Objects
          /\ sockhandle' \in Objects \cup {NoSocket}
      BY <2>1
    <3>2. failed' \subseteq 1 .. created'
      BY <2>1
    <3> QED
      BY <2>1, <3>1, <3>2
  <2>3. HandlesCreated'
    BY <2>1
  <2>4. OpenHasHandles'
    BY <2>1
  <2>5. OnlyOpenOwns'
    BY <2>1
  <2>6. OneMap'
    BY <2>1
  <2> QED
    BY <2>2, <2>3, <2>4, <2>5, <2>6
<1>3. CASE InitMasterFails
  <2>1. /\ ~disposed /\ ~initialized /\ created + 2 \in Objects
        /\ created + 1 \in Objects
        /\ poolmutex' = created + 1
        /\ \/ sockhandle' = created + 2 /\ created' = created + 2
           \/ sockhandle' = NoSocket /\ created' = created + 1
        /\ failed' = failed \cup (created + 1 .. created')
        /\ initialized' = FALSE /\ touched' = {}
        /\ UNCHANGED <<liberties, disposed, iomap, pinned, size, context,
                       queuemutex, slaves, mapped, image, pending, released,
                       dropped, maps>>
    BY <1>3 DEF InitMasterFails, Usable, history
  <2>2. TypeOK'
    <3>1. created' \in 0 .. MaxObjects /\ poolmutex' \in Objects
          /\ sockhandle' \in Objects \cup {NoSocket}
      BY <2>1
    <3>2. ASSUME NEW o \in failed' PROVE o \in 1 .. created'
      <4>1. CASE o \in failed
        BY <2>1, <4>1
      <4>2. CASE o \in created + 1 .. created'
        BY <2>1, <4>2
      <4> QED
        BY <2>1, <4>1, <4>2
    <3>3. dropped' \subseteq 1 .. created'
      BY <2>1
    <3> QED
      BY <2>1, <3>1, <3>2, <3>3
  <2>3. HandlesCreated'
    BY <2>1
  <2>4. OpenHasHandles'
    BY <2>1
  <2>5. OnlyOpenOwns'
    BY <2>1
  <2>6. OneMap'
    BY <2>1
  <2> QED
    BY <2>2, <2>3, <2>4, <2>5, <2>6
<1>4. CASE ConfigInit
  <2>1. /\ ~disposed /\ initialized /\ created + 1 \in Objects
        /\ queuemutex' = created + 1 /\ created' = created + 1
        /\ dropped' = IF Scanned THEN dropped \cup {queuemutex} ELSE dropped
        /\ slaves' \in BOOLEAN /\ mapped' = Null /\ image' = 0 /\ touched' = {}
        /\ UNCHANGED <<liberties, disposed, initialized, iomap, pinned, size,
                       context, poolmutex, sockhandle, pending, released,
                       failed, maps>>
    BY <1>4 DEF ConfigInit, NewQueueMutex, Usable, managed
  <2>2. dropped' \subseteq 1 .. created'
    BY <2>1 DEF Scanned
  <2>3. TypeOK' /\ HandlesCreated' /\ OpenHasHandles' /\ OneMap'
    BY <2>1, <2>2
  <2>4. OnlyOpenOwns'
    BY <2>1 DEF Scanned
  <2> QED
    BY <2>3, <2>4
<1>5. CASE ConfigMap
  <2>1. TypeOK'
    BY <1>5 DEF ConfigMap, Usable, history
  <2>2. HandlesCreated' /\ OpenHasHandles' /\ OnlyOpenOwns'
    BY <1>5 DEF ConfigMap, Usable, history
  <2>3. OneMap'
    BY <1>5 DEF ConfigMap, Usable, Received, history
  <2> QED
    BY <2>1, <2>2, <2>3
<1>6. CASE ConfigMapThrows
  BY <1>6 DEF ConfigMapThrows, Usable, Received, ReleaseIoMap, native, history
<1>7. CASE SendProcessdata
  <2>1. /\ ~disposed /\ mapped # Null
        /\ IF iomap = Null THEN Takes("unmapped") ELSE Fits
        /\ touched' = {[map |-> mapped, bytes |-> image]}
        /\ pending' = pending \cup touched'
        /\ UNCHANGED <<liberties, managed, native, created, released, history,
                       maps>>
    BY <1>7 DEF SendProcessdata, Usable
  <2>2. TypeOK'
    BY <2>1 DEF managed, native, history
  <2>3. HandlesCreated' /\ OpenHasHandles' /\ OnlyOpenOwns'
    BY <2>1 DEF managed, native, history
  <2>4. ASSUME liberties \cap {"unmapped", "inflight"} = {}
        PROVE  Whole(touched)'
    BY <2>1, <2>4 DEF Fits, managed, native
  <2>5. OneMap'
    BY <2>1, <2>4 DEF managed, native
  <2> QED
    BY <2>2, <2>3, <2>5
<1>8. CASE ReceiveProcessdata
  BY <1>8 DEF ReceiveProcessdata, Usable, managed, native, history
<1>9. CASE Close
  <2>1. /\ ~disposed /\ initialized /\ Received /\ EcxClose
        /\ initialized' = FALSE /\ iomap' = Null /\ pinned' = Null
        /\ size' = 0 /\ touched' = {}
        /\ UNCHANGED <<liberties, disposed, context, poolmutex, queuemutex,
                       sockhandle, slaves, mapped, image, pending, created,
                       failed, dropped, maps>>
    BY <1>9 DEF Close, Usable, ReleaseIoMap, native, history
  <2>2. released' \in [Objects \cup {Null} -> 0 .. 2]
    BY <2>1, EcxCloseReleases
  <2>5. TypeOK'
    <3>1. /\ failed' \subseteq 1 .. created' /\ dropped' \subseteq 1 .. created'
          /\ pending' \subseteq Extents /\ touched' \subseteq Extents
          /\ iomap' \in Maps \cup {Null} /\ pinned' \in Maps \cup {Null}
          /\ (iomap' = Null) = (pinned' = Null)
      BY <2>1
    <3>2. /\ initialized' \in BOOLEAN /\ disposed' \in BOOLEAN
          /\ context' \in BOOLEAN /\ slaves' \in BOOLEAN
      BY <2>1, Zenon
    <3>4. size' \in Sizes /\ image' \in Sizes
      BY <2>1
    <3>3. /\ poolmutex' \in Objects \cup {Null}
          /\ queuemutex' \in Objects \cup {Null}
          /\ sockhandle' \in Objects \cup {Null, NoSocket}
          /\ mapped' \in Maps \cup {Null} /\ created' \in 0 .. MaxObjects
          /\ maps' \in 0 .. MaxMaps /\ liberties' \subseteq Liberties
      BY <2>1
    <3> QED
      BY <2>2, <3>1, <3>2, <3>3, <3>4, Zenon DEF TypeOK
  <2>6. HandlesCreated' /\ OpenHasHandles'
    BY <2>1, EcxCloseReleases
  <2>3. OnlyOpenOwns'
    BY <2>1, EcxCloseReleases
  <2>4. OneMap'
    BY <2>1, EcxCloseReleases DEF Received
  <2> QED
    BY <2>3, <2>4, <2>5, <2>6
<1>10. CASE Dispose
  <2>1. /\ ~disposed /\ disposed' = TRUE
        /\ IF initialized THEN EcxClose ELSE UNCHANGED released
        /\ iomap' = Null /\ pinned' = Null /\ size' = 0 /\ context' = FALSE
        /\ touched' = {}
        /\ UNCHANGED <<liberties, initialized, poolmutex, queuemutex, sockhandle,
                       slaves, mapped, image, pending, created, failed, dropped,
                       maps>>
    BY <1>10 DEF Dispose, Usable, ReleaseIoMap, history
  <2>2. released' \in [Objects \cup {Null} -> 0 .. 2]
    BY <2>1, EcxCloseReleases
  <2>5. TypeOK'
    <3>1. /\ failed' \subseteq 1 .. created' /\ dropped' \subseteq 1 .. created'
          /\ pending' \subseteq Extents /\ touched' \subseteq Extents
          /\ iomap' \in Maps \cup {Null} /\ pinned' \in Maps \cup {Null}
          /\ (iomap' = Null) = (pinned' = Null)
      BY <2>1
    <3>2. /\ initialized' \in BOOLEAN /\ disposed' \in BOOLEAN
          /\ context' \in BOOLEAN /\ slaves' \in BOOLEAN
      BY <2>1, Zenon
    <3>4. size' \in Sizes /\ image' \in Sizes
      BY <2>1
    <3>3. /\ poolmutex' \in Objects \cup {Null}
          /\ queuemutex' \in Objects \cup {Null}
          /\ sockhandle' \in Objects \cup {Null, NoSocket}
          /\ mapped' \in Maps \cup {Null} /\ created' \in 0 .. MaxObjects
          /\ maps' \in 0 .. MaxMaps /\ liberties' \subseteq Liberties
      BY <2>1
    <3> QED
      BY <2>2, <3>1, <3>2, <3>3, <3>4, Zenon DEF TypeOK
  <2>6. HandlesCreated' /\ OpenHasHandles'
    BY <2>1, EcxCloseReleases
  <2>3. OnlyOpenOwns'
    BY <2>1, EcxCloseReleases
  <2>4. OneMap'
    BY <2>1, EcxCloseReleases DEF Received
  <2> QED
    BY <2>3, <2>4, <2>5, <2>6
<1> QED
  BY <1>1, <1>2, <1>3, <1>4, <1>5, <1>6, <1>7, <1>8, <1>9, <1>10 DEF Next

(* The handles, counters and flags of the master object stay in range,     *)
(* whatever the sequence of calls, the failed ones included.               *)
THEOREM TypeCorrect == Spec => []TypeOK
<1>1. Inv => TypeOK
  BY DEF Inv
<1> QED
  BY InitInv, StepInv, <1>1, PTL DEF Spec

(* Process data goes to and comes from the pinned map that IoMap shows, of *)
(* every caller who exchanges only while there is a map and receives what  *)
(* he sent before he maps anew or closes; and it stays within that map if  *)
(* he exchanges only images that fit, which the code leaves to him.        *)
THEOREM ExchangeIsSafe == Spec => []ExchangeUsesIoMap
<1>1. Inv => ExchangeUsesIoMap
  BY DEF Inv, OneMap, Whole, ExchangeUsesIoMap
<1> QED
  BY InitInv, StepInv, <1>1, PTL DEF Spec

(* What an Init that succeeded and the last scan after it created is       *)
(* released by Close or Dispose at the latest; not so what an Init that    *)
(* failed created, nor the queue mutexes of a scan that was repeated.      *)
THEOREM MasterLeaksNothing == Spec => []NothingLeaks
<1>1. Inv => NothingLeaks
  BY DEF Inv, OnlyOpenOwns, OpenHasHandles, NothingLeaks
<1> QED
  BY InitInv, StepInv, <1>1, PTL DEF Spec

(* Nothing of others is released, and of a caller who scans a master that  *)
(* he opened again before he closes it, ecx_close destroys every mutex and *)
(* closes every socket at most once.                                       *)
THEOREM MasterReleasesOnce == Spec => []ReleasedOnce
<1> DEFINE Once1 == ~Takes("unscanned") => \A o \in Objects : released[o] <= 1
           J == Inv /\ Once1
<1>1. Init => J
  BY InitInv DEF Init, Objects
<1>2. J /\ [Next]_vars => J'
  <2> SUFFICES ASSUME J, [Next]_vars PROVE J'
    OBVIOUS
  <2>1. liberties' = liberties
    BY DEF Next, vars, InitMaster, InitMasterFails, ConfigInit, ConfigMap,
           ConfigMapThrows, SendProcessdata, ReceiveProcessdata, Close, Dispose
  <2> SUFFICES ASSUME ~Takes("unscanned")
               PROVE  \A o \in Objects : released'[o] <= 1
    BY <2>1, StepInv DEF Takes
  <2>2. CASE Close \/ (Dispose /\ initialized)
    <3>1. /\ initialized /\ ~disposed /\ EcxClose
          /\ released[queuemutex] = 0 \/ queuemutex = Null
      BY <2>2 DEF Close, Dispose, Usable, MayClose, Scanned
    <3>2. \A h \in Handles : released[h] = 0
      BY <3>1 DEF Handles, Inv, OpenHasHandles, HandlesCreated
    <3>3. ASSUME NEW o \in Objects PROVE released'[o] <= 1
      <4>1. released'[o] = IF o \in Handles THEN Once(released[o])
                           ELSE released[o]
        BY <3>1 DEF EcxClose
      <4> QED
        BY <3>2, <4>1 DEF Once
    <3> QED
      BY <3>3
  <2>3. CASE ~ (Close \/ (Dispose /\ initialized))
    <3>1. released' = released
      BY <2>3
      DEF Next, vars, InitMaster, InitMasterFails, ConfigInit, ConfigMap,
          ConfigMapThrows, SendProcessdata, ReceiveProcessdata, Close, Dispose
    <3> QED
      BY <3>1
  <2> QED
    BY <2>2, <2>3
<1>3. J => ReleasedOnce
  BY DEF Inv, HandlesCreated, ReleasedOnce
<1> HIDE DEF J
<1> QED
  BY <1>1, <1>2, <1>3, PTL DEF Spec

=============================================================================
