--------------------------- MODULE Slaves_proofs ---------------------------
(***************************************************************************)
(* Proofs about the care of the slaves, for every number of slaves, every  *)
(* wiring and every application: what is read from an EEPROM and kept in   *)
(* the cache is true, no device gets the address of a slave that does not  *)
(* pass for it, and a state that is reported was a state of such a device. *)
(***************************************************************************)
EXTENDS Slaves, WellFoundedInduction, FiniteSetTheorems, SequenceTheorems, TLAPS

-----------------------------------------------------------------------------
(* The EEPROMs.  As long as no frame is lost, the master's note of who     *)
(* owns an EEPROM is right, a command is given to an EEPROM that can take  *)
(* it, and what an EEPROM has read stays in its data register until the    *)
(* next call clears its error or writes a value.                           *)
Words == Int \X Int \X Int
Reads == {"read", "sii"}
Writes == {"write"}
Gives == Reads \cup Writes \cup {"read1"}

CallType ==
  [op : Gives \cup {"none", "read2", "pdi"}, slave : Nat, word : Nat, version : Int]

EscType ==
  [pdi : BOOLEAN, busy : BOOLEAN, command : {"none", "read", "write"},
   word : Nat, nack : BOOLEAN, data : [1 .. 4 -> Words]]

EepromTypeOK ==
  /\ step \in {"idle", "master", "pdi", "ready?", "clear", "value", "command", "done?",
               "data32", "data64", "refused", "returned"}
  /\ call \in CallType
  /\ step # "idle" => call.slave \in Slaves /\ call.word \in 0 .. SiiWords - 1
  /\ edat \in [1 .. 4 -> Words] \cup {Written}
  /\ nackcnt \in Nat
  /\ asked \in [Slaves -> {-1} \cup 0 .. SiiWords - 1]
  /\ eep_pdi \subseteq Slaves
  /\ DOMAIN esibuf \subseteq Nat
  /\ esc \in [Slaves -> EscType]
  /\ sii \in [Slaves -> [0 .. SiiWords - 1 -> Int]]

(* The words of an EEPROM, by the versions that they have.                 *)
WordIn(versions, s, w) == IF w < SiiWords THEN <<s, w, versions[s][w]>> ELSE Erased
ContentIn(versions, s, w) ==
  Cut([i \in 1 .. 4 |-> WordIn(versions, s, w + i - 1)], Chunk(s))

(* What an EEPROM that reads has latched, and who may disturb it.          *)
Latched(s) ==
  esc[s].command = "read" /\ ~esc[s].busy /\ ~esc[s].nack =>
    esc[s].data = ContentIn(sii, s, esc[s].word)

Undisturbed(s) == s = call.slave => step \notin {"value", "command"}

InterfaceOK ==
  \A s \in Slaves :
    /\ esc[s].pdi <=> s \in eep_pdi
    /\ Undisturbed(s) => Latched(s)
    /\ esc[s].busy /\ esc[s].command = "write" => esc[s].word \in 0 .. SiiWords - 1

(* The command that the call gives, and what there is when it is done.     *)
Kind == IF call.op \in Writes THEN "write" ELSE "read"
Given == Own.command = Kind /\ Own.word = call.word
Done == ~Own.busy /\ ~Own.nack

CommandOK ==
  /\ step = "master" => call.op \in Gives
  /\ step = "ready?" => call.op \in Gives \cup {"read2"}
  /\ step \in {"ready?", "clear", "value", "command", "done?"} /\ call.op \in Gives =>
       call.slave \notin eep_pdi
  /\ step \in {"clear", "value", "command"} => call.op \in Gives
  /\ step = "pdi" => call.op = "pdi"
  /\ step = "clear" => ~Own.busy
  /\ step = "value" => call.op = "write"
  /\ step \in {"value", "command"} /\ Own.busy => Given
  /\ /\ call.op = "write"
     /\ step \in {"command", "done?"} \/ (step = "value" /\ Own.busy)
     => Own.data[1] = <<call.slave, call.word, call.version>>
  /\ step = "done?" => call.op \in Reads \cup Writes /\ Given
  /\ step = "done?" /\ call.op = "write" /\ Done =>
       sii[call.slave][call.word] = call.version

(* What the call returns; in the end every read has left the word that was *)
(* asked for in the EEPROM's data register.                                *)
AnswerOK ==
  /\ step # "returned" => edat = Failed
  /\ step \in {"data32", "data64"} =>
       /\ call.op \in Reads \cup {"read2"}
       /\ ~Own.busy
       /\ call.op \in Reads =>
            Given /\ Done /\ (step = "data64" <=> call.slave \in Wide)
       /\ call.op = "read2" => step = "data32"
  /\ step = "returned" /\ call.op \in Reads =>
       Given /\ ~Own.busy /\ edat = ContentIn(sii, call.slave, call.word)
  /\ step = "returned" /\ call.op = "read2" =>
       ~Own.busy /\ edat = Cut(Own.data, 2)
  /\ step = "returned" /\ edat = Written =>
       call.op = "write" /\ sii[call.slave][call.word] = call.version
       /\ ~Own.busy

CacheOK ==
  /\ step # "idle" /\ call.op = "sii" => esislave = call.slave
  /\ \A w \in DOMAIN esibuf : esibuf[w] = CachedWord(w)

EepromInv == InterfaceOK /\ CommandOK /\ AnswerOK /\ CacheOK

-----------------------------------------------------------------------------
(* The addresses.  Only ecx_recover_slave gives the address of a slave, to *)
(* every device on the wire that has the temporary address.  That a second *)
(* one has it too takes a device that got it in an earlier call, and was   *)
(* unplugged when it should have lost it; the wiring changes that this     *)
(* takes are counted here, with the frames that must be lost.              *)
States == {INIT, PRE_OP, SAFE_OP, OPERATIONAL}

Register == [adr : 0 .. TempNode, al : States, error : BOOLEAN, want : {0} \cup States]

BusTypeOK ==
  /\ wire \in Seq(Devices)
  /\ reg \in [Devices -> Register]
  /\ lost \in Nat /\ changes \in Nat

Asking == {"alias", "id", "man", "rev"}

Recovering == pc \in {"clear", "temporary", "alias", "id", "man", "rev", "address", "giveup"}

StateTypeOK ==
  /\ pc \in {"idle", "returned", "broadcast", "group", "check", "position",
             "clear", "temporary", "alias", "id", "man", "rev", "address", "giveup",
             "init", "preop", "safeop"}
  /\ op \in StateFunctions \cup {"none"}
  /\ slave \in 0 .. SlaveCount + 1
  /\ reqstate \in States
  /\ after \in {"returned", "preop", "safeop"}
  /\ DOMAIN slavelist = 0 .. SlaveCount
  /\ \A s \in Slaves : slavelist[s] \in Nat
  /\ pc = "idle" <=> op = "none"
  /\ pc = "idle" => after = "returned"
  /\ after # "returned" => op = "reconfig"
  /\ pc \in {"broadcast", "group"} => op = "readstate" /\ reqstate = OPERATIONAL
  /\ pc \in {"broadcast", "group"} => slave \in Slaves
  /\ pc = "check" => op \in {"statecheck", "reconfig"} /\ slave \in 0 .. SlaveCount
  /\ pc \in {"init", "preop", "safeop"} => op = "reconfig"
  /\ op \in {"recover", "reconfig"} => slave \in Slaves
  /\ Recovering \/ pc = "position" => op = "recover"

Unaddressed(d) == reg[d].adr \notin Slaves
Temporary(d) == reg[d].adr = TempNode

(* The wiring changes behind devices without a slave's address.            *)
WiringOK ==
  /\ \A d \in Everyone : Unaddressed(d) => changes >= 1
  /\ \A d, e \in Everyone : d # e /\ Unaddressed(d) /\ Unaddressed(e) => changes >= 2
  /\ \A d \in Devices \ Everyone : Temporary(d) =>
       changes >= 2 /\ \A e \in Everyone : Unaddressed(e) => changes >= 3

(* Where the call is before it sets the temporary address.                 *)
BeforeOK ==
  pc \in {"clear", "temporary"} =>
    /\ \/ changes >= 2
       \/ changes = 1 /\ slave \in DOMAIN wire /\ Unaddressed(wire[slave])
    /\ \A d \in Devices \ Everyone : Temporary(d) => changes >= 3
    /\ \A d \in Everyone : Temporary(d) => changes >= 2 /\ pc = "clear"

(* A device that keeps the temporary address after its call has lost a     *)
(* frame, or was away and came back.                                       *)
LeftoverOK ==
  pc \notin {"temporary", "alias", "id", "man", "rev", "address", "giveup"} =>
    \A d \in Everyone : Temporary(d) =>
      /\ lost >= 1 \/ (changes >= 3 /\ pc # "clear")
      /\ \A e \in Everyone : e # d /\ Unaddressed(e) => lost >= 1

(* One device at most has got the temporary address in this call; all      *)
(* others that have it are away, and no change is left to bring them back. *)
(* What was asked of it agrees or may be mistaken, or it went away and     *)
(* there was no answer.                                                    *)
Asked(field) ==
  \/ pc = "id" /\ field = "alias"
  \/ pc = "man" /\ field \in {"alias", "id"}
  \/ pc = "rev" /\ field \in {"alias", "id", "man"}
  \/ pc = "address"

AgreesIn(d, s, field) ==
  \/ Identity[d][field] = Identity[s][field] \/ Mistakable(d, s, field)
  \/ d \notin Everyone /\ Identity[s][field] = 0

TakenBy(d) ==
  /\ \A e \in Devices : e # d /\ Temporary(e) => e \notin Everyone /\ changes >= 3
  /\ Temporary(d) => \A s \in Slaves, field \in Fields :
                       s = slave /\ Asked(field) => AgreesIn(d, s, field)

AfterOK == pc \in Asking \cup {"address", "giveup"} =>
             changes >= 1 /\ \E d \in Devices : TakenBy(d)

OfItsKind ==
  \A d \in Devices, s \in Slaves : reg[d].adr = s => PassesFor(d, s)

AddressOK == OfItsKind /\ WiringOK /\ BeforeOK /\ LeftoverOK /\ AfterOK

AddressInv == Traceable => AddressOK

(* Reports.  What the call will return, and may return already.  A device  *)
(* that answers for a slave passes for it, as long as the addresses can be *)
(* traced.                                                                 *)
Seen(s) == \E d \in met : PassesFor(d, s)

SeenOK ==
  /\ met \subseteq Devices
  /\ pc = "idle" => \A s \in Slaves : slavelist[s] = 0
  /\ op = "readstate" /\ ~strange =>
       \A s \in Slaves : slavelist[s] % STATE_ERROR = reqstate => Seen(s)
  /\ pc = "returned" /\ op \in {"statecheck", "reconfig"} /\ ret = reqstate =>
       /\ slave = 0 /\ ~absent => Slaves \subseteq met
       /\ \A s \in Slaves : s = slave => Seen(s)

SeenInv == Traceable => SeenOK

(* No device can be mistaken for a slave: in one field that is not 0 and   *)
(* not another word of its own it has another value.                       *)
NoTwins ==
  \A d \in Devices, s \in Slaves : d # s =>
    \E field \in Fields :
      /\ Identity[s][field] \notin {0, Identity[d][field]}
      /\ field \in SiiFields => \A word \in SiiFields : Identity[s][field] # Identity[d][word]

-----------------------------------------------------------------------------
(* A non-empty set of naturals has a least element.                        *)
LEMMA LeastNat ==
  ASSUME NEW S \in SUBSET Nat, S # {}
  PROVE  \E k \in S : \A j \in S : k <= j
<1> DEFINE less == {p \in Nat \X Nat : p[1] < p[2]}
<1>1. OpToRel(<, Nat) = less
  BY Zenon DEF OpToRel
<1>2. IsWellFoundedOn(less, Nat)
  BY <1>1, NatLessThanWellFounded, Zenon
<1> HIDE DEF less
<1>3. PICK k \in S : \A j \in S : <<j, k>> \notin less
  BY <1>2, WFMin, Zenon
<1>4. ASSUME NEW j \in S
      PROVE  k <= j
  <2>1. <<j, k>> \in less <=> j < k
    BY Zenon DEF less
  <2>2. ~ j < k
    BY <1>3, <2>1
  <2> QED
    BY <2>2
<1> QED
  BY <1>4

(* The last of the devices that are reached answers.                       *)
LEMMA AnsweringReached ==
  ASSUME wire \in Seq(Devices), NEW reached, reached \cap Everyone # {}
  PROVE  Answering(reached) \in reached \cap Everyone
<1>1. Len(wire) \in Nat /\ DOMAIN wire = 1 .. Len(wire)
  OBVIOUS
<1> DEFINE behind == {n \in 0 .. Len(wire) : Len(wire) - n \in DOMAIN wire /\ wire[Len(wire) - n] \in reached}
<1>2. PICK p \in DOMAIN wire : wire[p] \in reached
  BY DEF Everyone, Range
<1>3. Len(wire) - p \in behind
  BY <1>1, <1>2
<1>a. behind \in SUBSET Nat /\ behind # {}
  BY <1>1, <1>3
<1>4. PICK least \in behind : \A n \in behind : least <= n
  BY <1>a, LeastNat, Zenon
<1>5. /\ Len(wire) - least \in DOMAIN wire
      /\ wire[Len(wire) - least] \in reached
      /\ \A q \in Len(wire) - least + 1 .. Len(wire) : wire[q] \notin reached
  <2>1. ASSUME NEW q \in Len(wire) - least + 1 .. Len(wire), wire[q] \in reached
        PROVE  FALSE
    <3>1. Len(wire) - q \in behind
      BY <1>1, <1>4, <2>1
    <3>2. least <= Len(wire) - q
      BY <3>1, <1>4, Zenon
    <3>3. least \in 0 .. Len(wire)
      BY <1>4
    <3> QED
      BY <3>2, <3>3, <1>1, <2>1
  <2> QED
    BY <1>4, <2>1
<1>6. \E q \in DOMAIN wire :
        /\ wire[q] \in reached
        /\ \A r \in q + 1 .. Len(wire) : wire[r] \notin reached
  BY <1>5
<1> QED
  BY <1>6, Zenon DEF Answering, Everyone, Range

(* A working counter above 0 says that the frame came back, and that       *)
(* somebody was reached.                                                   *)
LEMMA Worked ==
  ASSUME NEW way, NEW reached, Wkc(way, reached) > 0
  PROVE  way = "answered" /\ reached # {}
BY FS_EmptySet DEF Wkc, NoFrame

(* What a change of the wiring does to the devices on the wire.            *)
LEMMA Unplugged ==
  ASSUME wire \in Seq(Devices), NEW p \in DOMAIN wire
  PROVE  /\ RemoveAt(wire, p) \in Seq(Devices)
         /\ Range(RemoveAt(wire, p)) \subseteq Range(wire)
<1>1. Len(wire) \in Nat /\ p \in 1 .. Len(wire) /\ DOMAIN wire = 1 .. Len(wire)
  OBVIOUS
<1>2. \A i \in 1 .. Len(wire) : wire[i] \in Range(wire) /\ wire[i] \in Devices
  BY <1>1 DEF Range
<1> DEFINE first == SubSeq(wire, 1, p - 1)
           second == SubSeq(wire, p + 1, Len(wire))
           S == Range(wire)
<1>3. first \in Seq(S)
  BY <1>1, <1>2, SubSeqProperties
<1>4. second \in Seq(S)
  BY <1>1, <1>2, SubSeqProperties
<1>5. S \subseteq Devices
  BY <1>1, <1>2 DEF Range
<1> HIDE DEF first, second, S
<1>6. first \o second \in Seq(S)
  BY <1>3, <1>4, ConcatProperties
<1>7. \A t \in Seq(S) : t \in Seq(Devices) /\ Range(t) \subseteq S
  BY <1>5 DEF Range
<1> QED
  BY <1>6, <1>7 DEF RemoveAt, first, second, S

LEMMA PluggedIn ==
  ASSUME wire \in Seq(Devices), NEW p \in 1 .. Len(wire) + 1, NEW d \in Devices
  PROVE  /\ InsertAt(wire, p, d) \in Seq(Devices)
         /\ Range(InsertAt(wire, p, d)) = Range(wire) \cup {d}
<1>1. Len(wire) \in Nat /\ DOMAIN wire = 1 .. Len(wire)
  OBVIOUS
<1>2. \A i \in 1 .. Len(wire) : wire[i] \in Range(wire) /\ wire[i] \in Devices
  BY <1>1 DEF Range
<1> DEFINE first == SubSeq(wire, 1, p - 1)
           second == SubSeq(wire, p, Len(wire))
           S == Range(wire) \cup {d}
<1>3. first \in Seq(S)
  BY <1>1, <1>2, SubSeqProperties
<1>4. second \in Seq(S)
  BY <1>1, <1>2, SubSeqProperties
<1>5. S \subseteq Devices /\ d \in S
  BY <1>1, <1>2 DEF Range
<1> HIDE DEF first, second, S
<1>6. <<d>> \in Seq(S)
  BY <1>5
<1>7. first \o <<d>> \in Seq(S)
  BY <1>3, <1>6, ConcatProperties
<1>8. (first \o <<d>>) \o second \in Seq(S)
  BY <1>4, <1>7, ConcatProperties
<1>9. \A t \in Seq(S) : t \in Seq(Devices) /\ Range(t) \subseteq S
  BY <1>5 DEF Range
<1>10. S \subseteq Range((first \o <<d>>) \o second)
  <2>1. Len(first) = p - 1 /\ \A i \in 1 .. p - 1 : first[i] = wire[i]
    BY <1>1, <1>2, SubSeqProperties DEF first, S
  <2>2. Len(second) = Len(wire) - p + 1 /\ \A i \in 1 .. Len(wire) - p + 1 : second[i] = wire[p + i - 1]
    BY <1>1, <1>2, SubSeqProperties DEF second, S
  <2>a. first \o <<d>> \in Seq(S) /\ Len(first \o <<d>>) = p
        /\ (first \o <<d>>)[p] = d /\ \A i \in 1 .. p - 1 : (first \o <<d>>)[i] = wire[i]
    BY <1>1, <1>3, <1>6, <1>7, <2>1
  <2>b. /\ DOMAIN ((first \o <<d>>) \o second) = 1 .. Len(wire) + 1
        /\ \A i \in 1 .. p : ((first \o <<d>>) \o second)[i] = (first \o <<d>>)[i]
        /\ \A i \in p + 1 .. Len(wire) + 1 : ((first \o <<d>>) \o second)[i] = second[i - p]
    <3> DEFINE front == first \o <<d>>
    <3>1. front \in Seq(S) /\ Len(front) = p /\ Len(second) = Len(wire) - p + 1
      BY <2>2, <2>a
    <3> HIDE DEF S, front
    <3>2. /\ Len(front \o second) = Len(front) + Len(second) /\ front \o second \in Seq(S)
          /\ \A i \in 1 .. Len(front) + Len(second) :
               (front \o second)[i] = IF i <= Len(front) THEN front[i] ELSE second[i - Len(front)]
      BY <1>4, <3>1, ConcatProperties, Zenon
    <3>3. p \in Int /\ p >= 1 /\ p <= Len(wire) + 1
      BY <1>1
    <3>4. DOMAIN (front \o second) = 1 .. Len(wire) + 1
      BY <1>1, <3>1, <3>2, <3>3
    <3>5. /\ \A i \in 1 .. p : (front \o second)[i] = front[i]
          /\ \A i \in p + 1 .. Len(wire) + 1 : (front \o second)[i] = second[i - p]
      BY <1>1, <3>1, <3>2, <3>3
    <3> QED
      BY <3>4, <3>5 DEF front
  <2> DEFINE front == first \o <<d>>
             whole == (first \o <<d>>) \o second
  <2>3. /\ DOMAIN whole = 1 .. Len(wire) + 1
        /\ \A i \in 1 .. p : whole[i] = front[i]
        /\ \A i \in p + 1 .. Len(wire) + 1 : whole[i] = second[i - p]
    BY <2>b
  <2>4. front[p] = d /\ \A i \in 1 .. p - 1 : front[i] = wire[i]
    BY <2>a
  <2> HIDE DEF S, front, whole
  <2>5. p \in Int /\ p >= 1 /\ p <= Len(wire) + 1 /\ Len(wire) \in Nat
    BY <1>1
  <2>6. ASSUME NEW i \in 1 .. Len(wire), i < p
        PROVE  wire[i] \in Range(whole)
    <3>1. i \in 1 .. p /\ i \in 1 .. p - 1 /\ i \in 1 .. Len(wire) + 1
      BY <2>5, <2>6
    <3>2. whole[i] = wire[i] /\ i \in DOMAIN whole
      BY <2>3, <2>4, <3>1, Zenon
    <3> QED
      BY <3>2, Zenon DEF Range
  <2>7. ASSUME NEW i \in 1 .. Len(wire), i >= p
        PROVE  wire[i] \in Range(whole)
    <3> DEFINE j == i + 1
    <3>1. /\ j \in p + 1 .. Len(wire) + 1 /\ j \in 1 .. Len(wire) + 1
          /\ j - p \in 1 .. Len(wire) - p + 1 /\ p + (j - p) - 1 = i
      BY <2>5, <2>7
    <3> HIDE DEF j
    <3>2. whole[j] = second[j - p] /\ second[j - p] = wire[p + (j - p) - 1]
      BY <2>2, <2>3, <3>1, Zenon
    <3>3. whole[j] = wire[i] /\ j \in DOMAIN whole
      BY <2>3, <3>1, <3>2, Zenon
    <3> QED
      BY <3>3, Zenon DEF Range
  <2>8. d \in Range(whole)
    <3>1. p \in 1 .. p /\ p \in 1 .. Len(wire) + 1
      BY <2>5
    <3>2. whole[p] = d /\ p \in DOMAIN whole
      BY <2>3, <2>4, <3>1, Zenon
    <3> QED
      BY <3>2, Zenon DEF Range
  <2>9. \A i \in DOMAIN wire : wire[i] \in Range(whole)
    BY <1>1, <2>5, <2>6, <2>7
  <2>10. S \subseteq Range(whole)
    BY <2>8, <2>9, Zenon DEF S, Range
  <2> QED
    BY <2>10 DEF whole
<1> QED
  BY <1>8, <1>9, <1>10 DEF InsertAt, first, second, S

-----------------------------------------------------------------------------
(* Types of what is written to and read from the EEPROMs.                  *)
LEMMA WordsTyped ==
  /\ Zero \in Words /\ Erased \in Words
  /\ Failed \in [1 .. 4 -> Words] /\ Failed # Written
  /\ \A words \in [1 .. 4 -> Words], n \in Nat :
       Cut(words, n) \in [1 .. 4 -> Words] /\ Cut(words, n) # Written
<1>1. Zero \in Words /\ Erased \in Words
  BY DEF Zero, Erased, Words
<1>2. \A f \in [1 .. 4 -> Words] : f # Written
  BY DEF Written
<1>3. Failed \in [1 .. 4 -> Words]
  BY <1>1 DEF Failed
<1>4. \A words \in [1 .. 4 -> Words], n \in Nat : Cut(words, n) \in [1 .. 4 -> Words]
  BY <1>1 DEF Cut
<1> QED
  BY <1>1, <1>2, <1>3, <1>4

LEMMA ContentTyped ==
  ASSUME EepromTypeOK, NEW s \in Slaves, NEW w \in Nat
  PROVE  Content(s, w) \in [1 .. 4 -> Words] /\ Content(s, w) # Written
<1>1. \A v \in Nat : Word(s, v) \in Words
  <2> SUFFICES ASSUME NEW v \in Nat
               PROVE  Word(s, v) \in Words
    OBVIOUS
  <2>1. CASE v < SiiWords
    <3>1. SiiWords \in Nat
      BY EepromAssumption
    <3>2. v \in 0 .. SiiWords - 1
      BY <2>1, <3>1
    <3>3. sii[s][v] \in Int
      BY <3>2 DEF EepromTypeOK
    <3>4. s \in Int /\ v \in Int
      BY BusAssumption DEF Slaves
    <3> QED
      BY <2>1, <3>3, <3>4 DEF Word, Words
  <2>2. CASE ~ v < SiiWords
    BY <2>2, WordsTyped DEF Word
  <2> QED
    BY <2>1, <2>2
<1>2. [i \in 1 .. 4 |-> Word(s, w + i - 1)] \in [1 .. 4 -> Words]
  BY <1>1
<1>3. Chunk(s) \in Nat
  BY DEF Chunk
<1> QED
  BY <1>2, <1>3, WordsTyped DEF Content

LEMMA EscSet ==
  ASSUME esc \in [Slaves -> EscType], NEW s \in Slaves, NEW c, SetEsc(s, c)
  PROVE  /\ esc'[s] = c
         /\ \A t \in Slaves : t # s => esc'[t] = esc[t]
         /\ c \in EscType => esc' \in [Slaves -> EscType]
BY DEF SetEsc

(* The registers that the actions write one by one.                        *)
LEMMA EscWritten ==
  ASSUME NEW c \in EscType, NEW pdi \in BOOLEAN, NEW word \in Nat, NEW x \in Words,
         NEW command \in {"read", "write"}, NEW data \in [1 .. 4 -> Words]
  PROVE  /\ [c EXCEPT !.pdi = pdi] \in EscType
         /\ [c EXCEPT !.nack = FALSE] \in EscType
         /\ [c EXCEPT !.data[1] = x] \in EscType
         /\ [c EXCEPT !.busy = TRUE, !.command = command, !.word = word, !.nack = FALSE]
              \in EscType
         /\ [c EXCEPT !.busy = FALSE] \in EscType
         /\ [c EXCEPT !.busy = FALSE, !.data = data] \in EscType
         /\ [c EXCEPT !.busy = FALSE, !.nack = TRUE] \in EscType
BY DEF EscType

LEMMA EepromTypeInit == Init => EepromTypeOK
<1> SUFFICES ASSUME EepromInit
             PROVE  EepromTypeOK
  BY DEF Init
<1>1. SiiWords \in Nat
  BY EepromAssumption
<1>2. call \in CallType
  BY DEF EepromInit, NoCall, CallType, Gives, Reads, Writes
<1>3. esc \in [Slaves -> EscType]
  BY WordsTyped DEF EepromInit, EscType
<1>4. DOMAIN esibuf \subseteq Nat
  BY DEF EepromInit
<1>5. sii \in [Slaves -> [0 .. SiiWords - 1 -> Int]]
  BY DEF EepromInit
<1>6. asked \in [Slaves -> {-1} \cup 0 .. SiiWords - 1]
  BY DEF EepromInit
<1>7. /\ step = "idle" /\ edat = Failed
      /\ nackcnt \in Nat /\ eep_pdi \subseteq Slaves
  BY DEF EepromInit
<1> QED
  BY <1>1, <1>2, <1>3, <1>4, <1>5, <1>6, <1>7, WordsTyped DEF EepromTypeOK

(* The slave of the call.                                                  *)
LEMMA CallTyped ==
  ASSUME EepromTypeOK, step # "idle"
  PROVE  /\ call.slave \in Slaves /\ call.word \in 0 .. SiiWords - 1 /\ call.word \in Nat
         /\ call.version \in Int /\ Own \in EscType /\ Own.data \in [1 .. 4 -> Words]
         /\ <<call.slave, call.word, call.version>> \in Words
<1>1. call.slave \in Slaves /\ call.word \in 0 .. SiiWords - 1 /\ call \in CallType
  BY DEF EepromTypeOK
<1>2. call.version \in Int /\ call.word \in Nat
  BY <1>1 DEF CallType
<1>3. Own \in EscType
  BY <1>1 DEF EepromTypeOK, Own
<1>4. call.slave \in Int
  BY <1>1 DEF Slaves
<1> QED
  BY <1>1, <1>2, <1>3, <1>4 DEF EscType, Words

(* A call begins, from the application's list.                             *)
Begins(o, s, v, first) ==
  /\ Access(o, s, v, first)
  /\ \/ o \in Gives /\ first = "master"
     \/ o \in {"read", "write"} /\ first = "ready?" /\ s \notin eep_pdi
     \/ o = "read2" /\ first = "ready?"
     \/ o = "pdi" /\ first = "pdi"
  /\ IF o = "sii"
     THEN /\ esislave' = s /\ esibuf' = Cached(s)
          /\ refused' = IF s = esislave THEN refused ELSE {}
     ELSE UNCHANGED cache

LEMMA CallsBegin ==
  ASSUME EepromTypeOK, NEW functions, NEW slaves \in SUBSET Slaves,
         EepromCall(functions, slaves)
  PROVE  /\ lost = 0
         /\ \E o \in Gives \cup {"read2", "pdi"}, s \in Slaves, v \in 0 .. SiiWords - 1,
               first \in {"master", "ready?", "pdi"} : Begins(o, s, v, first)
<1>1. PICK s \in Slaves, w \in 0 .. SiiWords - 1 :
        \/ readeeprom(s, w)
        \/ writeeeprom(s, w)
        \/ s \notin eep_pdi /\ readeepromAP(s, w)
        \/ s \notin eep_pdi /\ writeeepromAP(s, w)
        \/ readeeprom1(s, w) \/ readeeprom2(s)
        \/ eeprom2pdi(s)
        \/ siigetbyte(s, w)
  BY Zenon DEF EepromCall
<1>2. 0 \in 0 .. SiiWords - 1
  BY EepromAssumption
<1>3. CASE readeeprom(s, w)
  <2>1. Begins("read", s, w, "master")
    BY <1>3 DEF readeeprom, Begins, Gives, Reads
  <2> QED
    BY <2>1 DEF Gives, Reads, EepromCall
<1>4. CASE writeeeprom(s, w)
  <2>1. Begins("write", s, w, "master")
    BY <1>4 DEF writeeeprom, Begins, Gives, Writes
  <2> QED
    BY <2>1 DEF Gives, Writes, EepromCall
<1>5. CASE s \notin eep_pdi /\ readeepromAP(s, w)
  <2>1. Begins("read", s, w, "ready?")
    BY <1>5 DEF readeepromAP, Begins
  <2> QED
    BY <2>1 DEF Gives, Reads, EepromCall
<1>6. CASE s \notin eep_pdi /\ writeeepromAP(s, w)
  <2>1. Begins("write", s, w, "ready?")
    BY <1>6 DEF writeeepromAP, Begins
  <2> QED
    BY <2>1 DEF Gives, Writes, EepromCall
<1>7. CASE readeeprom1(s, w)
  <2>1. Begins("read1", s, w, "master")
    BY <1>7 DEF readeeprom1, Begins, Gives
  <2> QED
    BY <2>1 DEF Gives, EepromCall
<1>8. CASE readeeprom2(s)
  <2>1. Begins("read2", s, asked[s], "ready?")
    BY <1>8 DEF readeeprom2, Begins
  <2>2. asked[s] \in 0 .. SiiWords - 1
    BY <1>8 DEF readeeprom2, EepromTypeOK
  <2> QED
    BY <2>1, <2>2 DEF EepromCall
<1>9. CASE eeprom2pdi(s)
  <2>1. Begins("pdi", s, 0, "pdi")
    BY <1>9 DEF eeprom2pdi, Begins
  <2> QED
    BY <2>1, <1>2 DEF EepromCall
<1>10. CASE siigetbyte(s, w)
  <2>1. Begins("sii", s, w, "master")
    BY <1>10 DEF siigetbyte, Begins, Gives, Reads
  <2> QED
    BY <2>1 DEF Gives, Reads, EepromCall
<1> QED
  BY <1>1, <1>3, <1>4, <1>5, <1>6, <1>7, <1>8, <1>9, <1>10, Zenon

LEMMA TypeBegin ==
  ASSUME EepromTypeOK, NEW o \in Gives \cup {"read2", "pdi"}, NEW s \in Slaves,
         NEW v \in 0 .. SiiWords - 1, NEW first \in {"master", "ready?", "pdi"},
         Begins(o, s, v, first)
  PROVE  EepromTypeOK'
<1>1. v \in Nat /\ sii[s][v] \in Int
  BY EepromAssumption DEF EepromTypeOK
<1>2. call' \in CallType /\ call'.slave = s /\ call'.word = v
  BY <1>1 DEF Begins, Access, CallType, Slaves
<1>3. asked' \in [Slaves -> {-1} \cup 0 .. SiiWords - 1]
  BY DEF Begins, Access, EepromTypeOK
<1>4. DOMAIN esibuf' \subseteq Nat
  BY DEF Begins, EepromTypeOK, Cached, cache
<1>5. step' = first /\ UNCHANGED <<edat, nackcnt, eep_pdi, esc, sii>>
  BY DEF Begins, Access
<1> QED
  BY <1>2, <1>3, <1>4, <1>5 DEF EepromTypeOK

LEMMA TypeControl ==
  ASSUME EepromTypeOK, Control
  PROVE  EepromTypeOK'
<1>1. step # "idle" /\ step' \in {"ready?", "returned"}
      /\ UNCHANGED <<call, edat, nackcnt, asked, cache, sii>>
  BY DEF Control
<1>2. PICK pdi \in BOOLEAN : SetControl(pdi)
  BY Zenon DEF Control
<1>3. eep_pdi' \subseteq Slaves
  BY <1>1, <1>2, CallTyped DEF SetControl, EepromTypeOK
<1>4. esc' = esc \/ SetEsc(call.slave, [Own EXCEPT !.pdi = pdi])
  BY <1>2, Zenon DEF SetControl
<1>5. [Own EXCEPT !.pdi = pdi] \in EscType
  BY <1>1, CallTyped DEF EscType
<1>6. esc' \in [Slaves -> EscType]
  BY <1>1, <1>4, <1>5, EscSet, CallTyped DEF EepromTypeOK
<1> QED
  BY <1>1, <1>3, <1>6 DEF EepromTypeOK, cache

LEMMA TypeAwaitReady ==
  ASSUME EepromTypeOK, AwaitReady
  PROVE  EepromTypeOK'
<1>1. step # "idle" /\ step' \in {"refused", "data32", "clear", "value", "command"}
      /\ UNCHANGED <<call, edat, nackcnt, asked, eep_pdi, cache, esc, sii>>
  BY DEF AwaitReady, Order, Status
<1> QED
  BY <1>1 DEF EepromTypeOK, cache

LEMMA TypeClearError ==
  ASSUME EepromTypeOK, ClearError
  PROVE  EepromTypeOK'
<1>1. step # "idle" /\ step' \in {"value", "command"}
      /\ UNCHANGED <<call, edat, nackcnt, asked, eep_pdi, cache, sii>>
  BY DEF ClearError, Order
<1>2. esc' = esc \/ SetEsc(call.slave, [Own EXCEPT !.nack = FALSE])
  BY Zenon DEF ClearError
<1>3. [Own EXCEPT !.nack = FALSE] \in EscType
  BY <1>1, CallTyped DEF EscType
<1>4. esc' \in [Slaves -> EscType]
  BY <1>1, <1>2, <1>3, EscSet, CallTyped DEF EepromTypeOK
<1> QED
  BY <1>1, <1>4 DEF EepromTypeOK, cache

LEMMA TypeWriteValue ==
  ASSUME EepromTypeOK, WriteValue
  PROVE  EepromTypeOK'
<1>1. step # "idle" /\ step' = "command"
      /\ UNCHANGED <<call, edat, nackcnt, asked, eep_pdi, cache, sii>>
  BY DEF WriteValue
<1>2. esc' = esc \/ SetEsc(call.slave,
        [Own EXCEPT !.data[1] = <<call.slave, call.word, call.version>>])
  BY Zenon DEF WriteValue
<1>3. [Own EXCEPT !.data[1] = <<call.slave, call.word, call.version>>] \in EscType
  BY <1>1, CallTyped DEF EscType
<1>4. esc' \in [Slaves -> EscType]
  BY <1>1, <1>2, <1>3, EscSet, CallTyped DEF EepromTypeOK
<1> QED
  BY <1>1, <1>4 DEF EepromTypeOK, cache

LEMMA TypeWriteCommand ==
  ASSUME EepromTypeOK, WriteCommand
  PROVE  EepromTypeOK'
<1>1. step # "idle" /\ step' \in {"returned", "done?"}
      /\ UNCHANGED <<call, edat, nackcnt, asked, eep_pdi, cache, sii>>
  BY DEF WriteCommand
<1> DEFINE kind == IF call.op = "write" THEN "write" ELSE "read"
           given == [Own EXCEPT !.busy = TRUE, !.command = kind,
                                !.word = call.word, !.nack = FALSE]
<1>2. esc' = esc \/ SetEsc(call.slave, given)
  BY Zenon DEF WriteCommand
<1>3. given \in EscType
  BY <1>1, CallTyped DEF EscType
<1>4. esc' \in [Slaves -> EscType]
  BY <1>1, <1>2, <1>3, EscSet, CallTyped DEF EepromTypeOK
<1> QED
  BY <1>1, <1>4 DEF EepromTypeOK, cache

LEMMA TypeAwaitDone ==
  ASSUME EepromTypeOK, AwaitDone
  PROVE  EepromTypeOK'
<1>1. step # "idle" /\ step' \in {"refused", "returned", "value", "command", "data32", "data64"}
      /\ UNCHANGED <<call, asked, eep_pdi, cache, esc, sii>>
  BY DEF AwaitDone, Order
<1>2. nackcnt' \in Nat
  BY DEF AwaitDone, EepromTypeOK
<1>3. edat' \in {edat, Written}
  BY DEF AwaitDone
<1> QED
  BY <1>1, <1>2, <1>3 DEF EepromTypeOK, cache

LEMMA TypeReadData ==
  ASSUME EepromTypeOK, ReadData
  PROVE  EepromTypeOK'
<1>1. step # "idle" /\ step' = "returned"
      /\ UNCHANGED <<call, nackcnt, asked, eep_pdi, cache, esc, sii>>
  BY DEF ReadData
<1>2. edat' = edat \/ \E n \in Nat : edat' = Cut(Own.data, n)
  BY DEF ReadData
<1>3. edat' = edat \/ edat' \in [1 .. 4 -> Words]
  BY <1>1, <1>2, CallTyped, WordsTyped
<1> QED
  BY <1>1, <1>3 DEF EepromTypeOK, cache

LEMMA TypeEndAccess ==
  ASSUME EepromTypeOK, EndAccess
  PROVE  EepromTypeOK'
<1>1. step # "idle" /\ step' = "idle" /\ call' = NoCall /\ edat' = Failed /\ nackcnt' = 0
      /\ UNCHANGED <<asked, eep_pdi, esislave, esc, sii>>
  BY DEF EndAccess
<1>2. Chunk(call.slave) \in Nat /\ call.word \in Nat
  BY <1>1, CallTyped DEF Chunk
<1>3. DOMAIN esibuf' \subseteq Nat
  BY <1>2 DEF EndAccess, EepromTypeOK
<1>4. NoCall \in CallType
  BY DEF NoCall, CallType, Gives, Reads, Writes
<1> QED
  BY <1>1, <1>3, <1>4, WordsTyped DEF EepromTypeOK

(* A write that completes changes the word that it was given.              *)
LEMMA TypeComplete ==
  ASSUME EepromTypeOK, NEW s \in Slaves, Complete(s)
  PROVE  EepromTypeOK'
<1>1. UNCHANGED <<step, call, edat, nackcnt, asked, eep_pdi, cache>>
  BY DEF Complete
<1>2. esc[s] \in EscType /\ esc[s].word \in Nat /\ esc[s].data[1] \in Words
  BY DEF EepromTypeOK, EscType
<1>3. \E c : SetEsc(s, c) /\ c \in EscType
  <2>1. Content(s, esc[s].word) \in [1 .. 4 -> Words]
    BY <1>2, ContentTyped
  <2>2. /\ [esc[s] EXCEPT !.busy = FALSE, !.data = Content(s, esc[s].word)] \in EscType
        /\ [esc[s] EXCEPT !.busy = FALSE] \in EscType
        /\ [esc[s] EXCEPT !.busy = FALSE, !.nack = TRUE] \in EscType
    BY <1>2, <2>1 DEF EscType
  <2> QED
    BY <2>2, Zenon DEF Complete
<1>4. esc' \in [Slaves -> EscType]
  BY <1>3, EscSet DEF EepromTypeOK
<1>5. sii' \in [Slaves -> [0 .. SiiWords - 1 -> Int]]
  <2>1. esc[s].data[1][3] \in Int
    BY <1>2 DEF Words
  <2>2. sii' = sii \/ sii' = [sii EXCEPT ![s][esc[s].word] = esc[s].data[1][3]]
    BY DEF Complete
  <2> DEFINE D == 0 .. SiiWords - 1
             words == [sii[s] EXCEPT ![esc[s].word] = esc[s].data[1][3]]
  <2>3. sii \in [Slaves -> [D -> Int]]
    BY DEF EepromTypeOK
  <2> HIDE DEF D
  <2>4. words \in [D -> Int]
    BY <2>1, <2>3
  <2>5. [sii EXCEPT ![s][esc[s].word] = esc[s].data[1][3]] = [sii EXCEPT ![s] = words]
    BY <2>3
  <2> HIDE DEF words
  <2>6. [sii EXCEPT ![s] = words] \in [Slaves -> [D -> Int]]
    BY <2>3, <2>4
  <2>7. sii' \in [Slaves -> [D -> Int]]
    BY <2>2, <2>3, <2>5, <2>6
  <2> QED
    BY <2>7 DEF D
<1> QED
  BY <1>1, <1>4, <1>5 DEF EepromTypeOK, cache

(* Whatever happens, the EEPROMs' part takes one of these steps, or none.  *)
EepromAct ==
  \/ lost = 0 /\ \E o \in Gives \cup {"read2", "pdi"}, s \in Slaves, v \in 0 .. SiiWords - 1,
                    first \in {"master", "ready?", "pdi"} : Begins(o, s, v, first)
  \/ Control \/ AwaitReady \/ ClearError \/ WriteValue \/ WriteCommand \/ AwaitDone \/ ReadData
  \/ EndAccess
  \/ \E s \in Slaves : Complete(s)

LEMMA SlavesOfApplication == Init => application.slaves \subseteq Slaves
BY SlavesAssumption DEF Init, Slaves

LEMMA EepromSteps ==
  ASSUME EepromTypeOK, application.slaves \subseteq Slaves, [Next]_vars
  PROVE  EepromAct \/ UNCHANGED eepvars
<1>1. CASE Supervise
  BY <1>1 DEF Supervise
<1>2. CASE AccessEeproms
  BY <1>2, CallsBegin, Zenon DEF AccessEeproms, EepromNext, EepromAct
<1>3. CASE UNCHANGED vars
  BY <1>3 DEF vars
<1> QED
  BY <1>1, <1>2, <1>3 DEF Next

LEMMA EepromTypeStep ==
  ASSUME EepromTypeOK, application.slaves \subseteq Slaves, [Next]_vars
  PROVE  EepromTypeOK'
<1>1. CASE UNCHANGED eepvars
  BY <1>1 DEF eepvars, cache, EepromTypeOK
<1>2. CASE EepromAct
  BY <1>2, TypeBegin, TypeControl, TypeAwaitReady, TypeClearError, TypeWriteValue,
     TypeWriteCommand, TypeAwaitDone, TypeReadData, TypeEndAccess, TypeComplete, Zenon
     DEF EepromAct
<1> QED
  BY <1>1, <1>2, EepromSteps

-----------------------------------------------------------------------------
(* The steps keep the EEPROMs' invariant while no frame is lost.           *)
LEMMA WordsOfVersions ==
  /\ \A s, w : Content(s, w) = ContentIn(sii, s, w)
  /\ \A versions, s, w :
       ContentIn(versions, s, w) = Cut(ContentIn(versions, s, w), Chunk(s))
<1>1. \A s, w : Content(s, w) = ContentIn(sii, s, w)
  BY Zenon DEF Content, ContentIn, Word, WordIn
<1>2. \A versions, s, w :
        ContentIn(versions, s, w) = Cut(ContentIn(versions, s, w), Chunk(s))
  BY DEF ContentIn, Cut
<1> QED
  BY <1>1, <1>2

LEMMA SameVersions ==
  ASSUME NEW v1, NEW v2, NEW s, NEW w, v1[s] = v2[s]
  PROVE  ContentIn(v1, s, w) = ContentIn(v2, s, w)
BY DEF ContentIn, WordIn

LEMMA EepromInvInit == Init => EepromInv
<1> SUFFICES ASSUME EepromInit
             PROVE  EepromInv
  BY DEF Init
<1> USE DEF EepromInit
<1>1. InterfaceOK
  BY DEF InterfaceOK, Latched, Undisturbed
<1>2. CommandOK
  BY DEF CommandOK
<1>3. AnswerOK
  BY DEF AnswerOK
<1>4. CacheOK
  BY DEF CacheOK
<1> QED
  BY <1>1, <1>2, <1>3, <1>4 DEF EepromInv

LEMMA InvBegin ==
  ASSUME EepromTypeOK, EepromInv, NEW o \in Gives \cup {"read2", "pdi"}, NEW s \in Slaves,
         NEW v \in 0 .. SiiWords - 1, NEW first \in {"master", "ready?", "pdi"},
         Begins(o, s, v, first)
  PROVE  EepromInv'
<1>1. step = "idle" /\ step' = first /\ UNCHANGED <<edat, nackcnt, eep_pdi, esc, sii>>
  BY DEF Begins, Access
<1>2. call'.op = o /\ call'.slave = s /\ call'.word = v
  BY DEF Begins, Access
<1>3. InterfaceOK'
  BY <1>1 DEF EepromInv, InterfaceOK, Latched, Undisturbed
<1>4. CommandOK'
  BY <1>1, <1>2 DEF Begins, CommandOK, Gives, Reads, Writes
<1>5. AnswerOK'
  BY <1>1 DEF EepromInv, AnswerOK
<1>6. CacheOK'
  BY <1>2 DEF EepromInv, Begins, CacheOK, CachedWord, Cached, cache
<1> QED
  BY <1>3, <1>4, <1>5, <1>6 DEF EepromInv

(* Without a loss every frame is answered.                                 *)
LEMMA Answered ==
  ASSUME lost \in Nat, lost' = 0, NEW way, OnBus(way)
  PROVE  way = "answered" /\ lost = 0
BY DEF OnBus, Counted

LEMMA InvControl ==
  ASSUME EepromTypeOK, EepromInv, lost \in Nat, lost' = 0, Control
  PROVE  EepromInv'
<1>1. /\ step \in {"master", "pdi"} /\ UNCHANGED <<call, edat, nackcnt, asked, cache, sii>>
      /\ step' = IF step = "master" THEN "ready?" ELSE "returned"
      /\ SetControl(step = "pdi")
  BY DEF Control
<1>2. call.slave \in Slaves /\ Own \in EscType
  BY <1>1, CallTyped
<1>3. /\ eep_pdi' = IF step = "pdi" THEN eep_pdi \cup {call.slave} ELSE eep_pdi \ {call.slave}
      /\ IF eep_pdi' = eep_pdi THEN esc' = esc
         ELSE SetEsc(call.slave, [Own EXCEPT !.pdi = (step = "pdi")])
  BY <1>1, Answered DEF SetControl
<1>4. \A s \in Slaves :
        /\ esc'[s].pdi <=> s \in eep_pdi'
        /\ esc'[s].busy = esc[s].busy /\ esc'[s].command = esc[s].command
        /\ esc'[s].word = esc[s].word /\ esc'[s].nack = esc[s].nack
        /\ esc'[s].data = esc[s].data
  <2>1. CASE eep_pdi' = eep_pdi
    BY <1>3, <2>1 DEF EepromInv, InterfaceOK
  <2>2. CASE eep_pdi' # eep_pdi
    <3>1. /\ esc'[call.slave] = [Own EXCEPT !.pdi = (step = "pdi")]
          /\ \A s \in Slaves : s # call.slave => esc'[s] = esc[s]
      BY <1>2, <1>3, <2>2, EscSet DEF EepromTypeOK
    <3>2. ASSUME NEW s \in Slaves, s # call.slave
          PROVE  esc'[s].pdi <=> s \in eep_pdi'
      BY <3>1, <3>2, <1>3 DEF EepromInv, InterfaceOK
    <3>3. esc'[call.slave].pdi <=> call.slave \in eep_pdi'
      BY <3>1, <1>2, <1>3, <1>1 DEF EscType
    <3>4. ASSUME NEW s \in Slaves
          PROVE  /\ esc'[s].busy = esc[s].busy /\ esc'[s].command = esc[s].command
                 /\ esc'[s].word = esc[s].word /\ esc'[s].nack = esc[s].nack
                 /\ esc'[s].data = esc[s].data
      BY <3>1, <1>2 DEF EscType, Own
    <3> QED
      BY <3>2, <3>3, <3>4, Zenon
  <2> QED
    BY <2>1, <2>2
<1>5. InterfaceOK'
  <2> SUFFICES ASSUME NEW s \in Slaves
               PROVE  /\ esc'[s].pdi <=> s \in eep_pdi'
                      /\ Undisturbed(s)' => Latched(s)'
                      /\ esc'[s].busy /\ esc'[s].command = "write" =>
                           esc'[s].word \in 0 .. SiiWords - 1
    BY Zenon DEF InterfaceOK
  <2>1. Undisturbed(s)
    BY <1>1 DEF Undisturbed
  <2> QED
    BY <1>1, <1>4, <2>1 DEF EepromInv, InterfaceOK, Latched
<1>6. CommandOK'
  BY <1>1, <1>3 DEF EepromInv, CommandOK
<1>7. AnswerOK'
  BY <1>1, WordsTyped DEF EepromInv, AnswerOK, CommandOK, Reads
<1>8. CacheOK'
  BY <1>1 DEF EepromInv, CacheOK, CachedWord, cache
<1> QED
  BY <1>5, <1>6, <1>7, <1>8 DEF EepromInv

(* Without a loss a status that is read is true.                           *)
LEMMA StatusTrue ==
  ASSUME EepromTypeOK, step # "idle", lost \in Nat, lost' = 0, NEW estat, WaitNotBusy(estat)
  PROVE  /\ lost = 0
         /\ \/ estat = "busy" /\ Own.busy
            \/ estat = "nack" /\ ~Own.busy /\ Own.nack
            \/ estat = "ok" /\ ~Own.busy /\ ~Own.nack
<1>1. CASE estat = "unknown" /\ lost < MaxLost /\ OnBus("unanswered")
  BY <1>1 DEF OnBus, Counted
<1>2. CASE /\ estat = (IF Own.nack THEN "nack" ELSE "ok")
           /\ ~Own.busy /\ UNCHANGED busvars
  BY <1>2, Zenon DEF busvars
<1>3. CASE estat = "busy" /\ Own.busy /\ UNCHANGED busvars
  BY <1>3, Zenon DEF busvars
<1> QED
  BY <1>1, <1>2, <1>3 DEF WaitNotBusy

(* The EEPROMs stay as they are.                                           *)
LEMMA InterfaceKept ==
  ASSUME InterfaceOK, UNCHANGED <<eep_pdi, esc, sii, call>>,
         step \in {"value", "command"} =>
           (call.slave \in Slaves => Latched(call.slave)) \/ step' \in {"value", "command"}
  PROVE  InterfaceOK'
BY DEF InterfaceOK, Latched, Undisturbed

LEMMA InvAwaitReady ==
  ASSUME EepromTypeOK, EepromInv, lost \in Nat, lost' = 0, AwaitReady
  PROVE  EepromInv'
<1>1. /\ step = "ready?" /\ UNCHANGED <<call, edat, nackcnt, asked, eep_pdi, cache, esc, sii>>
      /\ UNCHANGED <<esislave, esibuf, refused>>
  BY DEF AwaitReady, cache
<1>2. PICK estat \in Status :
        /\ WaitNotBusy(estat)
        /\ step' = IF estat = "busy" THEN "refused"
                   ELSE IF call.op = "read2" THEN "data32"
                   ELSE IF estat = "nack" THEN "clear"
                   ELSE Order
  BY Zenon DEF AwaitReady
<1>3. \/ estat = "busy" /\ step' = "refused"
      \/ ~Own.busy /\ call.op = "read2" /\ step' = "data32"
      \/ ~Own.busy /\ call.op # "read2" /\ step' = "clear"
      \/ ~Own.busy /\ call.op = "write" /\ step' = "value"
      \/ ~Own.busy /\ call.op \notin {"read2", "write"} /\ step' = "command"
  <2>1. \/ estat = "busy" /\ Own.busy
        \/ estat = "nack" /\ ~Own.busy /\ Own.nack
        \/ estat = "ok" /\ ~Own.busy /\ ~Own.nack
    BY <1>1, <1>2, StatusTrue
  <2>2. CASE estat = "busy"
    BY <1>2, <2>2
  <2>3. CASE estat # "busy" /\ call.op = "read2"
    BY <1>2, <2>1, <2>3
  <2>4. CASE estat = "nack" /\ call.op # "read2"
    BY <1>2, <2>1, <2>4
  <2>5. CASE estat = "ok" /\ call.op # "read2"
    BY <1>2, <2>1, <2>5 DEF Order
  <2> QED
    BY <2>1, <2>2, <2>3, <2>4, <2>5
<1>4. InterfaceOK'
  BY <1>1, InterfaceKept DEF EepromInv
<1>5. Own' = Own
  BY <1>1 DEF Own
<1>6. CommandOK'
  BY <1>1, <1>3, <1>5 DEF EepromInv, CommandOK
<1>7. AnswerOK'
  BY <1>1, <1>3, <1>5, WordsTyped DEF EepromInv, AnswerOK, CommandOK, Gives, Reads, Writes
<1>8. CacheOK'
  BY <1>1 DEF EepromInv, CacheOK, CachedWord
<1> QED
  BY <1>4, <1>6, <1>7, <1>8 DEF EepromInv

(* A command finds an EEPROM that belongs to the master.                   *)
LEMMA Owned ==
  ASSUME EepromTypeOK, EepromInv, step \in {"clear", "value", "command"}
  PROVE  ~Own.pdi /\ call.op \in Gives /\ call.slave \in Slaves
<1>1. call.slave \in Slaves
  BY CallTyped
<1>2. call.op \in Gives /\ call.slave \notin eep_pdi
  BY DEF EepromInv, CommandOK
<1> QED
  BY <1>1, <1>2, Zenon DEF EepromInv, InterfaceOK, Own

(* What a step does to the EEPROM of the call leaves the others alone.     *)
LEMMA OthersKept ==
  ASSUME EepromTypeOK, InterfaceOK, call.slave \in Slaves, UNCHANGED <<eep_pdi, sii, call>>,
         \A t \in Slaves : t # call.slave => esc'[t] = esc[t],
         Own'.pdi <=> Own.pdi,
         step' \notin {"value", "command"} => Latched(call.slave)',
         Own'.busy /\ Own'.command = "write" => Own'.word \in 0 .. SiiWords - 1
  PROVE  InterfaceOK'
<1> SUFFICES ASSUME NEW s \in Slaves
             PROVE  /\ esc'[s].pdi <=> s \in eep_pdi'
                    /\ Undisturbed(s)' => Latched(s)'
                    /\ esc'[s].busy /\ esc'[s].command = "write" =>
                         esc'[s].word \in 0 .. SiiWords - 1
  BY Zenon DEF InterfaceOK
<1>1. CASE s = call.slave
  BY <1>1, Zenon DEF InterfaceOK, Own, Undisturbed
<1>2. CASE s # call.slave
  BY <1>2, Zenon DEF InterfaceOK, Undisturbed, Latched
<1> QED
  BY <1>1, <1>2

LEMMA InvClearError ==
  ASSUME EepromTypeOK, EepromInv, lost \in Nat, lost' = 0, ClearError
  PROVE  EepromInv'
<1>1. /\ step = "clear" /\ step' = Order
      /\ UNCHANGED <<call, edat, nackcnt, asked, eep_pdi, cache, sii>>
      /\ UNCHANGED <<esislave, esibuf, refused>>
  BY DEF ClearError, cache
<1>2. SetEsc(call.slave, [Own EXCEPT !.nack = FALSE]) /\ call.slave \in Slaves
      /\ call.op \in Gives
  BY <1>1, Owned, Answered DEF ClearError
<1>3. Own' = [Own EXCEPT !.nack = FALSE] /\ \A t \in Slaves : t # call.slave => esc'[t] = esc[t]
  BY <1>1, <1>2, EscSet DEF EepromTypeOK, Own
<1>4. Own \in EscType
  BY <1>1, CallTyped
<1>5. Own'.busy = Own.busy /\ Own'.pdi = Own.pdi
  BY <1>3, <1>4 DEF EscType
<1>6. ~Own.busy
  BY <1>1 DEF EepromInv, CommandOK
<1>7. step' \in {"value", "command"} /\ (step' = "value" <=> call.op = "write")
  BY <1>1 DEF Order
<1>8. InterfaceOK'
  BY <1>1, <1>2, <1>3, <1>5, <1>6, <1>7, OthersKept, Zenon DEF EepromInv
<1>9. CommandOK'
  BY <1>1, <1>2, <1>5, <1>6, <1>7 DEF EepromInv, CommandOK
<1>10. AnswerOK'
  BY <1>1, <1>7 DEF EepromInv, AnswerOK
<1>11. CacheOK'
  BY <1>1 DEF EepromInv, CacheOK, CachedWord
<1> QED
  BY <1>8, <1>9, <1>10, <1>11 DEF EepromInv

LEMMA InvWriteValue ==
  ASSUME EepromTypeOK, EepromInv, lost \in Nat, lost' = 0, WriteValue
  PROVE  EepromInv'
<1> DEFINE value == <<call.slave, call.word, call.version>>
<1>1. /\ step = "value" /\ step' = "command"
      /\ UNCHANGED <<call, edat, nackcnt, asked, eep_pdi, cache, sii>>
      /\ UNCHANGED <<esislave, esibuf, refused>>
  BY DEF WriteValue, cache
<1>2. SetEsc(call.slave, [Own EXCEPT !.data[1] = value]) /\ call.slave \in Slaves
      /\ call.op \in Gives
  BY <1>1, Owned, Answered DEF WriteValue
<1>3. Own' = [Own EXCEPT !.data[1] = value]
      /\ \A t \in Slaves : t # call.slave => esc'[t] = esc[t]
  BY <1>1, <1>2, EscSet DEF EepromTypeOK, Own
<1>4. Own \in EscType
  BY <1>1, CallTyped
<1>5. Own'.busy = Own.busy /\ Own'.pdi = Own.pdi /\ Own'.data[1] = value
  BY <1>3, <1>4 DEF EscType
<1>6. /\ Own.busy => Given
      /\ Own'.command = Own.command /\ Own'.word = Own.word /\ Kind' = Kind
  BY <1>1, <1>3, <1>4 DEF EepromInv, CommandOK, EscType, Kind
<1>a. Own.busy /\ Own.command = "write" => Own.word \in 0 .. SiiWords - 1
  BY <1>2, Zenon DEF EepromInv, InterfaceOK, Own
<1>7. InterfaceOK'
  BY <1>1, <1>2, <1>3, <1>5, <1>6, <1>a, OthersKept, Zenon DEF EepromInv
<1>8. CommandOK'
  BY <1>1, <1>2, <1>5, <1>6 DEF EepromInv, CommandOK, Given
<1>9. AnswerOK'
  BY <1>1 DEF EepromInv, AnswerOK
<1>10. CacheOK'
  BY <1>1 DEF EepromInv, CacheOK, CachedWord
<1> QED
  BY <1>7, <1>8, <1>9, <1>10 DEF EepromInv

LEMMA InvWriteCommand ==
  ASSUME EepromTypeOK, EepromInv, lost \in Nat, lost' = 0, WriteCommand
  PROVE  EepromInv'
<1> DEFINE given == [Own EXCEPT !.busy = TRUE, !.command = Kind,
                                !.word = call.word, !.nack = FALSE]
<1>1. /\ step = "command" /\ step' = IF call.op = "read1" THEN "returned" ELSE "done?"
      /\ UNCHANGED <<call, edat, nackcnt, asked, eep_pdi, cache, sii>>
      /\ UNCHANGED <<esislave, esibuf, refused>>
  BY DEF WriteCommand, cache
<1>2. IF Own.busy THEN esc' = esc ELSE SetEsc(call.slave, given)
  BY <1>1, Owned, Answered DEF WriteCommand, Kind, Writes
<1>3. call.slave \in Slaves /\ call.op \in Gives /\ Own \in EscType /\ Own.data \in [1 .. 4 -> Words]
      /\ call.word \in 0 .. SiiWords - 1
  BY <1>1, Owned, CallTyped
<1>4. /\ Own'.busy /\ Own'.command = Kind /\ Own'.word = call.word
      /\ Own'.pdi = Own.pdi /\ Own'.data = Own.data
      /\ \A t \in Slaves : t # call.slave => esc'[t] = esc[t]
  <2>1. CASE Own.busy
    <3>1. Own' = Own
      BY <1>1, <1>2, <2>1 DEF Own
    <3> QED
      BY <1>1, <1>2, <2>1, <3>1 DEF EepromInv, CommandOK, Given
  <2>2. CASE ~Own.busy
    <3>1. Own' = given /\ \A t \in Slaves : t # call.slave => esc'[t] = esc[t]
      BY <1>1, <1>2, <1>3, <2>2, EscSet DEF EepromTypeOK, Own
    <3>2. given.busy = TRUE /\ given.command = Kind /\ given.word = call.word
          /\ given.pdi = Own.pdi /\ given.data = Own.data
      BY <1>3 DEF EscType
    <3> QED
      BY <3>1, <3>2, Zenon
  <2> QED
    BY <2>1, <2>2
<1>5. Kind' = Kind
  BY <1>1 DEF Kind
<1>6. Latched(call.slave)'
  BY <1>1, <1>4 DEF Latched, Own
<1>7. InterfaceOK'
  BY <1>1, <1>3, <1>4, <1>6, OthersKept, Zenon DEF EepromInv
<1>8. CommandOK'
  BY <1>1, <1>3, <1>4, <1>5 DEF EepromInv, CommandOK, Given, Done, Gives, Reads, Writes
<1>9. AnswerOK'
  BY <1>1, WordsTyped DEF EepromInv, AnswerOK, Reads
<1>10. CacheOK'
  BY <1>1 DEF EepromInv, CacheOK, CachedWord
<1> QED
  BY <1>7, <1>8, <1>9, <1>10 DEF EepromInv

LEMMA InvAwaitDone ==
  ASSUME EepromTypeOK, EepromInv, lost \in Nat, lost' = 0, AwaitDone
  PROVE  EepromInv'
<1>1. /\ step = "done?" /\ UNCHANGED <<call, asked, eep_pdi, cache, esc, sii>>
      /\ UNCHANGED <<esislave, esibuf, refused>>
  BY DEF AwaitDone, cache
<1>2. call.op \in Reads \cup Writes /\ Given /\ edat = Failed
  BY <1>1 DEF EepromInv, CommandOK, AnswerOK
<1>3. \/ step' \in {Order, "refused"} /\ edat' = edat
      \/ Done /\ call.op = "write" /\ step' = "returned" /\ edat' = Written
      \/ /\ Done /\ call.op # "write" /\ edat' = edat
         /\ step' = IF call.slave \in Wide THEN "data64" ELSE "data32"
  <2>1. PICK estat \in Status :
          /\ WaitNotBusy(estat)
          /\ IF NotAcknowledged(estat) \/ estat = "busy"
             THEN /\ step' = IF nackcnt' \in 1 .. 2 THEN Order ELSE "refused"
                  /\ UNCHANGED edat
             ELSE IF call.op = "write" THEN step' = "returned" /\ edat' = Written
             ELSE /\ step' = IF estat # "unknown" /\ call.slave \in Wide
                             THEN "data64" ELSE "data32"
                  /\ UNCHANGED edat
    BY Zenon DEF AwaitDone
  <2>2. \/ estat = "busy" /\ Own.busy
        \/ estat = "nack" /\ ~Own.busy /\ Own.nack
        \/ estat = "ok" /\ ~Own.busy /\ ~Own.nack
    BY <1>1, <2>1, StatusTrue
  <2>3. CASE estat \in {"nack", "busy"}
    BY <2>1, <2>3 DEF NotAcknowledged
  <2>4. CASE estat = "ok" /\ call.op = "write"
    BY <2>1, <2>2, <2>4 DEF NotAcknowledged, Done
  <2>5. CASE estat = "ok" /\ call.op # "write"
    BY <2>1, <2>2, <2>5 DEF NotAcknowledged, Done
  <2> QED
    BY <2>2, <2>3, <2>4, <2>5
<1>4. InterfaceOK'
  BY <1>1, InterfaceKept DEF EepromInv
<1>5. Own' = Own /\ Kind' = Kind /\ (Given' <=> Given) /\ (Done' <=> Done)
  BY <1>1 DEF Own, Kind, Given, Done
<1>9. Order = IF call.op = "write" THEN "value" ELSE "command"
  BY DEF Order
<1>6. CommandOK'
  BY <1>1, <1>2, <1>3, <1>5, <1>9 DEF EepromInv, CommandOK, Gives, Writes
<1>7. AnswerOK'
  <2>1. step' \in {"data32", "data64"} =>
          /\ call.op \in Reads /\ Done /\ ~Own.busy /\ edat' = Failed
          /\ step' = "data64" <=> call.slave \in Wide
    BY <1>2, <1>3, <1>9 DEF Reads, Writes, Done
  <2>2. step' = "returned" => edat' = Written /\ Done /\ call.op = "write"
    BY <1>2, <1>3, <1>9
  <2>3. call.op = "write" => call.op \notin Reads \cup {"read2"}
    BY DEF Reads
  <2>4. call.op \in Reads => call.op # "read2"
    BY DEF Reads
  <2>5. step' \in {"value", "command", "refused"} => edat' = Failed
    BY <1>2, <1>3
  <2>6. step' \in {"value", "command", "refused", "returned", "data32", "data64"}
    BY <1>3, <1>9
  <2>7. call.op = "write" /\ Done => sii[call.slave][call.word] = call.version
    BY <1>1 DEF EepromInv, CommandOK
  <2>8. Done => ~Own.busy
    BY DEF Done
  <2> QED
    BY <1>1, <1>2, <1>5, <2>1, <2>2, <2>3, <2>4, <2>5, <2>6, <2>7, <2>8, Zenon DEF AnswerOK
<1>8. CacheOK'
  BY <1>1 DEF EepromInv, CacheOK, CachedWord
<1> QED
  BY <1>4, <1>6, <1>7, <1>8 DEF EepromInv

LEMMA InvReadData ==
  ASSUME EepromTypeOK, EepromInv, lost \in Nat, lost' = 0, ReadData
  PROVE  EepromInv'
<1>1. /\ step \in {"data32", "data64"} /\ step' = "returned"
      /\ UNCHANGED <<call, nackcnt, asked, eep_pdi, cache, esc, sii>>
      /\ UNCHANGED <<esislave, esibuf, refused>>
      /\ edat' = Cut(Own.data, IF step = "data64" THEN 4 ELSE 2)
  BY Answered DEF ReadData, cache
<1>2. Own' = Own /\ Kind' = Kind /\ (Given' <=> Given)
  BY <1>1 DEF Own, Kind, Given
<1>3. call.slave \in Slaves /\ Own.data \in [1 .. 4 -> Words]
  BY <1>1, CallTyped
<1>4. edat' # Written
  BY <1>1, <1>3, WordsTyped
<1>5. ~Own.busy /\ call.op \in Reads \cup {"read2"}
  BY <1>1 DEF EepromInv, AnswerOK
<1>6. CASE call.op \in Reads
  <2>1. Given /\ Done /\ (step = "data64" <=> call.slave \in Wide)
    BY <1>1, <1>6 DEF EepromInv, AnswerOK
  <2>2. Undisturbed(call.slave) /\ Kind = "read"
    BY <1>1, <1>6 DEF Undisturbed, Kind, Reads, Writes
  <2>3. Own.data = ContentIn(sii, call.slave, call.word)
    BY <1>3, <2>1, <2>2, Zenon DEF EepromInv, InterfaceOK, Latched, Own, Given, Done
  <2>4. edat' = ContentIn(sii, call.slave, call.word)
    BY <1>1, <2>1, <2>3, WordsOfVersions DEF Chunk
  <2>5. call.op # "read2"
    BY <1>6 DEF Reads
  <2>6. AnswerOK'
    BY <1>1, <1>2, <1>4, <1>5, <2>1, <2>4, <2>5, Zenon DEF AnswerOK
  <2> QED
    BY <1>1, <2>6, InterfaceKept DEF EepromInv, CommandOK, CacheOK, CachedWord
<1>7. CASE call.op = "read2"
  <2>1. edat' = Cut(Own.data, 2)
    BY <1>1, <1>7 DEF EepromInv, AnswerOK
  <2>2. call.op \notin Reads
    BY <1>7 DEF Reads
  <2>3. AnswerOK'
    BY <1>1, <1>2, <1>4, <1>5, <2>1, <2>2, Zenon DEF AnswerOK
  <2> QED
    BY <1>1, <2>3, InterfaceKept DEF EepromInv, CommandOK, CacheOK, CachedWord
<1> QED
  BY <1>5, <1>6, <1>7

LEMMA InvEndAccess ==
  ASSUME EepromTypeOK, EepromInv, EndAccess
  PROVE  EepromInv'
<1>1. /\ step \in {"returned", "refused"} /\ step' = "idle" /\ edat' = Failed
      /\ UNCHANGED <<asked, eep_pdi, esislave, esc, sii>>
  BY DEF EndAccess
<1>2. InterfaceOK'
  BY <1>1 DEF EepromInv, InterfaceOK, Latched, Undisturbed
<1>3. CommandOK'
  BY <1>1 DEF CommandOK
<1>4. AnswerOK'
  BY <1>1 DEF AnswerOK
<1>5. CASE call.op # "sii"
  BY <1>1, <1>2, <1>3, <1>4, <1>5 DEF EndAccess, EepromInv, CacheOK, CachedWord
<1>6. CASE call.op = "sii"
  <2> DEFINE filled == call.word .. call.word + Chunk(call.slave) - 1
  <2>1. /\ esibuf' = [w \in DOMAIN esibuf \cup filled |->
                        IF w \in filled THEN edat[w - call.word + 1] ELSE esibuf[w]]
        /\ refused' = IF step = "refused" THEN refused \cup filled ELSE refused \ filled
    BY <1>6 DEF EndAccess
  <2>2. call.slave \in Slaves /\ call.word \in Nat /\ Chunk(call.slave) \in {2, 4}
    BY <1>1, CallTyped DEF Chunk
  <2>3. edat = IF step = "refused" THEN Failed ELSE ContentIn(sii, call.slave, call.word)
    BY <1>1, <1>6 DEF EepromInv, AnswerOK, Reads
  <2>4. ASSUME NEW w \in filled
        PROVE  edat[w - call.word + 1]
                 = IF step = "refused" THEN Zero ELSE WordIn(sii, call.slave, w)
    <3>1. PICK i \in 1 .. 4 : i = w - call.word + 1 /\ i <= Chunk(call.slave)
      BY <2>2
    <3>2. w = call.word + i - 1
      BY <2>2, <3>1
    <3>3. Failed[i] = Zero
      BY DEF Failed
    <3>4. ContentIn(sii, call.slave, call.word)[i] = WordIn(sii, call.slave, call.word + i - 1)
      BY <3>1 DEF ContentIn, Cut
    <3> QED
      BY <2>3, <3>1, <3>2, <3>3, <3>4
  <2>5. esislave = call.slave
    BY <1>1, <1>6 DEF EepromInv, CacheOK
  <2>6. ASSUME NEW w \in DOMAIN esibuf'
        PROVE  esibuf'[w] = CachedWord(w)'
    <3>1. CASE w \in filled
      <4>1. esibuf'[w] = IF step = "refused" THEN Zero ELSE WordIn(sii, call.slave, w)
        BY <2>1, <2>4, <3>1
      <4>2. w \in refused' <=> step = "refused"
        BY <1>1, <2>1, <3>1
      <4> QED
        BY <1>1, <2>5, <4>1, <4>2 DEF CachedWord, WordIn
    <3>2. CASE w \notin filled
      <4>1. w \in DOMAIN esibuf /\ esibuf'[w] = esibuf[w]
        BY <2>1, <2>6, <3>2
      <4>2. w \in refused' <=> w \in refused
        BY <1>1, <2>1, <3>2
      <4> QED
        BY <1>1, <4>1, <4>2 DEF EepromInv, CacheOK, CachedWord
    <3> QED
      BY <3>1, <3>2
  <2> QED
    BY <1>1, <1>2, <1>3, <1>4, <2>6 DEF EepromInv, CacheOK
<1> QED
  BY <1>5, <1>6

(* An EEPROM that completes its command.                                   *)
LEMMA Completed ==
  ASSUME EepromTypeOK, InterfaceOK, NEW s \in Slaves, Complete(s)
  PROVE  /\ esc[s].busy /\ ~esc'[s].busy
         /\ esc'[s].pdi = esc[s].pdi /\ esc'[s].command = esc[s].command
         /\ esc'[s].word = esc[s].word
         /\ esc[s].command = "write" => esc'[s].data = esc[s].data
         /\ \A t \in Slaves : t # s => esc'[t] = esc[t] /\ sii'[t] = sii[t]
         /\ Latched(s)'
         /\ esc[s].command = "write" /\ ~esc'[s].nack =>
              sii'[s][esc[s].word] = esc[s].data[1][3]
<1>1. esc[s] \in EscType /\ esc[s].busy /\ esc[s].word \in Nat
  BY DEF Complete, EepromTypeOK, EscType
<1> DEFINE read == [esc[s] EXCEPT !.busy = FALSE, !.data = Content(s, esc[s].word)]
           written == [esc[s] EXCEPT !.busy = FALSE]
           unwilling == [esc[s] EXCEPT !.busy = FALSE, !.nack = TRUE]
           after_ == [sii EXCEPT ![s][esc[s].word] = esc[s].data[1][3]]
<1>2. CASE esc[s].command = "read" /\ SetEsc(s, read) /\ sii' = sii
  <2>1. esc'[s] = read /\ \A t \in Slaves : t # s => esc'[t] = esc[t]
    BY <1>2, EscSet DEF EepromTypeOK
  <2>2. /\ ~read.busy /\ read.pdi = esc[s].pdi /\ read.command = "read"
        /\ read.word = esc[s].word /\ read.data = Content(s, esc[s].word)
    BY <1>1, <1>2 DEF EscType
  <2>3. Content(s, esc[s].word) = ContentIn(sii, s, esc[s].word)
    BY WordsOfVersions, Zenon
  <2>4. Latched(s)'
    BY <1>2, <2>1, <2>2, <2>3, Zenon DEF Latched
  <2> QED
    BY <1>1, <1>2, <2>1, <2>2, <2>4
<1>3. CASE esc[s].command = "write" /\ SetEsc(s, written) /\ sii' = after_
  <2>1. esc'[s] = written /\ \A t \in Slaves : t # s => esc'[t] = esc[t]
    BY <1>3, EscSet DEF EepromTypeOK
  <2>2. /\ ~written.busy /\ written.pdi = esc[s].pdi /\ written.command = "write"
        /\ written.word = esc[s].word /\ written.data = esc[s].data
    BY <1>1, <1>3 DEF EscType
  <2>3. Latched(s)'
    BY <2>1, <2>2 DEF Latched
  <2>4. esc[s].word \in 0 .. SiiWords - 1
    BY <1>1, <1>3 DEF InterfaceOK
  <2>5. sii'[s][esc[s].word] = esc[s].data[1][3] /\ \A t \in Slaves : t # s => sii'[t] = sii[t]
    BY <1>3, <2>4 DEF EepromTypeOK
  <2> QED
    BY <1>1, <1>3, <2>1, <2>2, <2>3, <2>5
<1>4. CASE SetEsc(s, unwilling) /\ sii' = sii
  <2>1. esc'[s] = unwilling /\ \A t \in Slaves : t # s => esc'[t] = esc[t]
    BY <1>4, EscSet DEF EepromTypeOK
  <2>2. /\ ~unwilling.busy /\ unwilling.pdi = esc[s].pdi /\ unwilling.command = esc[s].command
        /\ unwilling.word = esc[s].word /\ unwilling.data = esc[s].data /\ unwilling.nack
    BY <1>1, <1>4 DEF EscType
  <2>3. Latched(s)'
    BY <2>1, <2>2 DEF Latched
  <2> QED
    BY <1>1, <1>4, <2>1, <2>2, <2>3
<1> QED
  BY <1>2, <1>3, <1>4 DEF Complete

LEMMA InvComplete ==
  ASSUME EepromTypeOK, EepromInv, NEW s \in Slaves, Complete(s)
  PROVE  EepromInv'
<1>1. UNCHANGED <<step, call, edat, nackcnt, asked, eep_pdi, cache>>
      /\ UNCHANGED <<esislave, esibuf, refused>>
  BY DEF Complete, cache
<1>2. /\ esc[s].busy /\ ~esc'[s].busy
      /\ esc'[s].pdi = esc[s].pdi /\ esc'[s].command = esc[s].command
      /\ esc'[s].word = esc[s].word
      /\ esc[s].command = "write" => esc'[s].data = esc[s].data
      /\ \A t \in Slaves : t # s => esc'[t] = esc[t] /\ sii'[t] = sii[t]
      /\ Latched(s)'
      /\ esc[s].command = "write" /\ ~esc'[s].nack =>
           sii'[s][esc[s].word] = esc[s].data[1][3]
  BY Completed DEF EepromInv
<1>3. InterfaceOK'
  <2> SUFFICES ASSUME NEW t \in Slaves
               PROVE  /\ esc'[t].pdi <=> t \in eep_pdi'
                      /\ Undisturbed(t)' => Latched(t)'
                      /\ esc'[t].busy /\ esc'[t].command = "write" =>
                           esc'[t].word \in 0 .. SiiWords - 1
    BY Zenon DEF InterfaceOK
  <2>1. CASE t = s
    BY <1>1, <1>2, <2>1, Zenon DEF EepromInv, InterfaceOK
  <2>2. CASE t # s
    <3>1. esc'[t] = esc[t] /\ sii'[t] = sii[t]
      BY <1>2, <2>2
    <3>2. ContentIn(sii', t, esc[t].word) = ContentIn(sii, t, esc[t].word)
      BY <3>1, SameVersions
    <3>3. Latched(t)' <=> Latched(t)
      BY <3>1, <3>2, Zenon DEF Latched
    <3>4. Undisturbed(t)' <=> Undisturbed(t)
      BY <1>1 DEF Undisturbed
    <3> QED
      BY <1>1, <3>1, <3>3, <3>4, Zenon DEF EepromInv, InterfaceOK
  <2> QED
    BY <2>1, <2>2
<1>4. CASE step = "idle"
  BY <1>1, <1>3, <1>4 DEF EepromInv, CommandOK, AnswerOK, CacheOK, CachedWord
<1>5. CASE step # "idle" /\ call.slave # s
  <2>1. call.slave \in Slaves
    BY <1>5, CallTyped
  <2>2. Own' = Own /\ sii'[call.slave] = sii[call.slave]
    BY <1>1, <1>2, <1>5, <2>1 DEF Own
  <2>3. ContentIn(sii', call.slave, call.word) = ContentIn(sii, call.slave, call.word)
    BY <2>2, SameVersions
  <2>4. Kind' = Kind /\ (Given' <=> Given) /\ (Done' <=> Done)
    BY <1>1, <2>2 DEF Kind, Given, Done
  <2>5. CommandOK'
    BY <1>1, <2>2, <2>4, Zenon DEF EepromInv, CommandOK
  <2>6. AnswerOK'
    BY <1>1, <2>2, <2>3, <2>4, Zenon DEF EepromInv, AnswerOK
  <2>7. CacheOK'
    BY <1>1 DEF EepromInv, CacheOK, CachedWord
  <2> QED
    BY <1>3, <2>5, <2>6, <2>7 DEF EepromInv
<1>6. CASE step # "idle" /\ call.slave = s
  <2>1. /\ Own.busy /\ ~Own'.busy /\ Own'.command = Own.command /\ Own'.word = Own.word
        /\ Own.command = "write" => Own'.data = Own.data
        /\ Own.command = "write" /\ ~Own'.nack => sii'[call.slave][Own.word] = Own.data[1][3]
    BY <1>1, <1>2, <1>6 DEF Own
  <2>2. step \notin {"clear", "data32", "data64"}
    BY <2>1 DEF EepromInv, CommandOK, AnswerOK
  <2>3. CommandOK'
    <3>1. Kind' = Kind /\ (Given' <=> Given)
      BY <1>1, <2>1 DEF Kind, Given
    <3>2. ASSUME step \in {"value", "command", "done?"}, call.op = "write"
          PROVE  /\ Own.command = "write" /\ Own.word = call.word
                 /\ Own.data[1] = <<call.slave, call.word, call.version>>
      BY <2>1, <3>2 DEF EepromInv, CommandOK, Given, Kind, Writes
    <3>3. step = "done?" /\ call.op = "write" /\ Done' =>
            sii'[call.slave][call.word] = call.version
      BY <2>1, <3>2 DEF Done
    <3>4. step \in {"value", "command", "done?"} /\ call.op = "write" =>
            Own'.data[1] = <<call.slave, call.word, call.version>>
      BY <2>1, <3>2
    <3> QED
      BY <1>1, <2>1, <2>2, <3>1, <3>3, <3>4, Zenon DEF EepromInv, CommandOK
  <2>4. AnswerOK'
    BY <1>1, <2>1, <2>2, Zenon DEF EepromInv, AnswerOK
  <2>5. CacheOK'
    BY <1>1 DEF EepromInv, CacheOK, CachedWord
  <2> QED
    BY <1>3, <2>3, <2>4, <2>5 DEF EepromInv
<1> QED
  BY <1>4, <1>5, <1>6

-----------------------------------------------------------------------------
(* The history: a step loses a frame, or changes the wiring, or neither.   *)
Happens ==
  \/ \E way : Counted(way) /\ UNCHANGED changes
  \/ UNCHANGED <<lost, changes>>
  \/ Change

LEMMA StateHappens ==
  ASSUME NEW functions, NEW slaves, StateNext(functions, slaves)
  PROVE  Happens
<1>1. ASSUME NEW s, NEW state, writestate(s, state)
      PROVE  Happens
  BY <1>1, Zenon DEF writestate, Sending, Write, KeepBus, Happens
<1>2. ASSUME NEW function, NEW s, NEW state, NEW first, Begin(function, s, state, first)
      PROVE  Happens
  BY <1>2, Zenon DEF Begin, busvars, Happens
<1>3. CASE StateCall(functions, slaves)
  BY <1>1, <1>2, <1>3, Zenon DEF StateCall, readstate, statecheck, recover, reconfig
<1>4. CASE ReadBroadcast
  <2>1. PICK way \in Ways : Reading(way)
    BY <1>4 DEF ReadBroadcast
  <2> QED
    BY <2>1, Zenon DEF Reading, KeepBus, Happens
<1>5. CASE ReadGroup
  BY <1>5, Zenon DEF ReadGroup, Reading, KeepBus, Happens
<1>6. CASE Check
  BY <1>6, Zenon DEF Check, Reading, KeepBus, Happens
<1>7. CASE Recovery
  BY <1>7, Zenon DEF Recovery, ReadPosition, ClearTemporary, SetTemporary, Identify,
     GiveAddress, GiveUp, Reading, Sending, Write, KeepBus, Happens
<1>8. CASE Reconfigure
  BY <1>8, Zenon DEF Reconfigure, Request, Sending, Write, KeepBus, Happens
<1>9. CASE Return
  BY <1>9, Zenon DEF Return, busvars, Happens
<1>10. CASE Device
  BY <1>10, Zenon DEF Device, Obey, Refuse, FallBack, Set, Happens
<1>11. CASE Change
  BY <1>11, Zenon DEF Happens
<1> QED
  BY <1>3, <1>4, <1>5, <1>6, <1>7, <1>8, <1>9, <1>10, <1>11, Zenon DEF StateNext, Work

LEMMA EepromHappens ==
  ASSUME EepromTypeOK, application.slaves \subseteq Slaves, AccessEeproms
  PROVE  Happens /\ UNCHANGED <<wire, reg, callvars, seenvars>>
<1> DEFINE Quiet == Happens /\ UNCHANGED <<wire, reg>>
<1>1. ASSUME NEW way, OnBus(way)
      PROVE  Quiet
  BY <1>1, Zenon DEF OnBus, Happens
<1>2. ASSUME UNCHANGED busvars
      PROVE  Quiet
  BY <1>2, Zenon DEF busvars, Happens
<1> HIDE DEF Quiet
<1>3. ASSUME NEW o, NEW s, NEW v, NEW first, Begins(o, s, v, first)
      PROVE  Quiet
  BY <1>2, <1>3, Zenon DEF Begins, Access, busvars
<1>4. ASSUME EepromCall(application.functions, application.slaves)
      PROVE  Quiet
  BY <1>3, <1>4, CallsBegin, Zenon
<1>5. ASSUME Control
      PROVE  Quiet
  BY <1>1, <1>2, <1>5, Zenon DEF Control, SetControl, busvars
<1>6. ASSUME NEW estat, WaitNotBusy(estat)
      PROVE  Quiet
  BY <1>1, <1>2, <1>6, Zenon DEF WaitNotBusy
<1>7. ASSUME AwaitReady \/ AwaitDone
      PROVE  Quiet
  BY <1>6, <1>7, Zenon DEF AwaitReady, AwaitDone
<1>8. ASSUME ClearError \/ WriteValue \/ WriteCommand \/ ReadData
      PROVE  Quiet
  BY <1>1, <1>8, Zenon DEF ClearError, WriteValue, WriteCommand, ReadData
<1>9. ASSUME EndAccess \/ \E s \in Slaves : Complete(s)
      PROVE  Quiet
  BY <1>2, <1>9, Zenon DEF EndAccess, Complete, busvars
<1> QED
  BY <1>4, <1>5, <1>7, <1>8, <1>9, Zenon DEF AccessEeproms, EepromNext, Quiet

LEMMA HistoryGrows ==
  ASSUME lost \in Nat, changes \in Nat, EepromTypeOK, application.slaves \subseteq Slaves,
         [Next]_vars
  PROVE  lost' \in Nat /\ changes' \in Nat /\ lost <= lost' /\ changes <= changes'
<1>1. CASE UNCHANGED vars
  BY <1>1 DEF vars, statevars, busvars
<1>2. CASE Supervise \/ AccessEeproms
  <2>1. Happens
    BY <1>2, StateHappens, EepromHappens, Zenon DEF Supervise
  <2> QED
    BY <2>1 DEF Happens, Counted, Change
<1> QED
  BY <1>1, <1>2 DEF Next

-----------------------------------------------------------------------------
(* As long as no frame is lost, a read returns the words it was asked for, *)
(* or nothing if the EEPROM refuses, a write that reports success has      *)
(* written, and a word in the cache is that word of the cached slave, or 0 *)
(* exactly if its read was refused: for every number of slaves and words,  *)
(* whatever calls an application makes.                                    *)
EepromIInv ==
  /\ EepromTypeOK /\ application.slaves \subseteq Slaves
  /\ lost \in Nat /\ changes \in Nat
  /\ lost = 0 => EepromInv

LEMMA EepromIInvStep ==
  ASSUME EepromIInv, [Next]_vars
  PROVE  EepromIInv'
<1> USE DEF EepromIInv
<1>1. EepromTypeOK'
  BY EepromTypeStep
<1>2. application' = application
  BY DEF Next, vars
<1>3. lost' \in Nat /\ changes' \in Nat /\ lost <= lost'
  BY HistoryGrows
<1>4. ASSUME lost' = 0
      PROVE  EepromInv'
  <2>1. EepromInv
    BY <1>3, <1>4
  <2>2. CASE UNCHANGED eepvars
    BY <2>1, <2>2 DEF eepvars, cache, EepromInv, InterfaceOK, Latched, Undisturbed,
       CommandOK, AnswerOK, CacheOK, CachedWord, Given, Done, Kind, Own
  <2>3. CASE EepromAct
    BY <1>4, <2>1, <2>3, InvBegin, InvControl, InvAwaitReady, InvClearError, InvWriteValue,
       InvWriteCommand, InvAwaitDone, InvReadData, InvEndAccess, InvComplete, Zenon
       DEF EepromAct
  <2> QED
    BY <2>2, <2>3, EepromSteps
<1> QED
  BY <1>1, <1>2, <1>3, <1>4

LEMMA EepromTrue ==
  ASSUME EepromIInv
  PROVE  EepromIsTrue
<1> SUFFICES ASSUME lost = 0
             PROVE  /\ step = "returned" /\ call.op \in {"read", "read2", "sii"} => ReadTrue
                    /\ step = "refused" => edat = Failed
                    /\ edat = Written => sii[call.slave][call.word] = call.version
                    /\ \A w \in DOMAIN esibuf : esibuf[w] = CachedWord(w)
  BY Zenon DEF EepromIsTrue
<1>1. EepromInv /\ EepromTypeOK
  BY DEF EepromIInv
<1>a. Content(call.slave, call.word) = ContentIn(sii, call.slave, call.word)
  BY WordsOfVersions, Zenon
<1>2. ASSUME step = "returned", call.op \in Reads
      PROVE  ReadTrue
  <2>1. call.op # "read2"
    BY <1>2 DEF Reads
  <2> QED
    BY <1>1, <1>2, <1>a, <2>1 DEF ReadTrue, EepromInv, AnswerOK
<1>3. ASSUME step = "returned", call.op = "read2"
      PROVE  ReadTrue
  <2>1. ~Own.busy /\ edat = Cut(Own.data, 2)
    BY <1>1, <1>3 DEF EepromInv, AnswerOK
  <2>2. call.slave \in Slaves /\ Undisturbed(call.slave)
    BY <1>1, <1>3, CallTyped DEF Undisturbed
  <2>3. Acknowledged => Own.data = ContentIn(sii, call.slave, call.word)
    BY <1>1, <2>1, <2>2, Zenon DEF EepromInv, InterfaceOK, Latched, Acknowledged, Own
  <2> QED
    BY <1>3, <1>a, <2>1, <2>3, Zenon DEF ReadTrue
<1>4. edat = Written => sii[call.slave][call.word] = call.version
  BY <1>1, WordsTyped DEF EepromInv, AnswerOK
<1>5. step = "refused" => edat = Failed
  BY <1>1 DEF EepromInv, AnswerOK
<1>6. \A w \in DOMAIN esibuf : esibuf[w] = CachedWord(w)
  BY <1>1, Zenon DEF EepromInv, CacheOK
<1> QED
  BY <1>2, <1>3, <1>4, <1>5, <1>6 DEF Reads

THEOREM EepromReadsAreTrue == Spec => []EepromIsTrue
<1>1. Init => EepromIInv
  <2> SUFFICES ASSUME Init
               PROVE  EepromIInv
    OBVIOUS
  <2>1. EepromTypeOK /\ EepromInv /\ application.slaves \subseteq Slaves
    BY EepromTypeInit, EepromInvInit, SlavesOfApplication
  <2>2. lost \in Nat /\ changes \in Nat
    BY DEF Init, StateInit, BusInit
  <2> QED
    BY <2>1, <2>2 DEF EepromIInv
<1>2. EepromIInv /\ [Next]_vars => EepromIInv'
  BY EepromIInvStep
<1>3. EepromIInv => EepromIsTrue
  BY EepromTrue
<1> QED
  BY <1>1, <1>2, <1>3, PTL DEF Spec

-----------------------------------------------------------------------------
(* Types of the bus and of the calls about states.                         *)
LEMMA Numbers == SlaveCount \in Nat /\ SlaveCount >= 1 /\ TempNode \in Nat /\ TempNode \notin Slaves
                 /\ NoAddress \notin Slaves /\ NoAddress # TempNode /\ Slaves \subseteq Devices
                 /\ \A s \in Slaves : s \in 1 .. SlaveCount
BY BusAssumption DEF TempNode, NoAddress, Slaves, Devices

LEMMA AddressWritten ==
  ASSUME BusTypeOK, NEW way, NEW reached, NEW value \in 0 .. TempNode,
         Write(way, reached, "adr", value)
  PROVE  /\ reg' \in [Devices -> Register] /\ lost' \in Nat
         /\ \A d \in Devices :
              /\ reg'[d].adr = IF d \in reached /\ way # "lost" THEN value ELSE reg[d].adr
              /\ reg'[d].al = reg[d].al
<1>1. lost' \in Nat
  BY DEF BusTypeOK, Write, Counted
<1>2. ASSUME NEW d \in Devices
      PROVE  /\ reg'[d] \in Register
             /\ reg'[d].adr = IF d \in reached /\ way # "lost" THEN value ELSE reg[d].adr
             /\ reg'[d].al = reg[d].al
  <2>1. reg[d] \in Register
    BY DEF BusTypeOK
  <2>2. reg'[d] = IF d \in reached /\ way # "lost" THEN [reg[d] EXCEPT !["adr"] = value]
                  ELSE reg[d]
    BY DEF Write
  <2> QED
    BY <2>1, <2>2 DEF Register
<1>3. reg' = [d \in Devices |-> reg'[d]]
  BY DEF Write
<1> QED
  BY <1>1, <1>2, <1>3

LEMMA RequestWritten ==
  ASSUME BusTypeOK, NEW way, NEW reached, NEW value \in States,
         Write(way, reached, "want", value)
  PROVE  /\ reg' \in [Devices -> Register] /\ lost' \in Nat
         /\ \A d \in Devices : reg'[d].adr = reg[d].adr /\ reg'[d].al = reg[d].al
<1>1. lost' \in Nat
  BY DEF BusTypeOK, Write, Counted
<1>2. ASSUME NEW d \in Devices
      PROVE  reg'[d] \in Register /\ reg'[d].adr = reg[d].adr /\ reg'[d].al = reg[d].al
  <2>1. reg[d] \in Register
    BY DEF BusTypeOK
  <2>2. reg'[d] = IF d \in reached /\ way # "lost" THEN [reg[d] EXCEPT !["want"] = value]
                  ELSE reg[d]
    BY DEF Write
  <2> QED
    BY <2>1, <2>2 DEF Register
<1>3. reg' = [d \in Devices |-> reg'[d]]
  BY DEF Write
<1> QED
  BY <1>1, <1>2, <1>3

(* A device that changes its state keeps its address.                      *)
LEMMA DeviceTyped ==
  ASSUME BusTypeOK, Device
  PROVE  /\ BusTypeOK' /\ UNCHANGED <<wire, lost, changes>>
         /\ \A d \in Devices : reg'[d].adr = reg[d].adr
<1>1. PICK d \in Devices : Obey(d) \/ Refuse(d) \/ FallBack(d)
  BY DEF Device
<1>2. reg[d] \in Register
  BY DEF BusTypeOK
<1>3. PICK r : Set(d, r) /\ r \in Register /\ r.adr = reg[d].adr
  <2> DEFINE obeyed == [reg[d] EXCEPT !.al = reg[d].want, !.error = FALSE, !.want = 0]
             refusing == [reg[d] EXCEPT !.error = TRUE, !.want = 0]
             fallen == [reg[d] EXCEPT !.al = SAFE_OP, !.error = TRUE]
  <2>a. /\ reg[d].want # 0 => obeyed \in Register /\ obeyed.adr = reg[d].adr
        /\ refusing \in Register /\ refusing.adr = reg[d].adr
        /\ fallen \in Register /\ fallen.adr = reg[d].adr
    BY <1>2 DEF Register, States
  <2>1. CASE Obey(d)
    BY <2>a, <2>1, Zenon DEF Obey
  <2>2. CASE Refuse(d)
    BY <2>a, <2>2, Zenon DEF Refuse
  <2>3. CASE FallBack(d)
    BY <2>a, <2>3, Zenon DEF FallBack
  <2> QED
    BY <1>1, <2>1, <2>2, <2>3
<1>4. UNCHANGED <<wire, lost, changes>> /\ reg' = [reg EXCEPT ![d] = r]
  BY <1>3 DEF Set
<1> QED
  BY <1>3, <1>4 DEF BusTypeOK

(* What a change of the wiring can do.                                     *)
LEMMA ChangeTyped ==
  ASSUME BusTypeOK, Change
  PROVE  /\ BusTypeOK' /\ lost' = lost /\ changes' = changes + 1
         /\ \/ Range(wire') \subseteq Range(wire) /\ reg' = reg
            \/ /\ \E d \in Devices \ Everyone : Range(wire') = Range(wire) \cup {d}
               /\ reg' = reg
            \/ /\ wire' = wire
               /\ \E d \in Devices : \A e \in Devices :
                    reg'[e].adr = IF e = d THEN NoAddress ELSE reg[e].adr
<1>1. lost' = lost /\ changes' = changes + 1 /\ changes' \in Nat /\ wire \in Seq(Devices)
  BY DEF Change, BusTypeOK
<1>2. CASE \E p \in DOMAIN wire : wire' = RemoveAt(wire, p) /\ UNCHANGED reg
  BY <1>1, <1>2, Unplugged DEF BusTypeOK
<1>3. CASE \E d \in Devices \ Everyone, p \in 1 .. Len(wire) + 1 :
             wire' = InsertAt(wire, p, d) /\ UNCHANGED reg
  BY <1>1, <1>3, PluggedIn DEF BusTypeOK
<1>4. CASE \E d \in Devices : reg' = [reg EXCEPT ![d] = Reset] /\ UNCHANGED wire
  <2>1. PICK d \in Devices : reg' = [reg EXCEPT ![d] = Reset] /\ wire' = wire
    BY <1>4
  <2>2. Reset \in Register /\ Reset.adr = NoAddress
    BY Numbers DEF Reset, Register, NoAddress, States
  <2>3. reg' \in [Devices -> Register]
    BY <2>1, <2>2 DEF BusTypeOK
  <2>4. \A e \in Devices : reg'[e].adr = IF e = d THEN NoAddress ELSE reg[e].adr
    BY <2>1, <2>2 DEF BusTypeOK
  <2> QED
    BY <1>1, <2>1, <2>3, <2>4 DEF BusTypeOK
<1> QED
  BY <1>2, <1>3, <1>4 DEF Change

(* The state that one slave answers is one that a device with its address  *)
(* has.                                                                    *)
LEMMA StatusRead ==
  ASSUME BusTypeOK, NEW way, NEW adr
  PROVE  LET status == ReadAlStatus(way, Configured(adr), 0)
         IN  /\ status \in Nat
             /\ \/ status = 0
                \/ \E d \in Everyone : reg[d].adr = adr /\ status % STATE_ERROR = reg[d].al
<1>1. CASE Wkc(way, Configured(adr)) > 0
  <2>1. Configured(adr) \cap Everyone # {}
    BY <1>1, Worked DEF Configured
  <2>a. Answering(Configured(adr)) \in Configured(adr) \cap Everyone
    BY <2>1, AnsweringReached, Zenon DEF BusTypeOK
  <2>2. PICK d \in Everyone : d = Answering(Configured(adr)) /\ reg[d].adr = adr
    BY <2>a DEF Configured
  <2>3. d \in Devices
    BY <2>2 DEF Everyone, Range, BusTypeOK
  <2>4. reg[d].al \in States
    BY <2>3 DEF BusTypeOK, Register
  <2>5. AlStatus(d) \in Nat /\ AlStatus(d) % 16 = reg[d].al
    BY <2>4 DEF AlStatus, States, STATE_ERROR, INIT, PRE_OP, SAFE_OP, OPERATIONAL
  <2> QED
    BY <1>1, <2>2, <2>5 DEF ReadAlStatus, STATE_ERROR
<1>2. CASE ~ Wkc(way, Configured(adr)) > 0
  BY <1>2 DEF ReadAlStatus
<1> QED
  BY <1>1, <1>2

(* What a broadcast read of the states tells of all devices on the wire.   *)
LEMMA StatesRead ==
  ASSUME BusTypeOK, NEW way
  PROVE  /\ ReadAllStates(way) \subseteq States
         /\ ReadAllStates(way) \in {{}, {reg[d].al : d \in Everyone}}
         /\ Everyone \subseteq Devices
<1>1. Everyone \subseteq Devices
  BY DEF Everyone, Range, BusTypeOK
<1>2. \A d \in Everyone : reg[d].al \in States
  BY <1>1 DEF BusTypeOK, Register
<1> QED
  BY <1>1, <1>2 DEF ReadAllStates

LEMMA OneStateRead ==
  ASSUME BusTypeOK, NEW way, Cardinality(ReadAllStates(way)) = 1
  PROVE  LET common == CHOOSE state \in ReadAllStates(way) : TRUE
         IN  common \in States /\ \A d \in Everyone : reg[d].al = common
<1>1. ReadAllStates(way) \in SUBSET (1 .. 8)
  BY StatesRead DEF States, INIT, PRE_OP, SAFE_OP, OPERATIONAL
<1>2. IsFiniteSet(1 .. 8)
  <2>1. 1 \in Int /\ 8 \in Int
    OBVIOUS
  <2> QED
    BY <2>1, FS_Interval, Zenon
<1>3. IsFiniteSet(ReadAllStates(way))
  BY <1>1, <1>2, FS_Subset
<1>4. PICK x : ReadAllStates(way) = {x}
  BY <1>3, FS_Singleton
<1>5. ReadAllStates(way) = {reg[d].al : d \in Everyone}
  BY <1>4, StatesRead
<1> QED
  BY <1>4, <1>5, StatesRead

LEMMA FoundInOne ==
  ASSUME BusTypeOK, NEW way, slave \in 0 .. SlaveCount
  PROVE  /\ Found(way) \in Nat
         /\ slave = 0 /\ Found(way) \in States =>
              \A d \in Everyone : reg[d].al = Found(way)
         /\ slave # 0 /\ Found(way) \in States =>
              \E d \in Everyone : reg[d].adr = slave /\ reg[d].al = Found(way)
<1> USE DEF INIT, PRE_OP, SAFE_OP, OPERATIONAL
<1>1. CASE slave # 0
  <2>1. Found(way) = ReadAlStatus(way, Configured(slave), 0) % STATE_ERROR
    BY <1>1 DEF Found
  <2>2. \A status \in Nat : status % STATE_ERROR \in Nat
    BY DEF STATE_ERROR
  <2>3. 0 % STATE_ERROR = 0 /\ 0 \notin States
    BY DEF STATE_ERROR, States
  <2> QED
    BY <1>1, <2>1, <2>2, <2>3, StatusRead
<1>2. CASE slave = 0
  <2> DEFINE S_ == ReadAllStates(way)
             bit(state) == IF state \in S_ THEN state ELSE 0
  <2>1. Found(way) = bit(1) + bit(2) + bit(4) + bit(8)
    BY <1>2 DEF Found
  <2>2. S_ \subseteq {1, 2, 4, 8}
    BY StatesRead DEF States
  <2>3. Found(way) \in Nat
    BY <2>1
  <2>4. Found(way) \in {1, 2, 4, 8} => S_ = {Found(way)}
    <3>1. Found(way) \in {1, 2, 4, 8} =>
            \A state \in {1, 2, 4, 8} : state \in S_ <=> state = Found(way)
      BY <2>1
    <3> QED
      BY <2>2, <3>1
  <2>5. S_ # {} => S_ = {reg[d].al : d \in Everyone}
    BY StatesRead
  <2>6. S_ = {Found(way)} => \A d \in Everyone : reg[d].al = Found(way)
    BY <2>5
  <2> QED
    BY <1>2, <2>3, <2>4, <2>6 DEF States
<1> QED
  BY <1>1, <1>2

-----------------------------------------------------------------------------
LEMMA ResetTyped ==
  /\ Reset \in Register
  /\ \A s \in Slaves : [Reset EXCEPT !.adr = s, !.al = OPERATIONAL] \in Register
<1>1. NoAddress \in 0 .. TempNode /\ \A s \in Slaves : s \in 0 .. TempNode
  BY BusAssumption DEF NoAddress, TempNode, Slaves
<1>2. Reset \in Register
  BY <1>1 DEF Reset, Register, States
<1>3. \A s \in Slaves : [Reset EXCEPT !.adr = s, !.al = OPERATIONAL] \in Register
  BY <1>1, <1>2 DEF Register, States
<1> QED
  BY <1>2, <1>3

LEMMA StateTypeInit == Init => BusTypeOK /\ StateTypeOK
<1> SUFFICES ASSUME BusInit, StateInit
             PROVE  BusTypeOK /\ StateTypeOK
  BY DEF Init, StateInit
<1>1. wire \in Seq(Devices)
  <2>1. wire \in [1 .. SlaveCount -> Devices] /\ SlaveCount \in Nat
    BY BusAssumption DEF BusInit, Slaves, Devices
  <2> QED
    BY <2>1, SeqDef
<1>2. reg \in [Devices -> Register]
  BY ResetTyped DEF BusInit
<1>3. BusTypeOK
  BY <1>1, <1>2 DEF BusTypeOK, BusInit
<1>4. StateTypeOK
  <2>1. /\ pc = "idle" /\ op = "none" /\ slave = 0 /\ reqstate = OPERATIONAL
        /\ after = "returned" /\ slavelist = [s \in 0 .. SlaveCount |-> 0]
    BY DEF StateInit
  <2>2. \A s \in Slaves : s \in 0 .. SlaveCount
    BY DEF Slaves
  <2>3. 0 \in 0 .. SlaveCount + 1 /\ OPERATIONAL \in States
    BY BusAssumption DEF States
  <2> QED
    BY <2>1, <2>2, <2>3 DEF StateTypeOK, Recovering
<1> QED
  BY <1>3, <1>4

LEMMA TypeBeginState ==
  ASSUME BusTypeOK, StateTypeOK, NEW function \in StateFunctions, NEW s \in 0 .. SlaveCount,
         NEW state \in States, NEW first, Begin(function, s, state, first),
         first \in {"broadcast", "check", "position", "init"},
         first = "broadcast" <=> function = "readstate",
         first = "check" <=> function = "statecheck",
         first = "position" <=> function = "recover",
         first = "init" <=> function = "reconfig",
         first = "broadcast" => state = OPERATIONAL,
         first # "check" => s \in Slaves
  PROVE  BusTypeOK' /\ StateTypeOK'
<1>1. UNCHANGED busvars /\ slavelist' = slavelist /\ pc' = first /\ op' = function
      /\ slave' = s /\ reqstate' = state /\ after' = "returned"
  BY DEF Begin, Goto
<1>2. s \in 0 .. SlaveCount + 1
  BY Numbers
<1>3. BusTypeOK'
  BY <1>1 DEF busvars, BusTypeOK
<1>4. StateTypeOK'
  BY <1>1, <1>2 DEF StateTypeOK, Recovering, StateFunctions
<1> QED
  BY <1>3, <1>4

(* Only the history of the bus changes when registers are read.            *)
LEMMA ReadingTyped ==
  ASSUME BusTypeOK, NEW way, Reading(way)
  PROVE  BusTypeOK' /\ UNCHANGED <<wire, reg, changes>>
BY DEF Reading, KeepBus, Counted, BusTypeOK

LEMMA SendingTyped ==
  ASSUME BusTypeOK, NEW way, NEW reached, NEW register, NEW value,
         Sending(way, reached, register, value),
         \/ register = "adr" /\ value \in 0 .. TempNode
         \/ register = "want" /\ value \in States
  PROVE  BusTypeOK' /\ UNCHANGED <<wire, changes>>
<1>1. Write(way, reached, register, value) /\ UNCHANGED <<wire, changes>>
  BY DEF Sending, KeepBus
<1>2. reg' \in [Devices -> Register] /\ lost' \in Nat
  BY <1>1, AddressWritten, RequestWritten
<1> QED
  BY <1>1, <1>2 DEF BusTypeOK

LEMMA TypeCall ==
  ASSUME BusTypeOK, StateTypeOK, NEW functions, NEW slaves \in SUBSET Slaves,
         StateCall(functions, slaves)
  PROVE  BusTypeOK' /\ StateTypeOK'
<1>0. \A s \in Slaves : s \in 0 .. SlaveCount
  BY DEF Slaves
<1>1. Requests \subseteq States /\ OPERATIONAL \in States /\ 0 \in 0 .. SlaveCount
      /\ reqstate \in States
  BY SlaveStateAssumption, BusAssumption DEF States, StateTypeOK
<1>2. CASE readstate
  <2>1. Begin("readstate", 1, OPERATIONAL, "broadcast") /\ 1 \in 0 .. SlaveCount
        /\ 1 \in Slaves
    BY <1>2, BusAssumption DEF readstate, Slaves
  <2> QED
    BY <1>1, <2>1, TypeBeginState DEF StateFunctions
<1>3. ASSUME NEW s \in slaves \cup {0}, NEW state \in Requests, statecheck(s, state)
      PROVE  BusTypeOK' /\ StateTypeOK'
  <2>1. Begin("statecheck", s, state, "check") /\ s \in 0 .. SlaveCount /\ state \in States
    BY <1>0, <1>1, <1>3 DEF statecheck
  <2> QED
    BY <2>1, TypeBeginState DEF StateFunctions
<1>4. ASSUME NEW s \in slaves, recover(s)
      PROVE  BusTypeOK' /\ StateTypeOK'
  <2>1. Begin("recover", s, reqstate, "position") /\ s \in 0 .. SlaveCount /\ s \in Slaves
    BY <1>0, <1>4 DEF recover
  <2> QED
    BY <1>1, <2>1, TypeBeginState DEF StateFunctions
<1>5. ASSUME NEW s \in slaves, reconfig(s)
      PROVE  BusTypeOK' /\ StateTypeOK'
  <2>1. Begin("reconfig", s, reqstate, "init") /\ s \in 0 .. SlaveCount /\ s \in Slaves
    BY <1>0, <1>5 DEF reconfig
  <2> QED
    BY <1>1, <2>1, TypeBeginState DEF StateFunctions
<1>6. ASSUME NEW s \in slaves \cup {0}, NEW state \in Requests, writestate(s, state)
      PROVE  BusTypeOK' /\ StateTypeOK'
  <2>1. /\ pc' = "returned" /\ op' = "writestate" /\ slave' = s
        /\ slavelist' = [slavelist EXCEPT ![s] = state]
        /\ UNCHANGED <<reqstate, after>>
        /\ \E way, reached : Sending(way, reached, "want", state)
    BY <1>6, Zenon DEF writestate, Goto
  <2>2. BusTypeOK'
    BY <1>1, <2>1, SendingTyped
  <2>3. s \in 0 .. SlaveCount + 1
    BY <1>0, BusAssumption
  <2>4. DOMAIN slavelist' = 0 .. SlaveCount /\ \A t \in Slaves : slavelist'[t] \in Nat
    BY <1>0, <1>1, <2>1 DEF StateTypeOK, States, INIT, PRE_OP, SAFE_OP, OPERATIONAL
  <2>5. reqstate' \in States /\ after' = "returned"
    BY <1>6, <2>1 DEF StateTypeOK, writestate
  <2> QED
    BY <2>1, <2>2, <2>3, <2>4, <2>5 DEF StateTypeOK, StateFunctions, Recovering
<1> QED
  BY <1>2, <1>3, <1>4, <1>5, <1>6, Zenon DEF StateCall

LEMMA TypeReadBroadcast ==
  ASSUME BusTypeOK, StateTypeOK, ReadBroadcast
  PROVE  BusTypeOK' /\ StateTypeOK'
<1> DEFINE common(way) == CHOOSE state \in ReadAllStates(way) : TRUE
<1>1. /\ pc = "broadcast" /\ UNCHANGED <<op, slave, reqstate, after>>
      /\ pc' \in {"returned", "group"}
  BY DEF ReadBroadcast, Goto, Returning
<1>2. PICK way \in Ways :
        /\ Reading(way)
        /\ \/ slavelist' = slavelist
           \/ /\ Cardinality(ReadAllStates(way)) = 1
              /\ \/ slavelist' = [s \in 0 .. SlaveCount |-> common(way)]
                 \/ slavelist' = [slavelist EXCEPT ![0] = common(way)]
  BY DEF ReadBroadcast, AllInOneState
<1>3. BusTypeOK'
  BY <1>2, ReadingTyped
<1>4. op = "readstate" /\ reqstate = OPERATIONAL /\ slave \in 0 .. SlaveCount + 1
  BY <1>1 DEF StateTypeOK
<1>5. DOMAIN slavelist' = 0 .. SlaveCount /\ \A s \in Slaves : slavelist'[s] \in Nat
  <2>a. States \subseteq Nat
    BY DEF States, INIT, PRE_OP, SAFE_OP, OPERATIONAL
  <2>1. Cardinality(ReadAllStates(way)) = 1 => common(way) \in Nat
    BY <2>a, OneStateRead
  <2>2. \A s \in Slaves : s \in 0 .. SlaveCount
    BY DEF Slaves
  <2> HIDE DEF common
  <2> QED
    BY <1>2, <2>1, <2>2 DEF StateTypeOK
<1>6. pc' = "group" => slave' \in Slaves
  BY <1>1 DEF StateTypeOK
<1> QED
  BY <1>1, <1>3, <1>4, <1>5, <1>6 DEF StateTypeOK, Recovering, StateFunctions

LEMMA TypeReadGroup ==
  ASSUME BusTypeOK, StateTypeOK, ReadGroup
  PROVE  BusTypeOK' /\ StateTypeOK'
<1>1. /\ pc = "group" /\ UNCHANGED <<op, reqstate, after>>
      /\ slave' = GroupEnd + 1
      /\ pc' = IF GroupEnd = SlaveCount THEN "returned" ELSE "group"
  BY DEF ReadGroup, Goto, Returning
<1>2. op = "readstate" /\ reqstate = OPERATIONAL /\ slave \in Slaves
  BY <1>1 DEF StateTypeOK
<1>3. PICK way \in Ways :
        /\ Reading(way)
        /\ DOMAIN slavelist' = 0 .. SlaveCount
        /\ \A s \in Slaves :
             slavelist'[s] = IF s \in slave .. GroupEnd
                             THEN ReadAlStatus(way, Configured(s), 0) ELSE slavelist[s]
  <2>1. \A s \in Slaves : s \in 0 .. SlaveCount /\ s # 0
    BY DEF Slaves
  <2> QED
    BY <2>1 DEF ReadGroup
<1>4. BusTypeOK'
  BY <1>3, ReadingTyped
<1>5. \A s \in Slaves : slavelist'[s] \in Nat
  BY <1>3, StatusRead DEF StateTypeOK
<1>6. slave' \in 0 .. SlaveCount + 1 /\ (pc' = "group" => slave' \in Slaves)
  BY <1>1, <1>2, BusAssumption, SlaveStateAssumption DEF GroupEnd, Slaves
<1> QED
  BY <1>1, <1>2, <1>3, <1>4, <1>5, <1>6 DEF StateTypeOK, Recovering, StateFunctions

LEMMA TypeCheck ==
  ASSUME BusTypeOK, StateTypeOK, Check
  PROVE  BusTypeOK' /\ StateTypeOK'
<1>1. pc = "check" /\ UNCHANGED <<op, slave, reqstate, after>>
  BY DEF Check, Keep
<1>2. PICK way \in Ways :
        /\ Reading(way)
        /\ \/ slavelist' = slavelist /\ pc' = pc
           \/ /\ \E error \in {0, STATE_ERROR} :
                   slavelist' = [slavelist EXCEPT ![slave] = Found(way) + error]
              /\ pc' \in {after, "returned"}
  BY Zenon DEF Check, Keep, Goto
<1>3. BusTypeOK'
  BY <1>2, ReadingTyped
<1>4. slave \in 0 .. SlaveCount /\ op \in {"statecheck", "reconfig"}
  BY <1>1 DEF StateTypeOK
<1>5. Found(way) \in Nat
  BY <1>4, FoundInOne
<1>6. DOMAIN slavelist' = 0 .. SlaveCount /\ \A s \in Slaves : slavelist'[s] \in Nat
  <2>1. \A s \in Slaves : s \in 0 .. SlaveCount
    BY DEF Slaves
  <2>2. CASE slavelist' = slavelist
    BY <2>2 DEF StateTypeOK
  <2>3. ASSUME NEW error \in {0, STATE_ERROR},
               slavelist' = [slavelist EXCEPT ![slave] = Found(way) + error]
        PROVE  DOMAIN slavelist' = 0 .. SlaveCount /\ \A s \in Slaves : slavelist'[s] \in Nat
    <3>1. Found(way) + error \in Nat
      BY <1>5 DEF STATE_ERROR
    <3>2. DOMAIN slavelist = 0 .. SlaveCount /\ \A s \in Slaves : slavelist[s] \in Nat
      BY DEF StateTypeOK
    <3> QED
      BY <1>4, <2>1, <2>3, <3>1, <3>2
  <2> QED
    BY <1>2, <2>2, <2>3
<1>7. pc' \in {"check", "returned", "preop", "safeop"}
      /\ (pc' \in {"preop", "safeop"} => op = "reconfig")
  <2>1. after \in {"returned", "preop", "safeop"} /\ (after # "returned" => op = "reconfig")
    BY <1>1 DEF StateTypeOK
  <2> QED
    BY <1>1, <1>2, <2>1
<1> QED
  BY <1>1, <1>3, <1>4, <1>6, <1>7 DEF StateTypeOK, Recovering, StateFunctions

(* Each step of ecx_recover_slave goes on with the next one, or returns.   *)
LEMMA RecoverySteps ==
  ASSUME Recovery
  PROVE  /\ UNCHANGED <<op, slave, reqstate, after, slavelist>>
         /\ Recovering \/ pc = "position"
         /\ Recovering' \/ pc' = "returned"
         /\ pc' # pc /\ pc' # "position"
BY DEF Recovery, ReadPosition, ClearTemporary, SetTemporary, Identify, GiveAddress, GiveUp,
   Keep, Goto, Returning, Recovering, Fields, SiiFields, AfterField

LEMMA TypeRecovery ==
  ASSUME BusTypeOK, StateTypeOK, Recovery
  PROVE  BusTypeOK' /\ StateTypeOK'
<1>1. op = "recover" /\ slave \in Slaves
  BY RecoverySteps DEF StateTypeOK
<1>2. slave \in 0 .. TempNode /\ TempNode \in 0 .. TempNode /\ NoAddress \in 0 .. TempNode
  BY <1>1, BusAssumption DEF TempNode, NoAddress, Slaves
<1>3. BusTypeOK'
  <2>1. CASE ReadPosition \/ Identify
    <3>1. PICK way \in Ways : Reading(way)
      BY <2>1, Zenon DEF ReadPosition, Identify
    <3> QED
      BY <3>1, ReadingTyped
  <2>2. CASE ClearTemporary \/ SetTemporary \/ GiveAddress \/ GiveUp
    <3>1. \/ \E way, reached : Sending(way, reached, "adr", NoAddress)
          \/ \E way, reached : Sending(way, reached, "adr", TempNode)
          \/ \E way, reached : Sending(way, reached, "adr", slave)
      BY <2>2, Zenon DEF ClearTemporary, SetTemporary, GiveAddress, GiveUp
    <3> QED
      BY <1>2, <3>1, SendingTyped, Zenon
  <2> QED
    BY <2>1, <2>2 DEF Recovery
<1>4. StateTypeOK'
  BY RecoverySteps, <1>1 DEF StateTypeOK, Recovering
<1> QED
  BY <1>3, <1>4

LEMMA TypeReconfigure ==
  ASSUME BusTypeOK, StateTypeOK, Reconfigure
  PROVE  BusTypeOK' /\ StateTypeOK'
<1>1. /\ pc \in {"init", "preop", "safeop"} /\ UNCHANGED <<op, slave, slavelist>>
      /\ \E state \in {INIT, PRE_OP, SAFE_OP}, next \in {"preop", "safeop", "returned"} :
           Request(state, next)
  BY DEF Reconfigure
<1>2. op = "reconfig" /\ slave \in Slaves /\ slave \in 0 .. SlaveCount
  BY <1>1 DEF StateTypeOK, Slaves
<1>3. PICK state \in {INIT, PRE_OP, SAFE_OP}, next \in {"preop", "safeop", "returned"} :
        Request(state, next)
  BY <1>1, Zenon
<1>4. state \in States
  BY DEF States
<1>5. PICK way \in Ways : Sending(way, Configured(slave), "want", state)
  BY <1>3, Zenon DEF Request
<1>6. BusTypeOK'
  BY <1>4, <1>5, SendingTyped, Zenon
<1>7. \/ pc' = "returned" /\ UNCHANGED <<reqstate, after>>
      \/ pc' = "check" /\ reqstate' = state /\ after' = next
  BY <1>3, Zenon DEF Request, Goto, Returning
<1> QED
  BY <1>1, <1>2, <1>4, <1>6, <1>7 DEF StateTypeOK, Recovering

LEMMA TypeReturn ==
  ASSUME BusTypeOK, StateTypeOK, Return
  PROVE  BusTypeOK' /\ StateTypeOK'
<1>1. UNCHANGED busvars /\ pc' = "idle" /\ op' = "none" /\ slave' = 0 /\ reqstate' = OPERATIONAL
      /\ after' = "returned" /\ slavelist' = [s \in 0 .. SlaveCount |-> 0]
  BY DEF Return, Goto
<1>2. BusTypeOK'
  BY <1>1 DEF busvars, BusTypeOK
<1>3. 0 \in 0 .. SlaveCount + 1 /\ OPERATIONAL \in States /\ \A s \in Slaves : s \in 0 .. SlaveCount
  BY BusAssumption DEF States, Slaves
<1> QED
  BY <1>1, <1>2, <1>3 DEF StateTypeOK, Recovering

(* The types, for every step of the application.                           *)
TypeOK ==
  /\ BusTypeOK /\ StateTypeOK
  /\ EepromTypeOK /\ application.slaves \subseteq Slaves

LEMMA TypeStay ==
  ASSUME StateTypeOK, UNCHANGED callvars
  PROVE  StateTypeOK'
BY DEF callvars, StateTypeOK, Recovering

LEMMA TypeSupervise ==
  ASSUME TypeOK, Supervise
  PROVE  BusTypeOK' /\ StateTypeOK'
<1> USE DEF TypeOK
<1>1. CASE StateCall(application.functions, application.slaves)
  BY <1>1, TypeCall
<1>2. CASE ReadBroadcast
  BY <1>2, TypeReadBroadcast
<1>3. CASE ReadGroup
  BY <1>3, TypeReadGroup
<1>4. CASE Check
  BY <1>4, TypeCheck
<1>5. CASE Recovery
  BY <1>5, TypeRecovery
<1>6. CASE Reconfigure
  BY <1>6, TypeReconfigure
<1>7. CASE Return
  BY <1>7, TypeReturn
<1>8. CASE (Device \/ Change) /\ UNCHANGED callvars
  BY <1>8, TypeStay, DeviceTyped, ChangeTyped, Zenon
<1> QED
  BY <1>1, <1>2, <1>3, <1>4, <1>5, <1>6, <1>7, <1>8, Zenon DEF Supervise, StateNext, Work

LEMMA TypeStep == TypeOK /\ [Next]_vars => TypeOK'
<1> SUFFICES ASSUME TypeOK, [Next]_vars
             PROVE  TypeOK'
  OBVIOUS
<1>1. EepromTypeOK' /\ (application.slaves \subseteq Slaves)'
  <2>1. application' = application
    BY DEF Next, vars
  <2> QED
    BY <2>1, EepromTypeStep DEF TypeOK
<1>2. BusTypeOK' /\ StateTypeOK'
  <2>1. CASE UNCHANGED vars
    BY <2>1, TypeStay DEF TypeOK, BusTypeOK, vars, statevars, busvars
  <2>2. CASE Supervise
    BY <2>2, TypeSupervise
  <2>3. CASE AccessEeproms
    <3>1. UNCHANGED <<wire, reg, callvars>> /\ lost' \in Nat /\ changes' \in Nat
      BY <2>3, EepromHappens, HistoryGrows DEF TypeOK, BusTypeOK
    <3> QED
      BY <3>1, TypeStay DEF TypeOK, BusTypeOK
  <2> QED
    BY <2>1, <2>2, <2>3 DEF Next
<1> QED
  BY <1>1, <1>2 DEF TypeOK

-----------------------------------------------------------------------------
(* What may be mistaken may still be mistaken later.                       *)
StillMistakable ==
  \A d, s :
    /\ \A field : Mistakable(d, s, field) => Mistakable(d, s, field)'
    /\ PassesFor(d, s) => PassesFor(d, s)'

LEMMA MistakesStay ==
  ASSUME lost \in Nat, changes \in Nat, lost' \in Nat, changes' \in Nat,
         lost <= lost', changes <= changes'
  PROVE  StillMistakable
<1>1. lost > 0 => lost' > 0
  OBVIOUS
<1>2. changes > 2 => changes' > 2
  OBVIOUS
<1>3. ASSUME NEW d, NEW s, NEW field, Mistakable(d, s, field)
      PROVE  Mistakable(d, s, field)'
  BY <1>1, <1>2, <1>3, Zenon DEF Mistakable
<1>4. ASSUME NEW d, NEW s, PassesFor(d, s)
      PROVE  PassesFor(d, s)'
  BY <1>3, <1>4, Zenon DEF PassesFor
<1> QED
  BY <1>3, <1>4, Zenon DEF StillMistakable

LEMMA Genuine ==
  ASSUME NEW s
  PROVE  PassesFor(s, s)
BY DEF PassesFor

(* The addresses.  A step that leaves the addresses and the wire as they   *)
(* are can only add to the history.                                        *)
SameAddresses ==
  /\ wire' = wire /\ lost' \in Nat /\ lost <= lost' /\ changes' = changes
  /\ \A d \in Devices : reg'[d].adr = reg[d].adr

LEMMA TypeInit == Init => TypeOK
BY EepromTypeInit, SlavesOfApplication, StateTypeInit DEF TypeOK

LEMMA OnWire ==
  ASSUME BusTypeOK
  PROVE  /\ Everyone \subseteq Devices
         /\ \A d \in Devices : Temporary(d) => Unaddressed(d)
         /\ lost \in Nat /\ changes \in Nat
<1>1. Everyone \subseteq Devices /\ lost \in Nat /\ changes \in Nat
  BY DEF Everyone, Range, BusTypeOK
<1>2. \A d \in Devices : Temporary(d) => Unaddressed(d)
  BY Numbers DEF Temporary, Unaddressed
<1> QED
  BY <1>1, <1>2

LEMMA AddressInit == Init => AddressInv
<1> SUFFICES ASSUME StateInit
             PROVE  AddressInv
  BY DEF Init
<1>1. pc = "idle" /\ wire = [s \in Slaves |-> s]
      /\ reg = [d \in Devices |->
                  IF d \in Slaves THEN [Reset EXCEPT !.adr = d, !.al = OPERATIONAL] ELSE Reset]
  BY DEF StateInit, BusInit
<1>2. Everyone = Slaves
  BY <1>1 DEF Everyone, Range
<1>3. /\ \A d \in Slaves : reg[d].adr = d
      /\ \A d \in Devices \ Slaves : reg[d].adr = NoAddress
  BY <1>1, Numbers DEF Reset
<1>4. \A d \in Devices : ~Temporary(d) /\ (Unaddressed(d) => d \notin Slaves)
  BY <1>3, Numbers DEF Temporary, Unaddressed
<1>5. OfItsKind
  BY <1>3, Numbers, Genuine DEF OfItsKind
<1>6. WiringOK
  BY <1>2, <1>4, Numbers DEF WiringOK
<1>7. LeftoverOK
  BY <1>2, <1>4, Numbers DEF LeftoverOK
<1>8. BeforeOK /\ AfterOK
  BY <1>1 DEF BeforeOK, AfterOK, Asking
<1> QED
  BY <1>5, <1>6, <1>7, <1>8 DEF AddressInv, AddressOK

LEMMA AddressStays ==
  ASSUME TypeOK, AddressOK, SameAddresses, StillMistakable,
         \/ pc' = pc /\ slave' = slave
         \/ ~Recovering /\ ~Recovering'
  PROVE  AddressOK'
<1>1. /\ Everyone' = Everyone /\ Everyone \subseteq Devices
      /\ lost \in Nat /\ changes \in Nat /\ lost' \in Nat /\ lost <= lost' /\ changes' = changes
      /\ wire' = wire
  BY OnWire DEF TypeOK, SameAddresses, Everyone
<1>2. \A d \in Devices : /\ Unaddressed(d)' <=> Unaddressed(d)
                         /\ Temporary(d)' <=> Temporary(d)
                         /\ reg'[d].adr = reg[d].adr
  BY DEF SameAddresses, Unaddressed, Temporary
<1> HIDE DEF Unaddressed, Temporary, Everyone
<1>3. OfItsKind'
  BY <1>2 DEF OfItsKind, AddressOK, StillMistakable
<1>4. WiringOK'
  BY <1>1, <1>2 DEF WiringOK, AddressOK
<1>5. CASE pc' = pc /\ slave' = slave
  <2>1. BeforeOK'
    <3>1. ASSUME slave \in DOMAIN wire
          PROVE  wire[slave] \in Devices
      BY <3>1, <1>1 DEF Everyone, Range
    <3> QED
      BY <1>1, <1>2, <1>5, <3>1 DEF BeforeOK, AddressOK
  <2>2. LeftoverOK'
    BY <1>1, <1>2, <1>5 DEF LeftoverOK, AddressOK
  <2>3. ASSUME NEW d \in Devices, TakenBy(d)
        PROVE  TakenBy(d)'
    BY <1>1, <1>2, <1>5, <2>3 DEF TakenBy, Asked, AgreesIn, StillMistakable
  <2>4. AfterOK'
    BY <1>1, <1>5, <2>3 DEF AfterOK, AddressOK, Asking
  <2> QED
    BY <1>3, <1>4, <2>1, <2>2, <2>4 DEF AddressOK
<1>6. CASE ~Recovering /\ ~Recovering'
  <2>1. BeforeOK' /\ AfterOK'
    BY <1>6 DEF Recovering, BeforeOK, AfterOK, Asking
  <2>2. LeftoverOK'
    BY <1>1, <1>2, <1>6 DEF LeftoverOK, AddressOK, Recovering
  <2> QED
    BY <1>3, <1>4, <2>1, <2>2 DEF AddressOK
<1> QED
  BY <1>5, <1>6

(* A change of the wiring counts: the changes that the invariant asks for  *)
(* have happened, or no change is left.                                    *)
LEMMA AddressUnplugged ==
  ASSUME TypeOK, AddressOK, Traceable', UNCHANGED <<reg, lost, callvars>>, StillMistakable,
         changes' = changes + 1, Range(wire') \subseteq Range(wire)
  PROVE  AddressOK'
<1>1. /\ Everyone' \subseteq Everyone /\ Everyone \subseteq Devices
      /\ changes \in Nat /\ changes' = changes + 1 /\ changes <= 2 /\ lost' = lost
      /\ pc' = pc /\ slave' = slave
  BY OnWire DEF TypeOK, Everyone, Traceable, callvars
<1>2. \A d \in Devices : /\ Unaddressed(d)' <=> Unaddressed(d)
                         /\ Temporary(d)' <=> Temporary(d)
                         /\ reg'[d].adr = reg[d].adr
                         /\ Temporary(d) => Unaddressed(d)
  BY OnWire DEF Unaddressed, Temporary, TypeOK
<1> HIDE DEF Unaddressed, Temporary, Everyone
<1>3. OfItsKind'
  BY <1>2 DEF OfItsKind, AddressOK, StillMistakable
<1>4. WiringOK'
  BY <1>1, <1>2 DEF WiringOK, AddressOK
<1>5. BeforeOK'
  BY <1>1, <1>2 DEF BeforeOK, AddressOK
<1>6. LeftoverOK'
  BY <1>1, <1>2 DEF LeftoverOK, AddressOK
<1>7. ASSUME NEW d \in Devices, TakenBy(d)
      PROVE  TakenBy(d)'
  BY <1>1, <1>2, <1>7 DEF TakenBy, Asked, AgreesIn, StillMistakable
<1>8. AfterOK'
  BY <1>1, <1>7 DEF AfterOK, AddressOK, Asking
<1> QED
  BY <1>3, <1>4, <1>5, <1>6, <1>8 DEF AddressOK

LEMMA AddressPluggedIn ==
  ASSUME TypeOK, AddressOK, Traceable', UNCHANGED <<reg, lost, callvars>>, StillMistakable,
         changes' = changes + 1,
         NEW n \in Devices \ Everyone, Range(wire') = Range(wire) \cup {n}
  PROVE  AddressOK'
<1>1. /\ Everyone' = Everyone \cup {n} /\ Everyone \subseteq Devices
      /\ changes \in Nat /\ changes' = changes + 1 /\ changes <= 2 /\ lost' = lost
      /\ pc' = pc /\ slave' = slave
  BY OnWire DEF TypeOK, Everyone, Traceable, callvars
<1>2. \A d \in Devices : /\ Unaddressed(d)' <=> Unaddressed(d)
                         /\ Temporary(d)' <=> Temporary(d)
                         /\ reg'[d].adr = reg[d].adr
                         /\ Temporary(d) => Unaddressed(d)
  BY OnWire DEF Unaddressed, Temporary, TypeOK
<1> HIDE DEF Unaddressed, Temporary, Everyone
<1>3. OfItsKind'
  BY <1>2 DEF OfItsKind, AddressOK, StillMistakable
<1>4. WiringOK'
  BY <1>1, <1>2 DEF WiringOK, AddressOK
<1>5. BeforeOK'
  BY <1>1, <1>2 DEF BeforeOK, AddressOK
<1>6. LeftoverOK'
  <2> SUFFICES ASSUME pc \notin {"temporary", "alias", "id", "man", "rev", "address", "giveup"},
                      NEW d \in Everyone', Temporary(d)
               PROVE  /\ lost >= 1 \/ (changes' >= 3 /\ pc # "clear")
                      /\ \A e \in Everyone' : e # d /\ Unaddressed(e) => lost >= 1
    BY <1>1, <1>2 DEF LeftoverOK
  <2>1. CASE d \in Everyone
    BY <1>1, <2>1 DEF LeftoverOK, AddressOK
  <2>2. CASE d = n
    BY <1>1, <2>2 DEF WiringOK, BeforeOK, AddressOK
  <2> QED
    BY <1>1, <2>1, <2>2
<1>7. ASSUME NEW d \in Devices, TakenBy(d)
      PROVE  TakenBy(d)'
  <2>1. \A e \in Devices : e # d => ~Temporary(e)
    BY <1>1, <1>7 DEF TakenBy
  <2>2. ASSUME Temporary(d), NEW s \in Slaves, NEW field \in Fields, s = slave, Asked(field)
        PROVE  AgreesIn(d, s, field)'
    <3>1. AgreesIn(d, s, field)
      BY <1>7, <2>2 DEF TakenBy
    <3>2. CASE d \in Everyone
      BY <1>1, <3>1, <3>2 DEF AgreesIn, StillMistakable
    <3>3. CASE d \notin Everyone
      <4>1. changes >= 2
        BY <2>2, <3>3 DEF WiringOK, AddressOK
      <4>2. changes' > 2
        BY <1>1, <4>1
      <4>3. Identity[s][field] = 0 => Mistakable(d, s, field)'
        BY <1>1, <4>2 DEF Mistakable
      <4> QED
        BY <1>1, <3>1, <4>3 DEF AgreesIn, StillMistakable
    <3> QED
      BY <3>2, <3>3
  <2>3. \A field : Asked(field)' <=> Asked(field)
    BY <1>1 DEF Asked
  <2> QED
    BY <1>1, <1>2, <2>1, <2>2, <2>3 DEF TakenBy
<1>8. AfterOK'
  BY <1>1, <1>7 DEF AfterOK, AddressOK, Asking
<1> QED
  BY <1>3, <1>4, <1>5, <1>6, <1>8 DEF AddressOK

LEMMA AddressReset ==
  ASSUME TypeOK, AddressOK, Traceable', UNCHANGED <<wire, lost, callvars>>, StillMistakable,
         changes' = changes + 1, NEW n \in Devices,
         \A d \in Devices : reg'[d].adr = IF d = n THEN NoAddress ELSE reg[d].adr
  PROVE  AddressOK'
<1>1. /\ Everyone' = Everyone /\ Everyone \subseteq Devices
      /\ changes \in Nat /\ changes' = changes + 1 /\ changes <= 2 /\ lost' = lost
      /\ pc' = pc /\ slave' = slave /\ wire' = wire
  BY OnWire DEF TypeOK, Everyone, Traceable, callvars
<1>2. \A d \in Devices : /\ d # n => (Unaddressed(d)' <=> Unaddressed(d))
                         /\ Temporary(d)' => d # n /\ Temporary(d)
                         /\ Temporary(d) => Unaddressed(d)
                         /\ d = n \/ reg'[d].adr = reg[d].adr
                         /\ reg'[n].adr \notin Slaves
  BY OnWire, Numbers DEF Unaddressed, Temporary, TypeOK
<1> HIDE DEF Unaddressed, Temporary, Everyone
<1>3. OfItsKind'
  BY <1>2 DEF OfItsKind, AddressOK, StillMistakable
<1>4. WiringOK'
  BY <1>1, <1>2 DEF WiringOK, AddressOK
<1>5. BeforeOK'
  BY <1>1, <1>2 DEF BeforeOK, AddressOK
<1>6. LeftoverOK'
  BY <1>1, <1>2 DEF LeftoverOK, AddressOK
<1>7. ASSUME NEW d \in Devices, TakenBy(d)
      PROVE  TakenBy(d)'
  BY <1>1, <1>2, <1>7 DEF TakenBy, Asked, AgreesIn, StillMistakable
<1>8. AfterOK'
  BY <1>1, <1>7 DEF AfterOK, AddressOK, Asking
<1> QED
  BY <1>3, <1>4, <1>5, <1>6, <1>8 DEF AddressOK

LEMMA AddressChanged ==
  ASSUME TypeOK, AddressOK, Traceable', Change, UNCHANGED callvars, StillMistakable
  PROVE  AddressOK'
<1>1. /\ lost' = lost /\ changes' = changes + 1
      /\ \/ Range(wire') \subseteq Range(wire) /\ reg' = reg
         \/ /\ \E d \in Devices \ Everyone : Range(wire') = Range(wire) \cup {d}
            /\ reg' = reg
         \/ /\ wire' = wire
            /\ \E d \in Devices : \A e \in Devices :
                 reg'[e].adr = IF e = d THEN NoAddress ELSE reg[e].adr
  BY ChangeTyped DEF TypeOK
<1> QED
  BY <1>1, AddressUnplugged, AddressPluggedIn, AddressReset

(* The steps of ecx_recover_slave.  The device without an address that it  *)
(* finds in the place of the slave is on the wire: whatever else has the   *)
(* temporary address cost another change or a lost frame.                  *)
LEMMA AddressReadPosition ==
  ASSUME TypeOK, AddressOK, ReadPosition, Traceable', StillMistakable
  PROVE  AddressOK'
<1>1. PICK way \in Ways :
        /\ Reading(way)
        /\ pc' = "returned" \/ (ReadAddress(way, Position(slave), -2) = NoAddress /\ pc' = "clear")
  BY DEF ReadPosition, Goto, Returning
<1>2. pc = "position" /\ slave' = slave /\ slave \in Slaves
  BY DEF ReadPosition, TypeOK, StateTypeOK
<1>3. SameAddresses
  <2>1. lost' \in Nat /\ UNCHANGED <<wire, reg, changes>>
    BY <1>1, ReadingTyped DEF TypeOK, BusTypeOK
  <2>2. lost <= lost'
    BY <1>1 DEF TypeOK, BusTypeOK, Reading, Counted
  <2> QED
    BY <2>1, <2>2 DEF SameAddresses
<1>4. CASE pc' = "returned"
  BY <1>2, <1>3, <1>4, AddressStays DEF Recovering
<1>5. CASE pc' = "clear" /\ ReadAddress(way, Position(slave), -2) = NoAddress
  <2>1. Wkc(way, Position(slave)) > 0
    BY <1>5 DEF ReadAddress, NoAddress
  <2>2. Position(slave) # {} /\ reg[Answering(Position(slave))].adr = NoAddress
    BY <1>5, <2>1, Worked DEF ReadAddress
  <2>3. slave \in DOMAIN wire /\ Position(slave) = {wire[slave]} /\ wire[slave] \in Everyone
    BY <2>2 DEF Position, Everyone, Range
  <2>4. Answering(Position(slave)) \in Position(slave) \cap Everyone
    BY <2>3, AnsweringReached DEF TypeOK, BusTypeOK
  <2>5. reg[wire[slave]].adr = NoAddress
    BY <2>2, <2>3, <2>4
  <2> DEFINE n == wire[slave]
  <2>6. n \in Everyone /\ Unaddressed(n) /\ ~Temporary(n)
    BY <2>3, <2>5, Numbers DEF Unaddressed, Temporary
  <2>7. /\ Everyone' = Everyone /\ Everyone \subseteq Devices /\ wire' = wire
        /\ lost \in Nat /\ changes \in Nat /\ lost' \in Nat /\ lost <= lost' /\ changes' = changes
    BY <1>3, OnWire DEF TypeOK, SameAddresses, Everyone
  <2>8. \A d \in Devices : /\ Unaddressed(d)' <=> Unaddressed(d)
                           /\ Temporary(d)' <=> Temporary(d)
                           /\ reg'[d].adr = reg[d].adr
                           /\ Temporary(d) => Unaddressed(d)
    BY <1>3, OnWire DEF SameAddresses, Unaddressed, Temporary, TypeOK
  <2>a. Unaddressed(wire[slave])' <=> Unaddressed(n)
    BY <1>2, <2>6, <2>7, <2>8 DEF Unaddressed
  <2>b. n = wire[slave]
    OBVIOUS
  <2> HIDE DEF Unaddressed, Temporary, Everyone, n
  <2>9. OfItsKind'
    BY <2>8 DEF OfItsKind, AddressOK, StillMistakable
  <2>10. WiringOK'
    BY <2>7, <2>8 DEF WiringOK, AddressOK
  <2>11. BeforeOK'
    <3>1. changes >= 1
      BY <2>6 DEF WiringOK, AddressOK
    <3>2. \A d \in Devices \ Everyone : Temporary(d) => changes >= 3
      BY <2>6 DEF WiringOK, AddressOK
    <3>3. \A d \in Everyone : Temporary(d) => changes >= 2
      BY <2>6, <2>7, <2>8 DEF WiringOK, AddressOK
    <3>4. slave' \in DOMAIN wire' /\ Unaddressed(wire[slave])'
      BY <1>2, <2>3, <2>6, <2>7, <2>a
    <3> QED
      BY <1>2, <1>5, <2>7, <2>8, <3>1, <3>2, <3>3, <3>4 DEF BeforeOK
  <2>12. LeftoverOK'
    <3>1. \A d \in Everyone : Temporary(d) => lost >= 1
      BY <1>2, <2>6 DEF LeftoverOK, AddressOK
    <3> QED
      BY <2>7, <2>8, <3>1 DEF LeftoverOK
  <2>13. AfterOK'
    BY <1>5 DEF AfterOK, Asking
  <2> QED
    BY <2>9, <2>10, <2>11, <2>12, <2>13 DEF AddressOK
<1> QED
  BY <1>1, <1>4, <1>5

(* Whoever has the temporary address gets another one, unless the frame is *)
(* lost.                                                                   *)
LEMMA TemporaryLost ==
  ASSUME TypeOK, AddressOK, NEW way \in Ways, NEW value \in {NoAddress} \cup Slaves,
         Sending(way, Configured(TempNode), "adr", value)
  PROVE  /\ Everyone' = Everyone /\ Everyone \subseteq Devices
         /\ lost \in Nat /\ changes \in Nat /\ lost' \in Nat /\ lost <= lost' /\ changes' = changes
         /\ wire' = wire
         /\ \A d \in Devices : /\ Unaddressed(d)' => Unaddressed(d)
                               /\ Temporary(d)' => Temporary(d)
                               /\ Temporary(d) => Unaddressed(d)
                               /\ Temporary(d)' /\ d \in Everyone => lost' = lost + 1
                               /\ reg'[d].adr = reg[d].adr
                                  \/ (reg'[d].adr = value /\ d \in Everyone /\ Temporary(d))
         /\ WiringOK'
<1>1. Write(way, Configured(TempNode), "adr", value) /\ UNCHANGED <<wire, changes>>
  BY DEF Sending, KeepBus
<1>2. value \in 0 .. TempNode /\ value # TempNode
  BY BusAssumption DEF TempNode, NoAddress, Slaves
<1>3. lost' \in Nat
      /\ \A d \in Devices :
           reg'[d].adr = IF d \in Configured(TempNode) /\ way # "lost" THEN value ELSE reg[d].adr
  BY <1>1, <1>2, AddressWritten DEF TypeOK
<1>4. lost' = IF way = "answered" THEN lost ELSE lost + 1
  BY <1>1 DEF Write, Counted
<1>5. /\ Everyone' = Everyone /\ Everyone \subseteq Devices /\ wire' = wire /\ changes' = changes
      /\ lost \in Nat /\ changes \in Nat
      /\ \A d \in Devices : Temporary(d) => Unaddressed(d)
  BY <1>1, OnWire DEF TypeOK, Everyone
<1>6. \A d \in Devices : /\ Unaddressed(d)' => Unaddressed(d)
                         /\ Temporary(d)' => Temporary(d)
                         /\ Temporary(d)' /\ d \in Everyone => lost' = lost + 1
                         /\ reg'[d].adr = reg[d].adr
                            \/ (reg'[d].adr = value /\ d \in Everyone /\ Temporary(d))
  BY <1>2, <1>3, <1>4, Numbers DEF Configured, Unaddressed, Temporary
<1> HIDE DEF Unaddressed, Temporary, Everyone
<1>7. WiringOK'
  BY <1>5, <1>6 DEF WiringOK, AddressOK
<1>8. lost <= lost'
  BY <1>4, <1>5
<1> QED
  BY <1>3, <1>5, <1>6, <1>7, <1>8

LEMMA AddressClearTemporary ==
  ASSUME TypeOK, AddressOK, ClearTemporary, Traceable', StillMistakable
  PROVE  AddressOK'
<1>1. PICK way \in Ways : Sending(way, Configured(TempNode), "adr", NoAddress)
  BY DEF ClearTemporary
<1>2. pc = "clear" /\ pc' = "temporary" /\ slave' = slave
  BY DEF ClearTemporary, Goto, Keep
<1> DEFINE value == NoAddress
<1>3. /\ Everyone' = Everyone /\ Everyone \subseteq Devices
      /\ lost \in Nat /\ changes \in Nat /\ lost' \in Nat /\ lost <= lost' /\ changes' = changes
      /\ wire' = wire
      /\ \A d \in Devices : /\ Unaddressed(d)' => Unaddressed(d)
                            /\ Temporary(d)' => Temporary(d)
                            /\ Temporary(d) => Unaddressed(d)
                            /\ Temporary(d)' /\ d \in Everyone => lost' = lost + 1
                            /\ reg'[d].adr = reg[d].adr
                               \/ (reg'[d].adr = NoAddress /\ d \in Everyone /\ Temporary(d))
      /\ WiringOK'
  BY <1>1, TemporaryLost
<1>4. \A d \in Devices : Unaddressed(d)' <=> Unaddressed(d)
  <2>1. \A d \in Devices : reg'[d].adr = NoAddress => Unaddressed(d)'
    BY Numbers DEF Unaddressed
  <2>2. \A d \in Devices : reg'[d].adr = reg[d].adr => (Unaddressed(d)' <=> Unaddressed(d))
    BY DEF Unaddressed
  <2> QED
    BY <1>3, <2>1, <2>2
<1>5. OfItsKind'
  BY <1>3, Numbers DEF OfItsKind, AddressOK, StillMistakable
<1>6. slave \in DOMAIN wire => wire[slave] \in Devices
  BY <1>3 DEF Everyone, Range
<1>7. lost' < 2
  BY DEF Traceable
<1> HIDE DEF Unaddressed, Temporary, Everyone
<1>8. \A d \in Everyone : ~Temporary(d)'
  BY <1>2, <1>3, <1>7 DEF LeftoverOK, AddressOK
<1>9. BeforeOK'
  BY <1>2, <1>3, <1>4, <1>6, <1>8 DEF BeforeOK, AddressOK
<1>10. LeftoverOK' /\ AfterOK'
  BY <1>2 DEF LeftoverOK, AfterOK, Asking
<1> QED
  BY <1>3, <1>5, <1>9, <1>10 DEF AddressOK

LEMMA AddressSetTemporary ==
  ASSUME TypeOK, AddressOK, SetTemporary, Traceable', StillMistakable
  PROVE  AddressOK'
<1>1. PICK way \in Ways : Sending(way, Position(slave), "adr", TempNode)
  BY DEF SetTemporary
<1>2. pc = "temporary" /\ pc' \in {"alias", "giveup"} /\ slave' = slave
  BY DEF SetTemporary, Goto, Keep
<1>3. Write(way, Position(slave), "adr", TempNode) /\ UNCHANGED <<wire, changes>>
  BY <1>1 DEF Sending, KeepBus
<1>4. \A d \in Devices :
        reg'[d].adr = IF d \in Position(slave) /\ way # "lost" THEN TempNode ELSE reg[d].adr
  <2>1. TempNode \in 0 .. TempNode
    BY BusAssumption DEF TempNode
  <2> QED
    BY <1>3, <2>1, AddressWritten DEF TypeOK
<1>5. lost' >= lost
  BY <1>3 DEF Write, Counted, TypeOK, BusTypeOK
<1>6. /\ Everyone' = Everyone /\ Everyone \subseteq Devices /\ wire' = wire /\ changes' = changes
      /\ lost \in Nat /\ changes \in Nat
      /\ \A d \in Devices : Temporary(d) => Unaddressed(d)
  BY <1>3, OnWire DEF TypeOK, Everyone
<1>7. PICK n \in Devices :
        /\ \A d \in Devices : d # n => reg'[d].adr = reg[d].adr
        /\ reg'[n].adr # reg[n].adr =>
             reg'[n].adr = TempNode /\ slave \in DOMAIN wire /\ n = wire[slave] /\ n \in Everyone
  <2>1. CASE slave \in DOMAIN wire
    <3>1. Position(slave) = {wire[slave]} /\ wire[slave] \in Everyone
      BY <2>1 DEF Position, Everyone, Range
    <3>2. wire[slave] \in Devices
      BY <1>6, <3>1
    <3>3. /\ \A d \in Devices : d # wire[slave] => reg'[d].adr = reg[d].adr
          /\ reg'[wire[slave]].adr # reg[wire[slave]].adr => reg'[wire[slave]].adr = TempNode
      BY <1>4, <3>1, <3>2
    <3> QED
      BY <2>1, <3>1, <3>2, <3>3
  <2>2. CASE slave \notin DOMAIN wire
    <3>1. Position(slave) = {}
      BY <2>2 DEF Position
    <3>2. \E d \in Devices : TRUE
      BY Numbers DEF Devices, Slaves
    <3> QED
      BY <1>4, <3>1, <3>2
  <2> QED
    BY <2>1, <2>2
<1>8. \A d \in Devices : d # n => /\ Unaddressed(d)' <=> Unaddressed(d)
                                  /\ Temporary(d)' <=> Temporary(d)
  BY <1>7 DEF Unaddressed, Temporary
<1>9. \/ /\ reg'[n].adr = reg[n].adr
         /\ Unaddressed(n)' <=> Unaddressed(n)
         /\ Temporary(n)' <=> Temporary(n)
      \/ reg'[n].adr = TempNode /\ slave \in DOMAIN wire /\ n = wire[slave] /\ n \in Everyone
  BY <1>7 DEF Unaddressed, Temporary
<1>10. OfItsKind'
  BY <1>7, Numbers DEF OfItsKind, AddressOK, StillMistakable
<1> HIDE DEF Unaddressed, Temporary, Everyone
<1>11. /\ changes >= 2 \/ (changes = 1 /\ slave \in DOMAIN wire /\ Unaddressed(wire[slave]))
       /\ \A d \in Devices \ Everyone : Temporary(d) => changes >= 3
       /\ \A d \in Everyone : ~Temporary(d)
  BY <1>2 DEF BeforeOK, AddressOK
<1>12. WiringOK'
  <2>1. CASE changes >= 2
    BY <1>6, <1>8, <1>9, <1>11, <2>1 DEF WiringOK
  <2>2. CASE changes = 1 /\ slave \in DOMAIN wire /\ Unaddressed(wire[slave])
    <3>1. \A d \in Everyone : Unaddressed(d)' => Unaddressed(d)
      BY <1>6, <1>8, <1>9, <2>2
    <3>2. \A d \in Devices \ Everyone : ~Temporary(d)'
      BY <1>8, <1>9, <1>11, <2>2
    <3> QED
      BY <1>6, <2>2, <3>1, <3>2 DEF WiringOK, AddressOK
  <2> QED
    BY <1>11, <2>1, <2>2
<1>13. BeforeOK' /\ LeftoverOK'
  BY <1>2 DEF BeforeOK, LeftoverOK
<1>14. TakenBy(n)'
  BY <1>2, <1>6, <1>8, <1>11 DEF TakenBy, Asked, AgreesIn, StillMistakable
<1>15. AfterOK'
  BY <1>6, <1>11, <1>14 DEF AfterOK, Asking
<1> QED
  BY <1>10, <1>12, <1>13, <1>15 DEF AddressOK

(* Each answer comes from the device that has been given the temporary     *)
(* address in this call, or from none; one that agrees with the slave is   *)
(* its own, or may be mistaken.                                            *)
LEMMA FieldAgrees ==
  ASSUME TypeOK, NEW n \in Devices, Temporary(n),
         \A e \in Devices : e # n /\ Temporary(e) => e \notin Everyone,
         NEW way \in Ways, Reading(way), NEW s, NEW field \in Fields,
         Identity[s][field] \in Answers(way, field)
  PROVE  \/ Identity[n][field] = Identity[s][field]
         \/ Mistakable(n, s, field)'
         \/ n \notin Everyone /\ Identity[s][field] = 0
<1> DEFINE there == Configured(TempNode)
<1>1. there \cap Everyone = there /\ there \subseteq {n}
  BY OnWire DEF Configured, Temporary, TypeOK
<1>2. CASE n \notin Everyone
  <2>1. there = {}
    BY <1>1, <1>2
  <2>2. ~(Wkc(way, there) > 0)
    BY <2>1, Worked
  <2>3. Identity[s][field] = 0
    BY <2>1, <2>2, Zenon DEF Answers
  <2> QED
    BY <1>2, <2>3
<1>3. CASE n \in Everyone
  <2>1. there = {n}
    BY <1>1, <1>3 DEF Configured, Temporary
  <2>2. Answering(there) \in there
    BY <1>1, <2>1, AnsweringReached DEF TypeOK, BusTypeOK
  <2>3. Answering(there) = n
    BY <2>1, <2>2
  <2>4. way # "answered" => lost' > 0
    BY DEF Reading, Counted, TypeOK, BusTypeOK
  <2>5. CASE Identity[s][field] = Identity[n][field]
    BY <2>5
  <2>6. CASE Identity[s][field] = 0 /\ (field \in SiiFields \/ way # "answered")
    BY <2>4, <2>6 DEF Mistakable
  <2>7. CASE /\ field \in SiiFields /\ way # "answered"
             /\ Identity[s][field] \in {Identity[n][word] : word \in SiiFields}
    BY <2>4, <2>7 DEF Mistakable
  <2>8. way = "answered" => Wkc(way, there) > 0
    BY <2>1, FS_Singleton DEF Wkc
  <2> HIDE DEF there
  <2>9. Answers(way, field) =
          (IF Wkc(way, there) > 0 THEN {Identity[n][field]} ELSE {0})
            \cup (IF field = "alias" \/ there = {} THEN {}
                  ELSE IF way = "answered" THEN {0}
                  ELSE {Identity[n][word] : word \in SiiFields})
    BY <2>3, Zenon DEF Answers, there
  <2> QED
    BY <2>5, <2>6, <2>7, <2>8, <2>9 DEF Fields
<1> QED
  BY <1>2, <1>3

LEMMA AddressIdentify ==
  ASSUME TypeOK, AddressOK, Identify, Traceable', StillMistakable
  PROVE  AddressOK'
<1>1. PICK way \in Ways :
        /\ Reading(way)
        /\ \/ pc' = "giveup"
           \/ pc' = AfterField[pc] /\ Identity[slave][pc] \in Answers(way, pc)
  BY Zenon DEF Identify, Goto
<1>2. pc \in Fields /\ pc \in Asking /\ slave' = slave
  BY DEF Identify, Keep, Fields, SiiFields, Asking
<1>a. pc' = "giveup" \/ pc' = AfterField[pc]
  BY <1>1
<1>b. pc' \in {"id", "man", "rev", "address", "giveup"}
  BY <1>2, <1>a DEF AfterField, Asking
<1>3. SameAddresses
  <2>1. lost' \in Nat /\ UNCHANGED <<wire, reg, changes>>
    BY <1>1, ReadingTyped DEF TypeOK, BusTypeOK
  <2>2. lost <= lost'
    BY <1>1 DEF TypeOK, BusTypeOK, Reading, Counted
  <2> QED
    BY <2>1, <2>2 DEF SameAddresses
<1>4. /\ Everyone' = Everyone /\ Everyone \subseteq Devices
      /\ lost \in Nat /\ changes \in Nat /\ lost' \in Nat /\ lost <= lost' /\ changes' = changes
  BY <1>3, OnWire DEF TypeOK, SameAddresses, Everyone
<1>5. \A d \in Devices : /\ Unaddressed(d)' <=> Unaddressed(d)
                         /\ Temporary(d)' <=> Temporary(d)
                         /\ reg'[d].adr = reg[d].adr
  BY <1>3 DEF SameAddresses, Unaddressed, Temporary
<1>6. PICK n \in Devices : TakenBy(n)
  BY <1>2 DEF AfterOK, AddressOK
<1>7. ASSUME Temporary(n), NEW s \in Slaves, s = slave, NEW field \in Fields, field = pc,
             pc' # "giveup"
      PROVE  AgreesIn(n, s, field)'
  <2>1. Identity[s][field] \in Answers(way, field)
    BY <1>1, <1>7
  <2>2. \A e \in Devices : e # n /\ Temporary(e) => e \notin Everyone
    BY <1>6 DEF TakenBy
  <2>3. \/ Identity[n][field] = Identity[s][field]
        \/ Mistakable(n, s, field)'
        \/ n \notin Everyone /\ Identity[s][field] = 0
    BY <1>1, <1>7, <2>1, <2>2, FieldAgrees
  <2> QED
    BY <1>4, <2>3 DEF AgreesIn
<1>8. ASSUME Temporary(n), NEW s \in Slaves, s = slave, NEW field \in Fields, Asked(field)'
      PROVE  AgreesIn(n, s, field)'
  <2>1. pc' # "giveup"
    BY <1>8 DEF Asked
  <2>2. Asked(field) \/ field = pc
    BY <1>2, <1>8, <1>a, <2>1 DEF Asked, AfterField, Asking, Fields, SiiFields
  <2>3. CASE Asked(field)
    <3>1. AgreesIn(n, s, field)
      BY <1>6, <1>8, <2>3 DEF TakenBy
    <3> QED
      BY <1>4, <3>1 DEF AgreesIn, StillMistakable
  <2>4. CASE field = pc
    BY <1>7, <1>8, <2>1, <2>4
  <2> QED
    BY <2>2, <2>3, <2>4
<1> HIDE DEF Unaddressed, Temporary, Everyone
<1>9. OfItsKind'
  BY <1>5 DEF OfItsKind, AddressOK, StillMistakable
<1>10. WiringOK'
  BY <1>4, <1>5 DEF WiringOK, AddressOK
<1>11. BeforeOK' /\ LeftoverOK'
  BY <1>b DEF BeforeOK, LeftoverOK
<1>12. TakenBy(n)'
  BY <1>2, <1>4, <1>5, <1>6, <1>8 DEF TakenBy
<1>13. AfterOK'
  BY <1>2, <1>4, <1>12 DEF AfterOK, AddressOK, Asking
<1> QED
  BY <1>9, <1>10, <1>11, <1>13 DEF AddressOK

LEMMA AddressGiven ==
  ASSUME TypeOK, AddressOK, GiveAddress \/ GiveUp, Traceable', StillMistakable
  PROVE  AddressOK'
<1>1. /\ pc' = "returned" /\ slave \in Slaves
      /\ pc = "address" \/ pc = "giveup"
  BY DEF GiveAddress, GiveUp, Goto, Returning, TypeOK, StateTypeOK, Recovering
<1>2. PICK way \in Ways, value \in {NoAddress} \cup Slaves :
        /\ Sending(way, Configured(TempNode), "adr", value)
        /\ value = NoAddress \/ (value = slave /\ pc = "address")
  <2>1. CASE GiveAddress
    BY <1>1, <2>1 DEF GiveAddress
  <2>2. CASE GiveUp
    BY <2>2 DEF GiveUp
  <2> QED
    BY <2>1, <2>2
<1>3. /\ Everyone' = Everyone /\ Everyone \subseteq Devices
      /\ lost \in Nat /\ changes \in Nat /\ lost' \in Nat /\ lost <= lost' /\ changes' = changes
      /\ wire' = wire
      /\ \A d \in Devices : /\ Unaddressed(d)' => Unaddressed(d)
                            /\ Temporary(d)' => Temporary(d)
                            /\ Temporary(d) => Unaddressed(d)
                            /\ Temporary(d)' /\ d \in Everyone => lost' = lost + 1
                            /\ reg'[d].adr = reg[d].adr
                               \/ (reg'[d].adr = value /\ d \in Everyone /\ Temporary(d))
      /\ WiringOK'
  BY <1>2, TemporaryLost
<1>4. OfItsKind'
  <2> SUFFICES ASSUME NEW d \in Devices, NEW s \in Slaves, reg'[d].adr = s
               PROVE  PassesFor(d, s)'
    BY DEF OfItsKind
  <2>1. CASE reg'[d].adr = reg[d].adr
    BY <2>1 DEF OfItsKind, AddressOK, StillMistakable
  <2>2. CASE reg'[d].adr = value /\ d \in Everyone /\ Temporary(d)
    <3>1. value = slave /\ pc = "address"
      BY <1>2, <2>2, Numbers
    <3>2. PICK n \in Devices : TakenBy(n)
      BY <3>1 DEF AfterOK, AddressOK, Asking
    <3>3. d = n
      BY <2>2, <3>2 DEF TakenBy
    <3>4. s = slave
      BY <2>2, <3>1
    <3>5. \A field \in Fields : AgreesIn(d, s, field)
      BY <2>2, <3>1, <3>2, <3>3, <3>4 DEF TakenBy, Asked
    <3>6. PassesFor(d, s)
      BY <2>2, <3>5, Zenon DEF AgreesIn, PassesFor
    <3> QED
      BY <3>6 DEF StillMistakable
  <2> QED
    BY <1>3, <2>1, <2>2
<1> HIDE DEF Unaddressed, Temporary, Everyone
<1>5. LeftoverOK'
  BY <1>3 DEF LeftoverOK
<1>6. BeforeOK' /\ AfterOK'
  BY <1>1 DEF BeforeOK, AfterOK, Asking
<1> QED
  BY <1>3, <1>4, <1>5, <1>6 DEF AddressOK

(* No other step changes an address, or is part of ecx_recover_slave.      *)
LEMMA ReadsKeepAddresses ==
  ASSUME BusTypeOK, NEW way, Reading(way)
  PROVE  SameAddresses
<1>1. lost' \in Nat /\ UNCHANGED <<wire, reg, changes>>
  BY ReadingTyped DEF BusTypeOK
<1>2. lost <= lost'
  BY DEF BusTypeOK, Reading, Counted
<1> QED
  BY <1>1, <1>2 DEF SameAddresses

LEMMA RequestsKeepAddresses ==
  ASSUME BusTypeOK, NEW way, NEW reached, NEW value \in States,
         Sending(way, reached, "want", value)
  PROVE  SameAddresses
<1>1. Write(way, reached, "want", value) /\ UNCHANGED <<wire, changes>>
  BY DEF Sending, KeepBus
<1>2. lost' \in Nat /\ \A d \in Devices : reg'[d].adr = reg[d].adr
  BY <1>1, RequestWritten
<1>3. lost <= lost'
  BY <1>1 DEF BusTypeOK, Write, Counted
<1> QED
  BY <1>1, <1>2, <1>3 DEF SameAddresses

LEMMA OtherStepsKeepAddresses ==
  ASSUME TypeOK,
         \/ StateCall(application.functions, application.slaves)
         \/ ReadBroadcast \/ ReadGroup \/ Check \/ Reconfigure \/ Return
  PROVE  SameAddresses /\ ~Recovering /\ ~Recovering'
<1> USE DEF Recovering
<1>1. BusTypeOK
  BY DEF TypeOK
<1>2. ASSUME UNCHANGED busvars
      PROVE  SameAddresses
  BY <1>1, <1>2 DEF busvars, SameAddresses, BusTypeOK
<1>3. CASE StateCall(application.functions, application.slaves)
  <2>1. ASSUME NEW function, NEW s, NEW state,
               NEW first \in {"broadcast", "check", "position", "init"},
               Begin(function, s, state, first)
        PROVE  SameAddresses /\ ~Recovering /\ ~Recovering'
    BY <1>2, <2>1 DEF Begin, Goto, busvars
  <2>2. ASSUME NEW s, NEW state \in Requests, writestate(s, state)
        PROVE  SameAddresses /\ ~Recovering /\ ~Recovering'
    <3>1. PICK way, reached : Sending(way, reached, "want", state)
      BY <2>2, Zenon DEF writestate
    <3>2. state \in States
      BY SlaveStateAssumption DEF States
    <3>3. pc = "idle" /\ pc' = "returned"
      BY <2>2 DEF writestate, Goto
    <3> QED
      BY <1>1, <3>1, <3>2, <3>3, RequestsKeepAddresses
  <2>3. ASSUME readstate PROVE SameAddresses /\ ~Recovering /\ ~Recovering'
    <3>1. Begin("readstate", 1, OPERATIONAL, "broadcast")
      BY <2>3 DEF readstate
    <3> QED
      BY <2>1, <3>1
  <2>4. ASSUME NEW s, NEW state, statecheck(s, state)
        PROVE  SameAddresses /\ ~Recovering /\ ~Recovering'
    <3>1. Begin("statecheck", s, state, "check")
      BY <2>4 DEF statecheck
    <3> QED
      BY <2>1, <3>1
  <2>5. ASSUME NEW s, recover(s) PROVE SameAddresses /\ ~Recovering /\ ~Recovering'
    <3>1. Begin("recover", s, reqstate, "position")
      BY <2>5 DEF recover
    <3> QED
      BY <2>1, <3>1
  <2>6. ASSUME NEW s, reconfig(s) PROVE SameAddresses /\ ~Recovering /\ ~Recovering'
    <3>1. Begin("reconfig", s, reqstate, "init")
      BY <2>6 DEF reconfig
    <3> QED
      BY <2>1, <3>1
  <2> HIDE DEF Recovering
  <2> QED
    BY <1>3, <2>2, <2>3, <2>4, <2>5, <2>6, Zenon DEF StateCall
<1>4. CASE ReadBroadcast \/ ReadGroup \/ Check
  <2>1. PICK way \in Ways : Reading(way)
    <3>1. CASE ReadBroadcast
      BY <3>1 DEF ReadBroadcast
    <3>2. CASE ReadGroup
      BY <3>2, Zenon DEF ReadGroup
    <3>3. CASE Check
      BY <3>3, Zenon DEF Check
    <3> QED
      BY <1>4, <3>1, <3>2, <3>3
  <2>2. /\ pc \in {"broadcast", "group", "check"}
        /\ pc' \in {"broadcast", "group", "check", "returned", "preop", "safeop"}
    BY <1>4 DEF ReadBroadcast, ReadGroup, Check, Goto, Returning, TypeOK, StateTypeOK
  <2> QED
    BY <1>1, <2>1, <2>2, ReadsKeepAddresses
<1>5. CASE Reconfigure
  <2>1. pc \in {"init", "preop", "safeop"}
    BY <1>5 DEF Reconfigure
  <2>2. INIT \in States /\ PRE_OP \in States /\ SAFE_OP \in States
    BY DEF States
  <2>3. PICK state \in States, next \in {"preop", "safeop", "returned"} : Request(state, next)
    BY <1>5, <2>2 DEF Reconfigure
  <2>4. PICK way \in Ways : Sending(way, Configured(slave), "want", state)
    BY <2>3, Zenon DEF Request
  <2>5. pc' \in {"returned", "check"}
    BY <2>3, Zenon DEF Request, Goto, Returning
  <2> QED
    BY <1>1, <2>1, <2>4, <2>5, RequestsKeepAddresses
<1>6. CASE Return
  BY <1>2, <1>6 DEF Return, Goto, busvars
<1> HIDE DEF Recovering
<1> QED
  BY <1>3, <1>4, <1>5, <1>6

LEMMA AddressStep ==
  ASSUME TypeOK, AddressInv, [Next]_vars
  PROVE  AddressInv'
<1> SUFFICES ASSUME Traceable'
             PROVE  AddressOK'
  BY DEF AddressInv
<1>1. lost' \in Nat /\ changes' \in Nat /\ lost <= lost' /\ changes <= changes'
  BY HistoryGrows DEF TypeOK, BusTypeOK
<1>2. AddressOK /\ StillMistakable
  BY <1>1, MistakesStay DEF AddressInv, Traceable, TypeOK, BusTypeOK
<1>3. CASE UNCHANGED vars
  BY <1>1, <1>2, <1>3, AddressStays DEF vars, statevars, busvars, callvars, SameAddresses
<1>4. CASE AccessEeproms
  <2>1. Happens /\ UNCHANGED <<wire, reg, callvars>>
    BY <1>4, EepromHappens DEF TypeOK
  <2>2. CASE changes' = changes
    BY <1>1, <1>2, <2>1, <2>2, AddressStays DEF callvars, SameAddresses
  <2>3. CASE changes' # changes
    <3>1. Change
      BY <2>1, <2>3, Zenon DEF Happens
    <3> QED
      BY <1>2, <2>1, <3>1, AddressChanged
  <2> QED
    BY <2>2, <2>3
<1>5. CASE Supervise
  <2>1. CASE \/ StateCall(application.functions, application.slaves)
             \/ ReadBroadcast \/ ReadGroup \/ Check \/ Reconfigure \/ Return
    BY <1>2, <2>1, OtherStepsKeepAddresses, AddressStays
  <2>2. CASE Recovery
    BY <1>2, <2>2, AddressReadPosition, AddressClearTemporary, AddressSetTemporary,
       AddressIdentify, AddressGiven, Zenon DEF Recovery
  <2>3. CASE Device /\ UNCHANGED callvars
    <3>1. SameAddresses
      BY <1>1, <2>3, DeviceTyped DEF TypeOK, SameAddresses
    <3> QED
      BY <1>2, <2>3, <3>1, AddressStays DEF callvars
  <2>4. CASE Change /\ UNCHANGED callvars
    BY <1>2, <2>4, AddressChanged
  <2> QED
    BY <1>5, <2>1, <2>2, <2>3, <2>4, Zenon DEF Supervise, StateNext, Work
<1> QED
  BY <1>3, <1>4, <1>5 DEF Next

(* A device that has the address of a slave is that slave, or passes for   *)
(* it field by field, for every number of slaves and of devices: after     *)
(* ecx_recover_slave too, whose frame with the new address reaches every   *)
(* device with the temporary one, and whose questions may get no answer or *)
(* an old one.  It holds as long as fewer than two frames are lost and     *)
(* fewer than four changes of the wiring happen.                           *)
THEOREM RecoverKeepsIdentities == Spec => []NoStrangerAddressed
<1>1. Init => TypeOK /\ AddressInv
  BY TypeInit, AddressInit
<1>2. TypeOK /\ AddressInv /\ [Next]_vars => (TypeOK /\ AddressInv)'
  BY TypeStep, AddressStep
<1>3. AddressInv => NoStrangerAddressed
  BY DEF AddressInv, AddressOK, OfItsKind, NoStrangerAddressed
<1> QED
  BY <1>1, <1>2, <1>3, PTL DEF Spec

-----------------------------------------------------------------------------
(* The reports.  What was seen, missed or met at one moment of a call      *)
(* counts until its end.                                                   *)
LEMMA Watched ==
  ASSUME Onlooker, pc # "idle", pc' # "idle", reqstate' = reqstate
  PROVE  /\ met \subseteq met'
         /\ \A d \in Devices : reg'[d].al = reqstate /\ d \in Range(wire') => d \in met'
         /\ ~strange' => ~strange /\ Range(wire') \cap Strangers = {}
         /\ ~absent' => ~absent /\ Slaves \subseteq Range(wire')
<1>1. met' = met \cup {d \in Devices : reg'[d].al = reqstate /\ d \in Range(wire')}
  BY DEF Onlooker
<1>2. ~strange' => ~strange /\ Range(wire') \cap Strangers = {}
  BY Zenon DEF Onlooker
<1>3. ~absent' => ~absent /\ Slaves \subseteq Range(wire')
  BY Zenon DEF Onlooker
<1> QED
  BY <1>1, <1>2, <1>3

LEMMA MetTyped ==
  ASSUME Onlooker, met \subseteq Devices
  PROVE  met' \subseteq Devices
BY DEF Onlooker

(* Who has been seen stays so, and whoever has the address of a slave      *)
(* passes for it.                                                          *)
LEMMA SeenLater ==
  ASSUME StillMistakable, met \subseteq met', NEW s, Seen(s)
  PROVE  Seen(s)'
<1>1. PICK d \in met : PassesFor(d, s)
  BY DEF Seen
<1>2. PassesFor(d, s)' /\ d \in met'
  BY <1>1 DEF StillMistakable
<1> QED
  BY <1>2 DEF Seen

LEMMA KindMet ==
  ASSUME OfItsKind, BusTypeOK, StillMistakable,
         NEW s \in Slaves, NEW d \in Everyone, reg[d].adr = s, d \in met'
  PROVE  Seen(s)'
<1>1. d \in Devices
  BY OnWire
<1>2. PassesFor(d, s)'
  BY <1>1 DEF OfItsKind, StillMistakable
<1> QED
  BY <1>2 DEF Seen

LEMMA ItselfMet ==
  ASSUME NEW s
  PROVE  /\ s \in met => Seen(s)
         /\ s \in met' => Seen(s)'
<1>1. PassesFor(s, s) /\ PassesFor(s, s)'
  BY Genuine DEF PassesFor
<1> QED
  BY <1>1 DEF Seen

LEMMA SeenInit == Init => SeenOK
BY Numbers DEF Init, StateInit, SeenOK, Slaves

LEMMA SeenCall ==
  ASSUME TypeOK, SeenOK, Onlooker, StateCall(application.functions, application.slaves)
  PROVE  SeenOK'
<1>1. met' \subseteq Devices
  BY MetTyped DEF SeenOK
<1>2. pc = "idle" /\ \A s \in Slaves : slavelist[s] = 0
  BY DEF StateCall, readstate, writestate, statecheck, recover, reconfig, Begin, SeenOK
<1>3. \/ op' = "writestate" /\ pc' = "returned"
      \/ /\ pc' \in {"broadcast", "check", "position", "init"} /\ slavelist' = slavelist
         /\ op' = "readstate" => reqstate' = OPERATIONAL
  BY DEF StateCall, readstate, writestate, statecheck, recover, reconfig, Begin, Goto
<1>4. 0 % STATE_ERROR # OPERATIONAL
  BY DEF STATE_ERROR, OPERATIONAL
<1> QED
  BY <1>1, <1>2, <1>3, <1>4 DEF SeenOK

LEMMA SeenReadBroadcast ==
  ASSUME TypeOK, SeenOK, Onlooker, ReadBroadcast, StillMistakable
  PROVE  SeenOK'
<1>1. /\ pc = "broadcast" /\ UNCHANGED <<op, slave, reqstate, after>>
      /\ pc' \in {"returned", "group"}
  BY DEF ReadBroadcast, Goto, Returning
<1>2. op = "readstate"
  BY <1>1 DEF TypeOK, StateTypeOK
<1>3. met' \subseteq Devices /\ met \subseteq met'
      /\ \A d \in Devices : reg'[d].al = reqstate /\ d \in Range(wire') => d \in met'
  BY <1>1, MetTyped, Watched DEF SeenOK
<1>a. pc # "idle" /\ pc' # "idle" /\ reqstate' = reqstate
  BY <1>1
<1>b. ~strange' => ~strange
  BY <1>a, Watched, Zenon
<1>c. ~strange' => Range(wire') \cap Strangers = {}
  BY <1>a, Watched, Zenon
<1> DEFINE common(way) == CHOOSE state \in ReadAllStates(way) : TRUE
<1>4. PICK way \in Ways :
        /\ Reading(way)
        /\ \/ slavelist' = slavelist \/ \E c : slavelist' = [slavelist EXCEPT ![0] = c]
           \/ AllInOneState(way) /\ slavelist' = [s \in 0 .. SlaveCount |-> common(way)]
  BY DEF ReadBroadcast
<1>5. wire' = wire /\ reg' = reg
  BY <1>4, ReadingTyped DEF TypeOK
<1>6. ASSUME ~strange', NEW s \in Slaves, slavelist'[s] % STATE_ERROR = reqstate
      PROVE  Seen(s)'
  <2>1. s \in 0 .. SlaveCount /\ s # 0 /\ s \in Devices
    BY Numbers DEF Slaves
  <2>2. CASE slavelist'[s] = slavelist[s]
    <3>a. ~strange
      BY <1>b, <1>6, Zenon
    <3>b. op = "readstate" /\ ~strange =>
            \A t \in Slaves : slavelist[t] % STATE_ERROR = reqstate => Seen(t)
      BY Zenon DEF SeenOK
    <3>c. \A t \in Slaves : slavelist[t] % STATE_ERROR = reqstate => Seen(t)
      BY <1>2, <3>a, <3>b, Zenon
    <3>1. Seen(s)
      BY <1>6, <2>2, <3>c
    <3> QED
      BY <1>3, <3>1, SeenLater
  <2>3. CASE AllInOneState(way) /\ slavelist'[s] = common(way)
    <3>1. /\ Cardinality(ReadAllStates(way)) = 1
          /\ Wkc(way, Everyone) >= SlaveCount
      BY <2>3 DEF AllInOneState
    <3>2. common(way) \in States /\ \A d \in Everyone : reg[d].al = common(way)
      BY <3>1, OneStateRead DEF TypeOK
    <3>3. common(way) = reqstate
      <4>1. \A state \in States : state % STATE_ERROR = state
        BY DEF States, STATE_ERROR, INIT, PRE_OP, SAFE_OP, OPERATIONAL
      <4> HIDE DEF common
      <4> QED
        BY <1>6, <2>3, <3>2, <4>1
    <3>4. Cardinality(Everyone) >= SlaveCount
      BY <3>1, Numbers DEF Wkc, NoFrame
    <3>5. Everyone \subseteq Slaves
      <4>a. Range(wire') \cap Strangers = {}
        BY <1>c, <1>6, Zenon
      <4>1. Range(wire) \cap Strangers = {}
        BY <1>5, <4>a
      <4>2. Everyone \subseteq Devices
        BY OnWire DEF TypeOK
      <4> QED
        BY <4>1, <4>2 DEF Devices, Everyone
    <3>6. IsFiniteSet(Slaves) /\ Cardinality(Slaves) = SlaveCount
      <4>1. 1 \in Int /\ SlaveCount \in Int /\ SlaveCount >= 1
        BY Numbers
      <4>2. IsFiniteSet(1 .. SlaveCount)
            /\ Cardinality(1 .. SlaveCount) = IF 1 > SlaveCount THEN 0 ELSE SlaveCount - 1 + 1
        BY <4>1, FS_Interval, Zenon
      <4> QED
        BY <4>1, <4>2 DEF Slaves
    <3>7. Everyone = Slaves
      <4>1. /\ IsFiniteSet(Everyone) /\ Cardinality(Everyone) <= Cardinality(Slaves)
            /\ Cardinality(Slaves) = Cardinality(Everyone) => Slaves = Everyone
        BY <3>5, <3>6, FS_Subset
      <4>2. Cardinality(Everyone) \in Nat
        BY <4>1, FS_CardinalityType
      <4> QED
        BY <3>4, <3>6, <4>1, <4>2, Numbers
    <3>8. s \in Range(wire') /\ reg'[s].al = reqstate
      BY <1>5, <3>2, <3>3, <3>7 DEF Everyone
    <3>9. s \in met'
      BY <1>3, <2>1, <3>8
    <3> QED
      BY <3>9, ItselfMet
  <2>4. slavelist'[s] = slavelist[s] \/ (AllInOneState(way) /\ slavelist'[s] = common(way))
    <3> HIDE DEF common
    <3> QED
      BY <1>4, <2>1 DEF TypeOK, StateTypeOK
  <2> QED
    BY <2>2, <2>3, <2>4
<1>7. pc' # "idle" /\ op' = "readstate" /\ reqstate' = reqstate
  BY <1>1, <1>2
<1> QED
  BY <1>3, <1>6, <1>7 DEF SeenOK

LEMMA SeenReadGroup ==
  ASSUME TypeOK, AddressOK, SeenOK, Onlooker, ReadGroup, StillMistakable
  PROVE  SeenOK'
<1>1. /\ pc = "group" /\ UNCHANGED <<op, reqstate>>
      /\ pc' \in {"returned", "group"}
  BY DEF ReadGroup, Goto, Returning
<1>2. op = "readstate" /\ reqstate = OPERATIONAL
  BY <1>1 DEF TypeOK, StateTypeOK
<1>3. met' \subseteq Devices /\ met \subseteq met'
      /\ \A d \in Devices : reg'[d].al = reqstate /\ d \in Range(wire') => d \in met'
  BY <1>1, MetTyped, Watched DEF SeenOK
<1>a. pc # "idle" /\ pc' # "idle" /\ reqstate' = reqstate
  BY <1>1
<1>b. ~strange' => ~strange
  BY <1>a, Watched, Zenon
<1>4. PICK way \in Ways :
        /\ Reading(way)
        /\ \A s \in Slaves : slavelist'[s] \in {ReadAlStatus(way, Configured(s), 0), slavelist[s]}
  <2>1. \A s \in Slaves : s \in 0 .. SlaveCount /\ s # 0
    BY DEF Slaves
  <2> QED
    BY <2>1 DEF ReadGroup
<1>5. wire' = wire /\ reg' = reg
  BY <1>4, ReadingTyped DEF TypeOK
<1>6. ASSUME ~strange', NEW s \in Slaves, slavelist'[s] % STATE_ERROR = reqstate
      PROVE  Seen(s)'
  <2>1. CASE slavelist'[s] = slavelist[s]
    <3>a. ~strange
      BY <1>b, <1>6, Zenon
    <3>b. op = "readstate" /\ ~strange =>
            \A t \in Slaves : slavelist[t] % STATE_ERROR = reqstate => Seen(t)
      BY Zenon DEF SeenOK
    <3>c. \A t \in Slaves : slavelist[t] % STATE_ERROR = reqstate => Seen(t)
      BY <1>2, <3>a, <3>b, Zenon
    <3>1. Seen(s)
      BY <1>6, <2>1, <3>c
    <3> QED
      BY <1>3, <3>1, SeenLater
  <2>2. CASE slavelist'[s] = ReadAlStatus(way, Configured(s), 0)
    <3>1. 0 % STATE_ERROR # OPERATIONAL
      BY DEF STATE_ERROR, OPERATIONAL
    <3>2. PICK d \in Everyone : reg[d].adr = s /\ reg[d].al = reqstate
      BY <1>2, <1>6, <2>2, <3>1, StatusRead DEF TypeOK
    <3>3. d \in met'
      BY <1>3, <1>5, <3>2, OnWire DEF TypeOK, Everyone
    <3> QED
      BY <3>2, <3>3, KindMet DEF TypeOK, AddressOK
  <2> QED
    BY <1>4, <2>1, <2>2
<1>7. pc' # "idle" /\ op' = "readstate" /\ reqstate' = reqstate
  BY <1>1, <1>2
<1> QED
  BY <1>3, <1>6, <1>7 DEF SeenOK

LEMMA SeenCheck ==
  ASSUME TypeOK, AddressOK, SeenOK, Onlooker, Check, StillMistakable
  PROVE  SeenOK'
<1>1. pc = "check" /\ UNCHANGED <<op, slave, reqstate>> /\ pc' # "idle"
  BY DEF Check, Keep, Goto, TypeOK, StateTypeOK
<1>2. op \in {"statecheck", "reconfig"} /\ slave \in 0 .. SlaveCount
  BY <1>1 DEF TypeOK, StateTypeOK
<1>a. pc # "idle" /\ pc' # "idle" /\ reqstate' = reqstate
  BY <1>1
<1>3. met' \subseteq Devices
      /\ \A d \in Devices : reg'[d].al = reqstate /\ d \in Range(wire') => d \in met'
  BY <1>1, MetTyped, Watched DEF SeenOK
<1>4. ~absent' => Slaves \subseteq Range(wire')
  BY <1>a, Watched, Zenon
<1>5. PICK way \in Ways :
        Reading(way) /\ (pc' = "check" \/ ret' = Found(way))
  <2>1. PICK way \in Ways : Reading(way) /\ (pc' = pc \/ ret' = Found(way))
    BY Zenon DEF Check
  <2> QED
    BY <1>1, <2>1
<1>6. wire' = wire /\ reg' = reg
  BY <1>5, ReadingTyped DEF TypeOK
<1>7. ASSUME pc' = "returned", ret' = reqstate
      PROVE  Found(way) = reqstate /\ reqstate \in States
  BY <1>5, <1>7 DEF TypeOK, StateTypeOK
<1>8. ASSUME pc' = "returned", ret' = reqstate, slave = 0, ~absent'
      PROVE  Slaves \subseteq met'
  <2>1. \A d \in Everyone : reg[d].al = reqstate
    BY <1>2, <1>7, <1>8, FoundInOne DEF TypeOK
  <2>2. Slaves \subseteq Range(wire')
    BY <1>4, <1>8, Zenon
  <2> QED
    BY <1>3, <1>6, <2>1, <2>2, Numbers DEF Everyone
<1>9. ASSUME pc' = "returned", ret' = reqstate, NEW s \in Slaves, s = slave
      PROVE  Seen(s)'
  <2>1. slave # 0
    BY <1>9 DEF Slaves
  <2>2. PICK d \in Everyone : reg[d].adr = s /\ reg[d].al = reqstate
    BY <1>2, <1>7, <1>9, <2>1, FoundInOne DEF TypeOK
  <2>3. d \in met'
    BY <1>3, <1>6, <2>2, OnWire DEF TypeOK, Everyone
  <2> QED
    BY <2>2, <2>3, KindMet DEF TypeOK, AddressOK
<1>10. pc' = "returned" /\ op' \in {"statecheck", "reconfig"} /\ ret' = reqstate' =>
         /\ slave' = 0 /\ ~absent' => Slaves \subseteq met'
         /\ \A s \in Slaves : s = slave' => Seen(s)'
  BY <1>1, <1>8, <1>9, Zenon
<1>11. op' # "readstate" /\ pc' # "idle"
  BY <1>1, <1>2
<1> QED
  BY <1>3, <1>10, <1>11, Zenon DEF SeenOK

(* ecx_recover_slave reports no state, and ecx_reconfig_slave none when    *)
(* its first datagram goes unanswered.                                     *)
LEMMA SeenOther ==
  ASSUME TypeOK, SeenOK, Onlooker, Recovery \/ Reconfigure \/ Return
  PROVE  SeenOK'
<1>1. met' \subseteq Devices
  BY MetTyped DEF SeenOK
<1>2. CASE Recovery
  <2>1. op' = "recover" /\ pc' # "idle"
    BY <1>2, RecoverySteps DEF TypeOK, StateTypeOK, Recovering
  <2> QED
    BY <1>1, <2>1 DEF SeenOK
<1>3. CASE Reconfigure
  <2>1. /\ op' = "reconfig"
        /\ \/ pc' = "returned" /\ ret' = 0 /\ reqstate' = reqstate
           \/ pc' = "check"
    <3>1. op = "reconfig" /\ op' = op
      BY <1>3 DEF Reconfigure, TypeOK, StateTypeOK
    <3>2. PICK state, next : Request(state, next)
      BY <1>3, Zenon DEF Reconfigure
    <3>3. \/ pc' = "returned" /\ ret' = 0 /\ reqstate' = reqstate
          \/ pc' = "check"
      BY <3>2, Zenon DEF Request, Goto, Returning
    <3> QED
      BY <3>1, <3>3
  <2>2. 0 # reqstate
    BY DEF TypeOK, StateTypeOK, States, INIT, PRE_OP, SAFE_OP, OPERATIONAL
  <2> QED
    BY <1>1, <2>1, <2>2 DEF SeenOK
<1>4. CASE Return
  <2>1. pc' = "idle" /\ op' = "none" /\ slavelist' = [s \in 0 .. SlaveCount |-> 0]
    BY <1>4 DEF Return, Goto
  <2>2. \A s \in Slaves : slavelist'[s] = 0
    BY <2>1 DEF Slaves
  <2> QED
    BY <1>1, <2>1, <2>2 DEF SeenOK
<1> QED
  BY <1>2, <1>3, <1>4

LEMMA SeenStay ==
  ASSUME TypeOK, SeenOK, UNCHANGED callvars, Onlooker, StillMistakable
  PROVE  SeenOK'
<1>1. met' \subseteq Devices
  BY MetTyped DEF SeenOK
<1>2. UNCHANGED <<pc, op, slave, reqstate, slavelist, ret>>
  BY DEF callvars
<1>3. CASE pc = "idle"
  <2>1. op = "none" /\ \A s \in Slaves : slavelist[s] = 0
    BY <1>3 DEF TypeOK, StateTypeOK, SeenOK
  <2> QED
    BY <1>1, <1>2, <1>3, <2>1 DEF SeenOK
<1>4. CASE pc # "idle"
  <2>1. pc # "idle" /\ pc' # "idle" /\ reqstate' = reqstate
    BY <1>2, <1>4
  <2>2. met \subseteq met'
    BY <2>1, Watched
  <2>3. ~strange' => ~strange
    BY <2>1, Watched, Zenon
  <2>4. ~absent' => ~absent
    BY <2>1, Watched, Zenon
  <2>5. \A s : Seen(s) => Seen(s)'
    BY <2>2, SeenLater
  <2>7. Slaves \subseteq met => Slaves \subseteq met'
    BY <2>2
  <2>8. op' = "readstate" /\ ~strange' =>
          \A s \in Slaves : slavelist'[s] % STATE_ERROR = reqstate' => Seen(s)'
    <3> SUFFICES ASSUME op' = "readstate", ~strange', NEW s \in Slaves,
                        slavelist'[s] % STATE_ERROR = reqstate'
                 PROVE  Seen(s)'
      BY Zenon
    <3>1. op = "readstate" /\ slavelist[s] % STATE_ERROR = reqstate
      BY <1>2
    <3>2. Seen(s)
      BY <2>3, <3>1, Zenon DEF SeenOK
    <3> QED
      BY <2>5, <3>2
  <2>9. pc' = "returned" /\ op' \in {"statecheck", "reconfig"} /\ ret' = reqstate' =>
          /\ slave' = 0 /\ ~absent' => Slaves \subseteq met'
          /\ \A s \in Slaves : s = slave' => Seen(s)'
    <3> SUFFICES ASSUME pc' = "returned" /\ op' \in {"statecheck", "reconfig"} /\ ret' = reqstate'
                 PROVE  /\ slave' = 0 /\ ~absent' => Slaves \subseteq met'
                        /\ \A s \in Slaves : s = slave' => Seen(s)'
      BY Zenon
    <3>1. pc = "returned" /\ op \in {"statecheck", "reconfig"} /\ ret = reqstate
      BY <1>2
    <3>2. slave = 0 /\ ~absent => Slaves \subseteq met
      BY <3>1, Zenon DEF SeenOK
    <3>3. \A s \in Slaves : s = slave => Seen(s)
      BY <3>1, Zenon DEF SeenOK
    <3>4. slave' = slave
      BY <1>2
    <3> QED
      BY <2>4, <2>5, <2>7, <3>2, <3>3, <3>4, Zenon
  <2> QED
    BY <1>1, <2>1, <2>8, <2>9, Zenon DEF SeenOK
<1> QED
  BY <1>3, <1>4

LEMMA SeenStep ==
  ASSUME TypeOK, AddressInv, SeenInv, [Next]_vars
  PROVE  SeenInv'
<1> SUFFICES ASSUME Traceable'
             PROVE  SeenOK'
  BY DEF SeenInv
<1>1. lost' \in Nat /\ changes' \in Nat /\ lost <= lost' /\ changes <= changes'
  BY HistoryGrows DEF TypeOK, BusTypeOK
<1>2. AddressOK /\ SeenOK /\ StillMistakable
  BY <1>1, MistakesStay DEF AddressInv, SeenInv, Traceable, TypeOK, BusTypeOK
<1>3. ASSUME UNCHANGED <<callvars, seenvars>>
      PROVE  SeenOK'
  <2>1. UNCHANGED <<pc, op, slave, reqstate, slavelist, ret, met, strange, absent>>
    BY <1>3 DEF callvars, seenvars
  <2>2. \A s : Seen(s) => Seen(s)'
    BY <1>2, <2>1, SeenLater
  <2> QED
    BY <1>2, <2>1, <2>2, Zenon DEF SeenOK
<1>4. CASE UNCHANGED vars
  BY <1>3, <1>4 DEF vars, statevars
<1>5. CASE AccessEeproms
  BY <1>3, <1>5 DEF AccessEeproms
<1>6. CASE Supervise
  <2>1. Onlooker
    BY <1>6 DEF Supervise, StateNext
  <2> QED
    BY <1>2, <1>6, <2>1, SeenCall, SeenReadBroadcast, SeenReadGroup, SeenCheck, SeenOther,
       SeenStay, Zenon DEF Supervise, StateNext, Work
<1> QED
  BY <1>4, <1>5, <1>6 DEF Next

(* A state that ecx_readstate, ecx_statecheck or ecx_reconfig_slave        *)
(* reports of a slave is one that this slave, or a device that passes for  *)
(* it, was in during the call, for every number of slaves and of devices:  *)
(* in one datagram for the whole bus, in groups, and in the wait for one   *)
(* slave or for all.                                                       *)
LEMMA KindSeen ==
  ASSUME TypeOK, SeenOK
  PROVE  ReportedStateWasSeen
<1> SUFFICES ASSUME pc = "returned", NEW s \in Slaves, ReportedIn(s)
             PROVE  Seen(s)
  BY Zenon DEF ReportedStateWasSeen, Seen
<1>1. op # "none"
  BY DEF TypeOK, StateTypeOK
<1>2. op \in {"readstate", "writestate", "statecheck", "recover", "reconfig"}
  BY <1>1 DEF TypeOK, StateTypeOK, StateFunctions
<1>3. CASE op = "readstate"
  <2>1. ~strange /\ slavelist[s] % STATE_ERROR = reqstate
    BY <1>3 DEF ReportedIn
  <2> QED
    BY <1>3, <2>1, Zenon DEF SeenOK
<1>4. CASE op \in {"statecheck", "reconfig"} /\ slave = 0
  <2>1. ~absent /\ ret = reqstate
    BY <1>4 DEF ReportedIn
  <2>2. Slaves \subseteq met
    BY <1>4, <2>1, Zenon DEF SeenOK
  <2> QED
    BY <2>2, ItselfMet
<1>5. CASE op \in {"statecheck", "reconfig"} /\ slave # 0
  <2>1. s = slave /\ ret = reqstate
    BY <1>5 DEF ReportedIn
  <2> QED
    BY <1>5, <2>1, Zenon DEF SeenOK
<1>6. CASE op \in {"writestate", "recover"}
  BY <1>6 DEF ReportedIn
<1> QED
  BY <1>2, <1>3, <1>4, <1>5, <1>6

SlavesIInv == TypeOK /\ AddressInv /\ SeenInv

LEMMA SlavesInvariant == Spec => []SlavesIInv
<1>1. Init => SlavesIInv
  BY TypeInit, AddressInit, SeenInit DEF SlavesIInv, SeenInv
<1>2. SlavesIInv /\ [Next]_vars => SlavesIInv'
  BY TypeStep, AddressStep, SeenStep DEF SlavesIInv
<1> QED
  BY <1>1, <1>2, PTL DEF Spec

(* What ecx_readstate, ecx_statecheck or ecx_reconfig_slave reports of a   *)
(* slave was so, during the call, of the slave or of a device that passes  *)
(* for it.                                                                 *)
THEOREM ReportsAreOfItsKind == Spec => [](Traceable => ReportedStateWasSeen)
<1>1. SlavesIInv => (Traceable => ReportedStateWasSeen)
  BY KindSeen DEF SlavesIInv, SeenInv
<1> QED
  BY <1>1, SlavesInvariant, PTL

SlaveItselfWasSeen ==
  pc = "returned" => \A s \in Slaves : ReportedIn(s) => s \in met

(* Where no other device can pass for a slave, whatever is lost, what      *)
(* these calls report was so of the slave itself.                          *)
THEOREM ReportsAreTrue ==
  ASSUME NoTwins
  PROVE  Spec => [](Traceable => SlaveItselfWasSeen)
<1>1. ASSUME NEW d \in Devices, NEW s \in Slaves, PassesFor(d, s)
      PROVE  d = s
  <2> SUFFICES ASSUME d # s
               PROVE  FALSE
    OBVIOUS
  <2>1. PICK field \in Fields :
          /\ Identity[s][field] \notin {0, Identity[d][field]}
          /\ field \in SiiFields => \A word \in SiiFields : Identity[s][field] # Identity[d][word]
    BY NoTwins, Zenon DEF NoTwins
  <2>2. Identity[d][field] = Identity[s][field] \/ Mistakable(d, s, field)
    BY <1>1, Zenon DEF PassesFor
  <2> QED
    BY <2>1, <2>2 DEF Mistakable
<1>2. SlavesIInv => (Traceable => SlaveItselfWasSeen)
  <2> SUFFICES ASSUME SlavesIInv, Traceable, pc = "returned", NEW s \in Slaves, ReportedIn(s)
               PROVE  s \in met
    BY Zenon DEF SlaveItselfWasSeen
  <2>1. ReportedStateWasSeen /\ SeenOK
    BY KindSeen DEF SlavesIInv, SeenInv
  <2>2. PICK d \in met : PassesFor(d, s)
    BY <2>1, Zenon DEF ReportedStateWasSeen
  <2>3. d \in Devices
    BY <2>1 DEF SeenOK
  <2> QED
    BY <1>1, <2>2, <2>3
<1> QED
  BY <1>2, SlavesInvariant, PTL

=============================================================================
