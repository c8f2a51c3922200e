------------------------------- MODULE Eeprom -------------------------------
(***************************************************************************)
(* The slave information (SII) in the EEPROMs                              *)
(* (native/soem/src/ec_main.c): access by command, status and data         *)
(* registers, which ecx_eeprom2master and ecx_eeprom2pdi give to master    *)
(* and slave, and the cache of one slave's SII.  One thread makes one call *)
(* after the other; an EEPROM works on its command meanwhile, or does not  *)
(* acknowledge it.                                                         *)
(*                                                                         *)
(* The functions for slaves without address (ecx_readeepromAP,             *)
(* ecx_writeeepromAP, ecx_eeprom_waitnotbusyAP) take the same steps with   *)
(* APRD and APWR, and leave it to the caller to own the EEPROM.            *)
(***************************************************************************)
EXTENDS Bus

CONSTANTS
  Wide,      \* slaves whose EEPROM is read in 8 bytes (EC_ESTAT_R64), not 4
  SiiWords   \* words an EEPROM has

ASSUME EepromAssumption == Wide \subseteq Slaves /\ SiiWords \in Nat \ {0}

VARIABLES
  step,      \* the next datagram of the call, "idle" between calls
  call,      \* the function that runs, its slave, its word, and the version
             \* of the word a write writes
  edat,      \* what the call returns: four words, or whether a write worked
  nackcnt,
  asked,     \* the slaves that ecx_readeeprom1 was called for, and the words
  eep_pdi,   \* slaves that the master takes to own their EEPROM
  esislave,  \* the slave whose SII is in the cache
  esibuf,    \* its words, as far as esimap says that they are there
  refused,   \* those of them whose read the EEPROM refused (history)
  esc,       \* the slaves' EEPROM interfaces
  sii        \* sii[s][w]: the version of word w

cache == <<esislave, esibuf, refused>>
eepvars == <<step, call, edat, nackcnt, asked, eep_pdi, cache, esc, sii>>

Zero == <<0, 0, 0>>
Erased == <<-1, 0, 0>>  \* 0xffff
Written == <<>>
Word(s, w) == IF w < SiiWords THEN <<s, w, sii[s][w]>> ELSE Erased
Chunk(s) == IF s \in Wide THEN 4 ELSE 2

(* The first n of four words; the others are 0.                            *)
Cut(words, n) == [i \in 1 .. 4 |-> IF i <= n THEN words[i] ELSE Zero]
Failed == [i \in 1 .. 4 |-> Zero]
Content(s, w) == Cut([i \in 1 .. 4 |-> Word(s, w + i - 1)], Chunk(s))

NoCall == [op |-> "none", slave |-> 1, word |-> 0, version |-> 0]

EepromInit ==
  /\ step = "idle" /\ call = NoCall /\ edat = Failed /\ nackcnt = 0
  /\ asked = [s \in Slaves |-> -1]
  /\ eep_pdi = {}
  /\ esislave = 0 /\ esibuf = <<>> /\ refused = {}
  /\ sii = [s \in Slaves |-> [w \in 0 .. SiiWords - 1 |-> 0]]
  /\ esc = [s \in Slaves |->
              [pdi |-> FALSE, busy |-> FALSE, command |-> "none", word |-> 0,
               nack |-> FALSE, data |-> Failed]]

Own == esc[call.slave]
SetEsc(s, c) == esc' = [esc EXCEPT ![s] = c]
OnBus(way) == Counted(way) /\ UNCHANGED <<wire, reg, changes>>

-----------------------------------------------------------------------------
(* An EEPROM finishes its command, or does not acknowledge it.             *)
Complete(s) ==
  /\ esc[s].busy
  /\ \/ /\ esc[s].command = "read"
        /\ SetEsc(s, [esc[s] EXCEPT !.busy = FALSE, !.data = Content(s, esc[s].word)])
        /\ UNCHANGED sii
     \/ /\ esc[s].command = "write"
        /\ SetEsc(s, [esc[s] EXCEPT !.busy = FALSE])
        /\ sii' = [sii EXCEPT ![s][esc[s].word] = esc[s].data[1][3]]
     \/ SetEsc(s, [esc[s] EXCEPT !.busy = FALSE, !.nack = TRUE]) /\ UNCHANGED sii
  /\ UNCHANGED <<busvars, step, call, edat, nackcnt, asked, eep_pdi, cache>>

-----------------------------------------------------------------------------
(* ecx_eeprom2master, ecx_eeprom2pdi: the master's note changes even when  *)
(* no frame arrives.                                                       *)
SetControl(pdi) ==
  LET noted == IF pdi THEN eep_pdi \cup {call.slave} ELSE eep_pdi \ {call.slave}
  IN  /\ eep_pdi' = noted
      /\ IF noted = eep_pdi THEN UNCHANGED <<busvars, esc>>
         ELSE \E way \in Ways :
                /\ OnBus(way)
                /\ IF way = "lost" THEN UNCHANGED esc
                   ELSE SetEsc(call.slave, [Own EXCEPT !.pdi = pdi])

Control ==
  /\ \/ step = "master" /\ SetControl(FALSE) /\ step' = "ready?"
     \/ step = "pdi" /\ SetControl(TRUE) /\ step' = "returned"
  /\ UNCHANGED <<call, edat, nackcnt, asked, cache, sii>>

(* ecx_eeprom_waitnotbusyFP: the status once it is not busy, or still busy *)
(* at the timeout; when no answer came it is 0, which reads as success.    *)
(* A call that finds it busy, or is not acknowledged, ends at "refused":   *)
(* it returns what it began with.                                          *)
WaitNotBusy(estat) ==
  \/ /\ estat = (IF Own.nack THEN "nack" ELSE "ok")
     /\ ~Own.busy
     /\ UNCHANGED busvars
  \/ estat = "busy" /\ Own.busy /\ UNCHANGED busvars
  \/ estat = "unknown" /\ lost < MaxLost /\ OnBus("unanswered")

Status == {"ok", "nack", "busy", "unknown"}

Order == IF call.op = "write" THEN "value" ELSE "command"

(* Before a command; ecx_readeeprom2 looks for no more before it reads.    *)
AwaitReady ==
  /\ step = "ready?"
  /\ \E estat \in Status :
       /\ WaitNotBusy(estat)
       /\ step' = IF estat = "busy" THEN "refused"
                  ELSE IF call.op = "read2" THEN "data32"
                  ELSE IF estat = "nack" THEN "clear"
                  ELSE Order
  /\ UNCHANGED <<call, edat, nackcnt, asked, eep_pdi, cache, esc, sii>>

ClearError ==
  /\ step = "clear" /\ step' = Order
  /\ \E way \in Ways :
       /\ OnBus(way)
       /\ IF way = "lost" \/ Own.pdi THEN UNCHANGED esc
          ELSE SetEsc(call.slave, [Own EXCEPT !.nack = FALSE])
  /\ UNCHANGED <<call, edat, nackcnt, asked, eep_pdi, cache, sii>>

WriteValue ==
  /\ step = "value" /\ step' = "command"
  /\ \E way \in Ways :
       /\ OnBus(way)
       /\ IF way = "lost" \/ Own.pdi THEN UNCHANGED esc
          ELSE SetEsc(call.slave,
                 [Own EXCEPT !.data[1] = <<call.slave, call.word, call.version>>])
  /\ UNCHANGED <<call, edat, nackcnt, asked, eep_pdi, cache, sii>>

(* EC_NOFRAME is as good as a working counter here.                        *)
WriteCommand ==
  /\ step = "command"
  /\ \E way \in Ways :
       /\ OnBus(way)
       /\ IF way = "lost" \/ Own.pdi \/ Own.busy THEN UNCHANGED esc
          ELSE SetEsc(call.slave,
                 [Own EXCEPT !.busy = TRUE,
                             !.command = IF call.op = "write" THEN "write" ELSE "read",
                             !.word = call.word, !.nack = FALSE])
  /\ step' = IF call.op = "read1" THEN "returned" ELSE "done?"
  /\ UNCHANGED <<call, edat, nackcnt, asked, eep_pdi, cache, sii>>

NotAcknowledged(estat) == estat = "nack"

(* Three commands in a row without acknowledge end the call; a write sends *)
(* its value again with each of them.                                      *)
AwaitDone ==
  /\ step = "done?"
  /\ \E estat \in Status :
       /\ WaitNotBusy(estat)
       /\ nackcnt' = IF NotAcknowledged(estat) THEN nackcnt + 1
                     ELSE IF estat = "busy" THEN nackcnt ELSE 0
       /\ IF NotAcknowledged(estat) \/ estat = "busy"
          THEN /\ step' = IF nackcnt' \in 1 .. 2 THEN Order ELSE "refused"
               /\ UNCHANGED edat
          ELSE IF call.op = "write" THEN step' = "returned" /\ edat' = Written
          ELSE /\ step' = IF estat # "unknown" /\ call.slave \in Wide THEN "data64" ELSE "data32"
               /\ UNCHANGED edat
  /\ UNCHANGED <<call, asked, eep_pdi, cache, esc, sii>>

ReadData ==
  /\ step \in {"data32", "data64"} /\ step' = "returned"
  /\ \E way \in Ways :
       /\ OnBus(way)
       /\ edat' = IF way = "answered" THEN Cut(Own.data, IF step = "data64" THEN 4 ELSE 2)
                  ELSE edat
  /\ UNCHANGED <<call, nackcnt, asked, eep_pdi, cache, esc, sii>>

-----------------------------------------------------------------------------
Access(op, s, w, first) ==
  /\ step = "idle" /\ step' = first
  /\ call' = [op |-> op, slave |-> s, word |-> w,
              version |-> IF op = "write" THEN 1 - sii[s][w] ELSE 0]
  /\ asked' = [asked EXCEPT ![s] = IF op = "read1" THEN w ELSE -1]
  /\ UNCHANGED <<busvars, edat, nackcnt, eep_pdi, esc, sii>>

readeeprom(s, w) == Access("read", s, w, "master") /\ UNCHANGED cache
writeeeprom(s, w) == Access("write", s, w, "master") /\ UNCHANGED cache
readeepromAP(s, w) == Access("read", s, w, "ready?") /\ UNCHANGED cache
writeeepromAP(s, w) == Access("write", s, w, "ready?") /\ UNCHANGED cache
readeeprom1(s, w) == Access("read1", s, w, "master") /\ UNCHANGED cache
readeeprom2(s) ==
  asked[s] # -1 /\ Access("read2", s, asked[s], "ready?") /\ UNCHANGED cache
eeprom2pdi(s) == Access("pdi", s, 0, "pdi") /\ UNCHANGED cache

(* ecx_siigetbyte: the cache is for one slave at a time.  A word that is   *)
(* in it needs no call.                                                    *)
(* Mutant: the cache keeps the words of another slave.                     *)
CachedOfAny(s) == esibuf
Cached(s) == IF s = esislave THEN esibuf ELSE <<>>

siigetbyte(s, w) ==
  /\ w \notin DOMAIN Cached(s)
  /\ esislave' = s /\ esibuf' = Cached(s)
  /\ refused' = IF s = esislave THEN refused ELSE {}
  /\ Access("sii", s, w, "master")

(* What comes back fills as many words as the slave sends, whether the     *)
(* read worked or not.                                                     *)
EndAccess ==
  /\ step \in {"returned", "refused"} /\ step' = "idle"
  /\ call' = NoCall /\ edat' = Failed /\ nackcnt' = 0
  /\ IF call.op = "sii"
     THEN LET filled == call.word .. call.word + Chunk(call.slave) - 1
          IN  /\ esibuf' = [w \in DOMAIN esibuf \cup filled |->
                             IF w \in filled THEN edat[w - call.word + 1] ELSE esibuf[w]]
             /\ refused' = IF step = "refused" THEN refused \cup filled ELSE refused \ filled
     ELSE UNCHANGED <<esibuf, refused>>
  /\ UNCHANGED <<busvars, asked, eep_pdi, esislave, esc, sii>>

(* An application calls some of the functions, and none after a lost frame.*)
EepromCall(functions, slaves) ==
  lost = 0 /\ \E s \in slaves, w \in 0 .. SiiWords - 1 :
    \/ "readeeprom" \in functions /\ readeeprom(s, w)
    \/ "writeeeprom" \in functions /\ writeeeprom(s, w)
    \/ s \notin eep_pdi /\ "readeepromAP" \in functions /\ readeepromAP(s, w)
    \/ s \notin eep_pdi /\ "writeeepromAP" \in functions /\ writeeepromAP(s, w)
    \/ "readeeprom1" \in functions /\ (readeeprom1(s, w) \/ readeeprom2(s))
    \/ "eeprom2pdi" \in functions /\ eeprom2pdi(s)
    \/ "siigetbyte" \in functions /\ siigetbyte(s, w)

EepromNext(functions, slaves) ==
  \/ EepromCall(functions, slaves)
  \/ Control \/ AwaitReady \/ ClearError \/ WriteValue \/ WriteCommand \/ AwaitDone \/ ReadData
  \/ EndAccess
  \/ \E s \in Slaves : Complete(s)

-----------------------------------------------------------------------------
Acknowledged == ~Own.nack /\ Own.command = "read" /\ Own.word = call.word

ReadTrue ==
  LET content == Content(call.slave, call.word)
  IN  IF call.op = "read2" THEN Acknowledged => edat = Cut(content, 2)
      ELSE edat = content

CachedWord(w) ==
  IF w \in refused THEN Zero
  ELSE IF w < SiiWords THEN <<esislave, w, esibuf[w][3]>>
  ELSE Erased

(* As long as no frame is lost, a read returns the words it is asked for,  *)
(* also when the EEPROM is slow or has to be asked again, and when slaves  *)
(* are read in parallel, and nothing if the EEPROM refuses; only           *)
(* ecx_readeeprom2 cannot tell an EEPROM that did not acknowledge, or that *)
(* was too busy to be given the command.  A write that reports success has *)
(* written.  A word in the cache is that word of that slave, at the time   *)
(* it was read, and never one of another slave or another place.  If the   *)
(* EEPROM refused, it is 0 and stays so until the cache changes to another *)
(* slave or a read of a word before it succeeds; the doc of ecx_siigetbyte *)
(* says 0xff.                                                              *)
EepromIsTrue ==
  lost = 0 =>
    /\ step = "returned" /\ call.op \in {"read", "read2", "sii"} => ReadTrue
    /\ step = "refused" => edat = Failed
    /\ edat = Written => sii[call.slave][call.word] = call.version
    /\ \A w \in DOMAIN esibuf : esibuf[w] = CachedWord(w)

=============================================================================
