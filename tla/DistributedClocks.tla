------------------------- MODULE DistributedClocks -------------------------
(***************************************************************************)
(* Distributed clocks (native/soem/src/ec_dc.c): ecx_configdc measures the *)
(* delay of each slave from the times its ports latched, ecx_dcsync0 and   *)
(* ecx_dcsync01 start the SYNC signals.  What the slaves latch follows     *)
(* from the wiring, and is external; so are their SYNC units.              *)
(***************************************************************************)
EXTENDS Topology

CONSTANTS
  HalfTime,   \* 2^31: port times are signed numbers of 32 bits
  CycleTop,   \* 2^32: cycle times are unsigned numbers of 32 bits
  SyncDelay,  \* time from now to the first trigger, at least
  Cycles,     \* values of CyclTime and CyclTime1
  Shifts,     \* values of CyclShift
  MaxTime,    \* bound on the system time
  SyncNetworks, \* the networks whose SYNC signals are started
  MaxSyncs    \* bound on the calls of ecx_dcsync0 and ecx_dcsync01

ASSUME DistributedClocksAssumption ==
  /\ HalfTime \in Nat \ {0} /\ CycleTop \in Nat \ {0}
  /\ {SyncDelay, MaxTime, MaxSyncs} \subseteq Nat
  /\ Cycles \subseteq 0 .. CycleTop - 1 /\ Shifts \subseteq Int

VARIABLES
  parenthold,   \* a split whose branch has no clock so far
  prevDCslave,  \* the last slave with a clock
  ht,           \* the time that was read last
  sync,         \* the registers of the slaves' SYNC units
  now,          \* the system time
  calls         \* calls of ecx_dcsync0 and ecx_dcsync01 (history)

chain == <<parenthold, prevDCslave, ht>>
units == <<sync, now, calls>>
vars == <<stage, net, slave, slavelist, lost, chain, units>>

Init ==
  /\ TopologyInit
  /\ parenthold = 0 /\ prevDCslave = 0 /\ ht = 0
  /\ sync = [i \in Slaves(net) |->
               [act |-> "off", start |-> 0, cycle0 |-> 0, cycle1 |-> 0]]
  /\ now = 0 /\ calls = 0

-----------------------------------------------------------------------------
(* What the slaves latch when the broadcast passes.                        *)

Cable(i, set) == MapThenSumSet(LAMBDA j : net.delay[j], set)

(* The frame has been through the cables of the slaves before i twice,     *)
(* except those on its way.                                                *)
Arrival(i) ==
  LET way == {j \in 1 .. i : i \in Behind(net, j)}
  IN  Cable(i, way) + 2 * Cable(i, 1 .. i - 1 \ way)

BehindPort(i, port) ==
  {j \in Behind(net, i) \ {i} :
     \E c \in Slaves(net) : /\ net.up[c] = i /\ j \in Behind(net, c)
                            /\ Rank(net.port[c]) <= Rank(port)}

Signed(t) == ((t + HalfTime) % (2 * HalfTime)) - HalfTime

Latched(i, port) ==
  IF port = net.entry[i] THEN Signed(Arrival(i) + net.offset[i])
  ELSE IF port \in Linked(net, i)
       THEN Signed(Arrival(i) + 2 * Cable(i, BehindPort(i, port)) + net.offset[i])
       ELSE 0

-----------------------------------------------------------------------------
(* ecx_prevport: the active port before this one, in the order of a frame. *)

(* The ports in the order in which ecx_prevport asks for them.             *)
PortsBefore(port) ==
  CASE port = 0 -> <<2, 1, 3>> [] port = 1 -> <<3, 0, 2>>
    [] port = 2 -> <<1, 3, 0>> [] port = 3 -> <<0, 2, 1>>

FirstOf(order, set, otherwise) ==
  IF \E k \in DOMAIN order : order[k] \in set
  THEN order[Min({k \in DOMAIN order : order[k] \in set})]
  ELSE otherwise

PrevPort(list, i, port) == FirstOf(PortsBefore(port), list[i].activeports, port)

PortTime(list, i, port) == list[i].rt[port]

(* ecx_parentport: the first port that is not consumed, which it consumes. *)
OpenPort(list, i) == FirstOf(<<3, 1, 2, 0>>, list[i].consumedports, 0)
Consume(list, i) ==
  [list EXCEPT ![i].consumedports = @ \ {OpenPort(list, i)}]

(* The ports with the lowest time; what it is without ports is undefined.  *)
EntryPorts(list, i) ==
  LET active == list[i].activeports
      first == {p \in active : \A q \in active : list[i].rt[p] <= list[i].rt[q]}
  IN  IF active = {} THEN Ports ELSE {FirstOf(<<0, 3, 1, 2>>, first, 0)}

(* The slave on the way from i to the master that hangs on a slave with a  *)
(* clock, or on the master.                                                *)
Child(list, i) ==
  LET via[k \in 1 .. i] ==
        LET parent == list[k].parent
        IN  IF parent = 0 \/ list[parent].hasdc THEN k ELSE via[parent]
  IN  via[i]

(* Mutant: the branches before this one are not added.                     *)
DelayOfFirst(list, i, child, port) ==
  LET parent == list[child].parent
      entry == list[i].entryport
      prev == PrevPort(list, parent, port)
      dt3 == Signed(PortTime(list, parent, port) - PortTime(list, parent, prev))
      dt1 == IF list[i].topology > 1
             THEN Signed(PortTime(list, i, PrevPort(list, i, entry)) - PortTime(list, i, entry))
             ELSE 0
  IN  (dt3 - dt1) \div 2 + list[parent].pdelay

(* The delay of i, which a branch on the port of its parent leads to: half *)
(* of the way there and back, without what is behind i, and the branches   *)
(* before.                                                                 *)
Delay(list, i, child, port) ==
  LET parent == list[child].parent
      entry == list[i].entryport
      prev == PrevPort(list, parent, port)
      dt3 == Signed(PortTime(list, parent, port) - PortTime(list, parent, prev))
      dt1 == IF list[i].topology > 1
             THEN Signed(PortTime(list, i, PrevPort(list, i, entry)) - PortTime(list, i, entry))
             ELSE 0
      inner == IF dt1 > dt3 THEN Signed(-dt1) ELSE dt1
      dt2 == IF child - parent > 1
             THEN Signed(PortTime(list, parent, prev)
                         - PortTime(list, parent, list[parent].entryport))
             ELSE 0
      twice == Signed(dt3 - inner)
      half == IF twice < 0 THEN -((-twice) \div 2) ELSE twice \div 2
      dt2abs == IF dt2 < 0 THEN Signed(-dt2) ELSE dt2
  IN  Signed(half + dt2abs + list[parent].pdelay)

-----------------------------------------------------------------------------
(* ecx_configdc.                                                           *)

StartConfigDC ==
  /\ stage = "scan" /\ slave \notin Slaves(net)
  /\ stage' = "dc" /\ slave' = 1
  /\ parenthold' = 0 /\ prevDCslave' = 0 /\ ht' = 0
  /\ slavelist' = [slavelist EXCEPT ![0].hasdc = FALSE]
  /\ UNCHANGED <<net, lost, units>>

NoPort == -1

(* The four times as the master reads them: a lost read leaves the value   *)
(* of the read before.                                                     *)
Read(gone) ==
  LET read[p \in Ports] ==
        IF p # gone THEN Latched(slave, p)
        ELSE IF p = 0 THEN ht ELSE read[p - 1]
  IN  read

(* The slave joins the list of clocks, with its times.                     *)
Join(times) ==
  [slavelist EXCEPT
     ![0].hasdc = TRUE,
     ![prevDCslave].DCnext = slave,
     ![slave].DCprevious = prevDCslave,
     ![slave].consumedports = slavelist[slave].activeports,
     ![slave].rt = times]

ClockSlave ==
  /\ stage = "dc" /\ slave \in Slaves(net) /\ slavelist[slave].hasdc
  /\ \E gone \in Ports \cup {NoPort} :
       LET read == Join(Read(gone))
       IN  /\ MayLose(gone # NoPort)
           /\ \E entry \in EntryPorts(read, slave) :
                LET entered == [read EXCEPT ![slave].entryport = entry,
                                            ![slave].consumedports = @ \ {entry}]
                    child == Child(entered, slave)
                    parent == entered[child].parent
                    port == IF entered[parent].topology = 1
                            THEN entered[parent].entryport
                            ELSE OpenPort(entered, parent)
                    placed == [Consume(entered, parent) EXCEPT ![slave].parentport = port]
                    delay == Delay(placed, slave, child, port)
                IN  IF parent = 0
                    THEN slavelist' = entered /\ ht' = read[slave].rt[3]
                    ELSE /\ slavelist' = [placed EXCEPT ![slave].pdelay = delay]
                         /\ ht' = delay
  /\ parenthold' = 0
  /\ prevDCslave' = slave
  /\ slave' = slave + 1
  /\ UNCHANGED <<stage, net, units>>

(* At the end of a branch without a clock the split it hangs on loses the  *)
(* port that leads to it.                                                  *)
NoClockSlave ==
  /\ stage = "dc" /\ slave \in Slaves(net) /\ ~slavelist[slave].hasdc
  /\ LET parent == slavelist[slave].parent
         hold == IF parent > 0 /\ slavelist[parent].topology > 2 THEN parent ELSE parenthold
         ends == hold # 0 /\ slavelist[slave].topology = 1
         cleared == [slavelist EXCEPT ![slave].consumedports = slavelist[slave].activeports,
                                      ![slave].rt = [p \in Ports |-> 0]]
     IN  /\ slavelist' = IF ends THEN Consume(cleared, hold) ELSE cleared
         /\ parenthold' = IF ends THEN 0 ELSE hold
  /\ slave' = slave + 1
  /\ UNCHANGED <<stage, net, lost, prevDCslave, ht, units>>

EndConfigDC ==
  /\ stage = "dc" /\ slave \notin Slaves(net)
  /\ stage' = "run"
  /\ UNCHANGED <<net, slave, slavelist, lost, chain, units>>

-----------------------------------------------------------------------------
(* ecx_dcsync0 and ecx_dcsync01: six or seven datagrams, one of which may  *)
(* be lost.                                                                *)

(* Mutant: SYNC1 does not stretch the cycle.                               *)
CyclTimeOfSync0(cycle0, cycle1) == cycle0

TrueCyclTime(cycle0, cycle1) == ((cycle1 \div cycle0 + 1) * cycle0) % CycleTop

(* The first trigger: a multiple of the cycle behind now, and the shift.   *)
Start(time, cycle0, cycle, shift) ==
  IF cycle0 > 0
  THEN ((time + SyncDelay) \div cycle) * cycle + cycle + shift
  ELSE time + SyncDelay + shift

(* start is the first trigger, early the one when the time was not read.    *)
DcSync(i, act, start, early, cycles) ==
  /\ stage = "run" /\ net \in SyncNetworks
  /\ calls < MaxSyncs /\ calls' = calls + 1
  /\ i \in net.clocks
  /\ \E gone \in {"none", "stop", "time", "start", "cycle0", "cycle1", "activate"} :
       /\ MayLose(gone # "none")
       /\ sync' = [sync EXCEPT ![i] =
            [act |-> IF gone = "activate" THEN "off" ELSE act,
             start |-> CASE gone = "start" -> @.start
                         [] gone = "time" -> early
                         [] OTHER -> start,
             cycle0 |-> IF gone = "cycle0" THEN @.cycle0 ELSE cycles.cycle0,
             cycle1 |-> IF gone = "cycle1" THEN @.cycle1 ELSE cycles.cycle1]]
  /\ UNCHANGED <<stage, net, slave, chain, now>>

Settings(i, act, cycle, shift) ==
  slavelist' = [slavelist EXCEPT ![i].DCactive = act # "off", ![i].DCshift = shift,
                                 ![i].DCcycle = cycle]

DcSync0(i, on, cycle, shift) ==
  LET act == IF on THEN "sync0" ELSE "off"
  IN  /\ DcSync(i, act, Start(now, cycle, cycle, shift), Start(0, cycle, cycle, shift),
                [cycle0 |-> cycle, cycle1 |-> sync[i].cycle1])
      /\ Settings(i, act, cycle, shift)

(* CyclTime0 = 0 divides by zero.                                          *)
DcSync01(i, on, cycle0, cycle1, shift) ==
  LET act == IF on THEN "sync01" ELSE "off"
      cycle == TrueCyclTime(cycle0, cycle1)
  IN  /\ cycle0 > 0 /\ cycle > 0
      /\ DcSync(i, act, Start(now, cycle0, cycle, shift), Start(0, cycle0, cycle, shift),
                [cycle0 |-> cycle0, cycle1 |-> cycle1])
      /\ Settings(i, act, cycle0, shift)

Tick ==
  /\ stage = "run" /\ calls \in 1 .. MaxSyncs - 1 /\ now < MaxTime
  /\ now' = now + 1
  /\ UNCHANGED <<stage, net, slave, slavelist, lost, chain, sync, calls>>

Next ==
  \/ ScanSlave /\ UNCHANGED <<chain, units>>
  \/ StartConfigDC \/ ClockSlave \/ NoClockSlave \/ EndConfigDC
  \/ \E i \in net.clocks, on \in BOOLEAN, cycle \in Cycles, shift \in Shifts :
       \/ DcSync0(i, on, cycle, shift)
       \/ \E cycle1 \in Cycles : DcSync01(i, on, cycle, cycle1, shift)
  \/ Tick

Spec == Init /\ [][Next]_vars

-----------------------------------------------------------------------------
(* What the delays are measured against.                                   *)

Reference == Min(net.clocks)

(* A slave without a clock is no split, and no signed time overflows       *)
(* between the ports of a slave.                                           *)
SplitsHaveClocks ==
  \A i \in Slaves(net) : Cardinality(Linked(net, i)) > 2 => i \in net.clocks

NoTimeWraps ==
  \A i \in Slaves(net) :
    Arrival(i) + net.offset[i] + 2 * Cable(i, Behind(net, i) \ {i}) < HalfTime

(* The delay of a slave with a clock is the time a frame takes to it from  *)
(* the first clock, through all the branches in between: on every tree in  *)
(* which splits have clocks, when no frame is lost and no time wraps.      *)
DelayIsTrue ==
  stage = "run" /\ lost = 0 /\ SplitsHaveClocks /\ NoTimeWraps
    => \A i \in net.clocks :
         slavelist[i].pdelay = Arrival(i) - Arrival(Reference)

Period(u) ==
  IF u.act = "sync0" THEN u.cycle0 ELSE (u.cycle1 \div u.cycle0 + 1) * u.cycle0

(* Two slaves with the same cycle, whenever each of them was started, have *)
(* their signals at the same moments but for their shifts: if no frame is  *)
(* lost and the cycle of SYNC1 is within 32 bits.                          *)
SyncInPhase ==
  lost = 0 =>
    \A i, j \in {k \in net.clocks : sync[k].act # "off" /\ sync[k].cycle0 > 0} :
      LET base(k) == sync[k].start - slavelist[k].DCshift
      IN  Period(sync[i]) = Period(sync[j]) /\ Period(sync[i]) < CycleTop
            => (base(i) - base(j)) % Period(sync[i]) = 0

=============================================================================
