------------------------------ MODULE Topology ------------------------------
(***************************************************************************)
(* The tree the slaves are wired in, and how the scan of the bus finds it  *)
(* (native/soem/src/ec_config.c: the parent search of ecx_config_init).    *)
(* The wiring is not part of the repository.  A frame runs through a slave *)
(* from the port it enters by over ports 3, 1 and 2 and back, and through  *)
(* every branch before the next port; slaves are numbered as it meets      *)
(* them.                                                                   *)
(***************************************************************************)
EXTENDS Integers, FiniteSets, FiniteSetsExt, Functions

CONSTANT
  Networks  \* the wirings: records, see NetworkOK

Slaves(net) == DOMAIN net.up
Ports == 0 .. 3

(* The port order of a frame that enters by port 0.                        *)
Rank(port) == CASE port = 3 -> 1 [] port = 1 -> 2 [] port = 2 -> 3 [] port = 0 -> 4

(* Slaves behind i, i included: in the order of the frame they follow it.  *)
Behind(net, i) ==
  {j \in Slaves(net) : j >= i /\ \A k \in i + 1 .. j : net.up[k] >= i}

(* net.up[i] is the slave i hangs on, 0 the master, and net.port[i] the    *)
(* port of it; i is entered by net.entry[i], has a clock if i is in        *)
(* net.clocks, net.delay[i] of cable before it, and a local time that is   *)
(* net.offset[i] ahead.  At most net.losses frames are lost.               *)
NetworkOK(net) ==
  /\ net.up \in [1 .. Cardinality(Slaves(net)) -> 0 .. Cardinality(Slaves(net))]
  /\ net.entry \in [Slaves(net) -> Ports]
  /\ net.clocks \subseteq Slaves(net)
  /\ net.delay \in [Slaves(net) -> Nat] /\ net.offset \in [Slaves(net) -> Int]
  /\ net.losses \in Nat
  /\ \A i \in Slaves(net) :
       /\ net.up[i] < i
       /\ i = 1 \/ (net.up[i] > 0 /\ i - 1 \in Behind(net, net.up[i]))
       /\ net.port[i] \in Ports
       /\ net.entry[i] # 0 => Behind(net, i) = {i}
       /\ \A j \in Slaves(net) : i < j /\ net.up[i] = net.up[j]
                                   => Rank(net.port[i]) < Rank(net.port[j])

ASSUME TopologyAssumption ==
  \A wiring \in Networks : NetworkOK(wiring)

Linked(net, i) ==
  {net.entry[i]} \cup {net.port[j] : j \in {k \in Slaves(net) : net.up[k] = i}}

VARIABLES
  stage,      \* which function runs
  net,        \* the wiring
  slave,      \* the loop variable
  slavelist,  \* what the master knows of each slave
  lost        \* frames lost so far (history)

Unknown ==
  [topology |-> 0, activeports |-> {}, parent |-> 0, hasdc |-> FALSE,
   consumedports |-> {}, rt |-> [p \in Ports |-> 0], entryport |-> 0,
   parentport |-> 0, pdelay |-> 0, DCnext |-> 0, DCprevious |-> 0,
   DCactive |-> 0, DCshift |-> 0, DCcycle |-> 0]

TopologyInit ==
  /\ stage = "scan"
  /\ net \in Networks
  /\ slave = 1
  /\ slavelist = [i \in 0 .. Cardinality(Slaves(net)) |-> Unknown]
  /\ lost = 0

(* Whether one more frame is lost.                                         *)
MayLose(gone) ==
  /\ gone => lost < net.losses
  /\ lost' = IF gone THEN lost + 1 ELSE lost

(* Mutant: a cross is counted like a split.                                *)
WeightOfSplit(links) ==
  CASE links = 1 -> -1 [] links \in {3, 4} -> 1 [] OTHER -> 0

(* How the search backwards counts ends, splits and crosses.               *)
Weight(links) ==
  CASE links = 1 -> -1 [] links = 3 -> 1 [] links = 4 -> 2 [] OTHER -> 0

(* The nearest slave before i that has a port to spare: not as many ends   *)
(* as branches between, and no end itself; or else the first slave.        *)
Parent(list, i) ==
  LET topoc(k) == MapThenSumSet(LAMBDA j : Weight(list[j].topology), k .. i - 1)
      open == {k \in 1 .. i - 1 : topoc(k) >= 0 /\ list[k].topology > 1}
  IN  IF i = 1 THEN 0 ELSE Max(open \cup {1})

(* One turn of the loop: the answer to the read of the DL status, or of    *)
(* the supported features, may be lost, and reads as 0.                    *)
ScanSlave ==
  /\ stage = "scan" /\ slave \in Slaves(net)
  /\ \E gone \in {"none", "dlstat", "escsup"} :
       LET b == IF gone = "dlstat" THEN {} ELSE Linked(net, slave)
       IN  /\ MayLose(gone # "none")
           /\ slavelist' = [slavelist EXCEPT
                ![slave].hasdc = gone # "escsup" /\ slave \in net.clocks,
                ![slave].topology = Cardinality(b),
                ![slave].activeports = b,
                ![slave].parent = Parent(slavelist, slave)]
  /\ slave' = slave + 1
  /\ UNCHANGED <<stage, net>>

-----------------------------------------------------------------------------
(* Whatever the tree, the search has found for each slave scanned so far   *)
(* the one it hangs on, if no answer was lost.                             *)
ParentIsTrue ==
  lost = 0 => \A i \in Slaves(net) :
                stage # "scan" \/ i < slave => slavelist[i].parent = net.up[i]

=============================================================================
