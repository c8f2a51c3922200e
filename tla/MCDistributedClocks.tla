------------------------ MODULE MCDistributedClocks ------------------------
EXTENDS DistributedClocks

CONSTANT MaxSlaves

(* Every tree of n slaves with every choice of the ports they hang on.     *)
Trees(n) ==
  {t \in [up : {f \in [1 .. n -> 0 .. n - 1] : \A i \in 1 .. n : f[i] < i},
          port : {f \in [1 .. n -> 1 .. 3] : f[1] = 1}] :
     \A i \in 2 .. n :
       /\ t.up[i] > 0
       /\ \A k \in t.up[i] + 1 .. i - 1 : t.up[k] >= t.up[i]
       /\ \A j \in i + 1 .. n :
            t.up[i] = t.up[j] => Rank(t.port[i]) < Rank(t.port[j])}

(* The last slave is entered by this port, the first one's time is ahead.  *)
Wired(n, t, clocks, entry, offset, losses) ==
  [up |-> t.up, port |-> t.port, clocks |-> clocks,
   entry |-> [i \in 1 .. n |-> IF i = n THEN entry ELSE 0],
   delay |-> [i \in 1 .. n |-> 2 * i - 1],
   offset |-> [i \in 1 .. n |-> IF i = 1 THEN offset ELSE 0],
   losses |-> losses]

MCSyncNetworks ==
  {Wired(2, [up |-> <<0, 1>>, port |-> <<1, 1>>], {1, 2}, 0, 0, 0),
   Wired(1, [up |-> <<0>>, port |-> <<1>>], {1}, 0, 0, 1)}

(* All of up to MaxSlaves slaves with every choice of clocks; of one slave *)
(* more with a clock in each; small ones that lose a frame, or whose time  *)
(* wraps.                                                                  *)
MCNetworks ==
  UNION {{Wired(n, t, c, e, 0, 0) : t \in Trees(n), c \in SUBSET (1 .. n), e \in {0, 1}} :
           n \in 1 .. MaxSlaves}
  \cup {Wired(n, t, 1 .. n, 0, 0, 0) : n \in {MaxSlaves + 1}, t \in Trees(MaxSlaves + 1)}
  \cup MCSyncNetworks
  \cup {Wired(3, t, c, 0, o, 1) : t \in Trees(3), c \in SUBSET (1 .. 3), o \in {0, HalfTime - 3}}

=============================================================================
