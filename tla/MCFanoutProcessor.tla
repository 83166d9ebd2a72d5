------------------------- MODULE MCFanoutProcessor -------------------------
(***************************************************************************)
(* Bounded instances of FanoutProcessor: every configuration of up to      *)
(* MaxDests destinations that validate() accepts, with all or no timeouts. *)
(***************************************************************************)
EXTENDS FanoutProcessor

CONSTANT MaxDests   \* configurations of 1 to MaxDests destinations

ConfigsOfSize(n) ==
  [mode : {"Parallel", "Sequential"}, await_ack : {"Primary", "All", "None"},
   primary : [1..n -> BOOLEAN], timeout : {[i \in 1..n |-> b] : b \in BOOLEAN},
   fallback_for : [1..n -> 0..n], max_inflight : {IF n = 2 THEN 0 ELSE 1}]

AllConfigs == UNION {ConfigsOfSize(n) : n \in 1..MaxDests}

\* Sequential mode with a fallback listed before the destination it stands for.
FallbackListedFirst(c) ==
  c.mode = "Sequential" /\ \E i \in DestsOf(c) : c.fallback_for[i] > i

\* Sequential mode that awaits a primary which is not sent first.
PrimaryNotFirst(c) ==
  /\ c.mode = "Sequential" /\ c.await_ack = "Primary"
  /\ \E i, j \in DestsOf(c) : i < j /\ c.fallback_for[i] = 0 /\ PrimaryFlags(c)[j]

RegularConfigs == {c \in AllConfigs : ~FallbackListedFirst(c) /\ ~PrimaryNotFirst(c)}

\* In these an untriggered fallback is sent.
FallbackFirstConfigs == {c \in AllConfigs : c.await_ack = "All" /\ FallbackListedFirst(c)}

PrimaryLastConfigs ==
  {c \in AllConfigs : PrimaryNotFirst(c) /\ \A i \in DestsOf(c) : c.fallback_for[i] = 0}
=============================================================================
