----------------------- MODULE FanoutProcessorProofs -----------------------
(***************************************************************************)
(* Proofs about FanoutProcessor for every configuration that validate()    *)
(* accepts, with any number of destinations and requests.  Two of the      *)
(* properties hold only when, in sequential mode, every fallback is listed *)
(* after the destination it stands for; their theorems say so.             *)
(***************************************************************************)
EXTENDS FanoutProcessor, NaturalsInduction, FiniteSetTheorems, TLAPS

----------------------------------------------------------------------------
(* Fallback chains.                                                        *)

\* The destinations met from i on, hop by hop; ChainEnd is the last one.
Hops(c, i) ==
  LET hop[k \in 0..Cardinality(DestsOf(c))] ==
        IF k = 0 THEN i
        ELSE IF c.fallback_for[hop[k - 1]] = 0 THEN hop[k - 1] ELSE c.fallback_for[hop[k - 1]]
  IN hop

\* The numbers of hops after which the chain of i has reached its end.
Ends(c, i) == {k \in 0..Cardinality(DestsOf(c)) : c.fallback_for[Hops(c, i)[k]] = 0}

\* How many fallbacks stand between i and its origin, counting i.
DepthOf(c, i) == CHOOSE k \in Ends(c, i) : \A m \in Ends(c, i) : k <= m
Depth(i) == DepthOf(config, i)

----------------------------------------------------------------------------
(* The invariant.                                                          *)

\* In sequential mode every fallback is listed after its destination.
ListedAfter(c) == c.mode = "Sequential" => \A i \in DestsOf(c) : c.fallback_for[i] < i
Regular == ListedAfter(config)

Entries == [status : [Dests -> Statuses], payload : [Dests -> BOOLEAN],
            completed_origins : SUBSET Origins, next_send : Dests \cup {0}]

Failed == {"Nacked", "TimedOut"}

\* The chains of one entry: a destination was tried only after those before it failed, a
\* fallback waits while its destination may still answer, and is skipped after an Ack.
ChainsSound(e) ==
  /\ \A i, j \in Dests :
       (Origin(i) = Origin(j) /\ Depth(i) < Depth(j) /\ e.status[j] \notin {"PendingSend", "Skipped"})
         => e.status[i] \in Failed
  /\ \A f \in Dests : IsFallback(f) =>
       /\ e.status[f] = "PendingSend" => e.status[config.fallback_for[f]] \in {"PendingSend", "InFlight"}
       /\ e.status[f] = "Skipped" => e.status[config.fallback_for[f]] \in {"Acked", "Skipped"}

\* One entry against what happened to its sends: se, aw, dl, ac and fa are the destinations
\* that were sent to, have not answered, have a deadline armed, acknowledged and failed.
EntrySound(e, se, aw, dl, ac, fa) ==
  /\ e \in Entries
  /\ \A i \in Dests :
       /\ e.status[i] = "PendingSend" => e.payload[i] /\ i \notin se
       /\ e.status[i] = "InFlight" =>
            /\ ~e.payload[i] /\ i \in se /\ i \notin ac
            /\ config.timeout[i] => i \in dl
            /\ Sequential => i = e.next_send
            /\ i \in aw => i \notin fa
       /\ i \in aw => e.status[i] \in {"InFlight", "TimedOut"}
       /\ e.status[i] \in Failed => i \in fa
  /\ \A o \in e.completed_origins : \E i \in Chain(o) : i \in ac
  /\ Regular => ChainsSound(e)

\* The destinations of request r in a set of sends.
Of(S, r) == {i \in Dests : <<r, i>> \in S}

EntriesSound ==
  \A r \in Tracked :
    EntrySound(inflight[r], Of(sent, r), Of(awaited, r), Of(heap \cup due, r), Of(acked, r), Of(failed, r))

\* The three paths are apart, and a timeout has started the timer.
PathsApart ==
  /\ use_slim_primary \/ use_fire_and_forget => Tracked = {}
  /\ ~use_slim_primary => slim_inflight = {}
  /\ Tracked # {} /\ (\E i \in Dests : config.timeout[i]) => timer_started

\* Only what was sent is awaited or answered; what is still to come is untouched.
HistorySound ==
  /\ awaited \cup acked \cup failed \subseteq sent
  /\ \A x \in sent : x[1] < next_id
  /\ \A r \in Requests : r >= next_id => upstream[r] = [outcomes |-> {}, count |-> 0]
  /\ \A r \in slim_inflight : Of(awaited, r) \cap (Of(acked, r) \cup Of(failed, r)) = {}

\* The parts of OutcomeJustified and FallbackOnlyWhenTriggered that every configuration has.
AckJustified ==
  \A r \in Received : "Ack" \in upstream[r].outcomes =>
    \A o \in Awaited : \E i \in Chain(o) : <<r, i>> \in acked

IInv ==
  /\ TypeOK /\ PathsApart /\ HistorySound /\ EntriesSound /\ OneOutcome /\ AckJustified
  /\ Regular => OutcomeJustified /\ FallbackOnlyWhenTriggered

----------------------------------------------------------------------------
(* The configuration.                                                      *)

Valid == config \in Configs /\ validate(config)
Size == Cardinality(Dests)

\* A nonempty set of numbers has a least one: what Least and DepthOf choose exists.
LEMMA LeastOf ==
  ASSUME NEW S, S \subseteq Nat, S # {}
  PROVE  Least(S) \in S /\ \A j \in S : Least(S) <= j
<1>2. OpToRel(<, Nat) = {e \in Nat \X Nat : e[1] < e[2]}
  BY Zenon DEF OpToRel
<1>3. PICK R : IsWellFoundedOn(R, Nat) /\ R = {e \in Nat \X Nat : e[1] < e[2]}
  BY <1>2, NatLessThanWellFounded, Zenon
<1>4. PICK n \in S : \A m \in S : ~(<<m, n>> \in R)
  BY <1>3, WFMin, Zenon
<1>5. \A m \in S : n <= m
  <2> SUFFICES ASSUME NEW m \in S PROVE n <= m
    OBVIOUS
  <2>1. m \in Nat /\ n \in Nat
    OBVIOUS
  <2>2. m < n => <<m, n>> \in R
    <3>1. <<m, n>> \in Nat \X Nat /\ <<m, n>>[1] = m /\ <<m, n>>[2] = n
      BY <2>1
    <3> QED
      BY <1>3, <3>1, Zenon
  <2>3. ~(m < n)
    BY <1>4, <2>2, Zenon
  <2> QED
    BY <2>1, <2>3
<1> QED
  BY <1>5, Zenon DEF Least

\* What ConfigsAssumption and validate say of the configuration's fields.
LEMMA ConfigFields ==
  ASSUME Valid
  PROVE  /\ Size \in Nat /\ Size >= 1 /\ Dests = 1..Size /\ IsFiniteSet(Dests)
         /\ \A i \in Dests : config.fallback_for[i] \in Dests \cup {0}
         /\ \A i \in Dests : config.timeout[i] \in BOOLEAN
         /\ \A i, j \in Dests :
              config.fallback_for[i] = config.fallback_for[j] /\ IsFallback(i) => i = j
         /\ \A i \in Dests : ~IsFallback(Origin(i))
         /\ config.await_ack \in {"Primary", "All", "None"} /\ config.max_inflight \in Nat
<1> DEFINE n == Cardinality(DOMAIN config.fallback_for)
<1>1. /\ n \in Nat
      /\ config \in [mode : {"Parallel", "Sequential"}, await_ack : {"Primary", "All", "None"},
                     primary : [1..n -> BOOLEAN], timeout : [1..n -> BOOLEAN],
                     fallback_for : [1..n -> 0..n], max_inflight : Nat]
  BY ConfigsAssumption, Zenon DEF Valid
<1>2. Size = n
  BY DEF Size, Dests, DestsOf
<1> HIDE DEF n
<1>3. /\ config.timeout \in [1..n -> BOOLEAN] /\ config.fallback_for \in [1..n -> 0..n]
      /\ config.await_ack \in {"Primary", "All", "None"} /\ config.max_inflight \in Nat
  BY <1>1
<1>4. Dests = 1..n
  BY <1>3 DEF Dests, DestsOf
<1>5. Dests # {} /\ (\A i \in Dests : ~IsFallback(Origin(i)))
      /\ \A i, j \in Dests :
           config.fallback_for[i] = config.fallback_for[j] /\ IsFallback(i) => i = j
  BY Zenon DEF Valid, validate, Dests, IsFallback, Origin
<1>6. n >= 1
  BY <1>1, <1>4, <1>5
<1>7. IsFiniteSet(Dests)
  BY <1>1, <1>4, FS_Interval
<1> QED
  BY <1>1, <1>2, <1>3, <1>4, <1>5, <1>6, <1>7

\* validate() gives every configuration one primary destination, which is not a fallback.
LEMMA PrimaryIsOrigin ==
  ASSUME Valid
  PROVE  primary_index \in Origins
<1>1. 1 \in Dests
  BY ConfigFields
<1>2. \E i \in Dests : PrimaryFlags(config)[i]
  <2>1. CASE \E i \in Dests : config.primary[i]
    BY <2>1, Zenon DEF PrimaryFlags, Dests
  <2>2. CASE ~(\E i \in Dests : config.primary[i])
    <3>1. PrimaryFlags(config) = [i \in Dests |-> i = 1]
      BY <2>2, Zenon DEF PrimaryFlags, Dests
    <3> QED
      BY <1>1, <3>1
  <2> QED
    BY <2>1, <2>2
<1>3. primary_index \in Dests /\ PrimaryFlags(config)[primary_index]
  BY <1>2, Zenon DEF primary_index
<1>4. config.fallback_for[primary_index] = 0
  BY <1>3, Zenon DEF Valid, validate, Dests
<1> QED
  BY <1>3, <1>4 DEF Origins, IsFallback

----------------------------------------------------------------------------
(* Fallback chains.  The library's induction takes an operator, so a fact  *)
(* about all hops is proved from the least hop at which it could fail.     *)

\* One hop towards the origin.
Up(i) == IF config.fallback_for[i] = 0 THEN i ELSE config.fallback_for[i]

\* Hops(config, i) is a function that starts in i and goes up one hop at a time.
LEMMA HopsFunction ==
  ASSUME Valid, NEW i \in Dests
  PROVE  /\ Hops(config, i) \in [0..Size -> Dests]
         /\ Hops(config, i)[0] = i
         /\ \A k \in 0..Size : k # 0 => Hops(config, i)[k] = Up(Hops(config, i)[k - 1])
<1> DEFINE P(m, g) == g \in [0..m -> Dests] /\ g[0] = i
                      /\ \A k \in 0..m : k # 0 => g[k] = Up(g[k - 1])
           Bad == {m \in Nat : ~(\E g : P(m, g))}
<1>1. Size \in Nat
  BY ConfigFields
<1>2. \A j \in Dests : Up(j) \in Dests
  BY ConfigFields DEF Up
<1>3. Bad = {}
  <2> SUFFICES ASSUME Bad # {} PROVE FALSE
    OBVIOUS
  <2> DEFINE m == Least(Bad)
  <2>1. m \in Bad /\ \A k \in Bad : m <= k
    BY LeastOf
  <2>2. m # 0
    <3> DEFINE g == [k \in 0..0 |-> i]
    <3>1. P(0, g)
      OBVIOUS
    <3> QED
      BY <2>1, <3>1
  <2>3. m - 1 \in Nat /\ m \in Nat
    BY <2>1, <2>2
  <2> HIDE DEF m
  <2>4. m - 1 \notin Bad
    <3> HIDE DEF Bad
    <3> QED
      BY <2>1, <2>3
  <2>5. PICK g : P(m - 1, g)
    BY <2>3, <2>4
  <2> DEFINE h == [k \in 0..m |-> IF k = m THEN Up(g[m - 1]) ELSE g[k]]
  <2>6. P(m, h)
    <3>1. m - 1 \in 0..(m - 1) /\ g[m - 1] \in Dests
      BY <2>3, <2>5
    <3>2. h \in [0..m -> Dests]
      BY <2>3, <2>5, <3>1, <1>2
    <3>3. h[0] = i
      BY <2>3, <2>5
    <3>4. ASSUME NEW k \in 0..m, k # 0 PROVE h[k] = Up(h[k - 1])
      BY <3>4, <2>3, <2>5
    <3> QED
      BY <3>2, <3>3, <3>4
  <2> QED
    BY <2>1, <2>6
<1>4. PICK g : P(Size, g)
  BY <1>1, <1>3
<1> DEFINE Eq(f) == f = [k \in 0..Cardinality(DestsOf(config)) |->
                           IF k = 0 THEN i
                           ELSE IF config.fallback_for[f[k - 1]] = 0 THEN f[k - 1]
                           ELSE config.fallback_for[f[k - 1]]]
<1>5. Eq(g)
  BY <1>4, Zenon DEF Up, Size, Dests
<1>6. Hops(config, i) = CHOOSE f : Eq(f)
  BY Zenon DEF Hops
<1>7. Eq(Hops(config, i))
  <2> HIDE DEF Eq
  <2> QED
    BY ONLY <1>5, <1>6, Zenon
<1> DEFINE f == Hops(config, i)
<1>8. f = [k \in 0..Size |-> IF k = 0 THEN i ELSE Up(f[k - 1])]
  BY <1>7, Zenon DEF Up, Size, Dests
<1> HIDE DEF f, Eq
<1>9. f[0] = i /\ \A k \in 0..Size : k # 0 => f[k] = Up(f[k - 1])
  BY <1>1, <1>8
<1>10. \A k \in 0..Size : f[k] = g[k]
  <2> DEFINE Off == {k \in 0..Size : f[k] # g[k]}
  <2> SUFFICES ASSUME Off # {} PROVE FALSE
    OBVIOUS
  <2> DEFINE m == Least(Off)
  <2>1. m \in Off /\ \A k \in Off : m <= k
    BY <1>1, LeastOf
  <2> HIDE DEF m
  <2>2. m # 0
    BY <2>1, <1>9, <1>4
  <2>3. m - 1 \in 0..Size /\ m \in 0..Size
    BY <2>1, <2>2, <1>1
  <2>4. f[m - 1] = g[m - 1]
    BY <2>1, <2>3
  <2> QED
    BY <2>1, <2>2, <2>3, <2>4, <1>9, <1>4
<1>11. f \in [0..Size -> Dests]
  <2>1. \A k \in 0..Size : f[k] \in Dests
    BY <1>10, <1>4
  <2>2. DOMAIN f = 0..Size
    BY <1>8
  <2>3. f = [k \in 0..Size |-> f[k]]
    BY <1>8, <2>2
  <2> QED
    BY <2>1, <2>3
<1> QED
  BY <1>9, <1>11 DEF f

\* The origin of i is reached after Depth(i) hops, not before.
LEMMA OriginAtDepth ==
  ASSUME Valid, NEW i \in Dests
  PROVE  /\ Depth(i) \in 0..Size /\ Origin(i) = Hops(config, i)[Depth(i)]
         /\ Origin(i) \in Origins
         /\ \A k \in 0..Size : config.fallback_for[Hops(config, i)[k]] = 0 => Depth(i) <= k
<1> DEFINE f == Hops(config, i)
           d == Depth(i)
<1>0. Size \in Nat
  BY ConfigFields
<1>1. f \in [0..Size -> Dests] /\ \A k \in 0..Size : k # 0 => f[k] = Up(f[k - 1])
  BY HopsFunction
<1>2. Origin(i) = f[Size]
  BY Zenon DEF Origin, ChainEnd, Hops, Size, Dests
<1>3. config.fallback_for[f[Size]] = 0
  BY <1>2, ConfigFields DEF IsFallback
<1>4. Ends(config, i) = {k \in 0..Size : config.fallback_for[f[k]] = 0}
  BY Zenon DEF Ends, Size, Dests
<1>5. Ends(config, i) \subseteq Nat /\ Ends(config, i) # {}
  BY <1>0, <1>3, <1>4
<1>6. d = Least(Ends(config, i))
  BY Zenon DEF Depth, DepthOf, Least
<1>7. d \in Ends(config, i) /\ \A k \in Ends(config, i) : d <= k
  BY <1>5, <1>6, LeastOf
<1> HIDE DEF f, d
<1>8. d \in 0..Size /\ config.fallback_for[f[d]] = 0
      /\ \A k \in 0..Size : config.fallback_for[f[k]] = 0 => d <= k
  BY <1>4, <1>7
<1>9. f[Size] = f[d]
  <2> DEFINE Off == {k \in 0..Size : k >= d /\ f[k] # f[d]}
  <2>1. Off = {}
    <3> SUFFICES ASSUME Off # {} PROVE FALSE
      OBVIOUS
    <3> DEFINE m == Least(Off)
    <3>1. m \in Off /\ \A k \in Off : m <= k
      BY <1>0, LeastOf
    <3> HIDE DEF m
    <3>2. m \in 0..Size /\ d \in 0..Size /\ m > d
      BY <1>8, <3>1
    <3>3. m - 1 \in 0..Size /\ m - 1 >= d
      BY <3>2, <1>0
    <3>4. f[m - 1] = f[d]
      BY <3>1, <3>2, <3>3
    <3>5. f[m] = Up(f[m - 1])
      BY <3>2, <1>0, <1>1
    <3> QED
      BY <3>1, <3>4, <3>5, <1>8 DEF Up
  <2> QED
    BY <2>1, <1>0, <1>8
<1>10. Origin(i) \in Dests /\ ~IsFallback(Origin(i))
  BY <1>0, <1>1, <1>2, ConfigFields
<1> QED
  BY <1>2, <1>8, <1>9, <1>10 DEF f, d, Origins

\* A destination that is no fallback is its own origin; a fallback is one hop further from
\* the origin that it shares with its destination.
LEMMA OriginOf ==
  ASSUME Valid, NEW i \in Dests
  PROVE  /\ ~IsFallback(i) => Depth(i) = 0 /\ Origin(i) = i
         /\ IsFallback(i) => /\ config.fallback_for[i] \in Dests
                             /\ Origin(i) = Origin(config.fallback_for[i])
                             /\ Depth(i) = Depth(config.fallback_for[i]) + 1
<1>0. Size \in Nat /\ Size >= 1
  BY ConfigFields
<1>1. /\ Hops(config, i) \in [0..Size -> Dests] /\ Hops(config, i)[0] = i
      /\ \A k \in 0..Size : k # 0 => Hops(config, i)[k] = Up(Hops(config, i)[k - 1])
  BY HopsFunction
<1>2. /\ Depth(i) \in 0..Size /\ Origin(i) = Hops(config, i)[Depth(i)]
      /\ \A k \in 0..Size : config.fallback_for[Hops(config, i)[k]] = 0 => Depth(i) <= k
      /\ config.fallback_for[Hops(config, i)[Depth(i)]] = 0
  BY OriginAtDepth DEF Origins, IsFallback
<1>3. ASSUME ~IsFallback(i) PROVE Depth(i) = 0 /\ Origin(i) = i
  <2>1. Depth(i) <= 0
    BY <1>0, <1>1, <1>2, <1>3 DEF IsFallback
  <2> QED
    BY <1>0, <1>1, <1>2, <2>1
<1>4. ASSUME IsFallback(i)
      PROVE  /\ config.fallback_for[i] \in Dests
             /\ Origin(i) = Origin(config.fallback_for[i])
             /\ Depth(i) = Depth(config.fallback_for[i]) + 1
  <2> DEFINE d == config.fallback_for[i]
             f == Hops(config, i)
             g == Hops(config, d)
  <2>1. d \in Dests
    BY <1>4, ConfigFields DEF IsFallback
  <2>2. /\ g \in [0..Size -> Dests] /\ g[0] = d
        /\ \A k \in 0..Size : k # 0 => g[k] = Up(g[k - 1])
    BY <2>1, HopsFunction
  <2>3. /\ Depth(d) \in 0..Size /\ Origin(d) = g[Depth(d)]
        /\ \A k \in 0..Size : config.fallback_for[g[k]] = 0 => Depth(d) <= k
        /\ config.fallback_for[g[Depth(d)]] = 0
    BY <2>1, OriginAtDepth DEF Origins, IsFallback
  <2>4. f[1] = d /\ config.fallback_for[f[0]] # 0
    BY <1>0, <1>1, <1>4 DEF Up, IsFallback
  <2> HIDE DEF d, f, g
  <2>5. /\ f \in [0..Size -> Dests] /\ \A k \in 0..Size : k # 0 => f[k] = Up(f[k - 1])
        /\ Depth(i) \in 0..Size /\ Origin(i) = f[Depth(i)]
        /\ \A k \in 0..Size : config.fallback_for[f[k]] = 0 => Depth(i) <= k
        /\ config.fallback_for[f[Depth(i)]] = 0
    BY <1>1, <1>2 DEF f
  <2>6. \A k \in 0..(Size - 1) : f[k + 1] = g[k]
    <3> DEFINE Off == {k \in 0..(Size - 1) : f[k + 1] # g[k]}
    <3> SUFFICES ASSUME Off # {} PROVE FALSE
      OBVIOUS
    <3> DEFINE m == Least(Off)
    <3>1. m \in Off /\ \A k \in Off : m <= k
      <4>1. Off \subseteq Nat
        BY <1>0
      <4> HIDE DEF Off
      <4> QED
        BY <4>1, LeastOf
    <3> HIDE DEF m
    <3>2. m # 0
      BY <3>1, <2>2, <2>4
    <3>3. m \in 0..(Size - 1) /\ m - 1 \in 0..(Size - 1) /\ m + 1 \in 0..Size /\ m \in 0..Size
          /\ (m - 1) + 1 = m /\ (m + 1) - 1 = m
      BY <3>1, <3>2, <1>0
    <3>4. f[m] = g[m - 1]
      <4>1. m - 1 \notin Off
        <5> HIDE DEF Off
        <5>1. ~(m <= m - 1)
          BY <3>3
        <5> QED
          BY <3>1, <5>1
      <4> QED
        BY <4>1, <3>3
    <3>5. f[m + 1] = Up(f[m]) /\ g[m] = Up(g[m - 1])
      BY <3>2, <3>3, <2>2, <2>5
    <3> QED
      BY <3>1, <3>4, <3>5
  <2>7. Depth(i) # 0
    BY <2>4, <2>5
  <2>8. Depth(i) - 1 \in 0..(Size - 1) /\ f[Depth(i)] = g[Depth(i) - 1]
    <3>1. Depth(i) - 1 \in 0..(Size - 1) /\ (Depth(i) - 1) + 1 = Depth(i)
      BY <2>5, <2>7, <1>0
    <3> QED
      BY <3>1, <2>6
  <2>9. Depth(d) <= Depth(i) - 1
    BY <2>3, <2>5, <2>8, <1>0
  <2>10. Depth(i) <= Depth(d) + 1
    <3>1. Depth(d) \in 0..(Size - 1) /\ Depth(d) + 1 \in 0..Size
      BY <2>3, <2>8, <2>9, <1>0
    <3>2. f[Depth(d) + 1] = g[Depth(d)]
      BY <3>1, <2>6
    <3> QED
      BY <2>3, <2>5, <3>1, <3>2
  <2>11. Depth(i) = Depth(d) + 1 /\ Depth(i) - 1 = Depth(d)
    BY <2>3, <2>5, <2>9, <2>10, <1>0
  <2> QED
    BY <2>1, <2>3, <2>5, <2>8, <2>11 DEF d
<1> QED
  BY <1>3, <1>4

\* In one chain a depth is taken once: a destination has at most one fallback.
LEMMA OnePerDepth ==
  ASSUME Valid, NEW i \in Dests, NEW j \in Dests, Origin(i) = Origin(j), Depth(i) = Depth(j)
  PROVE  i = j
<1> DEFINE Pair(m, a, b) == a # b /\ Origin(a) = Origin(b) /\ Depth(a) = m /\ Depth(b) = m
           Bad == {m \in Nat : \E a, b \in Dests : Pair(m, a, b)}
<1>1. \A a \in Dests : Depth(a) \in Nat
  BY OriginAtDepth, ConfigFields
<1>2. Bad = {}
  <2> SUFFICES ASSUME Bad # {} PROVE FALSE
    OBVIOUS
  <2> DEFINE m == Least(Bad)
  <2>1. m \in Bad /\ \A k \in Bad : m <= k
    BY LeastOf
  <2> HIDE DEF m
  <2>2. m \in Nat
    BY <2>1
  <2>3. PICK a \in Dests, b \in Dests : Pair(m, a, b)
    BY <2>1
  <2>4. IsFallback(a) /\ IsFallback(b)
    <3>1. ~IsFallback(a) \/ ~IsFallback(b) => m = 0
      BY <2>3, OriginOf
    <3>2. \A x \in Dests : IsFallback(x) => Depth(x) # 0
      BY OriginOf, <1>1
    <3>3. ASSUME ~IsFallback(a), ~IsFallback(b) PROVE FALSE
      BY <2>3, <3>3, OriginOf
    <3> QED
      BY <2>3, <3>1, <3>2, <3>3
  <2> DEFINE x == config.fallback_for[a]
             y == config.fallback_for[b]
  <2>5. /\ x \in Dests /\ y \in Dests /\ Origin(x) = Origin(y)
        /\ Depth(a) = Depth(x) + 1 /\ Depth(b) = Depth(y) + 1
    BY <2>3, <2>4, OriginOf
  <2>6. x # y
    BY <2>3, <2>4, ConfigFields
  <2> HIDE DEF x, y
  <2>7. Depth(x) = m - 1 /\ Depth(y) = m - 1 /\ m - 1 \in Nat
    BY <2>3, <2>5, <2>2, <1>1
  <2>8. m - 1 \in Bad
    BY <2>5, <2>6, <2>7
  <2> HIDE DEF Bad
  <2> QED
    BY <2>1, <2>2, <2>8
<1> QED
  BY <1>1, <1>2

\* Every member of a chain but the deepest has a fallback.
LEMMA HasFallback ==
  ASSUME Valid, NEW i \in Dests, NEW j \in Dests, Origin(i) = Origin(j), Depth(i) < Depth(j)
  PROVE  \E f \in Dests : config.fallback_for[f] = i
<1> DEFINE Deeper == {Depth(a) : a \in {b \in Dests : Origin(b) = Origin(i) /\ Depth(i) < Depth(b)}}
           m == Least(Deeper)
<1>1. \A a \in Dests : Depth(a) \in Nat
  BY OriginAtDepth, ConfigFields
<1>2. m \in Deeper /\ \A k \in Deeper : m <= k
  <2>1. Deeper \subseteq Nat /\ Deeper # {}
    BY <1>1
  <2> HIDE DEF Deeper
  <2> QED
    BY <2>1, LeastOf
<1> HIDE DEF m
<1>3. PICK a \in Dests : Origin(a) = Origin(i) /\ Depth(i) < Depth(a) /\ Depth(a) = m
  BY <1>2
<1>4. IsFallback(a)
  BY <1>1, <1>3, OriginOf
<1> DEFINE d == config.fallback_for[a]
<1>5. d \in Dests /\ Origin(d) = Origin(i) /\ Depth(a) = Depth(d) + 1
  BY <1>3, <1>4, OriginOf
<1> HIDE DEF d
<1>6. ~(Depth(i) < Depth(d))
  <2> SUFFICES ASSUME Depth(i) < Depth(d) PROVE FALSE
    OBVIOUS
  <2>1. Depth(d) \in Deeper
    BY <1>5
  <2> HIDE DEF Deeper
  <2> QED
    BY <2>1, <1>1, <1>2, <1>3, <1>5
<1>7. Depth(d) = Depth(i)
  BY <1>1, <1>3, <1>5, <1>6
<1>8. d = i
  BY <1>5, <1>7, OnePerDepth
<1> QED
  BY <1>3, <1>8 DEF d

----------------------------------------------------------------------------
(* What the handlers do to one entry.                                      *)

\* Those of the destinations S that have a timeout.
Timed(S) == {j \in S : config.timeout[j]}

\* The unused fallbacks of the destinations F.
TriggeredBy(e, F) == {f \in Dests : config.fallback_for[f] \in F /\ e.status[f] = "PendingSend"}

\* fallback_for_dest is well defined: FallbackOf finds the one fallback of i.
LEMMA FallbackIsUnique ==
  ASSUME Valid, NEW i \in Dests, NEW f \in Dests, config.fallback_for[f] = i
  PROVE  FallbackOf(i) = f
<1>1. i # 0
  BY ConfigFields
<1>2. FallbackOf(i) \in Dests /\ config.fallback_for[FallbackOf(i)] = i
  BY Zenon DEF FallbackOf
<1> QED
  BY <1>1, <1>2, ConfigFields DEF IsFallback

\* handle_failure in terms of the set of the fallbacks it triggers.
LEMMA FailureEffect ==
  ASSUME Valid, NEW e \in Entries, NEW F, F \subseteq Dests, NEW how \in Failed
  PROVE  LET T == TriggeredBy(e, F)
             m == handle_failure(e, F, how)
         IN /\ m \in Entries
            /\ m.status = [i \in Dests |-> IF i \in F THEN how ELSE IF i \in T THEN "InFlight"
                                           ELSE e.status[i]]
            /\ m.payload = e.payload /\ m.completed_origins = e.completed_origins
            /\ m.next_send = IF Sequential /\ T # {} THEN Least(T) ELSE e.next_send
<1> DEFINE T == TriggeredBy(e, F)
           S == {FallbackOf(i) : i \in {j \in F : FallbackReady(e, j)}}
           st == [i \in Dests |-> IF i \in F THEN how ELSE IF i \in T THEN "InFlight" ELSE e.status[i]]
           nx == IF Sequential /\ T # {} THEN Least(T) ELSE e.next_send
           m == handle_failure(e, F, how)
<1>1. S = T
  <2>1. ASSUME NEW f \in S PROVE f \in T
    <3>1. PICK i \in F : FallbackReady(e, i) /\ f = FallbackOf(i)
      BY <2>1
    <3>2. PICK g \in Dests : config.fallback_for[g] = i /\ e.status[g] = "PendingSend"
      BY <3>1 DEF FallbackReady
    <3>3. f = g
      BY <3>1, <3>2, FallbackIsUnique
    <3> QED
      BY <3>2, <3>3 DEF TriggeredBy
  <2>2. ASSUME NEW f \in T PROVE f \in S
    <3>1. f \in Dests /\ config.fallback_for[f] \in F /\ e.status[f] = "PendingSend"
      BY <2>2 DEF TriggeredBy
    <3>2. FallbackReady(e, config.fallback_for[f])
      BY <3>1 DEF FallbackReady
    <3>3. FallbackOf(config.fallback_for[f]) = f
      BY <3>1, FallbackIsUnique
    <3> QED
      BY <3>1, <3>2, <3>3
  <2> QED
    BY <2>1, <2>2
<1>2. m = [e EXCEPT !.status = [i \in Dests |-> IF i \in F THEN how ELSE IF i \in S THEN "InFlight"
                                                ELSE e.status[i]],
                    !.next_send = IF Sequential /\ S # {} THEN Least(S) ELSE e.next_send]
  BY Zenon DEF handle_failure
<1>3. m = [e EXCEPT !.status = st, !.next_send = nx]
  <2> HIDE DEF S, T, m
  <2> QED
    BY <1>1, <1>2
<1>4. st \in [Dests -> Statuses]
  BY DEF Entries, Statuses, Failed
<1>5. nx \in Dests \cup {0}
  <2>1. T \subseteq Dests /\ Dests \subseteq Nat
    BY ConfigFields DEF TriggeredBy
  <2>2. T # {} => Least(T) \in T
    BY <2>1, LeastOf
  <2> QED
    BY <2>1, <2>2 DEF Entries
<1> HIDE DEF st, nx, m, T
<1>6. /\ m \in Entries /\ m.status = st /\ m.payload = e.payload
      /\ m.completed_origins = e.completed_origins /\ m.next_send = nx
  BY <1>3, <1>4, <1>5 DEF Entries
<1> QED
  BY <1>6 DEF st, nx, m, T

\* dispatch_ready only takes payloads away.
LEMMA DispatchEffect ==
  ASSUME NEW e \in Entries
  PROVE  /\ Dispatched(e) \in Entries /\ Dispatched(e).status = e.status
         /\ Dispatched(e).completed_origins = e.completed_origins
         /\ Dispatched(e).next_send = e.next_send
         /\ Dispatched(e).payload = [i \in Dests |-> e.payload[i] /\ i \notin ReadyToSend(e)]
<1> DEFINE p == [i \in Dests |-> e.payload[i] /\ i \notin ReadyToSend(e)]
<1>1. Dispatched(e) = [e EXCEPT !.payload = p]
  BY DEF Dispatched
<1>2. p \in [Dests -> BOOLEAN]
  BY Zenon DEF Entries
<1> HIDE DEF p
<1>3. /\ Dispatched(e) \in Entries /\ Dispatched(e).status = e.status
      /\ Dispatched(e).completed_origins = e.completed_origins
      /\ Dispatched(e).next_send = e.next_send /\ Dispatched(e).payload = p
  BY <1>1, <1>2 DEF Entries
<1> QED
  BY <1>3 DEF p

\* The destinations F of a sound entry fail; aw2 and dl2 are the answers and deadlines that
\* are still to come.
FailureCase(e, se, aw, dl, ac, fa, F, how, aw2, dl2) ==
  /\ EntrySound(e, se, aw, dl, ac, fa) /\ aw \cup ac \cup fa \subseteq se
  /\ F \subseteq Dests /\ \A i \in F : e.status[i] = "InFlight"
  /\ how \in Failed
  /\ aw2 \subseteq aw /\ (how = "Nacked" => F \cap aw2 = {})
  /\ \A j \in dl : j \in dl2 \/ j \in F \/ e.status[j] # "InFlight"

\* Their unused fallbacks, if any, are sent next, and the entry is sound again.
FailureResult(e, se, aw2, dl2, ac, fa, F, how) ==
  LET T == TriggeredBy(e, F)
      m == handle_failure(e, F, how)
  IN /\ T # {} => ReadyToSend(m) = T
     /\ EntrySound(IF T = {} THEN m ELSE Dispatched(m),
                   se \cup T, aw2 \cup T, dl2 \cup Timed(T), ac, fa \cup F)

\* A failure is recorded, the unused fallbacks of the failed destinations are sent, and the
\* entry is sound again.  aw2 and dl2 are the answers and deadlines still to come.
LEMMA FailureSound ==
  ASSUME Valid, NEW e, NEW se, NEW aw, NEW dl, NEW ac, NEW fa, NEW F, NEW how, NEW aw2, NEW dl2,
         FailureCase(e, se, aw, dl, ac, fa, F, how, aw2, dl2)
  PROVE  FailureResult(e, se, aw2, dl2, ac, fa, F, how)
<1> DEFINE T == TriggeredBy(e, F)
           m == handle_failure(e, F, how)
           x == IF T = {} THEN m ELSE Dispatched(m)
<1>0. /\ EntrySound(e, se, aw, dl, ac, fa) /\ aw \cup ac \cup fa \subseteq se
      /\ F \subseteq Dests /\ (\A i \in F : e.status[i] = "InFlight") /\ how \in Failed
      /\ aw2 \subseteq aw /\ (how = "Nacked" => F \cap aw2 = {})
      /\ \A j \in dl : j \in dl2 \/ j \in F \/ e.status[j] # "InFlight"
  BY DEF FailureCase
<1> USE <1>0
<1>1. e \in Entries
  BY DEF EntrySound
<1>2. /\ m \in Entries
      /\ m.status = [i \in Dests |-> IF i \in F THEN how ELSE IF i \in T THEN "InFlight"
                                     ELSE e.status[i]]
      /\ m.payload = e.payload /\ m.completed_origins = e.completed_origins
      /\ m.next_send = IF Sequential /\ T # {} THEN Least(T) ELSE e.next_send
  BY <1>1, FailureEffect
<1>3. T \subseteq Dests /\ \A f \in T : config.fallback_for[f] \in F /\ e.status[f] = "PendingSend"
  BY DEF TriggeredBy
<1>4. \A f \in Dests : config.fallback_for[f] \in F /\ e.status[f] = "PendingSend" => f \in T
  BY DEF TriggeredBy
<1>5. e.status \in [Dests -> Statuses] /\ e.payload \in [Dests -> BOOLEAN]
  BY <1>1 DEF Entries
<1>6. \A i \in Dests :
       /\ e.status[i] = "PendingSend" => e.payload[i] /\ i \notin se
       /\ e.status[i] = "InFlight" =>
            /\ ~e.payload[i] /\ i \in se /\ i \notin ac
            /\ config.timeout[i] => i \in dl
            /\ Sequential => i = e.next_send
            /\ i \in aw => i \notin fa
       /\ i \in aw => e.status[i] \in {"InFlight", "TimedOut"}
       /\ e.status[i] \in Failed => i \in fa
  BY DEF EntrySound
<1>7. T \cap se = {} /\ T \cap F = {}
  BY <1>3, <1>6
<1> HIDE DEF T, m
<1>8. ASSUME Sequential, T # {}
      PROVE  T = {Least(T)} /\ F = {e.next_send}
  <2>1. F = {e.next_send}
    BY <1>8, <1>3, <1>6
  <2>2. \A f, g \in T : f = g
    <3> SUFFICES ASSUME NEW f \in T, NEW g \in T PROVE f = g
      OBVIOUS
    <3>1. config.fallback_for[f] = config.fallback_for[g] /\ config.fallback_for[f] \in Dests
      BY <1>3, <2>1
    <3>2. IsFallback(f)
      BY <3>1, ConfigFields DEF IsFallback
    <3> QED
      BY <1>3, <3>1, <3>2, ConfigFields
  <2>3. Least(T) \in T
    BY <1>3, <1>8, LeastOf, ConfigFields
  <2> QED
    BY <2>1, <2>2, <2>3
<1>9. ASSUME T # {} PROVE ReadyToSend(m) = T
  <2>1. CASE Sequential
    <3>1. m.next_send = Least(T) /\ T = {Least(T)}
      BY <1>2, <1>8, <1>9, <2>1
    <3>2. ReadyToSend(m) = {i \in Dests : e.payload[i] /\ i = Least(T)}
      BY <1>2, <2>1, <3>1 DEF ReadyToSend
    <3> QED
      BY <3>1, <3>2, <1>3, <1>6
  <2>2. CASE ~Sequential
    <3>1. ReadyToSend(m) = {i \in Dests : e.payload[i] /\ m.status[i] = "InFlight"}
      BY <1>2, <2>2 DEF ReadyToSend
    <3>2. ASSUME NEW i \in Dests PROVE (e.payload[i] /\ m.status[i] = "InFlight") <=> i \in T
      BY <1>2, <1>3, <1>6, <1>7 DEF Failed
    <3> QED
      BY <3>1, <3>2, <1>3
  <2> QED
    BY <2>1, <2>2
<1>10. /\ x \in Entries /\ x.status = m.status
       /\ x.completed_origins = e.completed_origins /\ x.next_send = m.next_send
       /\ \A i \in Dests : x.payload[i] <=> e.payload[i] /\ i \notin T
  <2>1. CASE T = {}
    BY <2>1, <1>2
  <2>2. CASE T # {}
    BY <2>2, <1>2, <1>9, DispatchEffect
  <2> QED
    BY <2>1, <2>2
<1> HIDE DEF x
<1>11. \A i \in Dests : x.status[i] = IF i \in F THEN how ELSE IF i \in T THEN "InFlight"
                                      ELSE e.status[i]
  BY <1>2, <1>10
<1>12. ASSUME NEW i \in Dests
       PROVE
       /\ x.status[i] = "PendingSend" => x.payload[i] /\ i \notin (se \cup T)
       /\ x.status[i] = "InFlight" =>
            /\ ~x.payload[i] /\ i \in (se \cup T) /\ i \notin ac
            /\ config.timeout[i] => i \in (dl2 \cup Timed(T))
            /\ Sequential => i = x.next_send
            /\ i \in (aw2 \cup T) => i \notin (fa \cup F)
       /\ i \in (aw2 \cup T) => x.status[i] \in {"InFlight", "TimedOut"}
       /\ x.status[i] \in Failed => i \in (fa \cup F)
  <2>1. CASE i \in F
    BY <2>1, <1>7, <1>11 DEF Failed
  <2>2. CASE i \in T
    <3>1. x.status[i] = "InFlight" /\ i \notin F
      BY <2>2, <1>7, <1>11
    <3>2. Sequential => i = x.next_send
      BY <2>2, <1>8, <1>10, <1>2
    <3>3. config.timeout[i] => i \in Timed(T)
      BY <2>2 DEF Timed
    <3> QED
      BY <2>2, <3>1, <3>2, <3>3, <1>7, <1>10 DEF Failed
  <2>3. CASE i \notin F /\ i \notin T
    <3>1. x.status[i] = e.status[i] /\ (x.payload[i] <=> e.payload[i])
      BY <2>3, <1>10, <1>11
    <3>2. ASSUME Sequential, e.status[i] = "InFlight" PROVE i = x.next_send
      <4>1. T = {}
        BY <3>2, <2>3, <1>6, <1>8
      <4> QED
        BY <3>2, <4>1, <1>2, <1>6, <1>10
    <3> QED
      BY <2>3, <3>1, <3>2, <1>6
  <2> QED
    BY <2>1, <2>2, <2>3
<1>13. \A o \in x.completed_origins : \E i \in Chain(o) : i \in ac
  BY <1>10 DEF EntrySound
<1>14. ASSUME Regular PROVE ChainsSound(x)
  <2>1. \A i, j \in Dests :
          (Origin(i) = Origin(j) /\ Depth(i) < Depth(j) /\ e.status[j] \notin {"PendingSend", "Skipped"})
          => e.status[i] \in Failed
    BY <1>14 DEF EntrySound, ChainsSound
  <2>2. \A f \in Dests : IsFallback(f) =>
          /\ e.status[f] = "PendingSend" => e.status[config.fallback_for[f]] \in {"PendingSend", "InFlight"}
          /\ e.status[f] = "Skipped" => e.status[config.fallback_for[f]] \in {"Acked", "Skipped"}
    BY <1>14 DEF EntrySound, ChainsSound
  <2>3. ASSUME NEW i \in Dests, NEW j \in Dests, Origin(i) = Origin(j), Depth(i) < Depth(j),
               x.status[j] \notin {"PendingSend", "Skipped"}
        PROVE  x.status[i] \in Failed
    <3>1. CASE j \in T
      <4> DEFINE d == config.fallback_for[j]
      <4>1. d \in F /\ d \in Dests /\ IsFallback(j)
        BY <3>1, <1>3, ConfigFields DEF IsFallback
      <4>2. Origin(i) = Origin(d) /\ Depth(j) = Depth(d) + 1
        BY <2>3, <4>1, OriginOf
      <4> HIDE DEF d
      <4>3. Depth(i) \in Nat /\ Depth(d) \in Nat
        BY <4>1, OriginAtDepth, ConfigFields
      <4>4. CASE Depth(i) = Depth(d)
        BY <4>1, <4>2, <4>4, OnePerDepth, <1>11
      <4>5. CASE Depth(i) < Depth(d)
        <5>1. e.status[d] = "InFlight"
          BY <4>1
        <5>2. e.status[i] \in Failed
          BY <5>1, <4>1, <4>2, <4>5, <2>1
        <5> QED
          BY <5>2, <1>3, <1>11 DEF Failed
      <4> QED
        BY <2>3, <4>2, <4>3, <4>4, <4>5
    <3>2. CASE j \notin T
      <4>1. e.status[j] \notin {"PendingSend", "Skipped"}
        BY <3>2, <2>3, <1>11
      <4>2. e.status[i] \in Failed
        BY <4>1, <2>1, <2>3
      <4> QED
        BY <4>2, <1>3, <1>11 DEF Failed
    <3> QED
      BY <3>1, <3>2
  <2>4. ASSUME NEW f \in Dests, IsFallback(f)
        PROVE
          /\ x.status[f] = "PendingSend" => x.status[config.fallback_for[f]] \in {"PendingSend", "InFlight"}
          /\ x.status[f] = "Skipped" => x.status[config.fallback_for[f]] \in {"Acked", "Skipped"}
    <3> DEFINE d == config.fallback_for[f]
    <3>1. d \in Dests
      BY <2>4, OriginOf
    <3>2. /\ e.status[f] = "PendingSend" => e.status[d] \in {"PendingSend", "InFlight"}
          /\ e.status[f] = "Skipped" => e.status[d] \in {"Acked", "Skipped"}
      BY <2>2, <2>4
    <3>3. d \in F /\ e.status[f] = "PendingSend" => f \in T
      BY <1>4
    <3> HIDE DEF d
    <3>4. x.status[f] = "PendingSend" => x.status[d] \in {"PendingSend", "InFlight"}
      BY <3>1, <3>2, <3>3, <1>11 DEF Failed
    <3>5. x.status[f] = "Skipped" => x.status[d] \in {"Acked", "Skipped"}
      BY <3>1, <3>2, <3>3, <1>11, <1>3 DEF Failed
    <3> QED
      BY <3>4, <3>5 DEF d
  <2> QED
    BY <2>3, <2>4 DEF ChainsSound
<1>15. EntrySound(x, se \cup T, aw2 \cup T, dl2 \cup Timed(T), ac, fa \cup F)
  BY <1>10, <1>12, <1>13, <1>14 DEF EntrySound
<1> QED
  BY <1>9, <1>15 DEF FailureResult, x, T, m

\* AckEntry field by field: i is acknowledged, its unused fallbacks are skipped, and in
\* sequential mode the first destination that is left becomes the next send.
LEMMA AckEffect ==
  ASSUME Valid, NEW e \in Entries, NEW i \in Dests
  PROVE  LET K == SkippedBy(e, i)
             Q == {j \in Dests : j # i /\ j \notin K /\ e.status[j] = "PendingSend" /\ e.payload[j]}
             nx == IF e.next_send = i THEN 0 ELSE e.next_send
             move == Sequential /\ nx = 0 /\ Q # {}
             m == AckEntry(e, i)
         IN /\ m \in Entries /\ m.completed_origins = e.completed_origins
            /\ \A j \in Dests : m.payload[j] <=> e.payload[j] /\ j \notin K
            /\ \A j \in Dests : m.status[j] = IF j = i THEN "Acked"
                                              ELSE IF j \in K THEN "Skipped"
                                              ELSE IF move /\ j = Least(Q) THEN "InFlight"
                                              ELSE e.status[j]
            /\ m.next_send = IF move THEN Least(Q) ELSE nx
            /\ Q # {} => Least(Q) \in Q /\ \A j \in Q : Least(Q) <= j
<1> DEFINE K == SkippedBy(e, i)
           Q == {j \in Dests : j # i /\ j \notin K /\ e.status[j] = "PendingSend" /\ e.payload[j]}
           nx == IF e.next_send = i THEN 0 ELSE e.next_send
           move == Sequential /\ nx = 0 /\ Q # {}
           m == AckEntry(e, i)
           st == [j \in Dests |-> IF j = i THEN "Acked" ELSE IF j \in K THEN "Skipped" ELSE e.status[j]]
           pl == [j \in Dests |-> e.payload[j] /\ j \notin K]
           marked == [e EXCEPT !.status = st, !.payload = pl, !.next_send = nx]
           pending == {j \in Dests : marked.status[j] = "PendingSend" /\ marked.payload[j]}
<1>1. m = IF Sequential /\ marked.next_send = 0 /\ pending # {}
          THEN [marked EXCEPT !.status[Least(pending)] = "InFlight", !.next_send = Least(pending)]
          ELSE marked
  BY Zenon DEF AckEntry
<1>2. st \in [Dests -> Statuses] /\ nx \in Dests \cup {0} /\ pl \in [Dests -> BOOLEAN]
  <2>1. st \in [Dests -> Statuses] /\ nx \in Dests \cup {0}
    BY DEF Entries, Statuses
  <2>2. pl \in [Dests -> BOOLEAN]
    BY Zenon DEF Entries
  <2> QED
    BY <2>1, <2>2
<1>3. Q \subseteq Dests /\ (Q # {} => Least(Q) \in Q /\ \A j \in Q : Least(Q) <= j)
  <2>1. Q \subseteq Dests /\ Dests \subseteq Nat
    BY ConfigFields
  <2> HIDE DEF Q
  <2> QED
    BY <2>1, LeastOf
<1>4. Q = {j \in Dests : st[j] = "PendingSend" /\ pl[j]}
  OBVIOUS
<1> HIDE DEF st, pl, nx
<1>5. /\ marked \in Entries /\ marked.status = st /\ marked.payload = pl /\ marked.next_send = nx
      /\ marked.completed_origins = e.completed_origins
  BY <1>2 DEF Entries
<1> HIDE DEF marked
<1>6. pending = Q
  BY <1>4, <1>5
<1> HIDE DEF pending, m
<1>7. m = IF move THEN [marked EXCEPT !.status[Least(Q)] = "InFlight", !.next_send = Least(Q)]
          ELSE marked
  BY <1>1, <1>5, <1>6
<1> HIDE DEF Q
<1>8. CASE move
  <2>1. m = [marked EXCEPT !.status = [st EXCEPT ![Least(Q)] = "InFlight"], !.next_send = Least(Q)]
    BY <1>5, <1>7, <1>8 DEF Entries
  <2> DEFINE s2 == [st EXCEPT ![Least(Q)] = "InFlight"]
  <2>2. s2 \in [Dests -> Statuses]
    BY <1>2, <1>3, <1>8 DEF Statuses
  <2>3. \A j \in Dests : s2[j] = IF j = Least(Q) THEN "InFlight" ELSE st[j]
    BY <1>2, <1>3, <1>8
  <2> HIDE DEF s2
  <2>4. /\ m \in Entries /\ m.completed_origins = e.completed_origins /\ m.payload = pl
        /\ m.status = s2 /\ m.next_send = Least(Q)
    BY <2>1, <2>2, <1>3, <1>5, <1>8 DEF Entries, s2
  <2>5. Least(Q) \in Dests /\ Least(Q) # i /\ Least(Q) \notin K
    BY <1>3, <1>8 DEF Q
  <2>6. \A j \in Dests : m.payload[j] <=> e.payload[j] /\ j \notin K
    BY <2>4 DEF pl
  <2> QED
    BY <2>3, <2>4, <2>5, <2>6, <1>3, <1>8 DEF st, nx, m, Q
<1>9. CASE ~move
  <2>1. m = marked
    BY <1>7, <1>9
  <2>6. \A j \in Dests : m.payload[j] <=> e.payload[j] /\ j \notin K
    BY <2>1, <1>5 DEF pl
  <2> QED
    BY <2>1, <2>6, <1>3, <1>5, <1>9 DEF st, nx, m, Q
<1> QED
  BY <1>8, <1>9

\* Destination i of a sound entry acknowledges; C are the origins completed then.
AckCase(e, se, aw, dl, ac, fa, i, C) ==
  /\ EntrySound(e, se, aw, dl, ac, fa) /\ aw \cup ac \cup fa \subseteq se
  /\ i \in Dests /\ i \in aw /\ e.status[i] = "InFlight"
  /\ C \subseteq e.completed_origins \cup {Origin(i)}

\* S is what sequential mode sends next; the entry is sound again.
AckResult(e, se, aw, dl, ac, fa, i, C) ==
  LET m == AckEntry(e, i)
      S == IF Sequential THEN ReadyToSend(m) ELSE {}
      d == IF Sequential THEN Dispatched(m) ELSE m
  IN /\ m.completed_origins = e.completed_origins
     /\ S \subseteq Dests /\ (Regular => \A j \in S : ~IsFallback(j))
     /\ EntrySound([d EXCEPT !.completed_origins = C],
                   se \cup S, (aw \ {i}) \cup S, dl \cup Timed(S), ac \cup {i}, fa)

\* An Ack that counts leaves a sound entry, and what sequential mode sends next was never
\* sent before; with fallbacks listed after their destinations it is no fallback.
LEMMA AckSound ==
  ASSUME Valid, NEW e, NEW se, NEW aw, NEW dl, NEW ac, NEW fa,
         NEW i, NEW C, AckCase(e, se, aw, dl, ac, fa, i, C)
  PROVE  AckResult(e, se, aw, dl, ac, fa, i, C)
<1> DEFINE m == AckEntry(e, i)
           S == IF Sequential THEN ReadyToSend(m) ELSE {}
           d == IF Sequential THEN Dispatched(m) ELSE m
           x == [d EXCEPT !.completed_origins = C]
           K == SkippedBy(e, i)
           Q == {j \in Dests : j # i /\ j \notin K /\ e.status[j] = "PendingSend" /\ e.payload[j]}
           nx == IF e.next_send = i THEN 0 ELSE e.next_send
           move == Sequential /\ Q # {}
           p == Least(Q)
<1>0. /\ EntrySound(e, se, aw, dl, ac, fa) /\ aw \cup ac \cup fa \subseteq se
      /\ i \in Dests /\ i \in aw /\ e.status[i] = "InFlight"
      /\ C \subseteq e.completed_origins \cup {Origin(i)}
  BY DEF AckCase
<1> USE <1>0
<1>1. e \in Entries
  BY DEF EntrySound
<1>2. e.status \in [Dests -> Statuses] /\ e.payload \in [Dests -> BOOLEAN]
  BY <1>1 DEF Entries
<1>3. \A j \in Dests :
       /\ e.status[j] = "PendingSend" => e.payload[j] /\ j \notin se
       /\ e.status[j] = "InFlight" =>
            /\ ~e.payload[j] /\ j \in se /\ j \notin ac
            /\ config.timeout[j] => j \in dl
            /\ Sequential => j = e.next_send
            /\ j \in aw => j \notin fa
       /\ j \in aw => e.status[j] \in {"InFlight", "TimedOut"}
       /\ e.status[j] \in Failed => j \in fa
  BY DEF EntrySound
<1>4. Sequential => nx = 0
  BY <1>3
<1>5. /\ m \in Entries /\ m.completed_origins = e.completed_origins
      /\ \A j \in Dests : m.payload[j] <=> e.payload[j] /\ j \notin K
      /\ \A j \in Dests : m.status[j] = IF j = i THEN "Acked"
                                        ELSE IF j \in K THEN "Skipped"
                                        ELSE IF Sequential /\ nx = 0 /\ Q # {} /\ j = p THEN "InFlight"
                                        ELSE e.status[j]
      /\ m.next_send = IF Sequential /\ nx = 0 /\ Q # {} THEN p ELSE nx
      /\ Q # {} => p \in Q /\ \A j \in Q : p <= j
  BY <1>1, AckEffect
<1>6. \A j \in K : j \in Dests /\ Origin(j) = Origin(i) /\ IsFallback(j) /\ e.status[j] = "PendingSend"
  BY DEF SkippedBy, Chain
<1>7. \A j \in Dests : Origin(j) = Origin(i) /\ IsFallback(j) /\ e.status[j] = "PendingSend" => j \in K
  BY DEF SkippedBy, Chain
<1>8. \A j \in Q : j \in Dests /\ j # i /\ j \notin K /\ e.status[j] = "PendingSend"
  OBVIOUS
<1>9. \A j \in Dests : j # i /\ j \notin K /\ e.status[j] = "PendingSend" => j \in Q
  BY <1>3
<1> HIDE DEF m, K, Q, p, nx
<1>10. /\ \A j \in Dests : m.status[j] = IF j = i THEN "Acked" ELSE IF j \in K THEN "Skipped"
                                         ELSE IF move /\ j = p THEN "InFlight" ELSE e.status[j]
       /\ m.next_send = IF move THEN p ELSE nx
       /\ move => p \in Q /\ \A j \in Q : p <= j
  BY <1>4, <1>5
<1>11. S = IF move THEN {p} ELSE {}
  <2>1. ASSUME Sequential PROVE ReadyToSend(m) = IF Q # {} THEN {p} ELSE {}
    <3>1. ReadyToSend(m) = {j \in Dests : m.payload[j] /\ j = m.next_send}
      BY <2>1 DEF ReadyToSend
    <3>2. CASE Q # {}
      <4>1. p \in Dests /\ p \notin K /\ e.payload[p] /\ m.next_send = p
        BY <2>1, <3>2, <1>10, <1>8, <1>3
      <4> QED
        BY <3>1, <3>2, <4>1, <1>5
    <3>3. CASE Q = {}
      BY <2>1, <3>1, <3>3, <1>10, <1>4, ConfigFields
    <3> QED
      BY <3>2, <3>3
  <2> QED
    BY <2>1
<1>12. Sequential => S = ReadyToSend(m)
  OBVIOUS
<1>13. /\ d \in Entries /\ d.status = m.status /\ d.next_send = m.next_send
       /\ \A j \in Dests : d.payload[j] <=> e.payload[j] /\ j \notin K /\ j \notin S
  <2>1. CASE Sequential
    <3>1. d = Dispatched(m) /\ S = ReadyToSend(m)
      BY <2>1
    <3>2. /\ Dispatched(m) \in Entries /\ Dispatched(m).status = m.status
          /\ Dispatched(m).next_send = m.next_send
          /\ Dispatched(m).payload = [j \in Dests |-> m.payload[j] /\ j \notin ReadyToSend(m)]
      BY <1>5, DispatchEffect
    <3>3. \A j \in Dests : Dispatched(m).payload[j] <=> m.payload[j] /\ j \notin S
      BY <3>1, <3>2
    <3> HIDE DEF d, S
    <3> QED
      BY <3>1, <3>2, <3>3, <1>5
  <2>2. CASE ~Sequential
    BY <2>2, <1>5
  <2> QED
    BY <2>1, <2>2
<1>14. C \subseteq Origins
  BY <1>1, OriginAtDepth DEF Entries
<1> HIDE DEF d, S
<1>15. /\ x \in Entries /\ x.status = m.status /\ x.next_send = m.next_send
       /\ x.completed_origins = C /\ x.payload = d.payload
  BY <1>13, <1>14 DEF Entries
<1> HIDE DEF x
<1>16. \A j \in Dests : x.status[j] = IF j = i THEN "Acked" ELSE IF j \in K THEN "Skipped"
                                      ELSE IF j \in S THEN "InFlight" ELSE e.status[j]
  BY <1>10, <1>11, <1>15
<1>17. S \subseteq Q /\ S \subseteq Dests /\ S \cap se = {} /\ i \notin S /\ S \cap K = {} /\ i \notin K
  BY <1>3, <1>6, <1>8, <1>10, <1>11
<1>18. ASSUME NEW j \in Dests
       PROVE
       /\ x.status[j] = "PendingSend" => x.payload[j] /\ j \notin (se \cup S)
       /\ x.status[j] = "InFlight" =>
            /\ ~x.payload[j] /\ j \in (se \cup S) /\ j \notin (ac \cup {i})
            /\ config.timeout[j] => j \in (dl \cup Timed(S))
            /\ Sequential => j = x.next_send
            /\ j \in ((aw \ {i}) \cup S) => j \notin fa
       /\ j \in ((aw \ {i}) \cup S) => x.status[j] \in {"InFlight", "TimedOut"}
       /\ x.status[j] \in Failed => j \in fa
  <2>1. CASE j = i
    BY <2>1, <1>16, <1>17 DEF Failed
  <2>2. CASE j \in K
    BY <2>2, <1>3, <1>6, <1>16, <1>17 DEF Failed
  <2>3. CASE j \in S
    <3>1. x.status[j] = "InFlight" /\ ~x.payload[j]
      BY <2>3, <1>13, <1>15, <1>16, <1>17
    <3>2. Sequential => j = x.next_send
      BY <2>3, <1>10, <1>11, <1>15
    <3>3. config.timeout[j] => j \in Timed(S)
      BY <2>3 DEF Timed
    <3> QED
      BY <2>3, <3>1, <3>2, <3>3, <1>17 DEF Failed
  <2>4. CASE j # i /\ j \notin K /\ j \notin S
    <3>1. x.status[j] = e.status[j] /\ (x.payload[j] <=> e.payload[j])
      BY <2>4, <1>13, <1>15, <1>16
    <3>2. ~(Sequential /\ e.status[j] = "InFlight")
      BY <2>4, <1>3
    <3> QED
      BY <2>4, <3>1, <3>2, <1>3
  <2> QED
    BY <2>1, <2>2, <2>3, <2>4
<1>19. \A o \in x.completed_origins : \E j \in Chain(o) : j \in ac \cup {i}
  <2>1. i \in Chain(Origin(i))
    BY DEF Chain
  <2>2. \A o \in e.completed_origins : \E j \in Chain(o) : j \in ac
    BY DEF EntrySound
  <2> QED
    BY <2>1, <2>2, <1>15
<1>20. ASSUME Regular PROVE (\A j \in S : ~IsFallback(j)) /\ ChainsSound(x)
  <2>1. \A a, b \in Dests :
          (Origin(a) = Origin(b) /\ Depth(a) < Depth(b) /\ e.status[b] \notin {"PendingSend", "Skipped"})
          => e.status[a] \in Failed
    BY <1>20 DEF EntrySound, ChainsSound
  <2>2. \A f \in Dests : IsFallback(f) =>
          /\ e.status[f] = "PendingSend" => e.status[config.fallback_for[f]] \in {"PendingSend", "InFlight"}
          /\ e.status[f] = "Skipped" => e.status[config.fallback_for[f]] \in {"Acked", "Skipped"}
    BY <1>20 DEF EntrySound, ChainsSound
  <2>3. \A f \in Dests : IsFallback(f) =>
          config.fallback_for[f] \in Dests /\ Origin(config.fallback_for[f]) = Origin(f)
    BY OriginOf
  <2>4. ASSUME NEW j \in S, IsFallback(j) PROVE FALSE
    <3> DEFINE u == config.fallback_for[j]
    <3>1. Sequential /\ j = p /\ j \in Q /\ \A k \in Q : j <= k
      BY <2>4, <1>10, <1>11
    <3>2. j \in Dests /\ j \notin K /\ e.status[j] = "PendingSend"
      BY <3>1, <1>8
    <3>3. u \in Dests /\ Origin(u) = Origin(j) /\ e.status[u] \in {"PendingSend", "InFlight"}
      BY <2>2, <2>3, <2>4, <3>2
    <3>4. Origin(j) # Origin(i)
      BY <2>4, <3>2, <1>7
    <3>5. u < j
      BY <1>20, <3>1, <3>2 DEF Regular, ListedAfter, Sequential, Dests
    <3> HIDE DEF u
    <3>6. u # i /\ u \notin K
      BY <3>3, <3>4, <1>6
    <3>7. e.status[u] # "InFlight"
      BY <3>1, <3>3, <3>6, <1>3
    <3>8. u \in Q
      BY <3>3, <3>6, <3>7, <1>9
    <3> QED
      BY <3>1, <3>2, <3>3, <3>5, <3>8, ConfigFields
  <2>5. ASSUME NEW a \in Dests, NEW b \in Dests, Origin(a) = Origin(b), Depth(a) < Depth(b),
               x.status[b] \notin {"PendingSend", "Skipped"}
        PROVE  x.status[a] \in Failed
    <3>1. b \notin S
      <4>1. IsFallback(b)
        BY <2>5, OriginOf, OriginAtDepth, ConfigFields
      <4> QED
        BY <4>1, <2>4
    <3>2. e.status[b] \notin {"PendingSend", "Skipped"}
      BY <3>1, <2>5, <1>16
    <3>3. e.status[a] \in Failed
      BY <3>2, <2>1, <2>5
    <3> QED
      BY <3>3, <1>6, <1>8, <1>16, <1>17 DEF Failed
  <2>6. ASSUME NEW f \in Dests, IsFallback(f)
        PROVE
          /\ x.status[f] = "PendingSend" => x.status[config.fallback_for[f]] \in {"PendingSend", "InFlight"}
          /\ x.status[f] = "Skipped" => x.status[config.fallback_for[f]] \in {"Acked", "Skipped"}
    <3> DEFINE u == config.fallback_for[f]
    <3>1. u \in Dests /\ Origin(u) = Origin(f)
      BY <2>3, <2>6
    <3>2. /\ e.status[f] = "PendingSend" => e.status[u] \in {"PendingSend", "InFlight"}
          /\ e.status[f] = "Skipped" => e.status[u] \in {"Acked", "Skipped"}
      BY <2>2, <2>6
    <3> HIDE DEF u
    <3>3. ASSUME x.status[f] = "PendingSend" PROVE x.status[u] \in {"PendingSend", "InFlight"}
      <4>1. e.status[f] = "PendingSend" /\ f \notin K
        BY <3>3, <1>16
      <4>2. Origin(f) # Origin(i)
        BY <4>1, <2>6, <1>7
      <4>3. u # i /\ u \notin K
        BY <3>1, <4>2, <1>6
      <4> QED
        BY <3>1, <3>2, <4>1, <4>3, <1>16
    <3>4. ASSUME x.status[f] = "Skipped" PROVE x.status[u] \in {"Acked", "Skipped"}
      <4>1. CASE e.status[f] = "Skipped"
        BY <4>1, <3>1, <3>2, <1>6, <1>8, <1>16, <1>17
      <4>2. CASE e.status[f] # "Skipped"
        <5>1. f \in K
          BY <3>4, <4>2, <1>16
        <5>2. Origin(u) = Origin(i) /\ e.status[u] \in {"PendingSend", "InFlight"}
          BY <5>1, <3>1, <3>2, <1>6
        <5>3. CASE u = i
          BY <5>3, <1>16
        <5>4. CASE u # i
          <6>1. Depth(u) # Depth(i)
            BY <5>2, <5>4, <3>1, OnePerDepth
          <6>2. Depth(u) \in Nat /\ Depth(i) \in Nat
            BY <3>1, OriginAtDepth, ConfigFields
          <6>3. ~(Depth(u) < Depth(i))
            BY <2>1, <3>1, <5>2 DEF Failed
          <6>4. e.status[u] # "InFlight"
            BY <2>1, <3>1, <5>2, <6>1, <6>2, <6>3 DEF Failed
          <6>5. IsFallback(u)
            BY <3>1, <6>1, <6>2, <6>3, OriginOf
          <6> QED
            BY <3>1, <5>2, <5>4, <6>4, <6>5, <1>7, <1>16
        <5> QED
          BY <5>3, <5>4
      <4> QED
        BY <4>1, <4>2
    <3> QED
      BY <3>3, <3>4 DEF u
  <2>7. ChainsSound(x)
    BY <2>5, <2>6 DEF ChainsSound
  <2> QED
    BY <2>4, <2>7
<1>21. EntrySound(x, se \cup S, (aw \ {i}) \cup S, dl \cup Timed(S), ac \cup {i}, fa)
  BY <1>15, <1>18, <1>19, <1>20 DEF EntrySound
<1> QED
  BY <1>5, <1>17, <1>20, <1>21 DEF AckResult, x, d, S, m

\* The entry of a new request: its origins (in sequential mode the first of them) are sent,
\* every fallback waits.
LEMMA NewSound ==
  ASSUME Valid
  PROVE  LET S == ReadyToSend(NewInflight)
         IN /\ S \subseteq Origins
            /\ EntrySound(Dispatched(NewInflight), S, S, Timed(S), {}, {})
<1> DEFINE first == Least(Origins)
           ready == IF Sequential THEN {first} ELSE Origins
           e == NewInflight
           S == ReadyToSend(e)
           x == Dispatched(e)
<1>1. Origins \subseteq Dests /\ first \in Origins
  <2>1. Origins \subseteq Dests /\ Dests \subseteq Nat
    BY ConfigFields DEF Origins
  <2>2. Origins # {}
    BY PrimaryIsOrigin
  <2> QED
    BY <2>1, <2>2, LeastOf
<1>2. /\ e \in Entries /\ e.completed_origins = {}
      /\ e.status = [i \in Dests |-> IF i \in ready THEN "InFlight" ELSE "PendingSend"]
      /\ e.payload = [i \in Dests |-> TRUE]
      /\ e.next_send = IF Sequential THEN first ELSE 0
  <2> DEFINE st == [i \in Dests |-> IF i \in ready THEN "InFlight" ELSE "PendingSend"]
             pl == [i \in Dests |-> TRUE]
             nx == IF Sequential THEN first ELSE 0
  <2>1. e = [status |-> st, payload |-> pl, completed_origins |-> {}, next_send |-> nx]
    BY Zenon DEF NewInflight
  <2>2. st \in [Dests -> Statuses] /\ pl \in [Dests -> BOOLEAN]
    BY DEF Statuses
  <2>3. nx \in Dests \cup {0}
    BY <1>1
  <2> HIDE DEF st, pl, nx
  <2>4. e.status = st /\ e.payload = pl /\ e.next_send = nx /\ e.completed_origins = {}
    BY <2>1
  <2>5. e \in Entries
    BY <2>1, <2>2, <2>3 DEF Entries
  <2> QED
    BY <2>4, <2>5 DEF st, pl, nx
<1> HIDE DEF e, first
<1>3. S = ready /\ ready \subseteq Origins
  <2>1. \A i \in Dests : i \in S <=> i \in ready
    <3> SUFFICES ASSUME NEW i \in Dests PROVE i \in S <=> i \in ready
      OBVIOUS
    <3>1. CASE Sequential
      BY <3>1, <1>2 DEF ReadyToSend
    <3>2. CASE ~Sequential
      BY <3>2, <1>2 DEF ReadyToSend
    <3> QED
      BY <3>1, <3>2
  <2>2. S \subseteq Dests
    BY DEF ReadyToSend
  <2> QED
    BY <2>1, <2>2, <1>1
<1>4. /\ x \in Entries /\ x.completed_origins = {} /\ x.next_send = e.next_send /\ x.status = e.status
      /\ x.payload = [i \in Dests |-> e.payload[i] /\ i \notin S]
  BY <1>2, DispatchEffect
<1> HIDE DEF x, S
<1>5. \A i \in Dests : x.status[i] = (IF i \in S THEN "InFlight" ELSE "PendingSend")
                       /\ (x.payload[i] <=> i \notin S)
  <2> SUFFICES ASSUME NEW i \in Dests
               PROVE  x.status[i] = (IF i \in S THEN "InFlight" ELSE "PendingSend")
                      /\ (x.payload[i] <=> i \notin S)
    OBVIOUS
  <2>1. x.status[i] = (IF i \in S THEN "InFlight" ELSE "PendingSend")
    BY <1>2, <1>3, <1>4
  <2>2. e.payload[i]
    BY <1>2
  <2>3. x.payload[i] <=> i \notin S
    BY <2>2, <1>4
  <2> QED
    BY <2>1, <2>3
<1>6. ASSUME NEW i \in Dests
      PROVE
       /\ x.status[i] = "PendingSend" => x.payload[i] /\ i \notin S
       /\ x.status[i] = "InFlight" =>
            /\ ~x.payload[i] /\ i \in S /\ i \notin {}
            /\ config.timeout[i] => i \in Timed(S)
            /\ Sequential => i = x.next_send
            /\ i \in S => i \notin {}
       /\ i \in S => x.status[i] \in {"InFlight", "TimedOut"}
       /\ x.status[i] \in Failed => i \in {}
  <2>1. Sequential /\ i \in S => i = x.next_send
    BY <1>2, <1>3, <1>4
  <2>2. config.timeout[i] /\ i \in S => i \in Timed(S)
    BY DEF Timed
  <2> QED
    BY <2>1, <2>2, <1>5 DEF Failed
<1>7. ChainsSound(x)
  <2>1. ASSUME NEW i \in Dests, NEW j \in Dests, Origin(i) = Origin(j), Depth(i) < Depth(j),
               x.status[j] \notin {"PendingSend", "Skipped"}
        PROVE  FALSE
    <3>1. j \in S /\ ~IsFallback(j)
      BY <2>1, <1>3, <1>5 DEF Origins
    <3> QED
      BY <2>1, <3>1, OriginOf, OriginAtDepth, ConfigFields
  <2>2. ASSUME NEW f \in Dests, IsFallback(f)
        PROVE  x.status[config.fallback_for[f]] \in {"PendingSend", "InFlight"} /\ x.status[f] # "Skipped"
    BY <2>2, <1>5, OriginOf
  <2> QED
    BY <2>1, <2>2 DEF ChainsSound
<1>8. EntrySound(x, S, S, Timed(S), {}, {})
  BY <1>4, <1>6, <1>7 DEF EntrySound
<1> QED
  BY <1>3, <1>8 DEF x, S, e

----------------------------------------------------------------------------
(* Steps.                                                                  *)

\* The configuration never changes, so what is defined from it does not either.
LEMMA SameConfig ==
  ASSUME config' = config
  PROVE  /\ Dests' = Dests /\ Origins' = Origins /\ Entries' = Entries
         /\ \A i : Origin(i)' = Origin(i) /\ Depth(i)' = Depth(i)
         /\ \A i : IsFallback(i)' <=> IsFallback(i)
         /\ \A o : Chain(o)' = Chain(o)
         /\ Awaited' = Awaited /\ primary_index' = primary_index
         /\ (Sequential' <=> Sequential) /\ (Regular' <=> Regular)
         /\ (use_slim_primary' <=> use_slim_primary)
         /\ (use_fire_and_forget' <=> use_fire_and_forget)
<1>1. Dests' = Dests /\ \A i : IsFallback(i)' <=> IsFallback(i)
  BY DEF Dests, IsFallback
<1>2. \A i : Origin(i)' = Origin(i) /\ Depth(i)' = Depth(i)
  BY DEF Origin, Depth
<1>3. Origins' = Origins
  BY <1>1 DEF Origins
<1>4. \A o : Chain(o)' = Chain(o)
  BY <1>1, <1>2 DEF Chain
<1>5. primary_index' = primary_index
  BY <1>1 DEF primary_index
<1>6. Awaited' = Awaited
  BY <1>3, <1>5 DEF Awaited
<1>7. (Sequential' <=> Sequential) /\ (Regular' <=> Regular) /\ (use_fire_and_forget' <=> use_fire_and_forget)
  BY DEF Sequential, Regular, use_fire_and_forget
<1>8. use_slim_primary' <=> use_slim_primary
  BY <1>1 DEF use_slim_primary
<1>9. Entries' = Entries
  BY <1>1, <1>3 DEF Entries
<1> QED
  BY <1>1, <1>2, <1>3, <1>4, <1>5, <1>6, <1>7, <1>8, <1>9

\* EntriesSound after a step, told with the definitions of the state before it.
LEMMA EntriesAfter ==
  ASSUME config' = config,
         \A r \in DOMAIN inflight' :
           EntrySound(inflight'[r], Of(sent', r), Of(awaited', r), Of(heap' \cup due', r),
                      Of(acked', r), Of(failed', r))
  PROVE  EntriesSound'
<1>1. /\ Dests' = Dests /\ Entries' = Entries
      /\ \A i : Origin(i)' = Origin(i) /\ Depth(i)' = Depth(i)
      /\ \A i : IsFallback(i)' <=> IsFallback(i)
      /\ \A o : Chain(o)' = Chain(o)
      /\ (Sequential' <=> Sequential) /\ (Regular' <=> Regular)
  BY SameConfig
<1>2. ASSUME NEW e, NEW se, NEW aw, NEW dl, NEW ac, NEW fa, EntrySound(e, se, aw, dl, ac, fa)
      PROVE  EntrySound(e, se, aw, dl, ac, fa)'
  <2>1. ChainsSound(e) => ChainsSound(e)'
    BY <1>1 DEF ChainsSound
  <2> QED
    BY <1>1, <1>2, <2>1 DEF EntrySound
<1>3. \A S, r : Of(S, r)' = Of(S, r)
  BY <1>1 DEF Of
<1> SUFFICES ASSUME NEW r \in DOMAIN inflight'
             PROVE  EntrySound(inflight[r], Of(sent, r), Of(awaited, r), Of(heap \cup due, r),
                               Of(acked, r), Of(failed, r))'
  BY DEF EntriesSound, Tracked
<1>4. PICK e, se, aw, dl, ac, fa :
        /\ e = inflight'[r] /\ se = Of(sent', r) /\ aw = Of(awaited', r)
        /\ dl = Of(heap' \cup due', r) /\ ac = Of(acked', r) /\ fa = Of(failed', r)
  OBVIOUS
<1>5. EntrySound(e, se, aw, dl, ac, fa)
  BY <1>4
<1>6. EntrySound(e, se, aw, dl, ac, fa)'
  BY <1>2, <1>5
<1>7. /\ se = Of(sent, r)' /\ aw = Of(awaited, r)' /\ dl = Of(heap \cup due, r)'
      /\ ac = Of(acked, r)' /\ fa = Of(failed, r)'
  BY <1>1, <1>4 DEF Of
<1> QED
  BY <1>4, <1>6, <1>7, <1>1 DEF EntrySound, ChainsSound

Live == Tracked \cup slim_inflight

\* What the invariant says of the state before a step, in the form the steps use.
LEMMA InvFacts ==
  ASSUME IInv
  PROVE  /\ Valid /\ next_id \in 1..(MaxClones + 1) /\ next_id \in Nat /\ Live \subseteq 1..(next_id - 1)
         /\ heap \subseteq Requests \X Dests /\ due \subseteq Requests \X Dests
         /\ awaited \subseteq Requests \X Dests /\ sent \subseteq Requests \X Dests
         /\ acked \subseteq Requests \X Dests /\ failed \subseteq Requests \X Dests
         /\ awaited \cup acked \cup failed \subseteq sent
         /\ \A x \in sent : x[1] < next_id
         /\ Live \subseteq Requests /\ timer_started \in BOOLEAN
         /\ upstream \in [Requests -> [outcomes : SUBSET {"Ack", "Nack"}, count : Nat]]
<1>1. TypeOK /\ HistorySound
  BY DEF IInv
<1>2. {heap, due, awaited, sent, acked, failed} \subseteq SUBSET (Requests \X Dests)
  BY <1>1, Zenon DEF TypeOK
<1>3. /\ heap \subseteq Requests \X Dests /\ due \subseteq Requests \X Dests
      /\ awaited \subseteq Requests \X Dests /\ sent \subseteq Requests \X Dests
      /\ acked \subseteq Requests \X Dests /\ failed \subseteq Requests \X Dests
  BY <1>2, Zenon
<1>4. /\ Valid /\ next_id \in 1..(MaxClones + 1) /\ Live \subseteq 1..(next_id - 1) /\ timer_started \in BOOLEAN
      /\ upstream \in [Requests -> [outcomes : SUBSET {"Ack", "Nack"}, count : Nat]]
  BY <1>1 DEF TypeOK, Valid, Live
<1>5. next_id \in Nat /\ Live \subseteq Requests
  BY <1>4, MaxClonesAssumption DEF Requests
<1> QED
  BY <1>1, <1>3, <1>4, <1>5 DEF HistorySound

\* The requests received before and after a step that takes at most one more.
LEMMA Intervals ==
  ASSUME NEW a \in Nat, NEW b \in Nat, a >= 1, b \in {a, a + 1}, b <= MaxClones + 1
  PROVE  /\ a..(b - 1) \subseteq 1..(b - 1) /\ 1..(a - 1) \subseteq 1..(b - 1)
         /\ 1..(b - 1) \subseteq Requests /\ 1..(b - 1) \subseteq Nat
         /\ \A r \in 1..(b - 1) : r \in a..(b - 1) \/ r \in 1..(a - 1)
         /\ \A r \in Requests : r >= b => r >= a /\ r \notin a..(b - 1) /\ r \notin 1..(a - 1)
         /\ \A r \in a..(b - 1) : r >= a /\ r = a
BY MaxClonesAssumption DEF Requests

\* What a step has to show: it answers the requests R upstream with one outcome that is
\* justified, starts tracking at most the next request, keeps entries and history sound,
\* forgets no answer, and sends a fallback only after a failure.
LEMMA GlobalStep ==
  ASSUME IInv, config' = config, NEW R, NEW outcome \in {"Ack", "Nack"},
         next_id' \in {next_id, next_id + 1}, next_id' \in 1..(MaxClones + 1),
         R \subseteq Live \cup (next_id..(next_id' - 1)),
         DOMAIN inflight' \cup slim_inflight' = (Live \cup (next_id..(next_id' - 1))) \ R,
         Notify(R, outcome),
         heap' \subseteq Requests \X Dests, due' \subseteq Requests \X Dests,
         awaited' \subseteq Requests \X Dests, sent' \subseteq Requests \X Dests,
         acked' \subseteq Requests \X Dests, failed' \subseteq Requests \X Dests,
         timer_started' \in BOOLEAN,
         awaited' \cup acked' \cup failed' \subseteq sent',
         \A x \in sent' : x[1] < next_id',
         acked \subseteq acked', failed \subseteq failed',
         \A r \in slim_inflight' : Of(awaited', r) \cap (Of(acked', r) \cup Of(failed', r)) = {},
         PathsApart', EntriesSound',
         DOMAIN inflight' \cup slim_inflight' \subseteq Live \/ (accept_pdata /\ ~use_fire_and_forget),
         outcome = "Ack" => \A r \in R : \A o \in Awaited : \E i \in Chain(o) : <<r, i>> \in acked',
         outcome = "Nack" /\ Regular =>
           \A r \in R : \E o \in Awaited : \A i \in Chain(o) : <<r, i>> \in failed',
         Regular => \A x \in sent' \ sent : IsFallback(x[2]) => <<x[1], config.fallback_for[x[2]]>> \in failed'
  PROVE  IInv'
<1> DEFINE New == next_id..(next_id' - 1)
           LiveAfter == DOMAIN inflight' \cup slim_inflight'
<1>1. /\ Valid /\ next_id \in 1..(MaxClones + 1) /\ next_id \in Nat /\ Live \subseteq 1..(next_id - 1)
      /\ Live \subseteq Requests
      /\ upstream \in [Requests -> [outcomes : SUBSET {"Ack", "Nack"}, count : Nat]]
  BY InvFacts
<1>2. /\ Dests' = Dests /\ Origins' = Origins /\ Entries' = Entries
      /\ \A i : IsFallback(i)' <=> IsFallback(i)
      /\ \A o : Chain(o)' = Chain(o)
      /\ Awaited' = Awaited /\ (Regular' <=> Regular)
  BY SameConfig
<1>3. /\ next_id' \in Nat /\ LiveAfter \subseteq 1..(next_id' - 1) /\ New \subseteq Requests
      /\ 1..(next_id' - 1) \subseteq Requests /\ 1..(next_id' - 1) \subseteq Nat
      /\ \A r \in 1..(next_id' - 1) : r \in New \/ r \in 1..(next_id - 1)
      /\ \A r \in Requests : r >= next_id' => r >= next_id /\ r \notin New /\ r \notin 1..(next_id - 1)
      /\ \A r \in New : r >= next_id
  <2>1. next_id' \in Nat /\ next_id' >= next_id /\ next_id' <= MaxClones + 1 /\ next_id >= 1
    BY <1>1, MaxClonesAssumption
  <2>2. /\ New \subseteq 1..(next_id' - 1) /\ 1..(next_id - 1) \subseteq 1..(next_id' - 1)
        /\ 1..(next_id' - 1) \subseteq Requests /\ 1..(next_id' - 1) \subseteq Nat
        /\ \A r \in 1..(next_id' - 1) : r \in New \/ r \in 1..(next_id - 1)
        /\ \A r \in Requests : r >= next_id' => r >= next_id /\ r \notin New /\ r \notin 1..(next_id - 1)
        /\ \A r \in New : r >= next_id
    BY ONLY <2>1, <1>1, Intervals, next_id' \in {next_id, next_id + 1}
  <2>4. LiveAfter \subseteq Live \cup New
    OBVIOUS
  <2> HIDE DEF New, LiveAfter
  <2> QED
    BY ONLY <2>1, <2>2, <2>4, <1>1
<1>4. R \subseteq Requests
  BY <1>1, <1>3
<1>5. \A r \in Requests : upstream'[r] =
        IF r \in R THEN [outcomes |-> upstream[r].outcomes \cup {outcome}, count |-> upstream[r].count + 1]
        ELSE upstream[r]
  BY DEF Notify
<1>6. upstream' \in [Requests -> [outcomes : SUBSET {"Ack", "Nack"}, count : Nat]]
  <2>1. ASSUME NEW r \in Requests
        PROVE  (IF r \in R THEN [outcomes |-> upstream[r].outcomes \cup {outcome}, count |-> upstream[r].count + 1]
                ELSE upstream[r]) \in [outcomes : SUBSET {"Ack", "Nack"}, count : Nat]
    <3>1. upstream[r] \in [outcomes : SUBSET {"Ack", "Nack"}, count : Nat]
      BY <1>1
    <3> QED
      BY <3>1
  <2> QED
    BY <2>1 DEF Notify
<1>7. TypeOK'
  <2>1. config' \in Configs /\ validate(config')
    BY <1>1 DEF Valid
  <2>2. \A r \in DOMAIN inflight' : inflight'[r] \in Entries'
    BY DEF EntriesSound, EntrySound, Tracked
  <2>3. {heap', due', awaited', sent', acked', failed'} \subseteq SUBSET (Requests \X Dests')
    BY <1>2
  <2>4. Tracked' \subseteq 1..(next_id' - 1) /\ slim_inflight' \subseteq 1..(next_id' - 1)
    BY <1>3 DEF Tracked
  <2> QED
    BY <2>1, <2>2, <2>3, <2>4, <1>6 DEF TypeOK, Entries, Tracked
<1>8. HistorySound'
  <2>1. ASSUME NEW r \in Requests, r >= next_id' PROVE upstream'[r] = [outcomes |-> {}, count |-> 0]
    <3>1. r >= next_id /\ r \notin New /\ r \notin Live
      BY ONLY <2>1, <1>1, <1>3
    <3>2. r \notin R
      BY <3>1
    <3>3. upstream[r] = [outcomes |-> {}, count |-> 0]
      BY <3>1 DEF IInv, HistorySound
    <3> QED
      BY <3>2, <3>3, <1>5
  <2>2. \A S, r : Of(S, r)' = Of(S, r)
    BY <1>2 DEF Of
  <2>3. \A r \in slim_inflight' : Of(awaited, r)' \cap (Of(acked, r)' \cup Of(failed, r)') = {}
    <3> SUFFICES ASSUME NEW r \in slim_inflight'
                 PROVE  Of(awaited, r)' \cap (Of(acked, r)' \cup Of(failed, r)') = {}
      OBVIOUS
    <3>1. Of(awaited, r)' = Of(awaited', r) /\ Of(acked, r)' = Of(acked', r) /\ Of(failed, r)' = Of(failed', r)
      BY <1>2 DEF Of
    <3> QED
      BY <3>1
  <2> QED
    BY <2>1, <2>3 DEF HistorySound
<1>9. \A r \in 1..(next_id' - 1) : upstream'[r].count = IF r \in LiveAfter THEN 0 ELSE 1
  <2> SUFFICES ASSUME NEW r \in 1..(next_id' - 1)
               PROVE  upstream'[r].count = IF r \in LiveAfter THEN 0 ELSE 1
    OBVIOUS
  <2>1. r \in Requests
    BY <1>3
  <2>2. r \in New => upstream[r].count = 0
    <3> HIDE DEF New
    <3>1. HistorySound
      BY DEF IInv
    <3>2. r \in New => upstream[r] = [outcomes |-> {}, count |-> 0]
      BY ONLY <2>1, <1>3, <3>1 DEF HistorySound
    <3> QED
      BY ONLY <3>2
  <2>3. r \notin New => r \in Received
    <3> HIDE DEF New
    <3> QED
      BY <1>3 DEF Received
  <2>4. r \notin New => upstream[r].count = IF r \in Live THEN 0 ELSE 1
    BY <2>3 DEF IInv, OneOutcome, Live
  <2>5. upstream[r].count \in Nat
    BY <2>1, <1>1
  <2>6. upstream'[r].count = IF r \in R THEN upstream[r].count + 1 ELSE upstream[r].count
    <3>1. CASE r \in R
      <4> DEFINE a == upstream[r].outcomes \cup {outcome}
                 b == upstream[r].count + 1
      <4>1. upstream'[r] = [outcomes |-> a, count |-> b]
        BY ONLY <3>1, <2>1, <1>5
      <4> HIDE DEF a, b
      <4>2. upstream'[r].outcomes = a /\ upstream'[r].count = b
        BY ONLY <4>1
      <4> QED
        BY ONLY <3>1, <4>2 DEF a, b
    <3>2. CASE r \notin R
      BY ONLY <3>2, <2>1, <1>5
    <3> QED
      BY <3>1, <3>2
  <2>7. r \in R => upstream'[r].count = 1 /\ r \notin LiveAfter
    <3>1. r \in R => r \in Live \/ r \in New
      OBVIOUS
    <3>2. r \in R => r \notin LiveAfter
      OBVIOUS
    <3> HIDE DEF New, LiveAfter
    <3>3. r \in R => upstream[r].count = 0
      BY ONLY <3>1, <2>2, <2>4
    <3> QED
      BY ONLY <3>2, <3>3, <2>6
  <2>8. r \notin R => (r \in LiveAfter <=> r \in Live \/ r \in New)
    OBVIOUS
  <2> HIDE DEF New, LiveAfter
  <2> QED
    BY <2>2, <2>4, <2>6, <2>7, <2>8
<1>10. config.max_inflight > 0 => Cardinality(LiveAfter) <= config.max_inflight
  <2> SUFFICES ASSUME config.max_inflight > 0 PROVE Cardinality(LiveAfter) <= config.max_inflight
    OBVIOUS
  <2>1. config.max_inflight \in Nat
    BY <1>1, ConfigFields
  <2>2. IsFiniteSet(Live) /\ Cardinality(Live) \in Nat
    <3>1. IsFiniteSet(1..(next_id - 1))
      BY <1>1, FS_Interval
    <3> QED
      BY <3>1, <1>1, FS_Subset, FS_CardinalityType
  <2>3. Cardinality(Live) <= config.max_inflight
    BY DEF IInv, OneOutcome, Live
  <2>4. CASE LiveAfter \subseteq Live
    <3>1. Cardinality(LiveAfter) <= Cardinality(Live) /\ IsFiniteSet(LiveAfter)
      BY <2>2, <2>4, FS_Subset
    <3>2. Cardinality(LiveAfter) \in Nat
      BY <3>1, FS_CardinalityType
    <3> HIDE DEF LiveAfter
    <3> QED
      BY <2>1, <2>2, <2>3, <3>1, <3>2
  <2>5. CASE accept_pdata /\ ~use_fire_and_forget
    <3>1. Cardinality(Live) < config.max_inflight
      BY <2>1, <2>5 DEF accept_pdata, Live
    <3>2. LiveAfter \subseteq Live \cup {next_id}
      BY <1>1
    <3>3. IsFiniteSet(Live \cup {next_id}) /\ Cardinality(Live \cup {next_id}) <= Cardinality(Live) + 1
      <4>1. /\ IsFiniteSet(Live \cup {next_id})
            /\ Cardinality(Live \cup {next_id}) =
                 IF next_id \in Live THEN Cardinality(Live) ELSE Cardinality(Live) + 1
        BY <2>2, FS_AddElement, Zenon
      <4> QED
        BY <2>2, <4>1
    <3>4. Cardinality(LiveAfter) <= Cardinality(Live \cup {next_id}) /\ IsFiniteSet(LiveAfter)
      BY <3>2, <3>3, FS_Subset
    <3>5. Cardinality(LiveAfter) \in Nat /\ Cardinality(Live \cup {next_id}) \in Nat
      BY <3>3, <3>4, FS_CardinalityType
    <3> HIDE DEF LiveAfter
    <3> QED
      BY <2>1, <2>2, <3>1, <3>3, <3>4, <3>5
  <2> QED
    BY <2>4, <2>5
<1>11. OneOutcome'
  BY <1>9, <1>10 DEF OneOutcome, Received, Tracked
<1>12. ASSUME NEW r \in 1..(next_id' - 1)
       PROVE  /\ "Ack" \in upstream'[r].outcomes => \A o \in Awaited : \E i \in Chain(o) : <<r, i>> \in acked'
              /\ Regular /\ "Nack" \in upstream'[r].outcomes =>
                   \E o \in Awaited : \A i \in Chain(o) : <<r, i>> \in failed'
  <2>1. r \in Requests
    BY <1>3, <1>12
  <2>2. upstream[r].outcomes # {} => r \in Received
    <3> HIDE DEF New
    <3>1. HistorySound
      BY DEF IInv
    <3>2. r \in New => upstream[r] = [outcomes |-> {}, count |-> 0]
      BY ONLY <2>1, <1>3, <3>1 DEF HistorySound
    <3>3. r \in New => upstream[r].outcomes = {}
      BY ONLY <3>2
    <3> QED
      BY <3>3, <1>3, <1>12 DEF Received
  <2>3. "Ack" \in upstream[r].outcomes => \A o \in Awaited : \E i \in Chain(o) : <<r, i>> \in acked
    BY <2>2 DEF IInv, AckJustified
  <2>4. Regular /\ "Nack" \in upstream[r].outcomes => \E o \in Awaited : \A i \in Chain(o) : <<r, i>> \in failed
    BY <2>2 DEF IInv, OutcomeJustified
  <2>5. upstream'[r].outcomes = IF r \in R THEN upstream[r].outcomes \cup {outcome} ELSE upstream[r].outcomes
    <3>1. CASE r \in R
      <4> DEFINE a == upstream[r].outcomes \cup {outcome}
                 b == upstream[r].count + 1
      <4>1. upstream'[r] = [outcomes |-> a, count |-> b]
        BY ONLY <3>1, <2>1, <1>5
      <4> HIDE DEF a, b
      <4>2. upstream'[r].outcomes = a /\ upstream'[r].count = b
        BY ONLY <4>1
      <4> QED
        BY ONLY <3>1, <4>2 DEF a, b
    <3>2. CASE r \notin R
      BY ONLY <3>2, <2>1, <1>5
    <3> QED
      BY <3>1, <3>2
  <2>6. ASSUME "Ack" \in upstream'[r].outcomes
        PROVE  \A o \in Awaited : \E i \in Chain(o) : <<r, i>> \in acked'
    <3>1. CASE "Ack" \in upstream[r].outcomes
      BY <3>1, <2>3
    <3>2. CASE r \in R /\ outcome = "Ack"
      BY <3>2
    <3> QED
      BY <2>5, <2>6, <3>1, <3>2
  <2>7. ASSUME Regular, "Nack" \in upstream'[r].outcomes
        PROVE  \E o \in Awaited : \A i \in Chain(o) : <<r, i>> \in failed'
    <3>1. CASE "Nack" \in upstream[r].outcomes
      BY <3>1, <2>4, <2>7
    <3>2. CASE r \in R /\ outcome = "Nack"
      BY <3>2, <2>7
    <3> QED
      BY <2>5, <2>7, <3>1, <3>2
  <2> QED
    BY <2>6, <2>7
<1>13. AckJustified' /\ (Regular' => OutcomeJustified')
  BY <1>2, <1>12 DEF AckJustified, OutcomeJustified, Received
<1>14. Regular' => FallbackOnlyWhenTriggered'
  <2> SUFFICES ASSUME Regular, NEW r \in Requests, NEW i \in Dests, <<r, i>> \in sent', IsFallback(i)
               PROVE  <<r, config.fallback_for[i]>> \in failed'
    BY <1>2 DEF FallbackOnlyWhenTriggered
  <2>1. CASE <<r, i>> \in sent
    BY <2>1 DEF IInv, FallbackOnlyWhenTriggered
  <2>2. CASE <<r, i>> \notin sent
    <3>1. <<r, i>> \in sent' \ sent /\ <<r, i>>[1] = r /\ <<r, i>>[2] = i
      BY <2>2
    <3> QED
      BY <3>1
  <2> QED
    BY <2>1, <2>2
<1> QED
  BY <1>7, <1>8, <1>11, <1>13, <1>14 DEF IInv

\* The sends of request r to the destinations N.
Sends(r, N) == {<<r, j>> : j \in N}

\* Sends of request r concern no other request.
LEMMA SendsOf ==
  ASSUME NEW r, NEW q, NEW N, NEW j
  PROVE  <<q, j>> \in Sends(r, N) <=> q = r /\ j \in N
BY DEF Sends

\* More deadlines do no harm to an entry.
LEMMA MoreDeadlines ==
  ASSUME NEW e, NEW se, NEW aw, NEW dl, NEW ac, NEW fa, EntrySound(e, se, aw, dl, ac, fa),
         NEW dl2, dl \subseteq dl2
  PROVE  EntrySound(e, se, aw, dl2, ac, fa)
BY DEF EntrySound

\* An answer of destination i for request r (process_ack, process_nack): the sends N follow,
\* A and B say whether it counted as an Ack or a failure, R whether the request is finished.
AnswerCase(r, i, N, A, B, R, outcome) ==
  /\ N \subseteq Dests /\ A \subseteq {i} /\ B \subseteq {i} /\ R \subseteq {r} \cap Tracked
  /\ ~use_slim_primary /\ <<r, i>> \in awaited
  /\ config' = config /\ next_id' = next_id /\ slim_inflight' = slim_inflight /\ due' = due
  /\ timer_started' = timer_started
  /\ sent' = sent \cup Sends(r, N)
  /\ awaited' = (awaited \ {<<r, i>>}) \cup Sends(r, N)
  /\ heap' = heap \cup Sends(r, Timed(N))
  /\ acked' = acked \cup Sends(r, A)
  /\ failed' = failed \cup Sends(r, B)
  /\ Notify(R, outcome)
  /\ DOMAIN inflight' = Tracked \ R
  /\ \A q \in Tracked \ {r} : inflight'[q] = inflight[q]
  /\ r \in Tracked \ R =>
       EntrySound(inflight'[r], Of(sent, r) \cup N, (Of(awaited, r) \ {i}) \cup N,
                  Of(heap \cup due, r) \cup Timed(N), Of(acked, r) \cup A, Of(failed, r) \cup B)
  /\ r \in R /\ outcome = "Ack" => \A o \in Awaited : \E j \in Chain(o) : <<r, j>> \in acked'
  /\ r \in R /\ outcome = "Nack" /\ Regular =>
       \E o \in Awaited : \A j \in Chain(o) : <<r, j>> \in failed'
  /\ Regular => \A j \in N : IsFallback(j) => <<r, config.fallback_for[j]>> \in failed'

\* Such an answer keeps the invariant.
LEMMA AnswerStep ==
  ASSUME IInv, NEW r \in Requests, NEW i \in Dests, NEW N, NEW A, NEW B, NEW R,
         NEW outcome \in {"Ack", "Nack"}, AnswerCase(r, i, N, A, B, R, outcome)
  PROVE  IInv'
<1>0. /\ N \subseteq Dests /\ A \subseteq {i} /\ B \subseteq {i} /\ R \subseteq {r} \cap Tracked
      /\ ~use_slim_primary /\ <<r, i>> \in awaited
      /\ config' = config /\ next_id' = next_id /\ slim_inflight' = slim_inflight /\ due' = due
      /\ timer_started' = timer_started
      /\ sent' = sent \cup Sends(r, N)
      /\ awaited' = (awaited \ {<<r, i>>}) \cup Sends(r, N)
      /\ heap' = heap \cup Sends(r, Timed(N))
      /\ acked' = acked \cup Sends(r, A)
      /\ failed' = failed \cup Sends(r, B)
      /\ Notify(R, outcome)
      /\ DOMAIN inflight' = Tracked \ R
      /\ \A q \in Tracked \ {r} : inflight'[q] = inflight[q]
      /\ r \in Tracked \ R =>
           EntrySound(inflight'[r], Of(sent, r) \cup N, (Of(awaited, r) \ {i}) \cup N,
                      Of(heap \cup due, r) \cup Timed(N), Of(acked, r) \cup A, Of(failed, r) \cup B)
      /\ r \in R /\ outcome = "Ack" => \A o \in Awaited : \E j \in Chain(o) : <<r, j>> \in acked'
      /\ r \in R /\ outcome = "Nack" /\ Regular =>
           \E o \in Awaited : \A j \in Chain(o) : <<r, j>> \in failed'
      /\ Regular => \A j \in N : IsFallback(j) => <<r, config.fallback_for[j]>> \in failed'
  BY DEF AnswerCase
<1> USE <1>0
<1>1. /\ Valid /\ next_id \in 1..(MaxClones + 1) /\ next_id \in Nat
      /\ heap \subseteq Requests \X Dests /\ due \subseteq Requests \X Dests
      /\ awaited \subseteq Requests \X Dests /\ sent \subseteq Requests \X Dests
      /\ acked \subseteq Requests \X Dests /\ failed \subseteq Requests \X Dests
      /\ awaited \cup acked \cup failed \subseteq sent
      /\ \A x \in sent : x[1] < next_id
      /\ timer_started \in BOOLEAN
  BY InvFacts
<1>2. slim_inflight = {}
  BY DEF IInv, PathsApart
<1>3. Timed(N) \subseteq Dests /\ A \subseteq Dests /\ B \subseteq Dests
  BY DEF Timed
<1>4. <<r, i>> \in sent /\ r < next_id
  <2>1. <<r, i>> \in sent /\ <<r, i>>[1] = r
    BY <1>1
  <2> QED
    BY <2>1, <1>1
<1>5. /\ heap' \subseteq Requests \X Dests /\ due' \subseteq Requests \X Dests
      /\ awaited' \subseteq Requests \X Dests /\ sent' \subseteq Requests \X Dests
      /\ acked' \subseteq Requests \X Dests /\ failed' \subseteq Requests \X Dests
  BY <1>1, <1>3 DEF Sends
<1>6. awaited' \cup acked' \cup failed' \subseteq sent'
  BY <1>1, <1>4 DEF Sends
<1>7. \A x \in sent' : x[1] < next_id'
  <2>1. \A x \in Sends(r, N) : x[1] = r
    BY DEF Sends
  <2> QED
    BY <2>1, <1>1, <1>4
<1>8. acked \subseteq acked' /\ failed \subseteq failed'
  OBVIOUS
<1>9. PathsApart'
  <2>1. PathsApart
    BY DEF IInv
  <2>2. (use_slim_primary' <=> use_slim_primary) /\ (use_fire_and_forget' <=> use_fire_and_forget)
        /\ Dests' = Dests
    BY SameConfig
  <2>3. Tracked' \subseteq Tracked
    BY DEF Tracked
  <2> QED
    BY <2>1, <2>2, <2>3 DEF PathsApart
<1>10. EntriesSound'
  <2>0. heap' \cup due' = (heap \cup due) \cup Sends(r, Timed(N))
    OBVIOUS
  <2>1. ASSUME NEW q
        PROVE  /\ Of(sent', q) = IF q = r THEN Of(sent, r) \cup N ELSE Of(sent, q)
               /\ Of(awaited', q) = IF q = r THEN (Of(awaited, r) \ {i}) \cup N ELSE Of(awaited, q)
               /\ Of(heap' \cup due', q) =
                    IF q = r THEN Of(heap \cup due, r) \cup Timed(N) ELSE Of(heap \cup due, q)
               /\ Of(acked', q) = IF q = r THEN Of(acked, r) \cup A ELSE Of(acked, q)
               /\ Of(failed', q) = IF q = r THEN Of(failed, r) \cup B ELSE Of(failed, q)
    <3>1. Of(sent', q) = IF q = r THEN Of(sent, r) \cup N ELSE Of(sent, q)
      <4>1. CASE q = r
        BY ONLY <4>1, <1>3, N \subseteq Dests, SendsOf, sent' = sent \cup Sends(r, N) DEF Of
      <4>2. CASE q # r
        BY ONLY <4>2, SendsOf, sent' = sent \cup Sends(r, N) DEF Of
      <4> QED
        BY <4>1, <4>2
    <3>2. Of(awaited', q) = IF q = r THEN (Of(awaited, r) \ {i}) \cup N ELSE Of(awaited, q)
      <4>1. CASE q = r
        BY ONLY <4>1, <1>3, N \subseteq Dests, SendsOf, awaited' = (awaited \ {<<r, i>>}) \cup Sends(r, N) DEF Of
      <4>2. CASE q # r
        BY ONLY <4>2, SendsOf, awaited' = (awaited \ {<<r, i>>}) \cup Sends(r, N) DEF Of
      <4> QED
        BY <4>1, <4>2
    <3>3. Of(heap' \cup due', q) = IF q = r THEN Of(heap \cup due, r) \cup Timed(N) ELSE Of(heap \cup due, q)
      <4>1. CASE q = r
        BY ONLY <4>1, <1>3, N \subseteq Dests, SendsOf, <2>0 DEF Of
      <4>2. CASE q # r
        BY ONLY <4>2, SendsOf, <2>0 DEF Of
      <4> QED
        BY <4>1, <4>2
    <3>4. Of(acked', q) = IF q = r THEN Of(acked, r) \cup A ELSE Of(acked, q)
      <4>1. CASE q = r
        BY ONLY <4>1, <1>3, N \subseteq Dests, SendsOf, acked' = acked \cup Sends(r, A) DEF Of
      <4>2. CASE q # r
        BY ONLY <4>2, SendsOf, acked' = acked \cup Sends(r, A) DEF Of
      <4> QED
        BY <4>1, <4>2
    <3>5. Of(failed', q) = IF q = r THEN Of(failed, r) \cup B ELSE Of(failed, q)
      <4>1. CASE q = r
        BY ONLY <4>1, <1>3, N \subseteq Dests, SendsOf, failed' = failed \cup Sends(r, B) DEF Of
      <4>2. CASE q # r
        BY ONLY <4>2, SendsOf, failed' = failed \cup Sends(r, B) DEF Of
      <4> QED
        BY <4>1, <4>2
    <3> QED
      BY ONLY <3>1, <3>2, <3>3, <3>4, <3>5
  <2>2. ASSUME NEW q \in DOMAIN inflight'
        PROVE  EntrySound(inflight'[q], Of(sent', q), Of(awaited', q), Of(heap' \cup due', q),
                          Of(acked', q), Of(failed', q))
    <3>1. CASE q = r
      BY <2>1, <2>2, <3>1
    <3>2. CASE q # r
      <4>1. q \in Tracked /\ inflight'[q] = inflight[q]
        BY <2>2, <3>2
      <4>2. EntrySound(inflight[q], Of(sent, q), Of(awaited, q), Of(heap \cup due, q), Of(acked, q), Of(failed, q))
        BY <4>1 DEF IInv, EntriesSound
      <4> QED
        BY <2>1, <3>2, <4>1, <4>2
    <3> QED
      BY <3>1, <3>2
  <2> QED
    BY <2>2, EntriesAfter
<1>11. ASSUME Regular, NEW x \in sent' \ sent, IsFallback(x[2])
       PROVE  <<x[1], config.fallback_for[x[2]]>> \in failed'
  <2>1. PICK j \in N : x = <<r, j>>
    BY <1>11 DEF Sends
  <2>2. x[1] = r /\ x[2] = j
    BY <2>1
  <2> QED
    BY <2>1, <2>2, <1>11
<1>12. next_id..(next_id' - 1) = {}
  BY <1>1
<1>13. DOMAIN inflight' \cup slim_inflight' = (Live \cup (next_id..(next_id' - 1))) \ R
  BY <1>2, <1>12 DEF Live
<1>14. R \subseteq Live \cup (next_id..(next_id' - 1))
  BY DEF Live
<1>15. DOMAIN inflight' \cup slim_inflight' \subseteq Live
  BY <1>12, <1>13
<1>16. \A q \in slim_inflight' : Of(awaited', q) \cap (Of(acked', q) \cup Of(failed', q)) = {}
  BY <1>2
<1>17. /\ outcome = "Ack" => \A q \in R : \A o \in Awaited : \E j \in Chain(o) : <<q, j>> \in acked'
       /\ outcome = "Nack" /\ Regular =>
            \A q \in R : \E o \in Awaited : \A j \in Chain(o) : <<q, j>> \in failed'
  OBVIOUS
<1>18. next_id' \in {next_id, next_id + 1} /\ next_id' \in 1..(MaxClones + 1) /\ timer_started' \in BOOLEAN
  BY <1>1
<1> QED
  BY ONLY <1>5, <1>6, <1>7, <1>8, <1>9, <1>10, <1>11, <1>13, <1>14, <1>15, <1>16, <1>17, <1>18,
          GlobalStep, IInv, config' = config, Notify(R, outcome), outcome \in {"Ack", "Nack"}

\* An answer that is ignored changes no entry.
LEMMA IgnoredSound ==
  ASSUME NEW e, NEW se, NEW aw, NEW dl, NEW ac, NEW fa, EntrySound(e, se, aw, dl, ac, fa),
         NEW i \in Dests, NEW A, A \subseteq {i}, NEW B, B \subseteq {i},
         A # {} => e.status[i] # "InFlight"
  PROVE  EntrySound(e, se, aw \ {i}, dl, ac \cup A, fa \cup B)
BY DEF EntrySound

\* A destination in flight without an unused fallback is the last of its chain to fail.
LEMMA ChainFailed ==
  ASSUME Valid, Regular, NEW e, NEW se, NEW aw, NEW dl, NEW ac, NEW fa,
         EntrySound(e, se, aw, dl, ac, fa),
         NEW i \in Dests, e.status[i] = "InFlight", ~FallbackReady(e, i),
         NEW j \in Chain(Origin(i)), j # i
  PROVE  j \in fa
<1>1. j \in Dests /\ Origin(j) = Origin(i)
  BY DEF Chain
<1>2. Depth(i) \in Nat /\ Depth(j) \in Nat
  BY <1>1, OriginAtDepth, ConfigFields
<1>3. \A a, b \in Dests :
        (Origin(a) = Origin(b) /\ Depth(a) < Depth(b) /\ e.status[b] \notin {"PendingSend", "Skipped"})
        => e.status[a] \in Failed
  BY DEF EntrySound, ChainsSound
<1>4. Depth(i) # Depth(j)
  BY <1>1, OnePerDepth
<1>5. ASSUME Depth(i) < Depth(j) PROVE FALSE
  <2>1. PICK f \in Dests : config.fallback_for[f] = i
    BY <1>1, <1>5, HasFallback
  <2>2. IsFallback(f)
    BY <2>1, ConfigFields DEF IsFallback
  <2>3. Origin(f) = Origin(i) /\ Depth(i) < Depth(f)
    BY <1>2, <2>1, <2>2, OriginOf
  <2>4. e.status[f] \in {"PendingSend", "Skipped"}
    BY <1>3, <2>3 DEF Failed
  <2>5. e.status[f] # "PendingSend"
    BY <2>1 DEF FallbackReady
  <2>6. e.status[f] # "Skipped"
    BY <2>1, <2>2 DEF EntrySound, ChainsSound
  <2> QED
    BY <2>4, <2>5, <2>6
<1>6. e.status[j] \in Failed
  BY <1>1, <1>2, <1>3, <1>4, <1>5
<1> QED
  BY <1>1, <1>6 DEF EntrySound

\* What counts upstream is the failure of an awaited origin's chain.
LEMMA CountsIsAwaited ==
  ASSUME IInv, NEW i \in Dests, Counts(i), Tracked # {}
  PROVE  Origin(i) \in Awaited
<1>1. Valid
  BY InvFacts
<1>2. config.await_ack # "None"
  BY DEF IInv, PathsApart, use_fire_and_forget
<1>3. config.await_ack \in {"Primary", "All"}
  BY <1>1, <1>2, ConfigFields
<1>4. Origin(i) \in Origins
  BY <1>1, OriginAtDepth
<1> QED
  BY <1>3, <1>4 DEF Counts, Awaited

\* The destination whose answer counts is in flight, and nothing happened to its send before.
LEMMA AwaitedInFlight ==
  ASSUME IInv, NEW r \in Tracked, NEW i \in Dests, <<r, i>> \in awaited,
         inflight[r].status[i] # "TimedOut"
  PROVE  inflight[r].status[i] = "InFlight" /\ Undecided(r, i)
<1>1. EntrySound(inflight[r], Of(sent, r), Of(awaited, r), Of(heap \cup due, r), Of(acked, r), Of(failed, r))
  BY DEF IInv, EntriesSound
<1>2. i \in Of(awaited, r)
  BY DEF Of
<1>3. inflight[r].status[i] = "InFlight"
  BY <1>1, <1>2 DEF EntrySound
<1>4. i \in Of(sent, r) /\ i \notin Of(acked, r) /\ i \notin Of(failed, r)
  BY <1>1, <1>2, <1>3 DEF EntrySound
<1> QED
  BY <1>3, <1>4 DEF Of, Undecided

\* Leaving upstream alone is a notification of nobody.
LEMMA NobodyNotified ==
  ASSUME IInv, upstream' = upstream, NEW outcome
  PROVE  Notify({}, outcome)
<1>1. upstream = [r \in Requests |-> upstream[r]]
  BY InvFacts
<1> QED
  BY <1>1 DEF Notify

\* The answered send is one of request r's awaited ones.
LEMMA HistoryOf ==
  ASSUME IInv, NEW r
  PROVE  Of(awaited, r) \cup Of(acked, r) \cup Of(failed, r) \subseteq Of(sent, r)
BY InvFacts DEF Of

\* process_nack keeps the invariant.
LEMMA NackStep ==
  ASSUME IInv, NEW r \in Requests, NEW i \in Dests, process_nack(r, i)
  PROVE  IInv'
<1> DEFINE e == inflight[r]
           m == handle_failure(e, {i}, "Nacked")
           T == TriggeredBy(e, {i})
           B == IF Undecided(r, i) THEN {i} ELSE {}
<1>1. /\ ~use_slim_primary /\ <<r, i>> \in awaited /\ RecordNack(r, i)
      /\ config' = config /\ next_id' = next_id /\ slim_inflight' = slim_inflight /\ due' = due
      /\ timer_started' = timer_started /\ acked' = acked
  BY DEF process_nack
<1>2. Valid
  BY InvFacts
<1>3. B \subseteq {i} /\ {} \subseteq {i} /\ {} \subseteq Dests /\ Timed({}) = {}
      /\ \A q : Sends(q, {}) = {}
  BY DEF Timed, Sends
<1>4. failed' = failed \cup Sends(r, B) /\ acked' = acked \cup Sends(r, {})
  BY <1>1, <1>3 DEF RecordNack, Sends
<1>5. r \in Tracked => EntrySound(e, Of(sent, r), Of(awaited, r), Of(heap \cup due, r), Of(acked, r), Of(failed, r))
  BY DEF IInv, EntriesSound
<1>6. Of(awaited, r) \cup Of(acked, r) \cup Of(failed, r) \subseteq Of(sent, r)
  BY HistoryOf
<1>7. CASE ~NackCounts(r, i)
  <2>1. /\ awaited' = awaited \ {<<r, i>>} /\ inflight' = inflight /\ heap' = heap
        /\ upstream' = upstream /\ sent' = sent
    BY <1>7, Zenon DEF process_nack, Answered
  <2>2. /\ sent' = sent \cup Sends(r, {}) /\ awaited' = (awaited \ {<<r, i>>}) \cup Sends(r, {})
        /\ heap' = heap \cup Sends(r, Timed({})) /\ DOMAIN inflight' = Tracked \ {}
        /\ \A q \in Tracked \ {r} : inflight'[q] = inflight[q]
    BY <1>3, <2>1 DEF Tracked
  <2>3. Notify({}, "Nack")
    BY <2>1, NobodyNotified
  <2>4. r \in Tracked \ {} =>
          EntrySound(inflight'[r], Of(sent, r) \cup {}, (Of(awaited, r) \ {i}) \cup {},
                     Of(heap \cup due, r) \cup Timed({}), Of(acked, r) \cup {}, Of(failed, r) \cup B)
    <3>1. r \in Tracked => EntrySound(e, Of(sent, r), Of(awaited, r) \ {i}, Of(heap \cup due, r),
                                      Of(acked, r) \cup {}, Of(failed, r) \cup B)
      BY <1>3, <1>5, IgnoredSound
    <3>2. /\ Of(sent, r) \cup {} = Of(sent, r) /\ (Of(awaited, r) \ {i}) \cup {} = Of(awaited, r) \ {i}
          /\ Of(heap \cup due, r) \cup Timed({}) = Of(heap \cup due, r)
      BY <1>3
    <3> QED
      BY <2>1, <3>1, <3>2
  <2>5. {} \subseteq {r} \cap Tracked /\ r \notin {}
    OBVIOUS
  <2> QED
    <3>1. AnswerCase(r, i, {}, {}, B, {}, "Nack")
      BY ONLY <1>1, <1>3, <1>4, <2>2, <2>3, <2>4, <2>5 DEF AnswerCase
    <3> QED
      BY ONLY IInv, r \in Requests, i \in Dests, <3>1, AnswerStep
<1>8. CASE NackCounts(r, i)
  <2>1. r \in Tracked /\ e.status[i] # "TimedOut" /\ Counts(i)
    BY <1>8 DEF NackCounts
  <2>2. e.status[i] = "InFlight" /\ Undecided(r, i)
    BY <1>1, <2>1, AwaitedInFlight
  <2>3. B = {i} /\ <<r, i>> \in failed'
    BY <2>2, <1>4, SendsOf
  <2>4. EntrySound(e, Of(sent, r), Of(awaited, r), Of(heap \cup due, r), Of(acked, r), Of(failed, r))
    BY <1>5, <2>1
  <2>5. {i} \subseteq Dests /\ "Nacked" \in Failed /\ {i} \cap (Of(awaited, r) \ {i}) = {}
        /\ \A j \in {i} : e.status[j] = "InFlight"
    BY <2>2 DEF Failed
  <2> HIDE DEF e, B
  <2>6. /\ T # {} => ReadyToSend(m) = T
        /\ EntrySound(IF T = {} THEN m ELSE Dispatched(m), Of(sent, r) \cup T, (Of(awaited, r) \ {i}) \cup T,
                      Of(heap \cup due, r) \cup Timed(T), Of(acked, r), Of(failed, r) \cup {i})
    <3> DEFINE F == {i}
               aw2 == Of(awaited, r) \ {i}
               dl == Of(heap \cup due, r)
               how == "Nacked"
    <3>1. FailureCase(e, Of(sent, r), Of(awaited, r), dl, Of(acked, r), Of(failed, r), F, how, aw2, dl)
      BY <1>6, <2>4, <2>5 DEF FailureCase
    <3> HIDE DEF F, aw2, dl, how
    <3>2. FailureResult(e, Of(sent, r), aw2, dl, Of(acked, r), Of(failed, r), F, how)
      BY <1>2, <3>1, FailureSound
    <3> QED
      BY <3>2 DEF FailureResult, F, aw2, dl, how
  <2>7. T # {} <=> FallbackReady(e, i)
    BY DEF TriggeredBy, FallbackReady
  <2>8. CASE FallbackReady(e, i)
    <3>1. ReadyToSend(m) = T
      BY <2>6, <2>7, <2>8
    <3>2. /\ awaited' = (awaited \ {<<r, i>>}) \cup {<<r, j>> : j \in ReadyToSend(m)}
          /\ sent' = sent \cup {<<r, j>> : j \in ReadyToSend(m)}
          /\ heap' = heap \cup Deadlines(r, ReadyToSend(m))
          /\ inflight' = [inflight EXCEPT ![r] = Dispatched(m)]
          /\ upstream' = upstream
      BY <1>8, <2>8, Zenon DEF process_nack, e
    <3>3. T \subseteq Dests /\ \A j \in T : config.fallback_for[j] = i
      BY DEF TriggeredBy
    <3> HIDE DEF m, T
    <3>4. /\ sent' = sent \cup Sends(r, T) /\ awaited' = (awaited \ {<<r, i>>}) \cup Sends(r, T)
          /\ heap' = heap \cup Sends(r, Timed(T))
      BY <3>1, <3>2 DEF Sends, Deadlines, Timed
    <3>5. /\ DOMAIN inflight' = Tracked \ {} /\ \A q \in Tracked \ {r} : inflight'[q] = inflight[q]
          /\ inflight'[r] = Dispatched(m)
      BY <2>1, <3>2 DEF Tracked
    <3>6. Notify({}, "Nack")
      BY <3>2, NobodyNotified
    <3>7. EntrySound(inflight'[r], Of(sent, r) \cup T, (Of(awaited, r) \ {i}) \cup T,
                     Of(heap \cup due, r) \cup Timed(T), Of(acked, r) \cup {}, Of(failed, r) \cup B)
      <4>1. Of(acked, r) \cup {} = Of(acked, r)
        OBVIOUS
      <4> QED
        BY <2>3, <2>6, <2>7, <2>8, <3>5, <4>1
    <3>8. \A j \in T : IsFallback(j) => <<r, config.fallback_for[j]>> \in failed'
      BY <2>3, <3>3
    <3>9. {} \subseteq {r} \cap Tracked /\ r \notin {}
      OBVIOUS
    <3> QED
      <4>1. AnswerCase(r, i, T, {}, B, {}, "Nack")
        BY ONLY <1>1, <1>3, <1>4, <3>3, <3>4, <3>5, <3>6, <3>7, <3>8, <3>9 DEF AnswerCase
      <4> QED
        BY ONLY IInv, r \in Requests, i \in Dests, <4>1, AnswerStep
  <2>9. CASE ~FallbackReady(e, i)
    <3>1. /\ inflight' = Without({r}) /\ Notify({r}, "Nack") /\ awaited' = awaited \ {<<r, i>>}
          /\ heap' = heap /\ sent' = sent
      BY <1>8, <2>9, Zenon DEF process_nack, Answered, e
    <3>2. /\ sent' = sent \cup Sends(r, {}) /\ awaited' = (awaited \ {<<r, i>>}) \cup Sends(r, {})
          /\ heap' = heap \cup Sends(r, Timed({}))
          /\ DOMAIN inflight' = Tracked \ {r}
          /\ \A q \in Tracked \ {r} : inflight'[q] = inflight[q]
      BY <1>3, <3>1 DEF Without
    <3>3. ASSUME Regular PROVE \E o \in Awaited : \A j \in Chain(o) : <<r, j>> \in failed'
      <4>1. Origin(i) \in Awaited
        BY <2>1, CountsIsAwaited
      <4>2. ASSUME NEW j \in Chain(Origin(i)) PROVE <<r, j>> \in failed'
        <5>1. CASE j = i
          BY <5>1, <2>3
        <5>2. CASE j # i
          <6>1. j \in Of(failed, r)
            BY <3>3, <4>2, <5>2, <1>2, <2>2, <2>4, <2>9, ChainFailed
          <6> QED
            BY <6>1, <1>4 DEF Of
        <5> QED
          BY <5>1, <5>2
      <4> QED
        BY <4>1, <4>2
    <3>4. {r} \subseteq {r} \cap Tracked
      BY <2>1
    <3>5. ~(r \in Tracked \ {r}) /\ ("Nack" # "Ack")
      OBVIOUS
    <3> QED
      <4>1. AnswerCase(r, i, {}, {}, B, {r}, "Nack")
        BY ONLY <1>1, <1>3, <1>4, <3>1, <3>2, <3>3, <3>4, <3>5 DEF AnswerCase
      <4> QED
        BY ONLY IInv, r \in Requests, i \in Dests, <4>1, AnswerStep
  <2> QED
    BY <2>8, <2>9
<1> QED
  BY <1>7, <1>8

\* process_ack keeps the invariant.
LEMMA AckStep ==
  ASSUME IInv, NEW r \in Requests, NEW i \in Dests, process_ack(r, i)
  PROVE  IInv'
<1> DEFINE e == inflight[r]
           m == AckEntry(e, i)
           o == Origin(i)
           primaryDone == config.await_ack = "Primary" /\ o = primary_index
           ready == IF Sequential /\ ~primaryDone THEN ReadyToSend(m) ELSE {}
           completed == m.completed_origins \cup {o}
           done == primaryDone \/ (config.await_ack = "All" /\ Cardinality(completed) >= required_origins)
           A == IF Undecided(r, i) THEN {i} ELSE {}
<1>1. /\ ~use_slim_primary /\ <<r, i>> \in awaited /\ RecordAck(r, i)
      /\ config' = config /\ next_id' = next_id /\ slim_inflight' = slim_inflight /\ due' = due
      /\ timer_started' = timer_started /\ failed' = failed
  BY DEF process_ack
<1>2. Valid
  BY InvFacts
<1>3. A \subseteq {i} /\ {} \subseteq {i} /\ {} \subseteq Dests /\ Timed({}) = {}
      /\ \A q : Sends(q, {}) = {}
  BY DEF Timed, Sends
<1>4. acked' = acked \cup Sends(r, A) /\ failed' = failed \cup Sends(r, {})
  BY <1>1, <1>3 DEF RecordAck, Sends
<1>5. r \in Tracked => EntrySound(e, Of(sent, r), Of(awaited, r), Of(heap \cup due, r), Of(acked, r), Of(failed, r))
  BY DEF IInv, EntriesSound
<1>6. Of(awaited, r) \cup Of(acked, r) \cup Of(failed, r) \subseteq Of(sent, r)
  BY HistoryOf
<1>7. CASE ~AckCounts(r, i)
  <2>1. /\ awaited' = awaited \ {<<r, i>>} /\ inflight' = inflight /\ heap' = heap
        /\ upstream' = upstream /\ sent' = sent
    BY <1>7, Zenon DEF process_ack, Answered
  <2>2. /\ sent' = sent \cup Sends(r, {}) /\ awaited' = (awaited \ {<<r, i>>}) \cup Sends(r, {})
        /\ heap' = heap \cup Sends(r, Timed({})) /\ DOMAIN inflight' = Tracked \ {}
        /\ \A q \in Tracked \ {r} : inflight'[q] = inflight[q]
    BY <1>3, <2>1 DEF Tracked
  <2>3. Notify({}, "Ack")
    BY <2>1, NobodyNotified
  <2>4. r \in Tracked \ {} =>
          EntrySound(inflight'[r], Of(sent, r) \cup {}, (Of(awaited, r) \ {i}) \cup {},
                     Of(heap \cup due, r) \cup Timed({}), Of(acked, r) \cup A, Of(failed, r) \cup {})
    <3>1. r \in Tracked => e.status[i] # "InFlight"
      BY <1>7 DEF AckCounts
    <3>2. r \in Tracked => EntrySound(e, Of(sent, r), Of(awaited, r) \ {i}, Of(heap \cup due, r),
                                      Of(acked, r) \cup A, Of(failed, r) \cup {})
      BY <1>3, <1>5, <3>1, IgnoredSound
    <3>3. /\ Of(sent, r) \cup {} = Of(sent, r) /\ (Of(awaited, r) \ {i}) \cup {} = Of(awaited, r) \ {i}
          /\ Of(heap \cup due, r) \cup Timed({}) = Of(heap \cup due, r)
      BY <1>3
    <3> QED
      BY <2>1, <3>2, <3>3
  <2>5. {} \subseteq {r} \cap Tracked /\ r \notin {}
    OBVIOUS
  <2> QED
    <3>1. AnswerCase(r, i, {}, A, {}, {}, "Ack")
      BY ONLY <1>1, <1>3, <1>4, <2>2, <2>3, <2>4, <2>5 DEF AnswerCase
    <3> QED
      BY ONLY IInv, r \in Requests, i \in Dests, <3>1, AnswerStep
<1>8. CASE AckCounts(r, i)
  <2>1. r \in Tracked /\ e.status[i] # "TimedOut"
    BY <1>8 DEF AckCounts
  <2>2. e.status[i] = "InFlight" /\ Undecided(r, i)
    BY <1>1, <2>1, AwaitedInFlight
  <2>3. A = {i} /\ <<r, i>> \in acked'
    BY <2>2, <1>4, SendsOf
  <2>4. EntrySound(e, Of(sent, r), Of(awaited, r), Of(heap \cup due, r), Of(acked, r), Of(failed, r))
    BY <1>5, <2>1
  <2>5. i \in Of(awaited, r)
    BY <1>1 DEF Of
  <2> DEFINE S == IF Sequential THEN ReadyToSend(m) ELSE {}
             d == IF Sequential THEN Dispatched(m) ELSE m
             C == IF config.await_ack = "All" THEN completed ELSE m.completed_origins
  <2>6. /\ awaited' = (awaited \ {<<r, i>>}) \cup {<<r, j>> : j \in ready}
        /\ sent' = sent \cup {<<r, j>> : j \in ready}
        /\ heap' = heap \cup Deadlines(r, ready)
        /\ IF done THEN inflight' = Without({r}) /\ Notify({r}, "Ack")
           ELSE /\ inflight' = [inflight EXCEPT ![r] = [d EXCEPT !.completed_origins = C]]
                /\ upstream' = upstream
    BY <1>8, Zenon DEF process_ack
  <2> HIDE DEF e, A
  <2>7. ASSUME NEW X, X \subseteq e.completed_origins \cup {o}
        PROVE  /\ m.completed_origins = e.completed_origins
               /\ S \subseteq Dests /\ (Regular => \A j \in S : ~IsFallback(j))
               /\ EntrySound([d EXCEPT !.completed_origins = X],
                             Of(sent, r) \cup S, (Of(awaited, r) \ {i}) \cup S, Of(heap \cup due, r) \cup Timed(S),
                             Of(acked, r) \cup {i}, Of(failed, r))
    <3> DEFINE dl == Of(heap \cup due, r)
    <3>1. AckCase(e, Of(sent, r), Of(awaited, r), dl, Of(acked, r), Of(failed, r), i, X)
      BY <1>6, <2>2, <2>4, <2>5, <2>7 DEF AckCase
    <3> HIDE DEF dl
    <3>2. AckResult(e, Of(sent, r), Of(awaited, r), dl, Of(acked, r), Of(failed, r), i, X)
      BY <1>2, <3>1, AckSound
    <3> QED
      BY <3>2 DEF AckResult, dl
  <2>8. m.completed_origins = e.completed_origins /\ S \subseteq Dests /\ (Regular => \A j \in S : ~IsFallback(j))
    BY <2>7
  <2>9. C \subseteq e.completed_origins \cup {o}
    BY <2>8
  <2>10. ready \subseteq S /\ (~primaryDone => ready = S)
    OBVIOUS
  <2>11. completed = e.completed_origins \cup {o}
    BY <2>8
  <2> HIDE DEF m, ready, completed, S, d, C
  <2>12. ready \subseteq Dests /\ (Regular => \A j \in ready : IsFallback(j) => <<r, config.fallback_for[j]>> \in failed')
    BY <2>8, <2>10
  <2>13. /\ sent' = sent \cup Sends(r, ready) /\ awaited' = (awaited \ {<<r, i>>}) \cup Sends(r, ready)
         /\ heap' = heap \cup Sends(r, Timed(ready))
    BY <2>6 DEF Sends, Deadlines, Timed
  <2>14. CASE ~done
    <3>1. inflight' = [inflight EXCEPT ![r] = [d EXCEPT !.completed_origins = C]] /\ upstream' = upstream
      BY <2>6, <2>14
    <3>2. /\ DOMAIN inflight' = Tracked \ {} /\ \A q \in Tracked \ {r} : inflight'[q] = inflight[q]
          /\ inflight'[r] = [d EXCEPT !.completed_origins = C]
      BY <2>1, <3>1 DEF Tracked
    <3>3. Notify({}, "Ack")
      BY <3>1, NobodyNotified
    <3>4. EntrySound(inflight'[r], Of(sent, r) \cup ready, (Of(awaited, r) \ {i}) \cup ready,
                     Of(heap \cup due, r) \cup Timed(ready), Of(acked, r) \cup A, Of(failed, r) \cup {})
      <4>1. ready = S
        BY <2>10, <2>14
      <4>2. Of(failed, r) \cup {} = Of(failed, r)
        OBVIOUS
      <4>3. EntrySound([d EXCEPT !.completed_origins = C],
                       Of(sent, r) \cup S, (Of(awaited, r) \ {i}) \cup S, Of(heap \cup due, r) \cup Timed(S),
                       Of(acked, r) \cup {i}, Of(failed, r))
        BY <2>7, <2>9
      <4> QED
        BY <2>3, <3>2, <4>1, <4>2, <4>3
    <3>5. {} \subseteq {r} \cap Tracked /\ r \notin {}
      OBVIOUS
    <3> QED
      <4>1. AnswerCase(r, i, ready, A, {}, {}, "Ack")
        BY ONLY <1>1, <1>3, <1>4, <2>12, <2>13, <3>2, <3>3, <3>4, <3>5 DEF AnswerCase
      <4> QED
        BY ONLY IInv, r \in Requests, i \in Dests, <4>1, AnswerStep
  <2>15. CASE done
    <3>1. inflight' = Without({r}) /\ Notify({r}, "Ack")
      BY <2>6, <2>15
    <3>2. DOMAIN inflight' = Tracked \ {r} /\ \A q \in Tracked \ {r} : inflight'[q] = inflight[q]
      BY <3>1 DEF Without
    <3>3. i \in Chain(o)
      BY DEF Chain
    <3>4. \A a \in Awaited : \E j \in Chain(a) : <<r, j>> \in acked'
      <4>1. CASE primaryDone
        BY <4>1, <2>3, <3>3 DEF Awaited
      <4>2. CASE config.await_ack = "All" /\ Cardinality(completed) >= required_origins
        <5>1. completed \subseteq Origins
          <6>1. e \in Entries
            BY <2>4 DEF EntrySound
          <6> QED
            BY <6>1, <1>2, <2>11, OriginAtDepth DEF Entries
        <5>2. IsFiniteSet(Origins)
          BY <1>2, ConfigFields, FS_Subset DEF Origins
        <5>3. /\ IsFiniteSet(completed) /\ Cardinality(completed) <= Cardinality(Origins)
              /\ Cardinality(Origins) = Cardinality(completed) => Origins = completed
          BY <5>1, <5>2, FS_Subset
        <5>4. Cardinality(completed) \in Nat /\ Cardinality(Origins) \in Nat
          BY <5>2, <5>3, FS_CardinalityType
        <5>5. Origins = completed
          BY <4>2, <5>3, <5>4 DEF required_origins
        <5>6. Awaited = completed
          BY <4>2, <5>5 DEF Awaited
        <5>7. \A a \in e.completed_origins : \E j \in Chain(a) : j \in Of(acked, r)
          BY <2>4 DEF EntrySound
        <5>8. \A a \in e.completed_origins : \E j \in Chain(a) : <<r, j>> \in acked'
          BY <5>7, <1>4 DEF Of
        <5> QED
          BY <5>6, <5>8, <2>3, <2>11, <3>3
      <4> QED
        BY <2>15, <4>1, <4>2
    <3>5. {r} \subseteq {r} \cap Tracked /\ ~(r \in Tracked \ {r}) /\ ("Ack" # "Nack")
      BY <2>1
    <3> QED
      <4>1. AnswerCase(r, i, ready, A, {}, {r}, "Ack")
        BY ONLY <1>1, <1>3, <1>4, <2>12, <2>13, <3>1, <3>2, <3>4, <3>5 DEF AnswerCase
      <4> QED
        BY ONLY IInv, r \in Requests, i \in Dests, <4>1, AnswerStep
  <2> QED
    BY <2>14, <2>15
<1> QED
  BY <1>7, <1>8

\* The paths stay apart when no request is newly tracked.
LEMMA PathsKept ==
  ASSUME IInv, config' = config, DOMAIN inflight' \subseteq Tracked,
         slim_inflight' \subseteq slim_inflight \/ use_slim_primary, timer_started' = timer_started
  PROVE  PathsApart'
<1>1. PathsApart
  BY DEF IInv
<1>2. (use_slim_primary' <=> use_slim_primary) /\ (use_fire_and_forget' <=> use_fire_and_forget)
      /\ Dests' = Dests
  BY SameConfig
<1>3. Tracked' \subseteq Tracked
  BY DEF Tracked
<1> QED
  BY <1>1, <1>2, <1>3 DEF PathsApart

\* Nothing but the passing of deadlines: a send's deadline may move from heap to due.
LEMMA TimePasses ==
  ASSUME IInv, heap' \cup due' = heap \cup due,
         config' = config, next_id' = next_id, inflight' = inflight, slim_inflight' = slim_inflight,
         timer_started' = timer_started, awaited' = awaited, upstream' = upstream, sent' = sent,
         acked' = acked, failed' = failed
  PROVE  IInv'
<1>1. /\ config' = config /\ next_id' = next_id /\ inflight' = inflight /\ slim_inflight' = slim_inflight
      /\ timer_started' = timer_started /\ awaited' = awaited /\ upstream' = upstream /\ sent' = sent
      /\ acked' = acked /\ failed' = failed
  OBVIOUS
<1>2. /\ next_id \in 1..(MaxClones + 1) /\ next_id \in Nat
      /\ heap \subseteq Requests \X Dests /\ due \subseteq Requests \X Dests
      /\ awaited \subseteq Requests \X Dests /\ sent \subseteq Requests \X Dests
      /\ acked \subseteq Requests \X Dests /\ failed \subseteq Requests \X Dests
      /\ awaited \cup acked \cup failed \subseteq sent
      /\ (\A x \in sent : x[1] < next_id) /\ timer_started \in BOOLEAN
  BY InvFacts
<1>3. /\ heap' \subseteq Requests \X Dests /\ due' \subseteq Requests \X Dests
      /\ awaited' \subseteq Requests \X Dests /\ sent' \subseteq Requests \X Dests
      /\ acked' \subseteq Requests \X Dests /\ failed' \subseteq Requests \X Dests
      /\ awaited' \cup acked' \cup failed' \subseteq sent'
      /\ (\A x \in sent' : x[1] < next_id') /\ timer_started' \in BOOLEAN
      /\ acked \subseteq acked' /\ failed \subseteq failed' /\ sent' \ sent = {}
  BY <1>1, <1>2
<1>4. next_id' \in {next_id, next_id + 1} /\ next_id' \in 1..(MaxClones + 1) /\ next_id..(next_id' - 1) = {}
  BY <1>1, <1>2
<1>5. /\ {} \subseteq Live \cup (next_id..(next_id' - 1))
      /\ DOMAIN inflight' \cup slim_inflight' = (Live \cup (next_id..(next_id' - 1))) \ {}
      /\ DOMAIN inflight' \cup slim_inflight' \subseteq Live
  BY <1>1, <1>4 DEF Live, Tracked
<1>6. Notify({}, "Ack")
  BY <1>1, NobodyNotified
<1>7. PathsApart'
  BY <1>1, PathsKept DEF Tracked
<1>8. EntriesSound'
  <2>2. ASSUME NEW q \in DOMAIN inflight'
        PROVE  EntrySound(inflight'[q], Of(sent', q), Of(awaited', q), Of(heap' \cup due', q),
                          Of(acked', q), Of(failed', q))
    BY <2>2, <1>1 DEF IInv, EntriesSound, Tracked
  <2> QED
    BY <2>2, <1>1, EntriesAfter
<1>9. \A q \in slim_inflight' : Of(awaited', q) \cap (Of(acked', q) \cup Of(failed', q)) = {}
  BY <1>1 DEF IInv, HistorySound
<1>10. /\ "Ack" = "Ack" => \A q \in {} : \A o \in Awaited : \E j \in Chain(o) : <<q, j>> \in acked'
       /\ "Ack" \in {"Ack", "Nack"} /\ "Ack" # "Nack"
  OBVIOUS
<1> QED
  BY ONLY IInv, <1>1, <1>3, <1>4, <1>5, <1>6, <1>7, <1>8, <1>9, <1>10, GlobalStep

\* next_id stays within Requests: every request has a clone.
LEMMA NextIsRequest ==
  ASSUME IInv, WithinBound
  PROVE  next_id \in Requests /\ next_id + 1 \in 1..(MaxClones + 1)
<1>1. next_id \in Nat /\ next_id >= 1 /\ Size \in Nat /\ Size >= 1 /\ next_id * Size <= MaxClones
  BY InvFacts, ConfigFields DEF WithinBound, Size
<1>2. next_id <= next_id * Size
  <2>1. \A a, b \in Nat : b >= 1 => a <= a * b
    <3> SUFFICES ASSUME NEW a \in Nat, NEW b \in Nat, b >= 1 PROVE a <= a * b
      OBVIOUS
    <3>1. b - 1 \in Nat /\ a * b = a + a * (b - 1)
      OBVIOUS
    <3>2. a * (b - 1) \in Nat
      BY <3>1
    <3> QED
      BY <3>1, <3>2
  <2> QED
    BY <1>1, <2>1
<1>3. next_id * Size \in Nat
  BY <1>1
<1> QED
  BY <1>1, <1>2, <1>3, MaxClonesAssumption DEF Requests

\* Nothing happened to the request that comes next.
LEMMA NextIsFresh ==
  ASSUME IInv
  PROVE  /\ Of(sent, next_id) = {} /\ Of(awaited, next_id) = {}
         /\ Of(acked, next_id) = {} /\ Of(failed, next_id) = {} /\ next_id \notin Live
<1>1. next_id \in Nat /\ (\A x \in sent : x[1] < next_id) /\ Live \subseteq 1..(next_id - 1)
  BY InvFacts
<1>2. \A i : <<next_id, i>>[1] = next_id
  OBVIOUS
<1>3. Of(sent, next_id) = {}
  BY <1>1, <1>2 DEF Of
<1>4. next_id \notin Live
  BY <1>1
<1> QED
  BY <1>3, <1>4, HistoryOf

\* The sends S of a new request are within the types.
LEMMA NewSends ==
  ASSUME IInv, next_id \in Requests, next_id' = next_id + 1, NEW S, S \subseteq Dests,
         sent' = sent \cup Sends(next_id, S)
  PROVE  /\ sent' \subseteq Requests \X Dests /\ \A x \in sent' : x[1] < next_id'
         /\ Sends(next_id, S) \subseteq Requests \X Dests
         /\ \A x \in sent' \ sent : x[1] = next_id /\ x[2] \in S
<1>1. /\ next_id \in Nat /\ sent \subseteq Requests \X Dests /\ \A x \in sent : x[1] < next_id /\ x[1] \in Nat
  BY InvFacts DEF Requests
<1>2. \A x \in Sends(next_id, S) : x \in Requests \X Dests /\ x[1] = next_id /\ x[2] \in S
  BY DEF Sends
<1> QED
  BY <1>1, <1>2

\* process_fire_and_forget keeps the invariant: the upstream node awaits nobody.
LEMMA FireAndForgetStep ==
  ASSUME IInv, process_fire_and_forget
  PROVE  IInv'
<1>1. /\ use_fire_and_forget /\ WithinBound /\ next_id' = next_id + 1 /\ Notify({next_id}, "Ack")
      /\ config' = config /\ inflight' = inflight /\ slim_inflight' = slim_inflight /\ heap' = heap
      /\ due' = due /\ timer_started' = timer_started /\ awaited' = awaited /\ acked' = acked
      /\ failed' = failed /\ sent' = sent \cup Sends(next_id, Origins)
  BY DEF process_fire_and_forget, Sends
<1>2. next_id \in Requests /\ next_id + 1 \in 1..(MaxClones + 1)
  BY <1>1, NextIsRequest
<1>3. /\ Valid /\ next_id \in Nat
      /\ heap \subseteq Requests \X Dests /\ due \subseteq Requests \X Dests
      /\ awaited \subseteq Requests \X Dests
      /\ acked \subseteq Requests \X Dests /\ failed \subseteq Requests \X Dests
      /\ awaited \cup acked \cup failed \subseteq sent /\ timer_started \in BOOLEAN
  BY InvFacts
<1>4. Tracked = {} /\ slim_inflight = {} /\ config.await_ack = "None"
  BY <1>1 DEF IInv, PathsApart, use_slim_primary, use_fire_and_forget
<1>5. /\ sent' \subseteq Requests \X Dests /\ (\A x \in sent' : x[1] < next_id')
      /\ \A x \in sent' \ sent : x[1] = next_id /\ x[2] \in Origins
  <2>1. Origins \subseteq Dests
    BY DEF Origins
  <2> QED
    BY <1>1, <1>2, <2>1, NewSends
<1>6. /\ heap' \subseteq Requests \X Dests /\ due' \subseteq Requests \X Dests
      /\ awaited' \subseteq Requests \X Dests
      /\ acked' \subseteq Requests \X Dests /\ failed' \subseteq Requests \X Dests
      /\ awaited' \cup acked' \cup failed' \subseteq sent' /\ timer_started' \in BOOLEAN
      /\ acked \subseteq acked' /\ failed \subseteq failed'
  BY <1>1, <1>3
<1>7. /\ next_id' \in {next_id, next_id + 1} /\ next_id' \in 1..(MaxClones + 1)
      /\ next_id..(next_id' - 1) = {next_id}
  BY <1>1, <1>2, <1>3
<1>8. /\ {next_id} \subseteq Live \cup (next_id..(next_id' - 1))
      /\ DOMAIN inflight' \cup slim_inflight' = (Live \cup (next_id..(next_id' - 1))) \ {next_id}
      /\ DOMAIN inflight' \cup slim_inflight' \subseteq Live
  BY <1>1, <1>4, <1>7 DEF Live, Tracked
<1>9. PathsApart'
  BY <1>1, PathsKept DEF Tracked
<1>10. EntriesSound'
  BY <1>1, <1>4 DEF EntriesSound, Tracked
<1>11. \A q \in slim_inflight' : Of(awaited', q) \cap (Of(acked', q) \cup Of(failed', q)) = {}
  BY <1>1, <1>4
<1>12. Awaited = {}
  BY <1>4 DEF Awaited
<1>13. /\ "Ack" = "Ack" => \A q \in {next_id} : \A o \in Awaited : \E j \in Chain(o) : <<q, j>> \in acked'
       /\ "Ack" \in {"Ack", "Nack"} /\ "Ack" # "Nack"
  BY <1>12
<1>14. \A x \in sent' \ sent : ~IsFallback(x[2])
  BY <1>5 DEF Origins
<1> QED
  BY ONLY IInv, <1>1, <1>5, <1>6, <1>7, <1>8, <1>9, <1>10, <1>11, <1>13, <1>14, GlobalStep

\* process_slim_primary keeps the invariant.
LEMMA SlimStep ==
  ASSUME IInv, process_slim_primary
  PROVE  IInv'
<1>1. /\ use_slim_primary /\ accept_pdata /\ WithinBound /\ next_id' = next_id + 1
      /\ slim_inflight' = slim_inflight \cup {next_id}
      /\ config' = config /\ inflight' = inflight /\ heap' = heap
      /\ due' = due /\ timer_started' = timer_started /\ upstream' = upstream /\ acked' = acked
      /\ failed' = failed /\ sent' = sent \cup Sends(next_id, Dests)
      /\ awaited' = awaited \cup Sends(next_id, Dests)
  BY DEF process_slim_primary, SendAll, Sends
<1>2. next_id \in Requests /\ next_id + 1 \in 1..(MaxClones + 1)
  BY <1>1, NextIsRequest
<1>3. /\ Valid /\ next_id \in Nat
      /\ heap \subseteq Requests \X Dests /\ due \subseteq Requests \X Dests
      /\ awaited \subseteq Requests \X Dests
      /\ acked \subseteq Requests \X Dests /\ failed \subseteq Requests \X Dests
      /\ awaited \cup acked \cup failed \subseteq sent /\ timer_started \in BOOLEAN
  BY InvFacts
<1>4. Tracked = {} /\ ~use_fire_and_forget /\ \A i \in Dests : ~IsFallback(i)
  BY <1>1 DEF IInv, PathsApart, use_slim_primary, use_fire_and_forget
<1>5. /\ sent' \subseteq Requests \X Dests /\ (\A x \in sent' : x[1] < next_id')
      /\ Sends(next_id, Dests) \subseteq Requests \X Dests
      /\ \A x \in sent' \ sent : x[1] = next_id /\ x[2] \in Dests
  BY <1>1, <1>2, NewSends
<1>6. /\ heap' \subseteq Requests \X Dests /\ due' \subseteq Requests \X Dests
      /\ awaited' \subseteq Requests \X Dests
      /\ acked' \subseteq Requests \X Dests /\ failed' \subseteq Requests \X Dests
      /\ awaited' \cup acked' \cup failed' \subseteq sent' /\ timer_started' \in BOOLEAN
      /\ acked \subseteq acked' /\ failed \subseteq failed'
  BY <1>1, <1>3, <1>5
<1>7. /\ next_id' \in {next_id, next_id + 1} /\ next_id' \in 1..(MaxClones + 1)
      /\ next_id..(next_id' - 1) = {next_id}
  BY <1>1, <1>2, <1>3
<1>8. /\ {} \subseteq Live \cup (next_id..(next_id' - 1))
      /\ DOMAIN inflight' \cup slim_inflight' = (Live \cup (next_id..(next_id' - 1))) \ {}
  BY <1>1, <1>7 DEF Live, Tracked
<1>9. PathsApart'
  BY <1>1, PathsKept DEF Tracked
<1>10. EntriesSound'
  BY <1>1, <1>4 DEF EntriesSound, Tracked
<1>11. ASSUME NEW q \in slim_inflight'
       PROVE  Of(awaited', q) \cap (Of(acked', q) \cup Of(failed', q)) = {}
  <2>1. CASE q = next_id
    BY <2>1, <1>1, NextIsFresh
  <2>2. CASE q # next_id
    <3>1. q \in slim_inflight
      BY <1>1, <1>11, <2>2
    <3>2. Of(awaited', q) = Of(awaited, q)
      BY ONLY <2>2, SendsOf, <1>1 DEF Of
    <3> QED
      BY <1>1, <3>1, <3>2 DEF IInv, HistorySound
  <2> QED
    BY <2>1, <2>2
<1>12. Notify({}, "Ack")
  BY <1>1, NobodyNotified
<1>13. /\ "Ack" = "Ack" => \A q \in {} : \A o \in Awaited : \E j \in Chain(o) : <<q, j>> \in acked'
       /\ "Ack" \in {"Ack", "Nack"} /\ "Ack" # "Nack"
  OBVIOUS
<1>14. \A x \in sent' \ sent : ~IsFallback(x[2])
  BY <1>4, <1>5
<1> QED
  BY ONLY IInv, <1>1, <1>4, <1>5, <1>6, <1>7, <1>8, <1>9, <1>10, <1>11, <1>12, <1>13, <1>14, GlobalStep

\* process_full keeps the invariant.
LEMMA FullStep ==
  ASSUME IInv, process_full
  PROVE  IInv'
<1> DEFINE S == ReadyToSend(NewInflight)
           x == Dispatched(NewInflight)
<1>1. /\ ~use_fire_and_forget /\ ~use_slim_primary /\ accept_pdata /\ WithinBound
      /\ timer_started' = (timer_started \/ \E i \in Dests : config.timeout[i])
      /\ next_id' = next_id + 1
      /\ inflight' = [r \in Tracked \cup {next_id} |-> IF r = next_id THEN x ELSE inflight[r]]
      /\ config' = config /\ slim_inflight' = slim_inflight
      /\ due' = due /\ upstream' = upstream /\ acked' = acked
      /\ failed' = failed /\ sent' = sent \cup Sends(next_id, S)
      /\ awaited' = awaited \cup Sends(next_id, S)
      /\ heap' = heap \cup Sends(next_id, Timed(S))
  BY DEF process_full, SendAll, Sends, Deadlines, Timed
<1>2. next_id \in Requests /\ next_id + 1 \in 1..(MaxClones + 1)
  BY <1>1, NextIsRequest
<1>3. /\ Valid /\ next_id \in Nat
      /\ heap \subseteq Requests \X Dests /\ due \subseteq Requests \X Dests
      /\ awaited \subseteq Requests \X Dests
      /\ acked \subseteq Requests \X Dests /\ failed \subseteq Requests \X Dests
      /\ awaited \cup acked \cup failed \subseteq sent /\ timer_started \in BOOLEAN
  BY InvFacts
<1>4. S \subseteq Origins /\ EntrySound(x, S, S, Timed(S), {}, {})
  BY <1>3, NewSound
<1> HIDE DEF S, x
<1>5. S \subseteq Dests /\ Timed(S) \subseteq S
  BY <1>4 DEF Origins, Timed
<1>6. /\ sent' \subseteq Requests \X Dests /\ (\A y \in sent' : y[1] < next_id')
      /\ Sends(next_id, S) \subseteq Requests \X Dests
      /\ \A y \in sent' \ sent : y[1] = next_id /\ y[2] \in S
  BY <1>1, <1>2, <1>5, NewSends
<1>7. /\ heap' \subseteq Requests \X Dests /\ due' \subseteq Requests \X Dests
      /\ awaited' \subseteq Requests \X Dests
      /\ acked' \subseteq Requests \X Dests /\ failed' \subseteq Requests \X Dests
      /\ awaited' \cup acked' \cup failed' \subseteq sent' /\ timer_started' \in BOOLEAN
      /\ acked \subseteq acked' /\ failed \subseteq failed'
  <2>1. Sends(next_id, Timed(S)) \subseteq Sends(next_id, S)
    BY <1>5 DEF Sends
  <2>2. timer_started' \in BOOLEAN
    BY <1>1, <1>3, Zenon
  <2> QED
    BY <1>1, <1>3, <1>6, <2>1, <2>2
<1>8. /\ next_id' \in {next_id, next_id + 1} /\ next_id' \in 1..(MaxClones + 1)
      /\ next_id..(next_id' - 1) = {next_id}
  BY <1>1, <1>2, <1>3
<1>9. DOMAIN inflight' = Tracked \cup {next_id}
  BY <1>1
<1>10. /\ {} \subseteq Live \cup (next_id..(next_id' - 1))
       /\ DOMAIN inflight' \cup slim_inflight' = (Live \cup (next_id..(next_id' - 1))) \ {}
  BY <1>1, <1>8, <1>9 DEF Live
<1>11. PathsApart'
  <2>1. (use_slim_primary' <=> use_slim_primary) /\ (use_fire_and_forget' <=> use_fire_and_forget)
        /\ Dests' = Dests
    BY <1>1, SameConfig
  <2> QED
    BY <1>1, <2>1 DEF IInv, PathsApart
<1>12. slim_inflight = {}
  BY <1>1 DEF IInv, PathsApart
<1>13. EntriesSound'
  <2>0. heap' \cup due' = (heap \cup due) \cup Sends(next_id, Timed(S))
    BY <1>1
  <2>1. ASSUME NEW q \in DOMAIN inflight'
        PROVE  EntrySound(inflight'[q], Of(sent', q), Of(awaited', q), Of(heap' \cup due', q),
                          Of(acked', q), Of(failed', q))
    <3>1. CASE q = next_id
      <4>1. Of(sent', q) = S
        BY ONLY <3>1, <1>5, SendsOf, <1>1, NextIsFresh, IInv DEF Of
      <4>2. Of(awaited', q) = S
        BY ONLY <3>1, <1>5, SendsOf, <1>1, NextIsFresh, IInv DEF Of
      <4>3. Of(acked', q) = {} /\ Of(failed', q) = {}
        BY <3>1, <1>1, NextIsFresh
      <4>4. Timed(S) \subseteq Of(heap' \cup due', q)
        BY ONLY <3>1, <1>5, SendsOf, <2>0 DEF Of
      <4>5. inflight'[q] = x
        BY <3>1, <1>1
      <4> QED
        BY <4>1, <4>2, <4>3, <4>4, <4>5, <1>4, MoreDeadlines
    <3>2. CASE q # next_id
      <4>1. q \in Tracked /\ inflight'[q] = inflight[q]
        BY <1>1, <2>1, <3>2
      <4>2. Of(sent', q) = Of(sent, q)
        BY ONLY <3>2, SendsOf, <1>1 DEF Of
      <4>3. Of(awaited', q) = Of(awaited, q)
        BY ONLY <3>2, SendsOf, <1>1 DEF Of
      <4>4. Of(heap' \cup due', q) = Of(heap \cup due, q)
        BY ONLY <3>2, SendsOf, <2>0 DEF Of
      <4>5. EntrySound(inflight[q], Of(sent, q), Of(awaited, q), Of(heap \cup due, q), Of(acked, q), Of(failed, q))
        BY <4>1 DEF IInv, EntriesSound
      <4> QED
        BY <1>1, <4>1, <4>2, <4>3, <4>4, <4>5
    <3> QED
      BY <3>1, <3>2
  <2> QED
    BY <2>1, <1>1, EntriesAfter
<1>14. \A q \in slim_inflight' : Of(awaited', q) \cap (Of(acked', q) \cup Of(failed', q)) = {}
  BY <1>1, <1>12
<1>15. Notify({}, "Ack")
  BY <1>1, NobodyNotified
<1>16. /\ "Ack" = "Ack" => \A q \in {} : \A o \in Awaited : \E j \in Chain(o) : <<q, j>> \in acked'
       /\ "Ack" \in {"Ack", "Nack"} /\ "Ack" # "Nack"
  OBVIOUS
<1>17. \A y \in sent' \ sent : ~IsFallback(y[2])
  BY <1>4, <1>6 DEF Origins
<1> QED
  BY ONLY IInv, <1>1, <1>6, <1>7, <1>8, <1>10, <1>11, <1>13, <1>14, <1>15, <1>16, <1>17, GlobalStep

\* On the slim primary path no destination has a fallback: every chain has one member.
LEMMA SlimChains ==
  ASSUME Valid, use_slim_primary, NEW j \in Chain(primary_index)
  PROVE  j = primary_index
<1>1. j \in Dests /\ Origin(j) = primary_index /\ ~IsFallback(j)
  BY DEF Chain, use_slim_primary
<1> QED
  BY <1>1, OriginOf

\* An answer on the slim primary path keeps the invariant: only the primary's counts, once.
LEMMA AnswerSlimStep ==
  ASSUME IInv, NEW r \in Requests, NEW i \in Dests, NEW outcome \in {"Ack", "Nack"},
         AnswerSlim(r, i, outcome)
  PROVE  IInv'
<1> DEFINE R == IF i = primary_index /\ r \in slim_inflight THEN {r} ELSE {}
<1>1. /\ use_slim_primary /\ <<r, i>> \in awaited /\ awaited' = awaited \ {<<r, i>>}
      /\ (IF outcome = "Ack" THEN RecordAck(r, i) ELSE RecordNack(r, i))
      /\ config' = config /\ next_id' = next_id /\ inflight' = inflight /\ heap' = heap
      /\ due' = due /\ timer_started' = timer_started /\ sent' = sent
  BY DEF AnswerSlim, Answered
<1>2. /\ Valid /\ next_id \in 1..(MaxClones + 1) /\ next_id \in Nat
      /\ heap \subseteq Requests \X Dests /\ due \subseteq Requests \X Dests
      /\ awaited \subseteq Requests \X Dests /\ sent \subseteq Requests \X Dests
      /\ acked \subseteq Requests \X Dests /\ failed \subseteq Requests \X Dests
      /\ awaited \cup acked \cup failed \subseteq sent
      /\ (\A x \in sent : x[1] < next_id) /\ timer_started \in BOOLEAN
  BY InvFacts
<1>3. slim_inflight' = slim_inflight \ R /\ Notify(R, outcome)
  <2>1. CASE i = primary_index /\ r \in slim_inflight
    BY <2>1 DEF AnswerSlim
  <2>2. CASE ~(i = primary_index /\ r \in slim_inflight)
    <3>1. slim_inflight' = slim_inflight /\ upstream' = upstream /\ R = {}
      BY <2>2 DEF AnswerSlim
    <3>2. Notify({}, outcome)
      BY <3>1, NobodyNotified
    <3> QED
      BY <3>1, <3>2
  <2> QED
    BY <2>1, <2>2
<1>4. /\ acked \subseteq acked' /\ acked' \subseteq acked \cup {<<r, i>>}
      /\ failed \subseteq failed' /\ failed' \subseteq failed \cup {<<r, i>>}
      /\ Undecided(r, i) => IF outcome = "Ack" THEN <<r, i>> \in acked' ELSE <<r, i>> \in failed'
  <2>1. CASE outcome = "Ack"
    BY <1>1, <2>1 DEF RecordAck
  <2>2. CASE outcome # "Ack"
    BY <1>1, <2>2 DEF RecordNack
  <2> QED
    BY <2>1, <2>2
<1>5. Tracked = {} /\ config.await_ack = "Primary"
  BY <1>1 DEF IInv, PathsApart, use_slim_primary
<1>6. \A q \in slim_inflight : Of(awaited, q) \cap (Of(acked, q) \cup Of(failed, q)) = {}
  BY DEF IInv, HistorySound
<1>7. r \in slim_inflight => Undecided(r, i)
  BY <1>1, <1>2, <1>6 DEF Of, Undecided
<1>8. /\ heap' \subseteq Requests \X Dests /\ due' \subseteq Requests \X Dests
      /\ awaited' \subseteq Requests \X Dests /\ sent' \subseteq Requests \X Dests
      /\ acked' \subseteq Requests \X Dests /\ failed' \subseteq Requests \X Dests
      /\ awaited' \cup acked' \cup failed' \subseteq sent'
      /\ (\A x \in sent' : x[1] < next_id') /\ timer_started' \in BOOLEAN
      /\ acked \subseteq acked' /\ failed \subseteq failed' /\ sent' \ sent = {}
  BY <1>1, <1>2, <1>4
<1>9. next_id' \in {next_id, next_id + 1} /\ next_id' \in 1..(MaxClones + 1) /\ next_id..(next_id' - 1) = {}
  BY <1>1, <1>2
<1>10. /\ R \subseteq Live \cup (next_id..(next_id' - 1))
       /\ DOMAIN inflight' \cup slim_inflight' = (Live \cup (next_id..(next_id' - 1))) \ R
       /\ DOMAIN inflight' \cup slim_inflight' \subseteq Live
  BY <1>1, <1>3, <1>5, <1>9 DEF Live, Tracked
<1>11. PathsApart'
  BY <1>1, <1>3, PathsKept DEF Tracked
<1>12. EntriesSound'
  BY <1>1, <1>5 DEF EntriesSound, Tracked
<1>13. ASSUME NEW q \in slim_inflight'
       PROVE  Of(awaited', q) \cap (Of(acked', q) \cup Of(failed', q)) = {}
  <2> SUFFICES ASSUME NEW j \in Dests, <<q, j>> \in awaited', <<q, j>> \in acked' \cup failed'
               PROVE  FALSE
    BY DEF Of
  <2>1. <<q, j>> \in awaited /\ <<q, j>> # <<r, i>>
    BY <1>1
  <2>2. <<q, j>> \in acked \cup failed
    BY <2>1, <1>4
  <2>3. q \in slim_inflight
    BY <1>3, <1>13
  <2>4. j \in Of(awaited, q) /\ j \in Of(acked, q) \cup Of(failed, q)
    BY <2>1, <2>2 DEF Of
  <2> QED
    BY <2>3, <2>4, <1>6
<1>14. ASSUME NEW q \in R
       PROVE  /\ outcome = "Ack" => \A o \in Awaited : \E j \in Chain(o) : <<q, j>> \in acked'
              /\ outcome = "Nack" => \E o \in Awaited : \A j \in Chain(o) : <<q, j>> \in failed'
  <2>1. q = r /\ i = primary_index /\ r \in slim_inflight
    BY <1>14
  <2>2. IF outcome = "Ack" THEN <<r, i>> \in acked' ELSE <<r, i>> \in failed'
    BY <2>1, <1>4, <1>7
  <2>3. Awaited = {primary_index}
    BY <1>5 DEF Awaited
  <2>4. primary_index \in Chain(primary_index)
    BY <1>2, PrimaryIsOrigin, OriginOf DEF Chain, Origins
  <2>5. \A j \in Chain(primary_index) : j = i
    BY <1>1, <1>2, <2>1, SlimChains
  <2> QED
    BY <2>1, <2>2, <2>3, <2>4, <2>5
<1>15. /\ outcome = "Ack" => \A q \in R : \A o \in Awaited : \E j \in Chain(o) : <<q, j>> \in acked'
       /\ outcome = "Nack" /\ Regular =>
            \A q \in R : \E o \in Awaited : \A j \in Chain(o) : <<q, j>> \in failed'
  <2> HIDE DEF R
  <2> QED
    BY <1>14
<1> HIDE DEF R
<1> QED
  BY ONLY IInv, outcome \in {"Ack", "Nack"}, <1>1, <1>3, <1>8, <1>9, <1>10, <1>11, <1>12, <1>13, <1>15, GlobalStep

\* handle_timeout keeps the invariant: every request with passed deadlines takes its own
\* failure step, the refused ones are answered upstream.
LEMMA TimeoutStep ==
  ASSUME IInv, handle_timeout
  PROVE  IInv'
<1> DEFINE Late(r) == {i \in Dests : <<r, i>> \in due /\ inflight[r].status[i] = "InFlight"}
           refused == {r \in Tracked : \E i \in Late(r) : Counts(i) /\ ~FallbackReady(inflight[r], i)}
           After(r) == handle_failure(inflight[r], Late(r), "TimedOut")
           Ready(r) == IF \E i \in Late(r) : FallbackReady(inflight[r], i)
                       THEN ReadyToSend(After(r)) ELSE {}
           sends == UNION {{<<r, i>> : i \in Ready(r)} : r \in Tracked \ refused}
           T(r) == TriggeredBy(inflight[r], Late(r))
<1>1. /\ due' = {}
      /\ inflight' = [r \in Tracked \ refused |->
                        IF Ready(r) = {} THEN After(r) ELSE Dispatched(After(r))]
      /\ heap' = heap \cup UNION {Deadlines(r, Ready(r)) : r \in Tracked \ refused}
      /\ sent' = sent \cup sends /\ awaited' = awaited \cup sends
      /\ failed' = failed \cup {x \in due : x[1] \in Tracked /\ x[2] \in Late(x[1])
                                            /\ Undecided(x[1], x[2])}
      /\ Notify(refused, "Nack")
      /\ config' = config /\ next_id' = next_id /\ slim_inflight' = slim_inflight
      /\ timer_started' = timer_started /\ acked' = acked
  BY Zenon DEF handle_timeout
<1>2. /\ Valid /\ next_id \in 1..(MaxClones + 1) /\ next_id \in Nat /\ Live \subseteq 1..(next_id - 1)
      /\ Live \subseteq Requests
      /\ heap \subseteq Requests \X Dests /\ due \subseteq Requests \X Dests
      /\ awaited \subseteq Requests \X Dests /\ sent \subseteq Requests \X Dests
      /\ acked \subseteq Requests \X Dests /\ failed \subseteq Requests \X Dests
      /\ awaited \cup acked \cup failed \subseteq sent
      /\ (\A x \in sent : x[1] < next_id) /\ timer_started \in BOOLEAN
  BY InvFacts
<1>3. ASSUME NEW r \in Tracked
      PROVE  EntrySound(inflight[r], Of(sent, r), Of(awaited, r), Of(heap \cup due, r), Of(acked, r), Of(failed, r))
  BY DEF IInv, EntriesSound
<1>4. ASSUME NEW r \in Tracked
      PROVE  FailureResult(inflight[r], Of(sent, r), Of(awaited, r), Of(heap, r), Of(acked, r), Of(failed, r),
                           Late(r), "TimedOut")
  <2> DEFINE dl == Of(heap \cup due, r)
             how == "TimedOut"
             F == Late(r)
             e == inflight[r]
  <2>1. F \subseteq Dests /\ (\A i \in F : e.status[i] = "InFlight") /\ how \in Failed
    BY DEF Failed
  <2>2. \A j \in dl : j \in Of(heap, r) \/ j \in F \/ e.status[j] # "InFlight"
    BY DEF Of
  <2>3. Of(awaited, r) \cup Of(acked, r) \cup Of(failed, r) \subseteq Of(sent, r)
    BY HistoryOf
  <2>4. EntrySound(e, Of(sent, r), Of(awaited, r), dl, Of(acked, r), Of(failed, r))
    BY <1>3
  <2>5. how # "Nacked"
    OBVIOUS
  <2> HIDE DEF dl, how, F, e
  <2>6. FailureCase(e, Of(sent, r), Of(awaited, r), dl, Of(acked, r), Of(failed, r), F, how,
                    Of(awaited, r), Of(heap, r))
    BY <2>1, <2>2, <2>3, <2>4, <2>5 DEF FailureCase
  <2>7. FailureResult(e, Of(sent, r), Of(awaited, r), Of(heap, r), Of(acked, r), Of(failed, r), F, how)
    BY <1>2, <2>6, FailureSound
  <2> QED
    BY <2>7 DEF dl, how, F, e
<1>5. ASSUME NEW r \in Tracked
      PROVE  /\ T(r) \subseteq Dests /\ Ready(r) = T(r)
             /\ \A j \in T(r) : config.fallback_for[j] \in Late(r)
             /\ EntrySound(IF Ready(r) = {} THEN After(r) ELSE Dispatched(After(r)),
                           Of(sent, r) \cup T(r), Of(awaited, r) \cup T(r), Of(heap, r) \cup Timed(T(r)),
                           Of(acked, r), Of(failed, r) \cup Late(r))
  <2>1. T(r) \subseteq Dests /\ \A j \in T(r) : config.fallback_for[j] \in Late(r)
    BY DEF TriggeredBy
  <2>2. T(r) # {} <=> \E i \in Late(r) : FallbackReady(inflight[r], i)
    BY DEF TriggeredBy, FallbackReady
  <2>3. /\ T(r) # {} => ReadyToSend(After(r)) = T(r)
        /\ EntrySound(IF T(r) = {} THEN After(r) ELSE Dispatched(After(r)),
                      Of(sent, r) \cup T(r), Of(awaited, r) \cup T(r), Of(heap, r) \cup Timed(T(r)),
                      Of(acked, r), Of(failed, r) \cup Late(r))
    BY <1>4, Zenon DEF FailureResult
  <2> HIDE DEF Late, T, After
  <2>4. Ready(r) = T(r)
    BY <2>2, <2>3
  <2> QED
    BY <2>1, <2>3, <2>4
<1>6. ASSUME NEW r \in Tracked, NEW i \in Late(r)
      PROVE  /\ i \in Dests /\ <<r, i>> \in due /\ inflight[r].status[i] = "InFlight"
             /\ <<r, i>> \in sent /\ <<r, i>> \notin acked
  <2>1. i \in Dests /\ <<r, i>> \in due /\ inflight[r].status[i] = "InFlight"
    OBVIOUS
  <2>2. i \in Of(sent, r) /\ i \notin Of(acked, r)
    BY <2>1, <1>3 DEF EntrySound
  <2> QED
    BY <2>1, <2>2 DEF Of
<1>7. \A r \in Tracked : Late(r) \subseteq Dests
  OBVIOUS
<1>8. \A r \in refused : r \in Tracked /\ \E i \in Late(r) : Counts(i) /\ ~FallbackReady(inflight[r], i)
  OBVIOUS
<1>9. refused \subseteq Tracked
  OBVIOUS
<1> HIDE DEF Late, After, Ready, T, refused
<1>10. \A r, i : <<r, i>> \in sends <=> r \in Tracked \ refused /\ i \in T(r)
  <2>1. \A r, i : <<r, i>> \in sends <=> r \in Tracked \ refused /\ i \in Ready(r)
    OBVIOUS
  <2> HIDE DEF sends
  <2>2. \A r \in Tracked \ refused : Ready(r) = T(r)
    BY <1>5
  <2> QED
    BY ONLY <2>1, <2>2
<1>11. \A x \in sends : \E r \in Tracked \ refused : \E i \in T(r) : x = <<r, i>>
  <2>1. \A x \in sends : \E r \in Tracked \ refused : \E i \in Ready(r) : x = <<r, i>>
    OBVIOUS
  <2> QED
    BY <2>1, <1>5
<1> HIDE DEF sends
<1>12. \A r, i : <<r, i>> \in heap' <=> <<r, i>> \in heap \/ (r \in Tracked \ refused /\ i \in Timed(T(r)))
  <2>1. \A r, i : <<r, i>> \in UNION {Deadlines(q, Ready(q)) : q \in Tracked \ refused}
                  <=> r \in Tracked \ refused /\ i \in Timed(Ready(r))
    BY DEF Deadlines, Timed
  <2> QED
    BY <2>1, <1>1, <1>5
<1>13. heap' \subseteq Requests \X Dests
  <2> DEFINE armed == UNION {Deadlines(q, Ready(q)) : q \in Tracked \ refused}
  <2>1. \A x \in armed : \E r \in Tracked \ refused : \E i \in Ready(r) : x = <<r, i>>
    BY DEF Deadlines
  <2>2. heap' = heap \cup armed
    BY <1>1
  <2> HIDE DEF armed
  <2>3. ASSUME NEW x \in armed PROVE x \in Requests \X Dests
    <3>1. PICK r \in Tracked \ refused : \E i \in Ready(r) : x = <<r, i>>
      BY <2>1
    <3>2. PICK i \in Ready(r) : x = <<r, i>>
      BY <3>1
    <3>3. r \in Requests /\ i \in Dests
      BY <1>2, <1>5 DEF Live
    <3> QED
      BY <3>2, <3>3
  <2> QED
    BY <2>2, <2>3, <1>2
<1>14. \A r, i : <<r, i>> \in failed' <=> <<r, i>> \in failed \/ (r \in Tracked /\ i \in Late(r))
  <2> SUFFICES ASSUME NEW r, NEW i
               PROVE  <<r, i>> \in failed' <=> <<r, i>> \in failed \/ (r \in Tracked /\ i \in Late(r))
    OBVIOUS
  <2>1. <<r, i>>[1] = r /\ <<r, i>>[2] = i
    OBVIOUS
  <2>2. <<r, i>> \in failed' <=> \/ <<r, i>> \in failed
                                 \/ <<r, i>> \in due /\ r \in Tracked /\ i \in Late(r) /\ Undecided(r, i)
    BY <1>1, <2>1
  <2>3. r \in Tracked /\ i \in Late(r) => <<r, i>> \in due /\ (Undecided(r, i) \/ <<r, i>> \in failed)
    BY <1>6 DEF Undecided
  <2> QED
    BY <2>2, <2>3
<1>15. /\ sends \subseteq Requests \X Dests /\ \A x \in sends : x[1] < next_id
  <2> SUFFICES ASSUME NEW x \in sends PROVE x \in Requests \X Dests /\ x[1] < next_id
    OBVIOUS
  <2>0. PICK r \in Tracked \ refused : \E i \in T(r) : x = <<r, i>>
    BY <1>11
  <2>1. PICK i \in T(r) : x = <<r, i>>
    BY <2>0
  <2>2. i \in Dests /\ r \in Live
    BY <1>5 DEF Live
  <2>3. r \in Requests /\ r < next_id
    BY <2>2, <1>2
  <2> QED
    BY <2>1, <2>2, <2>3
<1>16. failed' \subseteq sent /\ failed \subseteq failed'
  <2>1. \A x \in due : x[1] \in Tracked /\ x[2] \in Late(x[1]) /\ Undecided(x[1], x[2]) => x \in sent
    <3> SUFFICES ASSUME NEW x \in due, Undecided(x[1], x[2]) PROVE x \in sent
      OBVIOUS
    <3>1. x = <<x[1], x[2]>>
      BY <1>2
    <3> QED
      BY <3>1 DEF Undecided
  <2> QED
    BY <2>1, <1>1, <1>2
<1>17. /\ due' \subseteq Requests \X Dests
       /\ awaited' \subseteq Requests \X Dests /\ sent' \subseteq Requests \X Dests
       /\ acked' \subseteq Requests \X Dests /\ failed' \subseteq Requests \X Dests
       /\ awaited' \cup acked' \cup failed' \subseteq sent'
       /\ (\A x \in sent' : x[1] < next_id') /\ timer_started' \in BOOLEAN
       /\ acked \subseteq acked'
  BY <1>1, <1>2, <1>15, <1>16
<1>18. DOMAIN inflight' = Tracked \ refused
  BY <1>1
<1>19. next_id' \in {next_id, next_id + 1} /\ next_id' \in 1..(MaxClones + 1) /\ next_id..(next_id' - 1) = {}
  BY <1>1, <1>2
<1>20. Tracked # {} => slim_inflight = {}
  BY DEF IInv, PathsApart
<1>21. /\ refused \subseteq Live \cup (next_id..(next_id' - 1))
       /\ DOMAIN inflight' \cup slim_inflight' = (Live \cup (next_id..(next_id' - 1))) \ refused
       /\ DOMAIN inflight' \cup slim_inflight' \subseteq Live
  BY <1>1, <1>9, <1>18, <1>19, <1>20 DEF Live
<1>22. PathsApart'
  BY <1>1, <1>18, PathsKept
<1>23. EntriesSound'
  <2>1. ASSUME NEW r \in DOMAIN inflight'
        PROVE  EntrySound(inflight'[r], Of(sent', r), Of(awaited', r), Of(heap' \cup due', r),
                          Of(acked', r), Of(failed', r))
    <3>1. r \in Tracked /\ r \in Tracked \ refused
      BY <1>18, <2>1
    <3>2. T(r) \subseteq Dests /\ Timed(T(r)) \subseteq Dests /\ Late(r) \subseteq Dests
      BY <1>5, <1>7, <3>1 DEF Timed
    <3>3. Of(sent', r) = Of(sent, r) \cup T(r)
      BY ONLY <1>1, <1>10, <3>1, <3>2 DEF Of
    <3>4. Of(awaited', r) = Of(awaited, r) \cup T(r)
      BY ONLY <1>1, <1>10, <3>1, <3>2 DEF Of
    <3>5. Of(heap' \cup due', r) = Of(heap, r) \cup Timed(T(r))
      BY ONLY <1>1, <1>12, <3>1, <3>2 DEF Of
    <3>6. Of(failed', r) = Of(failed, r) \cup Late(r)
      BY ONLY <1>14, <3>1, <3>2 DEF Of
    <3>7. inflight'[r] = IF Ready(r) = {} THEN After(r) ELSE Dispatched(After(r))
      BY <1>1, <3>1
    <3>8. EntrySound(IF Ready(r) = {} THEN After(r) ELSE Dispatched(After(r)),
                     Of(sent, r) \cup T(r), Of(awaited, r) \cup T(r), Of(heap, r) \cup Timed(T(r)),
                     Of(acked, r), Of(failed, r) \cup Late(r))
      BY <1>5, <3>1
    <3>9. Of(acked', r) = Of(acked, r)
      BY <1>1
    <3> QED
      BY ONLY <3>3, <3>4, <3>5, <3>6, <3>7, <3>8, <3>9
  <2> QED
    BY <2>1, <1>1, EntriesAfter
<1>24. \A q \in slim_inflight' : Of(awaited', q) \cap (Of(acked', q) \cup Of(failed', q)) = {}
  <2>1. CASE Tracked # {}
    BY <2>1, <1>1, <1>20
  <2>2. CASE Tracked = {}
    <3>1. sends = {}
      BY <2>2, <1>11
    <3>2. awaited' = awaited /\ failed' = failed /\ acked' = acked /\ slim_inflight' = slim_inflight
      BY <2>2, <3>1, <1>1
    <3> QED
      BY <3>2 DEF IInv, HistorySound
  <2> QED
    BY <2>1, <2>2
<1>25. ASSUME Regular, NEW r \in refused
       PROVE  \E o \in Awaited : \A j \in Chain(o) : <<r, j>> \in failed'
  <2>1. PICK i \in Late(r) : Counts(i) /\ ~FallbackReady(inflight[r], i)
    BY <1>8, <1>25
  <2>2. r \in Tracked
    BY <1>9, <1>25
  <2>3. i \in Dests /\ inflight[r].status[i] = "InFlight"
    BY <2>1, <2>2, <1>6
  <2>4. Origin(i) \in Awaited
    BY <2>1, <2>2, <2>3, CountsIsAwaited
  <2>5. ASSUME NEW j \in Chain(Origin(i)) PROVE <<r, j>> \in failed'
    <3>1. CASE j = i
      BY <3>1, <2>1, <2>2, <1>14
    <3>2. CASE j # i
      <4>1. j \in Of(failed, r)
        BY <1>2, <1>3, <1>25, <2>1, <2>2, <2>3, <2>5, <3>2, ChainFailed
      <4> QED
        BY <4>1, <1>16 DEF Of
    <3> QED
      BY <3>1, <3>2
  <2> QED
    BY <2>4, <2>5
<1>26. ASSUME NEW x \in sent' \ sent, IsFallback(x[2])
       PROVE  <<x[1], config.fallback_for[x[2]]>> \in failed'
  <2>0. PICK r \in Tracked \ refused : \E i \in T(r) : x = <<r, i>>
    BY <1>1, <1>11, <1>26
  <2>1. PICK i \in T(r) : x = <<r, i>>
    BY <2>0
  <2>2. x[1] = r /\ x[2] = i /\ config.fallback_for[i] \in Late(r)
    BY <2>1, <1>5
  <2> QED
    BY <2>1, <2>2, <1>14
<1>27. /\ "Nack" = "Nack" /\ Regular =>
            \A q \in refused : \E o \in Awaited : \A j \in Chain(o) : <<q, j>> \in failed'
       /\ "Nack" \in {"Ack", "Nack"} /\ "Nack" # "Ack"
  BY <1>25
<1> QED
  BY ONLY IInv, <1>1, <1>13, <1>16, <1>17, <1>19, <1>21, <1>22, <1>23, <1>24, <1>26, <1>27, GlobalStep

----------------------------------------------------------------------------
(* The theorems.                                                           *)

\* A freshly created processor satisfies the invariant.
LEMMA InitIInv ==
  ASSUME Init
  PROVE  IInv
<1>1. /\ Valid /\ next_id = 1 /\ inflight = [r \in {} |-> 0] /\ slim_inflight = {}
      /\ heap = {} /\ due = {} /\ timer_started = FALSE
      /\ awaited = {} /\ sent = {} /\ acked = {} /\ failed = {}
      /\ upstream = [r \in Requests |-> [outcomes |-> {}, count |-> 0]]
  BY DEF Init, Valid
<1>2. Tracked = {} /\ Received = {}
  BY <1>1 DEF Tracked, Received
<1>3. next_id \in 1..(MaxClones + 1)
  BY <1>1, MaxClonesAssumption
<1>4. upstream \in [Requests -> [outcomes : SUBSET {"Ack", "Nack"}, count : Nat]]
  BY <1>1
<1>5. TypeOK
  <2>1. {heap, due, awaited, sent, acked, failed} \subseteq SUBSET (Requests \X Dests)
    BY <1>1
  <2>2. timer_started \in BOOLEAN
    BY <1>1
  <2> QED
    BY <1>1, <1>2, <1>3, <1>4, <2>1, <2>2 DEF TypeOK, Valid
<1>6. PathsApart
  BY <1>1, <1>2 DEF PathsApart
<1>7. HistorySound
  BY <1>1 DEF HistorySound
<1>8. EntriesSound
  BY <1>2 DEF EntriesSound
<1>9. OneOutcome
  <2>1. Cardinality(Tracked \cup slim_inflight) = 0
    <3>1. Tracked \cup slim_inflight = {}
      BY <1>1, <1>2
    <3> QED
      BY <3>1, FS_EmptySet
  <2>2. config.max_inflight \in Nat
    BY <1>1, ConfigFields
  <2> QED
    BY <1>2, <2>1, <2>2 DEF OneOutcome
<1>10. AckJustified /\ OutcomeJustified
  BY <1>2 DEF AckJustified, OutcomeJustified
<1>11. FallbackOnlyWhenTriggered
  BY <1>1 DEF FallbackOnlyWhenTriggered
<1> QED
  BY <1>5, <1>6, <1>7, <1>8, <1>9, <1>10, <1>11 DEF IInv

\* Every step keeps the invariant.
LEMMA StepIInv ==
  ASSUME IInv, [Next]_vars
  PROVE  IInv'
<1>1. CASE process_fire_and_forget
  BY <1>1, FireAndForgetStep
<1>2. CASE process_slim_primary
  BY <1>2, SlimStep
<1>3. CASE process_full
  BY <1>3, FullStep
<1>4. ASSUME NEW r \in Requests, NEW i \in Dests, Answer(r, i)
      PROVE  IInv'
  <2>1. CASE \E outcome \in {"Ack", "Nack"} : AnswerSlim(r, i, outcome)
    BY <2>1, AnswerSlimStep
  <2>2. CASE process_ack(r, i)
    BY <2>2, AckStep
  <2>3. CASE process_nack(r, i)
    BY <2>3, NackStep
  <2> QED
    BY <1>4, <2>1, <2>2, <2>3 DEF Answer
<1>5. ASSUME NEW r \in Requests, NEW i \in Dests, DeadlinePasses(r, i)
      PROVE  IInv'
  <2>1. heap' \cup due' = heap \cup due
    BY <1>5 DEF DeadlinePasses
  <2> QED
    BY <1>5, <2>1, TimePasses DEF DeadlinePasses
<1>6. CASE handle_timeout
  BY <1>6, TimeoutStep
<1>7. CASE UNCHANGED vars
  BY <1>7, TimePasses DEF vars, processor
<1> QED
  BY <1>1, <1>2, <1>3, <1>4, <1>5, <1>6, <1>7 DEF Next

\* The invariant holds in every reachable state, for every configuration that validate()
\* accepts.
THEOREM Invariance == Spec => []IInv
<1>1. Init => IInv
  BY InitIInv
<1>2. IInv /\ [Next]_vars => IInv'
  BY StepIInv
<1> QED
  BY <1>1, <1>2, PTL DEF Spec

\* Type correctness: statuses, payload flags and next_send stay in their types, and every
\* send, answer and deadline belongs to a request and a destination of the configuration.
THEOREM TypeCorrect == Spec => []TypeOK
<1>1. IInv => TypeOK
  BY DEF IInv
<1> QED
  BY <1>1, Invariance, PTL

\* No double and no lost outcome: a request is tracked or answered upstream exactly once,
\* and never more than max_inflight are tracked.
THEOREM OutcomeOnce == Spec => []OneOutcome
<1>1. IInv => OneOutcome
  BY DEF IInv
<1> QED
  BY <1>1, Invariance, PTL

\* A destination in flight was really sent the request, its timeout, if it has one, is in
\* the heap of a timer that runs, and in sequential mode it is the one sent last.
THEOREM FlightsAreAccounted == Spec => []FlightsAccounted
<1>1. IInv => FlightsAccounted
  <2> SUFFICES ASSUME IInv, NEW r \in Tracked, NEW i \in Dests, inflight[r].status[i] = "InFlight"
               PROVE  /\ <<r, i>> \in sent
                      /\ config.timeout[i] => <<r, i>> \in heap \cup due /\ timer_started
                      /\ Sequential => i = inflight[r].next_send
    BY DEF FlightsAccounted
  <2>1. EntrySound(inflight[r], Of(sent, r), Of(awaited, r), Of(heap \cup due, r), Of(acked, r), Of(failed, r))
    BY DEF IInv, EntriesSound
  <2>2. i \in Of(sent, r) /\ (config.timeout[i] => i \in Of(heap \cup due, r))
    BY <2>1 DEF EntrySound
  <2>3. config.timeout[i] => timer_started
    BY DEF IInv, PathsApart
  <2>4. Sequential => i = inflight[r].next_send
    BY <2>1 DEF EntrySound
  <2> QED
    BY <2>2, <2>3, <2>4 DEF Of
<1> QED
  BY <1>1, Invariance, PTL

\* The upstream Ack is what the destinations said, whatever the configuration: every awaited
\* origin was acknowledged by a member of its chain.
THEOREM AcksAreJustified == Spec => []AckJustified
<1>1. IInv => AckJustified
  BY DEF IInv
<1> QED
  BY <1>1, Invariance, PTL

\* Both outcomes are what the destinations said when, in sequential mode, every fallback is
\* listed after its destination.
THEOREM OutcomesAreJustified == Spec => [](Regular => OutcomeJustified)
<1>1. IInv => (Regular => OutcomeJustified)
  BY DEF IInv
<1> QED
  BY <1>1, Invariance, PTL

\* Under the same condition a fallback is sent only after its destination failed.
THEOREM FallbacksAreTriggered == Spec => [](Regular => FallbackOnlyWhenTriggered)
<1>1. IInv => (Regular => FallbackOnlyWhenTriggered)
  BY DEF IInv
<1> QED
  BY <1>1, Invariance, PTL

----------------------------------------------------------------------------
(* No request is forgotten: the safety half of RequestResolves.            *)

\* Sequential mode that awaits the primary sends to it first.
PrimaryFirst == Sequential /\ config.await_ack = "Primary" => primary_index = Least(Origins)

\* One entry against the answers aw that are still to come: those that count are awaited; of
\* the chain of an awaited origin somebody is in flight or completed it, or it is queued;
\* sequential mode is never idle; and the outcome is still open.
Waiting(e, aw) ==
  /\ \A i \in Dests : Counts(i) /\ e.status[i] = "InFlight" => i \in aw
  /\ \A o \in Awaited :
       \/ o \in e.completed_origins
       \/ \E i \in Chain(o) : e.status[i] = "InFlight"
       \/ Sequential /\ config.await_ack = "All" /\ e.status[o] = "PendingSend"
  /\ Sequential => \E i \in Dests : e.status[i] = "InFlight"
  /\ \E o \in Awaited : o \notin e.completed_origins
  /\ config.await_ack = "Primary" => e.completed_origins = {}

EntriesWaiting ==
  /\ \A r \in Tracked : Waiting(inflight[r], Of(awaited, r))
  /\ \A r \in slim_inflight : <<r, primary_index>> \in awaited

\* The awaited origins, policy by policy.
LEMMA AwaitedIs ==
  ASSUME Valid
  PROVE  /\ config.await_ack = "All" => Awaited = Origins
         /\ config.await_ack = "Primary" => Awaited = {primary_index}
         /\ config.await_ack = "None" => Awaited = {}
         /\ config.await_ack \in {"Primary", "All", "None"}
         /\ Awaited \subseteq Origins /\ Origins \subseteq Dests
<1>1. config.await_ack \in {"Primary", "All", "None"} /\ primary_index \in Origins
  BY ConfigFields, PrimaryIsOrigin
<1>2. /\ config.await_ack = "All" => Awaited = Origins
      /\ config.await_ack = "Primary" => Awaited = {primary_index}
      /\ config.await_ack = "None" => Awaited = {}
  BY DEF Awaited
<1> QED
  BY <1>1, <1>2 DEF Origins

\* Somebody decides about an entry that is waiting.
LEMMA SomebodyDecides ==
  ASSUME Valid, NEW e, NEW aw, Waiting(e, aw)
  PROVE  \E i \in Dests : Counts(i) /\ e.status[i] = "InFlight" /\ i \in aw
<1>1. PICK o \in Awaited : o \notin e.completed_origins
  BY DEF Waiting
<1>2. \/ \E i \in Chain(o) : e.status[i] = "InFlight"
      \/ Sequential /\ config.await_ack = "All"
  BY <1>1 DEF Waiting
<1>3. \E i \in Dests : Counts(i) /\ e.status[i] = "InFlight"
  <2>1. CASE config.await_ack = "All"
    <3>1. \A i \in Dests : Counts(i)
      BY <2>1 DEF Counts
    <3> QED
      BY <1>2, <3>1 DEF Waiting, Chain
  <2>2. CASE config.await_ack # "All"
    <3>1. o = primary_index
      BY <2>2, AwaitedIs
    <3>2. PICK i \in Chain(o) : e.status[i] = "InFlight"
      BY <1>2, <2>2
    <3> QED
      BY <3>1, <3>2 DEF Chain, Counts
  <2> QED
    BY <2>1, <2>2
<1> QED
  BY <1>3 DEF Waiting

\* Only the statuses, the completed origins and the answers to come matter.
LEMMA SameWaiting ==
  ASSUME NEW e, NEW d, NEW aw, NEW aw2, Waiting(e, aw), d.status = e.status,
         d.completed_origins = e.completed_origins, aw \subseteq aw2
  PROVE  Waiting(d, aw2)
BY DEF Waiting

\* In sequential mode the one destination in flight belongs to the chain of an awaited
\* origin, so what happens to it counts.
LEMMA SequentialCounts ==
  ASSUME Valid, NEW e, NEW aw, Waiting(e, aw), Sequential,
         \A j \in Dests : e.status[j] = "InFlight" => j = e.next_send,
         NEW i \in Dests, e.status[i] = "InFlight"
  PROVE  Counts(i)
<1> SUFFICES ASSUME config.await_ack = "Primary" PROVE Origin(i) = primary_index
  BY DEF Counts
<1>1. primary_index \in Awaited
  BY AwaitedIs
<1>2. PICK j \in Chain(primary_index) : e.status[j] = "InFlight"
  BY <1>1 DEF Waiting
<1>3. j = i /\ Origin(j) = primary_index
  BY <1>2 DEF Chain
<1> QED
  BY <1>3

\* A failure whose fallbacks are all triggered leaves an entry waiting.
LEMMA FailureWaiting ==
  ASSUME Valid, NEW e \in Entries, NEW aw, Waiting(e, aw),
         Sequential => \A j \in Dests : e.status[j] = "InFlight" => j = e.next_send,
         NEW F, F \subseteq Dests, \A i \in F : e.status[i] = "InFlight",
         \A i \in F : Counts(i) => FallbackReady(e, i),
         NEW how \in Failed, NEW aw2, aw \ F \subseteq aw2
  PROVE  Waiting(handle_failure(e, F, how), aw2 \cup TriggeredBy(e, F))
<1> DEFINE T == TriggeredBy(e, F)
           m == handle_failure(e, F, how)
<1>1. /\ m.status = [i \in Dests |-> IF i \in F THEN how ELSE IF i \in T THEN "InFlight" ELSE e.status[i]]
      /\ m.completed_origins = e.completed_origins
  BY FailureEffect
<1>2. T \subseteq Dests /\ \A f \in T : config.fallback_for[f] \in F /\ e.status[f] = "PendingSend"
  BY DEF TriggeredBy
<1>3. T \cap F = {}
  BY <1>2
<1>4. ASSUME NEW i \in F, Counts(i)
      PROVE  \E f \in T : Origin(f) = Origin(i)
  <2>1. PICK f \in Dests : config.fallback_for[f] = i /\ e.status[f] = "PendingSend"
    BY <1>4 DEF FallbackReady
  <2>2. f \in T
    BY <2>1 DEF TriggeredBy
  <2>3. IsFallback(f)
    BY <2>1, ConfigFields DEF IsFallback
  <2> QED
    BY <2>1, <2>2, <2>3, OriginOf
<1> HIDE DEF T, m
<1>5. /\ \A i \in F : m.status[i] # "InFlight"
      /\ \A i \in T : m.status[i] = "InFlight"
      /\ \A i \in Dests : i \notin F /\ i \notin T => m.status[i] = e.status[i]
  BY <1>1, <1>2, <1>3 DEF Failed
<1>6. ASSUME NEW i \in Dests, Counts(i), m.status[i] = "InFlight" PROVE i \in aw2 \cup T
  BY <1>5, <1>6 DEF Waiting
<1>7. ASSUME NEW o \in Awaited, o \notin e.completed_origins
      PROVE  \/ \E i \in Chain(o) : m.status[i] = "InFlight"
             \/ Sequential /\ config.await_ack = "All" /\ m.status[o] = "PendingSend"
  <2>1. CASE \E i \in Chain(o) : e.status[i] = "InFlight"
    <3>1. PICK i \in Chain(o) : e.status[i] = "InFlight"
      BY <2>1
    <3>2. i \in Dests /\ Origin(i) = o
      BY <3>1 DEF Chain
    <3>3. Counts(i)
      BY <3>2, <1>7, AwaitedIs DEF Counts
    <3>4. CASE i \in F
      <4>1. PICK f \in T : Origin(f) = o
        BY <1>4, <3>2, <3>3, <3>4
      <4> QED
        BY <4>1, <1>2, <1>5 DEF Chain
    <3>5. CASE i \notin F
      BY <3>1, <3>2, <3>5, <1>5
    <3> QED
      BY <3>4, <3>5
  <2>2. CASE Sequential /\ config.await_ack = "All" /\ e.status[o] = "PendingSend"
    <3>1. o \in Dests /\ ~IsFallback(o)
      BY <1>7, AwaitedIs DEF Origins
    <3>2. o \in Chain(o)
      BY <3>1, OriginOf DEF Chain
    <3> QED
      BY <2>2, <3>1, <3>2, <1>5
  <2> QED
    BY <1>7, <2>1, <2>2 DEF Waiting
<1>8. ASSUME Sequential PROVE \E i \in Dests : m.status[i] = "InFlight"
  <2>1. PICK i \in Dests : e.status[i] = "InFlight"
    BY <1>8 DEF Waiting
  <2>2. Counts(i)
    BY <1>8, <2>1, SequentialCounts
  <2>3. CASE i \in F
    BY <2>2, <2>3, <1>2, <1>4, <1>5
  <2>4. CASE i \notin F
    BY <2>1, <2>4, <1>5
  <2> QED
    BY <2>3, <2>4
<1> QED
  BY <1>1, <1>6, <1>7, <1>8 DEF Waiting, m, T

\* An Ack that is not the last one wanted leaves an entry waiting: sequential mode has
\* another destination to move on to.
LEMMA AckWaiting ==
  ASSUME Valid, NEW e \in Entries, NEW aw, Waiting(e, aw),
         Sequential => \A j \in Dests : e.status[j] = "InFlight" => j = e.next_send,
         \A j \in Dests : e.status[j] = "PendingSend" => e.payload[j],
         NEW i \in Dests, e.status[i] = "InFlight",
         ~(config.await_ack = "Primary" /\ Origin(i) = primary_index),
         NEW C, C = (IF config.await_ack = "All" THEN e.completed_origins \cup {Origin(i)}
                     ELSE e.completed_origins),
         config.await_ack = "All" => C # Origins,
         NEW d, d.status = AckEntry(e, i).status, d.completed_origins = C,
         NEW aw2, aw \ {i} \subseteq aw2, Sequential => ReadyToSend(AckEntry(e, i)) \subseteq aw2
  PROVE  Waiting(d, aw2)
<1> DEFINE m == AckEntry(e, i)
           K == SkippedBy(e, i)
           Q == {j \in Dests : j # i /\ j \notin K /\ e.status[j] = "PendingSend" /\ e.payload[j]}
           nx == IF e.next_send = i THEN 0 ELSE e.next_send
           p == Least(Q)
           moved == Sequential /\ nx = 0 /\ Q # {}
<1>1. /\ m \in Entries /\ m.completed_origins = e.completed_origins
      /\ \A j \in Dests : m.payload[j] <=> e.payload[j] /\ j \notin K
      /\ \A j \in Dests : m.status[j] = IF j = i THEN "Acked"
                                        ELSE IF j \in K THEN "Skipped"
                                        ELSE IF moved /\ j = p THEN "InFlight"
                                        ELSE e.status[j]
      /\ m.next_send = IF moved THEN p ELSE nx
      /\ Q # {} => p \in Q /\ \A j \in Q : p <= j
  BY ONLY Valid, e \in Entries, i \in Dests, AckEffect
<1>2. \A j \in K : j \in Dests /\ IsFallback(j) /\ e.status[j] = "PendingSend"
  BY DEF SkippedBy, Chain
<1>3. \A j \in Q : j \in Dests /\ j # i /\ j \notin K /\ e.status[j] = "PendingSend" /\ e.payload[j]
  OBVIOUS
<1>4. \A j \in Dests : j # i /\ j \notin K /\ e.status[j] = "PendingSend" => j \in Q
  OBVIOUS
<1>5. Sequential => nx = 0
  OBVIOUS
<1> HIDE DEF m, K, Q, nx, p
<1>6. moved <=> Sequential /\ Q # {}
  BY <1>5
<1>7. moved => p \in Dests /\ m.status[p] = "InFlight" /\ p \in aw2
  <2> SUFFICES ASSUME moved PROVE p \in Dests /\ m.status[p] = "InFlight" /\ p \in aw2
    OBVIOUS
  <2>1. p \in Dests /\ p # i /\ p \notin K /\ e.payload[p]
    BY <1>1, <1>3
  <2>2. m.status[p] = "InFlight" /\ m.payload[p] /\ m.next_send = p
    BY <1>1, <2>1
  <2>3. p \in ReadyToSend(m)
    BY <2>1, <2>2 DEF ReadyToSend
  <2> QED
    BY <2>1, <2>2, <2>3 DEF m
<1>8. \A j \in Dests : m.status[j] = "InFlight" => j # i /\ (e.status[j] = "InFlight" \/ (moved /\ j = p))
  BY <1>1
<1>9. \A j \in Dests : e.status[j] = "InFlight" /\ j # i => m.status[j] = "InFlight"
  BY <1>1, <1>2
<1>10. d.status = m.status /\ d.completed_origins = C /\ e.completed_origins \subseteq C
       /\ (config.await_ack = "All" => Origin(i) \in C)
       /\ (config.await_ack = "Primary" => C = e.completed_origins)
  BY DEF m
<1>11. config.await_ack = "All" => e.completed_origins \cup {Origin(i)} \subseteq Origins
  BY OriginAtDepth DEF Entries
<1>12. \E o \in Awaited : o \notin C
  <2>1. CASE config.await_ack = "All"
    BY <2>1, <1>11, AwaitedIs
  <2>2. CASE config.await_ack # "All"
    BY <2>2 DEF Waiting
  <2> QED
    BY <2>1, <2>2
<1>13. ASSUME NEW j \in Dests, Counts(j), d.status[j] = "InFlight" PROVE j \in aw2
  BY <1>7, <1>8, <1>10, <1>13 DEF Waiting
<1>14. ASSUME NEW o \in Awaited, o \notin C
       PROVE  \/ \E j \in Chain(o) : m.status[j] = "InFlight"
              \/ moved /\ config.await_ack = "All" /\ m.status[o] = "PendingSend"
  <2>1. CASE \E j \in Chain(o) : e.status[j] = "InFlight"
    <3>1. PICK j \in Chain(o) : e.status[j] = "InFlight"
      BY <2>1
    <3>2. j \in Dests /\ Origin(j) = o
      BY <3>1 DEF Chain
    <3>3. j # i
      BY <3>2, <1>10, <1>14, AwaitedIs
    <3> QED
      BY <3>1, <3>2, <3>3, <1>9
  <2>2. CASE Sequential /\ config.await_ack = "All" /\ e.status[o] = "PendingSend"
    <3>1. o \in Dests /\ ~IsFallback(o)
      BY <1>14, AwaitedIs DEF Origins
    <3>2. o \in Chain(o)
      BY <3>1, OriginOf DEF Chain
    <3>3. o # i /\ o \notin K /\ o \in Q
      BY <2>2, <3>1, <1>2, <1>4
    <3>4. moved
      BY <2>2, <3>3, <1>6
    <3>5. CASE o = p
      BY <3>2, <3>4, <3>5, <1>7
    <3>6. CASE o # p
      BY <2>2, <3>1, <3>3, <3>4, <3>6, <1>1
    <3> QED
      BY <3>5, <3>6
  <2>3. o \notin e.completed_origins
    BY <1>10, <1>14
  <2> QED
    BY <2>1, <2>2, <2>3 DEF Waiting
<1>15. ASSUME Sequential PROVE \E j \in Dests : m.status[j] = "InFlight"
  <2>1. PICK o \in Awaited : o \notin C
    BY <1>12
  <2>2. \/ \E j \in Chain(o) : m.status[j] = "InFlight"
        \/ moved
    BY <2>1, <1>14
  <2> QED
    BY <2>2, <1>7 DEF Chain
<1>16. config.await_ack = "Primary" => C = {}
  BY <1>10 DEF Waiting
<1> QED
  BY <1>6, <1>10, <1>12, <1>13, <1>14, <1>15, <1>16 DEF Waiting

\* A new request waits for its awaited origins, the primary included.
LEMMA NewWaiting ==
  ASSUME Valid, ~use_fire_and_forget, PrimaryFirst
  PROVE  Waiting(Dispatched(NewInflight), ReadyToSend(NewInflight))
<1> DEFINE first == Least(Origins)
           ready == IF Sequential THEN {first} ELSE Origins
           e == NewInflight
<1>1. EntrySound(Dispatched(e), ReadyToSend(e), ReadyToSend(e), Timed(ReadyToSend(e)), {}, {})
  BY NewSound
<1>2. Origins \subseteq Dests /\ first \in Origins /\ primary_index \in Origins /\ Origins \subseteq Nat
  <2>1. Origins \subseteq Dests /\ Dests \subseteq Nat
    BY ConfigFields DEF Origins
  <2> QED
    BY <2>1, PrimaryIsOrigin, LeastOf
<1>3. /\ e.status = [i \in Dests |-> IF i \in ready THEN "InFlight" ELSE "PendingSend"]
      /\ e.completed_origins = {}
  BY Zenon DEF NewInflight
<1>4. e \in Entries
  <2> DEFINE st == [i \in Dests |-> IF i \in ready THEN "InFlight" ELSE "PendingSend"]
             pl == [i \in Dests |-> TRUE]
             nx == IF Sequential THEN first ELSE 0
  <2>1. e = [status |-> st, payload |-> pl, completed_origins |-> {}, next_send |-> nx]
    BY Zenon DEF NewInflight
  <2>2. st \in [Dests -> Statuses] /\ pl \in [Dests -> BOOLEAN] /\ nx \in Dests \cup {0}
    BY <1>2 DEF Statuses
  <2> HIDE DEF st, pl, nx
  <2> QED
    BY <2>1, <2>2 DEF Entries
<1>5. Dispatched(e).status = e.status /\ Dispatched(e).completed_origins = {}
  BY <1>3, <1>4, DispatchEffect
<1> DEFINE x == Dispatched(e)
<1> HIDE DEF e, first, x
<1>6. x.status = e.status /\ x.completed_origins = {} /\ \A i \in Dests : x.status[i] = "InFlight" => i \in ReadyToSend(e)
  BY <1>1, <1>5 DEF x, EntrySound
<1>7. \A i \in Dests : x.status[i] = IF i \in ready THEN "InFlight" ELSE "PendingSend"
  BY <1>3, <1>6
<1>8. \A o \in Origins : o \in Chain(o)
  BY <1>2, OriginOf DEF Origins, Chain
<1>9. Awaited # {}
  BY <1>2, AwaitedIs DEF use_fire_and_forget
<1>10. ASSUME NEW o \in Awaited
       PROVE  \/ \E i \in Chain(o) : x.status[i] = "InFlight"
              \/ Sequential /\ config.await_ack = "All" /\ x.status[o] = "PendingSend"
  <2>1. o \in Origins /\ o \in Dests /\ o \in Chain(o)
    BY <1>2, <1>8, AwaitedIs
  <2>2. o \in ready \/ (Sequential /\ config.await_ack = "All")
    <3>1. CASE Sequential
      BY <3>1, AwaitedIs, <1>9 DEF PrimaryFirst, first
    <3>2. CASE ~Sequential
      BY <2>1, <3>2
    <3> QED
      BY <3>1, <3>2
  <2> QED
    BY <2>1, <2>2, <1>7
<1>11. Sequential => \E i \in Dests : x.status[i] = "InFlight"
  BY <1>2, <1>7
<1>12. Waiting(x, ReadyToSend(e))
  BY <1>6, <1>9, <1>10, <1>11 DEF Waiting
<1> QED
  BY <1>12 DEF x, e

\* EntriesWaiting after a step, told with the definitions of the state before it.
LEMMA WaitingAfter ==
  ASSUME config' = config, Valid,
         \A r \in DOMAIN inflight' : Waiting(inflight'[r], Of(awaited', r)),
         \A r \in slim_inflight' : <<r, primary_index>> \in awaited'
  PROVE  EntriesWaiting'
<1>1. /\ Dests' = Dests /\ Awaited' = Awaited /\ primary_index' = primary_index
      /\ \A i : Origin(i)' = Origin(i)
      /\ \A o : Chain(o)' = Chain(o)
      /\ (Sequential' <=> Sequential)
  BY SameConfig
<1>2. \A i : Counts(i)' <=> Counts(i)
  BY <1>1 DEF Counts
<1> SUFFICES ASSUME NEW r \in DOMAIN inflight' PROVE Waiting(inflight[r], Of(awaited, r))'
  BY <1>1 DEF EntriesWaiting, Tracked
<1>3. PICK e, aw : e = inflight'[r] /\ aw = Of(awaited', r)
  OBVIOUS
<1>4. Waiting(e, aw)
  BY <1>3
<1>5. Waiting(e, aw)'
  BY ONLY <1>1, <1>2, <1>4, config' = config DEF Waiting
<1>6. aw = Of(awaited, r)'
  BY <1>1, <1>3 DEF Of
<1> QED
  BY ONLY <1>3, <1>5, <1>6, <1>1 DEF Waiting

\* The facts about the entry of request r that its answers need.
LEMMA EntryFacts ==
  ASSUME IInv, NEW r \in Tracked
  PROVE  LET e == inflight[r]
         IN /\ e \in Entries
            /\ Sequential => \A j \in Dests : e.status[j] = "InFlight" => j = e.next_send
            /\ \A j \in Dests : e.status[j] = "PendingSend" => e.payload[j]
<1> DEFINE e == inflight[r]
<1>1. EntrySound(e, Of(sent, r), Of(awaited, r), Of(heap \cup due, r), Of(acked, r), Of(failed, r))
  BY DEF IInv, EntriesSound
<1> HIDE DEF e
<1>2. /\ e \in Entries
      /\ Sequential => \A j \in Dests : e.status[j] = "InFlight" => j = e.next_send
      /\ \A j \in Dests : e.status[j] = "PendingSend" => e.payload[j]
  BY ONLY <1>1 DEF EntrySound
<1> QED
  BY ONLY <1>2 DEF e

\* An answer of destination i for request r (process_ack, process_nack) that is followed by
\* the sends N: only the entry of r has to be looked at.
LEMMA AnswerWaiting ==
  ASSUME IInv, EntriesWaiting, NEW r, NEW i, NEW N, N \subseteq Dests,
         config' = config, slim_inflight' = slim_inflight, ~use_slim_primary,
         awaited' = (awaited \ {<<r, i>>}) \cup Sends(r, N),
         DOMAIN inflight' \subseteq Tracked,
         \A q \in DOMAIN inflight' \ {r} : inflight'[q] = inflight[q],
         r \in DOMAIN inflight' => Waiting(inflight'[r], (Of(awaited, r) \ {i}) \cup N)
  PROVE  EntriesWaiting'
<1>1. Valid /\ slim_inflight' = {}
  BY InvFacts DEF IInv, PathsApart
<1>2. Of(awaited', r) = (Of(awaited, r) \ {i}) \cup N
  BY SendsOf DEF Of
<1>3. \A q : q # r => Of(awaited', q) = Of(awaited, q)
  BY SendsOf DEF Of
<1>4. ASSUME NEW q \in DOMAIN inflight' PROVE Waiting(inflight'[q], Of(awaited', q))
  <2>1. CASE q = r
    BY <2>1, <1>2
  <2>2. CASE q # r
    BY <2>2, <1>3 DEF EntriesWaiting
  <2> QED
    BY <2>1, <2>2
<1> QED
  BY ONLY config' = config, <1>1, <1>4, WaitingAfter

\* process_nack forgets no request: what does not count changes no status that counts, and
\* what counts is refused or has its fallback sent.
LEMMA NackWaits ==
  ASSUME IInv, EntriesWaiting, NEW r \in Requests, NEW i \in Dests, process_nack(r, i)
  PROVE  EntriesWaiting'
<1> DEFINE e == inflight[r]
           m == handle_failure(e, {i}, "Nacked")
           T == TriggeredBy(e, {i})
           aw2 == Of(awaited, r) \ {i}
<1>1. /\ ~use_slim_primary /\ <<r, i>> \in awaited
      /\ config' = config /\ slim_inflight' = slim_inflight
  BY DEF process_nack
<1>2. Valid /\ Sends(r, {}) = {} /\ {} \subseteq Dests
  BY InvFacts DEF Sends
<1>3. CASE ~NackCounts(r, i)
  <2>1. awaited' = awaited \ {<<r, i>>} /\ inflight' = inflight
    BY <1>3, Zenon DEF process_nack, Answered
  <2>2. r \in Tracked => Waiting(e, aw2)
    <3> SUFFICES ASSUME r \in Tracked PROVE Waiting(e, aw2)
      OBVIOUS
    <3>1. Waiting(e, Of(awaited, r))
      BY DEF EntriesWaiting
    <3>2. e.status[i] = "TimedOut" \/ ~Counts(i)
      BY <1>3 DEF NackCounts
    <3> HIDE DEF e
    <3> QED
      BY <3>1, <3>2 DEF Waiting
  <2>3. awaited' = (awaited \ {<<r, i>>}) \cup Sends(r, {})
    BY <1>2, <2>1
  <2>4. aw2 = aw2 \cup {}
    OBVIOUS
  <2> QED
    BY <1>1, <1>2, <2>1, <2>2, <2>3, <2>4, AnswerWaiting DEF Tracked
<1>4. CASE NackCounts(r, i)
  <2>1. r \in Tracked /\ e.status[i] # "TimedOut" /\ Counts(i)
    BY <1>4 DEF NackCounts
  <2>2. e.status[i] = "InFlight"
    BY <1>1, <2>1, AwaitedInFlight
  <2>3. /\ e \in Entries /\ Waiting(e, Of(awaited, r))
        /\ Sequential => \A j \in Dests : e.status[j] = "InFlight" => j = e.next_send
    BY <2>1, EntryFacts DEF EntriesWaiting
  <2>4. EntrySound(e, Of(sent, r), Of(awaited, r), Of(heap \cup due, r), Of(acked, r), Of(failed, r))
    BY <2>1 DEF IInv, EntriesSound
  <2>5. CASE FallbackReady(e, i)
    <3>1. T # {} /\ T \subseteq Dests
      BY <2>5 DEF TriggeredBy, FallbackReady
    <3>2. ReadyToSend(m) = T
      <4> DEFINE F == {i}
                 dl == Of(heap \cup due, r)
                 how == "Nacked"
                 f2 == Of(awaited, r) \ {i}
      <4>1. Of(awaited, r) \cup Of(acked, r) \cup Of(failed, r) \subseteq Of(sent, r)
        BY HistoryOf
      <4>2. FailureCase(e, Of(sent, r), Of(awaited, r), dl, Of(acked, r), Of(failed, r), F, how, f2, dl)
        BY <2>2, <2>4, <4>1 DEF FailureCase, Failed
      <4> HIDE DEF F, f2, dl, how, e
      <4>3. FailureResult(e, Of(sent, r), f2, dl, Of(acked, r), Of(failed, r), F, how)
        BY <1>2, <4>2, FailureSound
      <4> QED
        BY <3>1, <4>3 DEF FailureResult, F, how
    <3>3. /\ awaited' = (awaited \ {<<r, i>>}) \cup {<<r, j>> : j \in ReadyToSend(m)}
          /\ inflight' = [inflight EXCEPT ![r] = Dispatched(m)]
      BY <1>4, <2>5, Zenon DEF process_nack
    <3>4. Waiting(m, aw2 \cup T)
      <4> DEFINE F == {i}
                 how == "Nacked"
      <4>1. /\ F \subseteq Dests /\ (\A j \in F : e.status[j] = "InFlight") /\ how \in Failed
            /\ (\A j \in F : Counts(j) => FallbackReady(e, j)) /\ Of(awaited, r) \ F \subseteq aw2
        BY <2>2, <2>5 DEF Failed
      <4> HIDE DEF F, how, aw2, e
      <4>2. Waiting(handle_failure(e, F, how), aw2 \cup TriggeredBy(e, F))
        BY <1>2, <2>3, <4>1, FailureWaiting
      <4> QED
        BY <4>2 DEF F, how
    <3>5. m \in Entries
      <4> DEFINE F == {i}
                 how == "Nacked"
      <4>1. F \subseteq Dests /\ how \in Failed
        BY DEF Failed
      <4> HIDE DEF F, how, e
      <4>2. handle_failure(e, F, how) \in Entries
        BY <1>2, <2>3, <4>1, FailureEffect
      <4> QED
        BY <4>2 DEF F, how
    <3> HIDE DEF m, T, aw2
    <3>6. Waiting(Dispatched(m), aw2 \cup T)
      BY <3>4, <3>5, DispatchEffect, SameWaiting
    <3>7. awaited' = (awaited \ {<<r, i>>}) \cup Sends(r, T)
      BY <3>2, <3>3 DEF Sends
    <3>8. /\ DOMAIN inflight' = Tracked /\ (\A q \in Tracked \ {r} : inflight'[q] = inflight[q])
          /\ inflight'[r] = Dispatched(m)
      BY <2>1, <3>3 DEF Tracked
    <3> QED
      BY <1>1, <3>1, <3>6, <3>7, <3>8, AnswerWaiting DEF aw2
  <2>6. CASE ~FallbackReady(e, i)
    <3>1. inflight' = Without({r}) /\ awaited' = awaited \ {<<r, i>>}
      BY <1>4, <2>6, Zenon DEF process_nack, Answered
    <3>2. /\ DOMAIN inflight' = Tracked \ {r} /\ r \notin DOMAIN inflight'
          /\ \A q \in Tracked \ {r} : inflight'[q] = inflight[q]
      BY <3>1 DEF Without
    <3>3. awaited' = (awaited \ {<<r, i>>}) \cup Sends(r, {})
      BY <1>2, <3>1
    <3> QED
      BY <1>1, <1>2, <3>2, <3>3, AnswerWaiting
  <2> QED
    BY <2>5, <2>6
<1> QED
  BY <1>3, <1>4

\* process_ack forgets no request: unless it was the last Ack wanted, somebody else is in
\* flight or sequential mode moves on.
LEMMA AckWaits ==
  ASSUME IInv, EntriesWaiting, NEW r \in Requests, NEW i \in Dests, process_ack(r, i)
  PROVE  EntriesWaiting'
<1> DEFINE e == inflight[r]
           m == AckEntry(e, i)
           o == Origin(i)
           primaryDone == config.await_ack = "Primary" /\ o = primary_index
           ready == IF Sequential /\ ~primaryDone THEN ReadyToSend(m) ELSE {}
           completed == m.completed_origins \cup {o}
           done == primaryDone \/ (config.await_ack = "All" /\ Cardinality(completed) >= required_origins)
           d == IF Sequential THEN Dispatched(m) ELSE m
           C == IF config.await_ack = "All" THEN completed ELSE m.completed_origins
           x == [d EXCEPT !.completed_origins = C]
           aw2 == Of(awaited, r) \ {i}
<1>1. /\ ~use_slim_primary /\ <<r, i>> \in awaited
      /\ config' = config /\ slim_inflight' = slim_inflight
  BY DEF process_ack
<1>2. Valid /\ Sends(r, {}) = {} /\ {} \subseteq Dests
  BY InvFacts DEF Sends
<1>3. CASE ~AckCounts(r, i)
  <2>1. awaited' = awaited \ {<<r, i>>} /\ inflight' = inflight
    BY <1>3, Zenon DEF process_ack, Answered
  <2>2. r \in Tracked => Waiting(e, aw2)
    <3> SUFFICES ASSUME r \in Tracked PROVE Waiting(e, aw2)
      OBVIOUS
    <3>1. Waiting(e, Of(awaited, r))
      BY DEF EntriesWaiting
    <3>2. e.status[i] # "InFlight"
      BY <1>3 DEF AckCounts
    <3> HIDE DEF e
    <3> QED
      BY <3>1, <3>2 DEF Waiting
  <2>3. awaited' = (awaited \ {<<r, i>>}) \cup Sends(r, {})
    BY <1>2, <2>1
  <2>4. aw2 = aw2 \cup {}
    OBVIOUS
  <2> QED
    BY <1>1, <1>2, <2>1, <2>2, <2>3, <2>4, AnswerWaiting DEF Tracked
<1>4. CASE AckCounts(r, i)
  <2>1. r \in Tracked /\ e.status[i] # "TimedOut"
    BY <1>4 DEF AckCounts
  <2>2. e.status[i] = "InFlight"
    BY <1>1, <2>1, AwaitedInFlight
  <2>3. /\ e \in Entries /\ Waiting(e, Of(awaited, r))
        /\ Sequential => \A j \in Dests : e.status[j] = "InFlight" => j = e.next_send
        /\ \A j \in Dests : e.status[j] = "PendingSend" => e.payload[j]
    BY <2>1, EntryFacts DEF EntriesWaiting
  <2>4. /\ awaited' = (awaited \ {<<r, i>>}) \cup {<<r, j>> : j \in ready}
        /\ IF done THEN inflight' = Without({r}) /\ Notify({r}, "Ack")
           ELSE inflight' = [inflight EXCEPT ![r] = x] /\ upstream' = upstream
    BY <1>4, Zenon DEF process_ack
  <2>5. ready \subseteq Dests /\ (~primaryDone => (Sequential => ReadyToSend(m) \subseteq ready))
    BY DEF ReadyToSend
  <2>6. m \in Entries /\ m.completed_origins = e.completed_origins
    BY ONLY <1>2, <2>3, i \in Dests, AckEffect DEF m
  <2>7. d \in Entries /\ d.status = m.status
    <3> HIDE DEF m
    <3> QED
      BY <2>6, DispatchEffect
  <2> HIDE DEF m, ready, d, C
  <2>8. x.status = m.status /\ x.completed_origins = C
    BY <2>7 DEF Entries
  <2>9. CASE done
    <3>1. inflight' = Without({r})
      BY <2>4, <2>9
    <3>2. /\ DOMAIN inflight' = Tracked \ {r} /\ r \notin DOMAIN inflight'
          /\ \A q \in Tracked \ {r} : inflight'[q] = inflight[q]
      BY <3>1 DEF Without
    <3>3. awaited' = (awaited \ {<<r, i>>}) \cup Sends(r, ready)
      BY <2>4 DEF Sends
    <3> QED
      BY <1>1, <2>5, <3>2, <3>3, AnswerWaiting
  <2>10. CASE ~done
    <3>1. inflight' = [inflight EXCEPT ![r] = x]
      BY <2>4, <2>10
    <3>2. C = IF config.await_ack = "All" THEN e.completed_origins \cup {Origin(i)} ELSE e.completed_origins
      BY <2>6 DEF C
    <3>3. config.await_ack = "All" => C # Origins
      <4> SUFFICES ASSUME config.await_ack = "All", C = Origins PROVE FALSE
        OBVIOUS
      <4>1. completed = Origins
        BY DEF C
      <4>2. IsFiniteSet(Origins)
        BY <1>2, ConfigFields, FS_Subset DEF Origins
      <4>3. Cardinality(Origins) \in Nat
        BY <4>2, FS_CardinalityType
      <4>4. Cardinality(completed) >= required_origins
        <5> HIDE DEF completed
        <5>1. Cardinality(completed) = Cardinality(Origins)
          BY ONLY <4>1
        <5>2. \A n \in Nat : n >= n
          OBVIOUS
        <5> QED
          BY ONLY <4>3, <5>1, <5>2 DEF required_origins
      <4> QED
        BY <2>10, <4>4
    <3>4. Waiting(x, aw2 \cup ready)
      <4> DEFINE aw == Of(awaited, r)
                 af == aw2 \cup ready
      <4>1. aw \ {i} \subseteq af /\ (Sequential => ReadyToSend(AckEntry(e, i)) \subseteq af)
        BY <2>5, <2>10 DEF m
      <4>2. x.status = AckEntry(e, i).status
        BY <2>8 DEF m
      <4>3. ~(config.await_ack = "Primary" /\ Origin(i) = primary_index)
        BY <2>10
      <4>4. Waiting(e, aw)
        BY <2>3
      <4> HIDE DEF e, x, aw, af
      <4>5. Waiting(x, af)
        BY ONLY <1>2, i \in Dests, <2>2, <2>3, <2>8, <3>2, <3>3, <4>1, <4>2, <4>3, <4>4, AckWaiting
      <4> QED
        BY <4>5 DEF af
    <3>5. /\ DOMAIN inflight' = Tracked /\ (\A q \in Tracked \ {r} : inflight'[q] = inflight[q])
          /\ inflight'[r] = x
      BY <2>1, <3>1 DEF Tracked
    <3>6. awaited' = (awaited \ {<<r, i>>}) \cup Sends(r, ready)
      BY <2>4 DEF Sends
    <3> HIDE DEF x
    <3> QED
      BY <1>1, <2>5, <3>4, <3>5, <3>6, AnswerWaiting
  <2> QED
    BY <2>9, <2>10
<1> QED
  BY <1>3, <1>4

\* process_full starts with the awaited origins, and the others are left alone.
LEMMA FullWaits ==
  ASSUME IInv, EntriesWaiting, PrimaryFirst, process_full
  PROVE  EntriesWaiting'
<1> DEFINE S == ReadyToSend(NewInflight)
           x == Dispatched(NewInflight)
<1>1. /\ ~use_fire_and_forget /\ ~use_slim_primary
      /\ inflight' = [r \in Tracked \cup {next_id} |-> IF r = next_id THEN x ELSE inflight[r]]
      /\ config' = config /\ slim_inflight' = slim_inflight
      /\ awaited' = awaited \cup Sends(next_id, S)
  BY DEF process_full, SendAll, Sends
<1>2. Valid /\ slim_inflight' = {} /\ S \subseteq Dests
  BY <1>1, InvFacts DEF IInv, PathsApart, ReadyToSend
<1>3. Waiting(x, S)
  BY <1>1, <1>2, NewWaiting
<1>4. Of(awaited, next_id) = {} /\ next_id \notin Tracked
  BY NextIsFresh DEF Live
<1> HIDE DEF S, x
<1>5. Of(awaited', next_id) = S /\ \A q : q # next_id => Of(awaited', q) = Of(awaited, q)
  BY <1>1, <1>2, <1>4, SendsOf DEF Of
<1>6. ASSUME NEW q \in DOMAIN inflight' PROVE Waiting(inflight'[q], Of(awaited', q))
  <2>1. CASE q = next_id
    BY <2>1, <1>1, <1>3, <1>5
  <2>2. CASE q # next_id
    <3>1. q \in Tracked /\ inflight'[q] = inflight[q]
      BY <2>2, <1>1
    <3> QED
      BY <2>2, <3>1, <1>5 DEF EntriesWaiting
  <2> QED
    BY <2>1, <2>2
<1> QED
  BY ONLY <1>1, <1>2, <1>6, WaitingAfter

\* handle_timeout refuses a request or sends the fallbacks of what timed out.
LEMMA TimeoutWaits ==
  ASSUME IInv, EntriesWaiting, handle_timeout
  PROVE  EntriesWaiting'
<1> DEFINE Late(r) == {i \in Dests : <<r, i>> \in due /\ inflight[r].status[i] = "InFlight"}
           refused == {r \in Tracked : \E i \in Late(r) : Counts(i) /\ ~FallbackReady(inflight[r], i)}
           After(r) == handle_failure(inflight[r], Late(r), "TimedOut")
           Ready(r) == IF \E i \in Late(r) : FallbackReady(inflight[r], i)
                       THEN ReadyToSend(After(r)) ELSE {}
           sends == UNION {{<<r, i>> : i \in Ready(r)} : r \in Tracked \ refused}
           T(r) == TriggeredBy(inflight[r], Late(r))
<1>1. /\ inflight' = [r \in Tracked \ refused |->
                        IF Ready(r) = {} THEN After(r) ELSE Dispatched(After(r))]
      /\ awaited' = awaited \cup sends
      /\ config' = config /\ slim_inflight' = slim_inflight
  BY Zenon DEF handle_timeout
<1>2. Valid
  BY InvFacts
<1>3. \A r \in slim_inflight' : <<r, primary_index>> \in awaited'
  BY <1>1 DEF EntriesWaiting
<1>4. ASSUME NEW r \in Tracked \ refused
      PROVE  Waiting(inflight'[r], Of(awaited', r))
  <2> DEFINE e == inflight[r]
             F == Late(r)
             how == "TimedOut"
             aw == Of(awaited, r)
             dl == Of(heap \cup due, r)
  <2>1. /\ e \in Entries /\ Waiting(e, aw)
        /\ Sequential => \A j \in Dests : e.status[j] = "InFlight" => j = e.next_send
    BY EntryFacts DEF EntriesWaiting
  <2>2. /\ F \subseteq Dests /\ (\A i \in F : e.status[i] = "InFlight") /\ how \in Failed
        /\ \A i \in F : Counts(i) => FallbackReady(e, i)
    BY DEF Failed
  <2>3. EntrySound(e, Of(sent, r), aw, dl, Of(acked, r), Of(failed, r))
    BY DEF IInv, EntriesSound
  <2>4. aw \cup Of(acked, r) \cup Of(failed, r) \subseteq Of(sent, r)
    BY HistoryOf
  <2>5. \A j \in dl : j \in Of(heap, r) \/ j \in F \/ e.status[j] # "InFlight"
    BY DEF Of
  <2>6. /\ aw \subseteq aw /\ aw \ F \subseteq aw /\ how # "Nacked"
    OBVIOUS
  <2>7. inflight'[r] = IF Ready(r) = {} THEN After(r) ELSE Dispatched(After(r))
    BY <1>1
  <2>8. (\E i \in F : FallbackReady(e, i)) <=> TriggeredBy(e, F) # {}
    <3> HIDE DEF F, e, refused
    <3> QED
      BY <2>2 DEF TriggeredBy, FallbackReady
  <2>9. \A i \in Dests : <<r, i>> \in sends <=> i \in Ready(r)
    <3> HIDE DEF Ready, refused
    <3> QED
      OBVIOUS
  <2>10. Of(awaited', r) = aw \cup (Ready(r) \cap Dests)
    <3> HIDE DEF sends, Ready
    <3> QED
      BY <1>1, <2>9 DEF Of
  <2>11. After(r) = handle_failure(e, F, how)
         /\ Ready(r) = (IF \E i \in F : FallbackReady(e, i) THEN ReadyToSend(handle_failure(e, F, how)) ELSE {})
    OBVIOUS
  <2> HIDE DEF e, F, how, aw, dl, Ready, After, Late, refused, sends
  <2> DEFINE m == handle_failure(e, F, how)
             Tr == TriggeredBy(e, F)
  <2>12. FailureResult(e, Of(sent, r), aw, Of(heap, r), Of(acked, r), Of(failed, r), F, how)
    <3>1. FailureCase(e, Of(sent, r), aw, dl, Of(acked, r), Of(failed, r), F, how, aw, Of(heap, r))
      BY ONLY <2>2, <2>3, <2>4, <2>5, <2>6 DEF FailureCase
    <3> QED
      BY ONLY <1>2, <3>1, FailureSound
  <2>13. Tr # {} => ReadyToSend(m) = Tr
    BY ONLY <2>12, Zenon DEF FailureResult
  <2>14. Waiting(m, aw \cup Tr) /\ m \in Entries
    <3>1. Waiting(m, aw \cup Tr)
      BY ONLY <1>2, <2>1, <2>2, <2>6, FailureWaiting
    <3>2. m \in Entries
      BY ONLY <1>2, <2>1, <2>2, FailureEffect
    <3> QED
      BY <3>1, <3>2
  <2>15. Tr \subseteq Dests
    BY DEF TriggeredBy
  <2> HIDE DEF m, Tr
  <2>16. Ready(r) = Tr /\ After(r) = m
    BY <2>8, <2>11, <2>13 DEF m, Tr
  <2>17. Of(awaited', r) = aw \cup Tr
    BY <2>10, <2>15, <2>16
  <2>18. inflight'[r].status = m.status /\ inflight'[r].completed_origins = m.completed_origins
    BY <2>7, <2>14, <2>16, DispatchEffect
  <2> QED
    BY <2>14, <2>17, <2>18, SameWaiting
<1>5. DOMAIN inflight' = Tracked \ refused
  <2> HIDE DEF refused, Ready, After
  <2> QED
    BY <1>1
<1> HIDE DEF refused
<1>6. \A r \in DOMAIN inflight' : Waiting(inflight'[r], Of(awaited', r))
  BY <1>4, <1>5
<1>7. config' = config
  BY <1>1
<1> QED
  BY ONLY <1>2, <1>3, <1>6, <1>7, WaitingAfter

\* The slim path: a request waits for the primary until the primary's answer removes it.
LEMMA SlimWaits ==
  ASSUME IInv, EntriesWaiting,
         process_slim_primary
           \/ \E r \in Requests, i \in Dests, outcome \in {"Ack", "Nack"} : AnswerSlim(r, i, outcome)
  PROVE  EntriesWaiting'
<1>1. use_slim_primary /\ config' = config /\ inflight' = inflight
  BY DEF process_slim_primary, AnswerSlim
<1>2. Valid /\ DOMAIN inflight' = {} /\ primary_index \in Dests
  BY <1>1, InvFacts, PrimaryIsOrigin DEF IInv, PathsApart, Tracked, Origins
<1>3. ASSUME NEW q \in slim_inflight' PROVE <<q, primary_index>> \in awaited'
  <2>1. CASE process_slim_primary
    <3>1. slim_inflight' = slim_inflight \cup {next_id}
          /\ awaited' = awaited \cup {<<next_id, i>> : i \in Dests}
      BY <2>1 DEF process_slim_primary, SendAll
    <3> QED
      BY <1>2, <1>3, <3>1 DEF EntriesWaiting
  <2>2. ASSUME NEW r \in Requests, NEW i \in Dests, NEW outcome \in {"Ack", "Nack"},
               AnswerSlim(r, i, outcome)
        PROVE  <<q, primary_index>> \in awaited'
    <3>1. /\ awaited' = awaited \ {<<r, i>>}
          /\ IF i = primary_index /\ r \in slim_inflight
             THEN slim_inflight' = slim_inflight \ {r} ELSE slim_inflight' = slim_inflight
      BY <2>2 DEF AnswerSlim, Answered
    <3> QED
      BY <1>3, <3>1 DEF EntriesWaiting
  <2> QED
    BY <2>1, <2>2
<1> QED
  BY ONLY <1>1, <1>2, <1>3, WaitingAfter

\* Every step leaves every request waiting for somebody.
LEMMA StepWaits ==
  ASSUME IInv, EntriesWaiting, PrimaryFirst, [Next]_vars
  PROVE  EntriesWaiting'
<1>1. Valid
  BY InvFacts
<1>2. ASSUME config' = config, inflight' = inflight, slim_inflight' = slim_inflight, awaited' = awaited
      PROVE  EntriesWaiting'
  BY <1>1, <1>2, WaitingAfter DEF EntriesWaiting, Tracked
<1>3. CASE process_fire_and_forget
  BY <1>2, <1>3 DEF process_fire_and_forget
<1>4. CASE process_slim_primary
  BY <1>4, SlimWaits
<1>5. CASE process_full
  BY <1>5, FullWaits
<1>6. ASSUME NEW r \in Requests, NEW i \in Dests, Answer(r, i)
      PROVE  EntriesWaiting'
  BY <1>6, SlimWaits, AckWaits, NackWaits DEF Answer
<1>7. ASSUME NEW r \in Requests, NEW i \in Dests, DeadlinePasses(r, i)
      PROVE  EntriesWaiting'
  BY <1>2, <1>7 DEF DeadlinePasses
<1>8. CASE handle_timeout
  BY <1>8, TimeoutWaits
<1>9. CASE UNCHANGED vars
  BY <1>2, <1>9 DEF vars, processor
<1> QED
  BY <1>3, <1>4, <1>5, <1>6, <1>7, <1>8, <1>9 DEF Next

\* No request is forgotten, for every configuration that does not await, in sequential mode,
\* a primary that is not sent first: as long as a request is not answered upstream it waits
\* for a destination that is in flight, has not answered and decides about it.
THEOREM NobodyIsForgotten == Spec => [](PrimaryFirst => NoRequestForgotten)
<1>1. Init => EntriesWaiting
  BY DEF Init, EntriesWaiting, Tracked
<1>2. IInv /\ (PrimaryFirst => EntriesWaiting) /\ [Next]_vars => (PrimaryFirst => EntriesWaiting)'
  <2> SUFFICES ASSUME IInv, PrimaryFirst => EntriesWaiting, [Next]_vars, PrimaryFirst'
               PROVE  EntriesWaiting'
    OBVIOUS
  <2>1. config' = config
    <3>1. process_fire_and_forget => config' = config
      BY DEF process_fire_and_forget
    <3>2. process_slim_primary => config' = config
      BY DEF process_slim_primary
    <3>3. process_full => config' = config
      BY DEF process_full
    <3>4. \A r \in Requests, i \in Dests : Answer(r, i) => config' = config
      BY DEF Answer, AnswerSlim, process_ack, process_nack
    <3>5. \A r \in Requests, i \in Dests : DeadlinePasses(r, i) => config' = config
      BY DEF DeadlinePasses
    <3>6. handle_timeout => config' = config
      BY DEF handle_timeout
    <3>7. UNCHANGED vars => config' = config
      BY DEF vars, processor
    <3> QED
      BY <3>1, <3>2, <3>3, <3>4, <3>5, <3>6, <3>7 DEF Next
  <2>2. PrimaryFirst
    <3>1. (Sequential' <=> Sequential) /\ primary_index' = primary_index /\ Origins' = Origins
      BY <2>1, SameConfig
    <3>2. Least(Origins)' = Least(Origins)
      BY <3>1 DEF Least
    <3> QED
      BY <2>1, <3>1, <3>2 DEF PrimaryFirst
  <2> QED
    BY <2>2, StepWaits
<1>3. IInv /\ EntriesWaiting => NoRequestForgotten
  <2> SUFFICES ASSUME IInv, EntriesWaiting, NEW r \in Tracked
               PROVE  \E i \in Dests : /\ Counts(i) /\ inflight[r].status[i] = "InFlight"
                                       /\ <<r, i>> \in awaited
    BY DEF NoRequestForgotten, EntriesWaiting
  <2>1. Valid /\ Waiting(inflight[r], Of(awaited, r))
    BY InvFacts DEF EntriesWaiting
  <2>2. PICK i \in Dests : Counts(i) /\ inflight[r].status[i] = "InFlight" /\ i \in Of(awaited, r)
    BY <2>1, SomebodyDecides
  <2> QED
    BY <2>2 DEF Of
<1> QED
  BY <1>1, <1>2, <1>3, Invariance, PTL DEF Spec
=============================================================================
