-------------------------- MODULE FanoutProcessor --------------------------
(***************************************************************************)
(* The fan-out processor (processors/fanout_processor/mod.rs): clones each *)
(* request to its destinations, in parallel or one by one, and gives the   *)
(* upstream node one Ack or Nack according to the await_ack policy, the    *)
(* fallback chains and the timeouts.                                       *)
(*                                                                         *)
(* process() is never re-entered, so one message handled is one step.  A   *)
(* destination answers a subscribed send at most once, at any later time;  *)
(* a deadline expires at any time after it was armed.  The configuration   *)
(* is chosen in Init among those validate() accepts, ports are the         *)
(* positions of their destinations.                                        *)
(***************************************************************************)
EXTENDS Naturals, FiniteSets

CONSTANTS Configs,      \* FanoutConfig values offered to validate()
          MaxClones     \* bound: requests received times number of destinations

ASSUME MaxClonesAssumption == MaxClones \in Nat
ASSUME ConfigsAssumption ==
  \A c \in Configs : LET n == Cardinality(DOMAIN c.fallback_for) IN n \in Nat /\ c \in
    [mode : {"Parallel", "Sequential"}, await_ack : {"Primary", "All", "None"},
     primary : [1..n -> BOOLEAN], timeout : [1..n -> BOOLEAN],
     fallback_for : [1..n -> 0..n], max_inflight : Nat]

Requests == 1..MaxClones

VARIABLES
  config,         \* ValidatedConfig
  next_id,
  inflight,       \* request_id -> Inflight
  slim_inflight,  \* request ids of the slim primary path
  heap,           \* deadlines of deadline_heap that lie in the future
  due,            \* deadlines of deadline_heap that have passed
  timer_started,
  awaited,        \* subscribed sends that the destination has not answered
  upstream,       \* request_id -> set of outcomes, with the number of notifications
  \* History, read by properties only (sets of <<request_id, dest_index>>):
  sent, acked, failed

processor == <<config, next_id, inflight, slim_inflight, heap, due, timer_started>>
vars == <<processor, awaited, upstream, sent, acked, failed>>

----------------------------------------------------------------------------
(* Configuration: FanoutConfig::validate.  0 stands for None.              *)

DestsOf(c) == DOMAIN c.fallback_for

\* The end of the fallback chain of i after at most |destinations| hops.
ChainEnd(c, i) ==
  LET hop[k \in 0..Cardinality(DestsOf(c))] ==
        IF k = 0 THEN i
        ELSE IF c.fallback_for[hop[k - 1]] = 0 THEN hop[k - 1] ELSE c.fallback_for[hop[k - 1]]
  IN hop[Cardinality(DestsOf(c))]

\* "Default primary to the first destination if none set."
PrimaryFlags(c) ==
  IF \E i \in DestsOf(c) : c.primary[i] THEN c.primary
  ELSE [i \in DestsOf(c) |-> i = 1]

validate(c) ==
  LET D == DestsOf(c)
      HasFallback == \E i \in D : c.fallback_for[i] # 0
      HasTimeout == \E i \in D : c.timeout[i]
  IN /\ D # {} /\ Cardinality(D) <= 64
     /\ \A i, j \in D : PrimaryFlags(c)[i] /\ PrimaryFlags(c)[j] => i = j
     /\ \A i \in D : PrimaryFlags(c)[i] => c.fallback_for[i] = 0
     /\ \A i \in D : c.fallback_for[ChainEnd(c, i)] = 0
     /\ \A i, j \in D : c.fallback_for[i] = c.fallback_for[j] /\ c.fallback_for[i] # 0 => i = j
     /\ c.await_ack = "None" => ~HasFallback /\ ~HasTimeout

Dests == DestsOf(config)
\* Mutant: a fallback is taken for its own origin.
OriginIsSelf(i) == i
Origin(i) == ChainEnd(config, i)
IsFallback(i) == config.fallback_for[i] # 0
primary_index == CHOOSE i \in Dests : PrimaryFlags(config)[i]
Sequential == config.mode = "Sequential"
Origins == {i \in Dests : ~IsFallback(i)}
Chain(o) == {i \in Dests : Origin(i) = o}

use_fire_and_forget == config.await_ack = "None"

use_slim_primary ==
  /\ config.mode = "Parallel" /\ config.await_ack = "Primary"
  /\ \A i \in Dests : ~IsFallback(i) /\ ~config.timeout[i]

Least(S) == CHOOSE i \in S : \A j \in S : i <= j

----------------------------------------------------------------------------
(* One tracked request: Inflight.  next_send_queue holds at most one index *)
(* in sequential mode and is never read in parallel mode.                  *)

\* fallback_for_dest is set and that fallback has not been used yet.
FallbackReady(e, i) ==
  \E f \in Dests : config.fallback_for[f] = i /\ e.status[f] = "PendingSend"

FallbackOf(i) == CHOOSE f \in Dests : config.fallback_for[f] = i

\* The Inflight that register_inflight inserts.
NewInflight ==
  LET first == Least(Origins)
      ready == IF Sequential THEN {first} ELSE Origins
  IN [status |-> [i \in Dests |-> IF i \in ready THEN "InFlight" ELSE "PendingSend"],
      payload |-> [i \in Dests |-> TRUE],
      completed_origins |-> {},
      next_send |-> IF Sequential THEN first ELSE 0]

\* dispatch_ready: which destinations it sends to, and the entry afterwards.
ReadyToSend(e) ==
  {i \in Dests : /\ e.payload[i]
                 /\ IF Sequential THEN i = e.next_send ELSE e.status[i] = "InFlight"}

Dispatched(e) == [e EXCEPT !.payload = [i \in Dests |-> e.payload[i] /\ i \notin ReadyToSend(e)]]

\* Mutant: the triggered fallback is not queued in sequential mode.
FailForgetsQueue(e, F, how) ==
  LET fallbacks == {FallbackOf(i) : i \in {j \in F : FallbackReady(e, j)}}
  IN [e EXCEPT !.status = [i \in Dests |->
                 IF i \in F THEN how ELSE IF i \in fallbacks THEN "InFlight" ELSE e.status[i]]]

\* handle_failure for the destinations F of one request: each is marked, and its
\* unused fallback is triggered (in sequential mode it becomes the next send).
handle_failure(e, F, how) ==
  LET fallbacks == {FallbackOf(i) : i \in {j \in F : FallbackReady(e, j)}}
  IN [e EXCEPT !.status = [i \in Dests |->
                 IF i \in F THEN how ELSE IF i \in fallbacks THEN "InFlight" ELSE e.status[i]],
               !.next_send = IF Sequential /\ fallbacks # {} THEN Least(fallbacks)
                             ELSE e.next_send]

\* The policy that decides whether a destination's failure counts upstream.
Counts(i) == config.await_ack = "Primary" => Origin(i) = primary_index

\* Mutant: nothing is skipped.
SkippedByNone(e, i) == {}

\* The unused fallbacks that an Ack of destination i makes superfluous.
SkippedBy(e, i) ==
  {j \in Chain(Origin(i)) : IsFallback(j) /\ e.status[j] = "PendingSend"}

\* Mutant: the acknowledged destination stays the next send, nothing is moved on.
AckKeepsQueue(e, i) ==
  [e EXCEPT !.status = [j \in Dests |-> IF j = i THEN "Acked"
                          ELSE IF j \in SkippedBy(e, i) THEN "Skipped" ELSE e.status[j]],
            !.payload = [j \in Dests |-> e.payload[j] /\ j \notin SkippedBy(e, i)]]

\* The entry after an Ack of destination i: unused fallbacks of the same origin
\* are skipped; sequential mode moves on to the next pending destination.
AckEntry(e, i) ==
  LET skipped == SkippedBy(e, i)
      marked == [e EXCEPT !.status = [j \in Dests |-> IF j = i THEN "Acked"
                                        ELSE IF j \in skipped THEN "Skipped" ELSE e.status[j]],
                          !.payload = [j \in Dests |-> e.payload[j] /\ j \notin skipped],
                          !.next_send = IF e.next_send = i THEN 0 ELSE e.next_send]
      pending == {j \in Dests : marked.status[j] = "PendingSend" /\ marked.payload[j]}
  IN IF Sequential /\ marked.next_send = 0 /\ pending # {}
     THEN [marked EXCEPT !.status[Least(pending)] = "InFlight", !.next_send = Least(pending)]
     ELSE marked

----------------------------------------------------------------------------
(* Effects shared by the handlers.                                         *)

Tracked == DOMAIN inflight

Without(R) == [r \in Tracked \ R |-> inflight[r]]

\* Mutant: only destinations that are not fallbacks get a deadline.
OriginDeadlines(r, S) == {<<r, i>> : i \in {j \in S : config.timeout[j] /\ ~IsFallback(j)}}

\* The heap entries of the sends S of request r.
Deadlines(r, S) == {<<r, i>> : i \in {j \in S : config.timeout[j]}}

\* send_message_to on the ports of S, with the fan-out's own subscription.
SendAll(r, S) ==
  /\ sent' = sent \cup {<<r, i>> : i \in S}
  /\ awaited' = awaited \cup {<<r, i>> : i \in S}

\* notify_ack / notify_nack with original_pdata
Notify(R, outcome) ==
  upstream' = [r \in Requests |->
    IF r \in R THEN [outcomes |-> upstream[r].outcomes \cup {outcome}, count |-> upstream[r].count + 1]
    ELSE upstream[r]]

Answered(r, i) == awaited' = awaited \ {<<r, i>>}

\* The first thing that happens to a send decides its fate.
Undecided(r, i) == <<r, i>> \in sent /\ <<r, i>> \notin acked \cup failed
RecordAck(r, i) ==
  acked' = (IF Undecided(r, i) THEN acked \cup {<<r, i>>} ELSE acked) /\ UNCHANGED failed
RecordNack(r, i) ==
  failed' = (IF Undecided(r, i) THEN failed \cup {<<r, i>>} ELSE failed) /\ UNCHANGED acked

----------------------------------------------------------------------------
Init ==
  /\ config \in {c \in Configs : validate(c)}
  /\ next_id = 1 /\ inflight = [r \in {} |-> 0] /\ slim_inflight = {}
  /\ heap = {} /\ due = {} /\ timer_started = FALSE
  /\ awaited = {} /\ upstream = [r \in Requests |-> [outcomes |-> {}, count |-> 0]]
  /\ sent = {} /\ acked = {} /\ failed = {}

\* Mutant: the limit is compared with > instead of <.
accept_pdata_off_by_one ==
  \/ config.max_inflight = 0
  \/ use_fire_and_forget
  \/ Cardinality(Tracked \cup slim_inflight) <= config.max_inflight

\* accept_pdata: the engine delivers no request while it is false.
accept_pdata ==
  \/ config.max_inflight = 0
  \/ use_fire_and_forget
  \/ Cardinality(Tracked \cup slim_inflight) < config.max_inflight

WithinBound == next_id * Cardinality(Dests) <= MaxClones

process_fire_and_forget ==
  /\ use_fire_and_forget /\ accept_pdata /\ WithinBound
  \* The code does not number these requests; the model does, to tell them apart.
  /\ next_id' = next_id + 1
  /\ sent' = sent \cup {<<next_id, i>> : i \in Origins}
  /\ Notify({next_id}, "Ack")
  /\ UNCHANGED <<config, inflight, slim_inflight, heap, due, timer_started, awaited, acked, failed>>

process_slim_primary ==
  /\ use_slim_primary /\ accept_pdata /\ WithinBound
  /\ next_id' = next_id + 1
  /\ slim_inflight' = slim_inflight \cup {next_id}
  /\ SendAll(next_id, Dests)
  /\ UNCHANGED <<config, inflight, heap, due, timer_started, upstream, acked, failed>>

\* ensure_timer, register_inflight and dispatch_ready.
process_full ==
  LET ready == ReadyToSend(NewInflight)
  IN /\ ~use_fire_and_forget /\ ~use_slim_primary
     /\ accept_pdata /\ WithinBound
     /\ timer_started' = (timer_started \/ \E i \in Dests : config.timeout[i])
     /\ next_id' = next_id + 1
     /\ inflight' = [r \in Tracked \cup {next_id} |->
                       IF r = next_id THEN Dispatched(NewInflight) ELSE inflight[r]]
     /\ heap' = heap \cup Deadlines(next_id, ready)
     /\ SendAll(next_id, ready)
     /\ UNCHANGED <<config, slim_inflight, due, upstream, acked, failed>>

----------------------------------------------------------------------------
(* Answers of the destinations.                                            *)

\* Slim primary path: the primary's answer is forwarded, others are ignored.
AnswerSlim(r, i, outcome) ==
  /\ use_slim_primary /\ <<r, i>> \in awaited
  /\ Answered(r, i)
  /\ IF outcome = "Ack" THEN RecordAck(r, i) ELSE RecordNack(r, i)
  /\ IF i = primary_index /\ r \in slim_inflight
     THEN slim_inflight' = slim_inflight \ {r} /\ Notify({r}, outcome)
     ELSE UNCHANGED <<slim_inflight, upstream>>
  /\ UNCHANGED <<config, next_id, inflight, heap, due, timer_started, sent>>

\* Mutant: a late Ack overrides a timeout or a Nack.
AckHeedsAll(r, i) == r \in Tracked

\* Late answers of a destination that timed out or was refused are ignored.
AckCounts(r, i) == r \in Tracked /\ inflight[r].status[i] \notin {"TimedOut", "Nacked"}

required_origins == Cardinality(Origins)

process_ack(r, i) ==
  LET e == AckEntry(inflight[r], i)
      o == Origin(i)
      primaryDone == config.await_ack = "Primary" /\ o = primary_index
      ready == IF Sequential /\ ~primaryDone THEN ReadyToSend(e) ELSE {}
      completed == e.completed_origins \cup {o}
      done == primaryDone \/ (config.await_ack = "All" /\ Cardinality(completed) >= required_origins)
  IN /\ ~use_slim_primary /\ <<r, i>> \in awaited
     /\ RecordAck(r, i)
     /\ IF ~AckCounts(r, i)
        THEN Answered(r, i) /\ UNCHANGED <<inflight, heap, upstream, sent>>
        ELSE /\ awaited' = (awaited \ {<<r, i>>}) \cup {<<r, j>> : j \in ready}
             /\ sent' = sent \cup {<<r, j>> : j \in ready}
             /\ heap' = heap \cup Deadlines(r, ready)
             /\ IF done
                THEN inflight' = Without({r}) /\ Notify({r}, "Ack")
                ELSE /\ inflight' = [inflight EXCEPT ![r] =
                          [(IF Sequential THEN Dispatched(e) ELSE e) EXCEPT
                             !.completed_origins = IF config.await_ack = "All" THEN completed
                                                   ELSE e.completed_origins]]
                     /\ UNCHANGED upstream
     /\ UNCHANGED <<config, next_id, slim_inflight, due, timer_started, failed>>

NackCounts(r, i) == r \in Tracked /\ inflight[r].status[i] # "TimedOut" /\ Counts(i)

process_nack(r, i) ==
  LET e == handle_failure(inflight[r], {i}, "Nacked")
      ready == ReadyToSend(e)
  IN /\ ~use_slim_primary /\ <<r, i>> \in awaited
     /\ RecordNack(r, i)
     /\ IF ~NackCounts(r, i)
        THEN Answered(r, i) /\ UNCHANGED <<inflight, heap, upstream, sent>>
        ELSE IF FallbackReady(inflight[r], i)
        THEN /\ awaited' = (awaited \ {<<r, i>>}) \cup {<<r, j>> : j \in ready}
             /\ sent' = sent \cup {<<r, j>> : j \in ready}
             /\ heap' = heap \cup Deadlines(r, ready)
             /\ inflight' = [inflight EXCEPT ![r] = Dispatched(e)]
             /\ UNCHANGED upstream
        ELSE /\ inflight' = Without({r}) /\ Notify({r}, "Nack")
             /\ Answered(r, i) /\ UNCHANGED <<heap, sent>>
     /\ UNCHANGED <<config, next_id, slim_inflight, due, timer_started, acked>>

----------------------------------------------------------------------------
(* Time.                                                                   *)

\* The instant of an armed deadline is reached.
DeadlinePasses(r, i) ==
  /\ <<r, i>> \in heap
  /\ heap' = heap \ {<<r, i>>} /\ due' = due \cup {<<r, i>>}
  /\ UNCHANGED <<config, next_id, inflight, slim_inflight, timer_started,
                 awaited, upstream, sent, acked, failed>>

\* handle_timeout on a TimerTick pops every passed deadline.  The outcome does not
\* depend on the order of the deadlines: a request with a timeout that counts and
\* has no fallback is refused once, the others get all their fallbacks dispatched.
handle_timeout ==
  LET Late(r) == {i \in Dests : <<r, i>> \in due /\ inflight[r].status[i] = "InFlight"}
      refused == {r \in Tracked : \E i \in Late(r) : Counts(i) /\ ~FallbackReady(inflight[r], i)}
      After(r) == handle_failure(inflight[r], Late(r), "TimedOut")
      \* Only a triggered fallback makes the request ready for dispatch_ready.
      Ready(r) == IF \E i \in Late(r) : FallbackReady(inflight[r], i)
                  THEN ReadyToSend(After(r)) ELSE {}
      sends == UNION {{<<r, i>> : i \in Ready(r)} : r \in Tracked \ refused}
  IN /\ timer_started /\ due # {}
     /\ due' = {}
     /\ inflight' = [r \in Tracked \ refused |->
                       IF Ready(r) = {} THEN After(r) ELSE Dispatched(After(r))]
     /\ heap' = heap \cup UNION {Deadlines(r, Ready(r)) : r \in Tracked \ refused}
     /\ sent' = sent \cup sends /\ awaited' = awaited \cup sends
     /\ failed' = failed \cup {x \in due : x[1] \in Tracked /\ x[2] \in Late(x[1])
                                           /\ Undecided(x[1], x[2])}
     /\ Notify(refused, "Nack")
     /\ UNCHANGED <<config, next_id, slim_inflight, timer_started, acked>>

----------------------------------------------------------------------------
Answer(r, i) ==
  \/ \E outcome \in {"Ack", "Nack"} : AnswerSlim(r, i, outcome)
  \/ process_ack(r, i) \/ process_nack(r, i)

Next ==
  \/ process_fire_and_forget \/ process_slim_primary \/ process_full
  \/ \E r \in Requests, i \in Dests : Answer(r, i) \/ DeadlinePasses(r, i)
  \/ handle_timeout

Spec == Init /\ [][Next]_vars

\* Time passes and the periodic timer fires.  A destination with a timeout may
\* never answer; one without answers every request, as the engine asks of nodes.
Fairness ==
  /\ WF_vars(handle_timeout)
  /\ WF_vars(\E r \in Requests, i \in Dests : DeadlinePasses(r, i))
  /\ WF_vars(\E r \in Requests, i \in Dests : ~config.timeout[i] /\ Answer(r, i))

FairSpec == Spec /\ Fairness

----------------------------------------------------------------------------
Statuses == {"PendingSend", "InFlight", "Acked", "Nacked", "TimedOut", "Skipped"}

TypeOK ==
  /\ config \in Configs /\ validate(config)
  /\ next_id \in 1..(MaxClones + 1)
  /\ Tracked \subseteq 1..(next_id - 1) /\ slim_inflight \subseteq 1..(next_id - 1)
  /\ \A r \in Tracked : inflight[r] \in
       [status : [Dests -> Statuses], payload : [Dests -> BOOLEAN],
        completed_origins : SUBSET Origins, next_send : Dests \cup {0}]
  /\ {heap, due, awaited, sent, acked, failed} \subseteq SUBSET (Requests \X Dests)
  /\ timer_started \in BOOLEAN
  /\ upstream \in [Requests -> [outcomes : SUBSET {"Ack", "Nack"}, count : Nat]]

Received == 1..(next_id - 1)

\* Every request received is either still tracked or has been answered upstream
\* exactly once, whatever late, ignored or simultaneous answers and timeouts its
\* destinations produce; and no more than max_inflight are tracked.
OneOutcome ==
  /\ \A r \in Received :
       upstream[r].count = IF r \in Tracked \cup slim_inflight THEN 0 ELSE 1
  /\ config.max_inflight > 0 =>
       Cardinality(Tracked \cup slim_inflight) <= config.max_inflight

\* The origins whose outcome the upstream node is told about.
Awaited == CASE config.await_ack = "All" -> Origins
             [] config.await_ack = "Primary" -> {primary_index}
             [] OTHER -> {}

\* The upstream outcome is what the destinations said.  Ack: every awaited origin
\* was acknowledged by itself or by a member of its fallback chain, before that
\* member timed out.  Nack: some awaited origin and its whole fallback chain failed.
OutcomeJustified ==
  \A r \in Received :
    /\ "Ack" \in upstream[r].outcomes =>
         \A o \in Awaited : \E i \in Chain(o) : <<r, i>> \in acked
    /\ "Nack" \in upstream[r].outcomes =>
         \E o \in Awaited : \A i \in Chain(o) : <<r, i>> \in failed

\* "Fallback destinations are only sent when triggered": a fallback that was sent
\* a request stands behind a destination that refused it or timed out.
FallbackOnlyWhenTriggered ==
  \A r \in Requests, i \in Dests :
    (<<r, i>> \in sent /\ IsFallback(i)) => <<r, config.fallback_for[i]>> \in failed

\* What is in flight is accounted for, whichever of the four handlers put it in
\* flight: such a destination was really sent the
\* request, its timeout is never lost (the deadline is in the heap of a timer that
\* runs), and in sequential mode ("Send one-by-one") it is the one sent last.
FlightsAccounted ==
  \A r \in Tracked, i \in Dests :
    inflight[r].status[i] = "InFlight" =>
      /\ <<r, i>> \in sent
      /\ config.timeout[i] => <<r, i>> \in heap \cup due /\ timer_started
      /\ Sequential => i = inflight[r].next_send

\* No request is forgotten: one that is not answered yet still waits for a destination
\* whose answer or timeout decides about it, in flight and not heard of so far, although
\* late answers, answers that do not count, fallbacks that were used up and destinations
\* that are still queued all leave its entry in the map.
NoRequestForgotten ==
  /\ \A r \in Tracked :
       \E i \in Dests : Counts(i) /\ inflight[r].status[i] = "InFlight" /\ <<r, i>> \in awaited
  /\ \A r \in slim_inflight : <<r, primary_index>> \in awaited

\* Every request is answered upstream, if time passes and the destinations that
\* have no timeout answer: no inflight entry is leaked.
RequestResolves ==
  \A r \in Requests : next_id > r ~> upstream[r].count > 0
=============================================================================
