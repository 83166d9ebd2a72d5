# A TLA+ model of the OTAP dataflow engine

This project models the run-time core of the OTAP dataflow engine
(`src/rust/otap-dataflow`): the channels between the nodes of a pipeline, the
inbox through which a node receives data and control, the manager that shuts a
pipeline down, a processor whose delivery guarantee is easy to get wrong, the
persistence engine behind the durable buffer, and the topics that connect
pipelines on different threads. Every module is translated from the Rust source;
`PROJECT.json` names the lines behind each definition.

## 1. The system

A pipeline is a graph of receivers, processors and exporters. Each CPU core runs
its own copy of the pipeline on a single-threaded executor: node tasks interleave
only at `await` points, wake each other through wakers, and are cancelled by
dropping futures in `select!`. Data flows downstream through bounded channels;
Acks and Nacks travel back upstream through the control plane; shutdown travels
from the controller to receivers first and then to the other nodes.

### Inventory

Crates are under `src/rust/otap-dataflow/crates/`.

| Component | State | Operations | What makes it hard | Correct when |
|---|---|---|---|---|
| Local MPSC channel `channel/src/mpsc.rs` | buffer, waiter slots with generations, queue of keys, reserved slots | send, blocked send (poll, cancel), receive, close, drops | capacity handed over as reservations while futures are cancelled and slots reused | capacity kept, no wakeup lost, FIFO, every blocked send resolves |
| Local MPMC channel `channel/src/mpmc.rs` | the same with several receivers | the same | the same without reservations | the same |
| Control channel `control-channel/src` | lifecycle tokens, completion backlog, coalesced normal control, burst budget, blocked senders | admission by class, batch delivery, drain, shutdown with deadline, close | fairness between classes, deadlines forcing a close while senders sleep | lifecycle order, fairness, nobody sleeps through the close |
| Node inbox and scheduler `engine/src/message.rs`, `node_local_scheduler.rs` | control and data receivers, latched shutdown, burst counter, delayed resumes, wakeups | `recv_with_policy`, `requeue_later`, `set_wakeup`, `begin_shutdown` | many exits of one receive loop; draining while upstream still sends | no data abandoned, control cannot starve data, shutdown released |
| Fan-out processor `core-nodes/.../fanout_processor` | inflight table, deadlines, slim inflight | three delivery paths, ack, nack, timeout, fallback | late and simultaneous answers and timeouts | one justified outcome per request, every request resolves |
| Pipeline control manager `engine/src/pipeline_ctrl.rs` | timers, buffered sends, shutdown phase | receiver-first shutdown, deadline force | messages buffered on full channels | ingress closes before downstream is shut down, every node stops |
| Completion dispatcher `engine/src/pipeline_ctrl.rs`, `control.rs` | frames in the data context | subscribe, unwind ack/nack | frames of refused requests | an answer reaches the subscriber that is waiting for it |
| Retry processor | retry state in call data | requeue, give up | interplay with the scheduler and the dispatcher | at most the configured retries, one final outcome |
| Quiver `quiver/src` | WAL, open segment, segments, cursor, subscriber progress, disk budget | ingest, finalize, replay, claim, ack, retention | crashes between any two writes, concurrent ingest | acknowledged data is never lost |
| In-memory topics `engine/src/topic` | broadcast ring, subscriber cursors, owed acks | publish, commit, poll, ack, lag, disconnect | several threads | each subscriber sees each message or a lag; outcomes resolve |
| Durable buffer `durable_buffer_processor` | Quiver engine, bundles in flight, retries | ingest, timer tick, ack, nack | one task between ingest and delivery | what it acked upstream is delivered |
| Batch, router, transform, aggregation processors | per processor | per message | data transformation | out of scope here, see section 8 |
| Everything else (codecs, query engine, configuration, telemetry, admin, controller, Go implementation) | | | large data or I/O | not modelled, see section 8 |

`PROJECT.json` lists all of these as components and every hazard (the behaviour a
test would hardly reach) at its line.

## 2. Modules

| Module | Models | Proofs |
|---|---|---|
| `LocalMpsc` | the MPSC channel, waiter table included | `LocalMpscProofs` |
| `ControlChannel` | queue core and waiting layer of the control channel | `ControlChannelProofs` |
| `NodeInbox` | inbox of a processor or exporter with its local scheduler | `NodeInboxProofs` |
| `FanoutProcessor` | the fan-out processor | `FanoutProcessorProofs` |
| `PipelineCtrl` | the pipeline control manager with the nodes it controls | `PipelineCtrlProofs` |
| `DurableLog` | abstract: what the persistence engine promises | `QuiverDurabilityProofs` |
| `QuiverWal` | write-ahead log of Quiver: files, writer positions, reading back | `QuiverEngineProofs` |
| `QuiverEngine` | the persistence engine on top of it, driven by the durable buffer; refines `DurableLog` | `QuiverEngineProofs`, `QuiverDurabilityProofs` |
| `TopicBroadcast` | a broadcast topic in `all` mode, used by several threads | `TopicBroadcastProofs` |

The `MC` module of each specification instantiates it for TLC. In the modules of a
single-threaded pipeline an action is one call or one poll, because nothing else
runs on the thread in between; `TopicBroadcast` takes one lock or one atomic access
per action, `QuiverEngine` one change of the disk. Operators whose comment
starts with "Mutant:" are faulty variants of the definition below them. No
specification uses them: replacing the definition by its mutant makes TLC report
the property that guards it, which shows that the property has teeth.

### LocalMpsc

`ch` is `ChannelState` with the two wakers' effects (`woken`, `rx_woken`), `task`
and `key` are the producers' tasks and the `waiter_key` of their `SendFuture`,
`rx` is the receiving task. Actions: `Send`, `SendBlocks` (first poll of
`send_async` on a full channel), `PollSend`, `CancelSend`, `CloneSender`,
`DropSender`, `Close`, `TryRecv`, `PollRecv`, `CancelRecv`, `DropReceiver`. A
value is represented by the producer that sent it, a waker by the task it wakes.
Slots, generations, the free list and stale queue entries are kept as they are,
because the protocol depends on them. `MaxWaits` bounds how many blocked sends
register a waiter.

### ControlChannel

`core` is `Inner` of `core.rs`; `waiters`, `task`, `woken`, `armed`, `rx` and
`rx_woken` are the waiting layer of `channel.rs`. A completion is a unit of the
backlog. The slot table is reduced to the queue of waiters in wake order (it has
the structure that `LocalMpsc` models in full), the deadline to the flag
`expired`, and `completion_burst_len` is capped at `BurstLimit` because it is only
compared with it. The version counter is left out, and so is the permit that
`notify_one` stores: it makes the receiver look at an empty queue once more. An
async `send` borrows its handle, so a handle is dropped only while its task is
idle. `since_normal` and `overtaken` are history. `Uncancelled` is every step but
`CancelSend`: `UncancelledSpec` is a client that never drops a blocked send.

### NodeInbox

`Turn` is the straight-line part of one turn of the receive loop, `Select` the
biased `select!` in which it parks; both name the branch taken, and one action
per branch does what the branch does. The draining and the normal halves of the
loop in the source are the same code with other admission conditions, which
`Admits`, `OnPDataClosed` and `OnControl` express. Messages are counted; an
instant is in the future or reached. `accept` is chosen anew with each returned
message: it is whatever `accept_pdata()` says then. The pipeline controller's
Shutdown and its repetition after the deadline are the environment
(`SendShutdown`). Exporters are `ForceDrain` inboxes and schedule nothing. Wakeup
revisions and the scheduler's change notification are left out: the first only
label the delivered message, the second costs one more turn of the loop.

### FanoutProcessor

The configuration is any that `validate` accepts, chosen in `Init`. `inflight`
holds status, payload, completed origins and the destination sent last;
`next_send_queue`, which never has more than one element, is `next_send`.
Deadlines are armed (`heap`) or passed (`due`), and `handle_timeout` treats all
passed ones in one tick as the code does. A destination has one deadline here; the code
puts a fallback on the heap twice and ignores the entry that is not its `timeout_at`,
which is not modelled. One action per path
(`process_fire_and_forget`, `process_slim_primary`, `process_full`) and per event
(`AnswerSlim`, `process_ack`, `process_nack`, `handle_timeout`). A destination
answers a subscribed send at most once. Ports are positions, so the checks for
duplicate and unknown ports have nothing to reject. Send errors end the node;
nack reasons and metrics are left out; a Shutdown message is ignored by the code.

### PipelineCtrl

`RuntimeCtrlMsgManager::run`. One turn of the loop is its head (retry
`pending_sends`, look at the deadline, force a due-event pass after a burst:
`LoopHead`, `DeadlineReached`, `BurstPass`) and then the branch its biased `select!`
takes (`HandleShutdown`, `HandleReceiverDrained`, `HandleTimerRequest`,
`ForwardPressure`, `TimersDue`, `WakeUp`, `ChannelClosed`), whose guards keep the
bias. `pending_sends` is kept per node: the order between nodes is not observable.
Instants are reached or not. The controller drops its sender with the request, so
there is one Shutdown. A cancelled timer that wakes the loop for nothing, the
metrics flush branch and observed events are left out. Of a node only the reaction
to control messages is kept: a receiver drains and reports it (`FinishDrain`; when
the manager has ended the report fails), or returns on its own; a processor or
exporter latches a Shutdown until its input closes or the deadline passes, which is
what `NodeInbox` models in detail. Data flows from all receivers to all processors
to all exporters. A node that fails, which aborts the pipeline, is not modelled.

### QuiverWal, QuiverEngine and DurableLog

`disk`, `files` and `progress` survive a crash, everything else is forgotten. `job`
is the position of the engine's task inside `ingest`, `finalize_segment_impl`,
`persist_cursor`, rotation or `maintain`; a step ends wherever a crash would leave
another disk behind. Entries have size 1 and headers size 0, so positions are
numbers of entries. Writer and reader compute positions differently
(`ReloadRotatedFiles` from file sizes, `ReadOrder` from headers), as in the code.
The driver is the durable buffer: one task calls `ingest`, `flush`, `poll`, `ack`
and `maintain` one after the other, so two ingests never overlap, although the API
of the engine would allow it. Left out: segment-only mode, `DropOldest` and
`max_age`, deferred deletes, torn files (every write is complete or absent, and on
disk when its call returns, as with `FlushPolicy::Immediate` and a crash of the
process), sequence numbers of entries, and whatever the size limits of a segment are
(whether one is full is left open). With entries of one size every position is an entry
boundary, so the refusal of `validate_cursor` for a cursor that "splits entry boundary"
cannot happen; `CursorAccepted` is about its other conditions.

`DurableLog` has no disk: a bundle whose `ingest` returned Ok is kept until every
subscriber has resolved it, without exception. The refinement maps `kept` to what a
restart at this moment would find, in segment files or by replaying the log (`Kept`).
The code breaks this promise in three ways, each behind a constant: a crash in the
middle of a rotation (`CrashMidRotation`), a crash that leaves a partly purged log
(`CrashPartlyPurged`) and a segment write that fails in a running engine
(`SegmentWriteMayFail`). The passing run and the theorems that state the promise switch
them off; section 6 reports them. `at_risk` is history: the bundles of segment writes that
failed in this process, and those of earlier ones that are lost.

### TopicBroadcast

`FastBroadcastRing`, `BroadcastSubscriberRegistry` and `TrackedPublishTracker` of a
broadcast-only topic in `all` mode. A publisher reserves, registers, inserts and
commits in separate steps; a subscriber loads `write_seq`, reads the slot, and on
lag passes the registry barrier or leaves the registry and then scans the tracker;
answers, the timeout worker and `close` run in between. Memory is sequentially
consistent. A message is named by its ring sequence. Merged into one step: the
closed check with the reservation, registering a waker with the last read, the
drain and the resolutions of `close_all` with closing the ring, an ack's change of
the entry with the removal from the map. `first` mode, balanced and mixed topics are
left out.

## 3. Runs

| Run | Bounds | States | Shows |
|---|---|---|---|
| `local_mpsc` | 3 producers, capacity 2, 3 waits | 66050 | type, capacity, no stranded waiter, sound waiter table, receiver wake, FIFO grants, every blocked send resolves |
| `control_channel` | 2 senders, capacity 2, batch 2, burst 3 | 50010 | fairness, lifecycle order with nothing left at the end, nobody sleeps through the close, shutdown delivered |
| `control_channel_cancel` | 3 senders, capacity 1 | | violation, finding 1 |
| `fanout` | all valid configurations of 1 to 3 destinations but two patterns (section 6) | 126574 | one justified outcome, fallbacks only when triggered, what is in flight is accounted for (deadline armed, one at a time in sequential mode), no request forgotten, every request resolves |
| `fanout_stuck` | sequential, primary not first | | violation, finding 2 |
| `node_inbox` | burst 2, 2 slots, 2 resumes, 1 data message queued, 3 control messages | 370094 | no data abandoned, bounded bursts, shutdown released |
| `node_inbox_resume` | burst 2, 1 slot | | violation, finding 3 |
| `pipeline_ctrl` | 2 receivers, a processor, an exporter, channels of 1 message, 2 pressure transitions, 1 timer request, 1 due pass | 303626 | downstream shutdown after ingress, no node left uninformed, pressure never goes back and arrives, an accepted shutdown stops every node |
| `quiver_engine` | 4 bundles, rotation at 1 entry, 1 rotated file, 1 subscriber, 1 crash, 1 failed write | 571044 | refines `DurableLog`, honest progress files, nothing skipped, cursors accepted, the backlog drains |
| `quiver_truncation` | 5 bundles, 2 rotated files, 1 crash with a partly purged log | | violation, finding 4 |
| `quiver_failed_write` | 2 bundles, 1 failed segment write, no crash | | violation, finding 5 |
| `topic_broadcast` | 2 publishers (one tracked), 2 subscribers (one subscribes at any time), 2 slots, 3 publishes, 1 fault | 3559098 | members are readers, no silent member, final outcomes, no stuck publish |

Why the bounds are enough:

- `local_mpsc`: capacity 2 is the least at which the notification rule of
  `try_recv` (notify at capacity-1 and at 0) has two different cases, and three
  blocked sends the least that reuse a slot while a stale key of it is queued and
  another waiter lives.
- `control_channel`: a burst limit that is no multiple of the batch makes the cap of
  the last batch matter; two senders, so that one can close while the other sleeps.
- `fanout`: three destinations are the least with a chain of two fallbacks or a
  fallback beside an independent destination; `MaxClones` (requests times
  destinations) leaves four requests to one destination and two to two, which
  exercises `max_inflight`, unlimited (0) for two destinations and 1 otherwise.
  Timeouts are set for all or none.
- `node_inbox`: a burst limit of 2 with three control messages lets the counter
  saturate and continue; a data queue of 1 is empty, full and closed in every
  combination.

- `pipeline_ctrl`: channels of one message are full most of the time, so buffering,
  retry and overtaking happen at once; two transitions are the least in which an
  older one can arrive late, two receivers the least in which one drains first.
- `quiver_engine`: four bundles rotate and purge the log, fill it (`WalAtCapacity`)
  and leave one to ingest after a restart. Excluded are the three things that break
  the refinement (section 6): a crash with a partly purged log (`CrashPartlyPurged`,
  finding 4), one in the middle of a rotation (`CrashMidRotation`), and a segment write
  that fails in a running engine (`SegmentWriteMayFail`, finding 5); cursor writes may
  fail, and so may a segment write during replay, which makes `open` fail. `MaxEvents`
  leaves out the fourth ingest after both a crash and a failure. One-off
  instances passed too: without this bound; with failed segment writes, for the five
  other properties; and with two crashes or two failures, for the invariants.
- `topic_broadcast`: three publishes on two slots are the least that lap a delayed
  publisher and a slow reader. A fault is a drop, an expired deadline or a close.

Deadlock checking is off in all runs: every system may rightly stop (handles
dropped, inbox closed, bounded requests all answered). Progress is stated by the
liveness properties instead.

## 4. Fairness

- `local_mpsc`: a woken send future is polled or cancelled, and the receiver keeps
  receiving while it exists. This is the channel's own requirement ("Progress
  requires notified futures to be polled or canceled", `mpsc.rs`).
- `control_channel`: the node polls its control receiver, the executor polls woken
  senders (or they are cancelled), and the clock advances.
- `node_inbox`: the node calls `recv` again after each message, and the deadline
  passes. Control messages are finite (`MaxControls`): the code looks at the control
  queue before the deadline, so endless control traffic would delay the Shutdown.
- `fanout`: deadlines pass, the periodic timer ticks, and a destination without a
  timeout answers. A destination with a timeout may stay silent.

- `pipeline_ctrl`: the manager and the nodes are tasks of one runtime that keeps
  polling them, and a receiver bounds its drain by the deadline it was given. Nothing
  is assumed of the deadline, timers or requests.
- `quiver_engine`: the engine's task finishes what it started and flushes (the timer
  tick), subscribers keep polling, and a bundle that is deferred again and again is
  resolved in the end (strong fairness on `ResolveSome`).
- `topic_broadcast` states no fairness: its behaviours are finite, and
  `NoStuckPublish` says that while a publish is pending some thread it depends on has a
  step (`Attended`): the publisher itself, the holder of the registry lock, the
  publisher of the slot it waits for, or a subscriber. `CanStep` repeats the guards of a
  subscriber's actions; that it is their `ENABLED` was confirmed with TLC. Resolution
  itself was confirmed once with weak fairness and `~>` for one subscriber, and for two
  without faults.

No other action is fair; in particular nobody is assumed to send, close or drop.

## 5. Proofs

TLAPS checks these for every value of the constants.

**`LocalMpscProofs`**, for every finite set of producers, every positive capacity
and any number of waits: `TypeCorrect`, `CapacityIsRespected`,
`NoWaiterIsStranded`, `NoReceiverWakeIsLost`. None of the properties is inductive
alone. The invariant `IInv` adds

- `TableSound`: a slot is granted or queued, never both, and only while in use; a
  queued slot has a waker and a live entry in the queue; the free list holds
  distinct unused slots. Without it a grant could be counted for a slot that is
  already reserved, or skip a waiter;
- `reserved_slots` equal to the number of granted slots (part of
  `CapacityRespected`), so that consuming or releasing one cannot underflow it;
- `SendersCounted`: `senders` is the number of handles, so that it never
  underflows when the last one is dropped.

Each helper of the channel has a lemma saying that it takes a sound state to a
sound state (`GrantSound`, `ReleaseSlotSound`, `UnregisterSound`, `ConsumeSound`,
`RegisterSound`, `WakeAllSound`, `PopSound`, ...), and `StepIInv` combines them
action by action. The central argument is in `GrantSound` and `PopSound`: a receive
from a full buffer leaves capacity-1 values and notifies; a receive from a buffer
that is not full while somebody is queued finds, by the invariant, a grant
outstanding, which it does not consume. Whoever consumes or releases a grant
restores the invariant in the same step.

`WaiterTableIsSound` and `GrantsAreFifo` need more about the queue, `WaitersSound`: its
keys are in the order of their generations (so the front live entry is the oldest
waiter), while the channel is open a slot in use is queued or granted (`Accounted`), and
a blocked send that was not woken is queued under its
own key. Stale keys of cancelled sends stay in the queue; their generation differs from
the slot's, which is what makes a reused slot safe.

**`NodeInboxProofs`**, for every burst limit and capacity and any number of control
messages: `TypeCorrect`, `PDataIsNotAbandoned`, `ControlCannotStarveData`,
`LatchingStopsScheduler`. `IInv` adds `SchedulerSound` (a stopped scheduler stays
empty, converted resumes exist only after it was stopped) and `CounterCovers`
(while the inbox is open the messages that overtook data are at most
`consecutive_control`). The lemmas on the branches (`BurstYields`, `CloseBranch`,
...) carry the argument: what each exit of the loop has established when it is
taken.

**`ControlChannelProofs`**, for every finite set of senders and every capacity, batch
size and burst limit: `TypeCorrect`, `NormalControlIsFair`, `LifecycleIsOrdered`,
`SendersWakeAtClose`, `NoReceiverWakeIsLost`. `IInv` adds

- `PhaseSound`: the phase says which lifecycle tokens were recorded, and a delivered
  Shutdown has closed and emptied the channel; without it a finished receiver could
  leave a backlog behind;
- `BudgetSound`: the completions delivered ahead of normal control are covered by
  `completion_burst_len`, so the cap of `take_completion_batch` bounds them;
- `RoundRobinSound`: a pending class that has been passed over k times is at most
  2-k places from the cursor, which every delivery moves past the class it serves;
- `SleepersSound`: a blocked sender that was not woken is queued on an open channel
  and, once Shutdown is recorded, sleeps on its deadline too, so both ways for the
  channel to end reach it.

`WaitersFaceFullBacklog` is the positive side of finding 1: under `UncancelledSpec` a
parked send faces a full backlog or a woken sender. Woken senders reserve nothing, so the
invariant counts them (`CrowdInv`): while anybody is queued, the backlog and the woken
senders together fill the capacity, and nobody is both queued and woken
(`PlacesCovered`); the queue holds distinct senders, all blocked (`CrowdSound`). A batch
that frees k places wakes k senders or all; a woken sender that is polled gives up its
wake-up for the place it takes. A cancelled one gives it up for nothing, and that is the
only step that breaks the count. The property was model-checked under `UncancelledSpec`
first, with four senders, capacity 2 and batches of 2 (46368 states up to symmetry).

**`TopicBroadcastProofs`**, for any publishers, subscribers, number of publishes and ring
of two or more slots: `TypeCorrect`, `SnapshotMatchesRing`, `MembersStayReachable`,
`OutcomesAreFinal`. A publisher takes its sequence and its snapshot under the registry
lock, inserts the entry later and commits later still; the invariant says what holds in
between:

- `PublishersSound`: publishers own distinct sequences, the lock is held exactly
  between snapshot and insertion, and the entry being prepared has the registry of
  that moment as members;
- `EntriesSound`: such a sequence is in no slot, no permit and no answer yet;
- `SubscribersSound`: where a subscriber is in reading, lagging or leaving against its
  cursor, its threshold and the registry;
- `MembershipSound` and `AnswersSound`: the two properties from the moment of the
  snapshot on, where a member that has left but not yet nacked waits for the lock.

`NoSilentMember` is preserved by the lag path because the scan runs after the barrier
(the lock was free once), so an entry claimed before it has been inserted.

`PublishesAreAttended` proves `NoStuckPublish`. Its invariant adds to the above

- `PendingLocated`: a pending publish misses an answer of a member, and its entry is in
  the map, on its way into it, or taken out by a thread that is about to resolve it;
- `RingHonest`: a slot holds only sequences of its own residue, and the slot of a
  reserved sequence has reached it unless its publisher is still on the way. Two
  sequences of one slot are at least a ring apart (`SameSlotApart`), so a subscriber
  that finds a newer one has been lapped and takes the lag path;
- `SleepersSound`: a parked subscriber has its waker in an open ring, holds no permit,
  and its next message is not there to be read. What it misses is therefore still with
  a publisher, or handed out to it and waiting for its answer.

**`PipelineCtrlProofs`**, for any receivers and nodes and every channel capacity:
`TypeCorrect`, `ReceiverFirst`, `PressureMonotonic`. `ChannelsSound` says of every
message on its way to a node, in its channel or buffered, that it may still arrive
without harm (`Admissible`): a Shutdown for a downstream node exists only when ingress
is closed or the deadline has passed, a pressure transition is not newer than the last
published. `ReportsSound` says of a ReceiverDrained report that its receiver has
stopped, `DrainSound` that receivers no longer waited for have. The lemmas on
`SendAll` and `Retried` show that trying the channel first and buffering on Full keeps
this whatever the order.

`NobodyIsUninformed` says the opposite, that nothing gets lost: while the manager runs,
the last pressure transition it saw, the drain of a receiver and the Shutdown of a
downstream node have each been applied or are in the node's channel or buffer. `InfInv`
follows a message from `SendAll` (sent or buffered, `SendKeeps`), through `Retried`
(`HeldSound`: what the channel does not take stays buffered), to the node that applies
it. A receiver that is told to drain, or a node of the
downstream Shutdown, is reached by the same argument (`Informs`). With fairness of
the nodes, which is left to TLC, delivery in `PressureFollows` and `ShutdownCompletes`
follow.

**`FanoutProcessorProofs`**, for every configuration that `validate` accepts and any
number of requests: `TypeCorrect`, `OutcomeOnce`, `FlightsAreAccounted`,
`AcksAreJustified`; and `OutcomesAreJustified`,
`FallbacksAreTriggered` for the configurations in which sequential mode lists every
fallback after its destination (`Regular`). That hypothesis is the code's own limit: TLC
refutes the second property without it (section 6). The
invariant adds

- `EntriesSound`: each tracked entry against what happened to its sends (a destination
  in flight holds no payload, has its deadline armed and, in sequential mode, is the
  one sent last), and its chains against each other (`ChainsSound`: a destination was
  tried only after all before it in its chain failed, a fallback is skipped only after
  an Ack);
- `HistorySound` and `PathsApart`: only what was sent is answered, requests to come are
  untouched, and the slim, fire-and-forget and full paths never mix.

The fallback chain is a recursive function, and the facts about it (`HopsFunction`,
`OriginAtDepth`, `OnePerDepth`, `HasFallback`) are proved without induction over data,
by a least counterexample among finitely many depths. `FailureSound` and `AckSound` then
say what one failure or one Ack does to an entry, `GlobalStep` what follows for the
whole state, and there is one step lemma per action.

`NobodyIsForgotten`, the safety half of `RequestResolves`: a request not answered
upstream waits for a destination that is in flight, has not answered, and whose answer or
timeout decides about the request. It holds whenever sequential mode awaiting the primary
sends the primary first (`PrimaryFirst`), which excludes exactly the pattern that
`fanout_stuck` refutes. `EntriesWaiting` carries it: of the chain of every awaited origin
somebody has completed it or is in flight, or, in sequential mode awaiting all, the
origin is still queued; sequential mode always has a destination in flight; and some
awaited origin is not completed (`Waiting`).

**`QuiverEngineProofs`**, for any number of bundles, subscribers, crashes and failed
writes and every size of the log: `TypeCorrect` and `ProgressIsHonest`, whatever a crash
leaves behind, and `CursorsAreAccepted` for a log that no crash leaves with a half-made
rotation or partly purged (`WholeLog`). That hypothesis is the one the passing run makes
by its constants; without it the property is about the positions finding 4 shows to be
wrong. The invariant of the first two (`IInv`) adds

- `NumbersSound`: no file, subscriber or progress file names a segment from the number the
  engine is about to use on (`Above`). A failed write uses its number up, a restart
  continues after the largest number that a file or a progress file still names: this is
  why an old progress file never vouches for a new segment;
- `JobSound`: the bundle and the segment the engine's task is working on exist.

`CInv` is about the log: rotated files are not empty and follow each other without gaps
(`LogSound`), the positions the writer adds up from file sizes are the ones in the headers
(`PositionsSound`), and a cursor waiting to be persisted, in the open segment, in a
finalization under way or in an entry still to be replayed, lies between the writer's
cursor and the end of the log (`CursorsSound`). Order and length of what is read back
(`ReadOrder` ranks files by their headers) are proved by counting, without induction.

**`QuiverDurabilityProofs`** shows on top of it, for the same constants and under
`WholeLog`, three things. `OnlyFailedWritesLose`: what a restart would not find are
bundles of a segment write that failed in a running engine, and no others.
`NothingLostWithoutFailures`: when none can fail (`~SegmentWriteMayFail`), nothing
accepted and still needed is ever out of reach (`TruncationSafe`). `EngineIsDurable`:
the engine then implements `DurableLog`, step by step (`StepMaps`; one lemma per kind of
abstract step). Findings 4 and 5 show that neither hypothesis can be dropped. `DInv` says
where an accepted bundle is between any two writes:

- `Durable`: an accepted bundle that is neither resolved by everyone, nor in a segment
  file, nor at risk, is an entry of the log at a position no cursor has passed, the
  sidecar's nor the writer's (`KeptAt`); and while the engine runs it is also in memory,
  in the open segment or in the segment being written, or replay has yet to read it
  (`Held`). The second half is what makes it inductive: when the cursor of a segment is
  persisted, nothing but that segment was in memory, and its file is on disk, so no
  entry that is still needed is passed;
- `IngestDurable`: the same for the bundle whose `ingest` is about to return Ok;
- `ReplaySound`: replay reads what lies after its position in order and skips nothing;
  what it has not read yet is read ahead or in a file still to be opened;
- `SidecarSound`: the sidecar is not beyond the log, so that replay starts at it;
- `TrackingSound`: every subscriber tracks every segment in the store, so that
  `DeleteBoundary` reclaims only what all of them have resolved (with
  `ProgressHonest`).

`InLogReplayed` and `ReplayedInLog` connect this with what a restart reads: an entry from
the sidecar's position on is among the `Replayable` ones, because files apart from an
empty one in the middle of a rotation are read in the order of the log (`FilesApart`).
The invariant was model-checked first, also with two entries to a file, which the run
does not have.

`BacklogIsOffered` is the safety half of `BacklogDrains`: under the same restriction, an
accepted bundle that a subscriber of a running engine has not resolved is pending for it
or in its hands, or it is not yet in a segment file, or it belongs to a segment or cursor
write that failed. Activation after a restart is where it could break: the progress file
decides what is no longer offered, and `ProgressHonest` says that it is resolved.

Assumptions: only the named `ASSUME`s on constants (positive capacities and
limits, finite sets, `NoWaker` no producer); every run evaluates them.

Only model-checked: the liveness properties (`BlockedSendResolves`, `ShutdownDelivered`,
`ShutdownReleased`, `RequestResolves`, `PressureFollows`, `ShutdownCompletes`,
`BacklogDrains`), because the prover does not handle fairness. For most the safety
half, that whoever waits is never left without somebody who will act, is proved:
`NoWaiterIsStranded`, `SendersWakeAtClose` and `NoReceiverWakeIsLost`,
`NobodyIsForgotten`, `NobodyIsUninformed`, `BacklogIsOffered`, `PublishesAreAttended`.
Every invariant that a passing run checks is stated by a theorem. The violations of
section 6 are shown by their runs. Facts that need induction over data, and recursive
operators, are out of the prover's reach; the modules avoid them.

## 6. Findings

1. **Cancelled control send loses a wakeup** (`control_channel_cancel`). A sender
   woken for a freed place and dropped before it is polled does not pass the wakeup
   on; another blocked sender stays parked although there is room. The MPSC channel
   avoids exactly this with reservations. `WaitersFaceFullBacklog` shows that nothing but
   a cancellation has this effect.
2. **Request stuck** (`fanout_stuck`). Sequential mode awaiting a primary that is
   not first: the failure of an earlier destination is ignored, and the request is
   neither continued nor answered.
3. **Resumes dropped at shutdown** (`node_inbox_resume`). When the data channel
   closes while a shutdown is latched, two exits deliver Shutdown without looking
   at the scheduler, and the payloads it retained are lost before the deadline.
4. **Truncation deletes entries that no segment holds** (`quiver_truncation`). After a
   restart the WAL writer counts the positions of the rotated files it finds from zero,
   although the first ones have been purged; replay takes positions from the headers.
   The cursor of the first replayed segment is then beyond the writer's end of a file
   that still has entries to replay, and the file is purged.
5. **A failed segment write loses accepted bundles** (`quiver_failed_write`).
   `finalize_segment_impl` takes the open segment and its cursor before it writes. When
   the write fails, nothing keeps the cursor back for the bundles that are only in the log
   now: the next segment that is finalized persists its later cursor, and no restart
   finds them. `ARCHITECTURE.md:78-82` says that "Truncation never removes WAL entries
   belonging to" a "segment whose file/metadata durability has not been confirmed", the
   error message itself "data may only be recoverable via WAL replay" (`engine.rs:1353`).
   A crash before that next finalization does recover them, and `OnlyFailedWritesLose`
   proves that no other bundle is touched.

The `fanout` run excludes the configurations of 2 and of the first item below, the
`quiver_engine` run the restarts of 4 and the failures of 5, so that their properties say
what does hold.

Noticed without a run of its own:

- An untriggered fallback is sent. In sequential mode `process_ack` advances to the first
  `PendingSend` destination (`fanout_processor/mod.rs:799`), an untriggered fallback
  included. With destinations A, F (`fallback_for` B), B the Ack of A sends the request
  to F although B was never tried, and F's Ack completes B's origin: with `await_ack: all`
  B is then dispatched just before the upstream Ack and not awaited, with `await_ack:
  primary` and B the primary it is not sent at all. The code says "Fallback destinations are
  only sent when triggered." (`mod.rs:517`), its README "Fallbacks are **not sent
  initially** (held in reserve)" and "**Fallbacks are only triggered on failure**"
  (`fanout_processor/README.md:169`, `193`). `Configs <- FallbackFirstConfigs` with
  `INVARIANT FallbackOnlyWhenTriggered` in the cfg of `fanout` shows it in two steps.
- A crash between the rename of a rotation and the creation of the new file also breaks
  `TruncationSafe`: `open` creates an active file whose header starts at 0, and a later
  replay, which has read the rotated file by then, skips its entries. Setting
  `CrashMidRotation` in `MCQuiverTruncation.cfg` shows it in 20 steps; the passing run
  excludes it.
- A Quiver log that is full while the open segment is empty refuses every further
  ingest; nothing is left to finalize that would purge it.
- At the deadline the control manager drops what is still buffered, so a receiver whose
  control channel stayed full is never told to stop (the exception in
  `ShutdownCompletes`). `engine/README.md:565-567` says otherwise: "If the shutdown deadline
  expires, receivers may force-resolve remaining receiver-local waiters and the runtime
  control manager forces the remaining nodes to exit."
- A lagging subscriber nacks what it owes before its new position, messages it has read
  and is still processing included; the comment on `nack_owed_before` speaks of messages
  overwritten before they could be read.
- The fan-out README says that a full `max_inflight` nacks, the code applies
  back-pressure; with `await_ack: primary` a non-primary Nack does not trigger that
  destination's fallback; a sequential request whose primary comes first is finished by
  the primary's Ack without being sent to the others; Shutdown drops tracked requests
  silently.

## 7. Plan

Done so far: the channels, the inbox, the fan-out processor, `TopicBroadcast` and
`PipelineCtrl` and `QuiverEngine`, all with proofs of the safety properties that their
runs check, the refinement of `DurableLog` included. What would follow, in order:

1. `RetryProcessor` composed with the completion dispatcher (frames) and the
   scheduler's refusal. Properties: a final outcome reaches upstream once; retries
   stay within the limit in force.
2. Two concurrent ingests in `QuiverEngine`; `DropOldest` and `max_age` retention; the
   durable buffer's own retries and shutdown drain.
3. Balanced and mixed topics.

## 8. Not modelled

- Codecs, Arrow transformations, query engine, exponential histograms, and the
  routing, filtering, aggregation and sampling processors: large data and no
  protocol; their correctness is about values TLC cannot enumerate.
- Receivers, exporters, the file-log checkpoints, admin, telemetry, configuration
  parsing, controller and runtime wiring: I/O and executor behaviour around the
  protocols modelled here.
- The MPMC channel, the memory limiter's sampling, indexed heap and batch processor:
  candidates after the plan; the reason for each is in `PROJECT.json`.
- Most of the repository by volume is of the first two kinds: the modules cover the
  concurrent and persistent core of the engine, not its size.
- The Go implementation under `src/go`: a separate producer and consumer.

## 9. Running

    tlc -workers 2 -config MCLocalMpsc.cfg MCLocalMpsc
    tlapm LocalMpscProofs.tla
