# TLA+ models of mfsk-core's FT8 stations

mfsk-core is a library of weak-signal radio modes and, under `embedded-poc/`, the
firmware of small FT8 stations built on it (M5StickS3, CoreS3, Core2).  The
library is signal processing; what can go wrong in ways no unit test meets is
in the stations: threads that share one QSO machine, a slot grid that steers
itself, two cores that share the decode of a slot, a Bluetooth link to a radio
that must not stay keyed, a USB audio device that comes and goes, and a contact
protocol on a band that loses half of what is sent.  This directory models
those parts, checks them with TLC and proves what holds for every instance with
TLAPS.

Source paths below are relative to `src/`; `s3/` stands for
`embedded-poc/m5stack-s3-app/src/`, `cores3/` for
`embedded-poc/m5stack-cores3-app/src/`, `shared/` for
`embedded-poc/mfsk-app-shared/src/` and `emb/` for
`embedded-poc/embedded-shared/src/`.

## 1. Inventory

| Component | State | Operations | Interacts with | What is hard |
|---|---|---|---|---|
| QSO machine, `shared/qso.rs`, `shared/parity.rs` | `QsoManager`: state, partner, report, retry counter, auto-CQ, two slot parities | `call_cq`, `call_station`, `process_message`, `on_period_end`, `pick_tx_intent`, `finish_self_tx`, `set_auto_cq`, `reset` | one `Arc<Mutex<_>>` used by the decode task, the transmit thread and the menu | fields left over from the last contact; retries counted by two threads |
| Station threads of `BootMode::Qso`, `s3/audio.rs`, `s3/decode_pipeline.rs`, `s3/display.rs` | captured slots, published slot, gate, PTT target, sync reset flag, demo flag | capture loop, `tx_scheduler_pick_intent`, `do_tx_cycle`, decode loop, buttons and menu | QSO machine, CI-V link, slot queue, UI state | 12.6 s between picking an intent and finishing it; error exits with the radio keyed |
| Mutexes, the same files and `shared/ui/menu.rs` | UI mutex, manager mutex | lock scopes, some nested | every thread | lock order |
| Slot self-synchronisation, `s3/audio.rs`, `s3/decode_pipeline.rs`, `shared/time_sync.rs` | slot phase, slot length correction, shift mailbox, best-N and drift counters | end of slot, decode and correct, manual mark, transmission | capture thread and decode task through atomics | a feedback loop with a delay of two slots; stale corrections |
| CI-V link, `s3/civ.rs` | targets, what was last sent, link and pairing flags | session life cycle, command loop, callbacks, restart | transmit thread, menu, radio | writes without response, late callbacks, restarts |
| Activator, `shared/activator.rs` | phase, partner, waiting, logged and dropped callers, counters | `start`, `stop`, `decide` | decodes of a period, log | lost RR73, late decodes, full lists, fairness to weak callers |
| Menu and boot modes, `shared/ui/menu.rs`, `shared/boot_mode.rs` | cursor, NVS mode | `activate`, `flip_and_restart` | UI mutex, manager | restart with locks held |
| Slot pipeline, `emb/stage1_inc.rs`, `emb/pipeline.rs` | audio double buffer, spectrogram in progress, three queues | ingest, emit speculative bundle, finalise, reset | capture thread, decode task | a buffer is handed over before it is full and reused while it may be held; two queues matched by order only |
| Dual-core decode, `emb/dual_core.rs` | job and result queue, shared candidate array, deadline | coarse, fine, refine and decode stages; late candidates and retries | decode task and worker core, slot pipeline | both cores claim from one array; every stage can be cut by the clock |
| USB audio link of the CoreS3, `cores3/uac.rs` | reader gate, stop flag, re-open counter, screen state, event channel | driver callbacks, `app_task`, reader thread and its guard | USB host stack, slot sink, screen | detach, stall and re-attach at any moment |
| Slot grid of the CoreS3, `cores3/uac.rs`, `cores3/decode_pipeline.rs`, `shared/grid_state.rs`, `shared/time_sync.rs` | slot length, shift mailbox, capture ring, lock state, pool of decode times | end of slot, trim, lock, acquire, NTP | audio sink and decode task through atomics | corrections measured on slots older than the last correction |
| CoreS3 and Core2 applications, the rest | screens, log storage | start-up, the same decode loop | as above | FT4 slots |
| mfsk-core library | none that lasts (hash tables aside) | decode, encode, FEC, message packing | called by everything | numerics |
| C ABI and bindings, `mfsk-ffi` | handles | create, feed, decode, free | host programs | handle life cycle |

`PROJECT.json` lists every component with its files, whether it is modelled and
why not, and the hazards of the code at the lines where they bite.

What makes each modelled part correct:

* QSO machine: a contact stays within its retry budget and with its partner; a
  parity locked during a contact stays as it is until the contact ends; nothing is sent without addressee and report.
* Station: however the threads interleave, the shared machine moves only as the
  sequential one could; the radio is keyed only with the microphone muted and is
  always unkeyed again; an unanswered contact ends.
* Mutexes: nobody waits for himself, everybody is served.
* Self-synchronisation: corrections never lose the band and converge.
* CI-V: commands go only to a radio that granted the connection; the memory of
  what was sent is true; the radio ends in the state that was asked for.
* Slot pipeline: every captured slot is decoded once, in order, from its own
  audio, and nobody waits for ever.
* Dual core: no candidate is tried twice or forgotten, the worker is idle between
  stages, the best candidates get in, and a slot's decode ends.
* USB link: the reader gate and the open handle always have one owner; a radio
  that stays attached is read again.
* Slot grid: an acquisition in flight has a capture; the band is found and kept.
* Activator: whoever has us in his log is in ours, with his report, whatever is
  lost or late; a contact is not interrupted; the target is kept; nobody is starved.

## 2. Plan

Order of work, most important behaviour first.

1. Done: `QsoManager`, `QsoStation` (refines it), `StationLocks`, `AutoSync`,
   `CivLink`, `Activator`, `Activation` (composes it with callers and a band),
   and the proofs of the first three and of `CivLink`.
2. Done: `SlotPipeline` against the abstract `SlotStream`, `DualCore`, the two
   cores behind the decode task, `UsbLink` and `GridSync` of the CoreS3, and the
   proofs of the last two.
3. Done: the proofs of `ImplementsStream`, `DualCore`, the Activator and the edge
   detector of `CivLink`.
4. Done: the proofs of `AutoSync` (`NeverDeaf`, under the condition on the numbers
   that `Margins` states, transmissions included) and of `Activation` (`InOurLog`,
   and `ReportKept` with the lists large enough for every caller).
5. Left out for now: the transmit-only boot mode's thread
   (`s3/tx_scheduler.rs`), the callsign hash table and the session handles of the
   C ABI.  They are sequential and their state is small.

## 3. Modules

| Module | Models | Composed from |
|---|---|---|
| `QsoManager` | `QsoManager` and its critical sections | |
| `QsoStation` | audio, decode and display thread of `BootMode::Qso` | extends `QsoManager`, implements `FsmSpec` |
| `StationLocks` | lock scopes of the four threads | |
| `AutoSync` | capture thread and decode task as a control loop | |
| `CivLink` | `ble_thread`, callbacks, radio, restart | |
| `SlotStream` | what the slot pipeline promises | |
| `SlotPipeline` | capture thread, `stage1_inc` and decode task with their queues and buffers | implements `SlotStream` (`INSTANCE ... WITH`) |
| `DualCore` | `run_speculative_slot` on two cores, one slot | |
| `UsbLink` | USB device, driver callbacks, `app_task`, reader threads | |
| `GridSync` | `Ft8ChunkSink`, `GridState`, trim and cold acquisition | |
| `Activator` | `Activator::start`, `stop`, `decide` | |
| `Activation` | callers and a lossy band around it | extends `Activator` |
| `QsoProofs` | theorems of `QsoManager` and `QsoStation` | extends `QsoStation` |
| `StickProofs` | theorems of `StationLocks` and `AutoSync` | extends both |
| `CoreS3Proofs` | theorems of `UsbLink` and `GridSync` | extends both |
| `ActivationProofs` | theorems of `Activation` | extends it and `ActivatorProofs` |
| other `*Proofs` | theorems of the module they are named after | extends it |
| `MC*` | instances for TLC | |

The "map" of `PROJECT.json` gives the source lines of every definition.  How
state and actions correspond:

**QsoManager.**  `qso` is the struct.  Every method is an operator on the record,
and an action is one critical section: `Receive` is `process_message` as the
decode loop calls it, `CloseSlot` the end of the loop body (`on_period_end` and
the auto-CQ restart), `PickTx` `tx_scheduler_pick_intent`, `FinishTx` the end of
`do_tx_cycle`, `CallStation` and `SetAutoCq` the buttons and the menu.  A decoded
text is what its handlers tell apart: addressed to us or not, sender, and kind of
third word.  `Clip` is the cut to `String<11>`, which the code applies when it
stores a callsign and not when it compares one.  `SlotOf` says under which slot
parities a station may be captured.

**QsoStation.**  The audio thread's `txpc` walks through `do_tx_cycle` one store
to shared state at a time, with its error exits; the other two threads run
between any two of them.  A slot is the parity of its `wav_idx`.  Time is one
bit, whether the published slot is still within `TX_LAUNCH_DEADLINE_US`.

**StationLocks.**  A thread is at a lock scope of its loop; `Nest` gives the
mutexes a scope takes, in order, `Successors` where the loop can go next.  Of the
data under the UI mutex `menu` is kept, hidden at power-on: a long press shows it,
a short one moves the selection over `MENU_ITEMS`, and only the selected entry can
be activated.  `Booting` says whether the decode task starts in the section before
its loop.  How a mutex is taken is the standard library's business (`Acquire`,
external).  The module is small enough to be its own TLC instance.  In
Acoustic the decode task has a manager of its own (`run_with_source` passes
none), in Qso the shared one.

**AutoSync.**  `phase` is how far the slot being captured is off the band, in
tenths of a second.  `SlotEnd` hands a slot over and takes the mailbox as the
length correction of the new one; `DecodeSlot` runs the tiered drift logic and
posts a shift; `ApplySyncReset` is the manual mark, `Transmit` the gap left by
`do_tx_cycle`, after which the slot is restarted without a new index; what
`stage1_inc` had of the slot stays in front of the new audio (`carry`), so the
first slot after a transmission is measured too late by as much.  A slot nobody
can be heard in may still have sync candidates: noise gives them a median, which
`bootstrap_dt_med` passes on, so before a lock the loop follows it; `noise`
remembers that it did, until the next manual mark.

**CivLink.**  `spc` is the place of `run_session`.  Each command field is loaded,
written and remembered in separate steps, so `set_ptt` and `set_band` fall in
between.  Writes travel in `air` and are lost with the link.  The radio, marked
external, grants a connection when it gets the pairing request and obeys only
granted ones.  `Reboot` is `esp_restart`.  One host task delivers the stack's
events in order, so a connect is reported after the disconnect before it
(`Connect`).

**SlotPipeline.**  A slot is a few parts of audio, each tagged with the slot and the
take it was recorded in, so that what a decode reads shows whose audio it was.
`SendSamples` and `SendSlotEnd` are the capture loop, `Ingest`, `EmitSpecBundle`,
`TakeSlotEnd` and `FinalizeSlot` the worker of `stage1_inc`, which emits the
spectrogram at a pair short of the end and swaps buffers at `SlotEnd`; the decode
task takes a bundle, then a slot, and reads the buffer both point into.  `Timely`
is the one assumption that is not code: a decode is over before the slot after
next begins; with `Lag = 3`, one slot later, TLC finds `OneRecording` violated by a
buffer refilled under the decode.  `StickNext` adds the manual mark and the transmission of the
M5StickS3.  In `SlotStream` a slot is captured, then decoded from one take of its
own audio or given up.

**DualCore.**  `m` holds the locals of `run_speculative_slot`, `job`, `busy` and
`reply` the worker's queues, `slots` and `next_idx` the array both cores claim
from; a claim, the deadline check before it and the decode after it are separate
steps.  A scenario fixes what the signal processing would say (scores, fine
positions, which windows fit the prefix, what decodes) and the times.  The filters,
sorts and heaps of the refinement are recursive functions and a `CHOOSE` of the
least, `Kept`, `Ranked` and `Heap`.

**UsbLink.**  `app` is where `app_task` is, `reader` the reader threads; each store
to `READER_ACTIVE`, `READER_STOP_REQUESTED`, `REOPEN_ATTEMPTS` and `UAC_STATE` is
a step of its own, and `Attach`, `Readvertise`, `Detach` and `Silence` fall between
any two.  The guard's drop is three steps: release the gate, count, post the
event after its sleep.  The read watchdog compares the time with that of the last
data, taken before the chunk is pushed: `dry` counts reads that timed out, and a
push blocked on a full queue for as long as the watchdog waits fills it too, so
the loop's next turn ends the session (`Push`, `Poll`).  `HostUp` is the
successful end of `start_host`; its error returns, after which there is no USB
for the session, are not modelled.

**GridSync.**  `phase` and `move` are the DT of the slot being captured and what
its length is changed by; `SlotEnd` takes the mailbox or, under NTP, the UTC
error (`UtcMoves`: within the dead zone a fine step, which may lengthen the slot,
or none; beyond it the slot ends on the next boundary).  A grid nothing has placed
is anchored in the middle of a slot, which then ends on the boundary ahead or,
when that has passed, runs over to the one after (`AnchorMoves`).  `DecodeSlot` is the body of the decode loop from the pooled decode times
to the acquisition check: trim, `observe_slot` (`ObserveSlot`, `Action`), arming
the ring, taking it when 25 s are in it.  The trials run while `busy`, slots
queue up behind them, and `AcquisitionApplied` posts the phase the ring was
recorded at.

**Activator.**  One record for the struct; `decide` and everything it calls are
operators of the same names.  Where the code stores a period number and compares
differences, the model stores the difference, capped one above the limit it is
compared with.  `retain` is `Vec::retain` and `queue_others` the loop over the
batch, both recursive functions over the list, so that they can be proved about.  The pool of `next_caller_or_cq` has 24 places in the code; the
bound `MaxHeard` keeps below it.  `Activation` adds callers that follow the FT8
exchange and a band that loses transmissions both ways and delays decodes by a
period; those are external.

## 4. Runs

Passing runs:

| Run | Instance | Shows |
|---|---|---|
| `station` | a station heard under either slot index and one whose callsign is cut, heard in even slots; two decodes, one button press, two queued slots, retry limits 2 and 1 | `RetryBounded`, `PartnerKnown`, `PartnerKept`, `ParityKeptInContact`, `PttBracket`, `ImplementsFsm`, `PttReleased`, `UnansweredEnds` |
| `locks` | Qso, all four threads from power-on, every menu entry but AutoCQ in use | `NoDeadlock`, `Served` |
| `sync` | code's constants; every start phase the search sees and one where only noise is heard; 2, 3 or 5 decodes; a mark and a transmission at any time | `NeverDeaf`, `Converges` |
| `civ` | two bands, one transmission, one band change, two faults, one restart | `CommandsGranted`, `EdgeDetectorTruthful`, `RadioFollows` |
| `slots` | four slots of every length up to one part more than a buffer, queues of two | `ImplementsStream`, `EverySlotDecoded` |
| `dual_core` | four coarse cells, candidate limit 3 and 2, scenarios with shared fine positions, ties, short and absent deadlines | `WorkerQuiescent`, `NoDoubleWork`, `EveryAttemptAccounted`, `WithinBudget`, `BestRefined`, `RetriesYield`, `SlotFinishes` |
| `uac` | two addresses, threads and handles; three faults (stalls, errors, blocked pushes); one re-open; slow re-plug | `GateOwned`, `HandleOwned`, `RadioComesBack` |
| `grid` | code's thresholds in twentieths of a second; late, early and far start; medians off by 0.15 s; one mishap | `AcquiringIsCapturing`, `BandKept` |
| `activator` | three callers sending anything, target 3, every list and limit scaled down to be hit | `ActivatorTypeOK`, `PhaseMatchesPartner`, `TargetKept`, `RecentFits`, `PartnerNotQueued`, `NotInterrupted` |
| `activation` | code's constants, two callers of different strength and style, three losses, one late decode | `InOurLog`, `ReportKept`, `EveryoneWorked` |

The type invariants of `QsoManager`, `QsoStation`, `StationLocks`, `CivLink`, `UsbLink`,
`DualCore` and `AutoSync` are proved (section 5) and not repeated in their runs; `PipelineTypeOK` and
`GridTypeOK` document the state of their modules and hold in the instances of
`slots` and `grid`, where adding them as an INVARIANT checks them; the
bounds that matter are part of the properties listed above.

Why the bounds are enough.  Two decodes take the station through Calling, Report
and Final, or let a third station speak into a contact; the properties of the
machine alone are theorems for any callsigns, retry limits and number of decodes.
The retry limits of `station` are smaller than the code's but different from each
other and not zero, so each is reached and exceeded.  Two faults let one session
die and the next one be hurt by what it left; a third only repeats it.  In
`activator` the lists have one to three places so that replacement, eviction and
expiry happen; the code's sizes are in `activation`, where three losses are enough
for a contact to be dropped, taken up again and interrupted once more; what a
fourth does to `LoggedOnce` is the violation run `activation_dupe`, while `InOurLog`
and `ReportKept` are proved for any number.
Four slots pass through each of the two buffers twice, and queues of two fill
up.  In `uac` two of everything let an old reader overlap a new session, and
three faults spend the single re-open.  In `grid` the pool asks for six
observations in place of eight and keeps six in place of 32: with four decodes a
slot, two slots fill it either way.
`CHECK_DEADLOCK FALSE` is used where the system may stop: after a restart of the
board (`locks`), in a boot mode without CI-V (`civ_boot`), after the last slot
(`slots`, `dual_core`), without a device (`uac`).

`uac` assumes a slow re-plug (`SlowReplug`): the device does not come back before
the reader of its last session has gone.  `RadioComesBack` holds under it, and
section 6 says what happens otherwise.  `grid` assumes a band with stations on it: a full slot within 0.4 s of
the band decodes some, one within the search range may or may not.

The one bound that is not a bound of the code's is `Tolerance` in `AutoSync`:
2.5 s, the lag range of the coarse search.  It also decides which band the
decode task can hear at all; inside it a busy band gives two or more decodes per
slot, which is what the loop's tiers need.  The cold-bootstrap branch, a
correction from candidates without enough decodes, is therefore taken only out of
hearing, on noise; `sync_cold.cfg` has a weak band, section 6.

Fairness.  `FairStation`: the audio and decode threads are never blocked for ever
by anything but each other, and time passes, so their steps are weakly fair;
buttons, decodes and `PickIntent` are not fair, nobody has to call us.
`FairLocks`: a thread holding its locks finishes the scope (weak), and a mutex
that keeps being released is eventually granted (strong), since scopes last
microseconds and loops wait 20 ms or more between them.  `AutoSyncSpec`: samples
keep coming and decodes end.  `FairCiv`: the session, the callbacks and the
radio keep running, a dropped client's link is closed, and a transmission ends,
since `do_tx_cycle` is finite.  `FairActivation`: periods follow the
clock, and a call of `decide` returns.
`FairPipeline`: each of the three tasks runs when its queue lets it.
`DualCoreSpec`: time passes, the slot arrives and each core takes its next step.
`FairUsb`: the two tasks run and a read returns; no device has to attach.
`GridSpec`: samples keep coming, decodes and the trials of a capture end; NTP
need not come up.

Every property of a passing run is broken by at least one mutant of a mapped
definition, listed in `PROJECT.json`.

## 5. Proofs

All theorems hold for every value of the constants, under the assumptions named
in the modules (`RetryAssumption`, `CallAssumption`, `SlotAssumption`,
`StationAssumption`, `LocksAssumption`, `CivAssumption`, `UsbAssumption`,
`GridAssumption`, `PipelineAssumption`, `ScenarioAssumption`,
`ActivatorAssumption`, `ActivationAssumption`, `AutoSyncAssumption`), which TLC
evaluates on the instances.

Loops over lists.  The induction theorems of the library take an operator as
parameter, which the provers cannot instantiate.  `DualCoreProofs` and
`ActivatorProofs` instead derive induction for a *set* of naturals from
`NatLessThanWellFounded` and `WFMin` (`LeastNat` and `NatInd`, `Least` and
`Induction`), show that a recursive function has a solution of every length
(`KeptUnfold`, `RetainUnfold`, `QueueOthersKeeps`), and then what it computes.  So
filters, sorts, heaps and queues are proved for lists of any length.

* `QsoProofs!FsmInvariant`: `[](QsoTypeOK /\ RetryBounded /\ PartnerKnown)`.
  The three are inductive only together: a counter within its budget after a
  state change needs the handlers to reset it, and a known partner needs the type
  of `dx_call`.  `Good(q)` says the same of a record; each method has a lemma that
  it keeps a good record good, and `StepGood` combines them.
  `FsmPartnerKnown` states the third part by itself.
* `FsmPartnerKept`, `FsmParityKeptInContact`: the two action properties, from
  relations between the record before and after a method.  The second says that
  while the machine stays in a contact neither parity lock changes once it is set;
  what happens to the locks between contacts is the subject of
  `AnswersOutsidePeerSlot`, section 6.
* `QsoProofs!StationImplementsFsm`: every step of the three threads is a
  step of the sequential machine or leaves it alone.  Needs `SlotTypes` (indices
  handed between threads are parities) and `Good`.  `StationInvariant` follows.
* `StationPttBracket`: from `Bracket`, which says for each place of `do_tx_cycle`
  whether the radio is keyed and the gate open.  `PttBracket` itself is not
  inductive: it does not say that the radio is keyed only between `key` and
  `unkey`.
* `StationTypeCorrect`: types, and the bound on the slot queue.
* `StickProofs!LocksNoDeadlock`, assuming `SafeMenu` (Acoustic, or no AutoCQ entry):
  it rests on an invariant of the lock scopes (`InOwnCode`, threads stay in their
  code, and `WithinScope`, they hold what their place says).  A thread
  that holds one mutex and waits for another that is taken can only be the decode
  task, so in a group of threads waiting for each other everybody waits for it,
  and it cannot wait for itself.  Without `SafeMenu` the run `locks_auto_cq`
  shows the deadlock, so the assumption is the exact condition.
* `StickProofs!AutoSyncNeverDeaf`, assuming `Margins`: nothing the loop measures or
  decides takes a grid that is inside the search window out of it, at any slot
  length, with any number of marks and transmissions, as long as it has not, out of
  hearing, followed noise since the last mark.  The loop reacts two slots
  late, so "inside the window" is not inductive: `Steered` adds that the correction
  under way, and the one due after it (in the mailbox or in a slot not yet
  decoded), leave the grid inside; `Launchable` that this is still so after a
  transmission launched from the slot being captured, whose jump the corrections
  do not know of; `Ranges` bounds the audio a transmission leaves over.  `Margins`
  is what the code's numbers satisfy (`MCAutoSync` has TLC evaluate it): three
  corrections and the left-over audio fit the window, a jump and one correction
  fit it exactly (2.5 s), and a manual mark is within it by one correction.  It is
  needed: with a mark 0.1 s further off, TLC finds a correction from before
  the mark and a transmission in the marked slot that together leave the window.
* `AutoSyncTypes`, assuming only that start phases and launch delays have the types
  the code gives them: the mailbox and the correction under way stay within
  `MAX_SHIFT` and the streak counter in its byte; it needs that the number of marks
  seen so far and of presses left never exceeds `MaxPresses`.
* `CivLinkProofs!CivTypeCorrect` and `CivCommandsGranted`.  The strengthening
  `GrantInv` ties grants to connections: a notification under way belongs to a
  granted connection, a grant to a link that is up, and from the pairing request
  on a set `PAIR_STATE` bit means that this connection is granted.  It would fail
  if `PAIR_STATE` were cleared only at the end of a session.
* `CivEdgeTruthful`: what the command loop remembers of a field is its newest
  write in the air, or what the radio has when none is.  Stated by position
  (`Newest`), it is inductive with `GrantInv`: a write the radio receives is obeyed
  only when the connection is granted.
* `CoreS3Proofs!UsbTypeCorrect`, `UsbGateOwned` and `UsbHandleOwned`, for any
  number of addresses, threads and handles and any budget.  Ownership of the
  handle is not inductive alone: `Owners` adds that an open handle means no stop
  request is set, that none is set when `app_task` opens a stream, and that a
  reader which knows its device is gone sees no open handle.
* `CoreS3Proofs!GridAcquiring`: an acquisition in flight has an armed ring or
  running trials.  Inductive with the types of the flags alone; `JudgeKeeps`, the
  lemma about one decoded slot, is where the deferral by the trim matters.

* `SlotPipelineProofs!PipelineImplementsStream`: `FairPipeline => ImplementsStream`,
  the refinement of `SlotStream`, for any slot lengths, queue depths and number of
  slots, assuming `Lag <= 2`, that is, that a decode is over before the slot after
  the next starts; with `Lag = 3` the statement is false (section 3), and the code
  has no other guard on its two buffers.  Neither stored slot numbers nor tags tie
  a bundle to its slot in the code, so the invariant has to count:
  `Bundles` and `Slots` say that the i-th waiting bundle and slot belong to the
  i-th slot not yet decoded and point at a buffer that holds its audio and
  nothing else; `Chain` and `Fed` that the chunks on the way continue each other
  and no slot ends without audio; `Timing` that audio on the way is of the two
  slots whose buffers are free; `Filling` and `Decoding` what `stage1_inc` and the
  decode task are in the middle of.  A step of `stage1_inc` that writes a buffer
  changes the other one's parity only, which is the heart of the argument.  The
  theorem is about `PipelineNext`; with the M5StickS3's marks and
  transmissions (`StickNext`) the refinement does not hold, see section 6.
* `DualCoreProofs`, all invariants of the run `dual_core`, for any number of
  cells, limits and scenarios: `DualCoreTypes`, `WorkerLeftIdle`, `ClaimedOnce`,
  `AttemptsAccounted`, `BudgetKept`, `TwoHeapsAreOne`, `RetriesGiveWay`.  They rest
  on one invariant `DInv`: `Control` (one token: while main waits, the job is
  queued, or the worker has it, or its answer waits), `Split` and `Batch` (job, worker
  and answer are about main's own stage: its half, its list, its budget), `Claims`
  (attempts made are below `next_idx`, the two cores hold different ones), and
  `Lists`, `Account`, `Budget` and `Yield` on what each stage has left to do.
  `TwoHeapsAreOne` is a theorem about data: two bounded heaps of half the
  candidates, merged, sorted and cut, keep nothing weaker than what they drop.
* `ActivatorProofs`, all invariants of the run `activator` and `NotInterrupted`, for
  any callers, strengths, capacities, limits and batches: `ActivatorTypes`,
  `PhaseIsPartner`, `StopsAtTarget`, `RecentStaysSmall`, `PartnerLeftQueue`,
  `ContactNotInterrupted`.  `Settled(a)` holds of the record between two decisions,
  `Open(a)` in the middle of one, where phase and partner may disagree; every
  method has a lemma from one to the other.  The phase is right only because every
  path that clears the partner ends in `cq`, `reply` or `finish`; the target needs
  `logged < TARGET` while the machine runs (`Under`); and the bound on the logged
  partners needs what no single field shows, that while it runs their ages are
  pairwise different (`Ages`): each decision logs at most one, time has passed
  since the last, and the expiry removes the entries whose age is no longer
  counted.  `NothingEvicted` draws the conclusion for a list of more places than
  `RECENT_TTL + 1`, as the code's is: it is never full.

* `ActivationProofs!WorkedIsLogged`: `ActivationSpec => []InOurLog`, for any number
  of callers, losses and late decodes.  `LogInv` adds that a logged partner of the
  last periods is counted, that a last message (`RR73`, `73`) on its way has a
  logged addressee, and that no partner of a running contact was sent one
  (`Unsaid`): otherwise the repetition of the last message to a silent partner
  could complete a contact nobody logged.
* `ActivationProofs!ReportIsKept`: `ActivationSpec => []ReportKept`, assuming
  `Cardinality(Call) <= DROPPED_MAX`, `RECENT_TTL > PENDING_TTL` and
  `RECENT_MAX > RECENT_TTL + 1`.  The code has 4 > 2 and 16 > 5, and places for
  four callers; with more callers than places the property is false (three callers
  and one place are enough for TLC): the caller whose entry was evicted comes back
  with RR73 and is logged without a report.  The argument follows a caller who
  starts with a report (`Reports`): once it has our R it is the partner or on the
  dropped list, with its report (`Steady`), or its contact is over (`Over`).  Then
  only copies of its RR73 can be on the way or waiting, and each finds it among the
  logged partners, because those are kept longer than a message waits (`Young`
  compares the two ages).  A decision is described once, as a relation on the sets
  of entries before and after (`Answers`, `Repeats`, `Decides3`), from which
  `Serves` follows, what it does for the callers; `NoEviction` is the pigeonhole
  argument for the dropped list.

Only model-checked: all liveness (`PttReleased`, `UnansweredEnds`, `Served`,
`Converges`, `RadioFollows`, `EveryoneWorked`, `EverySlotDecoded`, `SlotFinishes`,
`RadioComesBack`, `BandKept`), which needs fairness.
`GridTypeOK` and `PipelineTypeOK` are not properties of a run; the former is not
proved, since it needs that every pool of decode times has a median.

## 6. Where code and documentation disagree

The runs expected to be violated, each with a finding in `PROJECT.json`:

* `locks_auto_cq`, `NoDeadlock`: the menu's AutoCQ entry takes the manager under the
  UI mutex, the end of a slot takes the UI mutex under the manager.  In TLC's trace
  the operator opens the menu, moves the selection to AutoCQ and activates it while
  the decode task closes a slot: deadlock.  (The section before the decode loop
  nests the two the same way.)
* `activation_dupe`, `LoggedOnce`: `shared/activator.rs` 291 says a logged partner who
  repeats is answered without a second log; four losses let the window run out during
  another contact.

Further disagreements, stated as properties with a configuration each (TLC
reports them violated; `-continue` goes on where a configuration has two), kept
out of the list of runs to keep it short:

| Property | Configuration | Disagreement |
|---|---|---|
| `GridCentred` | `grid_centred.cfg` | `cores3/decode_pipeline.rs` 1932 clears the pool after an acquisition as pre-correction evidence and makes the trim available again (1912); the slots recorded before the shift lands refill the pool, and the trim moves the grid by the old error a second time, to the other edge of the search and back |
| `RetriesReopen` | `uac_refused.cfg` | `cores3/uac.rs` 2661 says a failed session is retried up to `REOPEN_MAX_ATTEMPTS` times; a re-open the device refuses (2839) only releases the gate, and nothing asks again |
| `RadioComesBack` | `uac_replug.cfg` | without `SlowReplug`: an attach before the old reader has left is taken for a duplicate and dropped |
| `ScreenTruthful` | `uac_screen.cfg` | "waiting" stored late by `start_host`, "streaming" after the reader has gone, and a give-up's error over a new session |
| `AnswersOutsidePeerSlot` | `qso_docs.cfg` | `shared/qso.rs` 127 says parity locks are per QSO; only the reset of an unanswered contact clears them: when the operator turns to another station (224), or a contact ends through Final (470), the old locks stay, and the next partner, on the other slots, is answered in his own |
| `RealignsAfterTx` | `sync_tx.cfg` | `s3/audio.rs` 896 says the grid realigns within one or two slots of a transmission; two transmissions two slots apart put it where nothing decodes and the loop stays frozen |
| `BootsInRx` | `civ_boot.cfg` | `s3/civ.rs` 103 says the board boots in RX; a restart while transmitting into a mode without CI-V leaves the radio keyed |
| `OneRecording` | `slots_mark.cfg`, `slots_tx.cfg` | `emb/pipeline.rs` 180 and 33: a manual mark after the bundle was sent leaves a bundle without its slot, so bundles and slots are paired one off; a transmission leaves audio of the old slot in front of the new one |
| `CutOnlyByDeadline` | `dual_core_docs.cfg` | `emb/dual_core.rs` 206 says `n_cut` is 0 when the slot finished inside its budget; retries not yet started when the slot arrives (line 904) are dropped and counted, however far the deadline is, while those stopped after they started join the late retries as line 812 says |
| `OneRetryPerCell` | `dual_core_docs.cfg` | `emb/dual_core.rs` 1063 says two cells moved onto one position share one retry; `coarse_retry_candidates` pushes the first cell once per failed copy, so the same position is tried, and counted in `n_fallback`, twice |
| `ReplyIsWhatIsSent` | `qso_reply.cfg` | `process_message` returns RR73 but `next_tx` sends 73 in Final and `s3/decode_pipeline.rs` 543 discards the returned intent, so RR73 is never sent |
| `AnsweredTwiceHeard` | `station_phantom.cfg` | `s3/decode_pipeline.rs` 182 says automatic replies are gated by a multi-slot test; the loop at 541 has none |
| `AliveAfterFlip` | `locks_flash.cfg` | `shared/boot_mode.rs` 298 says a failed flash write keeps the device alive; 314 loops for ever with the UI mutex held |
| `CorrectionsStop` | `sync_cold.cfg` | `shared/time_sync.rs` 176 says the shift goes to zero; with candidates and no decodes the delayed corrections cycle |
| `NoStaleShift` | `sync_stale.cfg` | `s3/audio.rs` 567 says no stale shift survives a manual mark; a slot being decoded posts one afterwards |
| `TxBandParityKept` | `sync_tx.cfg` | `shared/qso.rs` 80 says retries keep their slot parity; a transmission does not advance `wav_idx`, so they alternate |

## 7. Not modelled

Most of the repository's lines are the library: modulators, demodulators,
synchronisers, error-correcting codes and message packing for a dozen modes,
with their tables.  They keep no state between calls and have one thread, so a
model would be a transliteration with sample vectors for inputs; their tests
compare against recordings.  What is modelled is the control around them.


Floating-point signal processing, error correction and message packing (no
discrete control state, inputs are sample vectors), drawing, logging, Wi-Fi and
storage drivers, the bindings.  Inside the modelled parts: report values, grids
and the spelling of callsigns (no branch reads them), the I2S driver's set-up, the
bytes of CI-V frames and the GPS sentence parser, status atomics nobody reads, and
an unconfigured station (empty `my_call`), for which `process_message` ignores
every message (`shared/qso.rs` 250) and auto-CQ never starts
(`s3/decode_pipeline.rs` 145, 569), and in `GridSync` the clusters of a capture and
the trials that choose among them.
Panics inside a critical section, which would poison a mutex and stop every
thread that locks it, are not modelled either.
