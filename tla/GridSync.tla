------------------------------ MODULE GridSync ------------------------------
(***************************************************************************)
(* How the CoreS3 receiver places its slot grid on a band without a network: *)
(* Ft8ChunkSink cuts the audio into slots (uac.rs), the decode task trims    *)
(* the grid from pooled decode times, or gives it up and measures it afresh  *)
(* from a 25 s capture (decode_pipeline.rs, under the policy of              *)
(* grid_state.rs).  Both send their shift through one mailbox, taken at the  *)
(* end of a slot; once NTP has the clock, UTC owns the phase instead.        *)
(*                                                                          *)
(* The phase of a slot is the DT its decodes show: positive when it opened   *)
(* early.  A shift taken at a boundary changes the length of the slot that   *)
(* starts there, so that slot still has the old phase, and so has every      *)
(* slot on its way to the decode task.                                       *)
(*                                                                          *)
(* The signal processing is outside the model: what a slot decodes, and how  *)
(* far its median is from the truth, are chosen from the constants.          *)
(***************************************************************************)
EXTENDS Integers, Sequences, FiniteSets

CONSTANTS
  SLOT,                \* length of a slot; times share one unit
  CAPTURE,             \* ACQUIRE_CAPTURE_SAMPLES
  DEAD_ZONE, LOCK_MAX_PHASE, DT_TRIM_MIN, DT_TRIM_MIN_EARLY, DT_TRIM_MAX,
  LOCK_MIN_DECODES, ACQUIRE_TRIGGER_SLOTS, REACQUIRE_TRIGGER_SLOTS,
  DT_TRIM_MIN_OBS, DT_POOL_CAP,
  Search,              \* DT beyond which a slot decodes nothing
  Useful,              \* DT within which the stations that are there decode
  Few, Many,           \* decode counts of a poor and of a good slot
  Noise,               \* error of a median, from the stations' own clocks
  StartPhases,         \* phase at which the grid may start
  MaxMishaps           \* bound: quiet slots, skips, failed captures, drift steps

ASSUME GridAssumption ==
  /\ {SLOT, CAPTURE, DEAD_ZONE, LOCK_MAX_PHASE, DT_TRIM_MIN, DT_TRIM_MIN_EARLY, DT_TRIM_MAX,
      LOCK_MIN_DECODES, ACQUIRE_TRIGGER_SLOTS, REACQUIRE_TRIGGER_SLOTS, DT_TRIM_MIN_OBS,
      DT_POOL_CAP, Search, Useful, Few, Many, MaxMishaps} \subseteq Nat
  /\ SLOT > 0 /\ DT_POOL_CAP > 0 /\ ACQUIRE_TRIGGER_SLOTS <= REACQUIRE_TRIGGER_SLOTS
  /\ Noise \subseteq Int /\ StartPhases \subseteq Int

VARIABLES
  phase,      \* of the slot being captured
  move,       \* by how much its end is moved, 0 for a slot of nominal length
  anchored,   \* coarse_anchored: something has placed the grid
  post,       \* ACQUISITION_SHIFT_12K
  queue,      \* slots on their way to the decode task: [dt, move, late]
  ring,       \* ACQUIRE_ARMED, the capture's length, the phase of the slot it began in
  grid,       \* GridState: locked (best_n > 0), lost (lost_slots), acquiring
  pool,       \* DT_POOL
  trim_used,
  busy,       \* the decode task is working on a captured ring
  ntp,        \* clock_is_disciplined
  mishaps

vars == <<phase, move, anchored, post, queue, ring, grid, pool, trim_used, busy, ntp, mishaps>>
taskVars == <<grid, pool, trim_used>>

Abs(x) == IF x < 0 THEN -x ELSE x
(* A phase of more than half a slot is one of the neighbouring slot. *)
Wrap(x) == LET m == x % SLOT IN IF 2 * m > SLOT THEN m - SLOT ELSE m
Clamp(x) == IF x > DT_TRIM_MAX THEN DT_TRIM_MAX ELSE IF x < -DT_TRIM_MAX THEN -DT_TRIM_MAX ELSE x

(* A negative move cuts the slot's end off, a positive one is the slot's     *)
(* whole length: less than SLOT is a stub, more a slot that runs over, which *)
(* only UTC asks for.                                                        *)
Length(m) == IF m > 0 THEN m ELSE SLOT + m
Stub(m) == m \in 1 .. SLOT - 1

(* arm_acquisition: a ring that is armed already is left alone. *)
Arm(r, p) == IF r.armed THEN r ELSE [armed |-> TRUE, fill |-> 0, origin |-> p]
EmptyRing == [armed |-> FALSE, fill |-> 0, origin |-> 0]

(* Without any clock the grid is unplaced: the capture starts at once and    *)
(* the first poor slot asks for it.  With one, the sink's anchor has put the *)
(* grid somewhere near.                                                      *)
GridInit ==
  /\ phase \in StartPhases /\ move = 0 /\ post = 0 /\ queue = <<>> /\ anchored \in BOOLEAN
  /\ ring = IF anchored THEN EmptyRing ELSE Arm(EmptyRing, phase)
  /\ grid = [locked |-> FALSE, lost |-> IF anchored THEN 0 ELSE ACQUIRE_TRIGGER_SLOTS,
             acquiring |-> FALSE]
  /\ pool = <<>> /\ trim_used = FALSE /\ busy = FALSE /\ ntp = FALSE /\ mishaps = 0

Mishap == mishaps < MaxMishaps /\ mishaps' = mishaps + 1

-----------------------------------------------------------------------------
(* The sink *)

(* Mutant: a correction goes the other way. *)
Placement_reversed(acq) == IF Abs(acq) <= DEAD_ZONE THEN 0 ELSE -acq
(* A shift inside the dead zone is taken and dropped. *)
Placement(acq) == IF Abs(acq) <= DEAD_ZONE THEN 0 ELSE acq

(* What UTC makes of a slot that opens p early.  Inside the dead zone the    *)
(* blocks of the slot tell the error to the sample: it is taken out, either  *)
(* way, or is below the threshold that is worth a correction.  Outside, the  *)
(* slot ends on the next boundary.                                           *)
FineStep(p) == IF p > 0 THEN SLOT + p ELSE p
UtcMoves(p) == IF Abs(p) <= DEAD_ZONE THEN {0, FineStep(p)} ELSE {p}

(* Where a slot that is under way can still end on a UTC boundary: the first *)
(* one after it opened, or the second when that has passed.                  *)
AnchorMoves(p) ==
  IF p = 0 THEN {0} ELSE {p, IF p > 0 THEN SLOT + p ELSE 2 * SLOT + p}

(* A slot is complete.  One authority moves the next boundary: UTC once NTP  *)
(* has the clock, the mailbox before.  While the decode task is on a capture *)
(* two slots may queue up behind it.                                         *)
SlotEnd ==
  LET next == Wrap(phase - move)
  IN  /\ queue = <<>> \/ (busy /\ Len(queue) < 2)
      /\ queue' = Append(queue, [dt |-> phase, move |-> move, late |-> busy])
      /\ phase' = next
      /\ IF ntp THEN move' \in UtcMoves(next) /\ UNCHANGED <<post, anchored>>
                ELSE move' = Placement(post) /\ post' = 0 /\ anchored' = (anchored \/ post # 0)
      /\ ring' = IF ring.armed /\ ring.fill < CAPTURE
                 THEN [ring EXCEPT !.fill = @ + Length(move)] ELSE ring
      /\ UNCHANGED <<taskVars, busy, ntp, mishaps>>

(* The radio's sample clock against the band's. *)
Drift ==
  /\ Mishap /\ \E d \in {-1, 1} : phase' = Wrap(phase + d)
  /\ UNCHANGED <<move, anchored, post, queue, ring, taskVars, busy, ntp>>

(* The clock is disciplined.  A grid nothing has placed takes its one coarse *)
(* anchor in the middle of the slot.                                         *)
NtpSync ==
  /\ ~ntp /\ ntp' = TRUE /\ anchored' = TRUE
  /\ move' \in IF anchored THEN {move} ELSE AnchorMoves(phase)
  /\ UNCHANGED <<phase, post, queue, ring, taskVars, busy, mishaps>>

-----------------------------------------------------------------------------
(* grid_state.rs *)

(* Decoding below par: before a lock also when off-centre, after one only    *)
(* when nothing at all decodes.                                              *)
BelowPar(g, n, centred) ==
  IF g.locked THEN n = 0 ELSE n < LOCK_MIN_DECODES \/ ~centred

(* The under-par run; past the larger trigger its length is not told apart.  *)
LostSlots(g, n, centred, signal) ==
  IF ~BelowPar(g, n, centred) THEN 0
  ELSE IF signal /\ g.lost < REACQUIRE_TRIGGER_SLOTS THEN g.lost + 1 ELSE g.lost

Trigger(g) == IF g.locked THEN REACQUIRE_TRIGGER_SLOTS ELSE ACQUIRE_TRIGGER_SLOTS

(* observe_slot's verdict and the state it leaves. *)
Action(g, n, centred, signal) ==
  IF n >= LOCK_MIN_DECODES /\ ~g.locked /\ centred THEN "Lock"
  ELSE IF LostSlots(g, n, centred, signal) >= Trigger(g) /\ ~g.acquiring THEN "Acquire"
  ELSE "Hold"

ObserveSlot(g, n, centred, signal) ==
  LET act == Action(g, n, centred, signal)
  IN  [locked    |-> (g.locked /\ act # "Acquire") \/ act = "Lock",
       lost      |-> LostSlots(g, n, centred, signal),
       acquiring |-> g.acquiring \/ act = "Acquire"]

AcquisitionDone(g, applied) ==
  [locked |-> g.locked, lost |-> IF applied THEN 0 ELSE g.lost, acquiring |-> FALSE]

-----------------------------------------------------------------------------
(* The decode task *)

(* record_decode_dt, n times: the pool keeps the last DT_POOL_CAP. *)
Pooled(p, n, dt) ==
  LET q == p \o [i \in 1..n |-> dt]
  IN  IF Len(q) <= DT_POOL_CAP THEN q ELSE SubSeq(q, Len(q) - DT_POOL_CAP + 1, Len(q))

(* pooled_dt_median *)
Median(p) ==
  CHOOSE m \in {p[i] : i \in DOMAIN p} :
    /\ Cardinality({i \in DOMAIN p : p[i] < m}) <= Len(p) \div 2
    /\ Cardinality({i \in DOMAIN p : p[i] <= m}) > Len(p) \div 2

(* Late costs a little, early costs a slot. *)
WorthTrimming(m) == Abs(m) >= IF m > 0 THEN DT_TRIM_MIN_EARLY ELSE DT_TRIM_MIN

(* What a slot may decode: a stub nothing, a slot that waited or was not of  *)
(* the nominal length anything.                                              *)
Decodes(c) ==
  CASE Stub(c.move) \/ Abs(c.dt) > Search -> {0}
    [] c.move = 0 /\ Abs(c.dt) <= Useful /\ ~c.late -> {Many}
    [] OTHER -> {0, Few, Many}

(* Mutant: a deferred acquisition stays in flight. *)
Deferred_kept(g) == g
Deferred(g) == AcquisitionDone(g, TRUE)

(* A slot of n decodes at a median of dt: pool, trim, policy, and the        *)
(* capture that is complete by now.                                          *)
Judge(c, n, dt, signal, backlogged) ==
  LET full    == c.move = 0
      p       == Pooled(pool, n, dt)
      trimmed == /\ full /\ ~trim_used /\ ~grid.acquiring
                 /\ Len(p) >= DT_TRIM_MIN_OBS /\ WorthTrimming(Median(p))
      counts  == full /\ ~backlogged
      centred == n > 0 => Abs(dt) <= LOCK_MAX_PHASE
      acquire == counts /\ Action(grid, n, centred, signal) = "Acquire"
      g       == IF counts THEN ObserveSlot(grid, n, centred, signal) ELSE grid
      r       == IF acquire /\ ~trimmed THEN Arm(ring, phase) ELSE ring
      ready   == r.fill >= CAPTURE
  IN  /\ post' = IF trimmed THEN Clamp(Median(p)) ELSE post
      /\ trim_used' = (trim_used \/ trimmed)
      /\ pool' = IF trimmed THEN <<>> ELSE p
      /\ grid' = IF acquire /\ trimmed THEN Deferred(g) ELSE g
      /\ busy' = (grid'.acquiring /\ ready)
      /\ ring' = IF busy' THEN [r EXCEPT !.armed = FALSE] ELSE r

(* A slot that ended while the trials ran may be backlogged, and is when the *)
(* next one has ended too: it does not count.                                *)
DecodeSlot ==
  /\ ~busy /\ queue # <<>> /\ queue' = Tail(queue)
  /\ LET c == Head(queue)
     IN  \E n \in Decodes(c), b \in Noise, signal \in BOOLEAN, backlogged \in BOOLEAN :
           /\ backlogged => c.late
           /\ Len(queue) > 1 => backlogged
           /\ IF n > 0 \/ signal THEN signal /\ UNCHANGED mishaps ELSE Mishap
           /\ IF ntp THEN pool' = Pooled(pool, n, c.dt + b)
                          /\ UNCHANGED <<post, ring, grid, trim_used, busy>>
                     ELSE Judge(c, n, c.dt + b, signal, backlogged)
  /\ UNCHANGED <<phase, move, anchored, ntp>>

(* A bundle that came too late to be decoded before key-up is skipped. *)
SkipSlot ==
  /\ ~busy /\ queue # <<>> /\ queue' = Tail(queue)
  /\ IF Head(queue).late THEN UNCHANGED mishaps ELSE Mishap
  /\ UNCHANGED <<phase, move, anchored, post, ring, taskVars, busy, ntp>>

(* The trials are over.  The applied phase is the capture's, counted from    *)
(* the start of the slot the capture began in; the evidence gathered before  *)
(* it is dropped and the trim is available again.                            *)
AcquisitionApplied ==
  /\ busy /\ busy' = FALSE
  /\ \E b \in Noise : post' = Wrap(ring.origin + b)
  /\ ring' = EmptyRing
  /\ grid' = AcquisitionDone(grid, TRUE) /\ pool' = <<>> /\ trim_used' = FALSE
  /\ UNCHANGED <<phase, move, anchored, queue, ntp, mishaps>>

(* None of the candidate phases decoded. *)
AcquisitionFailed ==
  /\ busy /\ busy' = FALSE /\ Mishap
  /\ ring' = EmptyRing /\ grid' = AcquisitionDone(grid, FALSE)
  /\ UNCHANGED <<phase, move, anchored, post, queue, pool, trim_used, ntp>>

GridNext ==
  SlotEnd \/ Drift \/ NtpSync \/ DecodeSlot \/ SkipSlot \/ AcquisitionApplied \/ AcquisitionFailed

(* Samples keep coming, the decode of a slot ends and so do the trials of an *)
(* acquisition.  NTP need not come up.                                       *)
GridSpec ==
  /\ GridInit /\ [][GridNext]_vars
  /\ WF_vars(SlotEnd) /\ WF_vars(DecodeSlot) /\ WF_vars(AcquisitionApplied)

-----------------------------------------------------------------------------
(* Types of the grid, the capture ring and the pool of observed times.       *)
GridTypeOK ==
  /\ phase \in Int /\ move \in Int /\ post \in Int
  /\ queue \in Seq([dt : Int, move : Int, late : BOOLEAN])
  /\ ring \in [armed : BOOLEAN, fill : Int, origin : Int]
  /\ grid \in [locked : BOOLEAN, lost : 0..REACQUIRE_TRIGGER_SLOTS, acquiring : BOOLEAN]
  /\ pool \in Seq(Int) /\ Len(pool) <= DT_POOL_CAP
  /\ anchored \in BOOLEAN /\ trim_used \in BOOLEAN /\ busy \in BOOLEAN /\ ntp \in BOOLEAN /\ mishaps \in 0..MaxMishaps

(* decode_pipeline.rs:1518, "hand it back, or nothing fills the ring, the    *)
(* acquisition never completes, and the trim stays gated off for the rest of *)
(* the session": an acquisition in flight has a capture that fills, or its   *)
(* trials running.                                                           *)
AcquiringIsCapturing == grid.acquiring => ring.armed \/ busy

(* A band with stations on it is found and kept: from every start phase,     *)
(* through quiet slots, skipped slots, failed captures and drift, the grid   *)
(* ends up where slots decode, and stays there.                              *)
BandKept == <>[](Abs(phase) <= Search)

(* grid_state.rs:166, "A phase this far out is not a grid worth holding,     *)
(* however many stations came through it", and decode_pipeline.rs:1933, "the *)
(* pooled multi-slot ring is entirely pre-correction evidence at this point, *)
(* so clear it too": the grid ends up centred.                               *)
GridCentred == <>[](Abs(phase) <= LOCK_MAX_PHASE + DEAD_ZONE)
=============================================================================
