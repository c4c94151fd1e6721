------------------------------ MODULE AutoSync ------------------------------
(***************************************************************************)
(* The self-synchronisation loop of the M5StickS3 application: the capture  *)
(* thread cuts the audio into slots (audio.rs), the decode task measures    *)
(* how far the slots are off the band (decode_pipeline.rs), and the two     *)
(* talk through one mailbox, BOOTSTRAP_SLOT_SHIFT_12K (time_sync.rs).       *)
(*                                                                          *)
(* Times are in tenths of a second.  The phase of a slot is the DT that its *)
(* decodes show: positive when the slot was started too early.  The loop    *)
(* has a delay the code does not mention: a slot is measured after it has   *)
(* ended, the shift is taken at the end of the slot after it, and it        *)
(* changes the length, hence the end, of the one after that.                *)
(***************************************************************************)
EXTENDS Integers, Sequences

CONSTANTS
  SLOT, TX_LEN,        \* slot and transmission length, PTT settling included
  MAX_SHIFT, TIER1_DT, TIER1_MIN_N, TIER2_DT, TIER2_MIN_N, TIER2_STREAK,
  Tolerance,           \* DT beyond which the search finds nothing
  Counts,              \* how many decodes an audible slot may give
  NoiseMedians,        \* median DT of the candidates of a slot nobody can be heard in
  StartPhases,         \* phase at power-up
  PressPhases,         \* phase after the operator's manual mark
  LaunchDelays,        \* how far into its slot a transmission may start
  MaxPresses, MaxTx    \* bounds: manual marks and transmissions

ASSUME AutoSyncAssumption ==
  /\ SLOT \in Nat /\ TX_LEN \in 1..SLOT /\ MAX_SHIFT \in Nat
  /\ {TIER1_DT, TIER1_MIN_N, TIER2_DT, TIER2_MIN_N, Tolerance} \subseteq Nat
  /\ Counts \subseteq Nat /\ NoiseMedians \subseteq Int /\ TIER2_STREAK \in 1..255
  /\ MaxPresses \in Nat /\ MaxTx \in Nat

(* x is where the search sees it. *)
Seen(x) == -Tolerance <= x /\ x <= Tolerance

(* How far a transmission launched d into its slot moves the grid. *)
Jump(d) == SLOT - (d + TX_LEN)

(* The room the code's numbers leave.  The search range holds the three      *)
(* corrections that can be under way at once, with the audio a transmission  *)
(* leaves over on top, and the jump of a transmission with one correction;   *)
(* a manual mark is within the range by one correction, and a transmission   *)
(* in the slot it marks leaves the range or keeps the same distance.         *)
Margins ==
  /\ Tolerance \in Nat \ {0} /\ 3 * MAX_SHIFT <= Tolerance /\ 4 * Tolerance + 1 < SLOT
  /\ StartPhases \subseteq -(SLOT \div 2)..(SLOT \div 2)
  /\ PressPhases \subseteq Int /\ LaunchDelays \subseteq Nat
  /\ \A p \in PressPhases : Seen(p - MAX_SHIFT) /\ Seen(p + MAX_SHIFT)
  /\ \A d \in LaunchDelays :
       /\ d + 3 * MAX_SHIFT <= Tolerance
       /\ 0 <= Jump(d) /\ Jump(d) + MAX_SHIFT <= Tolerance
       /\ \A p \in PressPhases :
            Seen(p + Jump(d)) => Seen(p + Jump(d) - MAX_SHIFT) /\ Seen(p + Jump(d) + MAX_SHIFT)

VARIABLES
  phase,      \* of the slot being captured
  target,     \* slot_end_target of the slot being captured, minus SLOT
  carry,      \* audio from before a transmission still in stage1_inc's accumulator
  shift,      \* BOOTSTRAP_SLOT_SHIFT_12K
  captured,   \* slots on their way to the decode task: [dt, mark]
  sync,       \* best_n, drift_streak and last_drift_sign of the decode task
  finalised,  \* slots_finalised() > 0
  pending,    \* SYNC_RESET_PENDING
  new_gen,    \* SYNC_RESET_GEN differs from sync_gen_observed
  mark,       \* manual marks applied so far
  shift_mark, \* the mark under which the shift was measured
  noise,      \* a shift measured on noise was posted since the last manual mark
  presses, txs,
  wav_idx,    \* parity of the slot being captured
  fresh,      \* the slot's boundary is published and its launch window is open
  tx_parity,  \* self_tx_parity: parity of our first transmission, 2 before it
  band,       \* parity of the band slot in which the captured slot started
  tx_bands    \* parities of the band slots we transmitted in

vars == <<phase, target, carry, shift, captured, sync, finalised, pending, new_gen, mark, shift_mark,
          noise, presses, txs, wav_idx, fresh, tx_parity, band, tx_bands>>
buttonVars == <<pending, new_gen, presses>>
txVars == <<txs, tx_parity, tx_bands>>
slotVars == <<wav_idx, fresh, band>>

Abs(x) == IF x < 0 THEN -x ELSE x
Sign(x) == IF x >= 0 THEN 1 ELSE -1
(* A phase of more than half a slot is one of the neighbouring slot. *)
Wrap(x) == LET m == x % SLOT IN IF m > SLOT \div 2 THEN m - SLOT ELSE m

Clamp(x) == IF x > MAX_SHIFT THEN MAX_SHIFT ELSE IF x < -MAX_SHIFT THEN -MAX_SHIFT ELSE x

AutoSyncInit ==
  /\ phase \in StartPhases /\ target = 0 /\ carry = 0 /\ shift = 0 /\ captured = <<>>
  /\ sync = [best_n |-> 0, streak |-> 0, sign |-> 0]
  /\ finalised = FALSE /\ pending = FALSE /\ new_gen = FALSE
  /\ mark = 0 /\ shift_mark = 0 /\ noise = FALSE /\ presses = MaxPresses /\ txs = MaxTx
  /\ wav_idx = 0 /\ fresh = FALSE /\ tx_parity = 2 /\ band = 0 /\ tx_bands = {}

-----------------------------------------------------------------------------
(* The capture thread *)

(* The slot is full: hand it over, take the mailbox as the length correction *)
(* of the slot that starts now.  Audio left over from before a transmission  *)
(* is still in front of it and delays all it holds.  The decode task keeps   *)
(* up, so at most one slot waits for it.                                     *)
SlotEnd ==
  /\ ~pending /\ captured = <<>>
  /\ captured' = <<[dt |-> Wrap(phase + carry), mark |-> mark]>> /\ carry' = 0
  /\ phase' = Wrap(phase - target)
  /\ target' = shift /\ shift' = 0
  /\ wav_idx' = 1 - wav_idx /\ band' = 1 - band /\ fresh' = TRUE
  /\ UNCHANGED <<sync, finalised, mark, shift_mark, noise, buttonVars, txVars>>

(* The manual mark: the slot restarts where the operator pressed, the        *)
(* mailbox is emptied.  A complete slot the decode task already has is kept. *)
ApplySyncReset ==
  /\ pending /\ pending' = FALSE
  /\ phase' \in PressPhases
  /\ target' = 0 /\ carry' = 0 /\ shift' = 0 /\ mark' = mark + 1 /\ noise' = FALSE
  /\ UNCHANGED <<captured, sync, finalised, shift_mark, new_gen, presses, txVars, slotVars>>

(* do_tx_cycle in a slot of our parity, then the capture thread's slot       *)
(* starts over, but what it had sent stays with stage1_inc.  wav_idx is not  *)
(* advanced, although a band slot has passed, and no new boundary is         *)
(* published, so the launch window stays shut.                               *)
Transmit ==
  /\ txs > 0 /\ ~pending /\ fresh /\ tx_parity \in {2, wav_idx}
  /\ txs' = txs - 1 /\ tx_parity' = wav_idx /\ tx_bands' = tx_bands \cup {band}
  /\ \E d \in LaunchDelays : phase' = Wrap(phase + SLOT - (d + TX_LEN)) /\ carry' = carry + d
  /\ target' = 0 /\ band' = 1 - band /\ fresh' = FALSE
  /\ UNCHANGED <<shift, captured, sync, finalised, mark, shift_mark, noise, wav_idx,
                 buttonVars>>

-----------------------------------------------------------------------------
(* The decode task *)

ClearDrift(s) == [s EXCEPT !.streak = 0, !.sign = 0]

(* Mutant: a persistent drift only clears its own counter. *)
Tier2_no_reset(s, n, dt) ==
  IF n >= TIER2_MIN_N /\ Abs(dt) > TIER2_DT
  THEN LET k == IF s.sign = Sign(dt) THEN s.streak + 1 ELSE 1
       IN  IF k >= TIER2_STREAK THEN ClearDrift(s) ELSE [s EXCEPT !.streak = k, !.sign = Sign(dt)]
  ELSE ClearDrift(s)

(* TIER2_STREAK slots in a row off to the same side drop the lock. *)
Tier2(s, n, dt) ==
  LET k == IF s.sign = Sign(dt) THEN (IF s.streak = 255 THEN 255 ELSE s.streak + 1) ELSE 1
  IN  CASE n < TIER2_MIN_N \/ Abs(dt) <= TIER2_DT -> ClearDrift(s)
        [] n >= TIER2_MIN_N /\ Abs(dt) > TIER2_DT /\ k >= TIER2_STREAK /\ s.best_n > 0 ->
             [ClearDrift(s) EXCEPT !.best_n = 0]
        [] n >= TIER2_MIN_N /\ Abs(dt) > TIER2_DT /\ ~(k >= TIER2_STREAK /\ s.best_n > 0) ->
             [s EXCEPT !.streak = k, !.sign = Sign(dt)]

(* A slot with more decodes than the one we locked on, far off, drops the    *)
(* lock at once.                                                             *)
Drift(s, n, dt) ==
  IF s.best_n > 0 /\ n > s.best_n /\ n >= TIER1_MIN_N /\ Abs(dt) > TIER1_DT
  THEN [ClearDrift(s) EXCEPT !.best_n = 0]
  ELSE Tier2(s, n, dt)

(* Mutant: the correction goes the wrong way. *)
Correction_reversed(dt) == Clamp(-dt)
(* ALIGN_OK_SEC is half a unit: only a phase of 0 is left alone. *)
Correction(dt) == Clamp(dt)

Post(v, m) == shift' = v /\ shift_mark' = m

(* One slot of n decodes, whose median DT is the slot's phase.  With no      *)
(* decode and no lock the coarse search's candidates stand in: those of the  *)
(* stations when they can be heard, otherwise noise or none at all.          *)
Decode(n) ==
  LET c  == Head(captured)
      s0 == IF new_gen THEN [sync EXCEPT !.best_n = 0] ELSE sync
      s  == Drift(s0, n, c.dt)
      heard == Abs(c.dt) <= Tolerance
      cold == n = 0 /\ s.best_n = 0
  IN  /\ captured # <<>> /\ captured' = Tail(captured)
      /\ new_gen' = FALSE
      /\ IF heard THEN n \in Counts ELSE n = 0
      /\ sync' = IF n > s.best_n THEN [s EXCEPT !.best_n = n] ELSE s
      /\ \/ (n > s.best_n \/ (cold /\ heard)) /\ Post(Correction(c.dt), c.mark) /\ UNCHANGED noise
         \/ /\ cold /\ ~heard /\ noise' = TRUE
            /\ \E dt \in NoiseMedians : Post(Correction(dt), c.mark)
         \/ n <= s.best_n /\ ~(cold /\ heard)
              /\ (finalised \/ n > 0) /\ Post(0, c.mark) /\ UNCHANGED noise
         \/ cold /\ ~heard /\ ~finalised /\ UNCHANGED <<shift, shift_mark, noise>>
      /\ finalised' = (finalised \/ n > 0)
      /\ UNCHANGED <<phase, target, carry, pending, mark, presses, txVars, slotVars>>

-----------------------------------------------------------------------------
(* reset_slot_boundary *)
Press ==
  /\ presses > 0 /\ presses' = presses - 1
  /\ pending' = TRUE /\ new_gen' = TRUE
  /\ UNCHANGED <<phase, target, carry, shift, captured, sync, finalised, mark, shift_mark, noise,
                 txVars, slotVars>>

DecodeSlot == \E n \in Counts \cup {0} : Decode(n)

AutoSyncNext == SlotEnd \/ ApplySyncReset \/ Transmit \/ DecodeSlot \/ Press

(* Samples keep coming and the decode of a slot ends.  Nobody has to press a *)
(* button or transmit.                                                       *)
AutoSyncSpec ==
  /\ AutoSyncInit /\ [][AutoSyncNext]_vars
  /\ WF_vars(SlotEnd) /\ WF_vars(ApplySyncReset) /\ WF_vars(DecodeSlot)

-----------------------------------------------------------------------------
(* Types; in particular every slot is within MAX_SHIFT of its nominal length *)
(* (the 177 600 samples stage1_inc needs for its last transform).            *)
AutoSyncTypeOK ==
  /\ phase \in -(SLOT \div 2)..(SLOT \div 2)
  /\ carry \in Nat /\ target \in -MAX_SHIFT..MAX_SHIFT /\ shift \in -MAX_SHIFT..MAX_SHIFT
  /\ captured \in Seq([dt : Int, mark : Nat])
  /\ sync \in [best_n : Counts \cup {0}, streak : 0..255, sign : {-1, 0, 1}]
  /\ {finalised, pending, new_gen, noise} \subseteq BOOLEAN
  /\ mark \in 0..MaxPresses /\ shift_mark \in 0..MaxPresses

(* The loop never steers the receiver off the band: however its delayed      *)
(* corrections add up, a slot grid the search can see stays one it can see,  *)
(* except when a transmission of our own moves it, or after the loop, out of *)
(* sight of the band and without a lock, has followed noise.                 *)
NeverDeaf ==
  [][ txs' = txs /\ ~noise /\ Abs(phase) <= Tolerance => Abs(phase') <= Tolerance ]_vars

(* "Larger drifts converge over several HWM-update slots"                    *)
(* (decode_pipeline.rs:330): on a band that decodes, the grid ends up within *)
(* the Tier-2 threshold for good, without a limit cycle, unless the start or *)
(* a transmission leaves it where nothing can be heard at all.               *)
Converges == <>[](Abs(phase) <= TIER2_DT) \/ <>[](Abs(phase) > Tolerance)

(* time_sync.rs:176, "One pass through this loop is usually enough to align  *)
(* [...]; subsequent slots see median DT ~ 0 and the shift goes to zero, so  *)
(* the mechanism is idempotent in steady state": the corrections stop.       *)
CorrectionsStop == <>[](shift = 0)

(* audio.rs:567, "no stale auto-sync shift": a shift that lengthens or       *)
(* shortens a slot was measured after the last manual mark.                  *)
NoStaleShift == [][ target' # target /\ target' # 0 => shift_mark = mark ]_vars

(* audio.rs:896, "self-sync [...] realigns within 1-2 slots": after our own  *)
(* transmissions the receiver finds the band again.                          *)
RealignsAfterTx == (txs < MaxTx) ~> (Abs(phase) <= TIER2_DT)

(* qso.rs:80, self_tx_parity is there "so that successive own-CQ retries     *)
(* don't drift between even/odd slots": transmitting under one parity of     *)
(* wav_idx is transmitting in one parity of the band's slots.                *)
TxBandParityKept == \A x, y \in tx_bands : x = y
=============================================================================
