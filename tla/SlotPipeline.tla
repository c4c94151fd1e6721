---------------------------- MODULE SlotPipeline ----------------------------
(***************************************************************************)
(* The streaming receive pipeline (embedded-shared): a capture thread cuts  *)
(* audio into slots and sends it through chunk_q; stage1_inc copies it into *)
(* one of two buffers, computes the spectrogram as it goes and hands it     *)
(* over before the slot has ended (SpecBundle), then the slot itself (Slot);*)
(* the decode task takes one of each, in order of receipt, and reads the    *)
(* buffer both point into.                                                  *)
(*                                                                          *)
(* A slot is NMAX parts of audio.  A part is tagged with the slot and the   *)
(* take it was captured in, so that what a decode reads shows whose audio   *)
(* it was.                                                                  *)
(***************************************************************************)
EXTENDS Integers, Sequences, FiniteSets

CONSTANTS
  NMAX,          \* parts of audio in a full slot, and in a buffer
  EmitAt,        \* parts after which the spectrogram goes out
  Lengths,       \* slot lengths the capture side may cut
  ChunkDepth, SpecDepth, SlotDepth,   \* queue depths
  Lag,           \* timing: slots ended and still undecoded when one starts, at most Lag - 1
  MaxSlots,      \* bound: slots captured
  MaxMarks,      \* bound: manual sync marks (M5StickS3)
  MaxTx          \* bound: transmissions in BootMode::Qso (M5StickS3)

ASSUME PipelineAssumption ==
  /\ NMAX \in Nat /\ EmitAt \in 1..NMAX /\ Lengths \subseteq Nat \ {0}
  /\ ChunkDepth \in Nat \ {0} /\ SpecDepth \in Nat \ {0} /\ SlotDepth \in Nat \ {0}
  /\ Lag \in Nat /\ MaxSlots \in Nat /\ MaxMarks \in Nat /\ MaxTx \in Nat

VARIABLES
  cap,           \* capture: slot index, take, parts sent, slot_end_target
  chunkQ, specQ, slotQ,
  bufs, fill_idx,   \* audio_bufs and the one being filled
  cur,           \* SlotInProgress: fill, next_pair, spectrogram rows, spec_sent
  s1,            \* stage1_inc: "recv", "emit" or "finalize"
  closing,       \* wav_idx of the SlotEnd in hand, -1 for none
  main,          \* decode task: place, and the bundle and slot it holds
  decoded, last, \* slots decoded, and what the last one read
  marks, txs

vars == <<cap, chunkQ, specQ, slotQ, bufs, fill_idx, cur, s1, closing, main, decoded, last,
          marks, txs>>
capVars == <<cap, marks, txs>>
stage1Vars == <<bufs, fill_idx, cur, s1, closing>>
mainVars == <<main, decoded, last>>

Samples(t) == [kind |-> "samples", tag |-> t]
SlotEndMsg(i) == [kind |-> "end", idx |-> i]
ResetMark == [kind |-> "reset"]
NoTag == <<-1, 0>>
NoBundle == [rows |-> {}, buf |-> 0, len |-> 0]
NoSlot == [buf |-> 0, len |-> 0, idx |-> -1]

SlotInProgress == [fill |-> 0, next |-> 0, rows |-> {}, sent |-> FALSE]

PipelineInit ==
  /\ \E n \in Lengths : cap = [n |-> 0, take |-> 0, parts |-> 0, target |-> n]
  /\ chunkQ = <<>> /\ specQ = <<>> /\ slotQ = <<>>
  /\ bufs = [b \in {0, 1} |-> [p \in 1..NMAX |-> NoTag]] /\ fill_idx = 0
  /\ cur = SlotInProgress /\ s1 = "recv" /\ closing = -1
  /\ main = [at |-> "spec", bundle |-> NoBundle, slot |-> NoSlot, heard |-> {}]
  /\ decoded = 0 /\ last = [idx |-> 0, heard |-> {}]
  /\ marks = MaxMarks /\ txs = MaxTx

-----------------------------------------------------------------------------
(* The capture side *)

(* The decode of slot k - Lag is over when slot k starts: nothing in the     *)
(* code enforces it, post-SlotEnd work is short of the 15 s it has.          *)
Timely == cap.n - decoded < Lag

SendSamples ==
  /\ cap.n < MaxSlots /\ cap.parts < cap.target /\ Len(chunkQ) < ChunkDepth
  /\ cap.parts = 0 => Timely
  /\ chunkQ' = Append(chunkQ, Samples(<<cap.n, cap.take>>))
  /\ cap' = [cap EXCEPT !.parts = @ + 1]
  /\ UNCHANGED <<specQ, slotQ, stage1Vars, mainVars, marks, txs>>

SendSlotEnd ==
  /\ cap.n < MaxSlots /\ cap.parts >= cap.target /\ Len(chunkQ) < ChunkDepth
  /\ chunkQ' = Append(chunkQ, SlotEndMsg(cap.n))
  /\ \E n \in Lengths : cap' = [n |-> cap.n + 1, take |-> 0, parts |-> 0, target |-> n]
  /\ UNCHANGED <<specQ, slotQ, stage1Vars, mainVars, marks, txs>>

(* SYNC_RESET_PENDING: whatever is on its way is dropped, stage1_inc is told *)
(* to start over, and the slot restarts under the same index.                *)
ApplySyncReset ==
  /\ marks > 0 /\ marks' = marks - 1 /\ cap.n < MaxSlots
  /\ chunkQ' = <<ResetMark>>
  /\ cap' = [cap EXCEPT !.take = @ + 1, !.parts = 0, !.target = NMAX]
  /\ UNCHANGED <<specQ, slotQ, stage1Vars, mainVars, txs>>

(* After do_tx_cycle only the capture side starts over: no mark is sent.     *)
Transmit ==
  /\ txs > 0 /\ txs' = txs - 1 /\ cap.n < MaxSlots
  /\ cap' = [cap EXCEPT !.take = @ + 1, !.parts = 0, !.target = NMAX]
  /\ UNCHANGED <<chunkQ, specQ, slotQ, stage1Vars, mainVars, marks>>

-----------------------------------------------------------------------------
(* stage1_inc *)

(* advance_pairs: every row the audio supports, from the filling buffer.     *)
advance_pairs(c, b) ==
  [c EXCEPT !.next = c.fill, !.rows = @ \cup {b[p] : p \in (c.next + 1)..c.fill}]

(* A part that does not fit is dropped.                                      *)
Ingest ==
  /\ s1 = "recv" /\ chunkQ # <<>> /\ Head(chunkQ).kind = "samples"
  /\ chunkQ' = Tail(chunkQ)
  /\ IF cur.fill + 1 > NMAX
     THEN UNCHANGED <<bufs, cur, s1>>
     ELSE LET b == [bufs[fill_idx] EXCEPT ![cur.fill + 1] = Head(chunkQ).tag]
              c == advance_pairs([cur EXCEPT !.fill = @ + 1], b)
          IN  /\ bufs' = [bufs EXCEPT ![fill_idx] = b]
              /\ cur' = c
              /\ s1' = IF c.next >= EmitAt /\ ~c.sent THEN "emit" ELSE "recv"
  /\ UNCHANGED <<specQ, slotQ, fill_idx, closing, capVars, mainVars>>

Reset ==
  /\ s1 = "recv" /\ chunkQ # <<>> /\ Head(chunkQ) = ResetMark
  /\ chunkQ' = Tail(chunkQ) /\ cur' = SlotInProgress
  /\ UNCHANGED <<specQ, slotQ, bufs, fill_idx, s1, closing, capVars, mainVars>>

(* Mutant: an under-fed slot closes without its spectrogram. *)
TakeSlotEnd_no_partial ==
  /\ s1 = "recv" /\ chunkQ # <<>> /\ Head(chunkQ).kind = "end"
  /\ chunkQ' = Tail(chunkQ) /\ closing' = Head(chunkQ).idx /\ s1' = "finalize"
  /\ UNCHANGED <<specQ, slotQ, bufs, fill_idx, cur, capVars, mainVars>>

(* The slot is over; if its spectrogram has not gone out, it goes first.     *)
TakeSlotEnd ==
  /\ s1 = "recv" /\ chunkQ # <<>> /\ Head(chunkQ).kind = "end"
  /\ chunkQ' = Tail(chunkQ) /\ closing' = Head(chunkQ).idx
  /\ s1' = IF cur.sent THEN "finalize" ELSE "emit"
  /\ UNCHANGED <<specQ, slotQ, bufs, fill_idx, cur, capVars, mainVars>>

(* emit_spec_bundle; the send waits while spec_q is full.                    *)
EmitSpecBundle ==
  /\ s1 = "emit" /\ Len(specQ) < SpecDepth
  /\ specQ' = Append(specQ, [rows |-> cur.rows, buf |-> fill_idx, len |-> cur.fill])
  /\ cur' = [cur EXCEPT !.sent = TRUE]
  /\ s1' = IF closing = -1 THEN "recv" ELSE "finalize"
  /\ UNCHANGED <<chunkQ, slotQ, bufs, fill_idx, closing, capVars, mainVars>>

(* Mutant: the next slot is filled into the buffer just handed over. *)
FinalizeSlot_no_swap ==
  /\ s1 = "finalize" /\ Len(slotQ) < SlotDepth
  /\ slotQ' = Append(slotQ, [buf |-> fill_idx, len |-> cur.fill, idx |-> closing])
  /\ cur' = SlotInProgress /\ closing' = -1 /\ s1' = "recv"
  /\ UNCHANGED <<chunkQ, specQ, bufs, fill_idx, capVars, mainVars>>

(* finalize_slot: pointer and fill are taken before the swap.                *)
FinalizeSlot ==
  /\ s1 = "finalize" /\ Len(slotQ) < SlotDepth
  /\ slotQ' = Append(slotQ, [buf |-> fill_idx, len |-> cur.fill, idx |-> closing])
  /\ fill_idx' = 1 - fill_idx
  /\ cur' = SlotInProgress /\ closing' = -1 /\ s1' = "recv"
  /\ UNCHANGED <<chunkQ, specQ, bufs, capVars, mainVars>>

-----------------------------------------------------------------------------
(* The decode task: run_speculative_slot *)

Audio(b, n) == {bufs[b][p] : p \in 1..n}

RecvSpec ==
  /\ main.at = "spec" /\ specQ # <<>> /\ specQ' = Tail(specQ)
  /\ main' = [main EXCEPT !.at = "early", !.bundle = Head(specQ)]
  /\ UNCHANGED <<chunkQ, slotQ, decoded, last, capVars, stage1Vars>>

(* Coarse sync on the bundle's rows, then the candidates that fit the prefix.*)
Early ==
  /\ main.at = "early"
  /\ main' = [main EXCEPT !.at = "slot",
                          !.heard = main.bundle.rows \cup Audio(main.bundle.buf, main.bundle.len)]
  /\ UNCHANGED <<chunkQ, specQ, slotQ, decoded, last, capVars, stage1Vars>>

(* Too late to finish before key-up: the slot is still taken, and given up.  *)
SkipLate ==
  /\ main.at = "early"
  /\ main' = [main EXCEPT !.at = "slot", !.bundle = NoBundle]
  /\ UNCHANGED <<chunkQ, specQ, slotQ, decoded, last, capVars, stage1Vars>>

RecvSlot ==
  /\ main.at = "slot" /\ slotQ # <<>> /\ slotQ' = Tail(slotQ)
  /\ main' = [main EXCEPT !.at = "late", !.slot = Head(slotQ)]
  /\ UNCHANGED <<chunkQ, specQ, decoded, last, capVars, stage1Vars>>

(* The deferred candidates, on the whole slot; then both boxes are dropped.  *)
Late ==
  /\ main.at = "late"
  /\ last' = [idx |-> main.slot.idx,
              heard |-> IF main.bundle = NoBundle THEN {}
                        ELSE main.heard \cup Audio(main.slot.buf, main.slot.len)]
  /\ decoded' = decoded + 1
  /\ main' = [at |-> "spec", bundle |-> NoBundle, slot |-> NoSlot, heard |-> {}]
  /\ UNCHANGED <<chunkQ, specQ, slotQ, capVars, stage1Vars>>

-----------------------------------------------------------------------------
CaptureStep == SendSamples \/ SendSlotEnd
Stage1Step == Ingest \/ TakeSlotEnd \/ EmitSpecBundle \/ FinalizeSlot
DecodeStep == RecvSpec \/ Early \/ SkipLate \/ RecvSlot \/ Late
Fairness == WF_vars(CaptureStep) /\ WF_vars(Stage1Step) /\ WF_vars(DecodeStep)

(* All boards: samples keep coming, both tasks run whenever a queue lets them.*)
PipelineNext == CaptureStep \/ Stage1Step \/ DecodeStep
FairPipeline == PipelineInit /\ [][PipelineNext]_vars /\ Fairness

(* The M5StickS3 may also restart a slot: the only one that sends SlotReset,  *)
(* and the only one that transmits.                                          *)
StickNext == PipelineNext \/ ApplySyncReset \/ Reset \/ Transmit
FairStick == PipelineInit /\ [][StickNext]_vars /\ Fairness /\ WF_vars(Reset)

-----------------------------------------------------------------------------
Tags == (0..MaxSlots) \X (0..(MaxMarks + MaxTx))
(* Types of the three tasks' state, the bounds of queues and buffers included.*)
PipelineTypeOK ==
  /\ cap.n \in 0..MaxSlots /\ cap.parts \in 0..(NMAX + 1)
  /\ Len(chunkQ) <= ChunkDepth /\ Len(specQ) <= SpecDepth /\ Len(slotQ) <= SlotDepth
  /\ \A b \in {0, 1}, p \in 1..NMAX : bufs[b][p] \in Tags \cup {NoTag}
  /\ fill_idx \in {0, 1} /\ cur.fill \in 0..NMAX /\ cur.next \in 0..cur.fill
  /\ s1 \in {"recv", "emit", "finalize"} /\ closing \in -1..MaxSlots
  /\ main.at \in {"spec", "early", "slot", "late"} /\ decoded \in 0..MaxSlots

(* pipeline.rs: a Slot pairs with the SpecBundle of the same slot, and both  *)
(* point into a buffer nobody writes while the decode task holds them.  The  *)
(* pipeline implements the stream of slots: each is decoded once, in order,  *)
(* under its own index and from its own audio.                               *)
Stream == INSTANCE SlotStream
            WITH ended <- cap.n, Takes <- 0..(MaxMarks + MaxTx)
ImplementsStream == Stream!StreamSpec

(* pipeline.rs:180, a Slot "pairs with the SpecBundle for the same wav_idx", *)
(* and :33, a reset slot is discarded "without emitting a Slot or SpecBundle":*)
(* all a decode reads is one recording.                                      *)
OneRecording == \A x, y \in last.heard : x = y

(* Nobody waits for ever on a queue: what was captured is decoded.           *)
EverySlotDecoded == \A k \in 1..MaxSlots : cap.n >= k ~> decoded >= k
=============================================================================
