----------------------------- MODULE QsoStation -----------------------------
(***************************************************************************)
(* BootMode::Qso of the M5StickS3 application: the three threads that share  *)
(* one Arc<Mutex<QsoManager>>.                                              *)
(*                                                                          *)
(*   audio     capture_tx_thread and do_tx_cycle (audio.rs): owns the I2S   *)
(*             port, captures slots and, with priority, transmits.          *)
(*   decode    the loop of run_with_source_qso (decode_pipeline.rs).        *)
(*   display   the buttons and the menu (display.rs).                       *)
(*                                                                          *)
(* A slot is its wav_idx, of which only the parity is used.  Time is one    *)
(* bit: whether the published slot is still inside TX_LAUNCH_DEADLINE_US.   *)
(***************************************************************************)
EXTENDS QsoManager, Sequences

CONSTANTS
  SlotQueue,     \* captured slots that may wait for the decode task
  MaxMessages,   \* bound: decodes the band delivers in one behaviour
  MaxPresses     \* bound: button presses in one behaviour

ASSUME StationAssumption == SlotQueue \in Nat \ {0} /\ MaxMessages \in Nat /\ MaxPresses \in Nat

VARIABLES
  txpc,       \* audio thread: "rx" or the step of do_tx_cycle
  intent, txslot,         \* do_tx_cycle's arguments
  wav_idx,    \* parity of the slot being captured
  published,  \* parity in CAPTURE_SLOT, NoParity before the first boundary
  early,      \* into_us <= TX_LAUNCH_DEADLINE_US for the published slot
  gate,       \* AUDIO_GATE: captured samples go to the decoder
  ptt,        \* PTT_TARGET
  sync_reset, \* SYNC_RESET_PENDING
  demo,       \* UiState::demo_mode_enabled
  slots,      \* slots captured and not yet taken by the decode task
  dpc, rx_slot, had_response,   \* decode task
  messages, presses             \* what is left of the two bounds

audioVars  == <<txpc, intent, txslot, wav_idx, published, early, gate, ptt>>
decodeVars == <<dpc, rx_slot, had_response, messages>>
uiVars     == <<demo, presses>>
vars == <<qso, audioVars, sync_reset, slots, decodeVars, uiVars>>

StationInit ==
  /\ FsmInit
  /\ txpc = "rx" /\ intent = NoIntent /\ txslot = "Even"
  /\ wav_idx = "Even" /\ published = NoParity /\ early = FALSE
  /\ gate = TRUE /\ ptt = FALSE
  /\ sync_reset = FALSE /\ demo = FALSE
  /\ slots = <<>>
  /\ dpc = "wait" /\ rx_slot = "Even" /\ had_response = FALSE
  /\ messages = MaxMessages /\ presses = MaxPresses

-----------------------------------------------------------------------------
(* The audio thread *)

(* Top of the loop: drop what has not reached the decode task, restart the   *)
(* slot.  wav_idx and the published boundary stay as they were.             *)
ApplySyncReset ==
  /\ txpc = "rx" /\ sync_reset
  /\ sync_reset' = FALSE
  /\ \E n \in 0..Len(slots) : slots' = SubSeq(slots, 1, n)
  /\ UNCHANGED <<qso, audioVars, decodeVars, uiVars>>

(* tx_scheduler_pick_intent *)
PickIntent ==
  /\ txpc = "rx" /\ ~sync_reset /\ ~demo
  /\ published # NoParity /\ early
  /\ LET r == pick_tx_intent(qso, published)
     IN  /\ qso' = r.q
         /\ IF r.tx = NoIntent
            THEN UNCHANGED <<txpc, intent, txslot>>
            ELSE txpc' = "pack" /\ intent' = r.tx /\ txslot' = published
  /\ UNCHANGED <<wav_idx, published, early, gate, ptt, sync_reset, slots, decodeVars, uiVars>>

(* A slot's worth of samples has been read and sent.  The send blocks while  *)
(* the queue to the decode task is full.  Demo slots are not published.      *)
SlotEnd ==
  /\ txpc = "rx" /\ ~sync_reset /\ ~early
  /\ gate \/ demo
  /\ Len(slots) < SlotQueue
  /\ slots' = Append(slots, wav_idx)
  /\ wav_idx' = opposite(wav_idx)
  /\ IF demo THEN UNCHANGED <<published, early>>
             ELSE published' = opposite(wav_idx) /\ early' = TRUE
  /\ UNCHANGED <<qso, txpc, intent, txslot, gate, ptt, sync_reset, decodeVars, uiVars>>

(* The launch window of the published slot passes. *)
WindowCloses ==
  /\ early /\ early' = FALSE
  /\ UNCHANGED <<qso, txpc, intent, txslot, wav_idx, published, gate, ptt, sync_reset, slots,
                 decodeVars, uiVars>>

(* do_tx_cycle, one store to shared state at a time.  pack77 and the         *)
(* synthesiser may fail; both return without advancing the FSM.              *)
TxStep(from, to) ==
  /\ txpc = from /\ txpc' = to
  /\ UNCHANGED <<intent, txslot, wav_idx, published, sync_reset, slots, decodeVars, uiVars>>

Pack       == (TxStep("pack", "mute") \/ TxStep("pack", "rx")) /\ UNCHANGED <<qso, early, gate, ptt>>

(* Mutant: the radio is keyed before the microphone is muted. *)
Mute_after_key == TxStep("mute", "key") /\ ptt' = TRUE /\ UNCHANGED <<qso, early, gate>>
Mute       == TxStep("mute", "key") /\ gate' = FALSE /\ UNCHANGED <<qso, early, ptt>>
Key        == TxStep("key", "synth") /\ ptt' = TRUE /\ UNCHANGED <<qso, early, gate>>

(* Mutant: a synthesis error returns at once, with the radio keyed. *)
Synth_leaks_ptt == (TxStep("synth", "play") \/ TxStep("synth", "rx"))
                     /\ UNCHANGED <<qso, early, gate, ptt>>
Synth      == (TxStep("synth", "play") \/ TxStep("synth", "abort"))
                /\ UNCHANGED <<qso, early, gate, ptt>>
Abort      == TxStep("abort", "abortUnmute") /\ ptt' = FALSE /\ UNCHANGED <<qso, early, gate>>
AbortUnmute == TxStep("abortUnmute", "rx") /\ gate' = TRUE /\ UNCHANGED <<qso, early, ptt>>

(* A full frame outlasts the launch window; an I2S write error ends it at    *)
(* any point.                                                               *)
Play       == TxStep("play", "unkey") /\ early' \in {FALSE, early} /\ UNCHANGED <<qso, gate, ptt>>
Unkey      == TxStep("unkey", "unmute") /\ ptt' = FALSE /\ UNCHANGED <<qso, early, gate>>
Unmute     == TxStep("unmute", "finish") /\ gate' = TRUE /\ UNCHANGED <<qso, early, ptt>>

(* Mutant: the last transmission's parity replaces the first one's. *)
Finish_repins ==
  /\ TxStep("finish", "rx")
  /\ qso' = on_period_end([qso EXCEPT !.self_tx_parity = txslot])
  /\ UNCHANGED <<early, gate, ptt>>
Finish     == TxStep("finish", "rx") /\ qso' = finish_self_tx(qso, txslot) /\ UNCHANGED <<early, gate, ptt>>

DoTxCycle == \/ Pack \/ Mute \/ Key \/ Synth \/ Abort \/ AbortUnmute
             \/ Play \/ Unkey \/ Unmute \/ Finish

-----------------------------------------------------------------------------
(* The decode task *)

TakeSlot ==
  /\ dpc = "wait" /\ slots # <<>>
  /\ dpc' = "decode" /\ rx_slot' = Head(slots) /\ had_response' = FALSE
  /\ slots' = Tail(slots)
  /\ UNCHANGED <<qso, audioVars, sync_reset, messages, uiVars>>

(* One decode of the slot: its own critical section, and the slot index it   *)
(* passes is the one the audio was captured under.                          *)
Decode ==
  /\ dpc = "decode" /\ messages > 0
  /\ \E m \in Message, ok \in BOOLEAN :
       /\ rx_slot \in SlotOf[m.from]
       /\ LET r == process_message(qso, m, rx_slot, ok)
          IN  /\ qso' = r.q
              /\ had_response' = (had_response \/ r.tx # NoIntent)
  /\ messages' = messages - 1
  /\ UNCHANGED <<audioVars, sync_reset, slots, dpc, rx_slot, uiVars>>

(* Mutant: an unanswered slot costs no retry. *)
EndOfSlot_free ==
  /\ dpc = "decode" /\ dpc' = "wait"
  /\ qso' = SlotClose(qso, TRUE)
  /\ UNCHANGED <<audioVars, sync_reset, slots, rx_slot, had_response, messages, uiVars>>
EndOfSlot ==
  /\ dpc = "decode" /\ dpc' = "wait"
  /\ qso' = SlotClose(qso, had_response)
  /\ UNCHANGED <<audioVars, sync_reset, slots, rx_slot, had_response, messages, uiVars>>

-----------------------------------------------------------------------------
(* The display thread *)

Press == presses > 0 /\ presses' = presses - 1

(* BtnA on a decoded row; refused in demo mode. *)
PressCall ==
  /\ Press /\ ~demo
  /\ \E c \in Call : qso' = call_station(qso, c)
  /\ UNCHANGED <<audioVars, sync_reset, slots, decodeVars, demo>>

(* reset_slot_boundary: a mark within 200 ms of the last one is suppressed.  *)
reset_slot_boundary == sync_reset' \in {TRUE, sync_reset}

(* BtnA with no row selected. *)
PressSync ==
  /\ Press /\ reset_slot_boundary
  /\ UNCHANGED <<qso, audioVars, slots, decodeVars, demo>>

MenuAutoCq ==
  /\ Press /\ qso' = set_auto_cq(qso, ~qso.auto_cq_enabled)
  /\ UNCHANGED <<audioVars, sync_reset, slots, decodeVars, demo>>

(* BtnA long: demo mode, with the same slot reset. *)
ToggleDemo ==
  /\ Press /\ demo' = ~demo /\ reset_slot_boundary
  /\ UNCHANGED <<qso, audioVars, slots, decodeVars>>

-----------------------------------------------------------------------------
StationNext ==
  \/ ApplySyncReset \/ PickIntent \/ SlotEnd \/ WindowCloses \/ DoTxCycle
  \/ TakeSlot \/ Decode \/ EndOfSlot
  \/ PressCall \/ PressSync \/ MenuAutoCq \/ ToggleDemo

StationSpec == StationInit /\ [][StationNext]_vars

(* The audio and decode threads keep running, time passes, and a decode run  *)
(* over a slot ends; nobody is obliged to call us or to press a button.      *)
Fairness ==
  /\ WF_vars(ApplySyncReset) /\ WF_vars(SlotEnd) /\ WF_vars(WindowCloses)
  /\ WF_vars(DoTxCycle)
  /\ WF_vars(TakeSlot) /\ WF_vars(EndOfSlot)

FairStation == StationSpec /\ Fairness

-----------------------------------------------------------------------------
(* Properties *)

TxSteps == {"rx", "pack", "mute", "key", "synth", "play", "unkey", "unmute", "finish",
            "abort", "abortUnmute"}

(* Every variable of the three threads stays in its type, and the slots that *)
(* wait for the decode task never exceed the queue.                          *)
StationTypeOK ==
  /\ QsoTypeOK
  /\ txpc \in TxSteps
  /\ txslot \in Parity /\ wav_idx \in Parity /\ rx_slot \in Parity
  /\ published \in Parity \cup {NoParity}
  /\ early \in BOOLEAN /\ gate \in BOOLEAN /\ ptt \in BOOLEAN
  /\ sync_reset \in BOOLEAN /\ demo \in BOOLEAN /\ had_response \in BOOLEAN
  /\ slots \in Seq(Parity) /\ Len(slots) <= SlotQueue
  /\ dpc \in {"wait", "decode"}
  /\ messages \in 0..MaxMessages /\ presses \in 0..MaxPresses

(* do_tx_cycle's bracket: the radio is keyed only while the microphone is    *)
(* muted, and outside the cycle it is unkeyed with the gate open, on every   *)
(* one of the cycle's exits (full frame, I2S error, synthesis error, pack77  *)
(* error).                                                                   *)
PttBracket ==
  /\ ptt => ~gate
  /\ txpc \in {"rx", "pack", "mute", "finish"} => ~ptt /\ gate

(* However the three threads interleave, the shared QsoManager only moves as *)
(* the sequential state machine of QsoManager.tla allows.                    *)
ImplementsFsm == FsmSpec

(* decode_pipeline.rs:184-186, "QSO FSM / TX picker wa multi-slot            *)
(* persistence test de gate suru tame jido oto ni nagarenai": a callsign     *)
(* decoded once cannot make the station answer it.                           *)
AnsweredTwiceHeard ==
  MaxMessages - messages < 2 => qso.state \notin {"Report", "Final"}

(* A keyed radio is always unkeyed again. *)
PttReleased == ptt ~> ~ptt

(* A contact nobody answers ends: once the band stays silent, the operator   *)
(* does nothing and auto-CQ is off, the retry budget brings the machine back *)
(* to Idle, whatever the transmit thread manages to send.                    *)
UnansweredEnds ==
  (messages = 0 /\ presses = 0 /\ ~qso.auto_cq_enabled) ~> (qso.state = "Idle")
=============================================================================
