------------------------------- MODULE CivLink -------------------------------
(***************************************************************************)
(* The BLE CI-V link of the M5StickS3 (civ.rs): ble_thread's sessions with   *)
(* an IC-705, the notification and disconnect callbacks of the NimBLE host   *)
(* task, and the threads that only store a target (set_ptt, set_freq_hz,     *)
(* set_mode_data_usb).  The command loop compares each target with what it   *)
(* last sent in this session and writes the difference.                      *)
(*                                                                          *)
(* PTT_ACTUAL, BLE_STATE and the GPS offset are written and never read by    *)
(* the application, and are left out.                                        *)
(***************************************************************************)
EXTENDS Naturals, Sequences

CONSTANTS
  Freq,        \* the band table of the menu
  NextHasCiv,  \* whether the boot mode entered by a restart calls civ::start
  MaxKeys,     \* bound: transmissions
  MaxBands,    \* bound: band selections
  MaxFaults,   \* bound: time-outs, failed writes and link losses
  MaxReboots   \* bound: restarts of the board

ASSUME CivAssumption ==
  /\ NextHasCiv \in BOOLEAN
  /\ {MaxKeys, MaxBands, MaxFaults, MaxReboots} \subseteq Nat
  /\ "none" \notin Freq

None  == "none"
Field == {"ptt", "freq", "mode"}      \* in the order of the loop
Value == [ptt |-> {"on", "off"}, freq |-> Freq \cup {None}, mode |-> {"data", None}]

VARIABLES
  target,   \* PTT_TARGET, FREQ_TARGET_HZ, MODE_TARGET
  menu,     \* display thread: "idle", or "mode" between the two stores of set_band
  spc,      \* ble_thread
  last,     \* last_ptt_sent, last_freq_sent, last_mode_sent
  sending,  \* the target the loop loaded before the awaited write
  alive,    \* BLE_CONN_ALIVE
  pair,     \* bit 3 of PAIR_STATE
  link,     \* the GATT connection, as the host stack sees it
  callback, \* on_disconnect has still to run
  air,      \* writes without response that have not reached the radio
  notify,   \* a grant on its way to notify_handler
  granted,  \* the radio gave this connection access to its CI-V bus
  radio,    \* the radio's own settings
  budget    \* what is left of the four bounds

appVars  == <<target, menu>>
linkVars == <<link, callback, air, notify, granted>>
vars == <<appVars, spc, last, sending, alive, pair, linkVars, radio, budget>>

Unsent == [f \in Field |-> None]
BootTarget == [ptt |-> "off", freq |-> None, mode |-> None]

CivInit ==
  /\ target = BootTarget /\ menu = "idle"
  /\ spc = "scan" /\ last = Unsent /\ sending = None /\ alive = FALSE /\ pair = FALSE
  /\ link = FALSE /\ callback = FALSE /\ air = <<>> /\ notify = FALSE /\ granted = FALSE
  /\ radio = BootTarget
  /\ budget = [keys |-> MaxKeys, bands |-> MaxBands, faults |-> MaxFaults, reboots |-> MaxReboots]

Spend(b) == budget[b] > 0 /\ budget' = [budget EXCEPT ![b] = @ - 1]

(* An operation of the session may fail while the link is up; it must fail   *)
(* when the link is down.                                                    *)
Fails == \/ ~link /\ UNCHANGED budget
         \/ link /\ Spend("faults")

-----------------------------------------------------------------------------
(* The other threads *)

(* do_tx_cycle: set_ptt(true) ... set_ptt(false) *)
SetPtt ==
  /\ spc # "off"
  /\ \/ target.ptt = "off" /\ Spend("keys") /\ target' = [target EXCEPT !.ptt = "on"]
     \/ target.ptt = "on" /\ target' = [target EXCEPT !.ptt = "off"] /\ UNCHANGED budget
  /\ UNCHANGED <<menu, spc, last, sending, alive, pair, linkVars, radio>>

(* The menu's set_band: two stores. *)
SetBand ==
  /\ \/ /\ menu = "idle" /\ Spend("bands") /\ menu' = "mode"
        /\ \E f \in Freq : target' = [target EXCEPT !.freq = f]
     \/ menu = "mode" /\ menu' = "idle" /\ target' = [target EXCEPT !.mode = "data"]
        /\ UNCHANGED budget
  /\ UNCHANGED <<spc, last, sending, alive, pair, linkVars, radio>>

-----------------------------------------------------------------------------
(* ble_thread *)

Goto(s) == spc' = s /\ UNCHANGED <<appVars, radio>>

(* run_session returned: the client is dropped, which asks the stack to      *)
(* close the link; the statics are cleared and the loop waits 2 s.           *)
End == Goto("retry") /\ pair' = FALSE /\ UNCHANGED <<last, sending, alive, linkVars>>

Retry == spc = "retry" /\ Goto("scan") /\ UNCHANGED <<last, sending, alive, pair, linkVars, budget>>

ScanTimeout == spc = "scan" /\ Spend("faults") /\ End
ScanFound ==
  /\ spc = "scan" /\ Goto("connect") /\ alive' = FALSE
  /\ UNCHANGED <<last, sending, pair, linkVars, budget>>

ConnectFails == spc = "connect" /\ Spend("faults") /\ End

(* The radio takes one connection at a time, and one host task delivers the  *)
(* stack's events in order: the connect an awaited call waits for comes      *)
(* after the on_disconnect of the connection before.                         *)
Connect ==
  /\ spc = "connect" /\ ~link /\ ~callback
  /\ Goto("connected") /\ link' = TRUE
  /\ UNCHANGED <<last, sending, alive, pair, callback, air, notify, granted, budget>>

(* The store that follows the awaited connect. *)
StoreAlive ==
  /\ spc = "connected" /\ Goto("service") /\ alive' = TRUE
  /\ UNCHANGED <<last, sending, pair, linkVars, budget>>

(* get_service, get_characteristic and subscribe_notify. *)
ServiceFails == spc = "service" /\ Fails /\ End

(* Mutant: PAIR_STATE is cleared only at the end of a session. *)
Subscribe_keeps_pair ==
  /\ spc = "service" /\ link /\ Goto("request")
  /\ UNCHANGED <<last, sending, alive, pair, linkVars, budget>>
Subscribe ==
  /\ spc = "service" /\ link /\ Goto("request") /\ pair' = FALSE
  /\ UNCHANGED <<last, sending, alive, linkVars, budget>>

(* The three pairing writes in one step: the radio answers the third, and    *)
(* nothing reads what a failure between them leaves.                         *)
RequestFails == spc = "request" /\ Fails /\ End
Request ==
  /\ spc = "request" /\ link /\ Goto("await")
  /\ air' = Append(air, [field |-> "pair", value |-> None])
  /\ UNCHANGED <<last, sending, alive, pair, link, callback, notify, granted, budget>>

(* The grant is polled for 5 s, without looking at the connection. *)
GrantTimeout == spc = "await" /\ ~pair /\ Fails /\ End

(* Mutant: what was sent is remembered across sessions. *)
GrantSeen_remembers ==
  /\ spc = "await" /\ pair /\ Goto("ptt")
  /\ UNCHANGED <<last, sending, alive, pair, linkVars, budget>>
GrantSeen ==
  /\ spc = "await" /\ pair /\ Goto("ptt") /\ last' = Unsent
  /\ UNCHANGED <<sending, alive, pair, linkVars, budget>>

(* The command loop: for each field load the target and, if it is pending,   *)
(* write it.                                                                 *)
After == [ptt |-> "freq", freq |-> "mode", mode |-> "poll"]
Pending(f) == target[f] # None /\ last[f] # target[f]

Skip(f) ==
  /\ spc = f /\ sending = None /\ ~Pending(f)
  /\ Goto(After[f])
  /\ UNCHANGED <<last, sending, alive, pair, linkVars, budget>>

Load(f) ==
  /\ spc = f /\ sending = None /\ Pending(f)
  /\ Goto(f) /\ sending' = target[f]
  /\ UNCHANGED <<last, alive, pair, linkVars, budget>>

(* Mutant: the target is loaded again after the write. *)
Write_reloads(f) ==
  /\ spc = f /\ sending # None /\ link
  /\ Goto(After[f]) /\ sending' = None
  /\ last' = [last EXCEPT ![f] = target[f]]
  /\ air' = Append(air, [field |-> f, value |-> sending])
  /\ UNCHANGED <<alive, pair, link, callback, notify, granted, budget>>
Write(f) ==
  /\ spc = f /\ sending # None /\ link
  /\ Goto(After[f]) /\ sending' = None
  /\ last' = [last EXCEPT ![f] = sending]
  /\ air' = Append(air, [field |-> f, value |-> sending])
  /\ UNCHANGED <<alive, pair, link, callback, notify, granted, budget>>

(* A failed write leaves last as it is, so the next iteration tries again.   *)
WriteFails(f) ==
  /\ spc = f /\ sending # None /\ Fails
  /\ Goto(After[f]) /\ sending' = None
  /\ UNCHANGED <<last, alive, pair, linkVars>>

Lost == spc = "poll" /\ ~alive /\ End /\ UNCHANGED budget
Again == spc = "poll" /\ alive /\ Goto("ptt")
           /\ UNCHANGED <<last, sending, alive, pair, linkVars, budget>>

Session ==
  \/ Retry \/ ScanTimeout \/ ScanFound \/ ConnectFails \/ Connect \/ StoreAlive
  \/ ServiceFails \/ Subscribe \/ RequestFails \/ Request \/ GrantTimeout \/ GrantSeen
  \/ Lost \/ Again
  \/ \E f \in Field : Skip(f) \/ Load(f) \/ Write(f) \/ WriteFails(f)

-----------------------------------------------------------------------------
(* The host stack, the radio and the power switch *)

(* The link ends: lost, or closed after the session that owned it ended.     *)
(* What is on the way is lost with it.                                       *)
Drop ==
  /\ link
  /\ IF spc \in {"retry", "scan", "connect"} THEN UNCHANGED budget ELSE Spend("faults")
  /\ link' = FALSE /\ callback' = TRUE
  /\ air' = <<>> /\ notify' = FALSE /\ granted' = FALSE
  /\ UNCHANGED <<appVars, spc, last, sending, alive, pair, radio>>

OnDisconnect ==
  /\ callback /\ callback' = FALSE /\ alive' = FALSE
  /\ UNCHANGED <<appVars, spc, last, sending, pair, link, air, notify, granted, radio, budget>>

NotifyHandler ==
  /\ notify /\ notify' = FALSE /\ pair' = TRUE
  /\ UNCHANGED <<appVars, spc, last, sending, alive, link, callback, air, granted, radio, budget>>

(* The radio obeys commands of a connection it has granted. *)
RadioReceives ==
  /\ air # <<>> /\ air' = Tail(air)
  /\ LET frame == Head(air)
     IN  IF frame.field = "pair"
         THEN granted' = TRUE /\ notify' = TRUE /\ UNCHANGED radio
         ELSE /\ radio' = IF granted THEN [radio EXCEPT ![frame.field] = frame.value] ELSE radio
              /\ UNCHANGED <<granted, notify>>
  /\ UNCHANGED <<appVars, spc, last, sending, alive, pair, link, callback, budget>>

(* esp_restart (menu, watchdog, panic): every static starts again; the radio *)
(* sees the link go and keeps its settings.                                  *)
Reboot ==
  /\ spc # "off" /\ Spend("reboots")
  /\ target' = BootTarget /\ menu' = "idle"
  /\ spc' = IF NextHasCiv THEN "scan" ELSE "off"
  /\ last' = Unsent /\ sending' = None /\ alive' = FALSE /\ pair' = FALSE
  /\ link' = FALSE /\ callback' = FALSE /\ air' = <<>> /\ notify' = FALSE /\ granted' = FALSE
  /\ UNCHANGED radio

CivNext == SetPtt \/ SetBand \/ Session \/ Drop \/ OnDisconnect \/ NotifyHandler
           \/ RadioReceives \/ Reboot

CivSpec == CivInit /\ [][CivNext]_vars

(* ble_thread, the host task and the radio keep running, and a dropped       *)
(* client's link is closed; a transmission ends, since do_tx_cycle is finite.*)
FairCiv ==
  /\ CivSpec
  /\ WF_vars(Session) /\ WF_vars(Drop /\ spc \in {"retry", "scan", "connect"})
  /\ WF_vars(OnDisconnect) /\ WF_vars(NotifyHandler) /\ WF_vars(RadioReceives)
  /\ WF_vars(SetPtt /\ target.ptt = "on") /\ WF_vars(SetBand /\ menu = "mode")

-----------------------------------------------------------------------------
(* Properties *)

(* Types of the link's state; what a session remembers or is about to send   *)
(* is a value of that field.                                                 *)
CivTypeOK ==
  /\ \A f \in Field : target[f] \in Value[f] /\ radio[f] \in Value[f]
                      /\ last[f] \in Value[f] \cup {None}
  /\ sending # None => spc \in Field /\ sending \in Value[spc]
  /\ {alive, pair, link, callback, notify, granted} \subseteq BOOLEAN
  /\ \A b \in DOMAIN budget : budget[b] \in Nat

(* run_session writes CI-V commands only on a connection the radio has       *)
(* granted, even when the grant of an earlier one arrived after that session *)
(* had given up.                                                             *)
CommandsGranted ==
  \A i \in 1..Len(air) : air[i].field # "pair" => granted

(* What the loop believes it sent is what the radio has or is about to get:  *)
(* while the connection lasts, the edge detector hides no difference.        *)
Newest(f, i) == air[i].field = f /\ \A j \in DOMAIN air : j > i => air[j].field # f
EdgeDetectorTruthful ==
  link /\ spc \in Field \cup {"poll"} =>
    \A f \in Field :
      last[f] # None =>
        /\ \A i \in DOMAIN air : Newest(f, i) => air[i].value = last[f]
        /\ (\A i \in DOMAIN air : air[i].field # f) => radio[f] = last[f]

(* The radio follows: when the operator and the transmitter are done and the *)
(* link stops failing, the radio ends with every target that was set: in     *)
(* particular it is unkeyed, whatever was lost, and it is on the band last   *)
(* selected.                                                                 *)
Quiet == budget.keys = 0 /\ budget.bands = 0 /\ budget.faults = 0 /\ budget.reboots = 0
Follows == \A f \in Field : target[f] # None => radio[f] = target[f]
RadioFollows == Quiet ~> []Follows

(* civ.rs:103, "Initialised to `false` so we boot in RX": after a restart    *)
(* the radio ends in receive.                                                *)
BootsInRx == Quiet ~> (radio.ptt = "off")
=============================================================================
