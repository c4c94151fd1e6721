---------------------------- MODULE StationLocks ----------------------------
(***************************************************************************)
(* The mutexes of the M5StickS3 application and the threads that nest them. *)
(*                                                                          *)
(*   decode    the loop of run_with_source_qso (decode_pipeline.rs)         *)
(*   wf        wf_drain (decode_pipeline.rs)                                *)
(*   display   buttons, menu and redraw (display.rs)                        *)
(*   audio     capture_tx_thread and do_tx_cycle (audio.rs), only in Qso;   *)
(*             the capture thread of Acoustic takes no lock                 *)
(*                                                                          *)
(* A thread is at a place of its loop.  Each place is one lock scope: the   *)
(* mutexes it nests, outermost first.  The thread acquires them one at a    *)
(* time, does its work, drops them and goes on to a next place.  Places     *)
(* that hold no lock are left out.  Of the data under the UI mutex only what *)
(* decides where the display thread goes is kept: the menu.                 *)
(***************************************************************************)
EXTENDS Naturals, Sequences

CONSTANTS
  Mode,       \* "Acoustic" or "Qso"
  MenuItems,  \* menu entries the operator ever activates
  Booting,    \* does the decode task start at power-on, or in its loop?
  NvsWorks    \* does the flash write of flip_and_restart succeed?

ASSUME LocksAssumption ==
  /\ Mode \in {"Acoustic", "Qso"}
  /\ MenuItems \subseteq {"Band", "FindDf", "AutoCq", "NextMode"}
  /\ Booting \in BOOLEAN /\ NvsWorks \in BOOLEAN

MENU_ITEMS == <<"Band", "FindDf", "AutoCq", "NextMode">>

Thread == {"decode", "wf", "display"} \cup (IF Mode = "Qso" THEN {"audio"} ELSE {})

Mutex == {"ui", "qso", "local"}
Free == "free"

(* In Qso the decode task works on the manager everybody shares, in Acoustic *)
(* on one of its own.                                                        *)
FsmMutex == IF Mode = "Qso" THEN "qso" ELSE "local"

(* Mutant: call_station runs inside the scope that checks the demo flag. *)
Nest_call_under_ui ==
  [ boot |-> <<FsmMutex, "ui">>, latest |-> <<"ui">>, feed |-> <<"ui", FsmMutex>>,
    close |-> <<FsmMutex, "ui">>, drain |-> <<"ui">>, demoFlag |-> <<"ui">>, pick |-> <<"qso">>,
    df |-> <<"ui">>, finish |-> <<"qso">>, render |-> <<"ui">>, menuFlag |-> <<"ui">>,
    toggleMenu |-> <<"ui">>, nextItem |-> <<"ui">>, uiOp |-> <<"ui">>, row |-> <<"ui">>,
    demoCheck |-> <<"ui">>, callStation |-> <<"ui", "qso">>, item |-> <<"ui">>,
    autoCq |-> <<"ui", "qso">>, nextMode |-> <<"ui">> ]

(* The mutexes of each lock scope, in the order they are taken. *)
Nest ==
  [ \* decode
    boot   |-> <<FsmMutex, "ui">>,   \* initial CQ and push_tx_line
    latest |-> <<"ui">>,             \* latest_slot_seq
    feed   |-> <<"ui", FsmMutex>>,   \* push_decode and process_message
    close  |-> <<FsmMutex, "ui">>,   \* on_period_end and push_tx_line
    \* wf
    drain  |-> <<"ui">>,
    \* audio
    demoFlag |-> <<"ui">>,
    pick   |-> <<"qso">>,            \* tx_scheduler_pick_intent
    df     |-> <<"ui">>,             \* current_df_hz
    finish |-> <<"qso">>,            \* finish_self_tx
    \* display
    render |-> <<"ui">>,
    menuFlag |-> <<"ui">>,           \* menu_visible
    toggleMenu |-> <<"ui">>,
    nextItem |-> <<"ui">>,
    uiOp   |-> <<"ui">>,             \* cursor, sync mark, demo toggle
    row    |-> <<"ui">>,             \* selected_decode_msg
    demoCheck |-> <<"ui">>,
    callStation |-> <<"qso">>,
    item   |-> <<"ui">>,             \* menu::activate calling set_band or find_df
    autoCq |-> <<"ui", "qso">>,      \* menu::activate calling set_auto_cq
    nextMode |-> <<"ui">> ]          \* menu::activate calling flip_and_restart

Place == DOMAIN Nest

VARIABLES
  place,    \* Thread -> the lock scope it is in
  depth,    \* Thread -> how many of the scope's mutexes it holds
  holder,   \* Mutex -> the thread that holds it, or Free
  menu,     \* UiState::menu_visible and menu_selected
  power     \* "on", or "off" once esp_restart has been called

lockVars == <<place, depth, holder, menu, power>>

(* The top of the display loop: a button event, or straight to the redraw. *)
Top == {"menuFlag", "render"}

(* menu::activate: the scope the selected entry's callback runs in.          *)
ItemScope == [Band |-> "item", FindDf |-> "item", AutoCq |-> "autoCq", NextMode |-> "nextMode"]

(* What a button does depends on whether the menu is shown: with it hidden   *)
(* the short presses move the cursor and call the selected station.          *)
ButtonScopes ==
  IF menu.visible
  THEN {"toggleMenu", "nextItem", "render"}
         \cup {ItemScope[i] : i \in MenuItems \cap {MENU_ITEMS[menu.selected + 1]}}
  ELSE {"toggleMenu", "uiOp", "row", "render"}

Successors ==
  [ boot |-> {"latest"}, latest |-> {"feed"}, feed |-> {"close"}, close |-> {"latest"},
    drain |-> {"drain"},
    demoFlag |-> {"demoFlag", "pick"}, pick |-> {"demoFlag", "df"},
    df |-> {"demoFlag", "finish"}, finish |-> {"demoFlag"},
    render |-> Top, menuFlag |-> ButtonScopes,
    toggleMenu |-> {"render"}, nextItem |-> {"render"}, item |-> {"render"},
    uiOp |-> Top, row |-> {"uiOp", "demoCheck"} \cup Top, demoCheck |-> {"callStation"} \cup Top,
    callStation |-> {"uiOp"}, autoCq |-> {"render"}, nextMode |-> {} ]

(* toggle_visible and next_item, the scopes that change the menu.            *)
MenuAfter(p) ==
  [ visible  |-> IF p = "toggleMenu" THEN ~menu.visible ELSE menu.visible,
    selected |-> IF p = "nextItem" THEN (menu.selected + 1) % Len(MENU_ITEMS)
                 ELSE menu.selected ]

FirstPlace == [decode |-> IF Booting THEN "boot" ELSE "latest", wf |-> "drain",
               display |-> "render", audio |-> "demoFlag"]

LocksInit ==
  /\ place = [t \in Thread |-> FirstPlace[t]]
  /\ depth = [t \in Thread |-> 0]
  /\ holder = [m \in Mutex |-> Free]
  /\ menu = [visible |-> FALSE, selected |-> 0]
  /\ power = "on"

Scope(t) == Nest[place[t]]
Wants(t) == depth[t] < Len(Scope(t))
NextMutex(t) == Scope(t)[depth[t] + 1]

(* std::sync::Mutex: lock() waits until the mutex is free. *)
Acquire(t) ==
  /\ power = "on" /\ Wants(t) /\ holder[NextMutex(t)] = Free
  /\ holder' = [holder EXCEPT ![NextMutex(t)] = t]
  /\ depth' = [depth EXCEPT ![t] = @ + 1]
  /\ UNCHANGED <<place, menu, power>>

(* Mutant: the demo-mode early exit keeps its guard. *)
Leave_leaks(t) ==
  /\ power = "on" /\ ~Wants(t)
  /\ \E p \in Successors[place[t]] : place' = [place EXCEPT ![t] = p]
  /\ holder' = IF place[t] = "demoCheck" THEN holder
               ELSE [m \in Mutex |-> IF holder[m] = t THEN Free ELSE holder[m]]
  /\ depth' = [depth EXCEPT ![t] = 0]
  /\ menu' = MenuAfter(place[t])
  /\ UNCHANGED power

(* The scope ends: its guards are dropped.  flip_and_restart has no          *)
(* successor, it does not return.                                            *)
Leave(t) ==
  /\ power = "on" /\ ~Wants(t)
  /\ \E p \in Successors[place[t]] : place' = [place EXCEPT ![t] = p]
  /\ holder' = [m \in Mutex |-> IF holder[m] = t THEN Free ELSE holder[m]]
  /\ depth' = [depth EXCEPT ![t] = 0]
  /\ menu' = MenuAfter(place[t])
  /\ UNCHANGED power

(* flip_and_restart after a successful NVS write.  When the write fails it   *)
(* sleeps in a loop and no action of the display thread is left.             *)
Restart ==
  /\ power = "on" /\ place["display"] = "nextMode" /\ ~Wants("display") /\ NvsWorks
  /\ power' = "off"
  /\ UNCHANGED <<place, depth, holder, menu>>

LocksNext == Restart \/ \E t \in Thread : Acquire(t) \/ Leave(t)

LocksSpec == LocksInit /\ [][LocksNext]_lockVars

(* A thread that has its locks finishes the scope.  A mutex that keeps being *)
(* released is eventually granted: the scopes are microseconds in loops that *)
(* wait 20 ms or more between two of them.                                   *)
FairLocks ==
  /\ LocksSpec
  /\ WF_lockVars(Restart)
  /\ \A t \in Thread : WF_lockVars(Leave(t)) /\ SF_lockVars(Acquire(t))

-----------------------------------------------------------------------------
(* Types. *)
LocksTypeOK ==
  /\ place \in [Thread -> Place] /\ depth \in [Thread -> 0..2]
  /\ holder \in [Mutex -> Thread \cup {Free}] /\ power \in {"on", "off"}
  /\ menu \in [visible : BOOLEAN, selected : 0..3]

(* No set of threads waits for itself: among any group of threads there is   *)
(* one that can go on or that waits for somebody outside the group.          *)
NoDeadlock ==
  \A S \in (SUBSET Thread) \ {{}} :
    \E t \in S : ~(Wants(t) /\ holder[NextMutex(t)] \in S)

(* A thread that wants a mutex gets it, unless the device restarts.          *)
Served ==
  \A t \in Thread : (power = "on" /\ Wants(t)) ~> (~Wants(t) \/ power = "off")

(* boot_mode.rs:298, "Logs and skips reboot if the NVS write fails - better  *)
(* to keep the device alive in the previous mode": the waterfall keeps being *)
(* drawn after the operator has asked for the next mode.                     *)
AliveAfterFlip ==
  (place["display"] = "nextMode") ~> (power = "off" \/ ~Wants("wf"))
=============================================================================
