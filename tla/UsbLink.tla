------------------------------- MODULE UsbLink -------------------------------
(***************************************************************************)
(* The USB audio link of the CoreS3 (uac.rs): app_task takes the driver's    *)
(* RxConnected events from a channel and opens at most one session behind    *)
(* the READER_ACTIVE gate; a session's reader thread reads until the device  *)
(* disconnects, errs or goes silent, and the guard it drops on the way out   *)
(* releases the gate and may ask for the same interface again.               *)
(*                                                                          *)
(* The device and the class driver are outside the repository: attach,       *)
(* detach and silence happen at any moment, a handle dies with its device,   *)
(* and the disconnect callback runs before the handle is gone.               *)
(***************************************************************************)
EXTENDS Naturals, Sequences, FiniteSets

CONSTANTS
  Addr,         \* USB addresses the host may give the device
  Thread,       \* reader threads that may exist at one time
  Handle,       \* device handles of the class driver
  MaxAttempts,  \* REOPEN_MAX_ATTEMPTS
  QuietReads,   \* empty reads in a row that make STALL_TIMEOUT_MS
  SlowReplug,   \* whether a device comes back only after the last session has ended
  MaxFaults,    \* bound: detaches, silences, read errors, blocked pushes and refusals
  MaxNotices    \* bound: events waiting in the channel

NoAddr   == "no address"
NoHandle == "no handle"

ASSUME UsbAssumption ==
  /\ {MaxAttempts, MaxFaults, MaxNotices} \subseteq Nat /\ QuietReads \in Nat \ {0}
  /\ SlowReplug \in BOOLEAN
  /\ NoAddr \notin Addr /\ NoHandle \notin Handle

VARIABLES
  device,    \* its address, and whether it delivers audio
  handle,    \* the handle the class driver holds open
  events,    \* the channel of EVENT_SENDER: addresses of RxConnected
  active,    \* READER_ACTIVE
  stop,      \* READER_STOP_REQUESTED
  attempts,  \* REOPEN_ATTEMPTS
  screen,    \* UAC_STATE
  host,      \* start_host: "install", or "up" after its last store
  app,       \* app_task: where it is, the address and handle it works on
  reader,    \* the reader threads
  faults,    \* faults so far
  refused    \* history: the last bring-up was refused by a device that was there

world == <<device, handle, faults>>
usbVars == <<world, refused, events, active, stop, attempts, screen, host, app, reader>>

Bringup == {"clear", "open", "start", "spawn", "release"}   \* app_task holds the gate
Session == {"loop", "poll", "read", "push", "exit", "drop"} \* a reader holds the gate
Leaving == {"count", "sleep"}                               \* the guard, past the gate

NoReader == [pc |-> "none", addr |-> NoAddr, h |-> NoHandle, reopen |-> FALSE,
             gone |-> FALSE, fed |-> FALSE, dry |-> 0]

UsbInit ==
  /\ device = [addr |-> NoAddr, live |-> FALSE] /\ handle = NoHandle /\ faults = 0 /\ refused = FALSE
  /\ events = <<>> /\ active = FALSE /\ stop = FALSE /\ attempts = 0
  /\ screen = "off" /\ host = "install"
  /\ app = [pc |-> "recv", addr |-> NoAddr, h |-> NoHandle]
  /\ reader = [t \in Thread |-> NoReader]

Fault == faults < MaxFaults /\ faults' = faults + 1
App(pc) == app' = [app EXCEPT !.pc = pc]
At(t, pc) == reader[t].pc = pc
Goto(t, pc) == reader' = [reader EXCEPT ![t].pc = pc]

-----------------------------------------------------------------------------
(* The device and the class driver *)

(* driver_event_cb: RxConnected for a device that enumerated. *)
Attach(a) ==
  /\ device.addr = NoAddr /\ Len(events) < MaxNotices
  /\ SlowReplug => ~active
  /\ device' = [addr |-> a, live |-> TRUE]
  /\ events' = Append(events, a)
  /\ UNCHANGED <<refused, handle, faults, active, stop, attempts, screen, host, app, reader>>

(* The driver fires RxConnected again for the same attach. *)
Readvertise ==
  /\ device.addr # NoAddr /\ Len(events) < MaxNotices /\ Fault
  /\ events' = Append(events, device.addr)
  /\ UNCHANGED <<refused, device, handle, active, stop, attempts, screen, host, app, reader>>

(* device_event_cb runs for the handle that is open, which then dies. *)
Detach ==
  /\ device.addr # NoAddr /\ Fault
  /\ device' = [addr |-> NoAddr, live |-> FALSE]
  /\ stop' = (stop \/ handle # NoHandle) /\ handle' = NoHandle
  /\ UNCHANGED <<refused, events, active, attempts, screen, host, app, reader>>

(* An overflow ends the isochronous stream; no error is returned. *)
Silence ==
  /\ device.live /\ Fault /\ device' = [device EXCEPT !.live = FALSE]
  /\ UNCHANGED <<refused, handle, events, active, stop, attempts, screen, host, app, reader>>

-----------------------------------------------------------------------------
(* start_host: the channel and app_task exist before the driver's callback,  *)
(* and the last store comes after it.                                        *)

HostUp ==
  /\ host = "install" /\ host' = "up" /\ screen' = "waiting"
  /\ UNCHANGED <<refused, world, events, active, stop, attempts, app, reader>>

-----------------------------------------------------------------------------
(* app_task *)

Recv ==
  /\ app.pc = "recv" /\ events # <<>>
  /\ events' = Tail(events)
  /\ IF active
       THEN UNCHANGED <<active, app>>
       ELSE active' = TRUE /\ app' = [pc |-> "clear", addr |-> Head(events), h |-> NoHandle]
  /\ UNCHANGED <<refused, world, stop, attempts, screen, host, reader>>

(* Mutant: a stop requested of an earlier session is left standing. *)
ClearStop_keeps ==
  /\ app.pc = "clear" /\ App("open")
  /\ UNCHANGED <<refused, world, events, active, stop, attempts, screen, host, reader>>

(* A stop requested of an earlier session is forgotten before the open that  *)
(* registers the callback.                                                   *)
ClearStop ==
  /\ app.pc = "clear" /\ App("open") /\ stop' = FALSE
  /\ UNCHANGED <<refused, world, events, active, attempts, screen, host, reader>>

(* uac_host_device_open *)
Open ==
  /\ app.pc = "open" /\ device.addr = app.addr /\ handle = NoHandle
  /\ \E h \in Handle \ {reader[t].h : t \in Thread} :
       handle' = h /\ app' = [app EXCEPT !.pc = "start", !.h = h]
  /\ UNCHANGED <<refused, device, faults, events, active, stop, attempts, screen, host, reader>>

(* uac_host_device_start, which sets the stream going unless the device is   *)
(* wedged.                                                                   *)
Start ==
  /\ app.pc = "start" /\ handle = app.h
  /\ \/ device' = [device EXCEPT !.live = TRUE] /\ UNCHANGED faults
     \/ device' = [device EXCEPT !.live = FALSE] /\ Fault
  /\ App("spawn")
  /\ UNCHANGED <<refused, handle, events, active, stop, attempts, screen, host, reader>>

Spawn ==
  /\ app.pc = "spawn"
  /\ \E t \in Thread :
       /\ At(t, "none")
       /\ reader' = [reader EXCEPT ![t] = [NoReader EXCEPT !.pc = "loop", !.addr = app.addr,
                                                            !.h = app.h]]
  /\ App("screen") /\ refused' = FALSE
  /\ UNCHANGED <<world, events, active, stop, attempts, screen, host>>

(* handle_rx_connected's last store; the reader is already running. *)
SetStreaming ==
  /\ app.pc = "screen" /\ screen' = "streaming"
  /\ app' = [pc |-> "recv", addr |-> NoAddr, h |-> NoHandle]
  /\ UNCHANGED <<refused, world, events, active, stop, attempts, host, reader>>

(* Mutant: the error return forgets the gate. *)
BringupFails_keeps_gate ==
  /\ app.pc = "open" /\ device.addr # app.addr
  /\ app' = [pc |-> "recv", addr |-> NoAddr, h |-> NoHandle]
  /\ UNCHANGED <<refused, world, events, active, stop, attempts, screen, host, reader>>

(* The error returns: what was opened is closed again. *)
BringupFails ==
  /\ \/ /\ app.pc = "open" /\ (device.addr # app.addr \/ handle # NoHandle)
        /\ UNCHANGED <<faults, refused>>
     \/ app.pc = "start" /\ handle # app.h /\ UNCHANGED <<faults, refused>>
     \/ app.pc \in {"open", "start", "spawn"} /\ Fault /\ refused' = TRUE
  /\ handle' = IF app.h = handle THEN NoHandle ELSE handle
  /\ App("release")
  /\ UNCHANGED <<device, events, active, stop, attempts, screen, host, reader>>

Release ==
  /\ app.pc = "release" /\ active' = FALSE
  /\ app' = [pc |-> "recv", addr |-> NoAddr, h |-> NoHandle]
  /\ UNCHANGED <<refused, world, events, stop, attempts, screen, host, reader>>

-----------------------------------------------------------------------------
(* reader_thread *)

CheckStop(t) ==
  /\ At(t, "loop")
  /\ IF stop
       THEN /\ screen' = "waiting"
            /\ reader' = [reader EXCEPT ![t].pc = "exit", ![t].gone = TRUE]
       ELSE Goto(t, "poll") /\ UNCHANGED screen
  /\ UNCHANGED <<refused, world, events, active, stop, attempts, host, app>>

(* The once-a-second tick, if it is due, gives the re-open budget back when  *)
(* bytes moved; then the stall watchdog decides.                             *)
Poll(t) ==
  /\ At(t, "poll")
  /\ \E due \in {d \in BOOLEAN : d \/ reader[t].dry < QuietReads} :
       /\ attempts' = IF due /\ reader[t].fed THEN 0 ELSE attempts
       /\ LET fed == reader[t].fed /\ ~due
          IN IF reader[t].dry >= QuietReads
               THEN /\ screen' = "error"
                    /\ reader' = [reader EXCEPT ![t].fed = fed, ![t].pc = "exit",
                                                ![t].reopen = TRUE]
               ELSE /\ reader' = [reader EXCEPT ![t].fed = fed, ![t].pc = "read"]
                    /\ UNCHANGED screen
  /\ UNCHANGED <<refused, world, events, active, stop, host, app>>

Valid(t) == reader[t].h = handle

ReadData(t) ==
  /\ At(t, "read") /\ Valid(t) /\ device.live
  /\ reader' = [reader EXCEPT ![t].pc = "push", ![t].fed = TRUE, ![t].dry = 0]
  /\ UNCHANGED <<refused, world, events, active, stop, attempts, screen, host, app>>

(* ESP_ERR_TIMEOUT: a silent device, or a momentarily empty ring. *)
ReadTimeout(t) ==
  /\ At(t, "read") /\ Valid(t) /\ (~device.live \/ reader[t].dry + 1 < QuietReads)
  /\ reader' = [reader EXCEPT ![t].pc = "loop", ![t].dry = @ + 1]
  /\ UNCHANGED <<refused, world, events, active, stop, attempts, screen, host, app>>

(* Mutant: only a stall asks for a new session. *)
ReadError_no_reopen(t) ==
  /\ At(t, "read")
  /\ \/ ~Valid(t) /\ UNCHANGED faults
     \/ Valid(t) /\ Fault
  /\ screen' = "error" /\ Goto(t, "exit")
  /\ UNCHANGED <<refused, device, handle, events, active, stop, attempts, host, app>>

(* Any other error is terminal. *)
ReadError(t) ==
  /\ At(t, "read")
  /\ \/ ~Valid(t) /\ UNCHANGED faults
     \/ Valid(t) /\ Fault
  /\ screen' = "error"
  /\ reader' = [reader EXCEPT ![t].pc = "exit", ![t].reopen = TRUE]
  /\ UNCHANGED <<refused, device, handle, events, active, stop, attempts, host, app>>

(* push_samples may block on the chunk queue for as long as it is full.  The *)
(* watchdog's clock was set before it, so a push that blocks for             *)
(* STALL_TIMEOUT_MS ends a session whose device is well.                     *)
Push(t) ==
  /\ At(t, "push")
  /\ \/ Goto(t, "loop") /\ UNCHANGED faults
     \/ Fault /\ reader' = [reader EXCEPT ![t].pc = "loop", ![t].dry = QuietReads]
  /\ UNCHANGED <<refused, device, handle, events, active, stop, attempts, screen, host, app>>

(* Stop and close, unless the driver has already invalidated the handle. *)
Cleanup(t) ==
  /\ At(t, "exit") /\ Goto(t, "drop")
  /\ handle' = IF ~reader[t].gone /\ ~stop /\ Valid(t) THEN NoHandle ELSE handle
  /\ UNCHANGED <<refused, device, faults, events, active, stop, attempts, screen, host, app>>

(* ReaderActiveGuard::drop: the gate first, ... *)
DropGate(t) ==
  /\ At(t, "drop") /\ active' = FALSE
  /\ reader' = [reader EXCEPT ![t] = IF reader[t].reopen
                  THEN [NoReader EXCEPT !.pc = "count", !.addr = reader[t].addr] ELSE NoReader]
  /\ UNCHANGED <<refused, world, events, stop, attempts, screen, host, app>>

(* ... then the budget of re-opens ... *)
CountReopen(t) ==
  /\ At(t, "count")
  /\ attempts' = attempts + 1
  /\ IF attempts + 1 > MaxAttempts
       THEN screen' = "error" /\ reader' = [reader EXCEPT ![t] = NoReader]
       ELSE Goto(t, "sleep") /\ UNCHANGED screen
  /\ UNCHANGED <<refused, world, events, active, stop, host, app>>

(* ... and after REOPEN_DELAY_MS the event, on the same channel. *)
PostReopen(t) ==
  /\ At(t, "sleep")
  /\ events' = Append(events, reader[t].addr)
  /\ reader' = [reader EXCEPT ![t] = NoReader]
  /\ UNCHANGED <<refused, world, active, stop, attempts, screen, host, app>>

-----------------------------------------------------------------------------
AppTask == Recv \/ ClearStop \/ Open \/ Start \/ Spawn \/ SetStreaming \/ BringupFails \/ Release

ReaderThread(t) ==
  \/ CheckStop(t) \/ Poll(t) \/ ReadData(t) \/ ReadTimeout(t) \/ ReadError(t) \/ Push(t)
  \/ Cleanup(t) \/ DropGate(t) \/ CountReopen(t) \/ PostReopen(t)

UsbDevice == (\E a \in Addr : Attach(a)) \/ Readvertise \/ Detach \/ Silence

UsbNext == UsbDevice \/ HostUp \/ AppTask \/ \E t \in Thread : ReaderThread(t)

UsbSpec == UsbInit /\ [][UsbNext]_usbVars

(* Every thread of the board is scheduled; nothing is promised of the device *)
(* but that one with an open, started stream is read.                        *)
FairUsb ==
  /\ UsbSpec
  /\ WF_usbVars(HostUp) /\ WF_usbVars(AppTask) /\ \A t \in Thread : WF_usbVars(ReaderThread(t))

-----------------------------------------------------------------------------
(* Properties *)

(* Types of the link, of the two threads and of the readers.                 *)
UsbTypeOK ==
  /\ device \in [addr : Addr \cup {NoAddr}, live : BOOLEAN]
  /\ device.live => device.addr # NoAddr
  /\ handle \in Handle \cup {NoHandle} /\ handle # NoHandle => device.addr # NoAddr
  /\ events \in Seq(Addr) /\ {active, stop, refused} \subseteq BOOLEAN
  /\ attempts \in Nat /\ faults \in 0 .. MaxFaults
  /\ screen \in {"off", "waiting", "streaming", "error"} /\ host \in {"install", "up"}
  /\ app \in [pc : Bringup \cup {"recv", "screen"}, addr : Addr \cup {NoAddr},
              h : Handle \cup {NoHandle}]
  /\ reader \in [Thread -> [pc : Session \cup Leaving \cup {"none"}, addr : Addr \cup {NoAddr},
                            h : Handle \cup {NoHandle}, reopen : BOOLEAN, gone : BOOLEAN,
                            fed : BOOLEAN, dry : 0 .. QuietReads]]

Reading == {t \in Thread : reader[t].pc \in Session}

(* The gate is held exactly while app_task brings a session up or a reader   *)
(* runs one, never by both and never by two readers: it is neither stuck     *)
(* after any way out of a session nor free while one runs.                   *)
GateOwned ==
  /\ active <=> app.pc \in Bringup \/ Reading # {}
  /\ ~(app.pc \in Bringup /\ Reading # {})
  /\ \A t, u \in Reading : t = u

(* An open handle belongs to the bring-up or to the reader that will close   *)
(* it: no way out of a session leaves a stream running that no one reads,    *)
(* whatever the race between a disconnect and the cleanup's second look at   *)
(* READER_STOP_REQUESTED.                                                    *)
HandleOwned ==
  handle # NoHandle =>
    \/ app.pc \in {"start", "spawn"} /\ app.h = handle
    \/ \E t \in Reading : Valid(t) /\ ~stop /\ reader[t].pc # "drop"

Streams == device.live /\ \E t \in Reading : Valid(t)
GaveUp  == attempts > MaxAttempts

(* A device that stays attached is read for good in the end, whatever        *)
(* silences, read errors, blocked pushes, duplicate events and detaches came *)
(* before, unless the budget of re-opens without audio ran out, or the       *)
(* driver refused the last of them.  It is checked with SlowReplug: a device *)
(* that comes back before its last session has ended is lost                 *)
(* (uac_replug.cfg).                                                         *)
RadioComesBack == <>[](device.addr # NoAddr) => <>[]Streams \/ []<>GaveUp \/ <>[]refused

(* A re-open that fails is tried again until the budget of re-opens is spent. *)
RetriesReopen == <>[](device.addr # NoAddr /\ attempts > 0) => <>[]Streams \/ []<>GaveUp

(* What the display shows, once nothing is under way: streaming exactly      *)
(* while a reader runs.                                                      *)
ScreenTruthful ==
  host = "up" /\ app.pc = "recv" /\ events = <<>>
    /\ (\A t \in Thread : reader[t].pc \in {"none", "read"})
  => (screen = "streaming" <=> Reading # {})
==============================================================================
