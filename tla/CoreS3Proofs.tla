---------------------------- MODULE CoreS3Proofs ----------------------------
(***************************************************************************)
(* Theorems about the CoreS3 application.                                    *)
(*                                                                          *)
(* Part 1: the reader gate and the open handle of the USB link always have   *)
(* one owner, for any number of reader threads, addresses, handles, faults   *)
(* and re-opens.                                                             *)
(*                                                                          *)
(* Part 2: an acquisition of the slot grid in flight always has a capture or *)
(* its trials behind it, for every value of the constants.                   *)
(***************************************************************************)
EXTENDS UsbLink, GridSync, TLAPS

(* What the steps need beyond the types: a session and the guard that leaves *)
(* it know their address, a bring-up past the open has a handle, and only a  *)
(* reader below the watchdog's limit reads.                                  *)
Known ==
  /\ app.pc \in Bringup \cup {"screen"} => app.addr \in Addr
  /\ app.pc \in {"start", "spawn"} => app.h \in Handle
  /\ \A t \in Thread : /\ reader[t].pc \in Session \cup Leaving => reader[t].addr \in Addr
                       /\ reader[t].pc = "read" => reader[t].dry < QuietReads

Types == UsbTypeOK /\ Known

(* A record of a reader thread. *)
ReaderRec == [pc : Session \cup Leaving \cup {"none"}, addr : Addr \cup {NoAddr},
              h : Handle \cup {NoHandle}, reopen : BOOLEAN, gone : BOOLEAN,
              fed : BOOLEAN, dry : 0 .. QuietReads]

(* What a reader may become when one field, or all, is replaced. *)
LEMMA NoReaderType == NoReader \in ReaderRec /\ NoReader.pc = "none"
  BY UsbAssumption DEF NoReader, ReaderRec

(* A read that returned audio. *)
LEMMA FedReader ==
  ASSUME NEW r \in ReaderRec
  PROVE  LET q == [r EXCEPT !.pc = "push", !.fed = TRUE, !.dry = 0]
         IN q \in ReaderRec /\ q.addr = r.addr /\ q.pc = "push"
<1>1. 0 \in 0 .. QuietReads BY UsbAssumption
<1> QED BY <1>1 DEF ReaderRec, Session

(* A reader that moves on, keeping the rest of its record. *)
LEMMA MovedReader ==
  ASSUME NEW r \in ReaderRec, NEW p \in Session \cup Leaving
  PROVE  LET q == [r EXCEPT !.pc = p]
         IN q \in ReaderRec /\ q.addr = r.addr /\ q.pc = p
  BY DEF ReaderRec

(* A reader that leaves its loop: its device is gone, or it wants a new session. *)
LEMMA LeavingReader ==
  ASSUME NEW r \in ReaderRec
  PROVE  /\ LET q == [r EXCEPT !.pc = "exit", !.gone = TRUE]
            IN q \in ReaderRec /\ q.addr = r.addr /\ q.pc = "exit"
         /\ LET q == [r EXCEPT !.pc = "exit", !.reopen = TRUE]
            IN q \in ReaderRec /\ q.addr = r.addr /\ q.pc = "exit"
<1>1. "exit" \in Session \cup Leaving \cup {"none"} BY DEF Session
<1> QED BY <1>1 DEF ReaderRec

(* A push that blocked for as long as the watchdog allows. *)
LEMMA BlockedReader ==
  ASSUME NEW r \in ReaderRec
  PROVE  LET q == [r EXCEPT !.pc = "loop", !.dry = QuietReads]
         IN  q \in ReaderRec /\ q.addr = r.addr /\ q.pc = "loop"
<1>1. QuietReads \in 0 .. QuietReads BY UsbAssumption
<1>2. "loop" \in Session \cup Leaving \cup {"none"} BY DEF Session
<1> QED BY <1>1, <1>2 DEF ReaderRec

(* A read that timed out. *)
LEMMA DryReader ==
  ASSUME NEW r \in ReaderRec, r.dry < QuietReads
  PROVE  LET q == [r EXCEPT !.pc = "loop", !.dry = @ + 1]
         IN q \in ReaderRec /\ q.addr = r.addr /\ q.pc = "loop"
<1>1. r.dry + 1 \in 0 .. QuietReads BY UsbAssumption DEF ReaderRec
<1>2. "loop" \in Session \cup Leaving \cup {"none"} BY DEF Session
<1> QED BY <1>1, <1>2 DEF ReaderRec

(* The board starts with nothing attached and nobody reading. *)
LEMMA TypesInit == UsbInit => Types
<1> SUFFICES ASSUME UsbInit PROVE Types
     OBVIOUS
<1>1. reader \in [Thread -> ReaderRec] /\ \A t \in Thread : reader[t].pc = "none"
     BY NoReaderType DEF UsbInit
<1>2. app \in [pc : Bringup \cup {"recv", "screen"}, addr : Addr \cup {NoAddr},
              h : Handle \cup {NoHandle}] /\ app.pc = "recv"
     BY DEF UsbInit
<1>3. device \in [addr : Addr \cup {NoAddr}, live : BOOLEAN] /\ ~device.live
     BY DEF UsbInit
<1>4. Known BY <1>1, <1>2 DEF Known, Bringup, Session, Leaving
<1>5. /\ handle \in Handle \cup {NoHandle} /\ handle = NoHandle
      /\ events \in Seq(Addr)
      /\ screen \in {"off", "waiting", "streaming", "error"} /\ host \in {"install", "up"}
     BY DEF UsbInit
<1>6. active \in BOOLEAN /\ stop \in BOOLEAN /\ refused \in BOOLEAN BY DEF UsbInit
<1>7. attempts \in Nat /\ faults \in 0 .. MaxFaults BY UsbAssumption DEF UsbInit
<1> QED BY <1>1, <1>2, <1>3, <1>4, <1>5, <1>6, <1>7 DEF Types, UsbTypeOK, ReaderRec

(* The device and start_host leave the threads alone. *)
LEMMA DeviceTypes == Types /\ (UsbDevice \/ HostUp) => Types'
<1> SUFFICES ASSUME Types, UsbDevice \/ HostUp PROVE Types'
     OBVIOUS
<1> USE UsbAssumption DEF Types, UsbTypeOK, Known
<1>1. ASSUME NEW a \in Addr, Attach(a) PROVE Types'
     BY <1>1 DEF Attach
<1>2. CASE Readvertise BY <1>2 DEF Readvertise, Fault
<1>3. CASE Detach BY <1>3 DEF Detach, Fault
<1>4. CASE Silence
  <2>1. /\ device' \in [addr : Addr \cup {NoAddr}, live : BOOLEAN]
        /\ ~device'.live /\ device'.addr = device.addr
       BY <1>4 DEF Silence
  <2>2. faults' \in 0 .. MaxFaults BY <1>4 DEF Silence, Fault
  <2> QED BY <1>4, <2>1, <2>2 DEF Silence
<1>5. CASE HostUp BY <1>5 DEF HostUp, world
<1> QED BY <1>1, <1>2, <1>3, <1>4, <1>5 DEF UsbDevice

(* app_task keeps the types: the address comes from the channel, the handle  *)
(* from the driver.                                                          *)
LEMMA AppTypes == Types /\ AppTask => Types'
<1> SUFFICES ASSUME Types, AppTask PROVE Types'
     OBVIOUS
<1> USE UsbAssumption DEF Types, UsbTypeOK, Known, Bringup
<1>1. CASE Recv
  <2>1. Head(events) \in Addr /\ Tail(events) \in Seq(Addr)
       BY <1>1 DEF Recv
  <2>2. CASE active BY <1>1, <2>1, <2>2 DEF Recv, world
  <2>3. CASE ~active
    <3>1. active' = TRUE /\ app' = [pc |-> "clear", addr |-> Head(events), h |-> NoHandle]
         BY <1>1, <2>3 DEF Recv
    <3> QED BY <1>1, <2>1, <3>1 DEF Recv, world
  <2> QED BY <2>2, <2>3
<1>2. CASE ClearStop BY <1>2 DEF ClearStop, App, world
<1>3. CASE Open
  <2>1. PICK h \in Handle : handle' = h /\ app' = [app EXCEPT !.pc = "start", !.h = h]
       BY <1>3 DEF Open
  <2>2. app' \in [pc : Bringup \cup {"recv", "screen"}, addr : Addr \cup {NoAddr},
                  h : Handle \cup {NoHandle}] /\ app'.h = h /\ app'.addr = app.addr
       BY <2>1
  <2> QED BY <1>3, <2>1, <2>2 DEF Open
<1>4. CASE Start
  <2>1. app' \in [pc : Bringup \cup {"recv", "screen"}, addr : Addr \cup {NoAddr},
                  h : Handle \cup {NoHandle}]
        /\ app'.pc = "spawn" /\ app'.addr = app.addr /\ app'.h = app.h
       BY <1>4 DEF Start, App
  <2>2. PICK b \in BOOLEAN : device' = [device EXCEPT !.live = b] BY <1>4 DEF Start
  <2>3. device' = [addr |-> device.addr, live |-> b] BY <2>2
  <2>4. device.addr # NoAddr /\ faults' \in 0 .. MaxFaults BY <1>4 DEF Start, Fault
  <2> QED BY <1>4, <2>1, <2>3, <2>4 DEF Start
<1>5. CASE Spawn
  <2>1. PICK t \in Thread :
          reader' = [reader EXCEPT ![t] = [NoReader EXCEPT !.pc = "loop", !.addr = app.addr,
                                                            !.h = app.h]]
       BY <1>5 DEF Spawn
  <2> DEFINE r == [NoReader EXCEPT !.pc = "loop", !.addr = app.addr, !.h = app.h]
  <2>2. r \in ReaderRec /\ r.pc = "loop" /\ r.addr \in Addr
       BY <1>5, NoReaderType DEF Spawn, ReaderRec, Session, NoReader
  <2> HIDE DEF r
  <2>3. reader' \in [Thread -> ReaderRec] BY <2>1, <2>2 DEF ReaderRec, r
  <2>4. Known' BY <1>5, <2>1, <2>2 DEF Spawn, App, world, r, Session, Leaving
  <2> QED BY <1>5, <2>3, <2>4 DEF Spawn, App, world, ReaderRec
<1>6. CASE SetStreaming BY <1>6 DEF SetStreaming, world
<1>7. CASE BringupFails
  <2>1. app' \in [pc : Bringup \cup {"recv", "screen"}, addr : Addr \cup {NoAddr},
                  h : Handle \cup {NoHandle}]
        /\ app'.pc = "release" /\ app'.addr = app.addr /\ app.pc \in Bringup
       BY <1>7 DEF BringupFails, App
  <2>2. faults' \in 0 .. MaxFaults /\ handle' \in {handle, NoHandle}
       BY <1>7 DEF BringupFails, Fault
  <2>3. refused' \in BOOLEAN BY <1>7 DEF BringupFails
  <2> QED BY <1>7, <2>1, <2>2, <2>3 DEF BringupFails
<1>8. CASE Release BY <1>8 DEF Release, world
<1> QED BY <1>1, <1>2, <1>3, <1>4, <1>5, <1>6, <1>7, <1>8 DEF AppTask

(* A reader's step replaces its own record by one of the same type. *)
LEMMA ReaderTypes == ASSUME NEW t \in Thread PROVE Types /\ ReaderThread(t) => Types'
<1> SUFFICES ASSUME Types, ReaderThread(t) PROVE Types'
     OBVIOUS
<1> DEFINE r == reader'[t]
<1>r. reader[t] \in ReaderRec BY DEF Types, UsbTypeOK, ReaderRec
<1>1. /\ r \in ReaderRec
      /\ r.pc \in Session \cup Leaving => r.addr \in Addr
      /\ r.pc = "read" => r.dry < QuietReads
      /\ reader' = [reader EXCEPT ![t] = r]
  <2>0. ASSUME NEW q \in ReaderRec, reader' = [reader EXCEPT ![t] = q], q.pc # "read",
               q.pc # "none" => q.addr = reader[t].addr, reader[t].pc # "none"
        PROVE  /\ r \in ReaderRec
               /\ r.pc \in Session \cup Leaving => r.addr \in Addr
               /\ r.pc = "read" => r.dry < QuietReads
               /\ reader' = [reader EXCEPT ![t] = r]
    <3>1. r = q BY <2>0 DEF Types, UsbTypeOK
    <3>2. reader[t].pc \in Session \cup Leaving BY <1>r, <2>0 DEF ReaderRec
    <3>3. reader[t].addr \in Addr BY <3>2 DEF Types, Known
    <3>4. "none" \notin Session \cup Leaving BY DEF Session, Leaving
    <3> HIDE DEF r
    <3> QED BY <2>0, <3>1, <3>3, <3>4
  <2>a. "exit" \in Session /\ "poll" \in Session /\ "loop" \in Session /\ "drop" \in Session
        /\ "sleep" \in Leaving
       BY DEF Session, Leaving
  <2>1. CASE CheckStop(t)
    <3>1. PICK q \in {[reader[t] EXCEPT !.pc = "exit", !.gone = TRUE],
                      [reader[t] EXCEPT !.pc = "poll"]} : reader' = [reader EXCEPT ![t] = q]
         BY <2>1 DEF CheckStop, Goto
    <3>2. q \in ReaderRec /\ q.addr = reader[t].addr /\ q.pc # "read"
      <4>1. CASE q = [reader[t] EXCEPT !.pc = "exit", !.gone = TRUE]
           BY <1>r, <4>1, LeavingReader
      <4>2. CASE q = [reader[t] EXCEPT !.pc = "poll"] BY <1>r, <2>a, <4>2, MovedReader
      <4> QED BY <3>1, <4>1, <4>2
    <3>3. reader[t].pc # "none" BY <2>1 DEF CheckStop, At
    <3> QED BY <2>0, <3>1, <3>2, <3>3
  <2>2. CASE Poll(t)
       BY <2>2, UsbAssumption DEF Poll, ReaderRec, Types, UsbTypeOK, Known, Session, Leaving, At
  <2>3. CASE ReadData(t)
    <3> DEFINE q == [reader[t] EXCEPT !.pc = "push", !.fed = TRUE, !.dry = 0]
    <3>1. reader' = [reader EXCEPT ![t] = q] BY <2>3 DEF ReadData
    <3>2. q \in ReaderRec /\ q.addr = reader[t].addr /\ q.pc = "push"
         BY <1>r, FedReader
    <3>3. reader[t].pc # "none" BY <2>3 DEF ReadData, At
    <3> HIDE DEF q
    <3> QED BY <2>0, <3>1, <3>2, <3>3
  <2>4. CASE ReadTimeout(t)
    <3> DEFINE q == [reader[t] EXCEPT !.pc = "loop", !.dry = @ + 1]
    <3>1. reader' = [reader EXCEPT ![t] = q] BY <2>4 DEF ReadTimeout
    <3>2. reader[t].pc = "read" BY <2>4 DEF ReadTimeout, At
    <3>3. reader[t].dry < QuietReads BY <3>2 DEF Types, Known
    <3>4. q \in ReaderRec /\ q.addr = reader[t].addr /\ q.pc = "loop"
         BY <1>r, <3>3, DryReader
    <3> HIDE DEF q
    <3> QED BY <2>0, <3>1, <3>2, <3>4
  <2>5. CASE ReadError(t)
    <3> DEFINE q == [reader[t] EXCEPT !.pc = "exit", !.reopen = TRUE]
    <3>1. reader' = [reader EXCEPT ![t] = q] BY <2>5 DEF ReadError
    <3>2. q \in ReaderRec /\ q.addr = reader[t].addr /\ q.pc = "exit"
         BY <1>r, LeavingReader
    <3>3. reader[t].pc # "none" BY <2>5 DEF ReadError, At
    <3> HIDE DEF q
    <3> QED BY <2>0, <3>1, <3>2, <3>3
  <2>6. CASE Push(t)
    <3>1. PICK q \in {[reader[t] EXCEPT !.pc = "loop"],
                     [reader[t] EXCEPT !.pc = "loop", !.dry = QuietReads]} :
                    reader' = [reader EXCEPT ![t] = q]
         BY <2>6 DEF Push, Goto
    <3>2. q \in ReaderRec /\ q.addr = reader[t].addr /\ q.pc = "loop"
      <4>1. CASE q = [reader[t] EXCEPT !.pc = "loop"] BY <1>r, <2>a, <4>1, MovedReader
      <4>2. CASE q = [reader[t] EXCEPT !.pc = "loop", !.dry = QuietReads]
           BY <1>r, <4>2, BlockedReader
      <4> QED BY <3>1, <4>1, <4>2
    <3>3. reader[t].pc # "none" BY <2>6 DEF Push, At
    <3> QED BY <2>0, <3>1, <3>2, <3>3
  <2>7. CASE Cleanup(t)
    <3> DEFINE q == [reader[t] EXCEPT !.pc = "drop"]
    <3>1. reader' = [reader EXCEPT ![t] = q] BY <2>7 DEF Cleanup, Goto
    <3>2. q \in ReaderRec /\ q.addr = reader[t].addr /\ q.pc = "drop"
         BY <1>r, <2>a, MovedReader
    <3>3. reader[t].pc # "none" BY <2>7 DEF Cleanup, At
    <3> HIDE DEF q
    <3> QED BY <2>0, <3>1, <3>2, <3>3
  <2>8. CASE DropGate(t)
       BY <2>8, UsbAssumption, NoReaderType
       DEF DropGate, NoReader, ReaderRec, Types, UsbTypeOK, Known, Session, Leaving, At
  <2>9. CASE CountReopen(t)
    <3>1. PICK q \in {NoReader, [reader[t] EXCEPT !.pc = "sleep"]} :
                    reader' = [reader EXCEPT ![t] = q]
         BY <2>9 DEF CountReopen, Goto
    <3>2. q \in ReaderRec /\ q.pc # "read" /\ (q.pc # "none" => q.addr = reader[t].addr)
      <4>1. CASE q = NoReader BY <4>1, NoReaderType
      <4>2. CASE q = [reader[t] EXCEPT !.pc = "sleep"] BY <1>r, <2>a, <4>2, MovedReader
      <4> QED BY <3>1, <4>1, <4>2
    <3>3. reader[t].pc # "none" BY <2>9 DEF CountReopen, At
    <3> QED BY <2>0, <3>1, <3>2, <3>3
  <2>10. CASE PostReopen(t)
    <3>1. reader' = [reader EXCEPT ![t] = NoReader] BY <2>10 DEF PostReopen
    <3>2. reader[t].pc # "none" BY <2>10 DEF PostReopen, At
    <3> QED BY <2>0, <3>1, <3>2, NoReaderType
  <2> QED BY <2>1, <2>2, <2>3, <2>4, <2>5, <2>6, <2>7, <2>8, <2>9, <2>10 DEF ReaderThread
<1>2. reader' \in [Thread -> ReaderRec] /\ Known'
  <2>1. app' = app
       BY DEF ReaderThread, CheckStop, Poll, ReadData, ReadTimeout, ReadError, Push, Cleanup,
              DropGate, CountReopen, PostReopen
  <2> HIDE DEF r
  <2> QED BY <1>1, <2>1 DEF Types, UsbTypeOK, Known, ReaderRec
<1>3. /\ device' = device /\ handle' \in {handle, NoHandle} /\ host' = host
      /\ events' \in Seq(Addr) /\ {active', stop', refused'} \subseteq BOOLEAN
      /\ attempts' \in Nat /\ faults' \in 0 .. MaxFaults /\ app' = app
      /\ screen' \in {"off", "waiting", "streaming", "error"}
  <2> USE UsbAssumption DEF Types, UsbTypeOK, Known, world, At
  <2>1. CASE CheckStop(t) BY <2>1 DEF CheckStop
  <2>2. CASE Poll(t) BY <2>2 DEF Poll
  <2>3. CASE ReadData(t) BY <2>3 DEF ReadData
  <2>4. CASE ReadTimeout(t) BY <2>4 DEF ReadTimeout
  <2>5. CASE ReadError(t) BY <2>5 DEF ReadError, Fault
  <2>6. CASE Push(t) BY <2>6 DEF Push, Fault
  <2>7. CASE Cleanup(t) BY <2>7 DEF Cleanup
  <2>8. CASE DropGate(t) BY <2>8 DEF DropGate
  <2>9. CASE CountReopen(t) BY <2>9 DEF CountReopen
  <2>10. CASE PostReopen(t) BY <2>10 DEF PostReopen, Leaving
  <2> QED BY <2>1, <2>2, <2>3, <2>4, <2>5, <2>6, <2>7, <2>8, <2>9, <2>10 DEF ReaderThread
<1> QED BY <1>2, <1>3 DEF Types, UsbTypeOK, ReaderRec

(* Types of every variable, with what Known adds, for all behaviours. *)
LEMMA TypesInvariant == UsbSpec => []Types
<1>1. Types /\ UNCHANGED usbVars => Types'
     BY DEF Types, UsbTypeOK, Known, usbVars, world
<1>2. Types /\ [UsbNext]_usbVars => Types'
     BY <1>1, DeviceTypes, AppTypes, ReaderTypes DEF UsbNext
<1> QED BY TypesInit, <1>2, PTL DEF UsbSpec

(* The state of the USB link is well typed, and an open handle has a device. *)
THEOREM UsbTypeCorrect == UsbSpec => []UsbTypeOK
  BY TypesInvariant, PTL DEF Types

-----------------------------------------------------------------------------
(* The inductive invariant.  A stop request outlives its session, so the     *)
(* handle's owner can only be trusted because the request is cleared before  *)
(* the next open, and because a reader that saw it has a dead handle.        *)
Owners ==
  /\ GateOwned /\ HandleOwned
  /\ handle # NoHandle => ~stop
  /\ app.pc = "open" => ~stop
  /\ \A t \in Reading : reader[t].gone => handle = NoHandle

(* Nothing is held at the start. *)
LEMMA OwnersInit == UsbInit => Owners
  BY DEF UsbInit, Owners, GateOwned, HandleOwned, Reading, NoReader, Bringup, Session

(* The device can only take the handle away. *)
LEMMA DeviceOwners == Owners /\ (UsbDevice \/ HostUp) => Owners'
<1> SUFFICES ASSUME Owners, UsbDevice \/ HostUp PROVE Owners'
     OBVIOUS
<1>1. app' = app /\ reader' = reader /\ active' = active
     BY DEF UsbDevice, HostUp, Attach, Readvertise, Detach, Silence
<1>2. \/ handle' = handle /\ stop' = stop
      \/ handle' = NoHandle /\ (handle = NoHandle /\ ~stop => ~stop')
  <2>1. CASE Detach BY <2>1 DEF Detach
  <2>2. CASE ~Detach
       BY <2>2 DEF UsbDevice, HostUp, world, Attach, Readvertise, Silence
  <2> QED BY <2>1, <2>2
<1>3. app.pc = "open" => ~stop'
  <2>1. app.pc = "open" => handle = NoHandle
       BY DEF Owners, GateOwned, HandleOwned, Bringup
  <2> QED BY <1>2, <2>1 DEF Owners
<1> QED BY <1>1, <1>2, <1>3 DEF Owners, GateOwned, HandleOwned, Reading, Valid

(* app_task takes the gate when it is free, and gives gate and handle to the *)
(* reader it spawns or gives both back.                                      *)
LEMMA AppOwners == Types /\ Owners /\ AppTask => Owners'
<1> SUFFICES ASSUME Types, Owners, AppTask PROVE Owners'
     OBVIOUS
<1>1. app.pc \in Bringup => active /\ Reading = {}
     BY DEF Owners, GateOwned
<1>2. app.pc \in {"clear", "open", "release"} => handle = NoHandle
     BY <1>1 DEF Owners, HandleOwned, Bringup
<1>3. app.pc \in {"start", "spawn"} /\ handle # NoHandle => app.h = handle /\ ~stop
     BY <1>1 DEF Owners, HandleOwned, Bringup
<1> USE DEF Bringup
<1>a. app \in [pc : Bringup \cup {"recv", "screen"}, addr : Addr \cup {NoAddr},
              h : Handle \cup {NoHandle}]
     BY DEF Types, UsbTypeOK
<1>4. CASE Recv
  <2>1. CASE active
       BY <1>4, <2>1 DEF Recv, world, Owners, GateOwned, HandleOwned, Reading, Valid
  <2>2. CASE ~active
    <3>1. Reading = {} /\ handle = NoHandle
         BY <1>4, <2>2 DEF Recv, Owners, GateOwned, HandleOwned
    <3> QED BY <1>4, <2>2, <3>1 DEF Recv, world, Owners, GateOwned, HandleOwned, Reading
  <2> QED BY <2>1, <2>2
<1>5. CASE ClearStop
  <2>1. app'.pc = "open" BY <1>5, <1>a DEF ClearStop, App
  <2> QED BY <1>5, <1>1, <1>2, <2>1
          DEF ClearStop, world, Owners, GateOwned, HandleOwned, Reading
<1>6. CASE Open
  <2>1. PICK h \in Handle : handle' = h /\ app' = [app EXCEPT !.pc = "start", !.h = h]
       BY <1>6 DEF Open
  <2>2. app'.pc = "start" /\ app'.h = handle' BY <1>a, <2>1
  <2> QED BY <1>6, <1>1, <2>2 DEF Open, Owners, GateOwned, HandleOwned, Reading
<1>7. CASE Start
  <2>1. app'.pc = "spawn" /\ app'.h = app.h BY <1>7, <1>a DEF Start, App
  <2> QED BY <1>7, <1>1, <2>1 DEF Start, Owners, GateOwned, HandleOwned, Reading
<1>8. CASE Spawn
  <2>1. PICK t \in Thread :
          reader' = [reader EXCEPT ![t] = [NoReader EXCEPT !.pc = "loop", !.addr = app.addr,
                                                            !.h = app.h]]
       BY <1>8 DEF Spawn
  <2>2. /\ reader'[t].pc = "loop" /\ reader'[t].h = app.h /\ reader'[t].gone = FALSE
        /\ \A u \in Thread \ {t} : reader'[u] = reader[u]
       BY <2>1 DEF NoReader, Types, UsbTypeOK
  <2>3. Reading' = {t} BY <1>8, <1>1, <2>2 DEF Spawn, Reading, Session
  <2>4. app'.pc = "screen" BY <1>8, <1>a DEF Spawn, App
  <2>5. active' /\ handle' = handle /\ stop' = stop BY <1>8, <1>1 DEF Spawn, world
  <2>6. app.pc = "spawn" BY <1>8 DEF Spawn
  <2> QED BY <1>3, <2>2, <2>3, <2>4, <2>5, <2>6 DEF Owners, GateOwned, HandleOwned, Valid
<1>9. CASE SetStreaming
     BY <1>9 DEF SetStreaming, world, Owners, GateOwned, HandleOwned, Reading, Valid
<1>10. CASE BringupFails
  <2>1. app'.pc = "release" /\ app.pc \in {"open", "start", "spawn"}
       BY <1>10, <1>a DEF BringupFails, App
  <2>2. handle' = NoHandle BY <1>10, <1>2, <1>3, <2>1 DEF BringupFails
  <2> QED BY <1>10, <1>1, <2>1, <2>2 DEF BringupFails, Owners, GateOwned, HandleOwned, Reading
<1>11. CASE Release
     BY <1>11, <1>1, <1>2 DEF Release, world, Owners, GateOwned, HandleOwned, Reading
<1> QED BY <1>4, <1>5, <1>6, <1>7, <1>8, <1>9, <1>10, <1>11 DEF AppTask

(* A reader keeps the gate until its guard drops, by when its handle is      *)
(* closed or dead; the guard past the gate owns nothing.                     *)
LEMMA ReaderOwners ==
  ASSUME NEW t \in Thread PROVE Types /\ Owners /\ ReaderThread(t) => Owners'
<1> SUFFICES ASSUME Types, Owners, ReaderThread(t) PROVE Owners'
     OBVIOUS
<1>a. app' = app
     BY DEF ReaderThread, CheckStop, Poll, ReadData, ReadTimeout, ReadError, Push, Cleanup,
            DropGate, CountReopen, PostReopen
<1>b. \A u \in Thread \ {t} : reader'[u] = reader[u]
     BY DEF Types, UsbTypeOK, ReaderThread, CheckStop, Poll, ReadData, ReadTimeout, ReadError,
            Push, Cleanup, DropGate, CountReopen, PostReopen, Goto
<1>c. reader \in [Thread -> ReaderRec] BY DEF Types, UsbTypeOK, ReaderRec
<1>1. ASSUME CheckStop(t) \/ Poll(t) \/ ReadData(t) \/ ReadTimeout(t) \/ ReadError(t) \/ Push(t)
      PROVE  Owners'
  <2>1. /\ reader[t].pc \in Session /\ reader'[t].pc \in Session \ {"drop"}
        /\ reader[t].pc # "drop" /\ reader'[t].h = reader[t].h
        /\ reader'[t].gone => reader[t].gone \/ stop
    <3> USE <1>c DEF At, Goto, Session, ReaderRec
    <3>1. CASE CheckStop(t)
      <4>1. CASE stop BY <3>1, <4>1 DEF CheckStop
      <4>2. CASE ~stop BY <3>1, <4>2 DEF CheckStop
      <4> QED BY <4>1, <4>2
    <3>2. CASE Poll(t) BY <3>2 DEF Poll
    <3>3. CASE ReadData(t) BY <3>3 DEF ReadData
    <3>4. CASE ReadTimeout(t) BY <3>4 DEF ReadTimeout
    <3>5. CASE ReadError(t) BY <3>5 DEF ReadError
    <3>6. CASE Push(t) BY <3>6 DEF Push
    <3> QED BY <1>1, <3>1, <3>2, <3>3, <3>4, <3>5, <3>6
  <2>2. active' = active /\ handle' = handle /\ stop' = stop
       BY <1>1 DEF CheckStop, Poll, ReadData, ReadTimeout, ReadError, Push, world
  <2>3. Reading' = Reading BY <1>b, <2>1 DEF Reading
  <2> QED BY <1>a, <1>b, <2>1, <2>2, <2>3 DEF Owners, GateOwned, HandleOwned, Reading, Valid
<1>2. CASE Cleanup(t)
  <2>1. t \in Reading /\ reader[t].pc = "exit" BY <1>2 DEF Cleanup, At, Reading, Session
  <2>2. reader'[t].pc = "drop" /\ reader'[t].gone = reader[t].gone
       BY <1>2, <1>c DEF Cleanup, Goto, ReaderRec
  <2>3. Reading' = Reading BY <1>b, <2>1, <2>2 DEF Reading, Session
  <2>4. handle' = NoHandle
    <3>1. CASE handle = NoHandle BY <1>2, <3>1 DEF Cleanup
    <3>2. CASE handle # NoHandle
      <4>1. app.pc \notin Bringup /\ Reading = {t} BY <2>1 DEF Owners, GateOwned
      <4>2. Valid(t) /\ ~stop /\ ~reader[t].gone
           BY <2>1, <3>2, <4>1 DEF Owners, HandleOwned, Bringup
      <4> QED BY <1>2, <4>2 DEF Cleanup
    <3> QED BY <3>1, <3>2
  <2>5. active' = active /\ stop' = stop BY <1>2 DEF Cleanup
  <2> QED BY <1>a, <2>3, <2>4, <2>5 DEF Owners, GateOwned, HandleOwned
<1>3. CASE DropGate(t)
  <2>1. t \in Reading /\ reader[t].pc = "drop" BY <1>3 DEF DropGate, At, Reading, Session
  <2>2. app.pc \notin Bringup /\ Reading = {t} BY <2>1 DEF Owners, GateOwned
  <2>3. handle = NoHandle BY <2>1, <2>2 DEF Owners, HandleOwned, Bringup
  <2>4. reader'[t].pc \in {"count", "none"} BY <1>3, <1>c DEF DropGate, NoReader
  <2>5. Reading' = {} BY <1>b, <2>2, <2>4 DEF Reading, Session
  <2>6. ~active' /\ handle' = handle /\ stop' = stop BY <1>3 DEF DropGate, world
  <2> QED BY <1>a, <2>2, <2>3, <2>5, <2>6 DEF Owners, GateOwned, HandleOwned
<1>4. ASSUME CountReopen(t) \/ PostReopen(t) PROVE Owners'
  <2>1. reader[t].pc \notin Session /\ reader'[t].pc \notin Session
       BY <1>4, <1>c DEF CountReopen, PostReopen, At, Goto, NoReader, Session, ReaderRec
  <2>2. Reading' = Reading BY <1>b, <2>1 DEF Reading
  <2>3. active' = active /\ handle' = handle /\ stop' = stop
       BY <1>4 DEF CountReopen, PostReopen, world
  <2> QED BY <1>a, <1>b, <2>1, <2>2, <2>3 DEF Owners, GateOwned, HandleOwned, Reading, Valid
<1> QED BY <1>1, <1>2, <1>3, <1>4 DEF ReaderThread

(* The strengthened invariant holds throughout. *)
LEMMA OwnersInvariant == UsbSpec => []Owners
<1>1. Owners /\ UNCHANGED usbVars => Owners'
     BY DEF Owners, GateOwned, HandleOwned, Reading, Valid, usbVars, world
<1>2. Types /\ Owners /\ [UsbNext]_usbVars => Owners'
     BY <1>1, DeviceOwners, AppOwners, ReaderOwners DEF UsbNext
<1> QED BY OwnersInit, TypesInvariant, <1>2, PTL DEF UsbSpec

(* READER_ACTIVE is set exactly while app_task brings up a session or one    *)
(* reader runs it, so no attach is ignored for a session that has ended.     *)
THEOREM UsbGateOwned == UsbSpec => []GateOwned
  BY OwnersInvariant, PTL DEF Owners

(* No way out of a session leaves the device's stream open behind it.        *)
THEOREM UsbHandleOwned == UsbSpec => []HandleOwned
  BY OwnersInvariant, PTL DEF Owners

-----------------------------------------------------------------------------
(* What the argument needs of the types: the flags are flags.  How far the   *)
(* shifts and the pool range does not matter to it.                          *)
Flags ==
  /\ ring = [armed |-> ring.armed, fill |-> ring.fill, origin |-> ring.origin]
  /\ ring.armed \in BOOLEAN
  /\ grid = [locked |-> grid.locked, lost |-> grid.lost, acquiring |-> grid.acquiring]
  /\ grid.locked \in BOOLEAN /\ grid.acquiring \in BOOLEAN
  /\ busy \in BOOLEAN

Inv == Flags /\ AcquiringIsCapturing

(* The initial grid acquires nothing. *)
LEMMA InvInit == GridInit => Inv
<1> SUFFICES ASSUME GridInit PROVE Inv
  OBVIOUS
<1>1. /\ ring = [armed |-> ring.armed, fill |-> ring.fill, origin |-> ring.origin]
      /\ ring.armed \in BOOLEAN
  BY DEF GridInit, Arm, EmptyRing
<1>2. /\ grid = [locked |-> grid.locked, lost |-> grid.lost, acquiring |-> grid.acquiring]
      /\ grid.locked = FALSE /\ grid.acquiring = FALSE /\ busy = FALSE
  BY DEF GridInit
<1> QED
  BY <1>1, <1>2 DEF Inv, Flags, AcquiringIsCapturing

(* arm_acquisition leaves the ring armed, whatever it was. *)
LEMMA ArmArms ==
  ASSUME NEW r, NEW p, r = [armed |-> r.armed, fill |-> r.fill, origin |-> r.origin],
         r.armed \in BOOLEAN
  PROVE  /\ Arm(r, p).armed = TRUE
         /\ Arm(r, p) = [armed |-> Arm(r, p).armed, fill |-> Arm(r, p).fill,
                         origin |-> Arm(r, p).origin]
  BY DEF Arm

(* observe_slot leaves flags, and raises acquiring only with the Acquire     *)
(* verdict.                                                                  *)
LEMMA Observed ==
  ASSUME NEW g, NEW n, NEW centred, NEW signal,
         g.locked \in BOOLEAN, g.acquiring \in BOOLEAN
  PROVE  LET o == ObserveSlot(g, n, centred, signal)
         IN  /\ o = [locked |-> o.locked, lost |-> o.lost, acquiring |-> o.acquiring]
             /\ o.locked \in BOOLEAN /\ o.acquiring \in BOOLEAN
             /\ o.acquiring => g.acquiring \/ Action(g, n, centred, signal) = "Acquire"
  BY DEF ObserveSlot

(* acquisition_done takes the flag down. *)
LEMMA Done ==
  ASSUME NEW g, NEW applied, g = [locked |-> g.locked, lost |-> g.lost, acquiring |-> g.acquiring],
         g.locked \in BOOLEAN
  PROVE  LET d == AcquisitionDone(g, applied)
         IN  /\ d = [locked |-> d.locked, lost |-> d.lost, acquiring |-> d.acquiring]
             /\ d.locked \in BOOLEAN /\ d.acquiring = FALSE
  BY DEF AcquisitionDone

(* The core of the argument: a judged slot that leaves an acquisition in     *)
(* flight has armed the ring, found it armed, or taken it.                   *)
LEMMA JudgeKeeps ==
  ASSUME Inv, ~busy, NEW c, NEW n, NEW dt, NEW signal, NEW backlogged,
         Judge(c, n, dt, signal, backlogged)
  PROVE  Inv'
<1> DEFINE full    == c.move = 0
           p       == Pooled(pool, n, dt)
           trimmed == /\ full /\ ~trim_used /\ ~grid.acquiring
                      /\ Len(p) >= DT_TRIM_MIN_OBS /\ WorthTrimming(Median(p))
           counts  == full /\ ~backlogged
           centred == n > 0 => Abs(dt) <= LOCK_MAX_PHASE
           acquire == counts /\ Action(grid, n, centred, signal) = "Acquire"
           g       == IF counts THEN ObserveSlot(grid, n, centred, signal) ELSE grid
           r       == IF acquire /\ ~trimmed THEN Arm(ring, phase) ELSE ring
           ready   == r.fill >= CAPTURE
<1>1. /\ grid' = IF acquire /\ trimmed THEN Deferred(g) ELSE g
      /\ busy' = (grid'.acquiring /\ ready)
      /\ ring' = IF busy' THEN [r EXCEPT !.armed = FALSE] ELSE r
  BY Zenon DEF Judge
<1> HIDE DEF full, trimmed, centred, ready
<1>2. /\ g = [locked |-> g.locked, lost |-> g.lost, acquiring |-> g.acquiring]
      /\ g.locked \in BOOLEAN /\ g.acquiring \in BOOLEAN
      /\ g.acquiring => grid.acquiring \/ acquire
  BY Observed DEF Inv, Flags
<1>3. /\ r = [armed |-> r.armed, fill |-> r.fill, origin |-> r.origin]
      /\ r.armed \in BOOLEAN
      /\ ring.armed \/ (acquire /\ ~trimmed) => r.armed
  BY ArmArms DEF Inv, Flags
<1> HIDE DEF g, r, acquire
<1>4. /\ grid' = [locked |-> grid'.locked, lost |-> grid'.lost, acquiring |-> grid'.acquiring]
      /\ grid'.locked \in BOOLEAN /\ grid'.acquiring \in BOOLEAN
      /\ grid'.acquiring => grid.acquiring \/ (acquire /\ ~trimmed)
  BY <1>1, <1>2, Done DEF Deferred
<1>5. /\ ring' = [armed |-> ring'.armed, fill |-> ring'.fill, origin |-> ring'.origin]
      /\ ring'.armed \in BOOLEAN
      /\ ~busy' => ring'.armed = r.armed
  BY <1>1, <1>3
<1>6. busy' \in BOOLEAN
  BY <1>1, <1>4, Zenon
<1>7. grid.acquiring => ring.armed
  BY DEF Inv, AcquiringIsCapturing
<1>8. grid'.acquiring => ring'.armed \/ busy'
  BY <1>3, <1>4, <1>5, <1>6, <1>7
<1> QED
  BY <1>4, <1>5, <1>6, <1>8 DEF Inv, Flags, AcquiringIsCapturing

(* Every step keeps the invariant. *)
LEMMA InvStep == Inv /\ [GridNext]_vars => Inv'
<1> SUFFICES ASSUME Inv, [GridNext]_vars PROVE Inv'
  OBVIOUS
<1> USE DEF Inv, Flags, AcquiringIsCapturing
<1>1. CASE SlotEnd
  <2>1. /\ ring' = [armed |-> ring'.armed, fill |-> ring'.fill, origin |-> ring'.origin]
        /\ ring'.armed = ring.armed
    BY <1>1 DEF SlotEnd
  <2> QED
    BY <1>1, <2>1 DEF SlotEnd, taskVars
<1>2. CASE Drift \/ NtpSync \/ SkipSlot
  BY <1>2 DEF Drift, NtpSync, SkipSlot, taskVars
<1>3. CASE DecodeSlot
  <2>1. CASE ntp
    BY <1>3, <2>1 DEF DecodeSlot
  <2>2. CASE ~ntp
    <3>1. PICK n, dt, signal, backlogged : Judge(Head(queue), n, dt, signal, backlogged)
      BY <1>3, <2>2 DEF DecodeSlot
    <3> QED
      BY <1>3, <3>1, JudgeKeeps DEF DecodeSlot
  <2> QED
    BY <2>1, <2>2
<1>4. CASE AcquisitionApplied \/ AcquisitionFailed
  <2>1. PICK applied \in BOOLEAN : grid' = AcquisitionDone(grid, applied)
    BY <1>4 DEF AcquisitionApplied, AcquisitionFailed
  <2>2. ring' = EmptyRing /\ busy' = FALSE
    BY <1>4 DEF AcquisitionApplied, AcquisitionFailed
  <2> QED
    BY <2>1, <2>2, Done DEF EmptyRing
<1>5. CASE UNCHANGED vars
  BY <1>5 DEF vars
<1> QED
  BY <1>1, <1>2, <1>3, <1>4, <1>5 DEF GridNext

(* Whatever is decoded, trimmed, deferred, skipped or taken over by NTP, an  *)
(* acquisition in flight has an armed ring or running trials: the flag that  *)
(* gates the trim and the trigger never sticks without either.               *)
THEOREM GridAcquiring == GridSpec => []AcquiringIsCapturing
<1>1. Inv => AcquiringIsCapturing
  BY DEF Inv
<1> QED
  BY <1>1, InvInit, InvStep, PTL DEF GridSpec
=============================================================================
