---------------------------- MODULE CivLinkProofs ----------------------------
(***************************************************************************)
(* The CI-V session only writes to a radio that granted the connection, for  *)
(* any band table and any number of transmissions, faults and restarts.      *)
(***************************************************************************)
EXTENDS CivLink, TLAPS

(* The value of a field, whichever it is, and a write of one. *)
AnyValue == {"on", "off", "data", None} \cup Freq
Frame == {w \in [field : Field \cup {"pair"}, value : AnyValue] :
            w.field \in Field => w.value \in Value[w.field]}

Steps == {"scan", "connect", "connected", "service", "request", "await", "poll", "retry", "off"}
           \cup Field
Bounds == {"keys", "bands", "faults", "reboots"}

(* The parts of the type invariant, each with what its preservation needs. *)
TargetTypes == target \in [Field -> AnyValue] /\ \A f \in Field : target[f] \in Value[f]
LastTypes   == last \in [Field -> AnyValue] /\ \A f \in Field : last[f] \in Value[f] \cup {None}
RadioTypes  == radio \in [Field -> AnyValue] /\ \A f \in Field : radio[f] \in Value[f]
SendTypes   == /\ spc \in Steps /\ sending \in AnyValue
               /\ sending # None => spc \in Field /\ sending \in Value[spc]
FlagTypes   == {alive, pair, link, callback, notify, granted} \subseteq BOOLEAN
AirTypes    == air \in Seq(Frame)
BudgetTypes == budget \in [Bounds -> Nat]

CivTypes == /\ TargetTypes /\ LastTypes /\ RadioTypes /\ SendTypes
            /\ FlagTypes /\ AirTypes /\ BudgetTypes

(* The parts give the invariant the runs check. *)
LEMMA CivTypesOK == CivTypes => CivTypeOK
  BY DEF CivTypes, CivTypeOK, TargetTypes, LastTypes, RadioTypes, SendTypes, FlagTypes,
         BudgetTypes

(* A field's values. *)
LEMMA ValueShape ==
  /\ Value["ptt"] = {"on", "off"} /\ Value["freq"] = Freq \cup {None}
  /\ Value["mode"] = {"data", None}
  /\ \A f \in Field : Value[f] \subseteq AnyValue
  BY DEF Value, Field, AnyValue, None

(* Board and radio start alike. *)
LEMMA BootTypes ==
  /\ BootTarget \in [Field -> AnyValue] /\ \A f \in Field : BootTarget[f] \in Value[f]
  /\ Unsent \in [Field -> AnyValue] /\ \A f \in Field : Unsent[f] = None
  BY ValueShape DEF BootTarget, Unsent, Field, AnyValue, None

(* Everything starts unset. *)
LEMMA CivTypesInit == CivInit => CivTypes
<1> SUFFICES ASSUME CivInit PROVE CivTypes
     OBVIOUS
<1> USE DEF CivInit
<1>1. TargetTypes /\ LastTypes /\ RadioTypes
     BY BootTypes DEF TargetTypes, LastTypes, RadioTypes
<1>2. SendTypes BY DEF SendTypes, Steps, AnyValue
<1>3. FlagTypes BY DEF FlagTypes
<1>4. AirTypes BY DEF AirTypes
<1>5. BudgetTypes BY CivAssumption DEF BudgetTypes, Bounds
<1> QED BY <1>1, <1>2, <1>3, <1>4, <1>5 DEF CivTypes

(* A bound is spent only while something is left of it. *)
LEMMA SpendTypes ==
  ASSUME BudgetTypes, NEW b \in Bounds, Spend(b)
  PROVE  BudgetTypes'
  BY DEF BudgetTypes, Spend

(* Failing costs a fault, unless the link is gone. *)
LEMMA FailsTypes ==
  ASSUME BudgetTypes, Fails
  PROVE  BudgetTypes'
<1>1. CASE UNCHANGED budget BY <1>1 DEF BudgetTypes
<1>2. CASE Spend("faults") BY <1>2, SpendTypes DEF Bounds
<1> QED BY <1>1, <1>2 DEF Fails

(* The threads that only store a target. *)
LEMMA StoresTypes ==
  ASSUME CivTypes, SetPtt \/ SetBand
  PROVE  CivTypes'
<1> USE DEF CivTypes
<1>1. TargetTypes'
  <2>1. ASSUME NEW f \in Field, NEW v \in Value[f], target' = [target EXCEPT ![f] = v]
        PROVE  TargetTypes'
       BY <2>1, ValueShape DEF TargetTypes
  <2>2. CASE SetPtt
    <3>1. \/ target' = [target EXCEPT !["ptt"] = "on"] \/ target' = [target EXCEPT !["ptt"] = "off"]
         BY <2>2 DEF SetPtt
    <3> QED BY <2>1, <3>1, ValueShape DEF Field
  <2>3. CASE SetBand
    <3>1. \/ \E f \in Freq : target' = [target EXCEPT !["freq"] = f]
          \/ target' = [target EXCEPT !["mode"] = "data"]
         BY <2>3 DEF SetBand
    <3> QED BY <2>1, <3>1, ValueShape DEF Field
  <2> QED BY <2>2, <2>3
<1>2. BudgetTypes'
  <2>1. UNCHANGED budget \/ Spend("keys") \/ Spend("bands") BY DEF SetPtt, SetBand
  <2> QED BY <2>1, SpendTypes DEF Bounds, BudgetTypes
<1>3. LastTypes' /\ RadioTypes' /\ SendTypes'
     BY DEF SetPtt, SetBand, LastTypes, RadioTypes, SendTypes
<1>4. FlagTypes' /\ AirTypes'
     BY DEF SetPtt, SetBand, linkVars, FlagTypes, AirTypes
<1> QED BY <1>1, <1>2, <1>3, <1>4

(* The command loop. *)
LEMMA LoopTypes ==
  ASSUME CivTypes, NEW f \in Field, Skip(f) \/ Load(f) \/ Write(f) \/ WriteFails(f)
  PROVE  CivTypes'
<1> USE DEF CivTypes
<1>1. TargetTypes' /\ RadioTypes'
     BY DEF Skip, Load, Write, WriteFails, Goto, appVars, TargetTypes, RadioTypes
<1>2. After[f] \in Steps BY DEF After, Steps, Field
<1>3. SendTypes'
  <2>1. CASE Skip(f) BY <1>2, <2>1 DEF Skip, Goto, SendTypes
  <2>2. CASE Load(f)
       BY <2>2, ValueShape DEF Load, Goto, SendTypes, TargetTypes, Steps
  <2>3. CASE Write(f) \/ WriteFails(f)
       BY <1>2, <2>3 DEF Write, WriteFails, Goto, SendTypes, AnyValue
  <2> QED BY <2>1, <2>2, <2>3
<1>4. LastTypes'
  <2>1. CASE Write(f)
    <3>1. sending \in Value[f] BY <2>1 DEF Write, SendTypes
    <3>2. last' = [last EXCEPT ![f] = sending] BY <2>1 DEF Write
    <3> QED BY <3>1, <3>2, ValueShape DEF LastTypes
  <2>2. CASE UNCHANGED last BY <2>2 DEF LastTypes
  <2> QED BY <2>1, <2>2 DEF Skip, Load, WriteFails
<1>5. AirTypes'
  <2>1. CASE Write(f)
    <3>1. sending \in Value[f] /\ sending \in AnyValue BY <2>1 DEF Write, SendTypes
    <3>2. [field |-> f, value |-> sending] \in Frame BY <3>1 DEF Frame
    <3>3. air' = Append(air, [field |-> f, value |-> sending]) BY <2>1 DEF Write
    <3> QED BY <3>2, <3>3 DEF AirTypes
  <2>2. CASE UNCHANGED air BY <2>2 DEF AirTypes
  <2> QED BY <2>1, <2>2 DEF Skip, Load, WriteFails, linkVars
<1>6. FlagTypes'
     BY DEF Skip, Load, Write, WriteFails, linkVars, FlagTypes
<1>7. BudgetTypes'
  <2>1. CASE UNCHANGED budget BY <2>1 DEF BudgetTypes
  <2> QED BY <2>1, FailsTypes DEF Skip, Load, Write, WriteFails
<1> QED BY <1>1, <1>3, <1>4, <1>5, <1>6, <1>7

(* The steps of a session before and around the loop. *)
Setup ==
  \/ Retry \/ ScanTimeout \/ ScanFound \/ ConnectFails \/ Connect \/ StoreAlive
  \/ ServiceFails \/ Subscribe \/ RequestFails \/ Request \/ GrantTimeout \/ GrantSeen
  \/ Lost \/ Again

(* They leave targets and radio alone, and nothing is being sent. *)
LEMMA SetupTypes ==
  ASSUME CivTypes, Setup
  PROVE  CivTypes'
<1> USE DEF CivTypes, Setup, End, Goto
<1>1. TargetTypes' /\ RadioTypes'
  <2>1. UNCHANGED <<target, radio>>
       BY DEF Retry, ScanTimeout, ScanFound, ConnectFails, Connect, StoreAlive, ServiceFails,
              Subscribe, RequestFails, Request, GrantTimeout, GrantSeen, Lost, Again, appVars
  <2> QED BY <2>1 DEF TargetTypes, RadioTypes
<1>2. SendTypes'
  <2>1. /\ spc \in Steps \ Field /\ UNCHANGED sending
        /\ spc' \in {"scan", "connect", "connected", "service", "request", "await", "retry", "ptt"}
       BY DEF Retry, ScanTimeout, ScanFound, ConnectFails, Connect, StoreAlive, ServiceFails,
              Subscribe, RequestFails, Request, GrantTimeout, GrantSeen, Lost, Again, Steps, Field
  <2> QED BY <2>1 DEF SendTypes, Steps, Field
<1>3. LastTypes'
  <2>1. UNCHANGED last \/ last' = Unsent
       BY DEF Retry, ScanTimeout, ScanFound, ConnectFails, Connect, StoreAlive, ServiceFails,
              Subscribe, RequestFails, Request, GrantTimeout, GrantSeen, Lost, Again
  <2> QED BY <2>1, BootTypes DEF LastTypes
<1>4. AirTypes'
  <2>1. UNCHANGED air \/ air' = Append(air, [field |-> "pair", value |-> None])
       BY DEF Retry, ScanTimeout, ScanFound, ConnectFails, Connect, StoreAlive, ServiceFails,
              Subscribe, RequestFails, Request, GrantTimeout, GrantSeen, Lost, Again, linkVars
  <2>2. [field |-> "pair", value |-> None] \in Frame BY DEF Frame, Field, AnyValue
  <2> QED BY <2>1, <2>2 DEF AirTypes
<1>5. BudgetTypes'
  <2>1. UNCHANGED budget \/ Spend("faults") \/ Fails
       BY DEF Retry, ScanTimeout, ScanFound, ConnectFails, Connect, StoreAlive, ServiceFails,
              Subscribe, RequestFails, Request, GrantTimeout, GrantSeen, Lost, Again
  <2>2. CASE UNCHANGED budget BY <2>2 DEF BudgetTypes
  <2> QED BY <2>1, <2>2, SpendTypes, FailsTypes DEF Bounds
<1>6. FlagTypes'
  <2> USE DEF FlagTypes, linkVars
  <2>1. CASE Retry \/ Again BY <2>1 DEF Retry, Again
  <2>2. CASE ScanTimeout \/ ConnectFails \/ ServiceFails \/ RequestFails \/ GrantTimeout \/ Lost
       BY <2>2 DEF ScanTimeout, ConnectFails, ServiceFails, RequestFails, GrantTimeout, Lost
  <2>3. CASE ScanFound BY <2>3 DEF ScanFound
  <2>4. CASE Connect BY <2>4 DEF Connect
  <2>5. CASE StoreAlive BY <2>5 DEF StoreAlive
  <2>6. CASE Subscribe BY <2>6 DEF Subscribe
  <2>7. CASE Request BY <2>7 DEF Request
  <2>8. CASE GrantSeen BY <2>8 DEF GrantSeen
  <2> QED BY <2>1, <2>2, <2>3, <2>4, <2>5, <2>6, <2>7, <2>8
<1> QED BY <1>1, <1>2, <1>3, <1>4, <1>5, <1>6

(* The stack's callbacks, the radio and a restart. *)
LEMMA StackTypes ==
  ASSUME CivTypes, Drop \/ OnDisconnect \/ NotifyHandler \/ RadioReceives \/ Reboot
  PROVE  CivTypes'
<1> USE DEF CivTypes, appVars
<1>1. CASE Drop
  <2>1. BudgetTypes'
       BY <1>1, SpendTypes DEF Drop, Bounds, BudgetTypes
  <2>2. TargetTypes' /\ LastTypes' /\ RadioTypes' /\ SendTypes'
       BY <1>1 DEF Drop, TargetTypes, LastTypes, RadioTypes, SendTypes
  <2>3. FlagTypes' BY <1>1 DEF Drop, FlagTypes
  <2>4. AirTypes' BY <1>1 DEF Drop, AirTypes
  <2> QED BY <2>1, <2>2, <2>3, <2>4
<1>2. CASE OnDisconnect \/ NotifyHandler
  <2>1. BudgetTypes' /\ AirTypes'
       BY <1>2 DEF OnDisconnect, NotifyHandler, BudgetTypes, AirTypes
  <2>2. TargetTypes' /\ LastTypes' /\ RadioTypes' /\ SendTypes'
       BY <1>2 DEF OnDisconnect, NotifyHandler, TargetTypes, LastTypes, RadioTypes, SendTypes
  <2>3. FlagTypes' BY <1>2 DEF OnDisconnect, NotifyHandler, FlagTypes
  <2> QED BY <2>1, <2>2, <2>3
<1>3. CASE RadioReceives
  <2>1. Head(air) \in Frame /\ Tail(air) \in Seq(Frame) BY <1>3 DEF RadioReceives, AirTypes
  <2>2. AirTypes' BY <1>3, <2>1 DEF RadioReceives, AirTypes
  <2>3. RadioTypes'
    <3>1. CASE UNCHANGED radio BY <3>1 DEF RadioTypes
    <3>2. CASE /\ Head(air).field # "pair"
               /\ radio' = [radio EXCEPT ![Head(air).field] = Head(air).value]
      <4>1. /\ Head(air).field \in Field /\ Head(air).value \in AnyValue
            /\ Head(air).value \in Value[Head(air).field]
           BY <2>1, <3>2 DEF Frame
      <4> QED BY <3>2, <4>1 DEF RadioTypes
    <3> QED BY <1>3, <3>1, <3>2 DEF RadioReceives
  <2>4. FlagTypes' BY <1>3 DEF RadioReceives, FlagTypes
  <2>5. TargetTypes' /\ LastTypes' /\ SendTypes' /\ BudgetTypes'
       BY <1>3 DEF RadioReceives, TargetTypes, LastTypes, SendTypes, BudgetTypes
  <2> QED BY <2>2, <2>3, <2>4, <2>5
<1>4. CASE Reboot
  <2>1. BudgetTypes' BY <1>4, SpendTypes DEF Reboot, Bounds
  <2>2. TargetTypes' /\ LastTypes' BY <1>4, BootTypes DEF Reboot, TargetTypes, LastTypes
  <2>3. SendTypes' BY <1>4 DEF Reboot, SendTypes, Steps, AnyValue
  <2>4. RadioTypes' BY <1>4 DEF Reboot, RadioTypes
  <2>5. FlagTypes' BY <1>4 DEF Reboot, FlagTypes
  <2>6. AirTypes' BY <1>4 DEF Reboot, AirTypes
  <2> QED BY <2>1, <2>2, <2>3, <2>4, <2>5, <2>6
<1> QED BY <1>1, <1>2, <1>3, <1>4

(* The three groups are all there is of Next. *)
LEMMA NextGroups ==
  CivNext <=> \/ SetPtt \/ SetBand \/ Setup
              \/ \E f \in Field : Skip(f) \/ Load(f) \/ Write(f) \/ WriteFails(f)
              \/ Drop \/ OnDisconnect \/ NotifyHandler \/ RadioReceives \/ Reboot
  BY DEF CivNext, Session, Setup

(* Types are kept by every step. *)
LEMMA CivTypesStep == CivTypes /\ [CivNext]_vars => CivTypes'
<1> SUFFICES ASSUME CivTypes, [CivNext]_vars PROVE CivTypes'
     OBVIOUS
<1>1. CASE UNCHANGED vars
     BY <1>1 DEF vars, appVars, linkVars, CivTypes, TargetTypes, LastTypes, RadioTypes, SendTypes,
                 FlagTypes, AirTypes, BudgetTypes
<1>2. CASE CivNext BY <1>2, NextGroups, StoresTypes, LoopTypes, SetupTypes, StackTypes
<1> QED BY <1>1, <1>2

(* Type correctness of the CI-V link; in particular a value loaded before an *)
(* awaited write is one of the field the loop is at.                         *)
THEOREM CivTypeCorrect == CivSpec => []CivTypeOK
  BY CivTypesInit, CivTypesStep, CivTypesOK, PTL DEF CivSpec

-----------------------------------------------------------------------------
(* A grant belongs to the connection that is up: the notification of an      *)
(* earlier one goes with its link, PAIR_STATE is cleared after the link of   *)
(* the new session is up, and the loop is entered only with it set again.    *)
GrantInv ==
  /\ notify => granted
  /\ granted => link
  /\ air # <<>> => link
  /\ link /\ pair /\ spc \in {"request", "await"} => granted
  /\ link /\ spc \in Field \cup {"poll"} => granted
  /\ CommandsGranted

(* Before the first connection there is nothing to grant. *)
LEMMA GrantInit == CivInit => GrantInv
  BY DEF CivInit, GrantInv, CommandsGranted, Field

(* Writing is appending to what is on the way. *)
LEMMA CommandsAppended ==
  ASSUME AirTypes, CommandsGranted, NEW w, granted' = granted, air' = Append(air, w),
         w.field # "pair" => granted
  PROVE  CommandsGranted'
<1>1. /\ Len(air') = Len(air) + 1 /\ air'[Len(air) + 1] = w
      /\ \A i \in 1..Len(air) : air'[i] = air[i] /\ Len(air) \in Nat
     BY DEF AirTypes
<1> QED BY <1>1 DEF CommandsGranted, AirTypes

(* The stores of the other threads do not touch the link. *)
LEMMA StoresGrant == CivTypes /\ GrantInv /\ (SetPtt \/ SetBand) => GrantInv'
  BY DEF SetPtt, SetBand, GrantInv, CommandsGranted, linkVars

(* The loop writes on a granted link. *)
LEMMA LoopGrant ==
  ASSUME CivTypes, GrantInv, NEW f \in Field, Skip(f) \/ Load(f) \/ Write(f) \/ WriteFails(f)
  PROVE  GrantInv'
<1>1. After[f] \in Field \cup {"poll"} /\ spc = f /\ spc' \in {f, After[f]}
     BY DEF After, Field, Skip, Load, Write, WriteFails, Goto
<1>2. CASE Write(f)
  <2>1. granted BY <1>2 DEF Write, GrantInv
  <2>2. CommandsGranted'
       BY <1>2, <2>1, CommandsAppended DEF Write, CivTypes, GrantInv
  <2> QED BY <1>1, <1>2, <2>1, <2>2 DEF Write, GrantInv
<1>3. CASE UNCHANGED <<pair, linkVars>>
     BY <1>1, <1>3 DEF linkVars, GrantInv, CommandsGranted, Field
<1> QED BY <1>2, <1>3 DEF Skip, Load, WriteFails

(* A session starts with PAIR_STATE cleared and enters the loop with it set. *)
LEMMA SetupGrant ==
  ASSUME CivTypes, GrantInv, Setup
  PROVE  GrantInv'
<1> USE DEF Goto, End, Field
<1>1. CASE Retry \/ ScanTimeout \/ ScanFound \/ ConnectFails \/ StoreAlive \/ ServiceFails
           \/ RequestFails \/ GrantTimeout \/ Lost \/ Subscribe
  <2>1. /\ UNCHANGED linkVars
        /\ spc' \in {"scan", "connect", "service", "retry"} \/ (spc' = "request" /\ ~pair')
       BY <1>1 DEF Retry, ScanTimeout, ScanFound, ConnectFails, StoreAlive, ServiceFails,
                   RequestFails, GrantTimeout, Lost, Subscribe
  <2> QED BY <2>1 DEF linkVars, GrantInv, CommandsGranted
<1>2. CASE Connect
  <2>1. ~granted /\ air = <<>> /\ ~notify BY <1>2 DEF Connect, GrantInv
  <2> QED BY <1>2, <2>1 DEF Connect, GrantInv, CommandsGranted
<1>3. CASE Request
  <2>1. CommandsGranted'
       BY <1>3, CommandsAppended DEF Request, CivTypes, GrantInv
  <2> QED BY <1>3, <2>1 DEF Request, GrantInv
<1>4. CASE GrantSeen BY <1>4 DEF GrantSeen, GrantInv, CommandsGranted, linkVars
<1>5. CASE Again BY <1>5 DEF Again, GrantInv, CommandsGranted, linkVars
<1> QED BY <1>1, <1>2, <1>3, <1>4, <1>5 DEF Setup

(* A grant arrives only over the link it is for. *)
LEMMA StackGrant ==
  ASSUME CivTypes, GrantInv, Drop \/ OnDisconnect \/ NotifyHandler \/ RadioReceives \/ Reboot
  PROVE  GrantInv'
<1>1. CASE Drop BY <1>1 DEF Drop, GrantInv, CommandsGranted
<1>2. CASE OnDisconnect BY <1>2 DEF OnDisconnect, GrantInv, CommandsGranted
<1>3. CASE NotifyHandler BY <1>3 DEF NotifyHandler, GrantInv, CommandsGranted
<1>4. CASE RadioReceives
  <2>1. /\ Tail(air) \in Seq(Frame) /\ Len(Tail(air)) = Len(air) - 1
        /\ \A i \in 1..Len(Tail(air)) : Tail(air)[i] = air[i + 1] /\ Len(air) \in Nat
       BY <1>4 DEF RadioReceives, CivTypes, AirTypes
  <2>2. granted => granted' BY <1>4 DEF RadioReceives
  <2>3. CommandsGranted'
       BY <1>4, <2>1, <2>2 DEF RadioReceives, CommandsGranted, GrantInv, CivTypes, AirTypes
  <2>4. link BY <1>4 DEF RadioReceives, GrantInv
  <2> QED BY <1>4, <2>2, <2>3, <2>4 DEF RadioReceives, GrantInv
<1>5. CASE Reboot BY <1>5 DEF Reboot, GrantInv, CommandsGranted, Field
<1> QED BY <1>1, <1>2, <1>3, <1>4, <1>5

(* Every step keeps grants and connections together. *)
LEMMA GrantStep == CivTypes /\ GrantInv /\ [CivNext]_vars => GrantInv'
<1> SUFFICES ASSUME CivTypes, GrantInv, [CivNext]_vars PROVE GrantInv'
     OBVIOUS
<1>1. CASE UNCHANGED vars BY <1>1 DEF vars, linkVars, GrantInv, CommandsGranted
<1>2. CASE CivNext BY <1>2, NextGroups, StoresGrant, LoopGrant, SetupGrant, StackGrant
<1> QED BY <1>1, <1>2

(* run_session never writes a command on a connection that the radio has not *)
(* granted, however links drop, grants come late and the board restarts.     *)
THEOREM CivCommandsGranted == CivSpec => []CommandsGranted
<1>1. GrantInv => CommandsGranted BY DEF GrantInv
<1> QED BY <1>1, GrantInit, GrantStep, CivTypesInit, CivTypesStep, PTL DEF CivSpec
-----------------------------------------------------------------------------
(* What the edge detector remembers of one field is the newest write of it   *)
(* on the way, or what the radio has when none is.                           *)
Truthful(f) ==
  last[f] # None =>
    /\ \A i \in DOMAIN air : Newest(f, i) => air[i].value = last[f]
    /\ (\A i \in DOMAIN air : air[i].field # f) => radio[f] = last[f]

InLoop == link /\ spc \in Field \cup {"poll"}

(* The property, field by field.                                             *)
LEMMA TruthfulFields == EdgeDetectorTruthful <=> (InLoop => \A f \in Field : Truthful(f))
  BY DEF EdgeDetectorTruthful, InLoop, Truthful

(* Nothing to compare while nothing moves. *)
LEMMA TruthfulStays ==
  ASSUME NEW f \in Field, Truthful(f), UNCHANGED <<last, air, radio>>
  PROVE  Truthful(f)'
  BY DEF Truthful, Newest

(* The write and the note of it are one: the written field's newest frame is *)
(* the new one, the other fields' are where they were.                       *)
LEMMA WriteTruthful ==
  ASSUME CivTypes, NEW f \in Field, Write(f), NEW g \in Field, Truthful(g)
  PROVE  Truthful(g)'
<1> DEFINE n == Len(air)
           w == [field |-> f, value |-> sending]
<1>1. /\ n \in Nat /\ DOMAIN air = 1..n /\ DOMAIN air' = 1..(n + 1)
      /\ air'[n + 1] = w /\ \A i \in 1..n : air'[i] = air[i]
     BY DEF Write, CivTypes, AirTypes
<1>2. last' = [last EXCEPT ![f] = sending] /\ last \in [Field -> AnyValue] /\ radio' = radio
     BY DEF Write, Goto, CivTypes, LastTypes
<1>3. w.field = f /\ w.value = sending OBVIOUS
<1> HIDE DEF n, w
<1>4. n + 1 \in 1..(n + 1) /\ \A i \in 1..n : i \in 1..(n + 1) /\ n + 1 > i BY <1>1
<1>5. \A i \in 1..(n + 1) : i = n + 1 \/ i \in 1..n BY <1>1
<1>6. CASE g = f
  <2>1. last'[g] = sending BY <1>2, <1>6
  <2>2. ASSUME NEW i \in 1..(n + 1), Newest(g, i)' PROVE air'[i].value = last'[g]
    <3>1. i = n + 1 BY <1>1, <1>3, <1>4, <1>5, <1>6, <2>2 DEF Newest
    <3> QED BY <1>1, <1>3, <2>1, <3>1
  <2>3. air'[n + 1].field = g BY <1>1, <1>3, <1>6
  <2> QED BY <1>1, <1>4, <2>2, <2>3 DEF Truthful
<1>7. CASE g # f
  <2>1. last'[g] = last[g] BY <1>2, <1>7
  <2>2. ASSUME NEW i \in 1..(n + 1), Newest(g, i)'
        PROVE  i \in 1..n /\ Newest(g, i) /\ air'[i] = air[i]
    <3>1. i \in 1..n BY <1>1, <1>3, <1>5, <1>7, <2>2 DEF Newest
    <3>2. \A j \in 1..n : j > i => air'[j].field # g BY <1>1, <1>4, <2>2 DEF Newest
    <3>3. air'[i].field = g BY <2>2 DEF Newest
    <3> QED BY <1>1, <3>1, <3>2, <3>3 DEF Newest
  <2>3. (\A i \in 1..(n + 1) : air'[i].field # g) => \A i \in 1..n : air[i].field # g
       BY <1>1, <1>4
  <2> QED BY <1>1, <1>2, <2>1, <2>2, <2>3 DEF Truthful
<1> QED BY <1>6, <1>7

(* The radio takes the oldest frame: either a newer one of the same field is *)
(* still on the way, or this one was the newest and the radio now has it.    *)
LEMMA ReceiveTruthful ==
  ASSUME CivTypes, granted, RadioReceives, NEW f \in Field, Truthful(f)
  PROVE  Truthful(f)'
<1> DEFINE n == Len(air) - 1
<1>1. /\ n \in Nat /\ DOMAIN air = 1..(n + 1) /\ DOMAIN air' = 1..n
      /\ \A i \in 1..n : air'[i] = air[i + 1]
      /\ air[1] = Head(air) /\ Head(air) \in Frame
     BY DEF RadioReceives, CivTypes, AirTypes
<1>2. last' = last /\ radio \in [Field -> AnyValue]
     BY DEF RadioReceives, CivTypes, RadioTypes
<1> HIDE DEF n
<1>3. /\ 1 \in 1..(n + 1) /\ \A i \in 1..n : i + 1 \in 1..(n + 1)
      /\ \A i \in 1..(n + 1) : i = 1 \/ (i - 1 \in 1..n /\ i = (i - 1) + 1)
      /\ \A i, j \in Nat : j > i <=> j + 1 > i + 1
      /\ \A i \in 1..n : i \in Nat
     BY <1>1
<1>4. ASSUME NEW i \in 1..n, Newest(f, i)' PROVE Newest(f, i + 1) /\ air'[i] = air[i + 1]
  <2>1. air[i + 1].field = f BY <1>1, <1>4 DEF Newest
  <2>2. ASSUME NEW j \in 1..(n + 1), j > i + 1 PROVE air[j].field # f
    <3>1. j - 1 \in 1..n /\ j = (j - 1) + 1 /\ j - 1 > i BY <1>1, <2>2
    <3>2. air'[j - 1].field # f BY <1>1, <1>4, <3>1 DEF Newest
    <3> QED BY <1>1, <3>1, <3>2
  <2> QED BY <1>1, <2>1, <2>2 DEF Newest
<1>5. ASSUME last[f] # None, \A i \in 1..n : air'[i].field # f PROVE radio'[f] = last[f]
  <2>1. ASSUME NEW i \in 1..(n + 1), i # 1 PROVE air[i].field # f
    <3>1. i - 1 \in 1..n /\ i = (i - 1) + 1 BY <1>3, <2>1
    <3>2. air'[i - 1] = air[i] BY <1>1, <3>1
    <3> QED BY <1>5, <3>1, <3>2
  <2>2. CASE Head(air).field = f
    <3>1. Newest(f, 1) BY <1>1, <2>1, <2>2 DEF Newest
    <3>2. Head(air).value = last[f] BY <1>1, <1>3, <1>5, <3>1 DEF Truthful
    <3>3. f # "pair" BY DEF Field
    <3>4. radio' = [radio EXCEPT ![f] = Head(air).value] BY <2>2, <3>3 DEF RadioReceives
    <3> QED BY <1>2, <3>2, <3>4
  <2>3. CASE Head(air).field # f
    <3>1. radio[f] = last[f] BY <1>1, <1>5, <2>1, <2>3 DEF Truthful
    <3>2. radio'[f] = radio[f] BY <1>2, <2>3 DEF RadioReceives
    <3> QED BY <3>1, <3>2
  <2> QED BY <2>2, <2>3
<1>6. ASSUME last[f] # None, NEW i \in 1..n, Newest(f, i)' PROVE air'[i].value = last[f]
  <2>1. i + 1 \in 1..(n + 1) BY <1>3
  <2>2. air[i + 1].value = last[f] BY <1>1, <1>4, <1>6, <2>1 DEF Truthful
  <2> QED BY <1>4, <1>6, <2>2
<1> QED BY <1>1, <1>2, <1>5, <1>6 DEF Truthful

(* Every step keeps the edge detector truthful, given that a link in the     *)
(* loop is a granted one (the radio would drop the command otherwise).       *)
LEMMA TruthfulStep ==
  ASSUME CivTypes, GrantInv, EdgeDetectorTruthful, [CivNext]_vars
  PROVE  EdgeDetectorTruthful'
<1>1. SUFFICES ASSUME InLoop', NEW f \in Field PROVE Truthful(f)'
  <2>1. (EdgeDetectorTruthful <=> (InLoop => \A f \in Field : Truthful(f)))'
       BY TruthfulFields, PTL
  <2> QED BY <2>1
<1>2. InLoop => Truthful(f) BY TruthfulFields
<1>3. CASE UNCHANGED vars
     BY <1>1, <1>2, <1>3, TruthfulStays DEF vars, linkVars, InLoop
<1>4. CASE SetPtt \/ SetBand
     BY <1>1, <1>2, <1>4, TruthfulStays DEF SetPtt, SetBand, linkVars, InLoop
<1>5. ASSUME NEW g \in Field, Skip(g) \/ Load(g) \/ Write(g) \/ WriteFails(g)
      PROVE  Truthful(f)'
  <2>1. spc \in Field /\ link' = link
       BY <1>5 DEF Skip, Load, Write, WriteFails, linkVars
  <2>2. Truthful(f) BY <1>1, <1>2, <2>1 DEF InLoop
  <2>3. CASE Write(g) BY <2>2, <2>3, WriteTruthful
  <2>4. CASE Skip(g) \/ Load(g) \/ WriteFails(g)
       BY <2>2, <2>4, TruthfulStays DEF Skip, Load, WriteFails, Goto, linkVars
  <2> QED BY <1>5, <2>3, <2>4
<1>6. CASE Setup
  <2>1. CASE GrantSeen BY <2>1, BootTypes DEF GrantSeen, Truthful
  <2>2. CASE Again BY <1>1, <1>2, <2>2, TruthfulStays DEF Again, Goto, linkVars, InLoop
  <2>3. CASE Setup /\ ~GrantSeen /\ ~Again
    <3>1. spc' \in {"scan", "connect", "connected", "service", "request", "await", "retry"}
         BY <2>3 DEF Setup, Goto, End, Retry, ScanTimeout, ScanFound, ConnectFails, Connect,
                     StoreAlive, ServiceFails, Subscribe, RequestFails, Request, GrantTimeout, Lost
    <3> QED BY <1>1, <3>1 DEF InLoop, Field
  <2> QED BY <1>6, <2>1, <2>2, <2>3
<1>7. CASE Drop \/ Reboot BY <1>1, <1>7 DEF Drop, Reboot, InLoop
<1>8. CASE OnDisconnect \/ NotifyHandler
     BY <1>1, <1>2, <1>8, TruthfulStays DEF OnDisconnect, NotifyHandler, InLoop
<1>9. CASE RadioReceives
  <2>1. InLoop BY <1>1, <1>9 DEF RadioReceives, InLoop
  <2>2. granted BY <2>1 DEF GrantInv, InLoop
  <2> QED BY <1>2, <1>9, <2>1, <2>2, ReceiveTruthful
<1> QED BY <1>3, <1>4, <1>5, <1>6, <1>7, <1>8, <1>9, NextGroups

(* While a connection lasts, what the command loop believes it sent is what  *)
(* the radio has or is about to get, although set_ptt and set_band store new *)
(* targets during the awaited write and writes fail: the edge detector never *)
(* hides a difference between board and radio.                               *)
THEOREM CivEdgeTruthful == CivSpec => []EdgeDetectorTruthful
<1>1. CivInit => EdgeDetectorTruthful BY DEF CivInit, EdgeDetectorTruthful
<1>2. CivTypes /\ GrantInv /\ EdgeDetectorTruthful /\ [CivNext]_vars => EdgeDetectorTruthful'
     BY TruthfulStep
<1> QED BY <1>1, <1>2, GrantInit, GrantStep, CivTypesInit, CivTypesStep, PTL DEF CivSpec
=============================================================================
