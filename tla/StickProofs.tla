----------------------------- MODULE StickProofs -----------------------------
(***************************************************************************)
(* Theorems about the M5StickS3 application.                                 *)
(*                                                                          *)
(* Part 1: deadlock freedom of its mutexes, whenever the menu's AutoCQ entry *)
(* is not used or the decode task has a manager of its own.                  *)
(*                                                                          *)
(* Part 2: the self-synchronisation loop keeps its types and never steers    *)
(* the receiver off the band.                                                *)
(***************************************************************************)
EXTENDS StationLocks, AutoSync, TLAPS

(* The lock scopes of each thread's code. *)
PlacesOf ==
  [ decode  |-> {"boot", "latest", "feed", "close"},
    wf      |-> {"drain"},
    audio   |-> {"demoFlag", "pick", "df", "finish"},
    display |-> {"render", "menuFlag", "toggleMenu", "nextItem", "uiOp", "row", "demoCheck",
                 "callStation", "item", "autoCq", "nextMode"} ]

(* Every thread stays in its own code, and reaches the AutoCQ scope only if  *)
(* the operator uses that entry.                                             *)
InOwnCode ==
  \A t \in Thread : place[t] \in PlacesOf[t] /\ (place[t] = "autoCq" => "AutoCq" \in MenuItems)

(* Scopes of one and of two mutexes. *)
LEMMA OneMutex ==
  ASSUME NEW x
  PROVE  Len(<<x>>) = 1 /\ <<x>>[1] = x
  OBVIOUS

(* The same for a nested scope. *)
LEMMA TwoMutexes ==
  ASSUME NEW x, NEW y
  PROVE  Len(<<x, y>>) = 2 /\ <<x, y>>[1] = x /\ <<x, y>>[2] = y
  OBVIOUS

(* A scope nests one or two different mutexes, and only three scopes of the  *)
(* decode task and AutoCQ nest two.                                          *)
LEMMA NestShape ==
  ASSUME NEW p \in Place
  PROVE  /\ Len(Nest[p]) \in {1, 2}
         /\ \A i \in 1..Len(Nest[p]) : Nest[p][i] \in Mutex
         /\ Len(Nest[p]) = 2 => Nest[p][1] # Nest[p][2]
         /\ Len(Nest[p]) = 2 => p \in {"boot", "feed", "close", "autoCq"}
<1>1. FsmMutex \in {"qso", "local"} BY DEF FsmMutex
<1>2. p \in {"boot", "latest", "feed", "close", "drain", "demoFlag", "pick", "df", "finish", "render",
            "menuFlag", "toggleMenu", "nextItem", "uiOp", "row", "demoCheck", "callStation",
            "item", "autoCq", "nextMode"}
     BY DEF Place, Nest
<1>3. CASE p \notin {"boot", "feed", "close", "autoCq"}
  <2>1. Nest[p] = <<"ui">> \/ Nest[p] = <<"qso">> BY <1>2, <1>3 DEF Nest
  <2>2. Len(Nest[p]) = 1 /\ Nest[p][1] \in Mutex BY <2>1, OneMutex DEF Mutex
  <2> QED BY <2>2
<1>4. CASE p \in {"boot", "feed", "close", "autoCq"}
  <2>1. \/ Nest[p] = <<FsmMutex, "ui">> \/ Nest[p] = <<"ui", FsmMutex>>
        \/ Nest[p] = <<"ui", "qso">>
       BY <1>4 DEF Nest
  <2>2. /\ Len(Nest[p]) = 2 /\ Nest[p][1] \in Mutex /\ Nest[p][2] \in Mutex
        /\ Nest[p][1] # Nest[p][2]
    <3>1. CASE Nest[p] = <<FsmMutex, "ui">> BY <1>1, <3>1, TwoMutexes DEF Mutex
    <3>2. CASE Nest[p] = <<"ui", FsmMutex>> BY <1>1, <3>2, TwoMutexes DEF Mutex
    <3>3. CASE Nest[p] = <<"ui", "qso">> BY <3>3, TwoMutexes DEF Mutex
    <3> QED BY <2>1, <3>1, <3>2, <3>3
  <2> QED BY <1>4, <2>2
<1> QED BY <1>3, <1>4

(* The threads by name. *)
LEMMA ThreadNames ==
  /\ Thread \subseteq {"decode", "wf", "display", "audio"}
  /\ {"decode", "wf", "display"} \subseteq Thread
  /\ Free \notin Thread
  /\ Mode = "Acoustic" => "audio" \notin Thread
  BY DEF Thread, Free

(* Each thread's places are places. *)
LEMMA PlacesArePlaces ==
  ASSUME NEW t \in Thread
  PROVE  PlacesOf[t] \subseteq Place
  BY ThreadNames DEF PlacesOf, Place, Nest

(* The loops stay in their thread's code. *)
LEMMA SuccessorsOwn ==
  ASSUME NEW t \in Thread, NEW p \in PlacesOf[t], NEW q \in Successors[p]
  PROVE  q \in PlacesOf[t] /\ (q = "autoCq" => "AutoCq" \in MenuItems)
<1>1. CASE t = "decode" BY <1>1 DEF PlacesOf, Successors
<1>2. CASE t = "wf" BY <1>2 DEF PlacesOf, Successors
<1>3. CASE t = "audio" BY <1>3 DEF PlacesOf, Successors
<1>4. CASE t = "display"
  <2>1. CASE p = "menuFlag"
    <3>1. q \in ButtonScopes BY <2>1 DEF Successors
    <3>2. ASSUME NEW i \in MenuItems, q = ItemScope[i]
          PROVE  q \in PlacesOf["display"] /\ (q = "autoCq" => "AutoCq" \in MenuItems)
         BY <3>2, LocksAssumption DEF ItemScope, PlacesOf
    <3> QED BY <1>4, <3>1, <3>2 DEF ButtonScopes, PlacesOf
  <2>2. CASE p # "menuFlag" BY <1>4, <2>2 DEF PlacesOf, Successors, Top
  <2> QED BY <2>1, <2>2
<1> QED BY <1>1, <1>2, <1>3, <1>4, ThreadNames

(* The menu keeps its type. *)
LEMMA MenuTypes ==
  ASSUME LocksTypeOK, NEW p
  PROVE  MenuAfter(p) \in [visible : BOOLEAN, selected : 0..3]
<1>1. menu.visible \in BOOLEAN /\ menu.selected \in 0..3 BY DEF LocksTypeOK
<1>2. Len(MENU_ITEMS) = 4 BY DEF MENU_ITEMS
<1>3. (menu.selected + 1) % 4 \in 0..3 BY <1>1
<1> QED BY <1>1, <1>2, <1>3 DEF MenuAfter

(* A thread takes no more mutexes than its scope has. *)
WithinScope == \A t \in Thread : depth[t] <= Len(Scope(t))

(* A mutex has the one holder whose position in its scope says so. *)
HeldByScope ==
  \A t \in Thread, m \in Mutex : holder[m] = t <=> \E i \in 1..depth[t] : Scope(t)[i] = m

(* The inductive invariant. *)
LocksInv == LocksTypeOK /\ HeldByScope /\ InOwnCode /\ WithinScope

(* No mutex is held at power-on. *)
LEMMA LocksInvInit == LocksInit => LocksInv
<1> SUFFICES ASSUME LocksInit PROVE LocksInv
     OBVIOUS
<1>1. ASSUME NEW t \in Thread PROVE FirstPlace[t] \in PlacesOf[t] /\ FirstPlace[t] # "autoCq"
  <2>1. CASE t = "decode" BY <2>1 DEF FirstPlace, PlacesOf
  <2>2. CASE t = "wf" BY <2>2 DEF FirstPlace, PlacesOf
  <2>3. CASE t = "audio" BY <2>3 DEF FirstPlace, PlacesOf
  <2>4. CASE t = "display" BY <2>4 DEF FirstPlace, PlacesOf
  <2> QED BY <2>1, <2>2, <2>3, <2>4, ThreadNames
<1>2. InOwnCode BY <1>1 DEF LocksInit, InOwnCode
<1>3. place \in [Thread -> Place] BY <1>1, PlacesArePlaces DEF LocksInit
<1>4. /\ depth \in [Thread -> 0..2] /\ holder \in [Mutex -> Thread \cup {Free}]
      /\ power \in {"on", "off"} /\ menu \in [visible : BOOLEAN, selected : 0..3]
     BY DEF LocksInit
<1>5. HeldByScope BY ThreadNames DEF LocksInit, HeldByScope
<1>6. WithinScope BY <1>3, NestShape DEF LocksInit, WithinScope, Scope
<1> QED BY <1>2, <1>3, <1>4, <1>5, <1>6 DEF LocksInv, LocksTypeOK, HeldByScope

(* lock() gives a free mutex to the thread, which then holds one more of its *)
(* scope.                                                                    *)
LEMMA AcquireInv ==
  ASSUME LocksInv, NEW t \in Thread, Acquire(t)
  PROVE  LocksInv'
<1> USE DEF LocksInv, LocksTypeOK, HeldByScope, Acquire, Wants
<1>1. place[t] \in Place /\ depth[t] \in 0..2 OBVIOUS
<1>2. Len(Scope(t)) \in {1, 2} /\ \A i \in 1..Len(Scope(t)) : Scope(t)[i] \in Mutex
     BY <1>1, NestShape DEF Scope
<1>3. depth[t] \in {0, 1} /\ NextMutex(t) \in Mutex /\ NextMutex(t) = Scope(t)[depth[t] + 1]
     BY <1>1, <1>2 DEF NextMutex
<1>4. InOwnCode' BY DEF InOwnCode
<1>5. /\ place' \in [Thread -> Place] /\ depth' \in [Thread -> 0..2]
      /\ holder' \in [Mutex -> Thread \cup {Free}] /\ power' \in {"on", "off"}
      /\ menu' \in [visible : BOOLEAN, selected : 0..3]
     BY <1>3
<1>6. ASSUME NEW u \in Thread, NEW m \in Mutex
      PROVE  holder'[m] = u <=> \E i \in 1..depth'[u] : Scope(u)'[i] = m
  <2>1. Scope(u)' = Scope(u) BY DEF Scope
  <2>2. CASE u # t
    <3>1. depth'[u] = depth[u] BY <2>2
    <3>2. holder'[m] = u <=> holder[m] = u BY <1>3, <2>2, ThreadNames
    <3> QED BY <2>1, <3>1, <3>2
  <2>3. CASE u = t
    <3>1. depth'[t] = depth[t] + 1 OBVIOUS
    <3>2. holder'[m] = t <=> holder[m] = t \/ m = NextMutex(t) BY <1>3
    <3>3. (\E i \in 1..(depth[t] + 1) : Scope(t)[i] = m)
            <=> (\E i \in 1..depth[t] : Scope(t)[i] = m) \/ Scope(t)[depth[t] + 1] = m
         BY <1>1
    <3> QED BY <1>3, <2>1, <2>3, <3>1, <3>2, <3>3
  <2> QED BY <2>2, <2>3
<1>7. WithinScope' BY <1>1, <1>2 DEF WithinScope, Scope
<1> QED BY <1>4, <1>5, <1>6, <1>7

(* The end of a scope frees what the thread held and nothing else. *)
LEMMA LeaveInv ==
  ASSUME LocksInv, NEW t \in Thread, Leave(t)
  PROVE  LocksInv'
<1> USE DEF LocksInv, LocksTypeOK, HeldByScope, Leave
<1>1. PICK p \in Successors[place[t]] : place' = [place EXCEPT ![t] = p] OBVIOUS
<1>2. p \in PlacesOf[t] /\ (p = "autoCq" => "AutoCq" \in MenuItems)
     BY <1>1, SuccessorsOwn DEF InOwnCode
<1>3. InOwnCode' BY <1>1, <1>2 DEF InOwnCode
<1>4. p \in Place BY <1>2, PlacesArePlaces
<1>5. /\ place' \in [Thread -> Place] /\ depth' \in [Thread -> 0..2]
      /\ holder' \in [Mutex -> Thread \cup {Free}] /\ power' \in {"on", "off"}
      /\ menu' \in [visible : BOOLEAN, selected : 0..3]
     BY <1>1, <1>4, MenuTypes
<1>6. ASSUME NEW u \in Thread, NEW m \in Mutex
      PROVE  holder'[m] = u <=> \E i \in 1..depth'[u] : Scope(u)'[i] = m
  <2>1. CASE u # t
    <3>1. depth'[u] = depth[u] /\ Scope(u)' = Scope(u) BY <1>1, <2>1 DEF Scope
    <3>2. holder'[m] = u <=> holder[m] = u BY <2>1, ThreadNames
    <3> QED BY <3>1, <3>2
  <2>2. CASE u = t
    <3>1. depth'[t] = 0 OBVIOUS
    <3>2. holder'[m] # t BY ThreadNames
    <3> QED BY <2>2, <3>1, <3>2
  <2> QED BY <2>1, <2>2
<1>7. ASSUME NEW u \in Thread PROVE depth'[u] <= Len(Scope(u)')
  <2>1. CASE u # t BY <1>1, <2>1 DEF Scope, WithinScope
  <2>2. CASE u = t BY <1>1, <1>4, <2>2, NestShape DEF Scope
  <2> QED BY <2>1, <2>2
<1> QED BY <1>3, <1>5, <1>6, <1>7 DEF WithinScope

(* Every step preserves the invariant. *)
LEMMA LocksInvStep == LocksInv /\ [LocksNext]_lockVars => LocksInv'
<1> SUFFICES ASSUME LocksInv, [LocksNext]_lockVars PROVE LocksInv'
     OBVIOUS
<1>1. CASE UNCHANGED lockVars
     BY <1>1 DEF lockVars, LocksInv, LocksTypeOK, HeldByScope, InOwnCode, WithinScope, Scope
<1>2. CASE Restart
     BY <1>2 DEF Restart, LocksInv, LocksTypeOK, HeldByScope, InOwnCode, WithinScope, Scope
<1>3. ASSUME NEW t \in Thread, Acquire(t) \/ Leave(t) PROVE LocksInv'
     BY <1>3, AcquireInv, LeaveInv
<1> QED BY <1>1, <1>2, <1>3 DEF LocksNext

-----------------------------------------------------------------------------
(* The configurations in which the two mutexes cannot be taken in opposite   *)
(* orders by two threads.                                                    *)
SafeMenu == Mode = "Acoustic" \/ "AutoCq" \notin MenuItems

(* A thread that holds a mutex and waits for another one is in a scope that  *)
(* nests two, and holds exactly the first.                                   *)
LEMMA HoldAndWait ==
  ASSUME LocksInv, NEW t \in Thread, NEW m \in Mutex, holder[m] = t, Wants(t)
  PROVE  /\ depth[t] = 1 /\ Len(Scope(t)) = 2 /\ m = Scope(t)[1]
         /\ NextMutex(t) = Scope(t)[2] /\ NextMutex(t) \in Mutex
         /\ NextMutex(t) # m
         /\ place[t] \in {"boot", "feed", "close", "autoCq"}
<1> USE DEF LocksInv, LocksTypeOK, HeldByScope
<1>1. place[t] \in Place /\ depth[t] \in 0..2 OBVIOUS
<1>2. /\ Len(Scope(t)) \in {1, 2} /\ \A i \in 1..Len(Scope(t)) : Scope(t)[i] \in Mutex
      /\ Len(Scope(t)) = 2 => Scope(t)[1] # Scope(t)[2]
      /\ Len(Scope(t)) = 2 => place[t] \in {"boot", "feed", "close", "autoCq"}
     BY <1>1, NestShape DEF Scope
<1>3. PICK i \in 1..depth[t] : Scope(t)[i] = m OBVIOUS
<1>4. depth[t] = 1 /\ Len(Scope(t)) = 2 BY <1>1, <1>2, <1>3 DEF Wants
<1> QED BY <1>2, <1>3, <1>4 DEF NextMutex

(* AutoCQ waits for the shared manager, which in Acoustic nobody but the     *)
(* display thread ever takes.                                                *)
LEMMA AutoCqNotBlocked ==
  ASSUME LocksInv, SafeMenu, place["display"] = "autoCq", Wants("display"), depth["display"] = 1
  PROVE  holder["qso"] \notin Thread
<1> USE DEF LocksInv, LocksTypeOK, HeldByScope
<1>0. "display" \in Thread /\ "qso" \in Mutex BY ThreadNames DEF Mutex
<1>1. Mode = "Acoustic" BY <1>0 DEF SafeMenu, InOwnCode
<1>2. SUFFICES ASSUME NEW t \in Thread, holder["qso"] = t PROVE FALSE
     OBVIOUS
<1>3. PICK i \in 1..depth[t] : Scope(t)[i] = "qso" BY <1>0, <1>2
<1>4. place[t] \in PlacesOf[t] /\ depth[t] \in 0..2 BY DEF InOwnCode
<1>5. CASE t = "display"
  <2>1. Scope(t) = <<"ui", "qso">> BY <1>5 DEF Scope, Nest
  <2>2. i = 1 BY <1>3, <1>5
  <2> QED BY <1>3, <2>1, <2>2
<1>6. CASE t = "wf"
  <2>1. Scope(t) = <<"ui">> BY <1>4, <1>6 DEF Scope, Nest, PlacesOf
  <2>2. Len(Scope(t)) = 1 /\ Scope(t)[1] = "ui" BY <2>1, OneMutex
  <2> QED BY <1>3, <1>4, <2>2 DEF WithinScope
<1>7. CASE t = "decode"
  <2>1. FsmMutex = "local" BY <1>1 DEF FsmMutex
  <2>2. \/ Scope(t) = <<"ui">> \/ Scope(t) = <<"local", "ui">> \/ Scope(t) = <<"ui", "local">>
       BY <1>4, <1>7, <2>1 DEF Scope, Nest, PlacesOf
  <2>3. CASE Scope(t) = <<"ui">>
    <3>1. Len(Scope(t)) = 1 /\ Scope(t)[1] = "ui" BY <2>3, OneMutex
    <3>2. depth[t] <= 1 BY <3>1 DEF WithinScope
    <3>3. i = 1 BY <1>3, <1>4, <3>2
    <3> QED BY <1>3, <3>1, <3>3
  <2>4. CASE Scope(t) = <<"local", "ui">> \/ Scope(t) = <<"ui", "local">>
    <3>1. Scope(t)[1] # "qso" /\ Scope(t)[2] # "qso" BY <2>4
    <3> QED BY <1>3, <1>4, <3>1
  <2> QED BY <2>2, <2>3, <2>4
<1> QED BY <1>1, <1>5, <1>6, <1>7, ThreadNames

(* Only the decode task can hold one mutex while it waits for another that   *)
(* is taken.                                                                 *)
LEMMA OnlyDecodeHoldsAndWaits ==
  ASSUME LocksInv, SafeMenu, NEW t \in Thread, NEW m \in Mutex, holder[m] = t, Wants(t),
         holder[NextMutex(t)] \in Thread
  PROVE  t = "decode"
<1>1. /\ depth[t] = 1 /\ NextMutex(t) = Scope(t)[2]
      /\ place[t] \in {"boot", "feed", "close", "autoCq"}
     BY HoldAndWait
<1>2. place[t] \in PlacesOf[t] BY DEF LocksInv, InOwnCode
<1>3. t = "decode" \/ (t = "display" /\ place[t] = "autoCq")
     BY <1>1, <1>2, ThreadNames DEF PlacesOf
<1>4. CASE t = "display" /\ place[t] = "autoCq"
  <2>1. Scope(t) = <<"ui", "qso">> BY <1>4 DEF Scope, Nest
  <2>2. NextMutex(t) = "qso" BY <1>1, <2>1
  <2> QED BY <1>1, <1>4, <2>2, AutoCqNotBlocked
<1> QED BY <1>3, <1>4

(* Among waiting threads everybody waits for the decode task, which cannot   *)
(* wait for itself: its two mutexes differ.                                  *)
LEMMA InvNoDeadlock ==
  ASSUME LocksInv, SafeMenu
  PROVE  NoDeadlock
<1> SUFFICES ASSUME NEW S \in SUBSET Thread, S # {},
                    \A t \in S : Wants(t) /\ holder[NextMutex(t)] \in S
             PROVE  FALSE
     BY DEF NoDeadlock
<1>1. ASSUME NEW t \in S PROVE holder[NextMutex(t)] = "decode"
  <2> DEFINE h == holder[NextMutex(t)]
  <2>1. h \in S /\ h \in Thread /\ Wants(h) /\ holder[NextMutex(h)] \in Thread OBVIOUS
  <2>2. NextMutex(t) \in Mutex
    <3>1. place[t] \in Place /\ depth[t] \in 0..2 BY DEF LocksInv, LocksTypeOK, HeldByScope
    <3>2. /\ Len(Scope(t)) \in {1, 2} /\ \A i \in 1..Len(Scope(t)) : Scope(t)[i] \in Mutex
         BY <3>1, NestShape DEF Scope
    <3> QED BY <3>1, <3>2 DEF NextMutex, Wants
  <2> QED BY <2>1, <2>2, OnlyDecodeHoldsAndWaits
<1>2. PICK t \in S : TRUE OBVIOUS
<1>3. "decode" \in S BY <1>1, <1>2
<1>4. holder[NextMutex("decode")] = "decode" BY <1>1, <1>3
<1>5. PICK m \in Mutex : holder[m] = "decode" /\ NextMutex("decode") # m
  <2>1. NextMutex("decode") \in Mutex
    <3>1. place["decode"] \in Place /\ depth["decode"] \in 0..2
         BY <1>3 DEF LocksInv, LocksTypeOK, HeldByScope
    <3>2. /\ Len(Scope("decode")) \in {1, 2}
          /\ \A i \in 1..Len(Scope("decode")) : Scope("decode")[i] \in Mutex
         BY <3>1, NestShape DEF Scope
    <3> QED BY <1>3, <3>1, <3>2 DEF NextMutex, Wants
  <2> QED BY <1>3, <1>4, <2>1, HoldAndWait
<1>6. NextMutex("decode") # NextMutex("decode")
  <2>1. NextMutex("decode") \in Mutex BY <1>3, <1>5, HoldAndWait
  <2> QED BY <1>3, <1>4, <2>1, HoldAndWait
<1> QED BY <1>6

(* The application never deadlocks when each mode is used as the code of the *)
(* boot modes intends: in Acoustic with any menu entry, in Qso without the   *)
(* AutoCQ entry.  (With it, the run locks_auto_cq shows the deadlock.)       *)
THEOREM LocksNoDeadlock == ASSUME SafeMenu PROVE LocksSpec => []NoDeadlock
<1>1. LocksInv => NoDeadlock BY InvNoDeadlock
<1> QED BY <1>1, LocksInvInit, LocksInvStep, PTL DEF LocksSpec

-----------------------------------------------------------------------------
Half == SLOT \div 2

(* wrap *)
LEMMA WrapIs ==
  ASSUME NEW x \in Int, -SLOT < x, x < SLOT, 0 < SLOT
  PROVE  /\ -Half <= x /\ x <= Half => Wrap(x) = x \/ (x = -Half /\ Wrap(x) = x + SLOT)
         /\ x > Half => Wrap(x) = x - SLOT
         /\ x < -Half => Wrap(x) = x + SLOT
         /\ Wrap(x) \in Int /\ -Half <= Wrap(x) /\ Wrap(x) <= Half
<1>0. SLOT \in Nat /\ Half \in Nat /\ 2 * Half <= SLOT /\ SLOT <= 2 * Half + 1
  BY AutoSyncAssumption DEF Half
<1>1. CASE x >= 0
  <2>1. x % SLOT = x
    BY <1>0, <1>1
  <2> QED
    BY <1>0, <1>1, <2>1 DEF Wrap, Half
<1>2. CASE x < 0
  <2>1. x % SLOT = x + SLOT
    BY <1>0, <1>2
  <2> QED
    BY <1>0, <1>2, <2>1 DEF Wrap, Half
<1> QED
  BY <1>1, <1>2

(* A slot on its way to the decode task. *)
Slot == [dt : Int, mark : Nat]

(* Corrections already measured and not yet taken by the capture thread. *)
Due == {shift} \cup {Clamp(captured[i].dt) : i \in DOMAIN captured}

(* The grid, the corrections and the audio left over are within their range. *)
Ranges ==
  /\ phase \in -Half..Half
  /\ target \in -MAX_SHIFT..MAX_SHIFT /\ shift \in -MAX_SHIFT..MAX_SHIFT
  /\ carry \in Nat /\ fresh \in BOOLEAN /\ txs \in Nat
  /\ captured \in Seq(Slot) /\ mark \in Nat
  /\ carry # 0 => ~fresh /\ carry + 3 * MAX_SHIFT <= Tolerance
  /\ captured # <<>> => Len(captured) = 1 /\ shift = 0

(* The correction under way leaves a grid that is seen where it is seen, and *)
(* so does the one due after it.                                             *)
Steered ==
  /\ Seen(phase) => Seen(phase - target)
  /\ Seen(phase - target) => \A v \in Due : Seen(phase - target - v)

(* So does the one due after a transmission launched in this slot.           *)
Launchable ==
  fresh => \A d \in LaunchDelays : LET x == Wrap(phase + Jump(d))
                                   IN  Seen(x) => \A v \in Due : Seen(x - v)

(* As long as the loop has measured stations and no noise.                   *)
SyncInv == Ranges /\ (~noise => Steered /\ Launchable)

(* One slot corrects at most MAX_SHIFT, towards the measured offset.         *)
LEMMA ClampIs ==
  ASSUME NEW x \in Int
  PROVE  /\ Clamp(x) \in -MAX_SHIFT..MAX_SHIFT
         /\ x >= 0 => Clamp(x) >= 0
         /\ x <= 0 => Clamp(x) <= 0
         /\ x >= MAX_SHIFT => Clamp(x) = MAX_SHIFT
         /\ x <= -MAX_SHIFT => Clamp(x) = -MAX_SHIFT
         /\ -MAX_SHIFT <= x /\ x <= MAX_SHIFT => Clamp(x) = x
  BY AutoSyncAssumption DEF Clamp

(* Half a slot, rounded down.                                                *)
LEMMA HalfIs == Half \in Nat /\ SLOT \in Nat /\ 2 * Half <= SLOT /\ SLOT <= 2 * Half + 1
  BY AutoSyncAssumption DEF Half

(* No correction that is due is larger than MAX_SHIFT.                       *)
LEMMA DueType ==
  ASSUME Ranges PROVE \A v \in Due : v \in -MAX_SHIFT..MAX_SHIFT
<1>1. ASSUME NEW i \in DOMAIN captured PROVE Clamp(captured[i].dt) \in -MAX_SHIFT..MAX_SHIFT
  <2>1. captured[i] \in Slot
    BY DEF Ranges
  <2> QED
    BY <2>1, ClampIs DEF Slot
<1> QED
  BY <1>1 DEF Due, Ranges

(* A transmission moves the grid forward, less than the tolerance.           *)
LEMMA JumpType ==
  ASSUME Margins, NEW d \in LaunchDelays, NEW p \in -Half..Half
  PROVE  /\ Jump(d) \in Nat /\ d \in Nat /\ Jump(d) + MAX_SHIFT <= Tolerance
         /\ Wrap(p + Jump(d)) \in -Half..Half
         /\ p + Jump(d) <= Half => Wrap(p + Jump(d)) = p + Jump(d) \/ Wrap(p + Jump(d)) = Half
         /\ p + Jump(d) > Half => Wrap(p + Jump(d)) = p + Jump(d) - SLOT
<1>1. d \in Nat /\ Jump(d) \in Nat /\ Jump(d) + MAX_SHIFT <= Tolerance /\ 4 * Tolerance + 1 < SLOT
      /\ Tolerance \in Nat
  BY AutoSyncAssumption DEF Margins, Jump
<1>2. p + Jump(d) \in Int /\ -SLOT < p + Jump(d) /\ p + Jump(d) < SLOT /\ SLOT > 0
  BY <1>1, HalfIs, AutoSyncAssumption
<1> QED
  BY <1>1, <1>2, HalfIs, WrapIs

(* Fewer corrections due is no worse. *)
LEMMA SameGrid ==
  ASSUME Margins, Ranges, Steered, Launchable, Due' \subseteq Due \cup {0},
         phase' = phase, target' = target, fresh' = fresh
  PROVE  Steered' /\ Launchable'
<1>1. Steered'
  BY DEF Steered, Seen, Ranges
<1>2. ASSUME fresh', NEW d \in LaunchDelays, Seen(Wrap(phase' + Jump(d))), NEW v \in Due'
      PROVE  Seen(Wrap(phase' + Jump(d)) - v)
  <2>1. CASE v \in Due
    BY <1>2, <2>1 DEF Launchable
  <2>2. CASE v = 0
    <3>1. phase \in -Half..Half
      BY DEF Ranges
    <3>2. Wrap(phase + Jump(d)) \in Int
      BY <3>1, JumpType, HalfIs
    <3> QED
      BY <1>2, <2>2, <3>2 DEF Seen
  <2> QED
    BY <2>1, <2>2
<1> QED
  BY <1>1, <1>2 DEF Launchable

(* The end of a slot.  The correction measured two slots ago is applied to a *)
(* grid that has moved by two others since: at the edge it still points      *)
(* inwards.                                                                  *)
LEMMA SlotEndKeeps ==
  ASSUME Margins, SyncInv, SlotEnd
  PROVE  SyncInv' /\ (~noise /\ Seen(phase) => Seen(phase'))
<1> DEFINE dt == Wrap(phase + carry)
           M == MAX_SHIFT
           T == Tolerance
<1>1. /\ M \in Nat /\ T \in Nat /\ T > 0 /\ 3 * M <= T /\ 4 * T + 1 < SLOT
      /\ Half \in Nat /\ SLOT \in Nat /\ 2 * Half <= SLOT /\ SLOT <= 2 * Half + 1
  BY HalfIs, AutoSyncAssumption DEF Margins
<1>2. /\ phase \in -Half..Half /\ target \in -M..M /\ shift \in -M..M /\ carry \in Nat
      /\ carry + 3 * M <= T
  BY <1>1 DEF SyncInv, Ranges
<1>0. PICK q : q = phase'
  OBVIOUS
<1>3. /\ q = Wrap(phase - target) /\ phase' = q /\ target' = shift /\ shift' = 0 /\ carry' = 0
      /\ captured' = <<[dt |-> dt, mark |-> mark]>> /\ fresh' = TRUE /\ txs' = txs
      /\ noise' = noise
  BY <1>0 DEF SlotEnd, txVars
<1>4. ~noise => /\ Seen(phase) => Seen(phase - target)
                /\ Seen(phase - target) => Seen(phase - target - shift)
  BY DEF SyncInv, Steered, Due
<1>5. /\ q \in -Half..Half
      /\ q = phase - target \/ q >= Half - M \/ q <= M - Half
      /\ -Half < phase - target /\ phase - target <= Half => q = phase - target
  BY <1>1, <1>2, <1>3, WrapIs
<1>6. /\ dt \in Int
      /\ -Half < phase + carry /\ phase + carry <= Half => dt = phase + carry
  BY <1>1, <1>2, WrapIs
<1>7. Ranges'
  <2>1. [dt |-> dt, mark |-> mark] \in Slot
    BY <1>6 DEF SyncInv, Ranges, Slot
  <2>2. captured' \in Seq(Slot) /\ Len(captured') = 1 /\ mark' \in Nat
    BY <1>3, <2>1 DEF SlotEnd, SyncInv, Ranges
  <2> QED
    BY <1>1, <1>2, <1>3, <1>5, <2>2 DEF Ranges, SyncInv
<1>8. Due' = {0, Clamp(dt)}
  <2>1. DOMAIN captured' = {1} /\ captured'[1].dt = dt
    BY <1>3
  <2> QED
    BY <1>3, <2>1 DEF Due
<1>9. /\ Clamp(dt) \in -M..M /\ (dt >= 0 => Clamp(dt) >= 0) /\ (dt <= 0 => Clamp(dt) <= 0)
      /\ (dt >= M => Clamp(dt) = M) /\ (dt <= -M => Clamp(dt) = -M)
      /\ (-M <= dt /\ dt <= M => Clamp(dt) = dt)
  BY <1>6, ClampIs
<1> HIDE DEF dt, M, T
<1>10. ~noise /\ Seen(phase) => Seen(q)
  BY <1>1, <1>2, <1>3, <1>4, <1>5 DEF Seen, T
<1>11. ASSUME ~noise PROVE Steered'
  <2>1. ASSUME Seen(q - shift) PROVE Seen(q - shift - Clamp(dt))
    <3>1. q = phase - target
      BY <1>1, <1>2, <1>3, <1>5, <2>1 DEF Seen, T
    <3>2. -Half < phase + carry /\ phase + carry <= Half
      BY <1>1, <1>2, <1>3, <2>1, <3>1 DEF Seen, T
    <3>3. dt = phase + carry
      BY <1>6, <3>2
    <3> QED
      BY <1>1, <1>2, <1>3, <1>9, <2>1, <3>1, <3>3 DEF Seen, T
  <2>2. Seen(q) => Seen(q - shift)
    BY <1>1, <1>2, <1>3, <1>4, <1>5, <1>11 DEF Seen, T
  <2>3. Seen(q - shift) => Seen(q - shift - 0)
    BY <1>1, <1>2, <1>5 DEF Seen
  <2> QED
    BY <1>3, <1>8, <2>1, <2>2, <2>3 DEF Steered
<1>12. Launchable'
  <2>1. ASSUME NEW d \in LaunchDelays, Seen(Wrap(q + Jump(d)))
        PROVE  Seen(Wrap(q + Jump(d)) - Clamp(dt))
    <3> DEFINE x == Wrap(q + Jump(d))
               J == Jump(d)
    <3>1. /\ J \in Nat /\ J + M <= T /\ x \in -Half..Half
          /\ q + J <= Half => x = q + J \/ x = Half
          /\ q + J > Half => x = q + J - SLOT
      BY <1>5, JumpType DEF M, T
    <3> HIDE DEF x, J
    <3>2. Seen(x)
      BY <2>1 DEF x
    <3>3. x = q + J
      BY <1>1, <1>5, <3>1, <3>2 DEF Seen, T
    <3>a. q = phase - target
      BY <1>1, <1>5, <3>1, <3>2, <3>3 DEF Seen, T
    <3>4. -Half < phase + carry /\ phase + carry <= Half
      BY <1>1, <1>2, <3>1, <3>2, <3>3, <3>a DEF Seen, T
    <3>5. dt = phase + carry
      BY <1>6, <3>4
    <3>6. Seen(x - Clamp(dt))
      BY <1>1, <1>2, <1>9, <3>1, <3>2, <3>3, <3>a, <3>5 DEF Seen, T
    <3> QED
      BY <3>6 DEF x
  <2>2. ASSUME NEW d \in LaunchDelays, Seen(Wrap(q + Jump(d)))
        PROVE  Seen(Wrap(q + Jump(d)) - 0)
    <3>1. Wrap(q + Jump(d)) \in Int
      BY <1>1, <1>5, JumpType
    <3> QED
      BY <2>2, <3>1 DEF Seen
  <2> QED
    BY <1>3, <1>8, <2>1, <2>2 DEF Launchable
<1> QED
  BY <1>3, <1>7, <1>10, <1>11, <1>12 DEF SyncInv

(* The decode of a slot turns what was due into a correction, or into none. *)
LEMMA DecodeKeeps ==
  ASSUME Margins, SyncInv, DecodeSlot
  PROVE  SyncInv' /\ phase' = phase
<1>1. PICK n \in Counts \cup {0} : Decode(n)
  BY DEF DecodeSlot
<1>2. /\ captured # <<>> /\ captured' = Tail(captured)
      /\ \/ noise' = noise /\ shift' \in {0, shift, Clamp(Head(captured).dt)}
         \/ noise' = TRUE /\ \E dt \in NoiseMedians : shift' = Clamp(dt)
  BY <1>1 DEF Decode, Post, Correction
<1>3. /\ UNCHANGED <<phase, target, carry, mark>> /\ fresh' = fresh /\ txs' = txs
  BY <1>1 DEF Decode, txVars, slotVars
<1>4. /\ Len(captured) = 1 /\ captured' = <<>>
      /\ Head(captured) = captured[1] /\ 1 \in DOMAIN captured
  <2>1. captured \in Seq(Slot) /\ (captured # <<>> => Len(captured) = 1)
    BY DEF SyncInv, Ranges
  <2>2. Len(captured) = 1
    BY <1>2, <2>1
  <2>3. Len(captured') = 0 /\ captured' \in Seq(Slot)
    BY <1>2, <2>1, <2>2
  <2> QED
    BY <2>1, <2>2, <2>3
<1>5. ~noise' => ~noise /\ Due' \subseteq Due \cup {0}
  BY <1>2, <1>4 DEF Due
<1>6. shift' \in -MAX_SHIFT..MAX_SHIFT
  <2>1. Clamp(Head(captured).dt) \in Due
    BY <1>4 DEF Due
  <2>2. \A dt \in NoiseMedians : Clamp(dt) \in -MAX_SHIFT..MAX_SHIFT
    BY ClampIs, AutoSyncAssumption
  <2> QED
    BY <1>2, <2>1, <2>2, DueType, AutoSyncAssumption DEF SyncInv, Ranges
<1>7. Ranges'
  BY <1>3, <1>4, <1>6 DEF SyncInv, Ranges
<1> QED
  BY <1>3, <1>5, <1>7, SameGrid DEF SyncInv

(* A manual mark: what was due before it was measured on another grid, so    *)
(* the mark has to leave room for one correction.                            *)
LEMMA MarkKeeps ==
  ASSUME Margins, SyncInv, ApplySyncReset
  PROVE  SyncInv' /\ Seen(phase')
<1>0. PICK q \in PressPhases : phase' = q
  BY DEF ApplySyncReset
<1>1. /\ target' = 0 /\ carry' = 0 /\ shift' = 0 /\ mark' = mark + 1
      /\ captured' = captured /\ fresh' = fresh /\ txs' = txs
  BY DEF ApplySyncReset, txVars, slotVars
<1>2. /\ MAX_SHIFT \in Nat /\ Tolerance \in Nat /\ 4 * Tolerance + 1 < SLOT
      /\ Half \in Nat /\ SLOT \in Nat /\ 2 * Half <= SLOT /\ SLOT <= 2 * Half + 1
  BY HalfIs, AutoSyncAssumption DEF Margins
<1>3. q \in Int /\ Seen(q - MAX_SHIFT) /\ Seen(q + MAX_SHIFT)
  BY DEF Margins
<1>4. q \in -Half..Half /\ Seen(q)
  BY <1>2, <1>3 DEF Seen
<1>5. Ranges'
  BY <1>0, <1>1, <1>2, <1>4 DEF SyncInv, Ranges
<1>6. \A v \in Due' : v \in -MAX_SHIFT..MAX_SHIFT
  <2>1. Due' \subseteq Due \cup {0}
    BY <1>1 DEF Due
  <2> QED
    BY <1>2, <2>1, DueType DEF SyncInv
<1>7. Steered'
  <2>1. q - 0 = q
    BY <1>3
  <2>2. \A v \in Due' : Seen(q - v)
    BY <1>2, <1>3, <1>6 DEF Seen
  <2> QED
    BY <1>0, <1>1, <1>4, <2>1, <2>2 DEF Steered
<1>8. ASSUME NEW d \in LaunchDelays, Seen(Wrap(q + Jump(d))), NEW v \in Due'
      PROVE  Seen(Wrap(q + Jump(d)) - v)
  <2> DEFINE x == Wrap(q + Jump(d))
             J == Jump(d)
  <2>1. /\ J \in Nat /\ J + MAX_SHIFT <= Tolerance /\ x \in -Half..Half
        /\ q + J <= Half => x = q + J \/ x = Half
        /\ q + J > Half => x = q + J - SLOT
    BY <1>4, JumpType
  <2>2. Seen(q + J) => Seen(q + J - MAX_SHIFT) /\ Seen(q + J + MAX_SHIFT)
    BY DEF Margins
  <2> HIDE DEF x, J
  <2>3. Seen(x)
    BY <1>8 DEF x
  <2>4. x = q + J
    BY <1>2, <1>4, <2>1, <2>3 DEF Seen
  <2>5. Seen(x - v)
    BY <1>2, <1>3, <1>6, <1>8, <2>1, <2>2, <2>3, <2>4 DEF Seen
  <2> QED
    BY <2>5 DEF x
<1> QED
  BY <1>0, <1>1, <1>4, <1>5, <1>7, <1>8 DEF SyncInv, Launchable

(* A transmission may leave the grid anywhere, but where it is still seen the *)
(* correction that is due does not lose it.                                  *)
LEMMA TransmitKeeps ==
  ASSUME Margins, SyncInv, Transmit
  PROVE  SyncInv' /\ txs' # txs
<1>1. PICK d \in LaunchDelays : phase' = Wrap(phase + SLOT - (d + TX_LEN)) /\ carry' = carry + d
  BY DEF Transmit
<1>2. /\ fresh /\ target' = 0 /\ fresh' = FALSE /\ shift' = shift /\ captured' = captured
      /\ mark' = mark /\ txs > 0 /\ txs' = txs - 1 /\ noise' = noise
  BY DEF Transmit
<1>3. phase \in -Half..Half /\ carry = 0 /\ txs \in Nat
  BY <1>2 DEF SyncInv, Ranges
<1>4. d \in Nat /\ d + 3 * MAX_SHIFT <= Tolerance
  BY DEF Margins
<1>5. phase' = Wrap(phase + Jump(d)) /\ phase' \in -Half..Half
  <2>1. phase + SLOT - (d + TX_LEN) = phase + Jump(d)
    BY <1>3, <1>4, HalfIs, AutoSyncAssumption DEF Jump
  <2> QED
    BY <1>1, <1>3, <2>1, JumpType
<1>6. Ranges'
  <2>1. carry' = d /\ txs' \in Nat /\ 0 \in -MAX_SHIFT..MAX_SHIFT
    BY <1>1, <1>2, <1>3, <1>4, AutoSyncAssumption
  <2> QED
    BY <1>2, <1>4, <1>5, <2>1 DEF SyncInv, Ranges
<1>7. Due' = Due
  BY <1>2 DEF Due
<1>8. ASSUME ~noise PROVE Steered'
  <2>1. phase' - target' = phase'
    BY <1>2, <1>5, HalfIs
  <2>2. Seen(phase') => \A v \in Due : Seen(phase' - v)
    BY <1>2, <1>5, <1>8 DEF SyncInv, Launchable
  <2> QED
    BY <1>7, <2>1, <2>2 DEF Steered
<1> QED
  BY <1>2, <1>3, <1>6, <1>8 DEF SyncInv, Launchable

(* It holds at power-up ...                                                  *)
LEMMA SyncInit == ASSUME Margins, AutoSyncInit PROVE SyncInv
<1>1. /\ phase \in -Half..Half /\ target = 0 /\ shift = 0 /\ carry = 0 /\ captured = <<>>
      /\ fresh = FALSE /\ txs \in Nat /\ mark = 0
  BY AutoSyncAssumption DEF AutoSyncInit, Margins, Half
<1>2. Ranges
  <2>1. target \in -MAX_SHIFT..MAX_SHIFT /\ shift \in -MAX_SHIFT..MAX_SHIFT
    BY <1>1, AutoSyncAssumption
  <2>2. captured \in Seq(Slot)
    BY <1>1
  <2>3. carry \in Nat /\ mark \in Nat /\ fresh \in BOOLEAN
    BY <1>1
  <2> QED
    BY <1>1, <2>1, <2>2, <2>3, Zenon DEF Ranges
<1>3. Due = {0}
  BY <1>1 DEF Due
<1>4. Steered
  BY <1>1, <1>3, HalfIs DEF Steered, Seen
<1> QED
  BY <1>1, <1>2, <1>4 DEF SyncInv, Launchable

(* Nothing the loop measures or decides but a transmission takes a grid that *)
(* is seen out of sight.                                                     *)
KeepsSeen == txs' = txs /\ ~noise /\ Abs(phase) <= Tolerance => Abs(phase') <= Tolerance

(* ... and every step keeps it.                                              *)
LEMMA SyncStep ==
  ASSUME Margins, SyncInv, [AutoSyncNext]_vars
  PROVE  SyncInv' /\ KeepsSeen
<1>1. ASSUME NEW x \in Int PROVE Abs(x) <= Tolerance <=> Seen(x)
  BY DEF Abs, Seen, Margins
<1>2. phase \in Int
  BY HalfIs DEF SyncInv, Ranges
<1>3. CASE SlotEnd
  <2>1. SyncInv' /\ (~noise /\ Seen(phase) => Seen(phase'))
    BY <1>3, SlotEndKeeps
  <2>2. phase' \in Int
    BY <2>1, HalfIs DEF SyncInv, Ranges
  <2> QED
    BY <1>1, <1>2, <2>1, <2>2 DEF KeepsSeen
<1>4. CASE ApplySyncReset
  <2>1. SyncInv' /\ Seen(phase')
    BY <1>4, MarkKeeps
  <2>2. phase' \in Int
    BY <2>1, HalfIs DEF SyncInv, Ranges
  <2> QED
    BY <1>1, <2>1, <2>2 DEF KeepsSeen
<1>5. CASE Transmit
  BY <1>5, TransmitKeeps DEF KeepsSeen
<1>6. CASE DecodeSlot
  BY <1>6, DecodeKeeps DEF KeepsSeen
<1>7. CASE Press \/ UNCHANGED vars
  <2>1. /\ UNCHANGED <<phase, target, carry, shift, captured, mark, noise>>
        /\ fresh' = fresh /\ txs' = txs
    BY <1>7 DEF Press, vars, txVars, slotVars
  <2>2. Due' \subseteq Due \cup {0} /\ Ranges'
    BY <2>1 DEF Due, SyncInv, Ranges
  <2> QED
    BY <2>1, <2>2, SameGrid DEF SyncInv, KeepsSeen
<1> QED
  BY <1>3, <1>4, <1>5, <1>6, <1>7 DEF AutoSyncNext

(* A grid within the window the decoder searches stays there, whatever the   *)
(* slots measure and whenever the button marks one, unless the station       *)
(* itself transmits: a correction that was measured before a mark or a       *)
(* transmission (pending_shift_samples) is still taken after it, and the     *)
(* margins leave it room.  (A loop that has gone after noise, out of sight   *)
(* of the band and without a lock, is not covered until the next mark.)      *)
THEOREM AutoSyncNeverDeaf == ASSUME Margins PROVE AutoSyncSpec => NeverDeaf
<1>1. AutoSyncInit => SyncInv
  BY SyncInit
<1>2. SyncInv /\ [AutoSyncNext]_vars => SyncInv' /\ KeepsSeen
  BY SyncStep
<1> QED
  BY <1>1, <1>2, PTL DEF AutoSyncSpec, NeverDeaf, KeepsSeen

(* Where a slot can start, at power-up and by the operator's hand. *)
PhaseRanges ==
  StartPhases \cup PressPhases \subseteq -Half..Half /\ LaunchDelays \subseteq Nat

(* A captured slot with a mark there has been. *)
Marked == [dt : Int, mark : 0..MaxPresses]

(* The types, and that every mark is a press of the button. *)
SyncTypes ==
  /\ AutoSyncTypeOK /\ captured \in Seq(Marked)
  /\ presses \in Nat /\ mark + presses + (IF pending THEN 1 ELSE 0) <= MaxPresses

(* A wrapped phase is at most half a slot off.                               *)
LEMMA WrapRange == ASSUME NEW x \in Int PROVE Wrap(x) \in -Half..Half
<1>1. SLOT \in Nat /\ SLOT > 0 /\ Half \in Nat /\ 2 * Half <= SLOT /\ SLOT <= 2 * Half + 1
  BY HalfIs, AutoSyncAssumption
<1>2. x % SLOT \in Int /\ 0 <= x % SLOT /\ x % SLOT < SLOT
  BY <1>1
<1> QED
  BY <1>1, <1>2 DEF Wrap, Half

Sync == [best_n : Counts \cup {0}, streak : 0..255, sign : {-1, 0, 1}]

(* The streak counter saturates, the sign is a sign.                         *)
LEMMA DriftType ==
  ASSUME NEW s \in Sync, NEW n \in Counts \cup {0}, NEW dt \in Int
  PROVE  Drift(s, n, dt) \in Sync
<1>1. /\ s.best_n \in Counts \cup {0} /\ s.streak \in 0..255 /\ s.sign \in {-1, 0, 1}
      /\ s = [best_n |-> s.best_n, streak |-> s.streak, sign |-> s.sign]
  BY DEF Sync
<1>2. ClearDrift(s) \in Sync /\ [ClearDrift(s) EXCEPT !.best_n = 0] \in Sync
  <2>1. ClearDrift(s) \in Sync
    <3>1. 0 \in 0..255 /\ 0 \in {-1, 0, 1}
      OBVIOUS
    <3>2. [s EXCEPT !.streak = 0] \in Sync
      BY <3>1, Zenon DEF Sync
    <3>3. [s EXCEPT !.streak = 0, !.sign = 0] \in Sync
      BY <3>1, <3>2 DEF Sync
    <3> QED
      BY <3>3 DEF ClearDrift
  <2> QED
    BY <2>1 DEF Sync
<1>3. Sign(dt) \in {-1, 0, 1}
  BY DEF Sign
<1>4. Tier2(s, n, dt) \in Sync
  <2> DEFINE k == IF s.sign = Sign(dt) THEN (IF s.streak = 255 THEN 255 ELSE s.streak + 1) ELSE 1
  <2>1. k \in 0..255
    BY <1>1
  <2>2. [s EXCEPT !.streak = k, !.sign = Sign(dt)] \in Sync
    <3> DEFINE g == Sign(dt)
    <3>1. k \in 0..255 /\ g \in {-1, 0, 1}
      BY <1>3, <2>1
    <3> HIDE DEF k, g
    <3>2. [s EXCEPT !.streak = k] \in Sync
      BY <3>1 DEF Sync
    <3>3. [s EXCEPT !.streak = k, !.sign = g] \in Sync
      BY <3>1, <3>2 DEF Sync
    <3> QED
      BY <3>3 DEF g
  <2>3. Tier2(s, n, dt) \in {ClearDrift(s), [ClearDrift(s) EXCEPT !.best_n = 0],
                             [s EXCEPT !.streak = k, !.sign = Sign(dt)]}
    <3>1. CASE n < TIER2_MIN_N \/ Abs(dt) <= TIER2_DT
      BY <3>1 DEF Tier2
    <3>2. CASE ~(n < TIER2_MIN_N \/ Abs(dt) <= TIER2_DT)
      <4>1. n >= TIER2_MIN_N /\ Abs(dt) > TIER2_DT
        BY <3>2, AutoSyncAssumption DEF Abs
      <4> QED
        BY <3>2, <4>1 DEF Tier2
    <3> QED
      BY <3>1, <3>2
  <2> QED
    BY <1>2, <2>2, <2>3
<1> QED
  BY <1>2, <1>4 DEF Drift

(* At power-up ...                                                           *)
LEMMA TypesInit == ASSUME PhaseRanges, AutoSyncInit PROVE SyncTypes
<1>1. /\ phase \in -(SLOT \div 2)..(SLOT \div 2) /\ target = 0 /\ carry = 0 /\ shift = 0
      /\ captured = <<>> /\ sync = [best_n |-> 0, streak |-> 0, sign |-> 0]
      /\ finalised = FALSE /\ pending = FALSE /\ new_gen = FALSE
      /\ mark = 0 /\ shift_mark = 0 /\ noise = FALSE /\ presses = MaxPresses
  BY DEF AutoSyncInit, PhaseRanges, Half
<1>2. target \in -MAX_SHIFT..MAX_SHIFT /\ shift \in -MAX_SHIFT..MAX_SHIFT
  BY <1>1, AutoSyncAssumption
<1>3. sync \in [best_n : Counts \cup {0}, streak : 0..255, sign : {-1, 0, 1}]
  BY <1>1
<1>4. captured \in Seq(Marked) /\ captured \in Seq([dt : Int, mark : Nat])
  BY <1>1
<1>5. /\ mark \in 0..MaxPresses /\ shift_mark \in 0..MaxPresses /\ presses \in Nat
      /\ mark + presses + (IF pending THEN 1 ELSE 0) <= MaxPresses
  BY <1>1, AutoSyncAssumption
<1> QED
  BY <1>1, <1>2, <1>3, <1>4, <1>5 DEF SyncTypes, AutoSyncTypeOK

(* One slot decoded. *)
LEMMA DecodeTypes ==
  ASSUME SyncTypes, NEW n \in Counts \cup {0}, Decode(n)
  PROVE  SyncTypes'
<1> DEFINE c  == Head(captured)
           s0 == IF new_gen THEN [sync EXCEPT !.best_n = 0] ELSE sync
           s  == Drift(s0, n, c.dt)
<1>1. /\ captured # <<>> /\ captured' = Tail(captured) /\ new_gen' = FALSE
      /\ sync' = (IF n > s.best_n THEN [s EXCEPT !.best_n = n] ELSE s)
      /\ \/ shift' \in {0, Clamp(c.dt)} /\ shift_mark' = c.mark
         \/ shift_mark' = c.mark /\ \E dt \in NoiseMedians : shift' = Clamp(dt)
         \/ UNCHANGED <<shift, shift_mark>>
      /\ finalised' = (finalised \/ n > 0) /\ noise' \in {TRUE, noise}
      /\ UNCHANGED <<phase, target, carry, pending, mark, presses>>
  BY DEF Decode, Post, Correction
<1>2. captured \in Seq(Marked) /\ captured \in Seq([dt : Int, mark : Nat])
  BY DEF SyncTypes, AutoSyncTypeOK
<1>3. c \in Marked /\ captured' \in Seq(Marked)
  BY <1>1, <1>2
<1>4. c.dt \in Int /\ c.mark \in 0..MaxPresses
  BY <1>3 DEF Marked
<1>5. captured' \in Seq([dt : Int, mark : Nat])
  BY <1>1, <1>2
<1>6. sync' \in Sync
  <2>1. sync \in Sync /\ new_gen \in BOOLEAN
    BY DEF SyncTypes, AutoSyncTypeOK, Sync
  <2>2. s0 \in Sync
    BY <2>1 DEF Sync
  <2>3. s \in Sync
    BY <1>4, <2>2, DriftType
  <2> HIDE DEF s
  <2>4. [s EXCEPT !.best_n = n] \in Sync
    BY <2>3, Zenon DEF Sync
  <2> QED
    BY <1>1, <2>3, <2>4
<1>7. shift' \in -MAX_SHIFT..MAX_SHIFT /\ shift_mark' \in 0..MaxPresses
  <2>1. Clamp(c.dt) \in -MAX_SHIFT..MAX_SHIFT /\ 0 \in -MAX_SHIFT..MAX_SHIFT
    BY <1>4, ClampIs, AutoSyncAssumption
  <2>2. \A dt \in NoiseMedians : Clamp(dt) \in -MAX_SHIFT..MAX_SHIFT
    BY ClampIs, AutoSyncAssumption
  <2>3. shift \in -MAX_SHIFT..MAX_SHIFT /\ shift_mark \in 0..MaxPresses
    BY DEF SyncTypes, AutoSyncTypeOK
  <2> HIDE DEF c
  <2>4. shift_mark' \in 0..MaxPresses
    BY <1>1, <1>4, <2>3
  <2>5. shift' \in -MAX_SHIFT..MAX_SHIFT
    BY <1>1, <2>1, <2>2, <2>3
  <2> QED
    BY <2>4, <2>5
<1> HIDE DEF c, s0, s
<1>8. finalised' \in BOOLEAN /\ new_gen' \in BOOLEAN /\ noise' \in BOOLEAN
  BY <1>1 DEF SyncTypes, AutoSyncTypeOK
<1> QED
  BY <1>1, <1>3, <1>5, <1>6, <1>7, <1>8 DEF SyncTypes, AutoSyncTypeOK, Sync

(* ... and after every step.                                                 *)
LEMMA TypesStep ==
  ASSUME PhaseRanges, SyncTypes, [AutoSyncNext]_vars PROVE SyncTypes'
<1> USE DEF AutoSyncTypeOK
<1>0. /\ Half \in Nat /\ MaxPresses \in Nat /\ MAX_SHIFT \in Nat
      /\ phase \in -Half..Half /\ target \in -MAX_SHIFT..MAX_SHIFT /\ carry \in Nat
      /\ mark \in 0..MaxPresses /\ presses \in Nat /\ pending \in BOOLEAN
  BY HalfIs, AutoSyncAssumption DEF SyncTypes, Half
<1>1. 0 \in -MAX_SHIFT..MAX_SHIFT
  BY <1>0
<1>2. CASE SlotEnd
  <2>1. /\ captured' = <<[dt |-> Wrap(phase + carry), mark |-> mark]>> /\ carry' = 0
        /\ phase' = Wrap(phase - target) /\ target' = shift /\ shift' = 0
        /\ UNCHANGED <<sync, finalised, mark, shift_mark, noise, pending, new_gen, presses>>
    BY <1>2 DEF SlotEnd, buttonVars
  <2>2. Wrap(phase + carry) \in -Half..Half /\ phase' \in -Half..Half
    BY <1>0, <2>1, WrapRange
  <2>3. /\ [dt |-> Wrap(phase + carry), mark |-> mark] \in Marked
        /\ [dt |-> Wrap(phase + carry), mark |-> mark] \in [dt : Int, mark : Nat]
    BY <1>0, <2>2 DEF Marked
  <2>4. captured' \in Seq(Marked) /\ captured' \in Seq([dt : Int, mark : Nat])
    BY <2>1, <2>3
  <2> QED
    BY <1>1, <2>1, <2>2, <2>4 DEF SyncTypes, Half
<1>3. CASE ApplySyncReset
  <2>1. /\ pending /\ pending' = FALSE /\ phase' \in PressPhases
        /\ target' = 0 /\ carry' = 0 /\ shift' = 0 /\ mark' = mark + 1 /\ noise' = FALSE
        /\ UNCHANGED <<captured, sync, finalised, shift_mark, new_gen, presses>>
    BY <1>3 DEF ApplySyncReset
  <2>2. phase' \in -Half..Half
    BY <2>1 DEF PhaseRanges
  <2>3. mark' \in 0..MaxPresses /\ mark' + presses' + (IF pending' THEN 1 ELSE 0) <= MaxPresses
    BY <1>0, <2>1 DEF SyncTypes
  <2> QED
    BY <1>1, <2>1, <2>2, <2>3 DEF SyncTypes, Half
<1>4. CASE Transmit
  <2>1. PICK d \in LaunchDelays : phase' = Wrap(phase + SLOT - (d + TX_LEN)) /\ carry' = carry + d
    BY <1>4 DEF Transmit
  <2>2. /\ target' = 0
        /\ UNCHANGED <<shift, captured, sync, finalised, mark, shift_mark, noise, pending, new_gen,
                       presses>>
    BY <1>4 DEF Transmit, buttonVars
  <2>3. phase' \in -Half..Half /\ carry' \in Nat
    BY <1>0, <2>1, WrapRange, AutoSyncAssumption DEF PhaseRanges
  <2> QED
    BY <1>1, <2>2, <2>3 DEF SyncTypes, Half
<1>5. CASE DecodeSlot
  BY <1>5, DecodeTypes DEF DecodeSlot
<1>6. CASE Press
  <2>1. /\ presses > 0 /\ presses' = presses - 1 /\ pending' = TRUE /\ new_gen' = TRUE
        /\ UNCHANGED <<phase, target, carry, shift, captured, sync, finalised, mark, shift_mark, noise>>
    BY <1>6 DEF Press
  <2>2. presses' \in Nat /\ mark' + presses' + (IF pending' THEN 1 ELSE 0) <= MaxPresses
    BY <1>0, <2>1 DEF SyncTypes
  <2> QED
    BY <2>1, <2>2 DEF SyncTypes
<1>7. CASE UNCHANGED vars
  BY <1>7 DEF SyncTypes, vars
<1> QED
  BY <1>2, <1>3, <1>4, <1>5, <1>6, <1>7 DEF AutoSyncNext

(* The state of the self-synchronisation stays within its types: shift and   *)
(* target within MAX_SHIFT, the phase within half a slot, the streak in a    *)
(* u8, and every mark a press of the button.                                 *)
THEOREM AutoSyncTypes == ASSUME PhaseRanges PROVE AutoSyncSpec => []AutoSyncTypeOK
<1>1. AutoSyncInit => SyncTypes
  BY TypesInit
<1>2. SyncTypes /\ [AutoSyncNext]_vars => SyncTypes'
  BY TypesStep
<1>3. SyncTypes => AutoSyncTypeOK
  BY DEF SyncTypes
<1> QED
  BY <1>1, <1>2, <1>3, PTL DEF AutoSyncSpec
==============================================================================
