------------------------- MODULE DpmSleepObsProofs -------------------------
(***************************************************************************)
(* Proofs about DpmSleepObs, for any tasks, calls, modules, slots and      *)
(* results of the PS command: the sleep mask says what the modules asked   *)
(* for, except where a store from an outdated mask or a call whose slot    *)
(* changed hands has been, and an objection is late for at most one        *)
(* power-down attempt.                                                     *)
(***************************************************************************)
EXTENDS DpmSleepObs, DpmSleepProofs

\* While a call for a module is under way its last request is void.
AskedVoid ==
    \A c \in Caller, m \in Module : CallsFor(call[c], m) => asked[m] = "none"

\* SetsKept and ClearsKept, slot by slot.
SetSlots ==
    \A i \in Slot : mod_name[i] \in Module /\ asked[mod_name[i]] = "sleep"
                        => i \in dpm_sleep_set_flag \cup undone
ClearSlots ==
    \A i \in Slot : mod_name[i] \in Module /\ asked[mod_name[i]] = "awake"
                        => i \notin dpm_sleep_set_flag \ undone

MaskInv == AskedVoid /\ SetSlots /\ ClearSlots

-----------------------------------------------------------------------------
(* What a step does to the names and the masks.                            *)

\* Only the five stores change the sleep mask, and only reg_dpm_sleep names a
\* slot.
LEMMA MaskWriters ==
    ASSUME TypeOK, Next, ~Reboot,
           \A c \in Caller : ~Stores(c) /\ ~AllStore(c)
    PROVE  /\ UNCHANGED dpm_sleep_set_flag
           /\ \A i \in Slot : mod_name'[i] \in Module => mod_name'[i] = mod_name[i]
<1>t. /\ mod_name \in [Slot -> Module \cup {NoName}] /\ NoName \notin Module
      /\ \A c \in Caller : call[c].idx \in Slot
  BY FrameFields, TableParts, NamesAssumption DEF TypeOK, TablePartOK
<1> USE DEF tableVars, listVars
<1>1. ASSUME NEW c \in Caller, UnregName(c)
      PROVE  /\ UNCHANGED dpm_sleep_set_flag
             /\ \A i \in Slot : mod_name'[i] \in Module => mod_name'[i] = mod_name[i]
  BY <1>t, <1>1 DEF UnregName
<1>2. ASSUME NEW c \in Caller, CallNext(c), ~UnregName(c)
      PROVE  UNCHANGED <<mod_name, dpm_sleep_set_flag>>
  <2>1. ~RegStore(c) /\ ~UnregStore(c) /\ ~SetStore(c) /\ ~ClrStore(c) /\ ~AllStore(c)
    BY DEF Stores
  <2> QED
    BY <1>2, <2>1
       DEF CallNext, RegTake, RegSlot, UnregTake, UnregBit, SetFind, SetLoad,
           ClrFind, ClrLoad, Load, StopKill, DisableNv, DisableMode, HoldStep
<1>3. ASSUME NEW t \in Task, TaskNext(t)
      PROVE  UNCHANGED <<mod_name, dpm_sleep_set_flag>>
  BY <1>3 DEF TaskNext, Start, UnregFind, set_dpm_rcv_ready,
     set_dpm_rcv_ready_by_port, set_dpm_init_done, WriteReady, AllLoad,
     StopFlags, DisableKill, enable_dpm_mode, HoldStep
<1>4. CASE ControlNext
  BY <1>4 DEF ControlNext, hold_dpm_sleepd, resume_dpm_sleepd, CmdHold,
     CmdResume, RtcProcess, HoldStep
<1>5. CASE DaemonNext
  BY <1>5
     DEF DaemonNext, DaemonStep, DaemonBoot, DaemonTop, DaemonExit, DaemonPoll,
         DaemonNotReady, DaemonDefer, DaemonDecide, DaemonRun, PowerOffBusy,
         PowerOffDisconnected, PowerOffOk, PowerOffFail, DaemonClrDone
<1>6. CASE dpm_trigger_timer_fn
  BY <1>6 DEF dpm_trigger_timer_fn
<1> QED
  BY <1>1, <1>2, <1>3, <1>4, <1>5, <1>6 DEF Next

\* A store keeps the names, but for a registration, which names its free slot.
LEMMA StoreNames ==
    ASSUME TypeOK, TableInv, NEW c \in Caller, Stores(c)
    PROVE  /\ call[c].idx \in Slot /\ call[c].tmp \subseteq Slot
           /\ \/ UNCHANGED mod_name /\ call[c].pc # "regStore"
              \/ /\ RegStore(c) /\ call[c].pc = "regStore"
                 /\ call[c].mod \in Module
                 /\ \A i \in Slot : mod_name[i] # call[c].mod
                 /\ mod_name[call[c].idx] = NoName
                 /\ mod_name' = [mod_name EXCEPT ![call[c].idx] = call[c].mod]
<1>1. call[c].idx \in Slot /\ call[c].tmp \subseteq Slot
  BY FrameFields, TableParts DEF TypeOK
<1>2. CASE RegStore(c)
  <2>1. call[c].pc = "regStore"
        /\ mod_name' = [mod_name EXCEPT ![call[c].idx] = call[c].mod]
    BY <1>2 DEF RegStore
  <2>2. ~Registered(call[c].mod) /\ mod_name[call[c].idx] = NoName
    BY <2>1 DEF TableInv, RegPending
  <2>3. call[c].mod \in Module
    BY <2>1 DEF TableInv, CallsMade
  <2> QED
    BY <1>1, <1>2, <2>1, <2>2, <2>3 DEF Registered, Named
<1>3. CASE ~RegStore(c)
  BY <1>1, <1>3 DEF Stores, UnregStore, SetStore, ClrStore, tableVars, listVars
<1> QED
  BY <1>2, <1>3

\* A store gives the slot it is for its new bit, and every other slot the bit
\* it had when the mask was loaded.
LEMMA StoreBits ==
    ASSUME NEW c \in Caller, Stores(c)
    PROVE  /\ \A i \in Slot \ {call[c].idx} :
                 i \in dpm_sleep_set_flag' <=> i \in call[c].tmp
           /\ call[c].idx \in dpm_sleep_set_flag' <=> SetStore(c)
<1>1. SetStore(c) => dpm_sleep_set_flag' = call[c].tmp \cup {call[c].idx}
  BY DEF SetStore, BitIn
<1>2. RegStore(c) \/ UnregStore(c) \/ ClrStore(c)
         => dpm_sleep_set_flag' = call[c].tmp \ {call[c].idx}
  BY DEF RegStore, UnregStore, ClrStore, BitOut
<1> QED
  BY <1>1, <1>2 DEF Stores

\* A slot that a store changes behind its owner's back is noted as undone; one
\* whose module the store is for is noted when the store misses it.
LEMMA StoreNoted ==
    ASSUME TypeOK, TableInv, ObsStep, NEW c \in Caller, Stores(c),
           NEW i \in Slot
    PROVE  /\ i # call[c].idx /\ i \in undone => i \in undone'
           /\ /\ i # call[c].idx
              /\ (i \in dpm_sleep_set_flag') # (i \in dpm_sleep_set_flag)
              => i \in undone'
           /\ i = call[c].idx /\ call[c].pc # "regStore" /\ mod_name[i] # call[c].mod
              => i \in undone'
           /\ /\ i # call[c].idx /\ call[c].pc # "regStore"
              /\ mod_name[i] = call[c].mod /\ call[c].mod \in Module
              => i \in undone'
<1>1. UndoneBy(c) \subseteq undone'
  BY DEF ObsStep, UndoneStep
<1>2. call[c].idx \in Slot
  BY StoreNames
<1>3. i # call[c].idx => (i \in dpm_sleep_set_flag' <=> i \in call[c].tmp)
  BY StoreBits
<1>4. i # call[c].idx /\ i \in undone => i \in UndoneBy(c)
  BY DEF UndoneBy
<1>5. /\ i # call[c].idx
      /\ (i \in dpm_sleep_set_flag') # (i \in dpm_sleep_set_flag)
      => i \in UndoneBy(c)
  BY <1>3 DEF UndoneBy, Stale
<1>6. i = call[c].idx /\ call[c].pc # "regStore" /\ mod_name[i] # call[c].mod
         => i \in UndoneBy(c)
  BY DEF UndoneBy, Astray
<1>7. ASSUME i # call[c].idx, call[c].pc # "regStore",
             mod_name[i] = call[c].mod, call[c].mod \in Module
      PROVE  i \in UndoneBy(c)
  <2>1. mod_name[call[c].idx] # call[c].mod
    BY <1>2, <1>7, NamesAssumption DEF TableInv, UniqueNames
  <2> QED
    BY <1>7, <2>1 DEF UndoneBy, Astray, Named
<1> QED
  BY <1>1, <1>4, <1>5, <1>6, <1>7

-----------------------------------------------------------------------------
(* The promises.                                                           *)

\* What a step makes of the last request of a module.
LEMMA AskedAfter ==
    ASSUME ObsStep, AskedVoid, NEW m \in Module, asked'[m] # "none"
    PROVE  /\ ~Reboot
           /\ \A c \in Caller : ~CallsFor(call'[c], m) /\ ~AllStore(c)
           /\ \/ /\ asked'[m] = asked[m]
                 /\ \A c \in Caller : ~CallsFor(call[c], m)
              \/ /\ asked'[m] = "sleep"
                 /\ \E c \in Caller : call[c].mod = m /\ SetDone(c)
              \/ /\ asked'[m] = "awake"
                 /\ \E c \in Caller : call[c].mod = m /\ ClearDone(c)
<1>1. asked'[m] = AskedStep(m)
  BY DEF ObsStep
<1>2. asked'[m] = asked[m] => \A c \in Caller : ~CallsFor(call[c], m)
  BY DEF AskedVoid
<1> QED
  BY <1>1, <1>2 DEF AskedStep

\* A slot whose module asked before, and is in no call, keeps its name, and its
\* bit unless that is noted.
LEMMA OldSlot ==
    ASSUME TypeOK, TableInv, Next, ~Reboot, ObsStep,
           NEW m \in Module, \A c \in Caller : ~CallsFor(call[c], m),
           \A c \in Caller : ~AllStore(c),
           NEW i \in Slot, mod_name'[i] = m
    PROVE  /\ mod_name[i] = m
           /\ i \in undone => i \in undone'
           /\ i \in undone' \/ (i \in dpm_sleep_set_flag' <=> i \in dpm_sleep_set_flag)
<1>t. mod_name \in [Slot -> Module \cup {NoName}] /\ NoName \notin Module
  BY TableParts, NamesAssumption DEF TypeOK, TablePartOK
<1>1. ASSUME NEW c \in Caller, Stores(c)
      PROVE  /\ mod_name[i] = m
             /\ i \in undone => i \in undone'
             /\ i \in undone' \/ (i \in dpm_sleep_set_flag' <=> i \in dpm_sleep_set_flag)
  <2>1. call[c].mod # m
    BY DEF CallsFor
  <2>2. \/ UNCHANGED mod_name /\ call[c].pc # "regStore"
        \/ /\ call[c].pc = "regStore"
           /\ mod_name' = [mod_name EXCEPT ![call[c].idx] = call[c].mod]
    BY <1>1, StoreNames
  <2>3. call[c].idx \in Slot
    BY <1>1, StoreNames
  <2>4. mod_name[i] = m /\ (i = call[c].idx => call[c].pc # "regStore")
    BY <1>t, <2>1, <2>2, <2>3
  <2>5. CASE i = call[c].idx
    <3>1. i \in undone'
      BY <1>1, <2>1, <2>4, <2>5, StoreNoted
    <3> QED
      BY <2>4, <3>1
  <2>6. CASE i # call[c].idx
    <3>1. /\ i \in undone => i \in undone'
          /\ (i \in dpm_sleep_set_flag') # (i \in dpm_sleep_set_flag) => i \in undone'
      BY <1>1, <2>6, StoreNoted
    <3> QED
      BY <2>4, <3>1
  <2> QED
    BY <2>5, <2>6
<1>2. CASE \A c \in Caller : ~Stores(c)
  <2>1. undone' = undone
    BY <1>2 DEF ObsStep, UndoneStep
  <2>2. UNCHANGED dpm_sleep_set_flag /\ mod_name[i] = m
    BY <1>2, MaskWriters
  <2> QED
    BY <2>1, <2>2
<1> QED
  BY <1>1, <1>2

\* A module whose set_dpm_sleep returns has its bit, or that is noted.
LEMMA NewSet ==
    ASSUME TypeOK, TableInv, ObsStep, NEW m \in Module,
           NEW c \in Caller, call[c].mod = m, SetDone(c),
           NEW i \in Slot, mod_name'[i] = m
    PROVE  i \in dpm_sleep_set_flag' \cup undone'
<1>1. CASE SetStore(c)
  <2>1. Stores(c) /\ call[c].pc = "setStore" /\ UNCHANGED mod_name
    BY <1>1 DEF Stores, SetStore, tableVars, listVars
  <2>2. CASE i = call[c].idx
    BY <1>1, <2>1, <2>2, StoreBits
  <2>3. CASE i # call[c].idx
    BY <2>1, <2>3, StoreNoted
  <2> QED
    BY <2>2, <2>3
<1>2. CASE SetFind(c) /\ Return(c) /\ Registered(m)
  <2> DEFINE j == SlotOf(m)
  <2>1. j \in Slot /\ mod_name[j] = m
    BY <1>2, SlotOfNamed
  <2>2. UNCHANGED <<mod_name, dpm_sleep_set_flag>>
    BY <1>2 DEF SetFind
  <2>3. i = j
    BY <2>1, <2>2, NamesAssumption DEF TableInv, UniqueNames
  <2>4. j = 0 /\ 0 \in dpm_sleep_set_flag
    <3>1. \/ j = 0 /\ 0 \in dpm_sleep_set_flag
          \/ Enter(c, Frame("setLoad", m, j, {}, dpm_pdown_state # "WAIT"))
      BY <1>2 DEF SetFind
    <3>2. Enter(c, Frame("setLoad", m, j, {}, dpm_pdown_state # "WAIT"))
             => call'[c].pc = "setLoad"
      BY TableParts, EnterFrame DEF TypeOK
    <3>3. call'[c].pc = "idle"
      BY <1>2, TableParts, EnterFrames, IdlePc DEF TypeOK, Return
    <3> QED
      BY <3>1, <3>2, <3>3
  <2> QED
    BY <2>2, <2>3, <2>4
<1> QED
  BY <1>1, <1>2 DEF SetDone

\* A module whose clr_dpm_sleep or reg_dpm_sleep returns has its bit cleared,
\* or that is noted.
LEMMA NewClear ==
    ASSUME TypeOK, TableInv, ObsStep, NEW m \in Module,
           NEW c \in Caller, call[c].mod = m, ClearDone(c),
           NEW i \in Slot, mod_name'[i] = m
    PROVE  i \notin dpm_sleep_set_flag' \ undone'
<1>1. Stores(c) /\ ~SetStore(c)
  BY DEF ClearDone, Stores, ClrStore, RegStore, SetStore
<1>2. call[c].idx \notin dpm_sleep_set_flag'
  BY <1>1, StoreBits
<1>3. CASE i = call[c].idx
  BY <1>2, <1>3
<1>4. CASE i # call[c].idx
  <2>1. \/ UNCHANGED mod_name /\ call[c].pc # "regStore"
        \/ /\ \A j \in Slot : mod_name[j] # m
           /\ mod_name' = [mod_name EXCEPT ![call[c].idx] = m]
    BY <1>1, StoreNames
  <2>2. UNCHANGED mod_name /\ call[c].pc # "regStore"
    BY <1>4, <2>1, TableParts DEF TypeOK, TablePartOK
  <2> QED
    BY <1>1, <1>4, <2>2, StoreNoted
<1> QED
  BY <1>3, <1>4

\* The promises are kept by every step.
LEMMA MaskNext ==
    ASSUME TypeOK, TableInv, TypeOK', MaskInv,
           (Next /\ ObsStep) \/ UNCHANGED <<vars, obsVars>>
    PROVE  MaskInv'
<1>1. CASE UNCHANGED <<vars, obsVars>>
  BY <1>1 DEF MaskInv, AskedVoid, SetSlots, ClearSlots, vars, obsVars, tableVars, listVars
<1>2. CASE Next /\ ObsStep
  <2>1. AskedVoid'
    <3>1. SUFFICES ASSUME NEW c \in Caller, NEW m \in Module, CallsFor(call'[c], m)
                   PROVE  asked'[m] = "none"
      BY DEF AskedVoid, CallsFor
    <3>2. asked'[m] = AskedStep(m)
      BY <1>2 DEF ObsStep
    <3> QED
      BY <3>1, <3>2 DEF AskedStep
  <2>2. ASSUME NEW i \in Slot, mod_name'[i] \in Module, asked'[mod_name'[i]] = "sleep"
        PROVE  i \in dpm_sleep_set_flag' \cup undone'
    <3> DEFINE m == mod_name'[i]
    <3>1. m \in Module /\ asked'[m] = "sleep" /\ mod_name'[i] = m
      BY <2>2
    <3> HIDE DEF m
    <3>2. /\ ~Reboot /\ \A c \in Caller : ~AllStore(c)
          /\ \/ asked[m] = "sleep" /\ \A c \in Caller : ~CallsFor(call[c], m)
             \/ \E c \in Caller : call[c].mod = m /\ SetDone(c)
      BY <1>2, <3>1, AskedAfter DEF MaskInv
    <3>3. CASE \E c \in Caller : call[c].mod = m /\ SetDone(c)
      BY <1>2, <3>1, <3>3, NewSet
    <3>4. CASE asked[m] = "sleep" /\ \A c \in Caller : ~CallsFor(call[c], m)
      <4>1. /\ mod_name[i] = m
            /\ i \in undone => i \in undone'
            /\ i \in undone' \/ (i \in dpm_sleep_set_flag' <=> i \in dpm_sleep_set_flag)
        BY <1>2, <3>1, <3>2, <3>4, OldSlot
      <4>2. i \in dpm_sleep_set_flag \cup undone
        BY <3>1, <3>4, <4>1 DEF MaskInv, SetSlots
      <4> QED
        BY <4>1, <4>2
    <3> QED
      BY <3>2, <3>3, <3>4
  <2>3. ASSUME NEW i \in Slot, mod_name'[i] \in Module, asked'[mod_name'[i]] = "awake"
        PROVE  i \notin dpm_sleep_set_flag' \ undone'
    <3> DEFINE m == mod_name'[i]
    <3>1. m \in Module /\ asked'[m] = "awake" /\ mod_name'[i] = m
      BY <2>3
    <3> HIDE DEF m
    <3>2. /\ ~Reboot /\ \A c \in Caller : ~AllStore(c)
          /\ \/ asked[m] = "awake" /\ \A c \in Caller : ~CallsFor(call[c], m)
             \/ \E c \in Caller : call[c].mod = m /\ ClearDone(c)
      BY <1>2, <3>1, AskedAfter DEF MaskInv
    <3>3. CASE \E c \in Caller : call[c].mod = m /\ ClearDone(c)
      BY <1>2, <3>1, <3>3, NewClear
    <3>4. CASE asked[m] = "awake" /\ \A c \in Caller : ~CallsFor(call[c], m)
      <4>1. /\ mod_name[i] = m
            /\ i \in undone => i \in undone'
            /\ i \in undone' \/ (i \in dpm_sleep_set_flag' <=> i \in dpm_sleep_set_flag)
        BY <1>2, <3>1, <3>2, <3>4, OldSlot
      <4>2. i \notin dpm_sleep_set_flag \ undone
        BY <3>1, <3>4, <4>1 DEF MaskInv, ClearSlots
      <4> QED
        BY <4>1, <4>2
    <3> QED
      BY <3>2, <3>3, <3>4
  <2> QED
    BY <2>1, <2>2, <2>3 DEF MaskInv, SetSlots, ClearSlots
<1> QED
  BY <1>1, <1>2

-----------------------------------------------------------------------------
(* Late attempts.                                                          *)

\* The daemon, once held, begins at most the attempt it had decided on: to
\* come back to it, it would have to pass the head of its loop.
HeldLate ==
    /\ late[Daemon] \in {0, 1}
    /\ late[Daemon] = 1 => Held /\ d_pc \notin {"poll", "check", "commit"}

\* An objecting slot stops the next decision.
SlotLate ==
    \A i \in Slot \ {Daemon} :
        /\ late[i] \in {0, 1}
        /\ late[i] = 1 => Objects(i) /\ d_pc # "commit"

\* How the daemon comes to the places from which an attempt begins.
LEMMA DaemonWay ==
    ASSUME [Next]_vars
    PROVE  /\ d_pc' = "commit" => d_pc = "commit" \/ (d_pc = "check" /\ SleepPossible)
           /\ d_pc' = "check" => d_pc \in {"check", "poll"}
           /\ d_pc' = "poll" => d_pc = "poll" \/ (~Held /\ ~Held')
<1> USE DEF daemonVars
<1>1. ASSUME NEW c \in Caller, CallNext(c)
      PROVE  UNCHANGED d_pc \/ d_pc' = "dead"
  BY <1>1 DEF CallNext, RegTake, RegSlot, RegStore, UnregTake, UnregStore,
     UnregName, UnregBit, SetFind, SetLoad, SetStore, ClrFind, ClrLoad,
     ClrStore, Load, AllStore, StopKill, KillDaemon, DisableNv, DisableMode,
     systemVars
<1>2. ASSUME NEW t \in Task, TaskNext(t)
      PROVE  UNCHANGED d_pc \/ d_pc' = "dead"
  BY <1>2 DEF TaskNext, Start, UnregFind, set_dpm_rcv_ready,
     set_dpm_rcv_ready_by_port, set_dpm_init_done, WriteReady, AllLoad,
     StopFlags, DisableKill, KillDaemon, enable_dpm_mode, systemVars
<1>3. ControlNext \/ dpm_trigger_timer_fn \/ UNCHANGED vars => UNCHANGED d_pc
  BY DEF ControlNext, hold_dpm_sleepd, resume_dpm_sleepd, CmdHold,
     CmdResume, RtcProcess, dpm_trigger_timer_fn, vars, systemVars
<1>4. Reboot => d_pc' \in {"boot", "dead"}
  BY DEF Reboot
<1>5. CASE DaemonTop
  BY <1>5 DEF DaemonTop, DaemonStep, Held
<1>6. CASE DaemonNext /\ ~DaemonTop
  BY <1>6
     DEF DaemonNext, DaemonStep, DaemonBoot, DaemonExit, DaemonPoll,
         DaemonNotReady, DaemonDefer, DaemonDecide, DaemonRun, PowerOffBusy,
         PowerOffDisconnected, PowerOffOk, PowerOffFail, DaemonClrDone
<1> QED
  BY <1>1, <1>2, <1>3, <1>4, <1>5, <1>6 DEF Next

\* For any callers: a held daemon begins at most one attempt.
LEMMA HeldStep ==
    ASSUME HeldLate, (Next /\ ObsStep) \/ UNCHANGED <<vars, obsVars>>
    PROVE  HeldLate'
<1>1. CASE UNCHANGED <<vars, obsVars>>
  BY <1>1 DEF HeldLate, Held, vars, obsVars, systemVars, holdVars, daemonVars
<1>2. CASE Next /\ ObsStep
  <2>1. late'[Daemon] = LateStep(Daemon)
    BY <1>2 DEF ObsStep, Objection
  <2>2. LateStep(Daemon) = IF ~Held' THEN 0
                           ELSE IF d_pc = "commit" /\ d_pc' = "psCmd" /\ late[Daemon] < 2
                           THEN late[Daemon] + 1 ELSE late[Daemon]
    BY DEF LateStep, Objects, Held
  <2>3. /\ d_pc' = "commit" => d_pc = "commit" \/ d_pc = "check"
        /\ d_pc' = "check" => d_pc \in {"check", "poll"}
        /\ d_pc' = "poll" => d_pc = "poll" \/ (~Held /\ ~Held')
    BY <1>2, DaemonWay
  <2> QED
    BY <2>1, <2>2, <2>3 DEF HeldLate
<1> QED
  BY <1>1, <1>2

\* An objecting slot is late for at most one attempt.
LEMMA SlotStep ==
    ASSUME SlotLate, (Next /\ ObsStep) \/ UNCHANGED <<vars, obsVars>>
    PROVE  SlotLate'
<1>1. CASE UNCHANGED <<vars, obsVars>>
  BY <1>1 DEF SlotLate, Objects, vars, obsVars, systemVars, holdVars, daemonVars,
              tableVars
<1>2. CASE Next /\ ObsStep
  <2>1. SUFFICES ASSUME NEW i \in Slot \ {Daemon}
                 PROVE  /\ late'[i] \in {0, 1}
                        /\ late'[i] = 1 => Objects(i)' /\ d_pc' # "commit"
    BY DEF SlotLate
  <2>2. late'[i] = LateStep(i)
    BY <1>2 DEF ObsStep, Objection
  <2>3. LateStep(i) = IF ~Objects(i)' THEN 0
                      ELSE IF d_pc = "commit" /\ d_pc' = "psCmd" /\ late[i] < 2
                      THEN late[i] + 1 ELSE late[i]
    BY DEF LateStep
  <2>4. d_pc' = "commit" => d_pc = "commit" \/ SleepPossible
    BY <1>2, DaemonWay
  <2>5. Objects(i) => ~SleepPossible
    BY DEF Objects, SleepPossible
  <2>6. late[i] \in {0, 1} /\ (late[i] = 1 => Objects(i) /\ d_pc # "commit")
    BY DEF SlotLate
  <2> QED
    BY <2>2, <2>3, <2>4, <2>5, <2>6
<1> QED
  BY <1>1, <1>2

-----------------------------------------------------------------------------
\* The history variables restrict nothing: an observed behaviour is one of
\* DpmSleep.
LEMMA ObsImplements == ObsSpec => Spec
<1>1. (Next /\ ObsStep) \/ UNCHANGED <<vars, obsVars>> => Next \/ UNCHANGED vars
  OBVIOUS
<1> QED
  BY <1>1, PTL DEF ObsSpec, Spec

\* The requests and the mask belong together.
LEMMA ObsInductive == ObsSpec => [](TypeOK /\ TableInv /\ MaskInv)
<1>1. Init /\ ObsInit => MaskInv
  BY NamesAssumption DEF Init, ObsInit, MaskInv, AskedVoid, SetSlots, ClearSlots
<1>2. ASSUME TypeOK, TableInv, TypeOK', MaskInv,
             [Next /\ ObsStep]_<<vars, obsVars>>
      PROVE  MaskInv'
  BY <1>2, MaskNext
<1>3. ObsSpec => [](TypeOK /\ TableInv)
  BY ObsImplements, Inductive, PTL
<1> QED
  BY <1>1, <1>2, <1>3, PTL DEF ObsSpec

\* For any callers, the daemon among them: a module whose set_dpm_sleep
\* returned keeps its bit until the next call made for it, unless another call
\* stored an outdated mask or wrote to a slot that had changed hands
\* (set_dpm_sleep, clr_dpm_sleep, reg_dpm_sleep, unreg_dpm_sleep).
THEOREM SetStays == ObsSpec => []SetsKept
<1>1. TypeOK /\ TableInv /\ MaskInv => SetsKept
  <2>1. SUFFICES ASSUME MaskInv, NEW m \in Module, asked[m] = "sleep", Registered(m)
                 PROVE  SlotOf(m) \in dpm_sleep_set_flag \cup undone
    BY DEF SetsKept
  <2>2. SlotOf(m) \in Slot /\ mod_name[SlotOf(m)] = m
    BY <2>1, SlotOfNamed
  <2> QED
    BY <2>1, <2>2 DEF MaskInv, SetSlots
<1> QED
  BY <1>1, ObsInductive, PTL

\* For any callers: a module whose clr_dpm_sleep or reg_dpm_sleep returned is
\* not counted as ready until the next call made for it, with the same two
\* exceptions (clr_dpm_sleep, reg_dpm_sleep).
THEOREM ClearStays == ObsSpec => []ClearsKept
<1>1. TypeOK /\ TableInv /\ MaskInv => ClearsKept
  <2>1. SUFFICES ASSUME MaskInv, NEW m \in Module, asked[m] = "awake", Registered(m)
                 PROVE  SlotOf(m) \notin dpm_sleep_set_flag \ undone
    BY DEF ClearsKept
  <2>2. SlotOf(m) \in Slot /\ mod_name[SlotOf(m)] = m
    BY <2>1, SlotOfNamed
  <2> QED
    BY <2>1, <2>2 DEF MaskInv, ClearSlots
<1> QED
  BY <1>1, ObsInductive, PTL

\* For any callers, calls and results of the PS command: neither a held daemon
\* nor a registered slot that is not ready is overrun by more than the attempt
\* that was already decided (dpm_sleep_daemon's loop).
THEOREM OneLateAttempt == ObsSpec => []AtMostOneLateAttempt
<1>1. HeldLate /\ SlotLate => AtMostOneLateAttempt
  BY DEF HeldLate, SlotLate, AtMostOneLateAttempt, Objection
<1>2. Init /\ ObsInit => HeldLate /\ SlotLate
  BY DEF ObsInit, HeldLate, SlotLate, Objection
<1>3. ASSUME HeldLate, SlotLate, [Next /\ ObsStep]_<<vars, obsVars>>
      PROVE  HeldLate' /\ SlotLate'
  BY <1>3, HeldStep, SlotStep
<1> QED
  BY <1>1, <1>2, <1>3, PTL DEF ObsSpec
=============================================================================
