--------------------------- MODULE DpmSleepProofs ---------------------------
(***************************************************************************)
(* Proofs about DpmSleep, for every set of tasks, modules and slots: the   *)
(* type invariant, and that the module table stays consistent although     *)
(* unreg_dpm_sleep works on it outside the mutex.                          *)
(***************************************************************************)
EXTENDS DpmSleep, WellFoundedInduction, TLAPS

\* The table has a slot 0 and its indices are natural numbers.
LEMMA ZeroSlot == 0 \in Slot /\ Slot \subseteq Nat
  BY BoundsAssumption DEF Slot

\* A scan that finds something ends at one of the slots it looks for.
LEMMA FirstIn ==
    ASSUME NEW S, S \subseteq Slot, S # {}
    PROVE  First(S) \in S
<1>1. S \subseteq Nat
  BY ZeroSlot
<1>2. PICK x \in S : \A y \in S : ~(<<y, x>> \in OpToRel(<, Nat))
  BY <1>1, NatLessThanWellFounded, WFMin, Zenon
<1>3. \A y \in S : x <= y
  <2>1. SUFFICES ASSUME NEW y \in S PROVE x <= y
    OBVIOUS
  <2>2. ~(y < x)
    BY <1>1, <1>2 DEF OpToRel
  <2> QED
    BY <1>1, <2>2
<1> QED
  BY <1>3 DEF First

\* A scan for a registered name ends at a slot that carries it.
LEMMA SlotOfNamed ==
    ASSUME NEW m, Registered(m)
    PROVE  SlotOf(m) \in Slot /\ mod_name[SlotOf(m)] = m
<1>1. First(Named(m)) \in Named(m)
  BY FirstIn DEF Registered, Named
<1> QED
  BY <1>1 DEF SlotOf, Named

-----------------------------------------------------------------------------
(* The type invariant.  The frames of the calls are the part the provers   *)
(* need help with: a frame is built whole, and Enter puts it in its place. *)

FrameType == [pc : CallPc, mod : Module \cup {NoName}, idx : Slot,
              tmp : SUBSET Slot, exc : BOOLEAN]

\* Frame builds a frame of the right type.
LEMMA FrameTyped ==
    ASSUME NEW pc \in CallPc, NEW m \in Module \cup {NoName}, NEW i \in Slot,
           NEW mask \in SUBSET Slot, NEW exc \in BOOLEAN
    PROVE  Frame(pc, m, i, mask, exc) \in FrameType
  BY DEF Frame, FrameType

\* The frame of a caller that is in no call has the right type.
LEMMA IdleTyped == Idle \in FrameType
  BY ZeroSlot, FrameTyped DEF Idle, CallPc

\* At boot the variables have their types.
LEMMA TypeInit == Init => TypeOK
<1> SUFFICES ASSUME Init PROVE TypeOK
  OBVIOUS
<1>1. call \in [Caller -> FrameType]
  BY IdleTyped DEF Init
<1>2. TableTypeOK
  BY <1>1, ZeroSlot DEF Init, TableTypeOK, FrameType
<1>3. DaemonTypeOK
  BY BoundsAssumption DEF Init, DaemonTypeOK, DaemonPc
<1>4. FlagTypeOK
  BY Zenon DEF Init, FlagTypeOK
<1> QED
  BY <1>2, <1>3, <1>4 DEF TypeOK

\* The two halves of the table's type: the frames, and everything else.
TablePartOK ==
    /\ mod_name \in [Slot -> Module \cup {NoName}]
    /\ port_number \in [Slot -> Nat]
    /\ bit_index \in [Slot -> Slot]
    /\ rcv_ready \in [Slot -> BOOLEAN]
    /\ init_done \in [Slot -> BOOLEAN]
    /\ reg_dpm_req_flag \subseteq Slot
    /\ dpm_sleep_set_flag \subseteq Slot
    /\ mutex \subseteq Caller
    /\ ev_group \subseteq {"TRIGGER", "SLEEP_SET"}

\* TableTypeOK is its two parts.
LEMMA TableParts == TableTypeOK <=> TablePartOK /\ call \in [Caller -> FrameType]
  BY DEF TableTypeOK, TablePartOK, FrameType

\* The fields of a caller's frame have their types.
LEMMA FrameFields ==
    ASSUME call \in [Caller -> FrameType], NEW c \in Caller
    PROVE  /\ call[c].pc \in CallPc
           /\ call[c].mod \in Module \cup {NoName}
           /\ call[c].idx \in Slot
           /\ call[c].tmp \in SUBSET Slot
           /\ call[c].exc \in BOOLEAN
  BY DEF FrameType

\* Putting a typed frame in place keeps the frames typed.
LEMMA EnterTyped ==
    ASSUME call \in [Caller -> FrameType], NEW c, NEW frame \in FrameType,
           Enter(c, frame)
    PROVE  call' \in [Caller -> FrameType]
  BY DEF Enter

\* Ending a call keeps the frames typed.
LEMMA ReturnTyped ==
    ASSUME call \in [Caller -> FrameType], NEW c, Return(c)
    PROVE  call' \in [Caller -> FrameType]
  BY EnterTyped, IdleTyped DEF Return

\* The API functions keep the table, the masks and the frames typed.
LEMMA TableTypeCall ==
    ASSUME TableTypeOK, CallsMade, NEW c \in Caller, CallNext(c)
    PROVE  TableTypeOK'
<1>p. TablePartOK /\ call \in [Caller -> FrameType]
  BY TableParts
<1>f. /\ call[c].pc \in CallPc
      /\ call[c].mod \in Module \cup {NoName}
      /\ call[c].idx \in Slot
      /\ call[c].tmp \in SUBSET Slot
      /\ call[c].exc \in BOOLEAN
  BY <1>p, FrameFields
<1>m. dpm_sleep_set_flag \in SUBSET Slot /\ {} \in SUBSET Slot /\ 0 \in Slot
  BY <1>p, ZeroSlot DEF TablePartOK
<1>b. FALSE \in BOOLEAN
  OBVIOUS
<1>t. SUFFICES TablePartOK' /\ call' \in [Caller -> FrameType]
  BY TableParts DEF TableParts, TableTypeOK, TablePartOK, FrameType
<1>1. CASE RegTake(c)
  <2>1. Frame("reg", call[c].mod, 0, {}, FALSE) \in FrameType
    BY <1>f, <1>m, <1>b, FrameTyped DEF CallPc
  <2>2. call' \in [Caller -> FrameType]
    BY <1>1, <1>p, <2>1, EnterTyped, ReturnTyped DEF RegTake
  <2>3. TablePartOK'
    BY <1>1, <1>p DEF RegTake, TablePartOK, listVars, readyVars
  <2> QED
    BY <2>2, <2>3
<1>2. CASE RegSlot(c)
  <2>1. Named(NoName) # {} => First(Named(NoName)) \in Slot
    BY FirstIn DEF Named
  <2>2. CASE Registered(call[c].mod) \/ Named(NoName) = {}
    BY <1>2, <1>p, <2>2, ReturnTyped DEF RegSlot, TablePartOK, listVars, readyVars
  <2>3. CASE ~(Registered(call[c].mod) \/ Named(NoName) = {})
    <3> DEFINE i == First(Named(NoName))
    <3>1. i \in Slot
      BY <2>1, <2>3
    <3> HIDE DEF i
    <3>2. Frame("regStore", call[c].mod, i, dpm_sleep_set_flag, FALSE) \in FrameType
      BY <1>f, <1>m, <1>b, <3>1, FrameTyped DEF CallPc
    <3>3. /\ reg_dpm_req_flag' = reg_dpm_req_flag \cup {i}
          /\ Enter(c, Frame("regStore", call[c].mod, i, dpm_sleep_set_flag, FALSE))
          /\ UNCHANGED mutex
          /\ UNCHANGED <<listVars, dpm_sleep_set_flag, ev_group, systemVars>>
      BY <1>2, <2>3 DEF RegSlot, i
    <3>4. call' \in [Caller -> FrameType]
      BY <1>p, <3>2, <3>3, EnterTyped
    <3>5. TablePartOK'
      BY <1>p, <3>1, <3>3 DEF TablePartOK, listVars, readyVars
    <3> QED
      BY <3>4, <3>5
  <2> QED
    BY <2>2, <2>3
<1>3. CASE RegStore(c)
  <2>1. call' \in [Caller -> FrameType]
    BY <1>3, <1>p, ReturnTyped DEF RegStore
  <2>2. PortOf[call[c].mod] \in Nat /\ call[c].mod \in Module
    BY <1>3, NamesAssumption DEF CallsMade, RegStore
  <2>3. TablePartOK'
    BY <1>3, <1>p, <1>f, <2>2 DEF RegStore, TablePartOK, readyVars
  <2> QED
    BY <2>1, <2>3
<1>4. CASE UnregTake(c)
  <2>1. Frame("unregStore", call[c].mod, call[c].idx, dpm_sleep_set_flag, FALSE) \in FrameType
    BY <1>f, <1>m, <1>b, FrameTyped DEF CallPc
  <2>2. call' \in [Caller -> FrameType]
    BY <1>4, <1>p, <2>1, EnterTyped, ReturnTyped DEF UnregTake
  <2>3. TablePartOK'
    BY <1>4, <1>p DEF UnregTake, TablePartOK, listVars, readyVars
  <2> QED
    BY <2>2, <2>3
<1>5. CASE UnregStore(c)
  <2>1. Frame("unregName", call[c].mod, call[c].idx, {}, FALSE) \in FrameType
    BY <1>f, <1>m, <1>b, FrameTyped DEF CallPc
  <2>2. call' \in [Caller -> FrameType]
    BY <1>5, <1>p, <2>1, EnterTyped DEF UnregStore
  <2>3. TablePartOK'
    BY <1>5, <1>p, <1>f DEF UnregStore, BitOut, TablePartOK, listVars, readyVars
  <2> QED
    BY <2>2, <2>3
<1>6. CASE UnregName(c)
  <2>1. Frame("unregBit", call[c].mod, call[c].idx, {}, FALSE) \in FrameType
    BY <1>f, <1>m, <1>b, FrameTyped DEF CallPc
  <2>2. call' \in [Caller -> FrameType]
    BY <1>6, <1>p, <2>1, EnterTyped DEF UnregName
  <2>3. TablePartOK'
    BY <1>6, <1>p, <1>f DEF UnregName, TablePartOK, readyVars
  <2> QED
    BY <2>2, <2>3
<1>7. CASE UnregBit(c)
  BY <1>7, <1>p, <1>f, <1>m, ReturnTyped DEF UnregBit, TablePartOK, readyVars
<1>8. CASE SetFind(c)
  <2>1. CASE ~Registered(call[c].mod)
    BY <1>8, <1>p, <2>1, ReturnTyped DEF SetFind, TablePartOK, readyVars
  <2>2. CASE Registered(call[c].mod)
    <3> DEFINE i == SlotOf(call[c].mod)
    <3>1. i \in Slot
      BY <2>2, SlotOfNamed
    <3>2. /\ bit_index' = [bit_index EXCEPT ![i] = i]
          /\ \/ Return(c)
             \/ Enter(c, Frame("setLoad", call[c].mod, i, {}, dpm_pdown_state # "WAIT"))
          /\ UNCHANGED <<mod_name, port_number, readyVars, reg_dpm_req_flag,
                         mutex, dpm_sleep_set_flag, ev_group>>
      BY <1>8, <2>2 DEF SetFind
    <3> HIDE DEF i
    <3>3. Frame("setLoad", call[c].mod, i, {}, dpm_pdown_state # "WAIT") \in FrameType
      BY <1>f, <1>m, <3>1, FrameTyped DEF CallPc
    <3>4. call' \in [Caller -> FrameType]
      BY <1>p, <3>2, <3>3, EnterTyped, ReturnTyped
    <3>5. TablePartOK'
      BY <1>p, <3>1, <3>2 DEF TablePartOK, readyVars
    <3> QED
      BY <3>4, <3>5
  <2> QED
    BY <2>1, <2>2
<1>9. CASE SetLoad(c) \/ ClrLoad(c)
  <2>1. \A pc \in CallPc : Frame(pc, call[c].mod, call[c].idx, dpm_sleep_set_flag,
                                 call[c].exc) \in FrameType
    BY <1>f, <1>m, FrameTyped
  <2>2. call' \in [Caller -> FrameType]
    BY <1>9, <1>p, <2>1, EnterTyped DEF SetLoad, ClrLoad, Load, CallPc
  <2>3. TablePartOK'
    BY <1>9, <1>p DEF SetLoad, ClrLoad, Load, TablePartOK, tableVars, listVars, readyVars
  <2> QED
    BY <2>2, <2>3
<1>10. CASE SetStore(c)
  BY <1>10, <1>p, <1>f, ReturnTyped DEF SetStore, BitIn, TablePartOK, tableVars, listVars, readyVars
<1>11. CASE ClrFind(c)
  <2>1. Registered(call[c].mod) => ClrBit(call[c].mod) \in Slot
    BY <1>p, SlotOfNamed DEF ClrBit, TablePartOK
  <2>2. Registered(call[c].mod)
          => Frame("clrLoad", call[c].mod, ClrBit(call[c].mod), {}, FALSE) \in FrameType
    BY <1>f, <1>m, <1>b, <2>1, FrameTyped DEF CallPc
  <2>3. call' \in [Caller -> FrameType]
    BY <1>11, <1>p, <2>2, EnterTyped, ReturnTyped DEF ClrFind
  <2>4. TablePartOK'
    BY <1>11, <1>p DEF ClrFind, TablePartOK, tableVars, listVars, readyVars
  <2> QED
    BY <2>3, <2>4
<1>12. CASE ClrStore(c) \/ AllStore(c)
  BY <1>12, <1>p, <1>f, ReturnTyped
     DEF ClrStore, AllStore, BitOut, TablePartOK, tableVars, listVars, readyVars
<1>13. CASE StopKill(c)
  <2>1. call' \in [Caller -> FrameType]
    BY <1>13, <1>p, IdleTyped DEF StopKill
  <2>2. TablePartOK'
    BY <1>13, <1>p DEF StopKill, TablePartOK, tableVars, listVars, readyVars
  <2> QED
    BY <2>1, <2>2
<1>14. CASE DisableNv(c)
  <2>1. Frame("disableMode", NoName, 0, {}, FALSE) \in FrameType
    BY <1>m, <1>b, FrameTyped DEF CallPc
  <2>2. call' \in [Caller -> FrameType]
    BY <1>14, <1>p, <2>1, EnterTyped DEF DisableNv
  <2>3. TablePartOK'
    BY <1>14, <1>p DEF DisableNv, TablePartOK, tableVars, listVars, readyVars
  <2> QED
    BY <2>2, <2>3
<1>15. CASE DisableMode(c)
  BY <1>15, <1>p, ReturnTyped
     DEF DisableMode, HoldStep, TablePartOK, tableVars, listVars, readyVars
<1> QED
  BY <1>1, <1>2, <1>3, <1>4, <1>5, <1>6, <1>7, <1>8, <1>9, <1>10, <1>11,
     <1>12, <1>13, <1>14, <1>15 DEF CallNext

\* So does everything else.
LEMMA TableTypeOther ==
    ASSUME TableTypeOK,
           \/ \E t \in Task : TaskNext(t)
           \/ ControlNext \/ DaemonNext \/ dpm_trigger_timer_fn \/ Reboot
           \/ UNCHANGED vars
    PROVE  TableTypeOK'
<1>p. TablePartOK /\ call \in [Caller -> FrameType]
  BY TableParts
<1>m. {} \in SUBSET Slot /\ 0 \in Slot /\ FALSE \in BOOLEAN
  BY ZeroSlot
<1>t. SUFFICES TablePartOK' /\ call' \in [Caller -> FrameType]
  BY DEF TableTypeOK, TablePartOK, FrameType
<1> USE DEF TablePartOK, vars, tableVars, listVars, readyVars
<1>1. CASE \E t \in Task : TaskNext(t)
  <2>1. PICK t \in Task : TaskNext(t)
    BY <1>1
  <2>2. Uses[t] \subseteq Module
    BY NamesAssumption
  <2>3. ASSUME NEW m \in Uses[t],
               \/ Start(t, "reg", m, "regTake") \/ Start(t, "set", m, "setWait")
               \/ Start(t, "clr", m, "clrWait")
        PROVE  TablePartOK' /\ call' \in [Caller -> FrameType]
    <3>1. \A pc \in CallPc : Frame(pc, m, 0, {}, FALSE) \in FrameType
      BY <2>2, <1>m, FrameTyped
    <3>2. call' \in [Caller -> FrameType]
      BY <1>p, <2>3, <3>1, EnterTyped DEF Start, CallPc
    <3> QED
      BY <1>p, <2>3, <3>2 DEF Start
  <2>4. ASSUME NEW m \in Uses[t], UnregFind(t, m)
        PROVE  TablePartOK' /\ call' \in [Caller -> FrameType]
    <3>1. SlotOf(m) \in Slot
      BY <2>4, SlotOfNamed DEF UnregFind
    <3>2. Frame("unregTake", m, SlotOf(m), {}, FALSE) \in FrameType
      BY <2>2, <3>1, <1>m, FrameTyped DEF CallPc
    <3>3. call' \in [Caller -> FrameType]
      BY <1>p, <2>4, <3>2, EnterTyped DEF UnregFind
    <3> QED
      BY <1>p, <2>4, <3>3 DEF UnregFind
  <2>5. ASSUME NEW m \in Uses[t],
               \/ set_dpm_rcv_ready(t, m) \/ set_dpm_rcv_ready_by_port(t, m)
               \/ set_dpm_init_done(t, m)
        PROVE  TablePartOK' /\ call' \in [Caller -> FrameType]
    <3>1. CASE set_dpm_rcv_ready(t, m)
      BY <1>p, <3>1 DEF set_dpm_rcv_ready, WriteReady
    <3>2. CASE set_dpm_rcv_ready_by_port(t, m)
      BY <1>p, <3>2 DEF set_dpm_rcv_ready_by_port, WriteReady
    <3>3. CASE set_dpm_init_done(t, m)
      BY <1>p, <3>3 DEF set_dpm_init_done, WriteReady
    <3> QED
      BY <2>5, <3>1, <3>2, <3>3
  <2>6. CASE AllLoad(t)
    <3>1. Frame("allStore", NoName, 0, reg_dpm_req_flag, FALSE) \in FrameType
      BY <1>p, <1>m, FrameTyped DEF CallPc
    <3>2. call' \in [Caller -> FrameType]
      BY <1>p, <2>6, <3>1, EnterTyped DEF AllLoad
    <3> QED
      BY <1>p, <2>6, <3>2 DEF AllLoad
  <2>7. CASE StopFlags(t)
    <3>1. Frame("stopKill", NoName, 0, {}, FALSE) \in FrameType
      BY <1>m, FrameTyped DEF CallPc
    <3>2. call' \in [Caller -> FrameType]
      BY <1>p, <2>7, <3>1, EnterTyped DEF StopFlags
    <3> QED
      BY <1>p, <2>7, <3>2 DEF StopFlags, HoldStep
  <2>8. CASE DisableKill(t)
    <3>1. Frame("disableNv", NoName, 0, {}, FALSE) \in FrameType
      BY <1>m, FrameTyped DEF CallPc
    <3>2. call' \in [Caller -> FrameType]
      BY <1>p, <2>8, <3>1, IdleTyped DEF DisableKill
    <3> QED
      BY <1>p, <2>8, <3>2 DEF DisableKill, HoldStep
  <2>9. CASE enable_dpm_mode(t)
    BY <1>p, <2>9 DEF enable_dpm_mode
  <2> QED
    BY <2>1, <2>3, <2>4, <2>5, <2>6, <2>7, <2>8, <2>9 DEF TaskNext
<1>2. CASE ControlNext
  BY <1>p, <1>2 DEF ControlNext, hold_dpm_sleepd, resume_dpm_sleepd, CmdHold,
                    CmdResume, RtcProcess, HoldStep
<1>3. CASE DaemonNext
  <2>1. CASE PowerOffDisconnected
    <3>1. Frame("clrWait", Supp, 0, {}, FALSE) \in FrameType
      BY <1>m, NamesAssumption, FrameTyped DEF CallPc
    <3>2. call' \in [Caller -> FrameType]
      BY <1>p, <2>1, <3>1, EnterTyped DEF PowerOffDisconnected
    <3> QED
      BY <1>p, <2>1, <3>2 DEF PowerOffDisconnected, DaemonStep
  <2>2. CASE ~PowerOffDisconnected
    BY <1>p, <1>3, <2>2
       DEF DaemonNext, DaemonStep, DaemonBoot, DaemonTop, DaemonExit, DaemonPoll,
           DaemonNotReady, DaemonDefer, DaemonDecide, DaemonRun, PowerOffBusy,
           PowerOffOk, PowerOffFail, DaemonClrDone
  <2> QED
    BY <2>1, <2>2
<1>4. CASE dpm_trigger_timer_fn
  BY <1>p, <1>4 DEF dpm_trigger_timer_fn
<1>5. CASE Reboot
  <2>1. call' \in [Caller -> FrameType]
    BY <1>5, IdleTyped DEF Reboot
  <2> QED
    BY <1>5, <1>m, <2>1 DEF Reboot
<1>6. CASE UNCHANGED vars
  BY <1>p, <1>6
<1> QED
  BY <1>1, <1>2, <1>3, <1>4, <1>5, <1>6

\* The daemon's counters stay within their limits.
LEMMA DaemonTypeStep ==
    ASSUME DaemonTypeOK, [Next]_vars
    PROVE  DaemonTypeOK'
<1> USE BoundsAssumption DEF DaemonTypeOK, DaemonPc, daemonVars, systemVars, pdownVars
<1>1. CASE \E c \in Caller : CallNext(c)
  BY <1>1 DEF CallNext, RegTake, RegSlot, RegStore, UnregTake, UnregStore,
              UnregName, UnregBit, SetFind, SetLoad, SetStore, ClrFind, ClrLoad,
              Load, ClrStore, AllStore, StopKill, KillDaemon, DisableNv,
              DisableMode, HoldStep
<1>2. CASE \E t \in Task : TaskNext(t)
  BY <1>2 DEF TaskNext, Start, UnregFind, set_dpm_rcv_ready,
              set_dpm_rcv_ready_by_port, set_dpm_init_done, WriteReady, AllLoad,
              StopFlags, DisableKill, KillDaemon, enable_dpm_mode, HoldStep
<1>3. CASE ControlNext
  BY <1>3 DEF ControlNext, hold_dpm_sleepd, resume_dpm_sleepd, CmdHold,
              CmdResume, RtcProcess, HoldStep
<1>4. CASE DaemonNext
  <2>1. CASE DaemonPoll
    BY <2>1 DEF DaemonPoll, DaemonStep, DelayAfterEvent
  <2>2. CASE PowerOffFail
    BY <2>2 DEF PowerOffFail, MaxTryReached, DaemonStep
  <2>3. CASE DaemonBoot \/ DaemonTop
    BY <2>3 DEF DaemonBoot, DaemonTop, DaemonStep
  <2>4. CASE DaemonExit \/ DaemonDefer \/ DaemonClrDone
    BY <2>4 DEF DaemonExit, DaemonDefer, DaemonClrDone, DaemonStep
  <2>5. CASE DaemonNotReady
    BY <2>5 DEF DaemonNotReady, DaemonStep
  <2>6. CASE DaemonDecide \/ DaemonRun \/ PowerOffOk
    BY <2>6 DEF DaemonDecide, DaemonRun, PowerOffOk, DaemonStep
  <2>7. CASE PowerOffBusy
    BY <2>7 DEF PowerOffBusy, DaemonStep
  <2>8. CASE PowerOffDisconnected
    BY <2>8 DEF PowerOffDisconnected, DaemonStep
  <2> QED
    BY <1>4, <2>1, <2>2, <2>3, <2>4, <2>5, <2>6, <2>7, <2>8 DEF DaemonNext
<1>5. CASE dpm_trigger_timer_fn
  BY <1>5 DEF dpm_trigger_timer_fn
<1>6. CASE Reboot
  BY <1>6 DEF Reboot
<1>7. CASE UNCHANGED vars
  BY <1>7 DEF vars
<1> QED
  BY <1>1, <1>2, <1>3, <1>4, <1>5, <1>6, <1>7 DEF Next

\* The flags stay Boolean.
LEMMA FlagTypeStep ==
    ASSUME FlagTypeOK, [Next]_vars
    PROVE  FlagTypeOK'
<1> DEFINE flags == <<dpm_daemon_start_flag, dpm_daemon_hold_flag,
                      dpm_daemon_cmd_hold_flag, dpm_rtc_to_chk_flag,
                      dpm_mac_err_flag, not_rcv, dpm_mode, nv_dpm_mode>>
<1>0. ASSUME UNCHANGED flags PROVE FlagTypeOK'
  BY <1>0 DEF FlagTypeOK
<1>u. ASSUME UNCHANGED systemVars PROVE FlagTypeOK'
  BY <1>0, <1>u DEF systemVars, pdownVars, holdVars, modeVars
<1>1. CASE \E c \in Caller : CallNext(c)
  <2>1. PICK c \in Caller : CallNext(c)
    BY <1>1
  <2>2. CASE StopKill(c)
    BY <2>2 DEF StopKill, FlagTypeOK, pdownVars, holdVars
  <2>3. CASE DisableNv(c)
    BY <2>3 DEF DisableNv, FlagTypeOK, pdownVars, holdVars
  <2>4. CASE DisableMode(c)
    BY <2>4 DEF DisableMode, HoldStep, FlagTypeOK
  <2>5. CASE ~StopKill(c) /\ ~DisableNv(c) /\ ~DisableMode(c)
    BY <2>1, <2>5, <1>u
       DEF CallNext, RegTake, RegSlot, RegStore, UnregTake, UnregStore,
           UnregName, UnregBit, SetFind, SetLoad, SetStore, ClrFind, ClrLoad,
           Load, ClrStore, AllStore
  <2> QED
    BY <2>2, <2>3, <2>4, <2>5
<1>2. CASE \E t \in Task : TaskNext(t)
  <2>1. PICK t \in Task : TaskNext(t)
    BY <1>2
  <2>2. CASE StopFlags(t)
    BY <2>2 DEF StopFlags, HoldStep, FlagTypeOK, modeVars
  <2>3. CASE DisableKill(t)
    BY <2>3 DEF DisableKill, HoldStep, FlagTypeOK, modeVars
  <2>4. CASE enable_dpm_mode(t)
    BY <2>4 DEF enable_dpm_mode, FlagTypeOK, pdownVars, holdVars
  <2>5. CASE ~StopFlags(t) /\ ~DisableKill(t) /\ ~enable_dpm_mode(t)
    BY <2>1, <2>5, <1>u
       DEF TaskNext, Start, UnregFind, set_dpm_rcv_ready,
           set_dpm_rcv_ready_by_port, set_dpm_init_done, WriteReady, AllLoad
  <2> QED
    BY <2>2, <2>3, <2>4, <2>5
<1>3. CASE ControlNext
  <2>1. CASE hold_dpm_sleepd
    BY <2>1 DEF hold_dpm_sleepd, HoldStep, FlagTypeOK, modeVars
  <2>2. CASE resume_dpm_sleepd
    BY <2>2 DEF resume_dpm_sleepd, HoldStep, FlagTypeOK, modeVars
  <2>3. CASE CmdHold
    BY <2>3 DEF CmdHold, HoldStep, FlagTypeOK, modeVars
  <2>4. CASE CmdResume
    BY <2>4 DEF CmdResume, HoldStep, FlagTypeOK, modeVars
  <2>5. CASE RtcProcess
    BY <2>5 DEF RtcProcess, HoldStep, FlagTypeOK, modeVars
  <2> QED
    BY <1>3, <2>1, <2>2, <2>3, <2>4, <2>5 DEF ControlNext
<1>4. CASE DaemonNext
  <2>1. CASE DaemonBoot
    BY <2>1 DEF DaemonBoot, DaemonStep, FlagTypeOK, pdownVars, modeVars
  <2>2. CASE DaemonTop
    BY <2>2 DEF DaemonTop, DaemonStep, FlagTypeOK, modeVars
  <2>3. CASE DaemonDecide
    BY <2>3 DEF DaemonDecide, DaemonStep, FlagTypeOK, modeVars
  <2>4. CASE PowerOffFail
    BY <2>4 DEF PowerOffFail, PowerOffResult, DaemonStep, FlagTypeOK, modeVars
  <2>5. CASE DaemonExit \/ DaemonPoll \/ DaemonNotReady \/ DaemonDefer \/ DaemonClrDone
    BY <2>5, <1>0 DEF DaemonExit, DaemonPoll, DaemonNotReady, DaemonDefer,
                      DaemonClrDone, DaemonStep, pdownVars, modeVars
  <2>6. CASE DaemonRun \/ PowerOffBusy \/ PowerOffDisconnected \/ PowerOffOk
    BY <2>6, <1>0 DEF DaemonRun, PowerOffBusy, PowerOffDisconnected, PowerOffOk,
                      PowerOffResult, DaemonStep, modeVars
  <2> QED
    BY <1>4, <2>1, <2>2, <2>3, <2>4, <2>5, <2>6 DEF DaemonNext
<1>5. CASE dpm_trigger_timer_fn
  BY <1>5 DEF dpm_trigger_timer_fn, FlagTypeOK, holdVars, modeVars
<1>6. CASE Reboot
  BY <1>6 DEF Reboot, FlagTypeOK
<1>7. CASE UNCHANGED vars
  BY <1>7, <1>u DEF vars
<1> QED
  BY <1>1, <1>2, <1>3, <1>4, <1>5, <1>6, <1>7 DEF Next

\* The type invariant is preserved by every step.
LEMMA TypeStep ==
    ASSUME TypeOK, CallsMade, [Next]_vars
    PROVE  TypeOK'
<1>1. TableTypeOK'
  BY TableTypeCall, TableTypeOther DEF TypeOK, Next
<1>2. DaemonTypeOK'
  BY DaemonTypeStep DEF TypeOK
<1>3. FlagTypeOK'
  BY FlagTypeStep DEF TypeOK
<1> QED
  BY <1>1, <1>2, <1>3 DEF TypeOK

-----------------------------------------------------------------------------
(* The table.  Only a few places in the code matter to TableInv: the       *)
(* critical sections, and the name that unreg_dpm_sleep has yet to erase.  *)

TablePc == {"reg", "regStore", "unregStore", "unregName"}
DaemonCallPc == {"idle", "clrWait", "clrLoad", "clrStore"}

\* Enter changes the frame of one caller.
LEMMA EnterFrames ==
    ASSUME call \in [Caller -> FrameType], NEW c \in Caller, NEW frame,
           Enter(c, frame)
    PROVE  /\ call'[c] = frame
           /\ \A d \in Caller : d # c => call'[d] = call[d]
  BY DEF Enter

\* What a caller's frame holds after Enter.
LEMMA EnterFrame ==
    ASSUME call \in [Caller -> FrameType], NEW c \in Caller,
           NEW pc, NEW m, NEW i, NEW mask, NEW exc,
           Enter(c, Frame(pc, m, i, mask, exc))
    PROVE  /\ call'[c].pc = pc /\ call'[c].mod = m /\ call'[c].idx = i
           /\ \A d \in Caller : d # c => call'[d] = call[d]
  BY DEF Enter, Frame

\* Idle is a frame at pc "idle".
LEMMA IdlePc == Idle.pc = "idle"
  BY DEF Idle, Frame

\* A step that leaves the names, the registration mask and the mutex alone,
\* and moves callers only between places outside TablePc.
LEMMA Quiet ==
    ASSUME TableInv,
           UNCHANGED <<mod_name, reg_dpm_req_flag, mutex>>,
           \A c \in Caller :
              \/ call'[c] = call[c]
              \/ /\ call[c].pc \notin TablePc
                 /\ call'[c].pc \notin TablePc
                 /\ call'[c].pc = "regTake" => call'[c].mod \in Module,
           call'[Daemon].pc \in DaemonCallPc
    PROVE  TableInv'
<1>1. MutexHeld'
  BY DEF TableInv, MutexHeld, InCritical, TablePc
<1>2. CallsMade'
  BY DEF TableInv, CallsMade, TablePc, DaemonCallPc
<1>3. RegPending'
  BY DEF TableInv, RegPending, Registered, Named, TablePc
<1>4. UniqueNames'
  BY DEF TableInv, UniqueNames
<1>5. \A i \in Slot : Unregistering(i) => Unregistering(i)'
  BY DEF Unregistering, TablePc
<1>6. NamedSlotCounts'
  BY <1>5 DEF TableInv, NamedSlotCounts
<1> QED
  BY <1>1, <1>2, <1>3, <1>4, <1>6 DEF TableInv

\* The empty table of a boot satisfies TableInv.
LEMMA TableInit == Init => TableInv
<1> SUFFICES ASSUME Init PROVE TableInv
  OBVIOUS
<1>1. \A c \in Caller : call[c].pc = "idle"
  BY IdlePc DEF Init
<1>2. MutexHeld /\ RegPending
  BY <1>1 DEF MutexHeld, InCritical, RegPending
<1>3. CallsMade
  BY <1>1 DEF CallsMade, Caller
<1>4. UniqueNames /\ NamedSlotCounts
  BY DEF Init, UniqueNames, NamedSlotCounts
<1> QED
  BY <1>2, <1>3, <1>4 DEF TableInv

\* The calls of reg_dpm_sleep and unreg_dpm_sleep.
LEMMA TableRegUnreg ==
    ASSUME TypeOK, TableInv, NEW c \in Caller,
           \/ RegTake(c) \/ RegSlot(c) \/ RegStore(c)
           \/ UnregTake(c) \/ UnregStore(c) \/ UnregName(c)
    PROVE  TableInv'
<1>p. call \in [Caller -> FrameType] /\ TablePartOK
  BY TableParts DEF TypeOK
<1>i. MutexHeld /\ CallsMade /\ RegPending /\ UniqueNames /\ NamedSlotCounts
  BY DEF TableInv
<1>d. c # Daemon /\ Daemon \in Caller
  BY <1>i DEF CallsMade, Caller, RegTake, RegSlot, RegStore, UnregTake,
              UnregStore, UnregName
<1>q. ASSUME Return(c), call[c].pc \notin TablePc,
             UNCHANGED <<mod_name, reg_dpm_req_flag, mutex>>
      PROVE  TableInv'
  <2>1. call'[c].pc = "idle" /\ \A d \in Caller : d # c => call'[d] = call[d]
    BY <1>p, <1>q, EnterFrames, IdlePc DEF Return
  <2> QED
    BY <1>d, <1>i, <1>q, <2>1, Quiet DEF TablePc, CallsMade, DaemonCallPc
<1>1. CASE RegTake(c)
  <2>1. CASE Return(c) /\ UNCHANGED mutex
    BY <1>1, <1>q, <2>1 DEF RegTake, listVars, TablePc
  <2>2. CASE /\ MutexFree /\ mutex' = {c}
             /\ Enter(c, Frame("reg", call[c].mod, 0, {}, FALSE))
    <3>1. /\ call'[c].pc = "reg" /\ call'[c].mod = call[c].mod
          /\ \A d \in Caller : d # c => call'[d] = call[d]
      BY <1>p, <2>2, EnterFrame
    <3>2. \A d \in Caller : ~InCritical(d)
      BY <1>i, <2>2 DEF MutexHeld, MutexFree
    <3>3. UNCHANGED <<mod_name, reg_dpm_req_flag>> /\ call[c].pc = "regTake"
      BY <1>1 DEF RegTake, listVars
    <3>4. MutexHeld'
      BY <2>2, <3>1, <3>2 DEF MutexHeld, InCritical
    <3>5. CallsMade'
      BY <1>i, <1>d, <3>1, <3>3 DEF CallsMade
    <3>6. RegPending' /\ UniqueNames'
      BY <1>i, <3>1, <3>3 DEF RegPending, UniqueNames, Registered, Named
    <3>7. \A i \in Slot : Unregistering(i) => Unregistering(i)'
      BY <3>1, <3>3 DEF Unregistering
    <3>8. NamedSlotCounts'
      BY <1>i, <3>3, <3>7 DEF NamedSlotCounts
    <3> QED
      BY <3>4, <3>5, <3>6, <3>8 DEF TableInv
  <2> QED
    BY <1>1, <2>1, <2>2 DEF RegTake
<1>2. CASE RegSlot(c)
  <2>0. /\ mutex = {c} /\ call[c].mod \in Module
        /\ \A d \in Caller : d # c => ~InCritical(d)
    BY <1>2, <1>i DEF RegSlot, MutexHeld, InCritical, CallsMade
  <2>1. CASE Registered(call[c].mod) \/ Named(NoName) = {}
    <3>1. /\ mutex' = {} /\ Return(c) /\ UNCHANGED <<mod_name, reg_dpm_req_flag>>
      BY <1>2, <2>0, <2>1 DEF RegSlot, listVars
    <3>2. call'[c].pc = "idle" /\ \A d \in Caller : d # c => call'[d] = call[d]
      BY <1>p, <3>1, EnterFrames, IdlePc DEF Return
    <3>3. MutexHeld'
      BY <2>0, <3>2 DEF MutexHeld, InCritical
    <3>4. CallsMade'
      BY <1>i, <1>d, <3>2 DEF CallsMade
    <3>5. RegPending' /\ UniqueNames'
      BY <1>i, <3>1, <3>2 DEF RegPending, UniqueNames, Registered, Named
    <3>6. \A i \in Slot : Unregistering(i) => Unregistering(i)'
      BY <1>2, <3>2 DEF Unregistering, RegSlot
    <3>7. NamedSlotCounts'
      BY <1>i, <3>1, <3>6 DEF NamedSlotCounts
    <3> QED
      BY <3>3, <3>4, <3>5, <3>7 DEF TableInv
  <2>2. CASE ~Registered(call[c].mod) /\ Named(NoName) # {}
    <3> DEFINE i == First(Named(NoName))
    <3>1. i \in Slot /\ mod_name[i] = NoName
      BY <2>2, FirstIn DEF Named
    <3>2. /\ reg_dpm_req_flag' = reg_dpm_req_flag \cup {i}
          /\ Enter(c, Frame("regStore", call[c].mod, i, dpm_sleep_set_flag, FALSE))
          /\ UNCHANGED <<mutex, mod_name>>
      BY <1>2, <2>2 DEF RegSlot, listVars
    <3> HIDE DEF i
    <3>3. /\ call'[c].pc = "regStore" /\ call'[c].mod = call[c].mod
          /\ call'[c].idx = i
          /\ \A d \in Caller : d # c => call'[d] = call[d]
      BY <1>p, <3>2, EnterFrame
    <3>4. MutexHeld'
      BY <2>0, <3>2, <3>3 DEF MutexHeld, InCritical
    <3>5. CallsMade'
      BY <1>i, <1>d, <2>0, <3>3 DEF CallsMade
    <3>6. RegPending'
      BY <2>0, <2>2, <3>1, <3>2, <3>3
         DEF RegPending, Registered, Named, InCritical
    <3>7. UniqueNames'
      BY <1>i, <3>2 DEF UniqueNames
    <3>8. \A j \in Slot : Unregistering(j) => Unregistering(j)'
      BY <1>2, <3>3 DEF Unregistering, RegSlot
    <3>9. NamedSlotCounts'
      BY <1>i, <3>2, <3>8 DEF NamedSlotCounts
    <3> QED
      BY <3>4, <3>5, <3>6, <3>7, <3>9 DEF TableInv
  <2> QED
    BY <2>1, <2>2
<1>3. CASE RegStore(c)
  <2> DEFINE i == call[c].idx
  <2>0. /\ mutex = {c} /\ call[c].mod \in Module /\ call[c].pc = "regStore"
        /\ \A d \in Caller : d # c => ~InCritical(d)
    BY <1>3, <1>i DEF RegStore, MutexHeld, InCritical, CallsMade
  <2>1. /\ mutex' = {} /\ Return(c) /\ UNCHANGED reg_dpm_req_flag
        /\ mod_name' = [mod_name EXCEPT ![i] = call[c].mod]
    BY <1>3, <2>0 DEF RegStore
  <2>2. i \in Slot
    BY <1>p, FrameFields
  <2>3. /\ \A j \in Slot : mod_name[j] # call[c].mod
        /\ i \in reg_dpm_req_flag
    BY <1>i, <2>0 DEF RegPending, Registered, Named
  <2>4. call'[c].pc = "idle" /\ \A d \in Caller : d # c => call'[d] = call[d]
    BY <1>p, <2>1, EnterFrames, IdlePc DEF Return
  <2>5. MutexHeld' /\ RegPending'
    BY <2>0, <2>4 DEF MutexHeld, RegPending, InCritical
  <2>6. CallsMade'
    BY <1>i, <1>d, <2>4 DEF CallsMade
  <2>7. /\ mod_name'[i] = call[c].mod
        /\ \A j \in Slot : j # i => mod_name'[j] = mod_name[j]
    BY <1>p, <2>1, <2>2 DEF TablePartOK
  <2>8. UniqueNames'
    BY <1>i, <2>2, <2>3, <2>7 DEF UniqueNames
  <2>9. \A j \in Slot : Unregistering(j) => Unregistering(j)'
    BY <2>0, <2>4 DEF Unregistering
  <2>10. NamedSlotCounts'
    BY <1>i, <2>1, <2>3, <2>7, <2>9 DEF NamedSlotCounts
  <2> QED
    BY <2>5, <2>6, <2>8, <2>10 DEF TableInv
<1>4. CASE UnregTake(c)
  <2>1. CASE Return(c) /\ UNCHANGED <<mutex, reg_dpm_req_flag>>
    BY <1>4, <1>q, <2>1 DEF UnregTake, listVars, TablePc
  <2>2. CASE /\ MutexFree /\ mutex' = {c}
             /\ reg_dpm_req_flag' = reg_dpm_req_flag \ {call[c].idx}
             /\ Enter(c, Frame("unregStore", call[c].mod, call[c].idx,
                               dpm_sleep_set_flag, FALSE))
    <3>1. /\ call'[c].pc = "unregStore" /\ call'[c].idx = call[c].idx
          /\ \A d \in Caller : d # c => call'[d] = call[d]
      BY <1>p, <2>2, EnterFrame
    <3>2. \A d \in Caller : ~InCritical(d)
      BY <1>i, <2>2 DEF MutexHeld, MutexFree
    <3>3. UNCHANGED mod_name /\ call[c].pc = "unregTake"
      BY <1>4 DEF UnregTake, listVars
    <3>4. MutexHeld' /\ RegPending'
      BY <2>2, <3>1, <3>2 DEF MutexHeld, InCritical, RegPending
    <3>5. CallsMade'
      BY <1>i, <1>d, <3>1, <3>3 DEF CallsMade
    <3>6. UniqueNames'
      BY <1>i, <3>3 DEF UniqueNames
    <3>7. /\ \A i \in Slot : Unregistering(i) => Unregistering(i)'
          /\ Unregistering(call[c].idx)'
      BY <3>1, <3>3 DEF Unregistering
    <3>8. NamedSlotCounts'
      BY <1>i, <2>2, <3>1, <3>3, <3>7 DEF NamedSlotCounts
    <3> QED
      BY <3>4, <3>5, <3>6, <3>8 DEF TableInv
  <2> QED
    BY <1>4, <2>1, <2>2 DEF UnregTake
<1>5. CASE UnregStore(c)
  <2>0. /\ mutex = {c} /\ call[c].pc = "unregStore"
        /\ \A d \in Caller : d # c => ~InCritical(d)
    BY <1>5, <1>i DEF UnregStore, MutexHeld, InCritical
  <2>1. /\ mutex' = {} /\ UNCHANGED <<mod_name, reg_dpm_req_flag>>
        /\ Enter(c, Frame("unregName", call[c].mod, call[c].idx, {}, FALSE))
    BY <1>5, <2>0 DEF UnregStore, listVars
  <2>2. /\ call'[c].pc = "unregName" /\ call'[c].idx = call[c].idx
        /\ \A d \in Caller : d # c => call'[d] = call[d]
    BY <1>p, <2>1, EnterFrame
  <2>3. MutexHeld' /\ RegPending'
    BY <2>0, <2>2 DEF MutexHeld, RegPending, InCritical
  <2>4. CallsMade'
    BY <1>i, <1>d, <2>2 DEF CallsMade
  <2>5. UniqueNames'
    BY <1>i, <2>1 DEF UniqueNames
  <2>6. \A i \in Slot : Unregistering(i) => Unregistering(i)'
    BY <2>2 DEF Unregistering
  <2>7. NamedSlotCounts'
    BY <1>i, <2>1, <2>6 DEF NamedSlotCounts
  <2> QED
    BY <2>3, <2>4, <2>5, <2>7 DEF TableInv
<1>6. CASE UnregName(c)
  <2> DEFINE i == call[c].idx
  <2>1. /\ UNCHANGED <<mutex, reg_dpm_req_flag>> /\ call[c].pc = "unregName"
        /\ Enter(c, Frame("unregBit", call[c].mod, call[c].idx, {}, FALSE))
        /\ mod_name' = [mod_name EXCEPT ![i] = NoName]
    BY <1>6 DEF UnregName
  <2>2. /\ call'[c].pc = "unregBit"
        /\ \A d \in Caller : d # c => call'[d] = call[d]
    BY <1>p, <2>1, EnterFrame
  <2>3. i \in Slot
    BY <1>p, FrameFields
  <2>4. /\ mod_name'[i] = NoName
        /\ \A j \in Slot : j # i => mod_name'[j] = mod_name[j]
    BY <1>p, <2>1, <2>3 DEF TablePartOK
  <2>5. MutexHeld'
    BY <1>i, <2>1, <2>2 DEF MutexHeld, InCritical
  <2>6. CallsMade'
    BY <1>i, <1>d, <2>2 DEF CallsMade
  <2>7. RegPending'
    <3>1. SUFFICES ASSUME NEW d \in Caller, call'[d].pc = "regStore"
                   PROVE  /\ \A j \in Slot : mod_name'[j] # call'[d].mod
                          /\ mod_name'[call'[d].idx] = NoName
                          /\ call'[d].idx \in reg_dpm_req_flag'
      BY DEF RegPending, Registered, Named
    <3>2. d # c /\ call'[d] = call[d] /\ call[d].mod \in Module
      BY <1>i, <2>2, <3>1 DEF CallsMade
    <3>3. /\ \A j \in Slot : mod_name[j] # call[d].mod
          /\ mod_name[call[d].idx] = NoName
          /\ call[d].idx \in reg_dpm_req_flag
      BY <1>i, <3>1, <3>2 DEF RegPending, Registered, Named
    <3>4. call[d].idx \in Slot
      BY <1>p, FrameFields
    <3> QED
      BY <2>1, <2>4, <3>2, <3>3, <3>4, NamesAssumption
  <2>8. UniqueNames'
    BY <1>i, <2>3, <2>4 DEF UniqueNames
  <2>9. \A j \in Slot : j # i /\ Unregistering(j) => Unregistering(j)'
    BY <2>2 DEF Unregistering
  <2>10. NamedSlotCounts'
    BY <1>i, <2>1, <2>4, <2>9 DEF NamedSlotCounts
  <2> QED
    BY <2>5, <2>6, <2>7, <2>8, <2>10 DEF TableInv
<1> QED
  BY <1>1, <1>2, <1>3, <1>4, <1>5, <1>6

\* The other steps inside a call.
LEMMA TableCall ==
    ASSUME TypeOK, TableInv, NEW c \in Caller,
           \/ UnregBit(c) \/ SetFind(c) \/ SetLoad(c) \/ SetStore(c)
           \/ ClrFind(c) \/ ClrLoad(c) \/ ClrStore(c)
           \/ AllStore(c) \/ StopKill(c) \/ DisableNv(c) \/ DisableMode(c)
    PROVE  TableInv'
<1>p. call \in [Caller -> FrameType]
  BY TableParts DEF TypeOK
<1>c. Daemon \in Caller /\ call[Daemon].pc \in DaemonCallPc
  BY DEF Caller, TableInv, CallsMade, DaemonCallPc
<1>u. UNCHANGED <<mod_name, reg_dpm_req_flag, mutex>>
  BY DEF UnregBit, SetFind, SetLoad, SetStore, ClrFind, ClrLoad, Load, ClrStore,
         AllStore, StopKill, DisableNv, DisableMode, HoldStep, tableVars, listVars
<1>q. ASSUME \A d \in Caller : d # c => call'[d] = call[d],
             call[c].pc \notin TablePc, call'[c].pc \notin TablePc \cup {"regTake"},
             c = Daemon => call'[c].pc \in DaemonCallPc
      PROVE  TableInv'
  BY <1>c, <1>u, <1>q, Quiet
<1>r. ASSUME Return(c), call[c].pc \notin TablePc
      PROVE  TableInv'
  BY <1>p, <1>q, <1>r, EnterFrames, IdlePc DEF Return, TablePc, DaemonCallPc
<1>1. CASE UnregBit(c) \/ SetStore(c) \/ ClrStore(c) \/ AllStore(c) \/ DisableMode(c)
  BY <1>1, <1>r DEF UnregBit, SetStore, ClrStore, AllStore, DisableMode, TablePc
<1>2. CASE SetFind(c)
  <2>1. CASE Return(c)
    BY <1>2, <1>r, <2>1 DEF SetFind, TablePc
  <2>2. CASE ~Return(c)
    <3>1. /\ call[c].pc = "setWait"
          /\ Enter(c, Frame("setLoad", call[c].mod, SlotOf(call[c].mod), {},
                            dpm_pdown_state # "WAIT"))
      BY <1>2, <2>2 DEF SetFind
    <3>2. /\ call'[c].pc = "setLoad"
          /\ \A d \in Caller : d # c => call'[d] = call[d]
      BY <1>p, <3>1, EnterFrame
    <3> QED
      BY <1>c, <1>q, <3>1, <3>2 DEF TablePc, DaemonCallPc
  <2> QED
    BY <2>1, <2>2
<1>3. CASE SetLoad(c) \/ ClrLoad(c)
  <2>1. /\ call[c].pc \in {"setLoad", "clrLoad"}
        /\ call'[c].pc = IF call[c].pc = "setLoad" THEN "setStore" ELSE "clrStore"
        /\ \A d \in Caller : d # c => call'[d] = call[d]
    BY <1>p, <1>3, EnterFrame DEF SetLoad, ClrLoad, Load
  <2> QED
    BY <1>c, <1>q, <2>1 DEF TablePc, DaemonCallPc
<1>4. CASE ClrFind(c)
  <2>1. CASE Return(c)
    BY <1>4, <1>r, <2>1 DEF ClrFind, TablePc
  <2>2. CASE ~Return(c)
    <3>1. /\ call[c].pc = "clrWait"
          /\ Enter(c, Frame("clrLoad", call[c].mod, ClrBit(call[c].mod), {}, FALSE))
      BY <1>4, <2>2 DEF ClrFind
    <3>2. /\ call'[c].pc = "clrLoad"
          /\ \A d \in Caller : d # c => call'[d] = call[d]
      BY <1>p, <3>1, EnterFrame
    <3> QED
      BY <1>q, <3>1, <3>2 DEF TablePc, DaemonCallPc
  <2> QED
    BY <2>1, <2>2
<1>5. CASE StopKill(c)
  <2>1. /\ call[c].pc = "stopKill"
        /\ \A d \in Caller : call'[d] = IF d = c \/ d = Daemon THEN Idle ELSE call[d]
    BY <1>p, <1>5 DEF StopKill
  <2> QED
    BY <1>c, <1>u, <2>1, IdlePc, Quiet DEF TablePc, DaemonCallPc
<1>6. CASE DisableNv(c)
  <2>1. /\ call[c].pc = "disableNv" /\ call'[c].pc = "disableMode"
        /\ \A d \in Caller : d # c => call'[d] = call[d]
    BY <1>p, <1>6, EnterFrame DEF DisableNv
  <2> QED
    BY <1>c, <1>q, <2>1 DEF TablePc, DaemonCallPc
<1> QED
  BY <1>1, <1>2, <1>3, <1>4, <1>5, <1>6

\* A task that begins a call.
LEMMA TableTask ==
    ASSUME TypeOK, TableInv, NEW t \in Task, TaskNext(t)
    PROVE  TableInv'
<1>p. call \in [Caller -> FrameType]
  BY TableParts DEF TypeOK
<1>c. Daemon \in Caller /\ call[Daemon].pc \in DaemonCallPc
  BY DEF Caller, TableInv, CallsMade, DaemonCallPc
<1>t. t \in Caller /\ t # Daemon /\ Uses[t] \subseteq Module
  BY NamesAssumption DEF Caller
<1>u. UNCHANGED <<mod_name, reg_dpm_req_flag, mutex>>
  BY DEF TaskNext, Start, UnregFind, set_dpm_rcv_ready, set_dpm_rcv_ready_by_port,
         set_dpm_init_done, WriteReady, AllLoad, StopFlags, DisableKill,
         enable_dpm_mode, HoldStep, tableVars, listVars
<1>q. ASSUME NEW pc, pc \notin TablePc, NEW m, pc = "regTake" => m \in Module,
             NEW i, NEW mask, call[t].pc = "idle",
             Enter(t, Frame(pc, m, i, mask, FALSE))
      PROVE  TableInv'
  <2>1. /\ call'[t].pc = pc /\ call'[t].mod = m
        /\ \A d \in Caller : d # t => call'[d] = call[d]
    BY <1>p, <1>t, <1>q, EnterFrame
  <2> QED
    BY <1>c, <1>t, <1>u, <1>q, <2>1, Quiet DEF TablePc
<1>1. ASSUME NEW m \in Uses[t],
             \/ Start(t, "reg", m, "regTake") \/ Start(t, "set", m, "setWait")
             \/ Start(t, "clr", m, "clrWait")
      PROVE  TableInv'
  BY <1>t, <1>1, <1>q DEF Start, TablePc
<1>2. ASSUME NEW m \in Uses[t], UnregFind(t, m)
      PROVE  TableInv'
  BY <1>2, <1>q DEF UnregFind, TablePc
<1>3. ASSUME UNCHANGED call
      PROVE  TableInv'
  BY <1>c, <1>u, <1>3, Quiet
<1>4. ASSUME NEW m \in Uses[t],
             \/ set_dpm_rcv_ready(t, m) \/ set_dpm_rcv_ready_by_port(t, m)
             \/ set_dpm_init_done(t, m)
      PROVE  TableInv'
  BY <1>3, <1>4 DEF set_dpm_rcv_ready, set_dpm_rcv_ready_by_port,
                    set_dpm_init_done, WriteReady
<1>5. CASE AllLoad(t)
  BY <1>5, <1>q DEF AllLoad, TablePc
<1>6. CASE StopFlags(t)
  BY <1>6, <1>q DEF StopFlags, TablePc
<1>7. CASE DisableKill(t)
  <2> DEFINE f == Frame("disableNv", NoName, 0, {}, FALSE)
  <2>1. f.pc = "disableNv"
    BY DEF Frame
  <2> HIDE DEF f
  <2>2. /\ call[t].pc = "idle"
        /\ call' = [call EXCEPT ![t] = f, ![Daemon] = Idle]
    BY <1>7 DEF DisableKill, f
  <2>3. \A d \in Caller : call'[d] = IF d = Daemon THEN Idle
                                     ELSE IF d = t THEN f ELSE call[d]
    BY <1>p, <1>t, <2>2
  <2> QED
    BY <1>c, <1>t, <1>u, <2>1, <2>2, <2>3, IdlePc, Quiet DEF TablePc, DaemonCallPc
<1>8. CASE enable_dpm_mode(t)
  BY <1>3, <1>8 DEF enable_dpm_mode
<1> QED
  BY <1>1, <1>2, <1>4, <1>5, <1>6, <1>7, <1>8 DEF TaskNext

\* The daemon, the timer, the hold functions, and a restart.
LEMMA TableRest ==
    ASSUME TypeOK, TableInv,
           \/ ControlNext \/ DaemonNext \/ dpm_trigger_timer_fn \/ Reboot
           \/ UNCHANGED vars
    PROVE  TableInv'
<1>p. call \in [Caller -> FrameType]
  BY TableParts DEF TypeOK
<1>c. Daemon \in Caller /\ call[Daemon].pc \in DaemonCallPc
  BY DEF Caller, TableInv, CallsMade, DaemonCallPc
<1>1. ASSUME UNCHANGED <<mod_name, reg_dpm_req_flag, mutex, call>>
      PROVE  TableInv'
  BY <1>c, <1>1, Quiet
<1>2. CASE ControlNext
  BY <1>1, <1>2 DEF ControlNext, hold_dpm_sleepd, resume_dpm_sleepd, CmdHold,
                    CmdResume, RtcProcess, HoldStep, tableVars, listVars
<1>3. CASE PowerOffDisconnected
  <2>1. /\ UNCHANGED <<mod_name, reg_dpm_req_flag, mutex>>
        /\ Enter(Daemon, Frame("clrWait", Supp, 0, {}, FALSE))
    BY <1>3 DEF PowerOffDisconnected, DaemonStep, tableVars, listVars
  <2>2. /\ call'[Daemon].pc = "clrWait"
        /\ \A d \in Caller : d # Daemon => call'[d] = call[d]
    BY <1>p, <1>c, <2>1, EnterFrame
  <2> QED
    BY <1>c, <2>1, <2>2, Quiet DEF TablePc, DaemonCallPc
<1>4. CASE DaemonNext /\ ~PowerOffDisconnected
  BY <1>1, <1>4
     DEF DaemonNext, DaemonStep, DaemonBoot, DaemonTop, DaemonExit, DaemonPoll,
         DaemonNotReady, DaemonDefer, DaemonDecide, DaemonRun, PowerOffBusy,
         PowerOffOk, PowerOffFail, DaemonClrDone, tableVars, listVars
<1>5. CASE dpm_trigger_timer_fn
  BY <1>1, <1>5 DEF dpm_trigger_timer_fn, tableVars, listVars
<1>6. CASE Reboot
  <2>1. /\ \A c \in Caller : call'[c].pc = "idle"
        /\ mod_name' = [i \in Slot |-> NoName]
    BY <1>6, IdlePc DEF Reboot
  <2>2. MutexHeld' /\ RegPending'
    BY <2>1 DEF MutexHeld, InCritical, RegPending
  <2>3. CallsMade'
    BY <1>c, <2>1 DEF CallsMade
  <2>4. UniqueNames' /\ NamedSlotCounts'
    BY <2>1 DEF UniqueNames, NamedSlotCounts
  <2> QED
    BY <2>2, <2>3, <2>4 DEF TableInv
<1>7. CASE UNCHANGED vars
  BY <1>1, <1>7 DEF vars, tableVars, listVars
<1> QED
  BY <1>2, <1>3, <1>4, <1>5, <1>6, <1>7

-----------------------------------------------------------------------------
\* The inductive invariant: every behaviour keeps the types and the table
\* consistent (all of da16x_dpm.c's API functions, daemon and timer).
LEMMA Inductive == Spec => [](TypeOK /\ TableInv)
<1>1. Init => TypeOK /\ TableInv
  BY TypeInit, TableInit
<1>2. ASSUME TypeOK, TableInv, [Next]_vars
      PROVE  TypeOK' /\ TableInv'
  <2>1. TypeOK'
    BY <1>2, TypeStep DEF TableInv
  <2>2. TableInv'
    BY <1>2, TableRegUnreg, TableCall, TableTask, TableRest DEF Next, CallNext
  <2> QED
    BY <2>1, <2>2
<1> QED
  BY <1>1, <1>2, PTL DEF Spec

\* The counters, masks and indices of the DPM manager keep their ranges.
THEOREM TypeCorrect == Spec => []TypeOK
  BY Inductive, PTL

\* No interleaving of reg_dpm_sleep and unreg_dpm_sleep registers a module
\* twice, although unreg_dpm_sleep erases names outside the mutex.
THEOREM NamesUnique == Spec => []UniqueNames
<1>1. TypeOK /\ TableInv => UniqueNames
  BY DEF TableInv
<1> QED
  BY <1>1, Inductive, PTL

\* The daemon never overlooks a named slot that nobody is erasing: its bit is
\* in reg_dpm_req_flag, so the module's consent is awaited.
THEOREM NamedCount == Spec => []NamedSlotCounts
<1>1. TypeOK /\ TableInv => NamedSlotCounts
  BY DEF TableInv
<1> QED
  BY <1>1, Inductive, PTL

=============================================================================
