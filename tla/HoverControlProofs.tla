------------------------- MODULE HoverControlProofs -------------------------
(***************************************************************************)
(* Proofs about HoverControl: type correctness, possession of the mutex,   *)
(* no lost start, and outputs of a control step that are loaded together   *)
(* and none of which is left behind, for every range of the ESC, every     *)
(* control law and every set of commands.                                  *)
(***************************************************************************)
EXTENDS HoverControl, TLAPS

\* Who changed stop_flag last: a stop past its assignment left it set, and
\* while it is clear the semaphore is available, or about to be made so by the
\* start that cleared the flag or by the hover task that has just taken it.
StartKept ==
  /\ uart.cmd = "stop" /\ uart.at \in {"give", "sem"} => stop_flag
  /\ \/ stop_flag
     \/ controls_start_sem = 1
     \/ hover = "return"
     \/ uart.cmd = "start" /\ uart.at \in {"give", "sem"}

\* An old target is met only in the stop branch, up to ResetControls.
OldTargetKept ==
  target = "old" => hover \in {"off", "off_store", "off_load", "wait", "return", "reset"}

\* The inductive invariant.
IInv == TypeOK /\ MutexIsHeld /\ StartKept /\ OldTargetKept

-----------------------------------------------------------------------------
\* HwEsc_SetOutput brings every pulse width into the range of the ESC.
LEMMA LimitInRange ==
  ASSUME NEW pw \in Int, esc_max \in {ESC_MIN, ESC_MAX}
  PROVE  Limit(pw) \in ESC_MIN .. ESC_MAX
BY EscAssumption DEF Limit

\* The places of the writes to the servos, one by one.
LEMMA VanePlaceValues ==
  /\ VanePlace(0) = "vane0" /\ VanePlace(1) = "vane1"
  /\ VanePlace(2) = "vane2" /\ VanePlace(3) = "vane3"
  /\ VanePlaces = {"vane0", "vane1", "vane2", "vane3"}
<1>1. /\ VanePlace(0) = "vane0" /\ VanePlace(1) = "vane1"
      /\ VanePlace(2) = "vane2" /\ VanePlace(3) = "vane3"
  BY DEF VanePlace
<1>2. Vanes = {0, 1, 2, 3}
  BY DEF Vanes
<1>3. QED
  BY <1>1, <1>2 DEF VanePlaces

\* A write to a servo is followed by the next one or by last.
LEMMA AfterVaneValues ==
  ASSUME NEW i \in Vanes, NEW last
  PROVE  AfterVane(i, last) \in {"vane1", "vane2", "vane3", last}
BY VanePlaceValues DEF AfterVane, Vanes

\* Every output is on one of the three submodules.
LEMMA SubmoduleType ==
  ASSUME NEW o \in Outputs
  PROVE  Submodule(o) \in Submodules
BY DEF Submodule, Submodules, Outputs, Vanes, Esc

LEMMA InitIInv == Init => IInv
<1> SUFFICES ASSUME Init PROVE IInv
  OBVIOUS
<1>1. {pulse, buffer, motor} \subseteq ESC_MIN .. ESC_MAX
  BY EscAssumption DEF Init
<1>2. uart \in Commands /\ hover \in Places
  BY DEF Init, Commands, Places
<1>3. TypeOK
  BY <1>1, <1>2 DEF Init, TypeOK
<1>4. QED
  BY <1>3 DEF Init, IInv, MutexIsHeld, StartKept, OldTargetKept, Idle

\* A command of the ground station; none of them runs into the middle of
\* another one.
LEMMA ReceiveKeepsIInv == IInv /\ UartReceives => IInv'
<1> SUFFICES ASSUME IInv, UartReceives PROVE IInv'
  OBVIOUS
<1> USE DEF IInv, TypeOK, MutexIsHeld, StartKept, OldTargetKept, Idle, Commands, flagVars, outVars,
            escVars, vaneVars
<1>1. CASE UartCommand \/ TargetCommand
  BY <1>1 DEF UartCommand, TargetCommand, Uart
<1>2. CASE ServoCommand
  BY <1>2, VanePlaceValues DEF ServoCommand, Uart
<1>3. CASE \E pw \in EscCommands : EscCommand(pw)
  <2>1. PICK pw \in EscCommands : EscCommand(pw)
    BY <1>3
  <2>2. Limit(pw) \in ESC_MIN .. ESC_MAX
    BY LimitInRange, DemandAssumption
  <2>3. unloaded' \subseteq Outputs /\ ldok' \subseteq Submodules
    BY <2>1, SubmoduleType DEF EscCommand, Outputs
  <2>4. QED
    BY <2>1, <2>2, <2>3 DEF EscCommand
<1>4. QED
  BY <1>1, <1>2, <1>3 DEF UartReceives

\* HoverControl_Start and HoverControl_Stop.
LEMMA ContinueKeepsIInv == IInv /\ UartContinues => IInv'
<1> SUFFICES ASSUME IInv, UartContinues PROVE IInv'
  OBVIOUS
<1> USE DEF IInv, TypeOK, MutexIsHeld, StartKept, OldTargetKept, Idle, Commands, outVars, escVars, vaneVars
<1> USE VanePlaceValues
<1>1. CASE UartTakesMutex
  BY <1>1 DEF UartTakesMutex
<1>2. CASE UartSetsFlag
  <2>1. uart \in [cmd : {"start", "stop"}, at : {"take", "flag", "give", "sem"}]
    BY <1>2 DEF UartSetsFlag
  <2>2. CASE uart.cmd = "stop"
    <3>1. stop_flag' = TRUE
      BY <1>2, <2>2 DEF UartSetsFlag
    <3>2. QED
      BY <1>2, <2>1, <2>2, <3>1 DEF UartSetsFlag
  <2>3. CASE uart.cmd = "start"
    <3>1. stop_flag' = FALSE
      BY <1>2, <2>3 DEF UartSetsFlag
    <3>2. QED
      BY <1>2, <2>1, <2>3, <3>1 DEF UartSetsFlag
  <2>4. QED
    BY <2>1, <2>2, <2>3
<1>3. CASE UartGivesMutex
  BY <1>3 DEF UartGivesMutex
<1>4. CASE UartSignals
  BY <1>4 DEF UartSignals, SemaphoreAfter
<1>5. CASE \E i \in Vanes : UartSetsPosition(i)
  <2>1. PICK i \in Vanes : UartSetsPosition(i)
    BY <1>5
  <2>2. uart.at \in VanePlaces
    BY <2>1 DEF UartSetsPosition, VanePlaces
  <2>3. uart \in [cmd : {"servos"}, at : VanePlaces \cup {"load"}]
    BY <2>2
  <2>4. AfterVane(i, "load") \in VanePlaces \cup {"load"}
    BY AfterVaneValues
  <2>5. uart' \in [cmd : {"servos"}, at : VanePlaces \cup {"load"}]
    BY <2>1, <2>3, <2>4 DEF UartSetsPosition
  <2>6. unloaded' \subseteq Outputs
    BY <2>1 DEF UartSetsPosition, Outputs
  <2>7. QED
    BY <2>1, <2>3, <2>5, <2>6 DEF UartSetsPosition, flagVars
<1>6. CASE UartLoadsVanes
  <2>1. VaneModules \subseteq Submodules
    BY SubmoduleType DEF VaneModules, Outputs
  <2>2. QED
    BY <1>6, <2>1 DEF UartLoadsVanes, flagVars
<1>7. QED
  BY <1>1, <1>2, <1>3, <1>4, <1>5, <1>6 DEF UartContinues

-----------------------------------------------------------------------------
\* The three kinds of steps of HwEsc_SetOutput and Hw_UpdatePwm, wherever in
\* the hover task they stand.
LEMMA OutputKeepsIInv ==
  ASSUME IInv,
         NEW pc \in Places \ {"return", "reset"}, NEW next \in Places \ {"flag", "return", "reset"},
         pc \in {"off", "off_store", "off_load"} => next \in {"off_store", "off_load", "wait"},
         pc # "wait",
         \/ \E pw \in Demands \cup {ESC_MIN} : SetOutputLimits(pw, pc, next)
         \/ SetOutputStores(pc, next)
         \/ Hw_UpdatePwm(pc, next)
  PROVE  IInv'
<1> USE DEF IInv, TypeOK, MutexIsHeld, StartKept, OldTargetKept, At, flagVars, outVars, escVars, vaneVars
<1>1. CASE \E pw \in Demands \cup {ESC_MIN} : SetOutputLimits(pw, pc, next)
  <2>1. PICK pw \in Demands \cup {ESC_MIN} : SetOutputLimits(pw, pc, next)
    BY <1>1
  <2>2. Limit(pw) \in ESC_MIN .. ESC_MAX
    BY LimitInRange, DemandAssumption, EscAssumption
  <2>3. QED
    BY <2>1, <2>2 DEF SetOutputLimits
<1>2. CASE SetOutputStores(pc, next)
  BY <1>2 DEF SetOutputStores, Outputs
<1>3. CASE Hw_UpdatePwm(pc, next)
  BY <1>3 DEF Hw_UpdatePwm
<1>4. QED
  BY <1>1, <1>2, <1>3

\* A write to a servo.
LEMMA SetPositionKeepsIInv ==
  ASSUME IInv, NEW i \in Vanes, SetPositionInBatch(i)
  PROVE  IInv'
<1>1. hover \in VanePlaces /\ hover' \in {"vane1", "vane2", "vane3", "step"}
  BY AfterVaneValues DEF SetPositionInBatch, At, VanePlaces
<1>2. /\ hover # "flag" /\ hover # "return" /\ hover' # "flag"
      /\ hover \notin {"off", "off_store", "off_load", "wait", "return", "reset"}
  BY <1>1, VanePlaceValues
<1>3. hover' \in Places
  BY <1>1, VanePlaceValues DEF Places
<1>4. /\ unloaded' \subseteq Outputs
      /\ ldok' \subseteq Submodules
      /\ undisturbed' \in BOOLEAN
  BY DEF SetPositionInBatch, LdokInBatch, IInv, TypeOK, Outputs
<1>5. QED
  BY <1>2, <1>3, <1>4
     DEF SetPositionInBatch, IInv, TypeOK, MutexIsHeld, StartKept, OldTargetKept, flagVars, escVars

\* The hover task runs only while the uart task is outside of its critical
\* section, so neither of its two gives can disturb that section.
LEMMA HoverKeepsIInv == IInv /\ HoverStep => IInv'
<1> SUFFICES ASSUME IInv, HoverStep PROVE IInv'
  OBVIOUS
<1>1. CASE CheckTakesMutex
  BY <1>1 DEF CheckTakesMutex, IInv, TypeOK, MutexIsHeld, StartKept, OldTargetKept, At, HoverRuns, Idle,
              outVars, escVars, vaneVars, Places
<1>2. CASE CheckStopFlag
  BY <1>2 DEF CheckStopFlag, IInv, TypeOK, MutexIsHeld, StartKept, OldTargetKept, At, HoverRuns, Idle,
              outVars, escVars, vaneVars, Places
<1>3. CASE SwitchOff
  BY <1>3, OutputKeepsIInv DEF SwitchOff, Places
<1>4. CASE TakeStart
  BY <1>4 DEF TakeStart, IInv, TypeOK, MutexIsHeld, StartKept, OldTargetKept, At, outVars, escVars, vaneVars,
              Places
<1>5. CASE ReturnStart
  BY <1>5 DEF ReturnStart, IInv, TypeOK, MutexIsHeld, StartKept, OldTargetKept, At, outVars, escVars, vaneVars,
              Places
<1>6. CASE GiveMutex
  BY <1>6, VanePlaceValues
     DEF GiveMutex, MutexAfterGive, IInv, TypeOK, MutexIsHeld, StartKept, OldTargetKept, At, HoverRuns, Idle,
         outVars, escVars, vaneVars, Places
<1>7. CASE ExecuteControlStep
  <2>1. CASE \E i \in Vanes : SetPositionInBatch(i)
    BY <2>1, SetPositionKeepsIInv
  <2>2. CASE ~ \E i \in Vanes : SetPositionInBatch(i)
    BY <1>7, <2>2, OutputKeepsIInv DEF ExecuteControlStep, Places
  <2>3. QED
    BY <2>1, <2>2
<1>8. CASE ResetControls
  BY <1>8 DEF ResetControls, TargetAfterReset, IInv, TypeOK, MutexIsHeld, StartKept, OldTargetKept,
              At, outVars, escVars, vaneVars, Places
<1>9. QED
  BY <1>1, <1>2, <1>3, <1>4, <1>5, <1>6, <1>7, <1>8 DEF HoverStep

LEMMA NextKeepsIInv == IInv /\ [Next]_vars => IInv'
<1> SUFFICES ASSUME IInv, [Next]_vars PROVE IInv'
  OBVIOUS
<1>1. CASE UartReceives
  BY <1>1, ReceiveKeepsIInv
<1>2. CASE UartContinues
  BY <1>2, ContinueKeepsIInv
<1>3. CASE HoverStep
  BY <1>3, HoverKeepsIInv
<1>4. CASE Reload
  <2>1. ldok' \subseteq Submodules /\ unloaded' \subseteq Outputs
    BY <1>4 DEF Reload, IInv, TypeOK
  <2>2. motor' \in ESC_MIN .. ESC_MAX
    BY <1>4 DEF Reload, IInv, TypeOK
  <2>3. QED
    BY <1>4, <2>1, <2>2 DEF Reload, IInv, TypeOK, MutexIsHeld, StartKept, OldTargetKept, flagVars
<1>5. CASE UNCHANGED vars
  BY <1>5 DEF IInv, TypeOK, MutexIsHeld, StartKept, OldTargetKept, vars, flagVars, outVars, escVars, vaneVars
<1>6. QED
  BY <1>1, <1>2, <1>3, <1>4, <1>5 DEF Next

LEMMA AlwaysIInv == Spec => []IInv
BY InitIInv, NextKeepsIInv, PTL DEF Spec

-----------------------------------------------------------------------------
\* The outputs.  What the uart task has written of a servo command, and what
\* the hover task has written and not yet asked the PWM unit to load.
UartWrote(at) == {i \in Vanes : at = "load" \/ \E j \in Vanes : at = VanePlace(j) /\ i < j}
HoverWrote(pc) == WrittenBefore(pc) \cup {o \in {Esc} : pc = "off_load"}

\* No load is pending while an undisturbed control step writes.
NoLoadPending == undisturbed /\ WrittenBefore(hover) # {} => ldok = {}

\* Each output not in force is going to be loaded, by an LDOK bit that is set or
\* by the task that is writing it.
WillBeLoaded ==
  \A o \in unloaded :
    Submodule(o) \in ldok \/ o \in HoverWrote(hover) \/ o \in UartWrote(uart.at)

OutInv == StepIsWhole /\ NoLoadPending /\ WillBeLoaded

\* How the written outputs grow along the places of a control step.
LEMMA WrittenValues ==
  /\ \A i \in Vanes :
       WrittenBefore(AfterVane(i, "step")) = WrittenBefore(VanePlace(i)) \cup {i}
  /\ WrittenBefore("vane0") = {}
  /\ WrittenBefore("step") = Vanes /\ WrittenBefore("step_store") = Vanes
  /\ WrittenBefore("step_load") = Outputs
  /\ \A pc : pc \notin VanePlaces \cup {"step", "step_store", "step_load"} => WrittenBefore(pc) = {}
<1> USE DEF WrittenBefore, Vanes
<1>1. \A i \in Vanes :
        WrittenBefore(AfterVane(i, "step")) = WrittenBefore(VanePlace(i)) \cup {i}
  BY VanePlaceValues DEF AfterVane
<1>2. WrittenBefore("vane0") = {}
  BY VanePlaceValues
<1>3. WrittenBefore("step") = Vanes /\ WrittenBefore("step_store") = Vanes
  BY VanePlaceValues
<1>4. WrittenBefore("step_load") = Outputs
  BY VanePlaceValues DEF Outputs
<1>5. \A pc : pc \notin VanePlaces \cup {"step", "step_store", "step_load"} => WrittenBefore(pc) = {}
  BY DEF VanePlaces
<1>6. QED
  BY <1>1, <1>2, <1>3, <1>4, <1>5

\* How they grow along the places of a servo command.
LEMMA UartWroteValues ==
  /\ \A i \in Vanes : UartWrote(AfterVane(i, "load")) = UartWrote(VanePlace(i)) \cup {i}
  /\ UartWrote("load") = Vanes
  /\ \A at : at \notin VanePlaces \cup {"load"} => UartWrote(at) = {}
<1> USE DEF UartWrote, Vanes
<1>1. \A i \in Vanes : UartWrote(AfterVane(i, "load")) = UartWrote(VanePlace(i)) \cup {i}
  BY VanePlaceValues DEF AfterVane
<1>2. UartWrote("load") = Vanes
  OBVIOUS
<1>3. \A at : at \notin VanePlaces \cup {"load"} => UartWrote(at) = {}
  BY DEF VanePlaces
<1>4. QED
  BY <1>1, <1>2, <1>3

LEMMA InitOutInv == Init => OutInv
<1> SUFFICES ASSUME Init PROVE OutInv
  OBVIOUS
<1>1. WrittenBefore(hover) = {}
  BY WrittenValues, VanePlaceValues DEF Init
<1>2. \A o \in unloaded : Submodule(o) \in ldok
  BY SubmoduleType DEF Init
<1>3. QED
  BY <1>1, <1>2 DEF OutInv, StepIsWhole, NoLoadPending, WillBeLoaded

\* The steps of the uart task: the hover task stays where it is.
LEMMA UartKeepsOutInv == IInv /\ OutInv /\ (UartReceives \/ UartContinues) => OutInv'
<1> SUFFICES ASSUME IInv, OutInv, UartReceives \/ UartContinues PROVE OutInv'
  OBVIOUS
<1> USE DEF OutInv, StepIsWhole, NoLoadPending, WillBeLoaded
<1>1. CASE \/ UartCommand \/ ServoCommand \/ TargetCommand
           \/ UartTakesMutex \/ UartSetsFlag \/ UartGivesMutex \/ UartSignals
  <2>1. UNCHANGED <<vaneVars, hover>>
    BY <1>1 DEF UartCommand, ServoCommand, TargetCommand, UartTakesMutex, UartSetsFlag, UartGivesMutex,
                UartSignals, outVars
  <2>2. uart.at \in {"idle", "take", "flag", "give", "sem"}
    BY <1>1 DEF UartCommand, ServoCommand, TargetCommand, UartTakesMutex, UartSetsFlag, UartGivesMutex,
                UartSignals, Idle
  <2>3. UartWrote(uart.at) = {}
    BY <2>2, UartWroteValues, VanePlaceValues
  <2>4. QED
    BY <2>1, <2>3 DEF vaneVars
<1>2. CASE \E pw \in EscCommands : EscCommand(pw)
  BY <1>2 DEF EscCommand
<1>3. CASE \E i \in Vanes : UartSetsPosition(i)
  <2>1. PICK i \in Vanes : UartSetsPosition(i)
    BY <1>3
  <2>2. /\ unloaded' = unloaded \cup {i}
        /\ UNCHANGED <<ldok, undisturbed, hover>>
        /\ uart.at = VanePlace(i)
    BY <2>1 DEF UartSetsPosition
  <2>3. uart'.at = AfterVane(i, "load")
    BY <2>1 DEF UartSetsPosition, IInv, TypeOK, Commands, Idle
  <2>4. UartWrote(uart'.at) = UartWrote(uart.at) \cup {i}
    BY <2>2, <2>3, UartWroteValues
  <2>5. QED
    BY <2>2, <2>4
<1>4. CASE UartLoadsVanes
  <2>1. /\ ldok' = ldok \cup VaneModules
        /\ undisturbed' = FALSE
        /\ UNCHANGED <<unloaded, hover>>
        /\ uart.at = "load"
    BY <1>4 DEF UartLoadsVanes
  <2>2. \A o \in Vanes : Submodule(o) \in VaneModules
    BY DEF VaneModules
  <2>3. QED
    BY <2>1, <2>2, UartWroteValues
<1>5. QED
  BY <1>1, <1>2, <1>3, <1>4 DEF UartReceives, UartContinues

\* The hover task outside of its writes to the servos.
LEMMA OutputKeepsOutInv ==
  ASSUME IInv, OutInv,
         \/ SwitchOff
         \/ \E pw \in Demands : SetOutputLimits(pw, "step", "step_store")
         \/ SetOutputStores("step_store", "step_load")
         \/ Hw_UpdatePwm("step_load", "check")
  PROVE  OutInv'
<1> USE DEF OutInv, StepIsWhole, NoLoadPending, WillBeLoaded
<1> USE WrittenValues, VanePlaceValues
<1>1. CASE \E pw \in Demands : SetOutputLimits(pw, "step", "step_store")
  BY <1>1 DEF SetOutputLimits, At, vaneVars, HoverWrote
<1>2. CASE SetOutputStores("step_store", "step_load")
  <2>1. /\ unloaded' = unloaded \cup {Esc}
        /\ UNCHANGED <<ldok, undisturbed, uart>>
        /\ hover = "step_store" /\ hover' = "step_load"
    BY <1>2 DEF SetOutputStores, At
  <2>2. WrittenBefore(hover) # {}
    BY <2>1 DEF Vanes
  <2>3. HoverWrote(hover) = Vanes /\ HoverWrote(hover') = Outputs
    BY <2>1 DEF HoverWrote
  <2>4. QED
    BY <2>1, <2>2, <2>3 DEF Outputs
<1>3. CASE Hw_UpdatePwm("step_load", "check") \/ Hw_UpdatePwm("off_load", "wait")
  <2>1. ldok' = Submodules /\ UNCHANGED <<unloaded, undisturbed>> /\ WrittenBefore(hover') = {}
    BY <1>3 DEF Hw_UpdatePwm
  <2>2. \A o \in unloaded : Submodule(o) \in Submodules
    BY SubmoduleType DEF IInv, TypeOK
  <2>3. QED
    BY <2>1, <2>2
<1>4. CASE SetOutputLimits(ESC_MIN, "off", "off_store")
  BY <1>4 DEF SetOutputLimits, At, vaneVars, HoverWrote
<1>5. CASE SetOutputStores("off_store", "off_load")
  BY <1>5 DEF SetOutputStores, At, HoverWrote
<1>6. QED
  BY <1>1, <1>2, <1>3, <1>4, <1>5 DEF SwitchOff

\* A write to a servo adds to the outputs written before the next place.
LEMMA SetPositionKeepsOutInv ==
  ASSUME IInv, OutInv, NEW i \in Vanes, SetPositionInBatch(i)
  PROVE  OutInv'
<1>1. /\ unloaded' = unloaded \cup {i}
      /\ ldok' = ldok
      /\ undisturbed' = IF i = 0 THEN ldok = {} ELSE undisturbed
      /\ uart' = uart
      /\ hover = VanePlace(i)
      /\ hover' = AfterVane(i, "step")
  BY DEF SetPositionInBatch, LdokInBatch, At
<1>2. WrittenBefore(hover') = WrittenBefore(hover) \cup {i}
  BY <1>1, WrittenValues
<1>3. hover # "off_load"
  BY <1>1, VanePlaceValues DEF VanePlaces
<1>4. CASE i = 0
  BY <1>1, <1>2, <1>3, <1>4, WrittenValues, VanePlaceValues
     DEF OutInv, StepIsWhole, NoLoadPending, WillBeLoaded, HoverWrote
<1>5. CASE i # 0
  <2>1. WrittenBefore(hover) # {}
    BY <1>1, <1>5, VanePlaceValues DEF WrittenBefore, Vanes
  <2>2. QED
    BY <1>1, <1>2, <1>3, <1>5, <2>1
       DEF OutInv, StepIsWhole, NoLoadPending, WillBeLoaded, HoverWrote
<1>6. QED
  BY <1>4, <1>5

LEMMA HoverKeepsOutInv == IInv /\ OutInv /\ HoverStep => OutInv'
<1> SUFFICES ASSUME IInv, OutInv, HoverStep PROVE OutInv'
  OBVIOUS
<1>1. CASE CheckTakesMutex \/ CheckStopFlag \/ TakeStart \/ ReturnStart \/ ResetControls
           \/ GiveMutex
  <2>1. UNCHANGED <<vaneVars, uart>>
    BY <1>1 DEF CheckTakesMutex, CheckStopFlag, TakeStart, ReturnStart, ResetControls,
                GiveMutex, outVars
  <2>2. /\ hover \in {"check", "flag", "wait", "return", "reset", "give"}
        /\ hover' \in {"flag", "off", "give", "return", "reset", "vane0"}
    BY <1>1, VanePlaceValues
       DEF CheckTakesMutex, CheckStopFlag, TakeStart, ReturnStart, ResetControls,
                GiveMutex, At
  <2>3. WrittenBefore(hover) = {} /\ WrittenBefore(hover') = {} /\ hover # "off_load"
    BY <2>2, WrittenValues, VanePlaceValues
  <2>4. QED
    BY <2>1, <2>3 DEF OutInv, StepIsWhole, NoLoadPending, WillBeLoaded, HoverWrote, vaneVars
<1>2. CASE SwitchOff
  BY <1>2, OutputKeepsOutInv
<1>3. CASE ExecuteControlStep
  <2>1. CASE \E i \in Vanes : SetPositionInBatch(i)
    BY <2>1, SetPositionKeepsOutInv
  <2>2. CASE ~ \E i \in Vanes : SetPositionInBatch(i)
    BY <1>3, <2>2, OutputKeepsOutInv DEF ExecuteControlStep
  <2>3. QED
    BY <2>1, <2>2
<1>4. QED
  BY <1>1, <1>2, <1>3 DEF HoverStep

\* A reload finds no undisturbed control step in the middle of its writes.
LEMMA ReloadKeepsOutInv == OutInv /\ Reload => OutInv'
BY DEF OutInv, StepIsWhole, NoLoadPending, WillBeLoaded, Reload

LEMMA AlwaysOutInv == Spec => []OutInv
<1>1. IInv /\ OutInv /\ [Next]_vars => OutInv'
  <2> SUFFICES ASSUME IInv, OutInv, [Next]_vars PROVE OutInv'
    OBVIOUS
  <2>1. CASE UNCHANGED vars
    BY <2>1 DEF OutInv, StepIsWhole, NoLoadPending, WillBeLoaded, vars, outVars, vaneVars
  <2>2. CASE Next
    BY <2>2, UartKeepsOutInv, HoverKeepsOutInv, ReloadKeepsOutInv DEF Next
  <2>3. QED
    BY <2>1, <2>2
<1>2. QED
  BY <1>1, InitOutInv, AlwaysIInv, PTL DEF Spec

-----------------------------------------------------------------------------
\* Every pulse width on its way to the motor is in the range of the ESC, and
\* every other variable keeps its type.
THEOREM TypeCorrect == Spec => []TypeOK
<1>1. IInv => TypeOK
  BY DEF IInv
<1>2. QED
  BY <1>1, AlwaysIInv, PTL

\* The second give of the stop branch never takes the mutex from the uart task.
THEOREM MutexKept == Spec => []MutexIsHeld
<1>1. IInv => MutexIsHeld
  BY DEF IInv
<1>2. QED
  BY <1>1, AlwaysIInv, PTL

\* A start command is never lost, however the commands and the steps of the
\* hover task interleave.
THEOREM NoStartLost == Spec => []StartNotLost
<1>1. IInv => StartNotLost
  BY DEF IInv, StartKept, StartNotLost, Idle
<1>2. QED
  BY <1>1, AlwaysIInv, PTL

\* The outputs of a control step take effect together unless an earlier load
\* was pending or a command asks for one.
THEOREM StepLoadedWhole == Spec => []StepIsWhole
<1>1. OutInv => StepIsWhole
  BY DEF OutInv
<1>2. QED
  BY <1>1, AlwaysOutInv, PTL

\* No output stays in its buffer for want of a load.
THEOREM NothingLeftBehind == Spec => []NoOutputLeftBehind
<1>1. OutInv => NoOutputLeftBehind
  BY WrittenValues, UartWroteValues DEF OutInv, WillBeLoaded, HoverWrote, NoOutputLeftBehind
<1>2. QED
  BY <1>1, AlwaysOutInv, PTL
\* No flight to a height asked for before the last stop.
THEOREM NoOldTarget == Spec => []NoTakeoffOnOldTarget
<1>1. IInv => NoTakeoffOnOldTarget
  BY VanePlaceValues DEF IInv, OldTargetKept, NoTakeoffOnOldTarget
<1>2. QED
  BY <1>1, AlwaysIInv, PTL
=============================================================================
