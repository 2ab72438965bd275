---------------------------- MODULE HoverControl ----------------------------
(***************************************************************************)
(* Starting and stopping the flight: the hover control task                *)
(* (modules/lqr_control.c), the start, stop, esc_pwm and servo_positions   *)
(* commands as the uart listener task carries them out                     *)
(* (modules/command_control_comms.c), and the outputs they share: the      *)
(* motor and the four thrust vanes, whose buffered PWM registers the PWM   *)
(* unit loads at its next reload point once LDOK of their submodule is set *)
(* (hw/esc.c, hw/hw.c, hw/thrust_vanes.c).                                 *)
(*                                                                         *)
(* The control law is left open: a control step asks for any pulse width   *)
(* of Demands, and of the vanes' angles only matters which are in force.   *)
(* Delays and the period of the loop are left open, too: the loop and the  *)
(* reload points have the same period (5 ms), so a load that the last step *)
(* asked for may still be pending when the next step writes.               *)
(***************************************************************************)
EXTENDS Integers

CONSTANTS
  ESC_MIN,      \* 1000: the pulse width that switches the motor off
  ESC_MAX,      \* 2000
  Demands,      \* pulse widths the control law may ask for
  EscCommands   \* pulse widths the ground station sets by hand

ASSUME EscAssumption == ESC_MIN \in Nat /\ ESC_MAX \in Nat /\ ESC_MIN < ESC_MAX
ASSUME DemandAssumption == Demands \subseteq Int /\ EscCommands \subseteq Int

VARIABLES
  stop_flag,
  stop_flag_mx,         \* who holds the mutex: "free", "hover" or "uart"
  controls_start_sem,   \* binary semaphore
  target,               \* the height in ref: "ground", or "new", or "old": set
                        \* before the hover task last saw a stop (history)
  esc_max,
  hover,                \* where the hover task is
  pulse,                \* HwEsc_SetOutput's argument after the limit
  uart,                 \* the command being carried out and how far, or Idle
  buffer,               \* the pulse width in the buffered PWM register
  ldok,                 \* submodules whose buffered values are to be loaded
  motor,                \* the pulse width the ESC gets
  unloaded,             \* outputs written since their submodule was loaded
  undisturbed           \* history: no load was pending when the control step
                        \* began to write, and no command has asked for one since

flagVars == <<stop_flag, stop_flag_mx, controls_start_sem, target>>
vaneVars == <<ldok, unloaded, undisturbed>>
escVars == <<esc_max, pulse, buffer, motor>>
outVars == <<escVars, vaneVars>>
vars == <<flagVars, outVars, hover, uart>>

\* The outputs: servos 0 to 3, and the ESC.
Vanes == 0 .. 3
Esc == 4
Outputs == Vanes \cup {Esc}

Submodules == 1 .. 3

\* ctl_modules of the servos, and the module the ESC is loaded with.
Submodule(o) == IF o = 0 THEN 1 ELSE IF o \in {1, 2} THEN 2 ELSE 3

\* Faulty variant: the first servo's module is forgotten.
VaneModulesButFirst == {Submodule(i) : i \in Vanes \ {0}}

\* all_ctl_modules of the vanes, the ESC's module among them.
VaneModules == {Submodule(i) : i \in Vanes}

\* The place of a write to a servo, and the one after it.
VanePlace(i) == <<"vane0", "vane1", "vane2", "vane3">>[i + 1]
AfterVane(i, last) == IF i = 3 THEN last ELSE VanePlace(i + 1)

Idle == [cmd |-> "none", at |-> "idle"]
Uart(cmd, at) == [cmd |-> cmd, at |-> at]

\* HoverControl_Init and HwEsc_Init.
Init ==
  /\ stop_flag = TRUE
  /\ stop_flag_mx = "free"
  /\ controls_start_sem = 0
  /\ target = "ground"
  /\ esc_max = ESC_MAX
  /\ hover = "check"
  /\ pulse = ESC_MIN
  /\ uart = Idle
  /\ buffer = ESC_MIN
  /\ ldok = Submodules
  /\ motor = ESC_MIN
  /\ unloaded = Outputs
  /\ undisturbed = FALSE

\* Faulty variant: no upper limit.
LimitLowOnly(pw) == IF pw < ESC_MIN THEN ESC_MIN ELSE pw

Limit(pw) ==
  IF pw > esc_max THEN esc_max ELSE IF pw < ESC_MIN THEN ESC_MIN ELSE pw

-----------------------------------------------------------------------------
\* The uart listener task, priority 5.  It preempts the hover task (priority
\* 1) anywhere and gives way to it only while it waits for a message or for
\* stop_flag_mx.

UartCommand ==
  /\ uart = Idle
  /\ \/ /\ esc_max' = ESC_MAX
        /\ uart' = Uart("start", "take")
     \/ /\ esc_max' = ESC_MIN
        /\ uart' = Uart("stop", "take")
  /\ UNCHANGED <<flagVars, pulse, buffer, motor, vaneVars, hover>>

UartTakesMutex ==
  /\ uart.at = "take"
  /\ stop_flag_mx = "free"
  /\ stop_flag_mx' = "uart"
  /\ uart' = [uart EXCEPT !.at = "flag"]
  /\ UNCHANGED <<stop_flag, controls_start_sem, target, outVars, hover>>

UartSetsFlag ==
  /\ uart.at = "flag"
  /\ stop_flag' = (uart.cmd = "stop")
  /\ uart' = [uart EXCEPT !.at = "give"]
  /\ UNCHANGED <<stop_flag_mx, controls_start_sem, target, outVars, hover>>

UartGivesMutex ==
  /\ uart.at = "give"
  /\ stop_flag_mx' = "free"
  /\ uart' = [uart EXCEPT !.at = "sem"]
  /\ UNCHANGED <<stop_flag, controls_start_sem, target, outVars, hover>>

\* Faulty variant: HoverControl_Start leaves the semaphore alone.
SemaphoreAfterUnsignalled == 0

\* Start gives the semaphore; Stop takes it without waiting.
SemaphoreAfter == IF uart.cmd = "start" THEN 1 ELSE 0

UartSignals ==
  /\ uart.at = "sem"
  /\ controls_start_sem' = SemaphoreAfter
  /\ uart' = Idle
  /\ UNCHANGED <<stop_flag, stop_flag_mx, target, outVars, hover>>

\* HwEsc_SetOutput(pw, true): never preempted by the hover task.
EscCommand(pw) ==
  /\ uart = Idle
  /\ buffer' = Limit(pw)
  /\ unloaded' = unloaded \cup {Esc}
  /\ ldok' = ldok \cup {Submodule(Esc)}
  /\ undisturbed' = FALSE
  /\ UNCHANGED <<flagVars, esc_max, pulse, motor, hover, uart>>

ServoCommand ==
  /\ uart = Idle
  /\ uart' = Uart("servos", VanePlace(0))
  /\ UNCHANGED <<flagVars, outVars, hover>>

\* Only the PWM unit can come between the writes of HwThrustVane_SetPositions.
UartSetsPosition(i) ==
  /\ uart.at = VanePlace(i)
  /\ unloaded' = unloaded \cup {i}
  /\ uart' = [uart EXCEPT !.at = AfterVane(i, "load")]
  /\ UNCHANGED <<flagVars, escVars, ldok, undisturbed, hover>>

UartLoadsVanes ==
  /\ uart.at = "load"
  /\ ldok' = ldok \cup VaneModules
  /\ undisturbed' = FALSE
  /\ uart' = Idle
  /\ UNCHANGED <<flagVars, escVars, unloaded, hover>>

\* HoverControl_SetReference: the ground, or a height to fly at.
TargetCommand ==
  /\ uart = Idle
  /\ target' \in {"ground", "new"}
  /\ UNCHANGED <<stop_flag, stop_flag_mx, controls_start_sem, outVars, hover, uart>>

UartContinues ==
  \/ UartTakesMutex
  \/ UartSetsFlag
  \/ UartGivesMutex
  \/ UartSignals
  \/ \E i \in Vanes : UartSetsPosition(i)
  \/ UartLoadsVanes

UartReceives ==
  \/ UartCommand
  \/ ServoCommand
  \/ TargetCommand
  \/ \E pw \in EscCommands : EscCommand(pw)

-----------------------------------------------------------------------------
\* The hover control task, one action per step between two of which the uart
\* task may run.

\* Faulty variant: the two tasks share the processor without priorities.
HoverRunsAlways == TRUE

HoverRuns == uart = Idle \/ (uart.at = "take" /\ stop_flag_mx = "hover")

At(pc) == HoverRuns /\ hover = pc

CheckTakesMutex ==
  /\ At("check")
  /\ stop_flag_mx = "free"
  /\ stop_flag_mx' = "hover"
  /\ hover' = "flag"
  /\ UNCHANGED <<stop_flag, controls_start_sem, target, outVars, uart>>

\* With stop_flag set the mutex is given here, otherwise in GiveMutex.
CheckStopFlag ==
  /\ At("flag")
  /\ \/ /\ stop_flag
        /\ stop_flag_mx' = "free"
        /\ target' = IF target = "ground" THEN "ground" ELSE "old"
        /\ hover' = "off"
     \/ /\ ~stop_flag
        /\ hover' = "give"
        /\ UNCHANGED <<stop_flag_mx, target>>
  /\ UNCHANGED <<stop_flag, controls_start_sem, outVars, uart>>

\* HwEsc_SetOutput reads esc_max, and stores the result later.
SetOutputLimits(pw, pc, next) ==
  /\ At(pc)
  /\ pulse' = Limit(pw)
  /\ hover' = next
  /\ UNCHANGED <<flagVars, esc_max, buffer, motor, vaneVars, uart>>

SetOutputStores(pc, next) ==
  /\ At(pc)
  /\ buffer' = pulse
  /\ unloaded' = unloaded \cup {Esc}
  /\ hover' = next
  /\ UNCHANGED <<flagVars, esc_max, pulse, motor, ldok, undisturbed, uart>>

Hw_UpdatePwm(pc, next) ==
  /\ At(pc)
  /\ ldok' = Submodules
  /\ hover' = next
  /\ UNCHANGED <<flagVars, escVars, unloaded, undisturbed, uart>>

\* Faulty variant: the output of the stop branch is never loaded.
SwitchOffUnloaded ==
  \/ SetOutputLimits(ESC_MIN, "off", "off_store")
  \/ SetOutputStores("off_store", "wait")

SwitchOff ==
  \/ SetOutputLimits(ESC_MIN, "off", "off_store")
  \/ SetOutputStores("off_store", "off_load")
  \/ Hw_UpdatePwm("off_load", "wait")

TakeStart ==
  /\ At("wait")
  /\ controls_start_sem = 1
  /\ controls_start_sem' = 0
  /\ hover' = "return"
  /\ UNCHANGED <<stop_flag, stop_flag_mx, target, outVars, uart>>

ReturnStart ==
  /\ At("return")
  /\ controls_start_sem' = 1
  /\ hover' = "reset"
  /\ UNCHANGED <<stop_flag, stop_flag_mx, target, outVars, uart>>

\* Faulty variant: the target of the last flight stays.
TargetAfterResetKept == target

\* memset of ref, also of a target set since the stop.
TargetAfterReset == "ground"

ResetControls ==
  /\ At("reset")
  /\ target' = TargetAfterReset
  /\ hover' = "give"
  /\ UNCHANGED <<stop_flag, stop_flag_mx, controls_start_sem, outVars, uart>>

\* Faulty variant: the mutex is given only in the stop branch.
MutexAfterGiveHeld == stop_flag_mx

\* xSemaphoreGive frees a mutex whoever holds it.
MutexAfterGive == "free"

\* After the stop branch the mutex is given a second time.
GiveMutex ==
  /\ At("give")
  /\ stop_flag_mx' = MutexAfterGive
  /\ hover' = VanePlace(0)
  /\ UNCHANGED <<stop_flag, controls_start_sem, target, outVars, uart>>

\* Faulty variant: each write of the batch asks for its own load.
LdokInBatchEach(i) == ldok \cup {Submodule(i)}

\* HwThrustVane_SetPositionsControlBatch leaves LDOK to Hw_UpdatePwm.
LdokInBatch(i) == ldok

SetPositionInBatch(i) ==
  /\ At(VanePlace(i))
  /\ unloaded' = unloaded \cup {i}
  /\ ldok' = LdokInBatch(i)
  /\ undisturbed' = IF i = 0 THEN ldok = {} ELSE undisturbed
  /\ hover' = AfterVane(i, "step")
  /\ UNCHANGED <<flagVars, escVars, uart>>

ExecuteControlStep ==
  \/ \E i \in Vanes : SetPositionInBatch(i)
  \/ \E pw \in Demands : SetOutputLimits(pw, "step", "step_store")
  \/ SetOutputStores("step_store", "step_load")
  \/ Hw_UpdatePwm("step_load", "check")

HoverStep ==
  \/ CheckTakesMutex
  \/ CheckStopFlag
  \/ SwitchOff
  \/ TakeStart
  \/ ReturnStart
  \/ ResetControls
  \/ GiveMutex
  \/ ExecuteControlStep

-----------------------------------------------------------------------------
\* The submodules run in step.  At the next reload point the PWM unit loads
\* the buffered values of those whose LDOK is set, and clears it.
Reload ==
  /\ ldok # {}
  /\ motor' = IF Submodule(Esc) \in ldok THEN buffer ELSE motor
  /\ unloaded' = {o \in unloaded : Submodule(o) \notin ldok}
  /\ ldok' = {}
  /\ UNCHANGED <<flagVars, esc_max, pulse, buffer, undisturbed, hover, uart>>

Next == UartReceives \/ UartContinues \/ HoverStep \/ Reload

Spec == Init /\ [][Next]_vars

\* The uart task finishes a command it began and the PWM unit reaches its next
\* reload point.  The hover task gets the processor again and again because
\* the uart task, and every other task, blocks on its input in between:
\* it may be interrupted any number of times, hence strong fairness.  Nothing
\* makes the ground station send a command.
Fairness == WF_vars(UartContinues) /\ WF_vars(Reload) /\ SF_vars(HoverStep)

FairSpec == Spec /\ Fairness

-----------------------------------------------------------------------------
VanePlaces == {VanePlace(i) : i \in Vanes}
Places == { "check", "flag", "off", "off_store", "off_load", "wait", "return",
            "reset", "give", "step", "step_store", "step_load" } \cup VanePlaces

Commands ==
  {Idle} \cup [cmd : {"start", "stop"}, at : {"take", "flag", "give", "sem"}]
         \cup [cmd : {"servos"}, at : VanePlaces \cup {"load"}]

\* Type invariant; the pulse widths on their way to the motor never leave
\* the range the ESC accepts, whatever the control law or the ground asks for.
TypeOK ==
  /\ stop_flag \in BOOLEAN
  /\ stop_flag_mx \in {"free", "hover", "uart"}
  /\ controls_start_sem \in {0, 1}
  /\ target \in {"ground", "new", "old"}
  /\ esc_max \in {ESC_MIN, ESC_MAX}
  /\ hover \in Places
  /\ uart \in Commands
  /\ {pulse, buffer, motor} \subseteq ESC_MIN .. ESC_MAX
  /\ ldok \subseteq Submodules
  /\ unloaded \subseteq Outputs
  /\ undisturbed \in BOOLEAN

\* The hover task gives stop_flag_mx twice on its way out of the stop branch
\* (modules/lqr_control.c:140 and :161); the second give never takes the mutex
\* away from the uart task: who is in its critical section holds the mutex.
MutexIsHeld ==
  /\ uart.at \in {"flag", "give"} => stop_flag_mx = "uart"
  /\ hover = "flag" => stop_flag_mx = "hover"

\* A start is never lost: when no command is being carried out and the last
\* one was start, the hover task does not wait for a semaphore nobody gives,
\* wherever in its stop branch the commands found it.
StartNotLost == uart = Idle /\ ~stop_flag /\ hover = "wait" => controls_start_sem = 1

\* A flight never goes to a height that was asked for before the stop that ended
\* the last flight: a control step has no target but one set since then,
\* wherever the commands target_position, stop and start found the hover task.
NoTakeoffOnOldTarget ==
  target = "old" => hover \notin VanePlaces \cup {"step", "step_store", "step_load"}

\* What the control step has written before the hover task gets to a place.
WrittenBefore(pc) ==
  {i \in Vanes : \/ pc \in {"step", "step_store", "step_load"}
                 \/ \E j \in Vanes : pc = VanePlace(j) /\ i < j}
  \cup {o \in {Esc} : pc = "step_load"}

\* The outputs of a control step take effect together ("a synchronization
\* mechanism for updating multiple PWM outputs simultaneously", hw/hw.h): as
\* long as no earlier load was pending and no command asks for one, none of
\* its writes is loaded before Hw_UpdatePwm.
StepIsWhole == undisturbed => WrittenBefore(hover) \subseteq unloaded

\* No output is left in its buffer: outside of the writes of the stop branch,
\* of a control step and of a servo command, each one that is not in force has
\* the LDOK bit of its submodule set, whoever wrote it and whichever of the
\* overlapping loads took the others along.
NoOutputLeftBehind ==
  hover \notin {"off_load"} \cup VanePlaces \cup {"step", "step_store", "step_load"}
  /\ uart.at \notin VanePlaces \cup {"load"}
  => {Submodule(o) : o \in unloaded} \subseteq ldok

-----------------------------------------------------------------------------
\* The last command was stop.
Stopped == esc_max = ESC_MIN

\* The hover task is past its wait for a start.
InLoop == hover \notin {"off", "off_store", "off_load", "wait"}

\* After a start that no stop follows, control steps go on for ever.
StartedRuns == <>[](~stop_flag) => []<>(hover = "step_load")

\* A stop that finds the control loop running switches the motor off, and it
\* stays off until the next start, although a control step may just then
\* have limited its output with the old maximum.
StopEndsFlight == Stopped /\ InLoop ~> ([](motor = ESC_MIN) \/ ~Stopped)

\* "so that we wait again for start flag" (modules/lqr_control.c:105): after a
\* stop that no other command follows, the hover task waits.
StopWaitsAgain == <>[](Stopped /\ uart = Idle) => <>[](hover = "wait")
=============================================================================
