-------------------------- MODULE M20System_proofs --------------------------
(***************************************************************************)
(* Theorems about the whole program: it runs the application of StrainFsm  *)
(* and the event handler of AppBle as they are specified alone, so their   *)
(* invariants hold in it, and the order of the start-up calls keeps both   *)
(* from being used before they are set up.                                 *)
(***************************************************************************)
EXTENDS M20System, StrainFsm_proofs, StartUp_proofs

BleProofs == INSTANCE AppBle_proofs

(***************************************************************************)
(* Refinement: each half of the program takes steps of its own only.       *)
(***************************************************************************)
\* Ble is the module that AppBle_proofs reasons about.
LEMMA SameBle ==
  /\ Ble!Init <=> BleProofs!Init
  /\ Ble!Handle <=> BleProofs!Handle
  /\ Ble!Next <=> BleProofs!Next
  /\ Ble!TypeOK <=> BleProofs!TypeOK
  /\ Ble!vars = ble /\ BleProofs!vars = ble
<1>1. Ble!Init <=> BleProofs!Init
  BY DEF Ble!Init, BleProofs!Init, Ble!Entries, BleProofs!Entries, Ble!Boot, BleProofs!Boot,
         Ble!Ev, BleProofs!Ev
<1>2. Ble!Handle <=> BleProofs!Handle
  BY DEF Ble!Handle, BleProofs!Handle, Ble!OnBoot, BleProofs!OnBoot, Ble!OnOpened,
         BleProofs!OnOpened, Ble!OnClosed, BleProofs!OnClosed, Ble!Pop, BleProofs!Pop,
         Ble!StartAdvertising, BleProofs!StartAdvertising, Ble!tableVars, BleProofs!tableVars,
         Ble!Entries, BleProofs!Entries
<1>3. Ble!Next <=> BleProofs!Next
  BY <1>2 DEF Ble!Next, BleProofs!Next, Ble!BeginClose, BleProofs!BeginClose, Ble!CloseOne,
         BleProofs!CloseOne, Ble!Sleep, BleProofs!Sleep, Ble!Reset, BleProofs!Reset,
         Ble!FreshApp, BleProofs!FreshApp, Ble!ClientOpens, BleProofs!ClientOpens,
         Ble!LinkLost, BleProofs!LinkLost, Ble!Awake, BleProofs!Awake, Ble!tableVars,
         BleProofs!tableVars, Ble!Entries, BleProofs!Entries, Ble!Boot, BleProofs!Boot,
         Ble!Ev, BleProofs!Ev
<1>4. Ble!TypeOK <=> BleProofs!TypeOK
  BY DEF Ble!TypeOK, BleProofs!TypeOK, Ble!Entries, BleProofs!Entries
<1>5. Ble!vars = ble /\ BleProofs!vars = ble
  BY DEF Ble!vars, BleProofs!vars, ble
<1> QED
  BY <1>1, <1>2, <1>3, <1>4, <1>5

\* A step of the program is a step of StrainFsm, or leaves its variables alone.
LEMMA StrainStep == [SysNext]_allVars => [Next]_vars
<1>1. UNCHANGED allVars => UNCHANGED vars
  BY DEF allVars
<1>2. StartUpCall => [Next]_vars
  BY DEF StartUpCall, Next, MainStep
<1>3. sl_bt_step \/ CloseOne \/ Clients => UNCHANGED vars
  BY DEF sl_bt_step, CloseOne, Clients
<1>4. app_process_action \/ SysInterrupt \/ SysReset => Next
  BY DEF app_process_action, SysInterrupt, SysReset, Next
<1> QED
  BY <1>1, <1>2, <1>3, <1>4 DEF SysNext

\* A step of the program is a step of AppBle, or leaves its variables alone.
LEMMA EventStep == [SysNext]_allVars => [Ble!Next]_ble
<1>1. UNCHANGED allVars => UNCHANGED ble
  BY DEF allVars
<1>2. StartUpCall => UNCHANGED ble
  BY DEF StartUpCall
<1>3. sl_bt_step => [Ble!Next]_ble
  BY DEF sl_bt_step, Ble!Next
<1>4. BleFollows => [Ble!Next]_ble
  BY DEF BleFollows, Ble!Next
<1>5. app_process_action \/ SysInterrupt => BleFollows
  BY DEF app_process_action, SysInterrupt
<1>6. CloseOne \/ SysReset \/ Clients => Ble!Next
  BY DEF CloseOne, SysReset, Clients, Ble!Next
<1> QED
  BY <1>1, <1>2, <1>3, <1>4, <1>5, <1>6 DEF SysNext

\* The program implements StrainFsm: whatever holds of the application alone, whichever way
\* the interrupts fall, holds of it in the super-loop too.
THEOREM RunsStrainFsm == SysSpec => Spec
<1>1. SysInit => Init
  BY DEF SysInit
<1> QED
  BY <1>1, StrainStep, PTL DEF SysSpec, Spec

\* The program implements AppBle: the event handler meets the stack as it is specified alone.
THEOREM RunsAppBle == SysSpec => Ble!Spec
<1>1. SysInit => Ble!Init
  BY DEF SysInit
<1>2. [SysNext]_allVars => [Ble!Next]_(Ble!vars)
  BY EventStep DEF Ble!vars, ble
<1> QED
  BY <1>1, <1>2, PTL DEF SysSpec, Ble!Spec

-----------------------------------------------------------------------------
(***************************************************************************)
(* The inductive invariant: IndInv of StrainFsm, BleInv of AppBle, and     *)
(* what relates them to each other and to the main thread.                 *)
(***************************************************************************)
\* Where the start-up calls leave the program point of StrainFsm.
PointAt ==
  /\ at <= 43 => pc = "app_init"
  /\ at \in 44 .. 48 => pc = "register_mode"
  /\ at = 49 => pc = "point_mode"
  /\ at = 50 => pc = "register_ready"
  /\ at = 51 => pc = "point_ready"
  /\ at = 52 => pc = "loop"
  /\ at = 53 => pc \notin InitPoints

\* Up to the super-loop neither half has done anything.
BeforeLoop ==
  at < 53 =>
    turn = "stack" /\ turns = 0 /\ ~booted /\ bridge = FALSE /\ current_state = "SLEEPING"

\* The two halves agree on whether the device runs and whether it closes connections.
Agree ==
  /\ app = "asleep" <=> power # "on"
  /\ pc = "close_connections" /\ power = "on" => app = "closing"

\* The turns the stack has had at least when the FSM is in state s of its first round with n
\* samples retrieved.
TurnsBefore(s, n) ==
  CASE s = "SLEEPING" -> 0
    [] s = "WAKING_UP" -> 1
    [] s = "ASKING_FOR_DATA" -> 2 + 2 * n
    [] s = "RETRIEVING_DATA" -> 3 + 2 * n
FirstStates == {"SLEEPING", "WAKING_UP", "ASKING_FOR_DATA", "RETRIEVING_DATA"}
FirstPoints == { "loop", "scan", "wake_up", "begin", "begin_wait", "ask_for_next_data",
                 "start_conv", "retrieve_data", "read_data_samples" }

\* Up to the boot event the FSM is in its first round, before the send: each of its states
\* has cost the stack a turn, and so has the pass of fsm_fire that is about to scan.  Of all
\* that is said here, this alone needs a stack that boots soon enough.
FirstRound ==
  ~booted =>
    /\ turns < BootTurns
    /\ power = "on" /\ at = 53 =>
         /\ pc \in FirstPoints /\ current_state \in FirstStates
         /\ turns >= TurnsBefore(current_state, flags.num_data_retrieved)
         /\ pc = "scan" \/ (pc = "loop" /\ turn = "fsm") =>
              turns >= TurnsBefore(current_state, flags.num_data_retrieved) + 1

\* How the two halves and the main thread go together.
Together ==
  /\ at \in 1 .. 53 /\ turn \in {"stack", "fsm"} /\ turns \in 0 .. BootTurns
  /\ PointAt /\ BeforeLoop /\ Agree
SysInv == IndInv /\ BleProofs!BleInv /\ Together

\* As long as the program runs, the boot event waits in the queue until it is handled.
LEMMA NotBooted ==
  ASSUME BleProofs!BleInv, ~booted, app = "run"
  PROVE  events # <<>>
<1>1. BleProofs!Booting
  BY DEF BleProofs!BleInv, BleProofs!Token, BleProofs!Advertising, BleProofs!Linked,
         BleProofs!Gone, BleProofs!Lost, BleProofs!Asleep
<1> QED
  BY <1>1, BleProofs!ShortQueues DEF BleProofs!Booting

\* Whatever event is handled, the boot event has been handled then.
LEMMA HandledIsBooted ==
  ASSUME BleProofs!BleInv, Ble!Handle
  PROVE  booted'
<1>1. BleProofs!OnBoot => booted'
  BY DEF BleProofs!OnBoot
<1>2. ASSUME BleProofs!OnOpened PROVE booted'
  <2>1. booted
    BY <1>2, BleProofs!OpenedPopped, BleAssumption
       DEF BleProofs!OnOpened, BleProofs!BleInv, BleProofs!Linked, BleProofs!Gone
  <2> QED
    BY <1>2, <2>1 DEF BleProofs!OnOpened
<1>3. ASSUME BleProofs!OnClosed PROVE booted'
  <2>1. booted
    BY <1>3, BleProofs!ClosedPopped, BleAssumption DEF BleProofs!OnClosed, BleProofs!BleInv
  <2> QED
    BY <1>3, <2>1 DEF BleProofs!OnClosed
<1> QED
  BY <1>1, <1>2, <1>3, SameBle DEF BleProofs!Handle

\* The halves keep their own invariants.
LEMMA HalvesStep ==
  ASSUME IndInv, BleProofs!BleInv, [SysNext]_allVars
  PROVE  IndInv' /\ BleProofs!BleInv'
<1>1. IndInv'
  BY StrainStep, IndInvStep
<1>2. [BleProofs!Next]_(BleProofs!vars)
  BY EventStep, SameBle DEF ble, BleProofs!vars
<1>3. BleProofs!BleInv'
  BY <1>2, BleProofs!BleStep, BleAssumption
<1> QED
  BY <1>1, <1>3

\* The numbers of TurnsBefore.
LEMMA TurnsBeforeValues ==
  ASSUME NEW n
  PROVE  /\ TurnsBefore("SLEEPING", n) = 0 /\ TurnsBefore("WAKING_UP", n) = 1
         /\ TurnsBefore("ASKING_FOR_DATA", n) = 2 + 2 * n
         /\ TurnsBefore("RETRIEVING_DATA", n) = 3 + 2 * n
  BY DEF TurnsBefore

\* The counter of samples is a number.
LEMMA Counter ==
  ASSUME IndInv
  PROVE  /\ flags \in Flags /\ flags.num_data_retrieved \in Nat
         /\ flags.num_data_retrieved <= NumSensors
  BY NumSensorsAssumption DEF IndInv, TypeOK, RamType, Flags

\* A pass of fsm_fire in the first round ends in a miss or in the next state of the round:
\* for the send the stack would have had too many turns.
LEMMA FirstScan ==
  ASSUME BootTurns <= 2 * NumSensors + 3, IndInv, ScanRow, current_state \in FirstStates, turns \in Nat, turns < BootTurns,
         turns >= TurnsBefore(current_state, flags.num_data_retrieved) + 1
  PROVE  /\ pc' \in FirstPoints /\ current_state' \in FirstStates
         /\ turns >= TurnsBefore(current_state', flags'.num_data_retrieved)
         /\ pc' = "scan" =>
              turns >= TurnsBefore(current_state', flags'.num_data_retrieved) + 1
<1> DEFINE n == flags.num_data_retrieved
           G == /\ pc' \in FirstPoints /\ current_state' \in FirstStates
                /\ turns >= TurnsBefore(current_state', flags'.num_data_retrieved)
                /\ pc' = "scan" =>
                     turns >= TurnsBefore(current_state', flags'.num_data_retrieved) + 1
<1>0. /\ flags \in Flags /\ n \in Nat /\ n <= NumSensors /\ NumSensors \in Nat
      /\ BootTurns \in Nat /\ BootTurns <= 2 * NumSensors + 3
  BY Counter, NumSensorsAssumption, BootAssumption
<1>1. ScanStep
  BY ScanRowCases DEF IndInv, Control, FlagsAt, ScanRow, At
<1>2. ASSUME Miss PROVE G
  <2>1. /\ pc' \in {"scan", "loop"} /\ current_state' = current_state /\ flags' = flags
    BY <1>2 DEF Miss
  <2>2. TurnsBefore(current_state, n) \in Nat
    BY <1>0, TurnsBeforeValues DEF FirstStates
  <2> QED
    BY <2>1, <2>2 DEF FirstPoints
<1>3. ASSUME UNCHANGED flags,
             \/ Fires(1, "SLEEPING", check_wakeup_timer(flags), "WAKING_UP", "wake_up")
             \/ Fires(2, "SLEEPING", check_change_mode(flags), "WAKING_UP", "wake_up")
      PROVE  G
  BY <1>0, <1>3, TurnsBeforeValues DEF Fires, FirstPoints, FirstStates
<1>4. ASSUME UNCHANGED flags, Fires(3, "WAKING_UP", check_wakeup_completed(flags),
                                    "ASKING_FOR_DATA", "ask_for_next_data")
      PROVE  G
  <2>1. n = 0
    BY <1>4 DEF IndInv, Control, CounterAt, Fires
  <2> QED
    BY <1>0, <1>4, <2>1, TurnsBeforeValues DEF Fires, FirstPoints, FirstStates
<1>5. ASSUME UNCHANGED flags, Fires(5, "ASKING_FOR_DATA", check_data_ready(flags),
                                    "RETRIEVING_DATA", "retrieve_data")
      PROVE  G
  BY <1>0, <1>5, TurnsBeforeValues DEF Fires, FirstPoints, FirstStates
<1>6. ASSUME flags' = AfterDataRetrieved(flags),
             Fires(6, "RETRIEVING_DATA", TRUE, "ASKING_FOR_DATA", "ask_for_next_data")
      PROVE  G
  <2>1. flags'.num_data_retrieved = n + 1
    BY <1>0, <1>6 DEF AfterDataRetrieved, Flags
  <2> QED
    BY <1>0, <1>6, <2>1, TurnsBeforeValues DEF Fires, FirstPoints, FirstStates
<1>7. ~Fires(4, "ASKING_FOR_DATA", check_all_data_retrieved(flags),
             "SENDING_DATA", "power_down_interface_send_data")
  BY <1>0, TurnsBeforeValues DEF Fires, check_all_data_retrieved
<1> QED
  BY <1>1, <1>2, <1>3, <1>4, <1>5, <1>6, <1>7 DEF ScanStep, Fires, FirstStates

\* No step of the first round but fsm_fire's changes the state or the counter.
LEMMA FirstRoundStep ==
  ASSUME BootTurns <= 2 * NumSensors + 3, IndInv, MainStep, pc \in FirstPoints, current_state \in FirstStates,
         turns \in Nat, turns < BootTurns,
         turns >= TurnsBefore(current_state, flags.num_data_retrieved),
         pc \in {"scan", "loop"} =>
           turns >= TurnsBefore(current_state, flags.num_data_retrieved) + 1
  PROVE  /\ pc' \in FirstPoints /\ current_state' \in FirstStates
         /\ turns >= TurnsBefore(current_state', flags'.num_data_retrieved)
         /\ pc' = "scan" =>
              turns >= TurnsBefore(current_state', flags'.num_data_retrieved) + 1
<1>0. flags \in Flags
  BY Counter
<1>1. CASE FireFsm
  BY <1>1 DEF FireFsm, FirstPoints, At
<1>2. CASE ScanRow
  <2>1. pc = "scan"
    BY <1>2 DEF ScanRow, At
  <2> QED
    BY <1>2, <2>1, FirstScan
<1>3. CASE pc \notin {"loop", "scan"}
  <2>1. /\ pc' \in FirstPoints \ {"scan"} /\ current_state' = current_state
        /\ flags'.num_data_retrieved = flags.num_data_retrieved
    BY <1>0, <1>3 DEF FirstPoints, At, MainStep, InitHardware, RegisterCallbacks, FireFsm, ScanRow,
       WakeUp, ClassifyWake, BeginReset, BeginConfigure, WakeCompleted, AskForNextData,
       ClearForAsk, StartConv, RetrieveData, ClearForRetrieve, ReadDataSamples,
       PowerDownInterface, SendData, AskAgainAction, TryToSleepAction, ClearSleepFlags,
       StopTimer, CloseConnections, EnterEM4, Flags
  <2> QED
    BY <2>1
<1> QED
  BY <1>1, <1>2, <1>3 DEF At, MainStep, InitHardware, RegisterCallbacks, WakeUp, BeginReset,
     BeginConfigure, AskForNextData, StartConv, RetrieveData, ReadDataSamples,
     PowerDownInterface, SendData, AskAgainAction, TryToSleepAction, ClearSleepFlags,
     StopTimer, CloseConnections, EnterEM4

\* What an interrupt leaves alone.
LEMMA InterruptEffect ==
  ASSUME IndInv, Interrupt
  PROVE  /\ UNCHANGED <<pc, current_state, bridge>>
         /\ flags'.num_data_retrieved = flags.num_data_retrieved
         /\ power' = power \/ (power = "on" /\ power' = "fault")
<1>0. flags \in Flags
  BY Counter
<1>1. CASE ChangeModePress
  BY <1>0, <1>1 DEF ChangeModePress, Callback, ToggleMode, ads, Flags
<1>2. CASE ConversionDone
  BY <1>0, <1>2 DEF ConversionDone, Callback, MarkReady, Flags
<1>3. CASE UnaskedEdge
  BY <1>0, <1>3 DEF UnaskedEdge, Callback, MarkReady, Flags
<1>4. CASE BurtcCompare
  BY <1>4 DEF BurtcCompare, ads
<1>5. CASE SleeptimerExpire
  BY <1>0, <1>5 DEF SleeptimerExpire, MarkTimer, emu, ads, Flags
<1> QED
  BY <1>1, <1>2, <1>3, <1>4, <1>5 DEF Interrupt

\* How the Bluetooth side follows a step keeps the halves in agreement.
LEMMA AgreeStep ==
  ASSUME Agree, BleFollows, power' = power \/ power = "on", power' \in {"on", "em4", "fault"},
         pc' = "close_connections" => pc = "stop_timer_sleep" \/ pc = "close_connections"
  PROVE  Agree' /\ booted' = booted
<1>1. CASE power = "on" /\ power' # "on"
  BY <1>1 DEF Agree, BleFollows, Ble!Sleep
<1>2. CASE power' = power /\ pc = "stop_timer_sleep" /\ pc' = "close_connections"
  BY <1>2 DEF Agree, BleFollows, Ble!BeginClose
<1>3. CASE power' = power /\ ~(pc = "stop_timer_sleep" /\ pc' = "close_connections")
  <2>1. UNCHANGED ble
    BY <1>3 DEF BleFollows
  <2> QED
    BY <1>3, <2>1 DEF Agree, ble
<1> QED
  BY <1>1, <1>2, <1>3

\* The first state.
LEMMA TogetherInit == SysInit => Together
<1> SUFFICES ASSUME SysInit PROVE Together
  OBVIOUS
<1>1. BootTurns \in Nat
  BY BootAssumption
<1>2. /\ at = 1 /\ turn = "stack" /\ turns = 0 /\ pc = "app_init" /\ power = "on"
      /\ bridge = FALSE /\ current_state = "SLEEPING" /\ app = "run" /\ booted = FALSE
  BY DEF SysInit, Init, Ble!Init
<1> QED
  BY <1>1, <1>2 DEF Together, PointAt, BeforeLoop, Agree, InitPoints

\* A start-up call moves the program point of StrainFsm at the calls that concern it.
LEMMA StartUpCallStep == ASSUME SysInv, StartUpCall PROVE Together'
<1>1. /\ power = "on" /\ at \in 1 .. 52 /\ at' = at + 1 /\ at' \in 1 .. 53
      /\ UNCHANGED <<turn, turns, ble>>
  BY LastCall DEF SysInv, Together, StartUpCall
<1>2. /\ turn = "stack" /\ turns = 0 /\ ~booted /\ bridge = FALSE /\ current_state = "SLEEPING"
      /\ UNCHANGED <<power, bridge, current_state>>
  BY <1>1 DEF SysInv, Together, BeforeLoop, StartUpCall, InitHardware, RegisterCallbacks, emu,
         ads, vars, ram
<1>3. PointAt' /\ pc' \in InitPoints \cup {"loop"}
  <2>1. CASE at = 43
    <3>1. Calls[43] = "NVIC_EnableIRQ_BURTC"
      BY CallsByNumber
    <3>2. InitHardware
      BY <2>1, <3>1 DEF StartUpCall, Registrations
    <3> QED
      BY <1>1, <2>1, <3>2 DEF InitHardware, PointAt, InitPoints
  <2>2. CASE at \in 48 .. 51
    <3>1. Calls[at] \in Registrations
      BY <2>2, CallsByNumber DEF Registrations
    <3>2. RegisterCallbacks
      BY <3>1 DEF StartUpCall, Registrations
    <3> QED
      BY <1>1, <2>2, <3>2 DEF RegisterCallbacks, At, PointAt, SysInv, Together, InitPoints
  <2>3. CASE at \notin 48 .. 51 /\ at # 43
    <3>1. Calls[at] \notin Registrations \cup {"NVIC_EnableIRQ_BURTC"}
      BY <1>1, <2>3, CallsByNumber DEF Registrations
    <3>2. pc' = pc
      BY <3>1 DEF StartUpCall, vars, ram
    <3> QED
      BY <1>1, <2>3, <3>2 DEF PointAt, SysInv, Together, InitPoints
  <2> QED
    BY <2>1, <2>2, <2>3
<1>4. BeforeLoop' /\ Agree'
  BY <1>1, <1>2, <1>3 DEF SysInv, Together, BeforeLoop, Agree, ble, InitPoints
<1> QED
  BY <1>1, <1>2, <1>3, <1>4 DEF SysInv, Together

\* A turn of the stack may stop the program in app_assert; it moves neither half otherwise.
LEMMA StackStep == ASSUME SysInv, sl_bt_step PROVE Together'
<1>1. /\ at = 53 /\ pc = "loop" /\ power = "on" /\ turn = "stack" /\ turn' = "fsm"
      /\ turns' = (IF turns < BootTurns THEN turns + 1 ELSE turns)
      /\ UNCHANGED <<vars, at>>
  BY LastCall DEF sl_bt_step, sl_stack_process_action, At
<1>2. UNCHANGED <<pc, power, bridge, current_state, flags>>
  BY <1>1 DEF vars, ram, emu, ads
<1>3. BootTurns \in Nat /\ turns \in 0 .. BootTurns /\ turns' \in 0 .. BootTurns
  BY <1>1, BootAssumption DEF SysInv, Together
<1>4. app' = app \/ (app = "run" /\ app' = "assert")
  BY DEF sl_bt_step, sl_stack_process_action, Ble!Handle, Ble!OnBoot, Ble!OnOpened, Ble!OnClosed,
         Ble!StartAdvertising, ble
<1>5. PointAt' /\ BeforeLoop' /\ Agree'
  BY <1>1, <1>2, <1>4 DEF SysInv, Together, PointAt, BeforeLoop, Agree
<1> QED
  BY <1>1, <1>3, <1>5 DEF SysInv, Together

\* A step of the FSM.
LEMMA FsmStep == ASSUME SysInv, app_process_action PROVE Together'
<1>1. /\ at = 53 /\ UNCHANGED <<at, turns>> /\ MainStep /\ BleFollows /\ power = "on"
      /\ pc = "loop" => turn = "fsm"
      /\ turn' = (IF pc' = "loop" THEN "stack" ELSE turn)
  BY LastCall DEF app_process_action, MainStep, At, InitHardware, RegisterCallbacks, FireFsm,
     ScanRow, WakeUp, BeginReset, BeginConfigure, AskForNextData, StartConv, RetrieveData,
     ReadDataSamples, PowerDownInterface, SendData, AskAgainAction, TryToSleepAction,
     ClearSleepFlags, StopTimer, CloseConnections, EnterEM4
<1>2. pc \notin InitPoints
  BY <1>1 DEF SysInv, Together, PointAt
<1>3. /\ power' \in {"on", "em4", "fault"}
      /\ pc' = "close_connections" => pc = "stop_timer_sleep" \/ pc = "close_connections"
  <2>1. TypeOK'
    BY HalvesStep DEF SysInv, IndInv, SysNext
  <2>2. CASE ScanRow
    <3>1. ScanStep
      BY <2>2, ScanRowCases DEF SysInv, IndInv, Control, FlagsAt, ScanRow, At
    <3> QED
      BY <2>1, <3>1 DEF ScanStep, Miss, Fires, TypeOK, EmuType
  <2>3. CASE ~ScanRow
    BY <1>1, <2>1, <2>3 DEF TypeOK, EmuType, MainStep, At, InitHardware, RegisterCallbacks, FireFsm,
       WakeUp, BeginReset, BeginConfigure, AskForNextData, StartConv, RetrieveData,
       ReadDataSamples, PowerDownInterface, SendData, AskAgainAction, TryToSleepAction,
       ClearSleepFlags, StopTimer, CloseConnections, EnterEM4, ram
  <2> QED
    BY <2>2, <2>3
<1>4. Agree' /\ booted' = booted
  BY <1>1, <1>3, AgreeStep DEF SysInv, Together
<1>5. PointAt'
  <2>1. pc' \notin InitPoints
    <3>1. CASE ScanRow
      <4>1. ScanStep
        BY <3>1, ScanRowCases DEF SysInv, IndInv, Control, FlagsAt, ScanRow, At
      <4> QED
        BY <4>1 DEF ScanStep, Miss, Fires, InitPoints
    <3>2. CASE ~ScanRow
      BY <1>1, <1>2, <3>2 DEF MainStep, At, InitHardware, RegisterCallbacks, FireFsm,
         WakeUp, BeginReset, BeginConfigure, AskForNextData, StartConv, RetrieveData,
         ReadDataSamples, PowerDownInterface, SendData, AskAgainAction, TryToSleepAction,
         ClearSleepFlags, StopTimer, CloseConnections, EnterEM4, ram, InitPoints
    <3> QED
      BY <3>1, <3>2
  <2> QED
    BY <1>1, <2>1 DEF PointAt
<1>6. turns \in Nat /\ turn \in {"stack", "fsm"} /\ turn' \in {"stack", "fsm"}
  BY <1>1, BootAssumption DEF SysInv, Together
<1> QED
  BY <1>1, <1>4, <1>5, <1>6 DEF SysInv, Together, BeforeLoop

\* An interrupt, the closing loop, the clients: the main thread stays where it is.
LEMMA StandStill ==
  ASSUME SysInv, UNCHANGED <<pc, current_state, bridge, at, turn, turns>>, booted' = booted, Agree'
  PROVE  Together'
  BY DEF SysInv, Together, PointAt, BeforeLoop

\* A reset starts both halves anew.
LEMMA ResetStep == ASSUME SysInv, SysReset PROVE Together'
<1>1. BootTurns \in Nat
  BY BootAssumption
<1>2. /\ at' = 1 /\ turn' = "stack" /\ turns' = 0 /\ pc' = "app_init" /\ power' = "on"
      /\ bridge' = FALSE /\ current_state' = "SLEEPING" /\ app' = "run" /\ booted' = FALSE
  BY DEF SysReset, WakeByTimer, WakeByPin, ExternalReset, FreshRam, FreshGpio, Ble!Reset, Ble!FreshApp
<1> QED
  BY <1>1, <1>2 DEF Together, PointAt, BeforeLoop, Agree, InitPoints

\* Every step keeps the invariant.
LEMMA SysInvStep == SysInv /\ [SysNext]_allVars => SysInv'
<1> SUFFICES ASSUME SysInv, [SysNext]_allVars PROVE Together'
  BY HalvesStep DEF SysInv
<1>1. TypeOK'
  BY HalvesStep DEF SysInv, IndInv
<1>2. CASE StartUpCall
  BY <1>2, StartUpCallStep
<1>3. CASE sl_bt_step
  BY <1>3, StackStep
<1>4. CASE app_process_action
  BY <1>4, FsmStep
<1>5. CASE SysReset
  BY <1>5, ResetStep
<1>6. CASE SysInterrupt
  <2>1. Interrupt /\ BleFollows /\ UNCHANGED <<at, turn, turns>>
    BY <1>6 DEF SysInterrupt, loopVars
  <2>2. /\ UNCHANGED <<pc, current_state, bridge>>
        /\ flags'.num_data_retrieved = flags.num_data_retrieved
        /\ power' = power \/ (power = "on" /\ power' = "fault")
    BY <2>1, InterruptEffect DEF SysInv
  <2>3. power' \in {"on", "em4", "fault"}
    BY <1>1 DEF TypeOK, EmuType
  <2>4. Agree' /\ booted' = booted
    BY <2>1, <2>2, <2>3, AgreeStep DEF SysInv, Together
  <2> QED
    BY <2>1, <2>2, <2>4, StandStill
<1>7. CASE CloseOne \/ Clients \/ UNCHANGED allVars
  <2>1. UNCHANGED <<pc, power, current_state, bridge, flags, at, turn, turns, app, booted>>
    BY <1>7 DEF CloseOne, Clients, allVars, vars, ram, emu, ads, ble, loopVars, Ble!CloseOne,
       Ble!ClientOpens, Ble!LinkLost, Ble!tableVars
  <2>2. Agree'
    BY <2>1 DEF SysInv, Together, Agree
  <2> QED
    BY <2>1, <2>2, StandStill
<1> QED
  BY <1>2, <1>3, <1>4, <1>5, <1>6, <1>7 DEF SysNext

\* The invariant holds at power-up.
LEMMA SysInvInit == SysInit => SysInv
<1> SUFFICES ASSUME SysInit PROVE SysInv
  OBVIOUS
<1>1. IndInv
  BY IndInvInit DEF SysInit
<1>2. BleProofs!BleInv
  BY SameBle, BleProofs!BleInit, BleAssumption DEF SysInit
<1> QED
  BY <1>1, <1>2, TogetherInit DEF SysInv

\* And from then on.
LEMMA SysInvAlways == SysSpec => []SysInv
  BY SysInvInit, SysInvStep, PTL DEF SysSpec

-----------------------------------------------------------------------------
(***************************************************************************)
(* FirstRound, for a stack that boots within 2 * NumSensors + 3 turns.     *)
(***************************************************************************)
\* What a step that is no turn of the main thread does to the first round: nothing.
LEMMA FirstRoundStands ==
  ASSUME FirstRound, UNCHANGED <<pc, current_state, at, turn, turns>>, booted' = booted,
         flags'.num_data_retrieved = flags.num_data_retrieved, power' = "on" => power = "on"
  PROVE  FirstRound'
  BY DEF FirstRound

\* Up to the super-loop no turn has been given, and none is needed yet.
LEMMA FirstRoundStarts ==
  ASSUME turns' = 0, at' = 53 => pc' = "loop" /\ current_state' = "SLEEPING" /\ turn' = "stack"
  PROVE  FirstRound'
<1>1. BootTurns \in Nat /\ BootTurns > 0
  BY BootAssumption
<1>2. current_state' = "SLEEPING" =>
        TurnsBefore(current_state', flags'.num_data_retrieved) = 0
  BY TurnsBeforeValues
<1> QED
  BY <1>1, <1>2 DEF FirstRound, FirstStates, FirstPoints

\* A turn of the stack pays for the pass of fsm_fire after it, or brings the boot event.
LEMMA FirstRoundStack == ASSUME SysInv, FirstRound, sl_bt_step PROVE FirstRound'
<1>1. /\ at = 53 /\ pc = "loop" /\ power = "on" /\ turn = "stack" /\ turn' = "fsm" /\ app = "run"
      /\ turns' = (IF turns < BootTurns THEN turns + 1 ELSE turns)
      /\ UNCHANGED <<vars, at>>
  BY LastCall DEF sl_bt_step, sl_stack_process_action, At
<1>2. UNCHANGED <<pc, power, bridge, current_state, flags>>
  BY <1>1 DEF vars, ram, emu, ads
<1>3. BootTurns \in Nat /\ turns \in 0 .. BootTurns
  BY BootAssumption DEF SysInv, Together
<1> SUFFICES ASSUME ~booted' PROVE FirstRound'
  BY DEF FirstRound
<1>4. ~Ble!Handle
  BY HandledIsBooted DEF SysInv
<1>5. ~booted /\ (events = <<>> \/ turns' < BootTurns)
  BY <1>4 DEF sl_bt_step, ble
<1>6. turns' < BootTurns
  BY <1>1, <1>5, NotBooted DEF SysInv
<1>7. turns' = turns + 1
  BY <1>1, <1>3, <1>5 DEF FirstRound
<1>8. TurnsBefore(current_state, flags.num_data_retrieved) \in Nat
  BY <1>1, <1>5, Counter, TurnsBeforeValues DEF SysInv, FirstRound, FirstStates
<1> QED
  BY <1>1, <1>2, <1>3, <1>5, <1>6, <1>7, <1>8 DEF FirstRound

\* A turn of the FSM moves at most to the next state of the round, for which it has been paid.
LEMMA FirstRoundFsm ==
  ASSUME BootTurns <= 2 * NumSensors + 3, SysInv, FirstRound, app_process_action
  PROVE  FirstRound'
<1>1. /\ at = 53 /\ UNCHANGED <<at, turns>> /\ MainStep /\ power = "on"
      /\ pc = "loop" => turn = "fsm"
      /\ turn' = (IF pc' = "loop" THEN "stack" ELSE turn)
  BY LastCall DEF app_process_action, MainStep, At, InitHardware, RegisterCallbacks, FireFsm,
     ScanRow, WakeUp, BeginReset, BeginConfigure, AskForNextData, StartConv, RetrieveData,
     ReadDataSamples, PowerDownInterface, SendData, AskAgainAction, TryToSleepAction,
     ClearSleepFlags, StopTimer, CloseConnections, EnterEM4
<1>2. turns \in Nat
  BY BootAssumption DEF SysInv, Together
<1>3. booted' = booted
  BY DEF app_process_action, BleFollows, Ble!Sleep, Ble!BeginClose, ble
<1> SUFFICES ASSUME ~booted' PROVE FirstRound'
  BY DEF FirstRound
<1>4. /\ pc \in FirstPoints /\ current_state \in FirstStates
      /\ turns < BootTurns
      /\ turns >= TurnsBefore(current_state, flags.num_data_retrieved)
      /\ pc \in {"scan", "loop"} =>
           turns >= TurnsBefore(current_state, flags.num_data_retrieved) + 1
  BY <1>1, <1>3 DEF FirstRound
<1>5. /\ pc' \in FirstPoints /\ current_state' \in FirstStates
      /\ turns >= TurnsBefore(current_state', flags'.num_data_retrieved)
      /\ pc' = "scan" =>
           turns >= TurnsBefore(current_state', flags'.num_data_retrieved) + 1
  BY <1>1, <1>2, <1>4, FirstRoundStep DEF SysInv
<1> QED
  BY <1>1, <1>4, <1>5 DEF FirstRound

\* Every step keeps the first round, up to the boot event.
LEMMA FirstRoundKept ==
  ASSUME BootTurns <= 2 * NumSensors + 3, SysInv, FirstRound, [SysNext]_allVars
  PROVE  FirstRound'
<1>1. CASE StartUpCall
  <2>1. turns' = 0 /\ turn' = "stack" /\ UNCHANGED current_state /\ current_state = "SLEEPING"
    BY <1>1, LastCall DEF StartUpCall, InitHardware, RegisterCallbacks, vars, ram, SysInv, Together,
       BeforeLoop
  <2>2. at' = 53 => pc' = "loop"
    <3> SUFFICES ASSUME at' = 53 PROVE pc' = "loop"
      OBVIOUS
    <3>1. at = 52 /\ pc = "loop"
      BY <1>1 DEF StartUpCall, SysInv, Together, PointAt
    <3>2. Calls[at] \notin Registrations \cup {"NVIC_EnableIRQ_BURTC"}
      BY <3>1, CallsByNumber DEF Registrations
    <3> QED
      BY <1>1, <3>1, <3>2 DEF StartUpCall, Registrations, vars, ram
  <2> QED
    BY <2>1, <2>2, FirstRoundStarts
<1>2. CASE sl_bt_step
  BY <1>2, FirstRoundStack
<1>3. CASE app_process_action
  BY <1>3, FirstRoundFsm
<1>4. CASE SysReset
  <2>1. turns' = 0 /\ at' = 1
    BY <1>4 DEF SysReset
  <2> QED
    BY <2>1, FirstRoundStarts
<1>5. CASE SysInterrupt
  <2>1. Interrupt /\ UNCHANGED <<at, turn, turns>> /\ booted' = booted
    BY <1>5 DEF SysInterrupt, loopVars, BleFollows, Ble!Sleep, Ble!BeginClose, ble
  <2> QED
    BY <2>1, InterruptEffect, FirstRoundStands DEF SysInv
<1>6. CASE CloseOne \/ Clients \/ UNCHANGED allVars
  <2>1. UNCHANGED <<pc, power, current_state, flags, at, turn, turns, booted>>
    BY <1>6 DEF CloseOne, Clients, allVars, vars, ram, emu, ads, ble, loopVars, Ble!CloseOne,
       Ble!ClientOpens, Ble!LinkLost, Ble!tableVars
  <2> QED
    BY <2>1, FirstRoundStands
<1> QED
  BY <1>1, <1>2, <1>3, <1>4, <1>5, <1>6 DEF SysNext

-----------------------------------------------------------------------------
(***************************************************************************)
(* Theorems.                                                               *)
(***************************************************************************)
\* Every variable of the program has its type, and its two halves agree on where it is, for
\* any number of sensors, any table of connections and any time the stack takes to boot.
THEOREM SystemTypeCorrect == SysSpec => []SysTypeOK
<1>1. SysInv => SysTypeOK
  <2> SUFFICES ASSUME SysInv PROVE SysTypeOK
    OBVIOUS
  <2>1. BleProofs!TypeOK
    BY BleProofs!InvTypes, BleAssumption DEF SysInv
  <2>2. Ble!TypeOK
    BY <2>1, SameBle
  <2>3. at < 53 => pc \in InitPoints \cup {"loop"}
    BY DEF SysInv, Together, PointAt, InitPoints
  <2> QED
    BY <2>2, <2>3, LastCall DEF SysInv, IndInv, Together, BeforeLoop, Agree, SysTypeOK
<1> QED
  BY <1>1, SysInvAlways, PTL

\* Nothing is used before the calls it needs have been made, wherever the main thread is.
THEOREM NothingUsedTooEarly == SysSpec => []UsedAfterInit
<1>1. SysInv => UsedAfterInit
  <2> SUFFICES ASSUME SysInv PROVE UsedAfterInit
    OBVIOUS
  <2>1. at \in 1 .. 53
    BY DEF SysInv, Together
  <2>2. CASE at < 53
    BY <2>1, <2>2, LastCall, NeedsMet DEF UsedAfterInit, Here
  <2>3. CASE at = 53
    BY <2>3, LastCall, NeedsMetInLoop, CatalogSetUp DEF UsedAfterInit
  <2> QED
    BY <2>1, <2>2, <2>3
<1> QED
  BY <1>1, SysInvAlways, PTL

\* Whatever runs runs from a clock that has been started and is the one meant for it.
THEOREM ClocksAlwaysRun == SysSpec => []ClocksRun
<1>1. SysInv => ClocksRun
  <2> SUFFICES ASSUME SysInv PROVE ClocksRun
    OBVIOUS
  <2>1. at \in 1 .. 53
    BY DEF SysInv, Together
  <2>2. \A branch \in DOMAIN Clocks(at) : Clocks(at)[branch] \in Running(at)
    BY <2>1, BranchesRun
  <2>3. /\ "BURTC_Init" \in Made(at) <=> 39 < at
        /\ "sl_sleeptimer_init" \in Made(at) <=> 21 < at
        /\ "sl_iostream_eusart_init_vcom" \in Made(at) <=> 29 < at
        /\ "sl_bt_init" \in Made(at) <=> 32 < at
    BY <2>1, CallsByNumber, MadeBefore
  <2>4. /\ 39 < at => Clocks(at).EM4GRPACLK = "ULFRCO"
        /\ 9 < at => /\ Clocks(at).RTCC = "LFXO" /\ Clocks(at).EM01GRPACLK = "HFXO"
                     /\ Clocks(at).EM23GRPACLK = "LFXO"
    BY <2>1, ClocksByNumber DEF sl_device_init_clocks
  <2>5. SleeptimerUses = "RTCC" /\ init_vcom.branch = "EM01GRPACLK"
    BY DEF SleeptimerUses, SL_SLEEPTIMER_PERIPHERAL, init_vcom, SL_IOSTREAM_EUSART_VCOM_UART
  <2>6. /\ SL_DEVICE_INIT_LFXO_PRECISION <= SleepClockAccuracy
        /\ SL_DEVICE_INIT_LFRCO_PRECISION # "high"
    BY DEF SL_DEVICE_INIT_LFXO_PRECISION, SleepClockAccuracy, SL_DEVICE_INIT_LFRCO_PRECISION
  <2> QED
    BY <2>1, <2>2, <2>3, <2>4, <2>5, <2>6 DEF ClocksRun
<1> QED
  BY <1>1, SysInvAlways, PTL

\* No two drivers meet at a pin, each takes those on record, and all on record are taken.
THEOREM DriversApart == SysSpec => []PinsApart
<1>1. SysInv => PinsApart
  <2> SUFFICES ASSUME SysInv PROVE PinsApart
    OBVIOUS
  <2>1. at \in 1 .. 53
    BY DEF SysInv, Together
  <2>2. CASE at < 53
    <3>1. at \in 1 .. 52
      BY <2>1, <2>2
    <3>2. \A call \in Made(at) : Pins(Takes(call)) \cap Uses(Calls[at]) = {}
      BY <3>1, PinsApartByNumber
    <3>3. \A s \in DOMAIN Takes(Calls[at]) \cap DOMAIN pin_config :
            Takes(Calls[at])[s] = pin_config[s]
      BY <3>1, PinsAsRecorded
    <3> QED
      BY <2>2, <3>2, <3>3, LastCall DEF PinsApart
  <2>3. CASE at = 53
    BY <2>3, LastCall, AllPinsTaken DEF PinsApart
  <2> QED
    BY <2>1, <2>2, <2>3
<1> QED
  BY <1>1, SysInvAlways, PTL

\* An edge writes astray between two statements of new_app_fsm only, and in the super-loop
\* each line sets the flag the FSM waits for.
THEOREM EdgesAreServed == SysSpec => []LinesServed
<1>1. SysInv => LinesServed
  <2> SUFFICES ASSUME SysInv PROVE LinesServed
    OBVIOUS
  <2>1. at \in 1 .. 53
    BY DEF SysInv, Together
  <2>2. (Stray(1, at) <=> at = 49) /\ (Stray(2, at) <=> at = 51)
    BY <2>1, StrayByNumber
  <2>3. /\ at = 49 <=> at < 53 /\ pc = "point_mode"
        /\ at = 51 <=> at < 53 /\ pc = "point_ready"
    BY <2>1 DEF SysInv, Together, PointAt
  <2>4. \A m, n \in Lines : Stray(m, at) /\ Stray(n, at) => m = n
    BY <2>2 DEF Lines
  <2>5. at < 53 => bridge = (bridgeON.out = 1) /\ bridgeON.mode = "output"
    <3>1. bridgeON.mode = "output" /\ (bridgeON.out = 1) = FALSE
      BY DEF bridgeON
    <3>2. at < 53 => bridge = FALSE
      BY DEF SysInv, Together, BeforeLoop
    <3> QED
      BY <3>1, <3>2, Zenon
  <2>6. at = 53 => \A n \in Lines : Writes(n, at)
    BY WritesByNumber DEF Lines
  <2>7. /\ ExtInt[1].pin = changeMode.pin /\ ExtInt[2].pin = dataReady.pin
        /\ \A n \in Lines : ExtInt[n].falling /\ ~ExtInt[n].rising
    BY DEF ExtInt, Lines, RISINGCHANGEMODE, FALLINGCHANGEMODE, RISINGMEASUREREADY,
           FALLINGMEASUREREADY
  <2>8. changeMode.pin \in Uses("sl_emlib_gpio_simple_init")
        /\ dataReady.pin \in Uses("sl_emlib_gpio_simple_init")
    <3>1. Uses("sl_emlib_gpio_simple_init") = Pins(Takes(Calls[16]))
      BY CallsByNumber DEF Uses
    <3> QED
      BY <3>1, PinsByNumber DEF changeMode, dataReady
  <2>9. /\ changeMode.mode = "input_pull" /\ changeMode.out = 1 /\ dataReady.mode = "input"
        /\ EM4WU[EM4WU_EM4WUEN_NUM] = emuWakeup.pin
        /\ emuWakeup.mode = "input_pull" /\ emuWakeup.out # EM4WakeLevel
    BY DEF changeMode, dataReady, emuWakeup, EM4WU, EM4WU_EM4WUEN_NUM, EM4WakeLevel
  <2>10. \A n \in Lines : ExtInt[n].pin \in Uses("sl_emlib_gpio_simple_init")
    BY <2>7, <2>8 DEF Lines
  <2>11. at = 53 => PinRetention(at) = "disable"
    BY <2>1, CallsByNumber, MadeBefore DEF PinRetention
  <2> QED
    BY <2>1, <2>2, <2>3, <2>4, <2>5, <2>6, <2>7, <2>9, <2>10, <2>11, LastCall DEF LinesServed
<1> QED
  BY <1>1, SysInvAlways, PTL

\* The application gives the stack no command before the boot event, however many sensors
\* there are, if the stack boots before the first round can be over.
THEOREM BootComesFirst ==
  ASSUME BootTurns <= 2 * NumSensors + 3
  PROVE  SysSpec => []NoCommandBeforeBoot
<1>1. SysInit => FirstRound
  <2> SUFFICES ASSUME SysInit PROVE FirstRound
    OBVIOUS
  <2>1. turns = 0 /\ at = 1 /\ BootTurns \in Nat /\ BootTurns > 0
    BY BootAssumption DEF SysInit
  <2> QED
    BY <2>1 DEF FirstRound
<1>2. SysInv /\ FirstRound /\ [SysNext]_allVars => FirstRound'
  BY FirstRoundKept
<1>3. SysInv /\ FirstRound => NoCommandBeforeBoot
  <2> SUFFICES ASSUME SysInv, FirstRound, power = "on", pc \in {"send_data", "close_connections"}
               PROVE  booted
    BY DEF NoCommandBeforeBoot, At
  <2>1. at = 53
    BY DEF SysInv, Together, PointAt
  <2> QED
    BY <2>1 DEF FirstRound, FirstPoints
<1> QED
  BY <1>1, <1>2, <1>3, SysInvAlways, PTL DEF SysSpec
=============================================================================
