-------------------------- MODULE StrainFsm_proofs --------------------------
(***************************************************************************)
(* Proofs about StrainFsm, for every number of sensors and, where no       *)
(* hypothesis says otherwise, every outcome of SPI, sends and stray        *)
(* accesses.                                                               *)
(***************************************************************************)
EXTENDS StrainInv, TLAPS

(***************************************************************************)
(* What one step of fsm_fire's scan can do.                                *)
(***************************************************************************)
\* The scan goes on to the next row, or ends at the sentinel.
Miss ==
  /\ \/ row # NumRows /\ pc' = "scan" /\ row' = row + 1
     \/ row = NumRows /\ pc' = "loop" /\ row' = 0
  /\ ~(row = 1 /\ current_state = "SLEEPING" /\ flags.wakeup_timer_flag)
  /\ UNCHANGED <<current_state, flags>>

\* Row k fires: state s is left through guard g for d, and f runs next.
Fires(k, s, g, d, f) ==
  /\ row = k /\ current_state = s /\ g
  /\ current_state' = d /\ pc' = f /\ row' = 0

\* Every row but the sixth leaves the flags alone.
ScanStep ==
  \/ Miss
  \/ /\ UNCHANGED flags
     /\ \/ Fires(1, "SLEEPING", check_wakeup_timer(flags), "WAKING_UP", "wake_up")
        \/ Fires(2, "SLEEPING", check_change_mode(flags), "WAKING_UP", "wake_up")
        \/ Fires(3, "WAKING_UP", check_wakeup_completed(flags),
                 "ASKING_FOR_DATA", "ask_for_next_data")
        \/ Fires(4, "ASKING_FOR_DATA", check_all_data_retrieved(flags),
                 "SENDING_DATA", "power_down_interface_send_data")
        \/ Fires(5, "ASKING_FOR_DATA", check_data_ready(flags),
                 "RETRIEVING_DATA", "retrieve_data")
        \/ Fires(7, "SENDING_DATA", check_data_sent_continuous(flags),
                 "WAKING_UP", "ask_again")
        \/ Fires(8, "SENDING_DATA", check_data_sent_not_continuous(flags),
                 "TO_SLEEP", "try_to_sleep")
        \/ Fires(9, "TO_SLEEP", check_sleep_not_possible(flags),
                 "TO_SLEEP", "try_to_sleep")
        \/ Fires(10, "TO_SLEEP", check_sleep_possible(flags),
                 "SLEEPING", "reset_timer_sleep")
        \/ Fires(11, "TO_SLEEP", check_continuous_mode(flags),
                 "SLEEPING", "reset_no_timer")
  \/ /\ flags' = AfterDataRetrieved(flags)
     /\ Fires(6, "RETRIEVING_DATA", TRUE, "ASKING_FOR_DATA", "ask_for_next_data")

\* The table of m20_strain_ble.c has no other step.
LEMMA ScanRowCases ==
  ASSUME row \in 1 .. NumRows, ScanRow
  PROVE  ScanStep
<1> DEFINE t == app_fsm_tt(flags)[row]
<1>1. \/ row = NumRows /\ pc' = "loop" /\ row' = 0 /\ UNCHANGED current_state
      \/ /\ row # NumRows /\ t.orig = current_state /\ t.in
         /\ pc' = t.out /\ row' = 0 /\ current_state' = t.dest
      \/ /\ row # NumRows /\ ~(t.orig = current_state /\ t.in)
         /\ pc' = "scan" /\ row' = row + 1 /\ UNCHANGED current_state
  BY DEF ScanRow, At
<1>2. flags' = GuardEffect(row, current_state, flags)
  BY DEF ScanRow
<1>3. CASE row = 1
  BY <1>1, <1>2, <1>3 DEF ScanStep, Miss, Fires, GuardEffect, app_fsm_tt, Row, NumRows, check_wakeup_timer
<1>4. CASE row = 2
  BY <1>1, <1>2, <1>4 DEF ScanStep, Miss, Fires, GuardEffect, app_fsm_tt, Row, NumRows
<1>5. CASE row = 3
  BY <1>1, <1>2, <1>5 DEF ScanStep, Miss, Fires, GuardEffect, app_fsm_tt, Row, NumRows
<1>6. CASE row = 4
  BY <1>1, <1>2, <1>6 DEF ScanStep, Miss, Fires, GuardEffect, app_fsm_tt, Row, NumRows
<1>7. CASE row = 5
  BY <1>1, <1>2, <1>7 DEF ScanStep, Miss, Fires, GuardEffect, app_fsm_tt, Row, NumRows
<1>8. CASE row = 6
  BY <1>1, <1>2, <1>8 DEF ScanStep, Miss, Fires, GuardEffect, app_fsm_tt, Row, NumRows,
       check_data_retrieved, sensorsReadCheck
<1>9. CASE row = 7
  BY <1>1, <1>2, <1>9 DEF ScanStep, Miss, Fires, GuardEffect, app_fsm_tt, Row, NumRows
<1>10. CASE row = 8
  BY <1>1, <1>2, <1>10 DEF ScanStep, Miss, Fires, GuardEffect, app_fsm_tt, Row, NumRows
<1>11. CASE row = 9
  BY <1>1, <1>2, <1>11 DEF ScanStep, Miss, Fires, GuardEffect, app_fsm_tt, Row, NumRows
<1>12. CASE row = 10
  BY <1>1, <1>2, <1>12 DEF ScanStep, Miss, Fires, GuardEffect, app_fsm_tt, Row, NumRows
<1>13. CASE row = 11
  BY <1>1, <1>2, <1>13 DEF ScanStep, Miss, Fires, GuardEffect, app_fsm_tt, Row, NumRows
<1>14. CASE row = NumRows
  BY <1>1, <1>2, <1>14 DEF ScanStep, Miss, GuardEffect, NumRows
<1> QED
  BY <1>3, <1>4, <1>5, <1>6, <1>7, <1>8, <1>9, <1>10, <1>11, <1>12, <1>13, <1>14 DEF NumRows

-----------------------------------------------------------------------------
(***************************************************************************)
(* Types and control.                                                      *)
(***************************************************************************)
USE DEF At

\* A cleared sample slot counts as filled by nothing: the blank value has the type of the history.
LEMMA BlankSample ==
  ASSUME NEW k \in Kinds
  PROVE  Blank(k) \in Sample
BY NumSensorsAssumption DEF Blank, Sample, Slots

\* Every flag update keeps the flags in their type; the increment of the sample counter
\* does so below NumSensors only.
LEMMA FlagUpdates ==
  ASSUME NEW u \in Flags
  PROVE  /\ InitialFlags \in Flags
         /\ \A em4, timer \in BOOLEAN : ClassifyWake(u, em4, timer) \in Flags
         /\ \A sc \in {"ok", "fail"} : AfterSend(u, sc) \in Flags
         /\ WakeCompleted(u) \in Flags /\ ClearForAsk(u) \in Flags
         /\ ClearForRetrieve(u) \in Flags /\ RestartCount(u) \in Flags
         /\ AskAgain(u) \in Flags /\ TryToSleep(u) \in Flags
         /\ ClearForSleep(u) \in Flags /\ ToggleMode(u) \in Flags
         /\ MarkReady(u) \in Flags /\ MarkTimer(u) \in Flags
         /\ u.num_data_retrieved < NumSensors => AfterDataRetrieved(u) \in Flags
<1> USE NumSensorsAssumption DEF Flags
<1>1. InitialFlags \in Flags
  BY DEF InitialFlags
<1>2. \A em4, timer \in BOOLEAN : ClassifyWake(u, em4, timer) \in Flags
  BY DEF ClassifyWake
<1>3. \A sc \in {"ok", "fail"} : AfterSend(u, sc) \in Flags
  BY DEF AfterSend
<1>4. WakeCompleted(u) \in Flags /\ ClearForAsk(u) \in Flags
  BY DEF WakeCompleted, ClearForAsk
<1>5. ClearForRetrieve(u) \in Flags /\ RestartCount(u) \in Flags
  <2>1. 0 \in 0 .. NumSensors
    OBVIOUS
  <2>2. ClearForRetrieve(u) \in Flags
    BY DEF ClearForRetrieve
  <2>3. RestartCount(u) \in Flags
    BY <2>1 DEF RestartCount
  <2> QED
    BY <2>2, <2>3
<1>6. AskAgain(u) \in Flags /\ TryToSleep(u) \in Flags /\ ClearForSleep(u) \in Flags
  BY DEF AskAgain, TryToSleep, ClearForSleep
<1>7. ToggleMode(u) \in Flags /\ MarkReady(u) \in Flags /\ MarkTimer(u) \in Flags
  BY DEF ToggleMode, MarkReady, MarkTimer
<1>8. u.num_data_retrieved < NumSensors => AfterDataRetrieved(u) \in Flags
  <2> SUFFICES ASSUME u.num_data_retrieved < NumSensors PROVE AfterDataRetrieved(u) \in Flags
    OBVIOUS
  <2>1. u.num_data_retrieved + 1 \in 0 .. NumSensors
    OBVIOUS
  <2> QED
    BY <2>1 DEF AfterDataRetrieved, sensorsReadCheck
<1> QED
  BY <1>1, <1>2, <1>3, <1>4, <1>5, <1>6, <1>7, <1>8

\* new_app_fsm leaves a state of the right type in which the control facts hold.
LEMMA InitControl == Init => TypeOK /\ Control
<1> SUFFICES ASSUME Init PROVE TypeOK /\ Control
  OBVIOUS
<1>1. RamType
  <2>1. flags \in Flags
    BY NumSensorsAssumption DEF Init, InitialFlags, Flags
  <2>2. sensor_data \in [Slots -> Sample]
    BY BlankSample DEF Init, Kinds
  <2>3. pc \in PCs /\ row \in 0 .. NumRows /\ current_state \in States
    BY DEF Init, PCs, InitPoints, NumRows, States
  <2>4. wakeupTimer \in BOOLEAN /\ tmr \in BOOLEAN
    BY DEF Init
  <2> QED
    BY <2>1, <2>2, <2>3, <2>4 DEF RamType
<1>2. EmuType /\ AdsType /\ HistoryType
  BY BlankSample DEF Init, EmuType, AdsType, HistoryType, Kinds
<1>3. Control
  BY DEF Init, Control, StateAt, CounterAt, FlagsAt, TimerAt, InitPoints, SleepPoints, Between, InitialFlags
<1> QED
  BY <1>1, <1>2, <1>3 DEF TypeOK

\* What a reset leaves in RAM has the type of RAM.
LEMMA FreshRamType == FreshRam => RamType'
<1> SUFFICES ASSUME FreshRam PROVE RamType'
  OBVIOUS
<1>1. flags' \in Flags
  BY NumSensorsAssumption DEF FreshRam, InitialFlags, Flags
<1>2. sensor_data' \in [Slots -> Sample]
  BY BlankSample DEF FreshRam, Kinds
<1>3. pc' \in PCs /\ row' \in 0 .. NumRows /\ current_state' \in States
  BY DEF FreshRam, PCs, InitPoints, NumRows, States
<1>4. wakeupTimer' \in BOOLEAN /\ tmr' \in BOOLEAN
  BY DEF FreshRam
<1> QED
  BY <1>1, <1>2, <1>3, <1>4 DEF RamType

\* No operation, interrupt or reset leaves the types; the sample counter needs Control.
LEMMA TypeStep == TypeOK /\ Control /\ [Next]_vars => TypeOK'
<1> SUFFICES ASSUME TypeOK, Control, [Next]_vars PROVE TypeOK'
  OBVIOUS
<1> USE FlagUpdates, BlankSample
    DEF TypeOK, RamType, PCs, InitPoints, OutFunctions, CutPoints, States
<1>1. CASE InitHardware
  <2>1. RamType'
    BY <1>1 DEF InitHardware, EmuType
  <2>2. EmuType' /\ AdsType' /\ HistoryType'
    BY <1>1 DEF InitHardware, EmuType, AdsType, HistoryType, emu, ads, history
  <2> QED
    BY <2>1, <2>2
<1>2. CASE RegisterCallbacks
  <2>1. RamType'
    BY <1>2 DEF RegisterCallbacks
  <2>2. EmuType' /\ AdsType' /\ HistoryType'
    BY <1>2 DEF RegisterCallbacks, EmuType, AdsType, HistoryType, emu, ads, history
  <2> QED
    BY <2>1, <2>2
<1>3. CASE FireFsm
  <2>1. RamType'
    BY <1>3 DEF FireFsm, NumRows
  <2>2. EmuType' /\ AdsType' /\ HistoryType'
    BY <1>3 DEF FireFsm, EmuType, AdsType, HistoryType, emu, ads, history
  <2> QED
    BY <2>1, <2>2
<1>4. CASE ScanRow
  <2>1. ScanStep
    BY <1>4, ScanRowCases DEF FlagsAt, Control, ScanRow
  <2>2. flags' \in Flags
    BY <2>1 DEF ScanStep, Miss, Fires, Control, CounterAt
  <2>3. pc' \in PCs /\ row' \in 0 .. NumRows /\ current_state' \in States
    BY <2>1, <1>4 DEF ScanStep, Miss, Fires, NumRows, Control, FlagsAt, ScanRow
  <2>4. RamType'
    BY <1>4, <2>2, <2>3 DEF ScanRow
  <2>5. EmuType' /\ AdsType' /\ HistoryType'
    BY <1>4 DEF ScanRow, emu, ads, history, EmuType, AdsType, HistoryType
  <2> QED
    BY <2>4, <2>5
<1>5. CASE WakeUp
  <2>1. RamType'
    <3>1. ("EM4" \in rstCause) \in BOOLEAN
      OBVIOUS
    <3>2. flags' \in Flags
      BY <1>5, <3>1 DEF WakeUp
    <3>3. wakeupTimer' \in BOOLEAN
      BY <1>5, <3>1 DEF WakeUp
    <3> QED
      BY <1>5, <3>2, <3>3 DEF WakeUp
  <2>2. EmuType' /\ AdsType' /\ HistoryType'
    BY <1>5 DEF WakeUp, EmuType, AdsType, HistoryType, emu, ads, history
  <2> QED
    BY <2>1, <2>2
<1>6. CASE BeginReset
  <2>1. RamType'
    BY <1>6 DEF BeginReset
  <2>2. EmuType' /\ AdsType' /\ HistoryType'
    BY <1>6 DEF BeginReset, EmuType, AdsType, HistoryType, emu, ads, history
  <2> QED
    BY <2>1, <2>2
<1>7. CASE BeginConfigure
  <2>1. RamType'
    BY <1>7 DEF BeginConfigure
  <2>2. EmuType' /\ AdsType' /\ HistoryType'
    BY <1>7 DEF BeginConfigure, EmuType, AdsType, HistoryType, emu, ads, history
  <2> QED
    BY <2>1, <2>2
<1>8. CASE AskForNextData
  <2>1. RamType'
    BY <1>8 DEF AskForNextData
  <2>2. EmuType' /\ AdsType' /\ HistoryType'
    BY <1>8 DEF AskForNextData, EmuType, AdsType, HistoryType, emu, ads, history
  <2> QED
    BY <2>1, <2>2
<1>9. CASE StartConv
  <2>1. RamType' /\ EmuType' /\ HistoryType'
    BY <1>9 DEF StartConv, EmuType, HistoryType, emu, history
  <2>2. AdsType'
    <3>1. flags.num_data_retrieved \in Slots
      BY <1>9, NumSensorsAssumption DEF StartConv, Control, CounterAt, Slots, Flags
    <3>2. adcReq' \in Sample
      BY <1>9, <3>1 DEF StartConv, AdsType, HistoryType, Sample, KindOf, Kinds
    <3> QED
      BY <1>9, <3>2 DEF StartConv, AdsType
  <2> QED
    BY <2>1, <2>2
<1>10. CASE RetrieveData
  <2>1. RamType'
    BY <1>10 DEF RetrieveData
  <2>2. EmuType' /\ AdsType' /\ HistoryType'
    BY <1>10 DEF RetrieveData, EmuType, AdsType, HistoryType, emu, ads, history
  <2> QED
    BY <2>1, <2>2
<1>11. CASE ReadDataSamples
  <2>1. RamType'
    <3>1. sensor_data' \in [Slots -> Sample]
      BY <1>11 DEF ReadDataSamples, AdsType, Kinds
    <3> QED
      BY <1>11, <3>1 DEF ReadDataSamples
  <2>2. EmuType' /\ AdsType' /\ HistoryType'
    BY <1>11 DEF ReadDataSamples, EmuType, AdsType, HistoryType, emu, ads, history
  <2> QED
    BY <2>1, <2>2
<1>12. CASE PowerDownInterface
  <2>1. RamType'
    BY <1>12 DEF PowerDownInterface
  <2>2. EmuType' /\ AdsType' /\ HistoryType'
    BY <1>12 DEF PowerDownInterface, EmuType, AdsType, HistoryType, emu, ads, history
  <2> QED
    BY <2>1, <2>2
<1>13. CASE SendData
  <2>1. RamType'
    <3>1. flags' \in Flags
      BY <1>13, OutcomesAssumption DEF SendData
    <3> QED
      BY <1>13, <3>1 DEF SendData
  <2>2. EmuType' /\ AdsType' /\ HistoryType'
    BY <1>13 DEF SendData, EmuType, AdsType, HistoryType, emu, ads, history
  <2> QED
    BY <2>1, <2>2
<1>14. CASE AskAgainAction
  <2>1. RamType'
    BY <1>14 DEF AskAgainAction
  <2>2. EmuType' /\ AdsType' /\ HistoryType'
    BY <1>14 DEF AskAgainAction, EmuType, AdsType, HistoryType, emu, ads, history
  <2> QED
    BY <2>1, <2>2
<1>15. CASE TryToSleepAction
  <2>1. RamType'
    BY <1>15 DEF TryToSleepAction
  <2>2. EmuType' /\ AdsType' /\ HistoryType'
    BY <1>15 DEF TryToSleepAction, EmuType, AdsType, HistoryType, emu, ads, history
  <2> QED
    BY <2>1, <2>2
<1>16. CASE ClearSleepFlags
  <2>1. RamType'
    BY <1>16 DEF ClearSleepFlags
  <2>2. EmuType' /\ AdsType' /\ HistoryType'
    BY <1>16 DEF ClearSleepFlags, EmuType, AdsType, HistoryType, emu, ads, history
  <2> QED
    BY <2>1, <2>2
<1>17. CASE StopTimer
  <2>1. RamType'
    BY <1>17 DEF StopTimer
  <2>2. EmuType' /\ AdsType' /\ HistoryType'
    BY <1>17 DEF StopTimer, EmuType, AdsType, HistoryType, emu, ads, history
  <2> QED
    BY <2>1, <2>2
<1>18. CASE CloseConnections
  <2>1. RamType'
    BY <1>18 DEF CloseConnections
  <2>2. EmuType' /\ AdsType' /\ HistoryType'
    BY <1>18 DEF CloseConnections, EmuType, AdsType, HistoryType, emu, ads, history
  <2> QED
    BY <2>1, <2>2
<1>19. CASE EnterEM4
  <2>1. RamType'
    BY <1>19 DEF EnterEM4, ram
  <2>2. EmuType' /\ AdsType' /\ HistoryType'
    BY <1>19 DEF EnterEM4, EmuType, AdsType, HistoryType, emu, ads, history, ram
  <2> QED
    BY <2>1, <2>2
<1>20. CASE ChangeModePress
  <2>1. RamType'
    BY <1>20 DEF ChangeModePress, Callback
  <2>2. EmuType' /\ AdsType' /\ HistoryType'
    BY <1>20 DEF ChangeModePress, EmuType, AdsType, HistoryType, emu, ads, history, Callback
  <2> QED
    BY <2>1, <2>2
<1>21. CASE ConversionDone
  <2>1. RamType'
    BY <1>21 DEF ConversionDone, Callback
  <2>2. EmuType' /\ AdsType' /\ HistoryType'
    BY <1>21 DEF ConversionDone, EmuType, AdsType, HistoryType, emu, ads, history, Callback
  <2> QED
    BY <2>1, <2>2
<1>22. CASE UnaskedEdge
  <2>1. RamType'
    BY <1>22 DEF UnaskedEdge, Callback
  <2>2. EmuType' /\ AdsType' /\ HistoryType'
    BY <1>22 DEF UnaskedEdge, EmuType, AdsType, HistoryType, emu, ads, history, Callback, Kinds
  <2> QED
    BY <2>1, <2>2
<1>23. CASE BurtcCompare
  <2>1. RamType'
    BY <1>23 DEF BurtcCompare
  <2>2. EmuType' /\ AdsType' /\ HistoryType'
    BY <1>23 DEF BurtcCompare, EmuType, AdsType, HistoryType, emu, ads, history
  <2> QED
    BY <2>1, <2>2
<1>24. CASE SleeptimerExpire
  <2>1. RamType'
    BY <1>24 DEF SleeptimerExpire
  <2>2. EmuType' /\ AdsType' /\ HistoryType'
    BY <1>24 DEF SleeptimerExpire, EmuType, AdsType, HistoryType, emu, ads, history
  <2> QED
    BY <2>1, <2>2
<1>25. CASE WakeByTimer
  <2>1. RamType'
    BY <1>25, FreshRamType DEF WakeByTimer
  <2>2. EmuType' /\ AdsType' /\ HistoryType'
    BY <1>25 DEF WakeByTimer, EmuType, AdsType, HistoryType, emu, ads, history, FreshRam, FreshGpio, Kinds, NumRows
  <2> QED
    BY <2>1, <2>2
<1>26. CASE WakeByPin
  <2>1. RamType'
    BY <1>26, FreshRamType DEF WakeByPin
  <2>2. EmuType' /\ AdsType' /\ HistoryType'
    BY <1>26 DEF WakeByPin, EmuType, AdsType, HistoryType, emu, ads, history, FreshRam, FreshGpio, Kinds, NumRows
  <2> QED
    BY <2>1, <2>2
<1>27. CASE ExternalReset
  <2>1. RamType'
    BY <1>27, FreshRamType DEF ExternalReset
  <2>2. EmuType' /\ AdsType' /\ HistoryType'
    BY <1>27 DEF ExternalReset, EmuType, AdsType, HistoryType, emu, ads, history, FreshRam, FreshGpio, Kinds, NumRows
  <2> QED
    BY <2>1, <2>2
<1>28. CASE UNCHANGED vars
  BY <1>28 DEF vars, ram, emu, ads, history, EmuType, AdsType, HistoryType
<1> QED
  BY <1>1, <1>2, <1>3, <1>4, <1>5, <1>6, <1>7, <1>8, <1>9, <1>10, <1>11, <1>12, <1>13, <1>14, <1>15, <1>16, <1>17, <1>18, <1>19, <1>20, <1>21, <1>22, <1>23, <1>24, <1>25, <1>26, <1>27, <1>28 DEF Next, MainStep, Interrupt

\* Control (which state the FSM can be in at which statement, what the flags and the
\* timer are there) survives every step.
LEMMA ControlStep == TypeOK /\ Control /\ [Next]_vars => Control'
<1> SUFFICES ASSUME TypeOK, Control, [Next]_vars PROVE Control'
  OBVIOUS
<1> USE DEF TypeOK, RamType, Control, StateAt, CounterAt, FlagsAt, TimerAt, InitPoints,
            SleepPoints, Between, Flags
<1>1. CASE InitHardware
  BY <1>1, NumSensorsAssumption DEF InitHardware
<1>2. CASE RegisterCallbacks
  BY <1>2, NumSensorsAssumption DEF RegisterCallbacks
<1>3. CASE FireFsm
  BY <1>3, NumSensorsAssumption DEF FireFsm, NumRows
<1>4. CASE ScanRow
  <2>1. ScanStep
    BY <1>4, ScanRowCases DEF ScanRow
  <2>2. CASE Miss
    BY <1>4, <2>2 DEF Miss, ScanRow, NumRows
  <2>3. CASE ScanStep /\ ~Miss
    <3>1. StateAt'
      BY <2>3 DEF ScanStep, Fires
    <3>2. CounterAt'
      BY <1>4, <2>3, NumSensorsAssumption
      DEF ScanRow, ScanStep, Fires, check_data_ready, check_all_data_retrieved,
          AfterDataRetrieved
    <3>3. FlagsAt'
      BY <1>4, <2>3 DEF ScanRow, ScanStep, Fires, check_wakeup_timer
    <3>4. TimerAt'
      BY <1>4, <2>3 DEF ScanRow, ScanStep, Fires, AfterDataRetrieved
    <3> QED
      BY <3>1, <3>2, <3>3, <3>4
  <2> QED
    BY <2>1, <2>2, <2>3
<1>5. CASE WakeUp
  BY <1>5, NumSensorsAssumption DEF WakeUp, ClassifyWake
<1>6. CASE BeginReset
  BY <1>6, NumSensorsAssumption DEF BeginReset
<1>7. CASE BeginConfigure
  BY <1>7, NumSensorsAssumption DEF BeginConfigure, WakeCompleted
<1>8. CASE AskForNextData
  BY <1>8, NumSensorsAssumption DEF AskForNextData, ClearForAsk
<1>9. CASE StartConv
  BY <1>9, NumSensorsAssumption DEF StartConv
<1>10. CASE RetrieveData
  BY <1>10, NumSensorsAssumption DEF RetrieveData, ClearForRetrieve
<1>11. CASE ReadDataSamples
  BY <1>11, NumSensorsAssumption DEF ReadDataSamples
<1>12. CASE PowerDownInterface
  BY <1>12, NumSensorsAssumption DEF PowerDownInterface, RestartCount
<1>13. CASE SendData
  BY <1>13, NumSensorsAssumption DEF SendData, AfterSend
<1>14. CASE AskAgainAction
  BY <1>14, NumSensorsAssumption DEF AskAgainAction, AskAgain
<1>15. CASE TryToSleepAction
  BY <1>15, NumSensorsAssumption DEF TryToSleepAction, TryToSleep
<1>16. CASE ClearSleepFlags
  BY <1>16, NumSensorsAssumption DEF ClearSleepFlags, ClearForSleep
<1>17. CASE StopTimer
  BY <1>17, NumSensorsAssumption DEF StopTimer
<1>18. CASE CloseConnections
  BY <1>18, NumSensorsAssumption DEF CloseConnections
<1>19. CASE EnterEM4
  BY <1>19, NumSensorsAssumption DEF EnterEM4, ram
<1>20. CASE ChangeModePress
  BY <1>20, NumSensorsAssumption DEF ChangeModePress, Callback, ToggleMode
<1>21. CASE ConversionDone
  BY <1>21, NumSensorsAssumption DEF ConversionDone, Callback, MarkReady
<1>22. CASE UnaskedEdge
  BY <1>22, NumSensorsAssumption DEF UnaskedEdge, Callback, MarkReady
<1>23. CASE BurtcCompare
  BY <1>23, NumSensorsAssumption DEF BurtcCompare
<1>24. CASE SleeptimerExpire
  BY <1>24, NumSensorsAssumption DEF SleeptimerExpire, MarkTimer
<1>25. CASE WakeByTimer
  BY <1>25, NumSensorsAssumption DEF WakeByTimer, FreshRam, InitialFlags
<1>26. CASE WakeByPin
  BY <1>26, NumSensorsAssumption DEF WakeByPin, FreshRam, InitialFlags
<1>27. CASE ExternalReset
  BY <1>27, NumSensorsAssumption DEF ExternalReset, FreshRam, InitialFlags
<1>28. CASE UNCHANGED vars
  BY <1>28 DEF vars, ram
<1> QED
  BY <1>1, <1>2, <1>3, <1>4, <1>5, <1>6, <1>7, <1>8, <1>9, <1>10, <1>11, <1>12, <1>13, <1>14, <1>15, <1>16, <1>17, <1>18, <1>19, <1>20, <1>21, <1>22, <1>23, <1>24, <1>25, <1>26, <1>27, <1>28 DEF Next, MainStep, Interrupt

\* What is known of the wake-up reason while wake_up has not decided survives every step.
LEMMA WakingStep == TypeOK /\ Control /\ Waking /\ [Next]_vars => Waking'
<1> SUFFICES ASSUME TypeOK, Control, Waking, [Next]_vars PROVE Waking'
  OBVIOUS
<1> USE DEF TypeOK, RamType, EmuType, Control, StateAt, FlagsAt, Waking, BeforeWake, Between,
            InitPoints, SleepPoints, Flags
<1>1. CASE InitHardware
  BY <1>1 DEF InitHardware, emu, history
<1>2. CASE RegisterCallbacks
  BY <1>2 DEF RegisterCallbacks, emu, history
<1>3. CASE FireFsm
  BY <1>3 DEF FireFsm, emu, history
<1>4. CASE ScanRow
  <2>1. ScanStep
    BY <1>4, ScanRowCases DEF ScanRow
  <2> QED
    BY <1>4, <2>1 DEF ScanRow, ScanStep, Miss, Fires, NumRows, emu, history
<1>5. CASE WakeUp
  BY <1>5 DEF WakeUp, ClassifyWake, emu, history
<1>6. CASE BeginReset
  BY <1>6 DEF BeginReset, emu, history
<1>7. CASE BeginConfigure
  BY <1>7 DEF BeginConfigure, WakeCompleted, emu, history
<1>8. CASE AskForNextData
  BY <1>8 DEF AskForNextData, ClearForAsk, emu, history
<1>9. CASE StartConv
  BY <1>9 DEF StartConv, emu, history
<1>10. CASE RetrieveData
  BY <1>10 DEF RetrieveData, ClearForRetrieve, emu, history
<1>11. CASE ReadDataSamples
  BY <1>11 DEF ReadDataSamples, emu, history
<1>12. CASE PowerDownInterface
  BY <1>12 DEF PowerDownInterface, RestartCount, emu, history
<1>13. CASE SendData
  BY <1>13 DEF SendData, AfterSend, emu, history
<1>14. CASE AskAgainAction
  BY <1>14 DEF AskAgainAction, AskAgain, emu, history
<1>15. CASE TryToSleepAction
  BY <1>15 DEF TryToSleepAction, TryToSleep, emu, history
<1>16. CASE ClearSleepFlags
  BY <1>16 DEF ClearSleepFlags, ClearForSleep, emu, history
<1>17. CASE StopTimer
  BY <1>17 DEF StopTimer, emu, history
<1>18. CASE CloseConnections
  BY <1>18 DEF CloseConnections, emu, history
<1>19. CASE EnterEM4
  BY <1>19 DEF EnterEM4, ram, emu, history
<1>20. CASE ChangeModePress
  BY <1>20 DEF ChangeModePress, Callback, ToggleMode, emu, history
<1>21. CASE ConversionDone
  BY <1>21 DEF ConversionDone, Callback, MarkReady, emu, history
<1>22. CASE UnaskedEdge
  BY <1>22 DEF UnaskedEdge, Callback, MarkReady, emu, history
<1>23. CASE BurtcCompare
  BY <1>23 DEF BurtcCompare, emu, history
<1>24. CASE SleeptimerExpire
  BY <1>24 DEF SleeptimerExpire, MarkTimer, emu, history
<1>25. CASE WakeByTimer
  BY <1>25 DEF WakeByTimer, FreshRam, InitialFlags, emu, history
<1>26. CASE WakeByPin
  BY <1>26 DEF WakeByPin, FreshRam, InitialFlags, emu, history
<1>27. CASE ExternalReset
  BY <1>27 DEF ExternalReset, FreshRam, InitialFlags, emu, history
<1>28. CASE UNCHANGED vars
  BY <1>28 DEF vars, ram, emu, ads, history
<1> QED
  BY <1>1, <1>2, <1>3, <1>4, <1>5, <1>6, <1>7, <1>8, <1>9, <1>10, <1>11, <1>12, <1>13, <1>14, <1>15, <1>16, <1>17, <1>18, <1>19, <1>20, <1>21, <1>22, <1>23, <1>24, <1>25, <1>26, <1>27, <1>28 DEF Next, MainStep, Interrupt

\* What is known of data_sent_flag while a round is being sent survives every step.
LEMMA SendingStep == TypeOK /\ Control /\ Sending /\ [Next]_vars => Sending'
<1> SUFFICES ASSUME TypeOK, Control, Sending, [Next]_vars PROVE Sending'
  OBVIOUS
<1> USE DEF TypeOK, RamType, Control, StateAt, FlagsAt, Sending, SentMeansPublished, Between,
            InitPoints, SleepPoints, Flags
<1>1. CASE InitHardware
  BY <1>1 DEF InitHardware, emu, history
<1>2. CASE RegisterCallbacks
  BY <1>2 DEF RegisterCallbacks, emu, history
<1>3. CASE FireFsm
  BY <1>3 DEF FireFsm, emu, history
<1>4. CASE ScanRow
  <2>1. ScanStep
    BY <1>4, ScanRowCases DEF ScanRow
  <2> QED
    BY <1>4, <2>1 DEF ScanRow, ScanStep, Miss, Fires, NumRows, AfterDataRetrieved, check_data_sent_continuous,
         check_data_sent_not_continuous, history
<1>5. CASE WakeUp
  BY <1>5 DEF WakeUp, ClassifyWake, emu, history
<1>6. CASE BeginReset
  BY <1>6 DEF BeginReset, emu, history
<1>7. CASE BeginConfigure
  BY <1>7 DEF BeginConfigure, WakeCompleted, emu, history
<1>8. CASE AskForNextData
  BY <1>8 DEF AskForNextData, ClearForAsk, emu, history
<1>9. CASE StartConv
  BY <1>9 DEF StartConv, emu, history
<1>10. CASE RetrieveData
  BY <1>10 DEF RetrieveData, ClearForRetrieve, emu, history
<1>11. CASE ReadDataSamples
  BY <1>11 DEF ReadDataSamples, emu, history
<1>12. CASE PowerDownInterface
  BY <1>12 DEF PowerDownInterface, RestartCount, emu, history
<1>13. CASE SendData
  BY <1>13 DEF SendData, AfterSend, emu, history
<1>14. CASE AskAgainAction
  BY <1>14 DEF AskAgainAction, AskAgain, emu, history
<1>15. CASE TryToSleepAction
  BY <1>15 DEF TryToSleepAction, TryToSleep, emu, history
<1>16. CASE ClearSleepFlags
  BY <1>16 DEF ClearSleepFlags, ClearForSleep, emu, history
<1>17. CASE StopTimer
  BY <1>17 DEF StopTimer, emu, history
<1>18. CASE CloseConnections
  BY <1>18 DEF CloseConnections, emu, history
<1>19. CASE EnterEM4
  BY <1>19 DEF EnterEM4, ram, emu, history
<1>20. CASE ChangeModePress
  BY <1>20 DEF ChangeModePress, Callback, ToggleMode, emu, history
<1>21. CASE ConversionDone
  BY <1>21 DEF ConversionDone, Callback, MarkReady, emu, history
<1>22. CASE UnaskedEdge
  BY <1>22 DEF UnaskedEdge, Callback, MarkReady, emu, history
<1>23. CASE BurtcCompare
  BY <1>23 DEF BurtcCompare, emu, history
<1>24. CASE SleeptimerExpire
  BY <1>24 DEF SleeptimerExpire, MarkTimer, emu, history
<1>25. CASE WakeByTimer
  BY <1>25 DEF WakeByTimer, FreshRam, InitialFlags, emu, history
<1>26. CASE WakeByPin
  BY <1>26 DEF WakeByPin, FreshRam, InitialFlags, emu, history
<1>27. CASE ExternalReset
  BY <1>27 DEF ExternalReset, FreshRam, InitialFlags, emu, history
<1>28. CASE UNCHANGED vars
  BY <1>28 DEF vars, ram, emu, ads, history
<1> QED
  BY <1>1, <1>2, <1>3, <1>4, <1>5, <1>6, <1>7, <1>8, <1>9, <1>10, <1>11, <1>12, <1>13, <1>14, <1>15, <1>16, <1>17, <1>18, <1>19, <1>20, <1>21, <1>22, <1>23, <1>24, <1>25, <1>26, <1>27, <1>28 DEF Next, MainStep, Interrupt

\* With a working SPI, the converter is where the FSM believes it is, after every step.
LEMMA ConverterStep ==
  ASSUME SpiResults = {"ok"}, TypeOK, Control, Sending, Data, [Next]_vars
  PROVE  Converter'
<1> USE NumSensorsAssumption DEF TypeOK, RamType, Control, StateAt, CounterAt, FlagsAt, BeforeWake, Unconfigured, Between,
            InitPoints, SleepPoints, Flags, Data, Fresh, Converter
<1>1. CASE InitHardware
  BY <1>1 DEF InitHardware, emu, ads, history, KindOf, Registered, FreshGpio
<1>2. CASE RegisterCallbacks
  BY <1>2 DEF RegisterCallbacks, emu, ads, history, KindOf, Registered, FreshGpio
<1>3. CASE FireFsm
  BY <1>3 DEF FireFsm, emu, ads, history, KindOf, Registered, FreshGpio
<1>4. CASE ScanRow
  <2>1. ScanStep
    BY <1>4, ScanRowCases DEF ScanRow
  <2> QED
    BY <1>4, <2>1 DEF ScanRow, ScanStep, Miss, Fires, NumRows, AfterDataRetrieved, check_data_ready,
         check_all_data_retrieved, emu, ads, history
<1>5. CASE WakeUp
  BY <1>5 DEF WakeUp, ClassifyWake, emu, ads, history, KindOf, Registered, FreshGpio
<1>6. CASE BeginReset
  BY <1>6 DEF BeginReset, emu, ads, history, KindOf, Registered, FreshGpio
<1>7. CASE BeginConfigure
  BY <1>7 DEF BeginConfigure, WakeCompleted, emu, ads, history, KindOf, Registered, FreshGpio
<1>8. CASE AskForNextData
  BY <1>8 DEF AskForNextData, ClearForAsk, emu, ads, history, KindOf, Registered, FreshGpio
<1>9. CASE StartConv
  BY <1>9 DEF StartConv, emu, ads, history, KindOf, Registered, FreshGpio
<1>10. CASE RetrieveData
  BY <1>10 DEF RetrieveData, ClearForRetrieve, emu, ads, history, KindOf, Registered, FreshGpio
<1>11. CASE ReadDataSamples
  BY <1>11 DEF ReadDataSamples, emu, ads, history, KindOf, Registered, FreshGpio
<1>12. CASE PowerDownInterface
  BY <1>12 DEF PowerDownInterface, RestartCount, emu, ads, history, KindOf, Registered, FreshGpio
<1>13. CASE SendData
  BY <1>13 DEF SendData, AfterSend, emu, ads, history, KindOf, Registered, FreshGpio
<1>14. CASE AskAgainAction
  BY <1>14 DEF AskAgainAction, AskAgain, emu, ads, history, KindOf, Registered, FreshGpio
<1>15. CASE TryToSleepAction
  BY <1>15 DEF TryToSleepAction, TryToSleep, emu, ads, history, KindOf, Registered, FreshGpio
<1>16. CASE ClearSleepFlags
  BY <1>16 DEF ClearSleepFlags, ClearForSleep, emu, ads, history, KindOf, Registered, FreshGpio
<1>17. CASE StopTimer
  BY <1>17 DEF StopTimer, emu, ads, history, KindOf, Registered, FreshGpio
<1>18. CASE CloseConnections
  BY <1>18 DEF CloseConnections, emu, ads, history, KindOf, Registered, FreshGpio
<1>19. CASE EnterEM4
  BY <1>19 DEF EnterEM4, ram, emu, ads, history, KindOf, Registered, FreshGpio
<1>20. CASE ChangeModePress
  BY <1>20 DEF ChangeModePress, Callback, ToggleMode, emu, ads, history, KindOf, Registered, FreshGpio
<1>21. CASE ConversionDone
  BY <1>21 DEF ConversionDone, Callback, MarkReady, emu, ads, history, KindOf, Registered, FreshGpio
<1>22. CASE UnaskedEdge
  BY <1>22 DEF UnaskedEdge, Callback, MarkReady, emu, ads, history, KindOf, Registered, FreshGpio
<1>23. CASE BurtcCompare
  BY <1>23 DEF BurtcCompare, emu, ads, history, KindOf, Registered, FreshGpio
<1>24. CASE SleeptimerExpire
  BY <1>24 DEF SleeptimerExpire, MarkTimer, emu, ads, history, KindOf, Registered, FreshGpio
<1>25. CASE WakeByTimer
  BY <1>25 DEF WakeByTimer, FreshRam, InitialFlags, emu, ads, history, KindOf, Registered, FreshGpio
<1>26. CASE WakeByPin
  BY <1>26 DEF WakeByPin, FreshRam, InitialFlags, emu, ads, history, KindOf, Registered, FreshGpio
<1>27. CASE ExternalReset
  BY <1>27 DEF ExternalReset, FreshRam, InitialFlags, emu, ads, history, KindOf, Registered, FreshGpio
<1>28. CASE UNCHANGED vars
  BY <1>28 DEF vars, ram, emu, ads, history
<1> QED
  BY <1>1, <1>2, <1>3, <1>4, <1>5, <1>6, <1>7, <1>8, <1>9, <1>10, <1>11, <1>12, <1>13, <1>14, <1>15, <1>16, <1>17, <1>18, <1>19, <1>20, <1>21, <1>22, <1>23, <1>24, <1>25, <1>26, <1>27, <1>28 DEF Next, MainStep, Interrupt

\* With a working SPI, the slots below the sample counter hold this round's conversions,
\* after every step.
LEMMA FilledStep ==
  ASSUME SpiResults = {"ok"}, TypeOK, Control, Sending, Data, [Next]_vars
  PROVE  Filled'
<1> USE NumSensorsAssumption DEF TypeOK, RamType, Control, StateAt, CounterAt, FlagsAt, BeforeWake, Unconfigured, Between,
            InitPoints, SleepPoints, Flags, Data, Fresh, Converter, Filled, Sending, AdsType, HistoryType, Slots, Sample
<1>1. CASE InitHardware
  BY <1>1 DEF InitHardware, ads, history
<1>2. CASE RegisterCallbacks
  BY <1>2 DEF RegisterCallbacks, ads, history
<1>3. CASE FireFsm
  BY <1>3 DEF FireFsm, ads, history
<1>4. CASE ScanRow
  <2> HIDE DEF TypeOK, RamType, FlagsAt, BeforeWake, Unconfigured, InitPoints, SleepPoints,
               Flags, AdsType, HistoryType, Sample, Sending, Converter, Fresh
  <2>1. ScanStep
    BY <1>4, ScanRowCases DEF ScanRow, TypeOK, RamType, FlagsAt
  <2>2. \A i : Fresh(sensor_data[i], i)' <=> Fresh(sensor_data[i], i)
    BY <1>4 DEF ScanRow, history, Fresh
  <2>3. pc = "scan" /\ flags.num_data_retrieved \in 0 .. NumSensors
    BY <1>4 DEF ScanRow, TypeOK, RamType, Flags
  <2>4. CASE Miss
    BY <2>2, <2>3, <2>4 DEF Miss
  <2>5. CASE Fires(4, "ASKING_FOR_DATA", check_all_data_retrieved(flags),
                   "SENDING_DATA", "power_down_interface_send_data") /\ UNCHANGED flags
    BY <2>2, <2>3, <2>5 DEF Fires, check_all_data_retrieved
  <2>6. CASE /\ flags' = AfterDataRetrieved(flags)
             /\ Fires(6, "RETRIEVING_DATA", TRUE, "ASKING_FOR_DATA", "ask_for_next_data")
    <3>1. flags'.num_data_retrieved = flags.num_data_retrieved + 1
      BY <2>6 DEF AfterDataRetrieved, TypeOK, RamType, Flags
    <3>2. \A i \in Slots : i < flags.num_data_retrieved + 1 => Fresh(sensor_data[i], i)
      BY <2>3, <2>6 DEF Fires
    <3> QED
      BY <2>2, <2>6, <3>1, <3>2 DEF Fires
  <2>7. CASE ScanStep /\ UNCHANGED flags /\ pc' # "power_down_interface_send_data" /\ ~Miss
    BY <2>2, <2>3, <2>7 DEF ScanStep, Fires
  <2> QED
    BY <2>1, <2>4, <2>5, <2>6, <2>7 DEF ScanStep, Fires
<1>5. CASE WakeUp
  BY <1>5 DEF WakeUp, ClassifyWake, ads, history
<1>6. CASE BeginReset
  BY <1>6 DEF BeginReset, ads, history
<1>7. CASE BeginConfigure
  BY <1>7 DEF BeginConfigure, WakeCompleted, ads, history
<1>8. CASE AskForNextData
  BY <1>8 DEF AskForNextData, ClearForAsk, ads, history
<1>9. CASE StartConv
  BY <1>9 DEF StartConv, ads, history
<1>10. CASE RetrieveData
  BY <1>10 DEF RetrieveData, ClearForRetrieve, ads, history
<1>11. CASE ReadDataSamples
  BY <1>11 DEF ReadDataSamples, ads, history
<1>12. CASE PowerDownInterface
  BY <1>12 DEF PowerDownInterface, RestartCount, ads, history
<1>13. CASE SendData
  BY <1>13 DEF SendData, AfterSend, ads, history
<1>14. CASE AskAgainAction
  BY <1>14 DEF AskAgainAction, AskAgain, ads, history
<1>15. CASE TryToSleepAction
  BY <1>15 DEF TryToSleepAction, TryToSleep, ads, history
<1>16. CASE ClearSleepFlags
  BY <1>16 DEF ClearSleepFlags, ClearForSleep, ads, history
<1>17. CASE StopTimer
  BY <1>17 DEF StopTimer, ads, history
<1>18. CASE CloseConnections
  BY <1>18 DEF CloseConnections, ads, history
<1>19. CASE EnterEM4
  BY <1>19 DEF EnterEM4, ram, ads, history
<1>20. CASE ChangeModePress
  <2> HIDE DEF Control, Sending, Converter, Fresh, AdsType, Sample
  <2>1. flags'.num_data_retrieved = flags.num_data_retrieved
    BY <1>20 DEF ChangeModePress, Callback, ToggleMode
  <2>2. UNCHANGED <<pc, current_state, sensor_data, round>>
    BY <1>20 DEF ChangeModePress, Callback, ads, history
  <2>3. \A i : Fresh(sensor_data[i], i)' <=> Fresh(sensor_data[i], i)
    BY <2>2 DEF Fresh
  <2> QED
    BY <2>1, <2>2, <2>3
<1>21. CASE ConversionDone
  <2> HIDE DEF Control, Sending, Converter, Fresh, AdsType, Sample
  <2>1. flags'.num_data_retrieved = flags.num_data_retrieved
    BY <1>21 DEF ConversionDone, Callback, MarkReady
  <2>2. UNCHANGED <<pc, current_state, sensor_data, round>>
    BY <1>21 DEF ConversionDone, Callback, history
  <2>3. \A i : Fresh(sensor_data[i], i)' <=> Fresh(sensor_data[i], i)
    BY <2>2 DEF Fresh
  <2> QED
    BY <2>1, <2>2, <2>3
<1>22. CASE UnaskedEdge
  <2> HIDE DEF Control, Sending, Converter, Fresh, AdsType, Sample
  <2>1. flags'.num_data_retrieved = flags.num_data_retrieved
    BY <1>22 DEF UnaskedEdge, Callback, MarkReady
  <2>2. UNCHANGED <<pc, current_state, sensor_data, round>>
    BY <1>22 DEF UnaskedEdge, Callback, history
  <2>3. \A i : Fresh(sensor_data[i], i)' <=> Fresh(sensor_data[i], i)
    BY <2>2 DEF Fresh
  <2> QED
    BY <2>1, <2>2, <2>3
<1>23. CASE BurtcCompare
  BY <1>23 DEF BurtcCompare, ads, history
<1>24. CASE SleeptimerExpire
  BY <1>24 DEF SleeptimerExpire, MarkTimer, ads, history
<1>25. CASE WakeByTimer
  BY <1>25 DEF WakeByTimer, FreshRam, InitialFlags, ads, history
<1>26. CASE WakeByPin
  BY <1>26 DEF WakeByPin, FreshRam, InitialFlags, ads, history
<1>27. CASE ExternalReset
  BY <1>27 DEF ExternalReset, FreshRam, InitialFlags, ads, history
<1>28. CASE UNCHANGED vars
  BY <1>28 DEF vars, ram, emu, ads, history
<1> QED
  BY <1>1, <1>2, <1>3, <1>4, <1>5, <1>6, <1>7, <1>8, <1>9, <1>10, <1>11, <1>12, <1>13, <1>14, <1>15, <1>16, <1>17, <1>18, <1>19, <1>20, <1>21, <1>22, <1>23, <1>24, <1>25, <1>26, <1>27, <1>28 DEF Next, MainStep, Interrupt

\* With a working SPI, no step loses the DRDY edge the FSM waits for.
LEMMA NoLostReadyStep ==
  ASSUME SpiResults = {"ok"}, TypeOK, Control, Sending, Data, [Next]_vars
  PROVE  NoLostReady'
<1> USE NumSensorsAssumption DEF TypeOK, RamType, Control, StateAt, CounterAt, FlagsAt, BeforeWake, Unconfigured, Between,
            InitPoints, SleepPoints, Flags, Data, Fresh, Converter, NoLostReady
<1>1. CASE InitHardware
  BY <1>1 DEF InitHardware, emu, ads, history, Registered
<1>2. CASE RegisterCallbacks
  BY <1>2 DEF RegisterCallbacks, emu, ads, history, Registered
<1>3. CASE FireFsm
  BY <1>3 DEF FireFsm, emu, ads, history, Registered
<1>4. CASE ScanRow
  <2>1. ScanStep
    BY <1>4, ScanRowCases DEF ScanRow
  <2> QED
    BY <1>4, <2>1 DEF ScanRow, ScanStep, Miss, Fires, NumRows, AfterDataRetrieved, check_data_ready,
         check_all_data_retrieved, emu, ads, history
<1>5. CASE WakeUp
  BY <1>5 DEF WakeUp, ClassifyWake, emu, ads, history, Registered
<1>6. CASE BeginReset
  BY <1>6 DEF BeginReset, emu, ads, history, Registered
<1>7. CASE BeginConfigure
  BY <1>7 DEF BeginConfigure, WakeCompleted, emu, ads, history, Registered
<1>8. CASE AskForNextData
  BY <1>8 DEF AskForNextData, ClearForAsk, emu, ads, history, Registered
<1>9. CASE StartConv
  BY <1>9 DEF StartConv, emu, ads, history, Registered
<1>10. CASE RetrieveData
  BY <1>10 DEF RetrieveData, ClearForRetrieve, emu, ads, history, Registered
<1>11. CASE ReadDataSamples
  BY <1>11 DEF ReadDataSamples, emu, ads, history, Registered
<1>12. CASE PowerDownInterface
  BY <1>12 DEF PowerDownInterface, RestartCount, emu, ads, history, Registered
<1>13. CASE SendData
  BY <1>13 DEF SendData, AfterSend, emu, ads, history, Registered
<1>14. CASE AskAgainAction
  BY <1>14 DEF AskAgainAction, AskAgain, emu, ads, history, Registered
<1>15. CASE TryToSleepAction
  BY <1>15 DEF TryToSleepAction, TryToSleep, emu, ads, history, Registered
<1>16. CASE ClearSleepFlags
  BY <1>16 DEF ClearSleepFlags, ClearForSleep, emu, ads, history, Registered
<1>17. CASE StopTimer
  BY <1>17 DEF StopTimer, emu, ads, history, Registered
<1>18. CASE CloseConnections
  BY <1>18 DEF CloseConnections, emu, ads, history, Registered
<1>19. CASE EnterEM4
  BY <1>19 DEF EnterEM4, ram, emu, ads, history, Registered
<1>20. CASE ChangeModePress
  BY <1>20 DEF ChangeModePress, Callback, ToggleMode, emu, ads, history, Registered
<1>21. CASE ConversionDone
  BY <1>21 DEF ConversionDone, Callback, MarkReady, emu, ads, history, Registered
<1>22. CASE UnaskedEdge
  BY <1>22 DEF UnaskedEdge, Callback, MarkReady, emu, ads, history, Registered
<1>23. CASE BurtcCompare
  BY <1>23 DEF BurtcCompare, emu, ads, history, Registered
<1>24. CASE SleeptimerExpire
  BY <1>24 DEF SleeptimerExpire, MarkTimer, emu, ads, history, Registered
<1>25. CASE WakeByTimer
  BY <1>25 DEF WakeByTimer, FreshRam, InitialFlags, emu, ads, history, Registered
<1>26. CASE WakeByPin
  BY <1>26 DEF WakeByPin, FreshRam, InitialFlags, emu, ads, history, Registered
<1>27. CASE ExternalReset
  BY <1>27 DEF ExternalReset, FreshRam, InitialFlags, emu, ads, history, Registered
<1>28. CASE UNCHANGED vars
  BY <1>28 DEF vars, ram, emu, ads, history
<1> QED
  BY <1>1, <1>2, <1>3, <1>4, <1>5, <1>6, <1>7, <1>8, <1>9, <1>10, <1>11, <1>12, <1>13, <1>14, <1>15, <1>16, <1>17, <1>18, <1>19, <1>20, <1>21, <1>22, <1>23, <1>24, <1>25, <1>26, <1>27, <1>28 DEF Next, MainStep, Interrupt

-----------------------------------------------------------------------------
(***************************************************************************)
(* Theorems.                                                               *)
(***************************************************************************)
\* IndInv is inductive whatever the SPI, the sends and stray accesses do.
LEMMA IndInvStep == IndInv /\ [Next]_vars => IndInv'
BY TypeStep, ControlStep, WakingStep, SendingStep DEF IndInv

\* The inductive invariant holds when main starts.
LEMMA IndInvInit == Init => IndInv
<1> SUFFICES ASSUME Init PROVE IndInv
  OBVIOUS
<1>1. Waking /\ Sending
  BY DEF Init, Waking, Sending, SentMeansPublished, InitialFlags
<1> QED
  BY <1>1, InitControl DEF IndInv

\* Types are kept for every number of sensors and every failure: the counter that
\* check_data_retrieved increments without looking never leaves sensor_data[].
THEOREM TypeCorrect == Spec => []TypeOK
<1>1. IndInv => TypeOK
  BY DEF IndInv
<1> QED
  BY IndInvInit, IndInvStep, <1>1, PTL DEF Spec

\* In SENDING_DATA data_sent_flag never stands for an earlier round's send.
THEOREM SentIsPublished == Spec => []SentMeansPublished
<1>1. IndInv => SentMeansPublished
  BY DEF IndInv, Sending
<1> QED
  BY IndInvInit, IndInvStep, <1>1, PTL DEF Spec

\* A wake-up by the BURTC always starts slow mode.
THEOREM TimerWakesSlow == Spec => TimerWakeIsSlow
<1>1. IndInv /\ [Next]_vars =>
        [At("wake_up") /\ pc' = "begin" /\ wokenBy = "timer" => ~flags'.change_mode_flag]_vars
  <2> SUFFICES ASSUME IndInv, Next, At("wake_up"), pc' = "begin", wokenBy = "timer"
               PROVE  ~flags'.change_mode_flag
    OBVIOUS
  <2>1. WakeUp
    BY DEF Next, MainStep, Interrupt, InitHardware, RegisterCallbacks, FireFsm, ScanRow,
           BeginReset, BeginConfigure, AskForNextData, StartConv, RetrieveData,
           ReadDataSamples, PowerDownInterface, SendData, AskAgainAction, TryToSleepAction,
           ClearSleepFlags, StopTimer, CloseConnections, EnterEM4, ChangeModePress,
           ConversionDone, UnaskedEdge, BurtcCompare, SleeptimerExpire, WakeByTimer,
           WakeByPin, ExternalReset, FreshRam
  <2>2. "EM4" \in rstCause /\ wakeupTimer
    BY DEF IndInv, Waking, BeforeWake
  <2> QED
    BY <2>1, <2>2 DEF WakeUp, ClassifyWake, IndInv, TypeOK, RamType, Flags
<1> QED
  BY IndInvInit, IndInvStep, <1>1, PTL DEF Spec, TimerWakeIsSlow

\* The rows check_change_mode and check_sleep_not_possible of app_fsm_tt are dead.
THEOREM DeadRowsStayDead == Spec => DeadRows
<1>1. IndInv /\ [Next]_vars =>
        [At("scan") /\ pc' \in OutFunctions => row \notin {2, 9}]_vars
  <2> SUFFICES ASSUME IndInv, Next, At("scan"), pc' \in OutFunctions
               PROVE  row \notin {2, 9}
    OBVIOUS
  <2>1. ScanRow
    BY DEF OutFunctions, Next, MainStep, Interrupt, InitHardware, RegisterCallbacks, FireFsm,
           WakeUp, BeginReset, BeginConfigure, AskForNextData, StartConv, RetrieveData,
           ReadDataSamples, PowerDownInterface, SendData, AskAgainAction, TryToSleepAction,
           ClearSleepFlags, StopTimer, CloseConnections, EnterEM4, ChangeModePress,
           ConversionDone, UnaskedEdge, BurtcCompare, SleeptimerExpire, WakeByTimer,
           WakeByPin, ExternalReset, FreshRam
  <2>2. ScanStep
    BY <2>1, ScanRowCases DEF IndInv, Control, FlagsAt
  <2> QED
    BY <2>2 DEF ScanStep, Miss, Fires, OutFunctions, check_sleep_not_possible, IndInv,
                Control, FlagsAt, Between
<1> QED
  BY IndInvInit, IndInvStep, <1>1, PTL DEF Spec, DeadRows

\* With a working SPI the converter's side of the invariant is inductive too.
LEMMA DataInvStep ==
  ASSUME SpiResults = {"ok"}
  PROVE  DataInv /\ [Next]_vars => DataInv'
BY IndInvStep, ConverterStep, FilledStep, NoLostReadyStep DEF DataInv, IndInv, Data

\* The inductive invariant of the data holds when main starts.
LEMMA DataInvInit == Init => DataInv
<1> SUFFICES ASSUME Init PROVE DataInv
  OBVIOUS
<1>1. Data
  BY DEF Init, Data, Converter, Filled, NoLostReady, Unconfigured, BeforeWake, Between, InitPoints
<1> QED
  BY <1>1, IndInvInit DEF DataInv

\* With a working SPI every report is made of this round's conversions, each in its slot.
THEOREM ReportsAreFresh ==
  ASSUME SpiResults = {"ok"}
  PROVE  Spec => []RoundFresh
<1>1. DataInv => RoundFresh
  BY DEF DataInv, Data, Filled, RoundFresh, Fresh
<1> QED
  BY DataInvInit, DataInvStep, <1>1, PTL DEF Spec

\* With a working SPI the ask/ready handshake never loses the edge it waits for.
THEOREM HandshakeLosesNothing ==
  ASSUME SpiResults = {"ok"}
  PROVE  Spec => []NoLostReady
<1>1. DataInv => NoLostReady
  BY DEF DataInv, Data
<1> QED
  BY DataInvInit, DataInvStep, <1>1, PTL DEF Spec
=============================================================================
