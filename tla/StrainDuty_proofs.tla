-------------------------- MODULE StrainDuty_proofs --------------------------
(***************************************************************************)
(* StrainFsm implements DutyCycle, for every number of sensors and every   *)
(* outcome of SPI, sends and stray accesses.                               *)
(***************************************************************************)
EXTENDS StrainFsm_proofs, StrainDuty

USE DEF At

\* The first state of StrainFsm is a first state of DutyCycle.
LEMMA DutyInit == Init => Duty!DInit
BY DEF Init, Duty!DInit, Phase, PhaseOf, Collected, Delivered, Lingered, Continuous,
       SleepPoints, InitialFlags

\* Every step of StrainFsm is a step of DutyCycle or leaves its variables alone.
LEMMA DutyStep == IndInv /\ [Next]_vars => [Duty!DNext]_(Duty!dvars)
<1> SUFFICES ASSUME IndInv, [Next]_vars PROVE Duty!DNext \/ UNCHANGED Duty!dvars
  OBVIOUS
<1> USE DEF IndInv, TypeOK, RamType, EmuType, Control, StateAt, CounterAt, FlagsAt, TimerAt,
            InitPoints, SleepPoints, Between, Sending, Flags, States, Duty!dvars,
            Phase, PhaseOf, Collected, Delivered, Lingered, Continuous
<1>1. CASE InitHardware
  BY <1>1 DEF InitHardware, emu
<1>2. CASE RegisterCallbacks
  BY <1>2 DEF RegisterCallbacks, emu
<1>3. CASE FireFsm
  BY <1>3 DEF FireFsm, emu
<1>4. CASE ScanRow
  <2>1. ScanStep
    BY <1>4, ScanRowCases DEF ScanRow
  <2>2. power = "on" /\ power' = "on" /\ pc = "scan"
    BY <1>4 DEF ScanRow, emu
  <2>3. CASE Miss
    BY <2>2, <2>3 DEF Miss
  <2>4. CASE Fires(1, "SLEEPING", check_wakeup_timer(flags), "WAKING_UP", "wake_up")
             /\ UNCHANGED flags
    BY <2>2, <2>4 DEF Fires
  <2>5. CASE Fires(2, "SLEEPING", check_change_mode(flags), "WAKING_UP", "wake_up")
             /\ UNCHANGED flags
    BY <2>2, <2>5 DEF Fires
  <2>6. CASE Fires(3, "WAKING_UP", check_wakeup_completed(flags),
                   "ASKING_FOR_DATA", "ask_for_next_data") /\ UNCHANGED flags
    <3>1. Duty!Begin
      BY <2>2, <2>6 DEF Fires, Duty!Begin
    <3> QED
      BY <3>1 DEF Duty!DNext
  <2>7. CASE Fires(4, "ASKING_FOR_DATA", check_all_data_retrieved(flags),
                   "SENDING_DATA", "power_down_interface_send_data") /\ UNCHANGED flags
    <3>1. Duty!Report
      BY <2>2, <2>7 DEF Fires, Duty!Report, check_all_data_retrieved
    <3> QED
      BY <3>1 DEF Duty!DNext
  <2>8. CASE Fires(5, "ASKING_FOR_DATA", check_data_ready(flags),
                   "RETRIEVING_DATA", "retrieve_data") /\ UNCHANGED flags
    BY <2>2, <2>8 DEF Fires
  <2>9. CASE Fires(6, "RETRIEVING_DATA", TRUE, "ASKING_FOR_DATA", "ask_for_next_data")
             /\ flags' = AfterDataRetrieved(flags)
    <3>1. Duty!Collect
      BY <2>2, <2>9 DEF Fires, Duty!Collect, AfterDataRetrieved
    <3> QED
      BY <3>1 DEF Duty!DNext
  <2>10. CASE Fires(7, "SENDING_DATA", check_data_sent_continuous(flags),
                    "WAKING_UP", "ask_again") /\ UNCHANGED flags
    <3>1. Duty!EndRound
      BY <2>2, <2>10 DEF Fires, Duty!EndRound, check_data_sent_continuous
    <3> QED
      BY <3>1 DEF Duty!DNext
  <2>11. CASE Fires(8, "SENDING_DATA", check_data_sent_not_continuous(flags),
                    "TO_SLEEP", "try_to_sleep") /\ UNCHANGED flags
    <3>1. Duty!EndRound
      BY <2>2, <2>11 DEF Fires, Duty!EndRound, check_data_sent_not_continuous
    <3> QED
      BY <3>1 DEF Duty!DNext
  <2>12. CASE Fires(9, "TO_SLEEP", check_sleep_not_possible(flags),
                    "TO_SLEEP", "try_to_sleep") /\ UNCHANGED flags
    BY <2>2, <2>12 DEF Fires
  <2>13. CASE Fires(10, "TO_SLEEP", check_sleep_possible(flags),
                    "SLEEPING", "reset_timer_sleep") /\ UNCHANGED flags
    <3>1. Duty!Leave
      BY <2>2, <2>13 DEF Fires, Duty!Leave, check_sleep_possible
    <3> QED
      BY <3>1 DEF Duty!DNext
  <2>14. CASE Fires(11, "TO_SLEEP", check_continuous_mode(flags),
                    "SLEEPING", "reset_no_timer") /\ UNCHANGED flags
    <3>1. Duty!Leave
      BY <2>2, <2>14 DEF Fires, Duty!Leave, check_continuous_mode
    <3> QED
      BY <3>1 DEF Duty!DNext
  <2> QED
    BY <2>1, <2>3, <2>4, <2>5, <2>6, <2>7, <2>8, <2>9, <2>10, <2>11, <2>12, <2>13, <2>14
    DEF ScanStep
<1>5. CASE WakeUp
  <2>1. Duty!Choose \/ UNCHANGED Duty!dvars
    BY <1>5 DEF WakeUp, ClassifyWake, Duty!Choose, emu
  <2> QED
    BY <2>1 DEF Duty!DNext
<1>6. CASE BeginReset
  BY <1>6 DEF BeginReset, emu
<1>7. CASE BeginConfigure
  BY <1>7 DEF BeginConfigure, WakeCompleted, emu
<1>8. CASE AskForNextData
  BY <1>8 DEF AskForNextData, ClearForAsk, emu
<1>9. CASE StartConv
  BY <1>9 DEF StartConv, emu
<1>10. CASE RetrieveData
  BY <1>10 DEF RetrieveData, ClearForRetrieve, emu
<1>11. CASE ReadDataSamples
  BY <1>11 DEF ReadDataSamples, emu
<1>12. CASE PowerDownInterface
  BY <1>12 DEF PowerDownInterface, RestartCount, emu
<1>13. CASE SendData
  <2>1. Duty!Deliver \/ UNCHANGED Duty!dvars
    BY <1>13 DEF SendData, AfterSend, Duty!Deliver, emu
  <2> QED
    BY <2>1 DEF Duty!DNext
<1>14. CASE AskAgainAction
  BY <1>14 DEF AskAgainAction, AskAgain, emu
<1>15. CASE TryToSleepAction
  BY <1>15 DEF TryToSleepAction, TryToSleep, emu
<1>16. CASE ClearSleepFlags
  BY <1>16 DEF ClearSleepFlags, ClearForSleep, emu
<1>17. CASE StopTimer
  BY <1>17 DEF StopTimer, emu
<1>18. CASE CloseConnections
  <2>1. Duty!Die \/ UNCHANGED Duty!dvars
    BY <1>18 DEF CloseConnections, Duty!Die, emu
  <2> QED
    BY <2>1 DEF Duty!DNext
<1>19. CASE EnterEM4
  <2>1. Duty!SwitchOff
    BY <1>19 DEF EnterEM4, ram, Duty!SwitchOff, emu
  <2> QED
    BY <2>1 DEF Duty!DNext
<1>20. CASE ChangeModePress
  <2>1. Duty!Choose \/ Duty!Die \/ UNCHANGED Duty!dvars
    BY <1>20 DEF ChangeModePress, Callback, ToggleMode, Duty!Choose, Duty!Die, emu
  <2> QED
    BY <2>1 DEF Duty!DNext
<1>21. CASE ConversionDone
  <2>1. Duty!Die \/ UNCHANGED Duty!dvars
    BY <1>21 DEF ConversionDone, Callback, MarkReady, Duty!Die, emu
  <2> QED
    BY <2>1 DEF Duty!DNext
<1>22. CASE UnaskedEdge
  <2>1. Duty!Die \/ UNCHANGED Duty!dvars
    BY <1>22 DEF UnaskedEdge, Callback, MarkReady, Duty!Die, emu
  <2> QED
    BY <2>1 DEF Duty!DNext
<1>23. CASE BurtcCompare
  BY <1>23 DEF BurtcCompare, emu
<1>24. CASE SleeptimerExpire
  <2>1. Duty!Linger \/ UNCHANGED Duty!dvars
    BY <1>24 DEF SleeptimerExpire, MarkTimer, Duty!Linger, emu
  <2> QED
    BY <2>1 DEF Duty!DNext
<1>25. CASE WakeByTimer
  <2>1. Duty!Restart
    BY <1>25 DEF WakeByTimer, FreshRam, InitialFlags, Duty!Restart, emu
  <2> QED
    BY <2>1 DEF Duty!DNext
<1>26. CASE WakeByPin
  <2>1. Duty!Restart
    BY <1>26 DEF WakeByPin, FreshRam, InitialFlags, Duty!Restart, emu
  <2> QED
    BY <2>1 DEF Duty!DNext
<1>27. CASE ExternalReset
  <2>1. Duty!Restart
    BY <1>27 DEF ExternalReset, FreshRam, InitialFlags, Duty!Restart, emu
  <2> QED
    BY <2>1 DEF Duty!DNext
<1>28. CASE UNCHANGED vars
  BY <1>28 DEF vars, ram, emu
<1> QED
  BY <1>1, <1>2, <1>3, <1>4, <1>5, <1>6, <1>7, <1>8, <1>9, <1>10, <1>11, <1>12, <1>13, <1>14, <1>15, <1>16, <1>17, <1>18, <1>19, <1>20, <1>21, <1>22, <1>23, <1>24, <1>25, <1>26, <1>27, <1>28 DEF Next, MainStep, Interrupt

\* A report holds one sample per slot, a round ends only once its report is delivered,
\* and slow mode leaves for EM4 only after the linger time.
THEOREM ImplementsDuty == Spec => ImplementsDutyCycle
BY IndInvInit, IndInvStep, DutyInit, DutyStep, PTL DEF Spec, ImplementsDutyCycle, Duty!DSpec
=============================================================================
