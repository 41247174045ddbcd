------------------------------ MODULE StrainInv ------------------------------
(***************************************************************************)
(* The inductive invariant of StrainFsm.  Control relates the program      *)
(* point, current_state, the sample counter and the flags that steer       *)
(* fsm_fire; Waking, what survives a reset until wake_up reads it; Sending *)
(* and Data, the samples and the converter.  All but Data hold for every   *)
(* outcome of the SPI.                                                     *)
(***************************************************************************)
EXTENDS StrainFsm

SleepPoints == { "reset_timer_sleep", "reset_no_timer", "stop_timer_sleep",
                 "close_connections", "stop_timer", "enter_em4" }

\* The main thread is between two transition functions.
Between == pc \in {"loop", "scan"}

\* The state a program point belongs to, where it belongs to one only.
StateAt ==
  /\ pc \in InitPoints \cup SleepPoints => current_state = "SLEEPING"
  /\ pc \in {"wake_up", "begin", "begin_wait", "ask_again"} => current_state = "WAKING_UP"
  /\ pc \in {"ask_for_next_data", "start_conv"} => current_state = "ASKING_FOR_DATA"
  /\ pc \in {"retrieve_data", "read_data_samples"} => current_state = "RETRIEVING_DATA"
  /\ pc \in {"power_down_interface_send_data", "send_data"} => current_state = "SENDING_DATA"
  /\ pc = "try_to_sleep" => current_state = "TO_SLEEP"

CounterAt ==
  /\ current_state = "RETRIEVING_DATA" => flags.num_data_retrieved < NumSensors
  /\ pc = "start_conv" => flags.num_data_retrieved < NumSensors
  /\ current_state \in {"SLEEPING", "WAKING_UP", "TO_SLEEP"} => flags.num_data_retrieved = 0
  /\ current_state = "SENDING_DATA" /\ pc # "power_down_interface_send_data"
       => flags.num_data_retrieved = 0

FlagsAt ==
  /\ pc = "scan" => row \in 1 .. NumRows
  /\ current_state = "SLEEPING" /\ Between => flags.wakeup_timer_flag
  /\ pc \in InitPoints \cup {"wake_up"} => flags.wakeup_timer_flag
  /\ current_state = "SLEEPING" /\ pc = "scan" => row = 1
  /\ current_state = "TO_SLEEP" /\ Between => flags.sleep_possible_flag

\* The linger timer and its flag belong to TO_SLEEP; EM4 forgets them.
TimerAt == tmr \/ flags.tmr_flag => current_state = "TO_SLEEP" \/ pc \in SleepPoints

Control == StateAt /\ CounterAt /\ FlagsAt /\ TimerAt

\* app_init, fsm_fire's first scan and wake_up up to the decision.
BeforeWake ==
  \/ pc \in InitPoints
  \/ current_state = "SLEEPING" /\ Between
  \/ pc = "wake_up"

Waking ==
  power = "on" /\ BeforeWake /\ wokenBy = "timer" =>
    /\ "EM4" \in rstCause
    /\ IF pc = "app_init" THEN burtcIF ELSE wakeupTimer

\* data_sent_flag lives from the send to the function that follows it.
Sending ==
  /\ flags.data_sent_flag =>
       \/ current_state = "SENDING_DATA" /\ Between
       \/ pc \in {"ask_again", "try_to_sleep"}
  /\ SentMeansPublished

-----------------------------------------------------------------------------
Fresh(s, i) == s.round = round /\ s.slot = i /\ s.kind \in {"strain", "temp"}

\* begin() has not put the converter into single-shot mode yet.
Unconfigured == BeforeWake \/ pc \in {"begin", "begin_wait"}

Converter ==
  /\ ~Unconfigured => ~freeRunning
  /\ ~Unconfigured /\ adc = "busy" =>
       /\ current_state = "ASKING_FOR_DATA" /\ Between
       /\ ~flags.data_ready_flag /\ flags.num_data_retrieved < NumSensors
       /\ Fresh(adcReq, flags.num_data_retrieved)
  /\ pc = "start_conv" => ~flags.data_ready_flag
  /\ current_state = "ASKING_FOR_DATA" /\ Between /\ flags.data_ready_flag
       => flags.num_data_retrieved < NumSensors /\ Fresh(adcOut, flags.num_data_retrieved)
  /\ pc \in {"retrieve_data", "read_data_samples"}
       => Fresh(adcOut, flags.num_data_retrieved)

\* The slots below the counter are filled; with the sample just read, the next one too.
Filled ==
  /\ current_state \in {"ASKING_FOR_DATA", "RETRIEVING_DATA"}
       => \A i \in Slots : i < flags.num_data_retrieved => Fresh(sensor_data[i], i)
  /\ current_state = "RETRIEVING_DATA" /\ Between
       => Fresh(sensor_data[flags.num_data_retrieved], flags.num_data_retrieved)
  /\ pc \in {"power_down_interface_send_data", "send_data"}
       => \A i \in Slots : Fresh(sensor_data[i], i)

Data == Converter /\ Filled /\ NoLostReady

IndInv == TypeOK /\ Control /\ Waking /\ Sending
DataInv == IndInv /\ Data
=============================================================================
