------------------------------ MODULE AppFlags ------------------------------
(***************************************************************************)
(* The data half of the sensor application: the flags of app_fsm_t, the    *)
(* eleven guard functions that read them, the transition table fsm_fire    *)
(* scans, and the effect of each transition function on the flags.         *)
(*                                                                         *)
(* Every operator is a function of a flags record u, so the concurrent     *)
(* module StrainFsm decides when each of them runs.  The C flags are       *)
(* uint8_t holding 0 or 1; they are Booleans here.                         *)
(***************************************************************************)
EXTENDS Naturals, Sequences

CONSTANT NumSensors   \* entries of sensor_data[]: three strain gauges, one thermometer

ASSUME NumSensorsAssumption == NumSensors \in Nat \ {0}

Slots == 0 .. NumSensors - 1

\* Flags that only hold 0 or 1, and the sample counter.
Flags == [ wakeup_timer_flag     : BOOLEAN,
           wakeup_completed_flag : BOOLEAN,
           data_ready_flag       : BOOLEAN,
           data_retrieved_flag   : BOOLEAN,
           data_sent_flag        : BOOLEAN,
           sleep_possible_flag   : BOOLEAN,
           tmr_flag              : BOOLEAN,
           change_mode_flag      : BOOLEAN,
           num_data_retrieved    : 0 .. NumSensors ]

\* new_app_fsm: only wakeup_timer_flag is set, "to activate the FSM".
InitialFlags == [ wakeup_timer_flag     |-> TRUE,
                  wakeup_completed_flag |-> FALSE,
                  data_ready_flag       |-> FALSE,
                  data_retrieved_flag   |-> FALSE,
                  data_sent_flag        |-> FALSE,
                  sleep_possible_flag   |-> FALSE,
                  tmr_flag              |-> FALSE,
                  change_mode_flag      |-> FALSE,
                  num_data_retrieved    |-> 0 ]

-----------------------------------------------------------------------------
(***************************************************************************)
(* Guard functions.                                                        *)
(***************************************************************************)
check_wakeup_timer(u) == u.wakeup_timer_flag
check_change_mode(u) == u.change_mode_flag
check_wakeup_completed(u) == u.wakeup_completed_flag

check_all_data_retrieved(u) == u.num_data_retrieved = NumSensors

check_data_ready(u) == u.data_ready_flag /\ u.num_data_retrieved # NumSensors

\* check_data_retrieved writes before it answers: AfterDataRetrieved is what it leaves.
sensorsReadCheck == TRUE
check_data_retrieved(u) == sensorsReadCheck

\* Mutant: the counter is not advanced for the temperature slot.
MutCountSkipsLast(u) ==
  [u EXCEPT !.data_retrieved_flag = sensorsReadCheck,
            !.num_data_retrieved = IF @ + 1 < NumSensors THEN @ + 1 ELSE @]
AfterDataRetrieved(u) ==
  [u EXCEPT !.data_retrieved_flag = sensorsReadCheck,
            !.num_data_retrieved = @ + 1]

check_data_sent_continuous(u) == u.data_sent_flag /\ u.change_mode_flag
\* Mutant: the second of the two guards tests the mode in the same sense as the first.
MutSentSameSense(u) == u.data_sent_flag /\ u.change_mode_flag
check_data_sent_not_continuous(u) == u.data_sent_flag /\ ~u.change_mode_flag
check_sleep_not_possible(u) == ~u.sleep_possible_flag /\ ~u.change_mode_flag

\* Mutant: the 20 s linger is not awaited.
MutSleepWithoutTimer(u) == u.sleep_possible_flag /\ ~u.change_mode_flag
check_sleep_possible(u) ==
  u.sleep_possible_flag /\ ~u.change_mode_flag /\ u.tmr_flag
check_continuous_mode(u) == u.change_mode_flag

-----------------------------------------------------------------------------
(***************************************************************************)
(* The transition table.  "in" is the guard's value in u, so a row is read *)
(* as  orig --in/out--> dest.  The last row is the sentinel of app_fsm_tt, *)
(* whose negative orig_state ends the scan.                                *)
(***************************************************************************)
States == { "SLEEPING", "WAKING_UP", "ASKING_FOR_DATA", "RETRIEVING_DATA",
            "SENDING_DATA", "TO_SLEEP" }

Row(orig, in, dest, out) == [orig |-> orig, in |-> in, dest |-> dest, out |-> out]

app_fsm_tt(u) == <<
  Row("SLEEPING", check_wakeup_timer(u), "WAKING_UP", "wake_up"),
  Row("SLEEPING", check_change_mode(u), "WAKING_UP", "wake_up"),
  Row("WAKING_UP", check_wakeup_completed(u), "ASKING_FOR_DATA", "ask_for_next_data"),
  Row("ASKING_FOR_DATA", check_all_data_retrieved(u), "SENDING_DATA",
      "power_down_interface_send_data"),
  Row("ASKING_FOR_DATA", check_data_ready(u), "RETRIEVING_DATA", "retrieve_data"),
  Row("RETRIEVING_DATA", check_data_retrieved(u), "ASKING_FOR_DATA", "ask_for_next_data"),
  Row("SENDING_DATA", check_data_sent_continuous(u), "WAKING_UP", "ask_again"),
  Row("SENDING_DATA", check_data_sent_not_continuous(u), "TO_SLEEP", "try_to_sleep"),
  Row("TO_SLEEP", check_sleep_not_possible(u), "TO_SLEEP", "try_to_sleep"),
  Row("TO_SLEEP", check_sleep_possible(u), "SLEEPING", "reset_timer_sleep"),
  Row("TO_SLEEP", check_continuous_mode(u), "SLEEPING", "reset_no_timer"),
  Row("END", FALSE, "END", "END") >>

NumRows == 12

\* The flags a row's guard leaves behind: the scan calls it in the row's own state only.
\* Mutant: the guard is called before the state is compared.
MutGuardBeforeState(row, s, u) == IF row = 6 THEN AfterDataRetrieved(u) ELSE u
GuardEffect(row, s, u) ==
  IF row = 6 /\ s = "RETRIEVING_DATA" THEN AfterDataRetrieved(u) ELSE u

-----------------------------------------------------------------------------
(***************************************************************************)
(* What each transition function does to the flags.                        *)
(***************************************************************************)
\* wake_up up to the reset-cause test; em4 says that EMU_RSTCAUSE_EM4 is set.
ClassifyWake(u, em4, timer) ==
  [u EXCEPT !.wakeup_timer_flag = FALSE,
            !.change_mode_flag = IF em4 THEN ~timer ELSE @]

WakeCompleted(u) == [u EXCEPT !.wakeup_completed_flag = TRUE]

\* ask_for_next_data, before it talks to the converter.
\* Mutant: the clear marked "for safety" is dropped.
MutAskKeepsReady(u) ==
  [u EXCEPT !.wakeup_completed_flag = FALSE, !.data_retrieved_flag = FALSE]
ClearForAsk(u) ==
  [u EXCEPT !.wakeup_completed_flag = FALSE,
            !.data_retrieved_flag = FALSE,
            !.data_ready_flag = FALSE]

ClearForRetrieve(u) ==
  [u EXCEPT !.data_ready_flag = FALSE, !.data_retrieved_flag = FALSE]

\* Mutant: data_sent_flag survives into the next round.
MutAskAgainKeepsSent(u) == [u EXCEPT !.wakeup_completed_flag = TRUE]
AskAgain(u) ==
  [u EXCEPT !.data_sent_flag = FALSE, !.wakeup_completed_flag = TRUE]

\* power_down_interface_send_data: the counter restarts before anything is sent.
RestartCount(u) == [u EXCEPT !.num_data_retrieved = 0]

AfterSend(u, sc) ==
  [u EXCEPT !.data_sent_flag = IF sc = "ok" THEN TRUE ELSE @]

\* Mutant: the sleep_possible flag is not raised, so the self-loop comes alive.
MutTryKeepsSleepFlag(u) == [u EXCEPT !.data_sent_flag = FALSE]
TryToSleep(u) ==
  [u EXCEPT !.data_sent_flag = FALSE, !.sleep_possible_flag = TRUE]

ClearForSleep(u) ==
  [u EXCEPT !.sleep_possible_flag = FALSE, !.tmr_flag = FALSE]

-----------------------------------------------------------------------------
(***************************************************************************)
(* What the interrupt callbacks do to the flags.                           *)
(***************************************************************************)
ToggleMode(u) == [u EXCEPT !.change_mode_flag = ~@]
MarkReady(u) == [u EXCEPT !.data_ready_flag = TRUE]
MarkTimer(u) == [u EXCEPT !.tmr_flag = TRUE]
=============================================================================
