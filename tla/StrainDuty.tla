----------------------------- MODULE StrainDuty -----------------------------
(***************************************************************************)
(* The sensor application implements the duty cycle: every step of         *)
(* StrainFsm is a step of DutyCycle or changes nothing that DutyCycle sees.*)
(***************************************************************************)
EXTENDS StrainInv

PhaseOf == [ SLEEPING |-> "starting", WAKING_UP |-> "starting",
             ASKING_FOR_DATA |-> "measuring", RETRIEVING_DATA |-> "measuring",
             SENDING_DATA |-> "reporting", TO_SLEEP |-> "resting" ]

Phase ==
  IF power = "em4" THEN "off"
  ELSE IF power = "fault" THEN "dead"
  ELSE IF pc \in SleepPoints THEN "leaving"
  ELSE PhaseOf[current_state]

Collected == IF Phase = "measuring" THEN flags.num_data_retrieved ELSE 0
Delivered == Phase = "reporting" /\ flags.data_sent_flag
Lingered == Phase = "resting" /\ flags.tmr_flag
Continuous == flags.change_mode_flag

Duty == INSTANCE DutyCycle WITH
  phase <- Phase, collected <- Collected, delivered <- Delivered,
  lingered <- Lingered, continuous <- Continuous

\* A report is made of one sample per slot, a round ends only once it is delivered, and
\* slow mode leaves for EM4 only after the linger time, whatever interrupts do to the
\* flags between the guard that read them and the step that follows.
ImplementsDutyCycle == Duty!DSpec
=============================================================================
