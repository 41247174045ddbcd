------------------------------ MODULE DutyCycle ------------------------------
(***************************************************************************)
(* What the sensor promises, without flags, interrupts or program points:  *)
(* it starts, collects one sample per slot, reports them until a report    *)
(* has been delivered, and then either goes round again (continuous mode)  *)
(* or rests before it leaves for EM4 (slow mode).  StrainFsm implements it *)
(* (module StrainDuty).                                                    *)
(***************************************************************************)
EXTENDS Naturals

CONSTANT NumSensors

VARIABLES
  phase,       \* what the device is doing
  collected,   \* slots filled in this round, while measuring
  delivered,   \* the report was accepted by the radio, while reporting
  lingered,    \* the rest has lasted its full time, while resting
  continuous   \* the mode: TRUE to go round again, FALSE to sleep between rounds

dvars == <<phase, collected, delivered, lingered, continuous>>

Phases == {"starting", "measuring", "reporting", "resting", "leaving", "off", "dead"}

DInit ==
  /\ phase = "starting" /\ collected = 0 /\ ~delivered /\ ~lingered /\ ~continuous

\* The user, or the reason of the wake-up, chooses the mode.
Choose ==
  /\ phase \notin {"off", "dead"}
  /\ continuous' = ~continuous
  /\ UNCHANGED <<phase, collected, delivered, lingered>>

Begin ==
  /\ phase = "starting" /\ phase' = "measuring"
  /\ UNCHANGED <<collected, delivered, lingered, continuous>>

Collect ==
  /\ phase = "measuring" /\ collected < NumSensors
  /\ collected' = collected + 1
  /\ UNCHANGED <<phase, delivered, lingered, continuous>>

\* A report needs every slot.
Report ==
  /\ phase = "measuring" /\ collected = NumSensors
  /\ phase' = "reporting" /\ collected' = 0
  /\ UNCHANGED <<delivered, lingered, continuous>>

Deliver ==
  /\ phase = "reporting" /\ delivered' = TRUE
  /\ UNCHANGED <<phase, collected, lingered, continuous>>

\* The round ends only once its report is delivered, and the mode says how.
EndRound ==
  /\ phase = "reporting" /\ delivered
  /\ phase' = IF continuous THEN "starting" ELSE "resting"
  /\ delivered' = FALSE
  /\ UNCHANGED <<collected, lingered, continuous>>

Linger ==
  /\ phase = "resting" /\ lingered' = TRUE
  /\ UNCHANGED <<phase, collected, delivered, continuous>>

\* In slow mode the device lingers for late clients before it leaves; a change to
\* continuous mode cuts the rest short.
Leave ==
  /\ phase = "resting" /\ (lingered \/ continuous)
  /\ phase' = "leaving" /\ lingered' = FALSE
  /\ UNCHANGED <<collected, delivered, continuous>>

SwitchOff ==
  /\ phase = "leaving" /\ phase' = "off"
  /\ UNCHANGED <<collected, delivered, lingered, continuous>>

\* A stray access may end everything while callbacks are registered or connections closed.
Die ==
  /\ phase \in {"starting", "leaving"} /\ phase' = "dead"
  /\ UNCHANGED <<collected, delivered, lingered, continuous>>

\* A wake-up from EM4 or a reset forgets the round and the mode.
Restart ==
  /\ phase' = "starting" /\ collected' = 0
  /\ delivered' = FALSE /\ lingered' = FALSE /\ continuous' = FALSE

DNext ==
  \/ Choose \/ Begin \/ Collect \/ Report \/ Deliver \/ EndRound
  \/ Linger \/ Leave \/ SwitchOff \/ Die \/ Restart

DSpec == DInit /\ [][DNext]_dvars
=============================================================================
