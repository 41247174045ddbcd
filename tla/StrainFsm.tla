------------------------------ MODULE StrainFsm ------------------------------
(***************************************************************************)
(* The sensor application of m20_strain_ble.c as it runs: the super-loop   *)
(* of main.c calls fsm_fire, which scans the transition table row by row;  *)
(* the transition functions are cut wherever an interrupt can change what  *)
(* they go on to use; four interrupt sources, the converter, the EM4       *)
(* shutoff mode and resets interleave with them.                           *)
(*                                                                         *)
(* RAM is lost at every reset.  What survives, because it is hardware: the *)
(* BURTC compare flag, the reset causes, the EM4 wake-up pin enable and    *)
(* the converter.                                                          *)
(***************************************************************************)
EXTENDS AppFlags

CONSTANTS
  SpiResults,     \* outcomes of one SPIDRV call: subset of {"ok", "fail"}
  NotifyResults,  \* outcomes of sl_bt_torque_send_data: subset of {"ok", "fail"}
  TimerResults,   \* outcomes of sl_sleeptimer_start_timer: subset of {"ok", "fail"}
  StrayOutcomes   \* what the build does on a stray access: subset of {"fault", "benign"}

ASSUME OutcomesAssumption ==
  /\ SpiResults \in SUBSET {"ok", "fail"} /\ SpiResults # {}
  /\ NotifyResults \in SUBSET {"ok", "fail"} /\ NotifyResults # {}
  /\ TimerResults \in SUBSET {"ok", "fail"} /\ TimerResults # {}
  /\ StrayOutcomes \in SUBSET {"fault", "benign"} /\ StrayOutcomes # {}

VARIABLES
  (* RAM and the main thread *)
  pc,             \* what the main thread does next
  row,            \* fsm_fire's cursor t, 0 outside a scan
  current_state,  \* fsm_t.current_state
  flags,          \* the flags of app_fsm_t
  sensor_data,    \* app_fsm_t.sensor_data
  wakeupTimer,    \* the static of BURTC_IRQHandler
  tmr,            \* TRUE while the sleeptimer runs
  (* hardware *)
  power,          \* "on", "em4" (shut off) or "fault" (spinning in HardFault_Handler)
  burtcIF,        \* BURTC compare flag not yet served
  rstCause,       \* bits RMU_ResetCauseGet reports
  pinWake,        \* EM4 wake-up enabled on the wake-up pin
  bridge,         \* level of the bridgeON pin
  tempSense,      \* TS bit in the converter's register 1
  adc,            \* "busy" between START and the falling edge of DRDY, else "idle"
  freeRunning,    \* TRUE while the converter may pulse DRDY without a START
  adcReq,         \* the conversion START asked for
  adcOut,         \* the converter's data register
  (* history *)
  round,          \* parity of the measuring round
  wokenBy,        \* what really ended the last EM4 or reset the device
  published       \* the data of the last send that returned SL_STATUS_OK

ram == <<pc, row, current_state, flags, sensor_data, wakeupTimer, tmr>>
emu == <<power, burtcIF, rstCause, pinWake>>
ads == <<bridge, tempSense, adc, freeRunning, adcReq, adcOut>>
history == <<round, wokenBy, published>>
vars == <<ram, emu, ads, history>>

-----------------------------------------------------------------------------
(***************************************************************************)
(* A sample is known by the conversion it comes from.                      *)
(***************************************************************************)
Kinds == {"strain", "temp", "zero", "torn", "unasked"}
Sample == [round : {0, 1}, slot : Slots, kind : Kinds]
Blank(k) == [round |-> 0, slot |-> 0, kind |-> k]

OutFunctions == { "wake_up", "ask_for_next_data", "ask_again", "retrieve_data",
                  "power_down_interface_send_data", "try_to_sleep",
                  "reset_timer_sleep", "reset_no_timer" }

\* Points inside a transition function where an interrupt can be seen.
CutPoints == { "begin", "begin_wait", "start_conv", "read_data_samples", "send_data",
               "stop_timer_sleep", "close_connections", "stop_timer", "enter_em4" }

\* app_init, up to each step that changes what an interrupt does.
InitPoints == { "app_init", "register_mode", "point_mode", "register_ready", "point_ready" }

PCs == OutFunctions \cup CutPoints \cup InitPoints \cup {"loop", "scan"}

FreshRam ==
  /\ pc' = "app_init" /\ row' = 0 /\ current_state' = "SLEEPING"
  /\ flags' = InitialFlags
  /\ sensor_data' = [i \in Slots |-> Blank("zero")]
  /\ wakeupTimer' = FALSE /\ tmr' = FALSE

\* First power-up.
Init ==
  /\ pc = "app_init" /\ row = 0 /\ current_state = "SLEEPING"
  /\ flags = InitialFlags
  /\ sensor_data = [i \in Slots |-> Blank("zero")]
  /\ wakeupTimer = FALSE /\ tmr = FALSE
  /\ power = "on" /\ burtcIF = FALSE /\ rstCause = {"POR"} /\ pinWake = FALSE
  /\ bridge = FALSE /\ tempSense = FALSE /\ adc = "idle" /\ freeRunning = TRUE
  /\ adcReq = Blank("zero") /\ adcOut = Blank("zero")
  /\ round = 0 /\ wokenBy = "other"
  /\ published = [i \in Slots |-> Blank("zero")]

At(p) == power = "on" /\ pc = p

-----------------------------------------------------------------------------
(***************************************************************************)
(* app_init and new_app_fsm.                                               *)
(***************************************************************************)
\* app_init to the GPIO_ExtIntConfig calls.  The compare flag survives EM4, so a
\* pending one interrupts as soon as NVIC_EnableIRQ has run.
\* Mutant: the compare flag is cleared before its interrupt is enabled.
MutInitClearsCompare ==
  /\ At("app_init")
  /\ pc' = "register_mode" /\ burtcIF' = FALSE
  /\ UNCHANGED <<row, current_state, flags, sensor_data, wakeupTimer, tmr,
                 power, rstCause, pinWake, ads, history>>
InitHardware ==
  /\ At("app_init")
  /\ pc' = "register_mode"
  /\ wakeupTimer' = burtcIF /\ burtcIF' = FALSE
  /\ UNCHANGED <<row, current_state, flags, sensor_data, tmr,
                 power, rstCause, pinWake, ads, history>>

\* new_app_fsm registers each callback, then sets the pointer the callback uses.
RegisterCallbacks ==
  /\ \/ At("register_mode") /\ pc' = "point_mode"
     \/ At("point_mode") /\ pc' = "register_ready"
     \/ At("register_ready") /\ pc' = "point_ready"
     \/ At("point_ready") /\ pc' = "loop"
  /\ UNCHANGED <<row, current_state, flags, sensor_data, wakeupTimer, tmr,
                 emu, ads, history>>

-----------------------------------------------------------------------------
(***************************************************************************)
(* fsm_fire, one row per step: interrupts come between two guards.         *)
(***************************************************************************)
FireFsm ==
  /\ At("loop")
  /\ pc' = "scan" /\ row' = 1
  /\ UNCHANGED <<current_state, flags, sensor_data, wakeupTimer, tmr, emu, ads, history>>

ScanRow ==
  /\ At("scan")
  /\ flags' = GuardEffect(row, current_state, flags)
  /\ LET t == app_fsm_tt(flags)[row]
         fires == t.orig = current_state /\ t.in
     IN  \/ /\ row = NumRows
            /\ pc' = "loop" /\ row' = 0 /\ UNCHANGED current_state
         \/ /\ row # NumRows /\ fires
            /\ pc' = t.out /\ row' = 0 /\ current_state' = t.dest
         \/ /\ row # NumRows /\ ~fires
            /\ pc' = "scan" /\ row' = row + 1 /\ UNCHANGED current_state
  /\ UNCHANGED <<sensor_data, wakeupTimer, tmr, emu, ads, history>>

-----------------------------------------------------------------------------
(***************************************************************************)
(* Transition functions.                                                   *)
(***************************************************************************)
\* wake_up, up to the reset-cause decision.
WakeUp ==
  LET em4 == "EM4" \in rstCause
  IN  /\ At("wake_up")
      /\ pc' = "begin"
      /\ flags' = ClassifyWake(flags, em4, wakeupTimer)
      /\ wakeupTimer' = (wakeupTimer /\ ~em4)
      /\ rstCause' = {} /\ pinWake' = FALSE
      /\ UNCHANGED <<row, current_state, sensor_data, tmr, power, burtcIF, ads, history>>

\* wake_up: bridge on, then begin() resets the converter, which drops a conversion ...
BeginReset ==
  /\ At("begin")
  /\ pc' = "begin_wait" /\ bridge' = TRUE
  /\ \E spi \in SpiResults : adc' = IF spi = "ok" THEN "idle" ELSE adc
  /\ UNCHANGED <<row, current_state, flags, sensor_data, wakeupTimer, tmr,
                 emu, tempSense, freeRunning, adcReq, adcOut, history>>

\* ... waits 100 ms several times, longer than any conversion takes, writes the four
\* registers (single-shot, temperature sensor off), reads them back and returns 0
\* whatever it read.  The read back of a failed transfer is an uninitialised byte that
\* temp_sense_on will write to register 1, conversion mode included.
BeginConfigure ==
  /\ At("begin_wait") /\ adc # "busy"
  /\ pc' = "loop"
  /\ \E spi \in SpiResults :
       /\ tempSense' = IF spi = "ok" THEN FALSE ELSE tempSense
       /\ freeRunning' \in IF spi = "ok" THEN {FALSE} ELSE BOOLEAN
  /\ flags' = WakeCompleted(flags)
  /\ UNCHANGED <<row, current_state, sensor_data, wakeupTimer, tmr,
                 emu, bridge, adc, adcReq, adcOut, history>>

\* Mutant: the branch of the last sensor is missing.
MutAskSkipsLast ==
  /\ At("ask_for_next_data")
  /\ flags' = ClearForAsk(flags)
  /\ pc' = IF flags.num_data_retrieved < NumSensors - 1 THEN "start_conv" ELSE "loop"
  /\ UNCHANGED <<row, current_state, sensor_data, wakeupTimer, tmr, emu, ads, history>>
AskForNextData ==
  /\ At("ask_for_next_data")
  /\ flags' = ClearForAsk(flags)
  /\ pc' = IF flags.num_data_retrieved < NumSensors THEN "start_conv" ELSE "loop"
  /\ UNCHANGED <<row, current_state, sensor_data, wakeupTimer, tmr, emu, ads, history>>

\* What the converter measures with its TS bit at ts.
KindOf(ts) == IF ts THEN "temp" ELSE "strain"

\* ask_for_next_data, rest: both branches clear the bridge pin, turn the temperature
\* sensor on and send START; either transfer may fail unnoticed.
StartConv ==
  /\ At("start_conv")
  /\ pc' = "loop" /\ bridge' = FALSE
  /\ \E ts \in SpiResults : tempSense' = IF ts = "ok" THEN TRUE ELSE tempSense
  /\ \E st \in SpiResults :
       IF st = "ok"
       THEN /\ adc' = "busy"
            /\ adcReq' = [round |-> round, slot |-> flags.num_data_retrieved,
                          kind |-> KindOf(tempSense')]
       ELSE UNCHANGED <<adc, adcReq>>
  /\ UNCHANGED <<row, current_state, flags, sensor_data, wakeupTimer, tmr,
                 emu, freeRunning, adcOut, history>>

RetrieveData ==
  /\ At("retrieve_data")
  /\ pc' = "read_data_samples" /\ flags' = ClearForRetrieve(flags)
  /\ UNCHANGED <<row, current_state, sensor_data, wakeupTimer, tmr, emu, ads, history>>

\* Three one-byte transfers; a failed one leaves an old byte in the static buffer.
ReadDataSamples ==
  /\ At("read_data_samples")
  /\ pc' = "loop"
  /\ \E spi \in SpiResults :
       sensor_data' = [sensor_data EXCEPT ![flags.num_data_retrieved] =
                         IF spi = "ok" THEN adcOut ELSE Blank("torn")]
  /\ UNCHANGED <<row, current_state, flags, wakeupTimer, tmr, emu, ads, history>>

PowerDownInterface ==
  /\ At("power_down_interface_send_data")
  /\ pc' = "send_data" /\ flags' = RestartCount(flags)
  /\ \E spi \in SpiResults : tempSense' = IF spi = "ok" THEN FALSE ELSE tempSense
  /\ UNCHANGED <<row, current_state, sensor_data, wakeupTimer, tmr,
                 emu, bridge, adc, freeRunning, adcReq, adcOut, history>>

\* Convert and send; sc is what sl_bt_torque_send_data returns.
SendData ==
  /\ At("send_data")
  /\ pc' = "loop"
  /\ \E sc \in NotifyResults :
       /\ flags' = AfterSend(flags, sc)
       /\ published' = IF sc = "ok" THEN sensor_data ELSE published
  /\ round' = 1 - round
  /\ UNCHANGED <<row, current_state, sensor_data, wakeupTimer, tmr, emu, ads, wokenBy>>

AskAgainAction ==
  /\ At("ask_again")
  /\ pc' = "loop" /\ flags' = AskAgain(flags)
  /\ UNCHANGED <<row, current_state, sensor_data, wakeupTimer, tmr, emu, ads, history>>

\* try_to_sleep starts the one-shot 20 s timer unless it runs already.  A start that fails
\* goes unnoticed, and sleep_possible_flag keeps the function from being called again.
TryToSleepAction ==
  /\ At("try_to_sleep")
  /\ pc' = "loop" /\ flags' = TryToSleep(flags)
  /\ \E st \in TimerResults : tmr' = (tmr \/ st = "ok")
  /\ UNCHANGED <<row, current_state, sensor_data, wakeupTimer, emu, ads, history>>

\* reset_timer_sleep and reset_no_timer begin alike: clear the flags, stop the timer.
ClearSleepFlags ==
  /\ \/ At("reset_timer_sleep") /\ pc' = "stop_timer_sleep"
     \/ At("reset_no_timer") /\ pc' = "stop_timer"
  /\ flags' = ClearForSleep(flags)
  /\ UNCHANGED <<row, current_state, sensor_data, wakeupTimer, tmr, emu, ads, history>>

StopTimer ==
  /\ \/ At("stop_timer_sleep") /\ pc' = "close_connections"
     \/ At("stop_timer") /\ pc' = "enter_em4"
  /\ tmr' = FALSE
  /\ UNCHANGED <<row, current_state, flags, sensor_data, wakeupTimer, emu, ads, history>>

\* reset_timer_sleep: the loop compares i with the pointer nConnections, not with the
\* number it points at, so it reads on past connections[] to the end of RAM.
CloseConnections ==
  /\ At("close_connections")
  /\ \/ /\ "fault" \in StrayOutcomes
        /\ power' = "fault" /\ UNCHANGED <<pc, pinWake>>
     \/ /\ "benign" \in StrayOutcomes
        /\ pc' = "enter_em4" /\ pinWake' = TRUE /\ UNCHANGED power
  /\ UNCHANGED <<row, current_state, flags, sensor_data, wakeupTimer, tmr,
                 burtcIF, rstCause, ads, history>>

EnterEM4 ==
  /\ At("enter_em4")
  /\ power' = "em4"
  /\ UNCHANGED <<ram, burtcIF, rstCause, pinWake, ads, history>>

MainStep ==
  \/ InitHardware \/ RegisterCallbacks \/ FireFsm \/ ScanRow
  \/ WakeUp \/ BeginReset \/ BeginConfigure
  \/ AskForNextData \/ StartConv \/ RetrieveData \/ ReadDataSamples
  \/ PowerDownInterface \/ SendData \/ AskAgainAction \/ TryToSleepAction
  \/ ClearSleepFlags \/ StopTimer \/ CloseConnections \/ EnterEM4

-----------------------------------------------------------------------------
(***************************************************************************)
(* Interrupts.  Each handler runs to completion between two main steps.    *)
(***************************************************************************)
\* An interrupt at GPIO line n reaches its callback once that is registered; between
\* the registration and the next line of new_app_fsm the callback writes through NULL.
Registered(p) ==
  /\ pc \notin {"app_init", "register_mode"}
  /\ p = "point_ready" => pc \notin {"point_mode", "register_ready"}

Callback(p, effect) ==
  IF power # "on" \/ ~Registered(p) THEN UNCHANGED <<power, flags>>
  ELSE IF pc # p THEN flags' = effect /\ UNCHANGED power
  ELSE /\ UNCHANGED flags
       /\ \/ "fault" \in StrayOutcomes /\ power' = "fault"
          \/ "benign" \in StrayOutcomes /\ UNCHANGED power

\* change_mode_callback.
ChangeModePress ==
  /\ power = "on"
  /\ Callback("point_mode", ToggleMode(flags))
  /\ UNCHANGED <<pc, row, current_state, sensor_data, wakeupTimer, tmr,
                 burtcIF, rstCause, pinWake, ads, history>>

\* ready_to_retrieve_callback at the end of the conversion START asked for ...
ConversionDone ==
  /\ adc = "busy" /\ adc' = "idle" /\ adcOut' = adcReq
  /\ Callback("point_ready", MarkReady(flags))
  /\ UNCHANGED <<pc, row, current_state, sensor_data, wakeupTimer, tmr,
                 burtcIF, rstCause, pinWake, bridge, tempSense, freeRunning,
                 adcReq, history>>

\* ... or on an edge of a converter nobody has configured yet.
UnaskedEdge ==
  /\ freeRunning /\ adcOut' = Blank("unasked")
  /\ Callback("point_ready", MarkReady(flags))
  /\ UNCHANGED <<pc, row, current_state, sensor_data, wakeupTimer, tmr,
                 burtcIF, rstCause, pinWake, bridge, tempSense, adc, freeRunning,
                 adcReq, history>>

\* The BURTC compare, every 10 s.  Before app_init enables its interrupt the flag just
\* stays up; the counter app_init resets cannot reach 10 s before wake_up has run.
\* After a power-on reset the BURTC does not count yet.
BurtcCompare ==
  /\ power = "on"
  /\ \/ /\ pc = "app_init" /\ "POR" \notin rstCause
        /\ burtcIF' = TRUE /\ UNCHANGED wakeupTimer
     \/ /\ ~flags.wakeup_timer_flag
        /\ wakeupTimer' = TRUE /\ UNCHANGED burtcIF
  /\ UNCHANGED <<pc, row, current_state, flags, sensor_data, tmr,
                 power, rstCause, pinWake, ads, history>>

\* sleeptimer_callback; the timer is one-shot.
SleeptimerExpire ==
  /\ power = "on" /\ tmr
  /\ tmr' = FALSE /\ flags' = MarkTimer(flags)
  /\ UNCHANGED <<pc, row, current_state, sensor_data, wakeupTimer, emu, ads, history>>

-----------------------------------------------------------------------------
(***************************************************************************)
(* Resets: the two ways out of EM4, and the reset pin or a power cycle.    *)
(***************************************************************************)
FreshGpio == bridge' = FALSE /\ freeRunning' = TRUE

WakeByTimer ==
  /\ power = "em4" /\ power' = "on"
  /\ burtcIF' = TRUE /\ rstCause' = rstCause \cup {"EM4"} /\ wokenBy' = "timer"
  /\ FreshRam /\ FreshGpio
  /\ UNCHANGED <<pinWake, tempSense, adc, adcReq, adcOut, round, published>>

WakeByPin ==
  /\ power = "em4" /\ pinWake /\ power' = "on"
  /\ rstCause' = rstCause \cup {"EM4"} /\ wokenBy' = "pin"
  /\ FreshRam /\ FreshGpio
  /\ UNCHANGED <<burtcIF, pinWake, tempSense, adc, adcReq, adcOut, round, published>>

\* A power cycle forgets the BURTC and the reset causes, the reset pin may keep them.
ExternalReset ==
  /\ power' = "on" /\ wokenBy' = "other"
  /\ \/ /\ rstCause' = {"POR"} /\ burtcIF' = FALSE /\ pinWake' = FALSE
     \/ /\ rstCause' = rstCause \cup {"PIN"} /\ UNCHANGED <<burtcIF, pinWake>>
  /\ FreshRam /\ FreshGpio
  /\ UNCHANGED <<tempSense, adc, adcReq, adcOut, round, published>>

Interrupt ==
  ChangeModePress \/ ConversionDone \/ UnaskedEdge \/ BurtcCompare \/ SleeptimerExpire

Next == MainStep \/ Interrupt \/ WakeByTimer \/ WakeByPin \/ ExternalReset

Spec == Init /\ [][Next]_vars

(***************************************************************************)
(* Fairness.  The super-loop never blocks (main.c: while (1)), a converter *)
(* that received START answers, a running sleeptimer expires and the BURTC *)
(* ends EM4.  Nothing is assumed of buttons, the wake-up pin and resets.   *)
(***************************************************************************)
Fairness == /\ WF_vars(MainStep)
            /\ WF_vars(ConversionDone)
            /\ WF_vars(SleeptimerExpire)
            /\ WF_vars(WakeByTimer)

FairSpec == Spec /\ Fairness

-----------------------------------------------------------------------------
(***************************************************************************)
(* Safety.                                                                 *)
(***************************************************************************)
\* Every variable has its type; in particular the sample counter stays within
\* sensor_data[] although check_data_retrieved increments it unconditionally.
RamType ==
  /\ pc \in PCs /\ row \in 0 .. NumRows /\ current_state \in States
  /\ flags \in Flags
  /\ sensor_data \in [Slots -> Sample]
  /\ wakeupTimer \in BOOLEAN /\ tmr \in BOOLEAN

EmuType ==
  /\ power \in {"on", "em4", "fault"} /\ burtcIF \in BOOLEAN
  /\ rstCause \in SUBSET {"POR", "PIN", "EM4"} /\ pinWake \in BOOLEAN

AdsType ==
  /\ bridge \in BOOLEAN /\ tempSense \in BOOLEAN
  /\ adc \in {"busy", "idle"} /\ freeRunning \in BOOLEAN
  /\ adcReq \in Sample /\ adcOut \in Sample

HistoryType ==
  /\ round \in {0, 1} /\ wokenBy \in {"timer", "pin", "other"}
  /\ published \in [Slots -> Sample]

\* The types of the program's memory, of the chip around it and of the histories.
TypeOK == RamType /\ EmuType /\ AdsType /\ HistoryType

\* When power_down_interface_send_data converts the samples, each slot holds the
\* conversion that was asked for this slot in this round: no stale or unasked DRDY edge
\* was ever taken for an answer.  (With a working SPI.)
RoundFresh ==
  At("send_data") =>
    \A i \in Slots : /\ sensor_data[i].round = round
                     /\ sensor_data[i].slot = i
                     /\ sensor_data[i].kind \in {"strain", "temp"}

\* data_sent_flag is believed in SENDING_DATA only: there it means that the data of this
\* very round has left, not that some earlier send succeeded.
SentMeansPublished ==
  current_state = "SENDING_DATA" /\ flags.data_sent_flag => published = sensor_data

\* The ask/ready handshake loses no edge: whenever the main loop waits for a sample, the
\* conversion is under way or its edge is already recorded.  (With a working SPI.)
NoLostReady ==
  /\ power = "on" /\ current_state = "ASKING_FOR_DATA" /\ pc \in {"loop", "scan"}
  /\ flags.num_data_retrieved < NumSensors
  => adc = "busy" \/ flags.data_ready_flag

\* wake_up takes a wake-up by the BURTC for slow mode, whatever was pressed, pending or
\* reset on the way from EM4 to wake_up.
TimerWakeIsSlow ==
  [][At("wake_up") /\ pc' = "begin" /\ wokenBy = "timer"
       => ~flags'.change_mode_flag]_vars

\* Two rows of app_fsm_tt never fire: SLEEPING is left through wakeup_timer_flag, and
\* TO_SLEEP does not loop, because try_to_sleep has raised sleep_possible_flag.
DeadRows ==
  [][At("scan") /\ pc' \in OutFunctions => row \notin {2, 9}]_vars

-----------------------------------------------------------------------------
(***************************************************************************)
(* Liveness: what gets done, for stray accesses of every outcome.          *)
(***************************************************************************)
\* A round once begun, by wake_up or by ask_again, comes to its report, whatever the button
\* does meanwhile: no DRDY edge is lost and no slot is counted twice or not at all.  Only a
\* reset can cut the round short.  (With a working SPI.)
EveryRoundEnds == At("wake_up") \/ At("ask_again") ~> At("send_data") \/ pc \in InitPoints

\* From some time on nobody resets the device or presses the button.
LeftAlone == <>[][~ExternalReset /\ ~ChangeModePress]_vars

\* The two guards that test the mode in opposite senses leave no gap for good: once the
\* button rests, a report that was sent is followed by the next round or by the rest before
\* sleep, if no reset comes first.
ReportIsActedOn ==
  LeftAlone =>
    (flags.data_sent_flag ~> At("ask_again") \/ At("try_to_sleep") \/ pc \in InitPoints)

\* The linger timer, once it was started, is not lost: it runs out in TO_SLEEP, its flag
\* outlives the rest of the scan and a row takes it, so the program gets to closing the
\* connections, or straight to EM4 in continuous mode, if no reset comes first.  How the
\* closing ends, and a timer that fails to start, are other matters.
LingerEnds ==
  LeftAlone =>
    (current_state = "TO_SLEEP" /\ (tmr \/ flags.tmr_flag)
       ~> At("close_connections") \/ At("enter_em4") \/ pc \in InitPoints)

-----------------------------------------------------------------------------
(***************************************************************************)
(* What comments and the readme say of the program.                        *)
(***************************************************************************)
\* m20_strain_ble.c, ask_for_next_data: "Ask for strain data" for the slots before the last.
StrainSlotsHoldStrain ==
  At("send_data") =>
    \A i \in Slots : i < NumSensors - 1 => sensor_data[i].kind = "strain"

\* m20_strain_ble.c, wake_up: "Determine whether reset is due to pin (switch to continuous
\* mode) or timer (slow mode)".
PinWakeIsContinuous ==
  [][At("wake_up") /\ pc' = "begin" /\ wokenBy = "pin"
       => flags'.change_mode_flag]_vars

\* m20_strain_ble.c, reset_timer_sleep: "Close connections before going to sleep": sleep is
\* what follows the closing.
SleepFollowsClosing ==
  LeftAlone => (pc = "reset_timer_sleep" ~> power = "em4" \/ pc = "app_init")

\* readme.md: after the retrieval "the information is to be transmitted through BLE".
EveryRoundTransmitted ==
  LeftAlone => (At("send_data") ~> flags.data_sent_flag)
=============================================================================
