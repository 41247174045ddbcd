----------------------------- MODULE M20System -----------------------------
(***************************************************************************)
(* The whole program: the calls of StartUp, then the super-loop of main.c, *)
(* which gives one turn to the Bluetooth stack (one event of AppBle) and   *)
(* one to fsm_fire (a scan of StrainFsm and the function it ends in).  The *)
(* boot event comes when the stack's start-up is over, which takes it some *)
(* turns; a reset starts everything anew.                                  *)
(***************************************************************************)
EXTENDS StrainFsm, StartUp

CONSTANTS
  TableSize, Padding, Handles, Statuses, MaxSessions,   \* of AppBle
  BootTurns   \* turns the stack takes at most before it hands out the boot event

VARIABLES
  app, events, booted, connections, nConnections, advertising, links, sessions,   \* of AppBle
  at,      \* the start-up call the main thread is at, Started in the super-loop
  turn,    \* whose turn it is at pc = "loop": "stack" or "fsm"
  turns    \* turns the stack has had, up to BootTurns

ble == <<app, events, booted, connections, nConnections, advertising, links, sessions>>
loopVars == <<at, turn, turns>>
allVars == <<vars, ble, loopVars>>

Ble == INSTANCE AppBle

\* What AppBle assumes of its parameters.
ASSUME BleAssumption ==
  /\ TableSize \in Nat \ {0} /\ Padding \in Nat /\ MaxSessions \in Nat
  /\ Handles \subseteq 1 .. TableSize + Padding /\ Handles # {}
  /\ Statuses \subseteq {"ok", "fail"} /\ Statuses # {}

ASSUME BootAssumption == BootTurns \in Nat \ {0}

SysInit == Init /\ Ble!Init /\ at = 1 /\ turn = "stack" /\ turns = 0

-----------------------------------------------------------------------------
(***************************************************************************)
(* The main thread.                                                        *)
(***************************************************************************)
\* Start-up calls that change what StrainFsm models.
Registrations == { "register_change_mode_callback", "point_change_mode_flag",
                   "register_ready_to_retrieve_callback", "point_data_ready_flag" }

\* One call of sl_system_init, app_init or new_app_fsm.
StartUpCall ==
  /\ power = "on" /\ at < Started /\ at' = at + 1
  /\ \/ Calls[at] = "NVIC_EnableIRQ_BURTC" /\ InitHardware
     \/ Calls[at] \in Registrations /\ RegisterCallbacks
     \/ Calls[at] \notin Registrations \cup {"NVIC_EnableIRQ_BURTC"} /\ UNCHANGED vars
  /\ UNCHANGED <<turn, turns, ble>>

\* sl_system_process_action: of its four parts only the stack's does something.
sl_stack_process_action ==
  At("loop") /\ at = Started /\ app = "run" /\ turn = "stack" /\ turn' = "fsm"

\* sl_bt_step: at most one event is popped; the boot event may not have come yet.
BootPending == events # <<>> /\ Head(events) = Ble!Boot
sl_bt_step ==
  /\ sl_stack_process_action
  /\ turns' = IF turns < BootTurns THEN turns + 1 ELSE turns
  /\ \/ Ble!Handle
     \/ /\ events = <<>> \/ (BootPending /\ turns' < BootTurns)
        /\ UNCHANGED ble
  /\ UNCHANGED <<vars, at>>

\* What a step of StrainFsm means for the Bluetooth side: power that goes takes the radio
\* along, reset_timer_sleep begins to close connections.
\* Mutant: the stack's events are handled on while connections are being closed.
MutFollowsPowerOnly ==
  IF power = "on" /\ power' # "on" THEN Ble!Sleep ELSE UNCHANGED ble
BleFollows ==
  IF power = "on" /\ power' # "on" THEN Ble!Sleep
  ELSE IF pc = "stop_timer_sleep" /\ pc' = "close_connections" THEN Ble!BeginClose
  ELSE UNCHANGED ble

\* app_process_action: fsm_fire.  Neither runs on once app_assert spins.
\* Mutant: the super-loop gives the FSM its turns without the stack.
MutFsmTurn ==
  /\ at = Started /\ app # "assert" /\ (pc = "loop" => turn = "fsm")
  /\ MainStep /\ BleFollows
  /\ UNCHANGED <<at, turn, turns>>
app_process_action ==
  /\ at = Started /\ app # "assert" /\ (pc = "loop" => turn = "fsm")
  /\ MainStep /\ BleFollows
  /\ turn' = IF pc' = "loop" THEN "stack" ELSE turn
  /\ UNCHANGED <<at, turns>>

\* The closing loop of reset_timer_sleep, as AppBle has it.
CloseOne == At("close_connections") /\ Ble!CloseOne /\ UNCHANGED <<vars, loopVars>>

-----------------------------------------------------------------------------
\* Interrupts come at any moment, during start-up too.
SysInterrupt == Interrupt /\ BleFollows /\ UNCHANGED loopVars

SysReset ==
  /\ WakeByTimer \/ WakeByPin \/ ExternalReset
  /\ Ble!Reset /\ at' = 1 /\ turn' = "stack" /\ turns' = 0

\* The radio and the clients.
Clients == (Ble!ClientOpens \/ Ble!LinkLost) /\ UNCHANGED <<vars, loopVars>>

SysNext ==
  \/ StartUpCall \/ sl_bt_step \/ app_process_action \/ CloseOne
  \/ SysInterrupt \/ SysReset \/ Clients

SysSpec == SysInit /\ [][SysNext]_allVars

\* The fairness of StrainFsm, with start-up and the stack's turns as parts of the main thread.
SysFairSpec ==
  /\ SysSpec
  /\ WF_allVars(StartUpCall) /\ WF_allVars(sl_bt_step) /\ WF_allVars(app_process_action)
  /\ WF_allVars(ConversionDone /\ SysInterrupt) /\ WF_allVars(SleeptimerExpire /\ SysInterrupt)
  /\ WF_allVars(WakeByTimer /\ SysReset)

-----------------------------------------------------------------------------
\* Every variable has its type, and the halves agree on where the program is.
SysTypeOK ==
  /\ TypeOK /\ Ble!TypeOK
  /\ at \in 1 .. Started /\ turn \in {"stack", "fsm"} /\ turns \in 0 .. BootTurns
  /\ at < Started => pc \in InitPoints \cup {"loop"} /\ turns = 0 /\ ~booted
  /\ app = "asleep" <=> power # "on"
  /\ pc = "close_connections" /\ power = "on" => app = "closing"

\* Nothing is used before it is set up: whatever the start-up calls, the super-loop or a
\* transition function does next, all it needs is among the calls made since the reset; and
\* the super-loop starts with every component of the catalogue set up.
Here == IF at < Started THEN Calls[at] ELSE IF pc = "loop" /\ turn = "stack" THEN "sl_bt_step" ELSE pc
UsedAfterInit ==
  power = "on" =>
    /\ Needs(Here) \subseteq Made(at)
    /\ at = Started => \A c \in Catalog \cap DOMAIN SetUpBy : SetUpBy[c] \in Made(at)

\* Whatever runs by then runs from a clock that is there and is the one meant: no branch is
\* switched to an oscillator not yet started; the BURTC, whose compare value of 10000 is ten
\* seconds of the 1 kHz ULFRCO, never counts the crystal its branch was first given, nor does
\* the sleeptimer restart it; the stack, which serves connections, starts with a clock that is
\* accurate enough, and the log with one that gives its bit rate; EM4 is set up only where the
\* LFRCO's mode allows it.
ClocksRun ==
  LET clocks == Clocks(at)
      running == Running(at)
  IN  /\ \A branch \in DOMAIN clocks : clocks[branch] \in running
      /\ "BURTC_Init" \in Made(at) => clocks.EM4GRPACLK = "ULFRCO"
      /\ "sl_sleeptimer_init" \in Made(at) =>
           SleeptimerUses # "BURTC" /\ clocks[SleeptimerUses] = "LFXO"
      /\ "sl_iostream_eusart_init_vcom" \in Made(at) =>
           clocks[init_vcom.branch] = "HFXO" \/ init_vcom.baudrate <= 9600
      /\ "sl_bt_init" \in Made(at) /\ ~InaccurateLfclk =>
           clocks.EM23GRPACLK = "LFXO" /\ SL_DEVICE_INIT_LFXO_PRECISION <= SleepClockAccuracy
      /\ "EMU_EM4Init" \in Made(at) => SL_DEVICE_INIT_LFRCO_PRECISION # "high"

\* No two drivers of this firmware have the same pin at any moment of the start-up, though
\* each takes its pins from a header of its own; no driver takes another pin for a signal
\* than the pin tool has on record; and by the super-loop every signal on record is taken.
PinsApart ==
  /\ at < Started =>
       /\ \A call \in Made(at) : Pins(Takes(call)) \cap Uses(Calls[at]) = {}
       /\ LET signals == Takes(Calls[at])
          IN  \A s \in DOMAIN signals \cap DOMAIN pin_config : signals[s] = pin_config[s]
  /\ at = Started => \A s \in DOMAIN pin_config : \E call \in Made(at) : s \in DOMAIN Takes(call)

\* An edge never writes astray but between two neighbouring statements of new_app_fsm, on
\* one line at a time and there only, and StrainFsm sees it alike; in the super-loop each
\* line is fed by the pin of its signal and its callback sets the flag the FSM waits for.
\* A press and a sample raise one edge each: the inputs rest high and only the falling edge
\* counts.  The bridge is off until wake_up; the pin armed for EM4 is the wake-up button,
\* which rests at the level that does not wake; and EM4 lets go of the pins, the bridge's too.
LinesServed ==
  /\ \A m, n \in Lines : Stray(m, at) /\ Stray(n, at) => m = n
  /\ Stray(1, at) <=> at < Started /\ pc = "point_mode"
  /\ Stray(2, at) <=> at < Started /\ pc = "point_ready"
  /\ at < Started => bridge = (bridgeON.out = 1) /\ bridgeON.mode = "output"
  /\ at = Started =>
       /\ \A n \in Lines : /\ Writes(n, at) /\ ExtInt[n].falling /\ ~ExtInt[n].rising
                          /\ ExtInt[n].pin \in Uses("sl_emlib_gpio_simple_init")
       /\ ExtInt[1].pin = changeMode.pin /\ changeMode.mode = "input_pull" /\ changeMode.out = 1
       /\ ExtInt[2].pin = dataReady.pin /\ dataReady.mode = "input"
       /\ EM4WU[EM4WU_EM4WUEN_NUM] = emuWakeup.pin
       /\ emuWakeup.mode = "input_pull" /\ emuWakeup.out # EM4WakeLevel
       /\ PinRetention(at) = "disable"

\* app.c, sl_bt_on_event: "Do not call any stack command before receiving this boot event!"
\* fsm_fire runs from the first pass on; its first command waits for a whole round, which
\* takes 2 * NumSensors + 3 turns: two for the way from SLEEPING to the first request, two per
\* slot, one for the send.  So it holds of a stack that boots within so many turns.
NoCommandBeforeBoot == At("send_data") \/ At("close_connections") => booted

\* From some time on nobody resets the device or presses the button.
SysLeftAlone == <>[][~(SysReset /\ ExternalReset) /\ ~(SysInterrupt /\ ChangeModePress)]_allVars

\* The sensor can be met: it advertises, or it serves a client.
CanBeMet == advertising \/ links # {}

\* A device left alone gets from every reset, and from EM4, to where a client can meet it: the
\* BURTC or an earlier reset starts it, the calls of the start-up come to their end, the stack
\* boots and its handler advertises.  Excepted are a command that fails, which app_assert
\* answers, and an edge that writes astray in new_app_fsm.  A device that took the fault
\* handler's loop for EM4, in closing, is not among them: only a reset helps it.
MeetsClients ==
  SysLeftAlone =>
    (power = "em4" \/ at < Started
       ~> CanBeMet \/ app = "assert" \/ (power = "fault" /\ at < Started))

\* While the super-loop runs, whatever the FSM is busy with and whoever presses the button, a
\* sensor that cannot be met will be again, unless app_assert spins, a reset comes or the
\* program leaves for sleep.
FoundWhileRunning ==
  at = Started /\ power = "on"
    ~> CanBeMet \/ app \in {"assert", "closing"} \/ power = "em4" \/ at < Started
=============================================================================
