------------------------------ MODULE StartUp ------------------------------
(***************************************************************************)
(* The way from reset to the super-loop: the calls of sl_system_init, as   *)
(* sl_event_handler.c lists them, then app_init and new_app_fsm; what each *)
(* call needs and gives, the clocks and pins each takes, and what the      *)
(* calls so far mean for an edge on an interrupt line.  A state of the     *)
(* start-up is the number of the call the main thread is at.               *)
(***************************************************************************)
EXTENDS Naturals, Sequences

-----------------------------------------------------------------------------
(***************************************************************************)
(* The calls.                                                              *)
(***************************************************************************)
\* Mutant: the clocks are selected before the crystal runs.
MutClocksBeforeCrystal ==
  << "CHIP_Init", "sl_device_init_nvic", "sl_board_preinit", "sl_device_init_dcdc",
     "sl_hfxo_manager_init_hardware", "sl_device_init_hfxo", "sl_device_init_lfrco",
     "sl_device_init_clocks", "sl_device_init_lfxo", "sl_device_init_emu", "sl_board_init",
     "bootloader_init", "nvm3_initDefault", "sl_power_manager_init" >>
sl_platform_init ==
  << "CHIP_Init", "sl_device_init_nvic", "sl_board_preinit", "sl_device_init_dcdc",
     "sl_hfxo_manager_init_hardware", "sl_device_init_hfxo", "sl_device_init_lfrco",
     "sl_device_init_lfxo", "sl_device_init_clocks", "sl_device_init_emu", "sl_board_init",
     "bootloader_init", "nvm3_initDefault", "sl_power_manager_init" >>

sl_driver_init ==
  << "sl_debug_swo_init", "sl_emlib_gpio_simple_init", "GPIOINT_Init",
     "sl_spidrv_init_instances", "sl_cos_send_config" >>

sl_iostream_eusart_init_instances == << "sl_iostream_eusart_init_vcom" >>
sl_iostream_init_instances == << "sl_iostream_debug_init" >> \o sl_iostream_eusart_init_instances

sl_service_init ==
  << "sl_board_configure_vcom", "sl_sleeptimer_init", "sl_hfxo_manager_init",
     "sl_iostream_stdlib_disable_buffering", "sl_mbedtls_init",
     "sl_mpu_disable_execute_from_ram", "psa_crypto_init", "sli_aes_seed_mask" >>
  \o sl_iostream_init_instances

sl_stack_init == << "sl_rail_util_pa_init", "sl_rail_util_pti_init", "sl_bt_init" >>

sl_internal_app_init == << "app_log_init" >>

new_app_fsm ==
  << "init_ads1220", "register_change_mode_callback", "point_change_mode_flag",
     "register_ready_to_retrieve_callback", "point_data_ready_flag", "fsm_new" >>

\* Mutant: the peripheral is set up before its clock is enabled.
MutBurtcBeforeClock ==
  << "EMU_UnlatchPinRetention", "EMU_EM4Init", "CMU_ClockSelectSet_EM4GRPACLK", "BURTC_Init",
     "CMU_ClockEnable_BURTC", "CMU_ClockEnable_BURAM", "BURTC_CounterReset",
     "BURTC_CompareSet", "BURTC_IntEnable", "NVIC_EnableIRQ_BURTC", "BURTC_Enable",
     "GPIO_ExtIntConfig_changeMode", "GPIO_ExtIntConfig_dataReady" >> \o new_app_fsm
app_init ==
  << "EMU_UnlatchPinRetention", "EMU_EM4Init", "CMU_ClockSelectSet_EM4GRPACLK",
     "CMU_ClockEnable_BURTC", "CMU_ClockEnable_BURAM", "BURTC_Init", "BURTC_CounterReset",
     "BURTC_CompareSet", "BURTC_IntEnable", "NVIC_EnableIRQ_BURTC", "BURTC_Enable",
     "GPIO_ExtIntConfig_changeMode", "GPIO_ExtIntConfig_dataReady" >> \o new_app_fsm

\* The order of the five lists is the SDK's.
sl_system_init ==
  sl_platform_init \o sl_driver_init \o sl_service_init \o sl_stack_init \o sl_internal_app_init

Calls == sl_system_init \o app_init
Started == Len(Calls) + 1

\* The calls made before the n-th.
Made(n) == {Calls[i] : i \in 1 .. n - 1}

-----------------------------------------------------------------------------
(***************************************************************************)
(* What a call, or a later point of the program, needs to have been made.  *)
(***************************************************************************)
Needs(call) ==
  CASE call = "sl_device_init_clocks" -> {"sl_device_init_hfxo", "sl_device_init_lfxo"}
    [] call = "sl_spidrv_init_instances" -> {"sl_device_init_clocks"}
    [] call = "sl_iostream_eusart_init_vcom" -> {"sl_device_init_clocks", "sl_board_configure_vcom"}
    [] call = "app_log_init" -> {"sl_iostream_eusart_init_vcom"}
    [] call \in {"BURTC_Init", "BURTC_CounterReset", "BURTC_CompareSet", "BURTC_IntEnable"} ->
         {"CMU_ClockSelectSet_EM4GRPACLK", "CMU_ClockEnable_BURTC"}
    [] call = "NVIC_EnableIRQ_BURTC" -> {"BURTC_Init", "BURTC_CounterReset", "BURTC_CompareSet"}
    [] call \in {"GPIO_ExtIntConfig_changeMode", "GPIO_ExtIntConfig_dataReady"} ->
         {"sl_emlib_gpio_simple_init", "GPIOINT_Init"}
    [] call \in {"register_change_mode_callback", "register_ready_to_retrieve_callback"} ->
         {"GPIOINT_Init"}
    [] call = "wake_up" -> {"app_log_init", "sl_emlib_gpio_simple_init", "init_ads1220"}
    [] call \in {"begin", "start_conv", "read_data_samples"} -> {"sl_spidrv_init_instances"}
    [] call \in {"send_data", "close_connections", "sl_bt_step"} -> {"sl_bt_init"}
    [] call \in {"try_to_sleep", "stop_timer", "stop_timer_sleep"} -> {"sl_sleeptimer_init"}
    [] call = "enter_em4" -> {"EMU_EM4Init", "BURTC_Enable"}
    [] OTHER -> {}

\* The components of the project, and the call that sets one of them up.
Catalog ==
  { "APP_ASSERT", "APP_LOG", "APPLOADER_UTIL", "BLUETOOTH_CONFIGURATION", "BLUETOOTH_CTE_SUPPORT",
    "BLUETOOTH_FEATURE_ADVERTISER", "BLUETOOTH_FEATURE_BUILTIN_BONDING_DATABASE",
    "BLUETOOTH_FEATURE_CONNECTION", "BLUETOOTH_FEATURE_GATT", "BLUETOOTH_FEATURE_GATT_SERVER",
    "BLUETOOTH_FEATURE_LEGACY_ADVERTISER", "BLUETOOTH_FEATURE_LEGACY_SCANNER",
    "BLUETOOTH_FEATURE_SCANNER", "BLUETOOTH_FEATURE_SM", "BLUETOOTH_FEATURE_SYSTEM", "BLUETOOTH",
    "GECKO_BOOTLOADER_INTERFACE", "DEVICE_INIT_NVIC", "EMLIB_CORE_DEBUG_CONFIG",
    "GATT_CONFIGURATION", "IOSTREAM_EUSART", "RETARGET_STDIO", "IOSTREAM_UART_COMMON", "MPU",
    "MX25_FLASH_SHUTDOWN_USART", "NVM3", "POWER_MANAGER", "PSA_CRYPTO", "RAIL_LIB",
    "RAIL_UTIL_PTI", "SE_MANAGER", "SLEEPTIMER", "SLI_PROTOCOL_CRYPTO" }

SetUpBy ==
  [ APP_LOG |-> "app_log_init", BLUETOOTH |-> "sl_bt_init",
    GECKO_BOOTLOADER_INTERFACE |-> "bootloader_init", DEVICE_INIT_NVIC |-> "sl_device_init_nvic",
    IOSTREAM_EUSART |-> "sl_iostream_eusart_init_vcom",
    RETARGET_STDIO |-> "sl_iostream_stdlib_disable_buffering",
    MPU |-> "sl_mpu_disable_execute_from_ram", MX25_FLASH_SHUTDOWN_USART |-> "sl_board_init",
    NVM3 |-> "nvm3_initDefault", POWER_MANAGER |-> "sl_power_manager_init",
    PSA_CRYPTO |-> "psa_crypto_init", RAIL_UTIL_PTI |-> "sl_rail_util_pti_init",
    SLEEPTIMER |-> "sl_sleeptimer_init", SLI_PROTOCOL_CRYPTO |-> "sli_aes_seed_mask" ]

-----------------------------------------------------------------------------
(***************************************************************************)
(* Clocks.                                                                 *)
(***************************************************************************)
\* The branches sl_device_init_clocks selects an oscillator for on this device.
sl_device_init_clocks ==
  [ SYSCLK |-> "HFXO", EM01GRPACLK |-> "HFXO", EM01GRPBCLK |-> "HFXO", EM23GRPACLK |-> "LFXO",
    EM4GRPACLK |-> "LFXO", RTCC |-> "LFXO", WDOG0 |-> "LFXO" ]

\* After a reset every branch runs from an oscillator that needs no start, as ULFRCO does.
Clocks(at) ==
  IF "CMU_ClockSelectSet_EM4GRPACLK" \in Made(at)
  THEN [sl_device_init_clocks EXCEPT !.EM4GRPACLK = "ULFRCO"]
  ELSE IF "sl_device_init_clocks" \in Made(at) THEN sl_device_init_clocks
  ELSE [branch \in DOMAIN sl_device_init_clocks |-> "FSRCO"]
Running(at) ==
  {"FSRCO", "ULFRCO"} \cup { o \in {"HFXO", "LFRCO", "LFXO"} :
     [HFXO |-> "sl_device_init_hfxo", LFRCO |-> "sl_device_init_lfrco",
      LFXO |-> "sl_device_init_lfxo"][o] \in Made(at) }

\* The timer the sleeptimer runs on, which the SDK chooses where the project does not: the
\* RTCC of this device.
SL_SLEEPTIMER_PERIPHERAL == "DEFAULT"
SleeptimerUses == IF SL_SLEEPTIMER_PERIPHERAL = "DEFAULT" THEN "RTCC" ELSE SL_SLEEPTIMER_PERIPHERAL

\* The virtual COM port counts its bits from the fast branch or from the slow one, which
\* gives 9600 bits a second at most.
SL_IOSTREAM_EUSART_VCOM_UART == [high_frequency |-> TRUE, baudrate |-> 115200]
init_vcom ==
  IF SL_IOSTREAM_EUSART_VCOM_UART.high_frequency
  THEN [branch |-> "EM01GRPACLK", baudrate |-> SL_IOSTREAM_EUSART_VCOM_UART.baudrate]
  ELSE [branch |-> "EM23GRPACLK", baudrate |-> SL_IOSTREAM_EUSART_VCOM_UART.baudrate]

\* BT_EM2_LFCLK_REQ_FLAG: the stack makes do with an inaccurate clock only if it has neither
\* connections nor periodic advertising nor synchronisation to it.
InaccurateLfclk ==
  Catalog \cap {"BLUETOOTH_FEATURE_CONNECTION", "BLUETOOTH_FEATURE_PERIODIC_ADV",
                "BLUETOOTH_FEATURE_SYNC"} = {}

\* How far the crystal may be off, in parts per million, and how far Bluetooth allows the
\* clock of a connection to be.
SL_DEVICE_INIT_LFXO_PRECISION == 100
SleepClockAccuracy == 500

\* The LFRCO is not recalibrated by hardware: in the mode that does it, "EM4 operation is not
\* allowed".
SL_DEVICE_INIT_LFRCO_PRECISION == "default"

\* What EM4 does with the pins: the configuration has it hold them until they are unlatched;
\* app_init has it let go of them.
SL_DEVICE_INIT_EMU_EM4_PIN_RETENTION_MODE == "latch"
PinRetention(at) ==
  IF "EMU_EM4Init" \in Made(at) THEN "disable"
  ELSE IF "sl_device_init_emu" \in Made(at) THEN SL_DEVICE_INIT_EMU_EM4_PIN_RETENTION_MODE
  ELSE "disable"

-----------------------------------------------------------------------------
(***************************************************************************)
(* Pins, as <<port, number>>: what the header of each driver says, what    *)
(* its initialisation takes for which signal, and what the pin tool has on *)
(* record.                                                                 *)
(***************************************************************************)
SL_SPIDRV_EXP == [TX |-> <<"C", 0>>, RX |-> <<"C", 1>>, CLK |-> <<"C", 2>>, CS |-> <<"C", 3>>]
SL_MX25_FLASH_SHUTDOWN == [TX |-> <<"C", 0>>, RX |-> <<"C", 1>>, CLK |-> <<"C", 2>>, CS |-> <<"A", 4>>]
SL_IOSTREAM_EUSART_VCOM == [TX |-> <<"A", 5>>, RX |-> <<"A", 6>>, CTS |-> <<"A", 8>>, RTS |-> <<"A", 7>>]
\* Mutant: the enable line of the virtual COM port is put on the DRDY pin.
MutVcomEnableOnReady ==
  [ VCOM |-> [enable |-> TRUE, pin |-> <<"B", 2>>], DISPLAY |-> [enable |-> FALSE, pin |-> <<"D", 3>>],
    SENSOR_RHT |-> [enable |-> FALSE, pin |-> <<"D", 2>>] ]
SL_BOARD_ENABLE ==
  [ VCOM |-> [enable |-> TRUE, pin |-> <<"B", 4>>], DISPLAY |-> [enable |-> FALSE, pin |-> <<"D", 3>>],
    SENSOR_RHT |-> [enable |-> FALSE, pin |-> <<"D", 2>>] ]
SL_BOARD_DISABLE_MEMORY_SPI == TRUE
SL_DEBUG_SWV == <<"A", 3>>
SL_RAIL_UTIL_PTI == [DOUT |-> <<"C", 4>>, DFRAME |-> <<"C", 5>>]
\* The application's own pins.  out is the level of an output and the side an input is
\* pulled to.
bridgeON == [pin |-> <<"A", 0>>, mode |-> "output", out |-> 0]
changeMode == [pin |-> <<"B", 0>>, mode |-> "input_pull", out |-> 1]
emuWakeup == [pin |-> <<"B", 1>>, mode |-> "input_pull", out |-> 1]
dataReady == [pin |-> <<"B", 2>>, mode |-> "input", out |-> 0]

pin_config ==
  [ GPIO_SWV |-> <<"A", 3>>,
    USART0_CLK |-> <<"C", 2>>, USART0_CS |-> <<"C", 3>>, USART0_RX |-> <<"C", 1>>, USART0_TX |-> <<"C", 0>>,
    EUART0_CTS |-> <<"A", 8>>, EUART0_RTS |-> <<"A", 7>>, EUART0_RX |-> <<"A", 6>>, EUART0_TX |-> <<"A", 5>>,
    PTI_DFRAME |-> <<"C", 5>>, PTI_DOUT |-> <<"C", 4>>,
    bridgeON |-> <<"A", 0>>, ChangeMode |-> <<"B", 0>>, emu4Wakeup |-> <<"B", 1>>, DataReady |-> <<"B", 2>> ]

sl_spidrv_init_exp ==
  [ USART0_TX |-> SL_SPIDRV_EXP.TX, USART0_RX |-> SL_SPIDRV_EXP.RX,
    USART0_CLK |-> SL_SPIDRV_EXP.CLK, USART0_CS |-> SL_SPIDRV_EXP.CS ]
config_vcom ==
  [ EUART0_TX |-> SL_IOSTREAM_EUSART_VCOM.TX, EUART0_RX |-> SL_IOSTREAM_EUSART_VCOM.RX,
    EUART0_CTS |-> SL_IOSTREAM_EUSART_VCOM.CTS, EUART0_RTS |-> SL_IOSTREAM_EUSART_VCOM.RTS ]
sl_emlib_gpio_simple_init ==
  [ bridgeON |-> bridgeON.pin, ChangeMode |-> changeMode.pin,
    DataReady |-> dataReady.pin, emu4Wakeup |-> emuWakeup.pin ]

\* What a call takes for good, signal by signal.
Takes(call) ==
  CASE call = "sl_debug_swo_init" -> [GPIO_SWV |-> SL_DEBUG_SWV]
    [] call = "sl_emlib_gpio_simple_init" -> sl_emlib_gpio_simple_init
    [] call = "sl_spidrv_init_instances" -> sl_spidrv_init_exp
    [] call = "sl_board_configure_vcom" /\ SL_BOARD_ENABLE.VCOM.enable ->
         [ENABLE_VCOM |-> SL_BOARD_ENABLE.VCOM.pin]
    [] call = "sl_iostream_eusart_init_vcom" -> config_vcom
    [] call = "sl_rail_util_pti_init" ->
         [PTI_DOUT |-> SL_RAIL_UTIL_PTI.DOUT, PTI_DFRAME |-> SL_RAIL_UTIL_PTI.DFRAME]
    [] OTHER -> << >>

\* The pins a call drives: sl_board_init switches the virtual COM port off
\* (sl_board_default_init) and sends the flash one command.
Pins(signals) == {signals[s] : s \in DOMAIN signals}
Uses(call) ==
  IF call = "sl_board_init"
  THEN {SL_BOARD_ENABLE.VCOM.pin}
       \cup (IF SL_BOARD_DISABLE_MEMORY_SPI THEN Pins(SL_MX25_FLASH_SHUTDOWN) ELSE {})
  ELSE Pins(Takes(call))

\* Wake-up from EM4: the pin of each wake-up number (those on ports A and B), the number
\* reset_timer_sleep arms and the level it arms it for.
EM4WU == [n \in {0, 3, 4} |-> CASE n = 0 -> <<"A", 5>> [] n = 3 -> <<"B", 1>> [] n = 4 -> <<"B", 3>>]
EM4WU_EM4WUEN_NUM == 3
EM4WakeLevel == 0

-----------------------------------------------------------------------------
(***************************************************************************)
(* Interrupt lines.                                                        *)
(***************************************************************************)
Lines == {1, 2}

\* GPIO_ExtIntConfig: the pin and the edges that raise the line.
RISINGCHANGEMODE == FALSE
FALLINGCHANGEMODE == TRUE
RISINGMEASUREREADY == FALSE
FALLINGMEASUREREADY == TRUE
ExtInt == [n \in Lines |->
  IF n = 1
  THEN [call |-> "GPIO_ExtIntConfig_changeMode", pin |-> changeMode.pin,
        rising |-> RISINGCHANGEMODE, falling |-> FALLINGCHANGEMODE]
  ELSE [call |-> "GPIO_ExtIntConfig_dataReady", pin |-> dataReady.pin,
        rising |-> RISINGMEASUREREADY, falling |-> FALLINGMEASUREREADY]]

\* GPIOINT_CallbackRegister: the callback of a line and the pointer it writes through.
\* Mutant: the second registration repeats the first callback, as copied.
MutOneCallback == [n \in Lines |->
  [register |-> "register_change_mode_callback", intNo |-> 1, point |-> "point_change_mode_flag"]]
Served == [n \in Lines |->
  IF n = 1
  THEN [register |-> "register_change_mode_callback", intNo |-> 1, point |-> "point_change_mode_flag"]
  ELSE [register |-> "register_ready_to_retrieve_callback", intNo |-> 2, point |-> "point_data_ready_flag"]]

\* The GPIO dispatcher runs a callback for line n ...
Dispatched(n, at) == {ExtInt[n].call, "GPIOINT_Init", Served[n].register} \subseteq Made(at)
\* ... which looks at the line's number and writes through its pointer.
Writes(n, at) == Dispatched(n, at) /\ Served[n].intNo = n
Stray(n, at) == Writes(n, at) /\ Served[n].point \notin Made(at)
=============================================================================
