--------------------------- MODULE StartUp_proofs ---------------------------
(***************************************************************************)
(* What the order of the start-up calls gives, as facts about the number   *)
(* of the call the main thread is at: nothing is used before it is made,   *)
(* every clock runs, and no two drivers meet at a pin.                     *)
(***************************************************************************)
EXTENDS StartUp, Integers, TLAPS

(***************************************************************************)
(* The list of calls.                                                      *)
(***************************************************************************)
\* The calls by number: sl_system_init makes the first 33, app_init the others.
LEMMA CallsByNumber ==
  /\ Len(Calls) = 52
  /\ Calls[1] = "CHIP_Init" /\ Calls[2] = "sl_device_init_nvic"
  /\ Calls[3] = "sl_board_preinit" /\ Calls[4] = "sl_device_init_dcdc"
  /\ Calls[5] = "sl_hfxo_manager_init_hardware" /\ Calls[6] = "sl_device_init_hfxo"
  /\ Calls[7] = "sl_device_init_lfrco" /\ Calls[8] = "sl_device_init_lfxo"
  /\ Calls[9] = "sl_device_init_clocks" /\ Calls[10] = "sl_device_init_emu"
  /\ Calls[11] = "sl_board_init" /\ Calls[12] = "bootloader_init"
  /\ Calls[13] = "nvm3_initDefault" /\ Calls[14] = "sl_power_manager_init"
  /\ Calls[15] = "sl_debug_swo_init" /\ Calls[16] = "sl_emlib_gpio_simple_init"
  /\ Calls[17] = "GPIOINT_Init" /\ Calls[18] = "sl_spidrv_init_instances"
  /\ Calls[19] = "sl_cos_send_config" /\ Calls[20] = "sl_board_configure_vcom"
  /\ Calls[21] = "sl_sleeptimer_init" /\ Calls[22] = "sl_hfxo_manager_init"
  /\ Calls[23] = "sl_iostream_stdlib_disable_buffering" /\ Calls[24] = "sl_mbedtls_init"
  /\ Calls[25] = "sl_mpu_disable_execute_from_ram" /\ Calls[26] = "psa_crypto_init"
  /\ Calls[27] = "sli_aes_seed_mask" /\ Calls[28] = "sl_iostream_debug_init"
  /\ Calls[29] = "sl_iostream_eusart_init_vcom" /\ Calls[30] = "sl_rail_util_pa_init"
  /\ Calls[31] = "sl_rail_util_pti_init" /\ Calls[32] = "sl_bt_init"
  /\ Calls[33] = "app_log_init" /\ Calls[34] = "EMU_UnlatchPinRetention"
  /\ Calls[35] = "EMU_EM4Init" /\ Calls[36] = "CMU_ClockSelectSet_EM4GRPACLK"
  /\ Calls[37] = "CMU_ClockEnable_BURTC" /\ Calls[38] = "CMU_ClockEnable_BURAM"
  /\ Calls[39] = "BURTC_Init" /\ Calls[40] = "BURTC_CounterReset"
  /\ Calls[41] = "BURTC_CompareSet" /\ Calls[42] = "BURTC_IntEnable"
  /\ Calls[43] = "NVIC_EnableIRQ_BURTC" /\ Calls[44] = "BURTC_Enable"
  /\ Calls[45] = "GPIO_ExtIntConfig_changeMode" /\ Calls[46] = "GPIO_ExtIntConfig_dataReady"
  /\ Calls[47] = "init_ads1220" /\ Calls[48] = "register_change_mode_callback"
  /\ Calls[49] = "point_change_mode_flag" /\ Calls[50] = "register_ready_to_retrieve_callback"
  /\ Calls[51] = "point_data_ready_flag" /\ Calls[52] = "fsm_new"
  BY DEF Calls, sl_system_init, sl_platform_init, sl_driver_init, sl_service_init, sl_stack_init,
         sl_internal_app_init, sl_iostream_init_instances, sl_iostream_eusart_init_instances,
         app_init, new_app_fsm

\* No call is made twice.
LEMMA OnceEach ==
  ASSUME NEW i \in 1 .. 52, NEW j \in 1 .. 52, Calls[i] = Calls[j]
  PROVE  i = j
  BY CallsByNumber

\* The super-loop starts after the fifty-second.
LEMMA LastCall == Started = 53
  BY CallsByNumber DEF Started

\* Made(n) by number: the i-th call is among the calls before the n-th when i is less than n.
LEMMA MadeBefore ==
  ASSUME NEW n \in 1 .. 53
  PROVE  \A i \in 1 .. 52 : Calls[i] \in Made(n) <=> i < n
<1>1. ASSUME NEW i \in 1 .. 52, i < n
      PROVE  Calls[i] \in Made(n)
  BY <1>1 DEF Made
<1>2. ASSUME NEW i \in 1 .. 52, Calls[i] \in Made(n)
      PROVE  i < n
  <2>1. PICK j \in 1 .. n - 1 : Calls[i] = Calls[j]
    BY <1>2 DEF Made
  <2>2. i = j
    BY <2>1, OnceEach
  <2> QED
    BY <2>2
<1> QED
  BY <1>1, <1>2

(***************************************************************************)
(* What each call needs.                                                   *)
(***************************************************************************)
\* Only these calls need anything.
LEMMA OthersNeedNothing ==
  ASSUME NEW n \in 1 .. 52, n \notin {9, 18, 29, 33, 39, 40, 41, 42, 43, 45, 46, 48, 50}
  PROVE  Needs(Calls[n]) = {}
  BY CallsByNumber DEF Needs

\* Whatever a start-up call needs has been made before it.
LEMMA NeedsMet == ASSUME NEW n \in 1 .. 52 PROVE Needs(Calls[n]) \subseteq Made(n)
<1>1. CASE n \notin {9, 18, 29, 33, 39, 40, 41, 42, 43, 45, 46, 48, 50}
  BY <1>1, OthersNeedNothing
<1>2. CASE n = 9
  <2>1. Needs(Calls[9]) = {Calls[6], Calls[8]}
    BY CallsByNumber DEF Needs
  <2> QED
    BY <1>2, <2>1, MadeBefore
<1>3. CASE n = 18
  <2>1. Needs(Calls[18]) = {Calls[9]}
    BY CallsByNumber DEF Needs
  <2> QED
    BY <1>3, <2>1, MadeBefore
<1>4. CASE n = 29
  <2>1. Needs(Calls[29]) = {Calls[9], Calls[20]}
    BY CallsByNumber DEF Needs
  <2> QED
    BY <1>4, <2>1, MadeBefore
<1>5. CASE n = 33
  <2>1. Needs(Calls[33]) = {Calls[29]}
    BY CallsByNumber DEF Needs
  <2> QED
    BY <1>5, <2>1, MadeBefore
<1>6. CASE n \in 39 .. 42
  <2>1. Needs(Calls[n]) = {Calls[36], Calls[37]}
    BY <1>6, CallsByNumber DEF Needs
  <2> QED
    BY <1>6, <2>1, MadeBefore
<1>7. CASE n = 43
  <2>1. Needs(Calls[43]) = {Calls[39], Calls[40], Calls[41]}
    BY CallsByNumber DEF Needs
  <2> QED
    BY <1>7, <2>1, MadeBefore
<1>8. CASE n \in {45, 46}
  <2>1. Needs(Calls[n]) = {Calls[16], Calls[17]}
    BY <1>8, CallsByNumber DEF Needs
  <2> QED
    BY <1>8, <2>1, MadeBefore
<1>9. CASE n \in {48, 50}
  <2>1. Needs(Calls[n]) = {Calls[17]}
    BY <1>9, CallsByNumber DEF Needs
  <2> QED
    BY <1>9, <2>1, MadeBefore
<1> QED
  BY <1>1, <1>2, <1>3, <1>4, <1>5, <1>6, <1>7, <1>8, <1>9

\* And by the super-loop whatever any later point of the program needs has been made.
LEMMA NeedsMetInLoop == ASSUME NEW c PROVE Needs(c) \subseteq Made(53)
<1>1. Needs(c) \subseteq
        { Calls[6], Calls[8], Calls[9], Calls[16], Calls[17], Calls[18], Calls[20], Calls[21],
          Calls[29], Calls[32], Calls[33], Calls[35], Calls[36], Calls[37], Calls[39], Calls[40],
          Calls[41], Calls[44], Calls[47] }
  BY CallsByNumber DEF Needs
<1> QED
  BY <1>1, MadeBefore

\* Every component of the catalogue that a call sets up is set up by the super-loop.
LEMMA CatalogSetUp ==
  ASSUME NEW c \in Catalog \cap DOMAIN SetUpBy
  PROVE  SetUpBy[c] \in Made(53)
<1>1. SetUpBy[c] \in
        { Calls[33], Calls[32], Calls[12], Calls[2], Calls[29], Calls[23], Calls[25], Calls[11],
          Calls[13], Calls[14], Calls[26], Calls[31], Calls[21], Calls[27] }
  BY CallsByNumber DEF SetUpBy
<1> QED
  BY <1>1, MadeBefore

(***************************************************************************)
(* Clocks.                                                                 *)
(***************************************************************************)
\* The branches that get an oscillator.
LEMMA Branches ==
  DOMAIN sl_device_init_clocks =
    {"SYSCLK", "EM01GRPACLK", "EM01GRPBCLK", "EM23GRPACLK", "EM4GRPACLK", "RTCC", "WDOG0"}
  BY DEF sl_device_init_clocks

\* What the branches run from before the ninth call, up to the thirty-sixth, and after it.
LEMMA ClocksByNumber ==
  ASSUME NEW n \in 1 .. 53
  PROVE  /\ n <= 9 => Clocks(n) = [branch \in DOMAIN sl_device_init_clocks |-> "FSRCO"]
         /\ n > 9 /\ n <= 36 => Clocks(n) = sl_device_init_clocks
         /\ n > 36 => Clocks(n) = [sl_device_init_clocks EXCEPT !.EM4GRPACLK = "ULFRCO"]
<1>1. "CMU_ClockSelectSet_EM4GRPACLK" \in Made(n) <=> 36 < n
  BY CallsByNumber, MadeBefore
<1>2. "sl_device_init_clocks" \in Made(n) <=> 9 < n
  BY CallsByNumber, MadeBefore
<1> QED
  BY <1>1, <1>2 DEF Clocks

\* The oscillators that run: the crystals from the call on that starts each.
LEMMA RunningByNumber ==
  ASSUME NEW n \in 1 .. 53
  PROVE  /\ "FSRCO" \in Running(n) /\ "ULFRCO" \in Running(n)
         /\ n > 6 => "HFXO" \in Running(n)
         /\ n > 8 => "LFXO" \in Running(n)
<1>1. n > 6 => "sl_device_init_hfxo" \in Made(n)
  BY CallsByNumber, MadeBefore
<1>2. n > 8 => "sl_device_init_lfxo" \in Made(n)
  BY CallsByNumber, MadeBefore
<1> QED
  BY <1>1, <1>2 DEF Running

\* At every call each branch runs from an oscillator that has been started.
LEMMA BranchesRun ==
  ASSUME NEW n \in 1 .. 53
  PROVE  \A branch \in DOMAIN Clocks(n) : Clocks(n)[branch] \in Running(n)
<1>1. CASE n <= 9
  BY <1>1, ClocksByNumber, RunningByNumber
<1>2. CASE n > 9 /\ n <= 36
  <2>1. \A branch \in DOMAIN Clocks(n) : Clocks(n)[branch] \in {"HFXO", "LFXO"}
    BY <1>2, ClocksByNumber, Branches DEF sl_device_init_clocks
  <2> QED
    BY <1>2, <2>1, RunningByNumber
<1>3. CASE n > 36
  <2>1. \A branch \in DOMAIN Clocks(n) : Clocks(n)[branch] \in {"HFXO", "LFXO", "ULFRCO"}
    BY <1>3, ClocksByNumber, Branches DEF sl_device_init_clocks
  <2> QED
    BY <1>3, <2>1, RunningByNumber
<1> QED
  BY <1>1, <1>2, <1>3

(***************************************************************************)
(* Pins.                                                                   *)
(***************************************************************************)
\* The calls that take pins, and the pins each takes.
Takers == {15, 16, 18, 20, 29, 31}

LEMMA TakesByNumber ==
  /\ Takes(Calls[15]) = [GPIO_SWV |-> <<"A", 3>>]
  /\ Takes(Calls[16]) = [ bridgeON |-> <<"A", 0>>, ChangeMode |-> <<"B", 0>>,
                          DataReady |-> <<"B", 2>>, emu4Wakeup |-> <<"B", 1>> ]
  /\ Takes(Calls[18]) = [ USART0_TX |-> <<"C", 0>>, USART0_RX |-> <<"C", 1>>,
                          USART0_CLK |-> <<"C", 2>>, USART0_CS |-> <<"C", 3>> ]
  /\ Takes(Calls[20]) = [ENABLE_VCOM |-> <<"B", 4>>]
  /\ Takes(Calls[29]) = [ EUART0_TX |-> <<"A", 5>>, EUART0_RX |-> <<"A", 6>>,
                          EUART0_CTS |-> <<"A", 8>>, EUART0_RTS |-> <<"A", 7>> ]
  /\ Takes(Calls[31]) = [PTI_DOUT |-> <<"C", 4>>, PTI_DFRAME |-> <<"C", 5>>]
  BY CallsByNumber DEF Takes, sl_emlib_gpio_simple_init, sl_spidrv_init_exp, config_vcom,
         SL_DEBUG_SWV, bridgeON, changeMode, dataReady, emuWakeup, SL_SPIDRV_EXP,
         SL_BOARD_ENABLE, SL_IOSTREAM_EUSART_VCOM, SL_RAIL_UTIL_PTI

\* The other calls take none.
LEMMA OthersTakeNothing ==
  ASSUME NEW n \in 1 .. 52, n \notin Takers
  PROVE  Takes(Calls[n]) = << >>
<1>1. Calls[n] \notin { "sl_debug_swo_init", "sl_emlib_gpio_simple_init", "sl_spidrv_init_instances",
                       "sl_board_configure_vcom", "sl_iostream_eusart_init_vcom",
                       "sl_rail_util_pti_init" }
  BY CallsByNumber DEF Takers
<1> QED
  BY <1>1 DEF Takes

\* The pins of the calls that take any.
LEMMA PinsByNumber ==
  /\ Pins(Takes(Calls[15])) = {<<"A", 3>>}
  /\ Pins(Takes(Calls[16])) = {<<"A", 0>>, <<"B", 0>>, <<"B", 2>>, <<"B", 1>>}
  /\ Pins(Takes(Calls[18])) = {<<"C", 0>>, <<"C", 1>>, <<"C", 2>>, <<"C", 3>>}
  /\ Pins(Takes(Calls[20])) = {<<"B", 4>>}
  /\ Pins(Takes(Calls[29])) = {<<"A", 5>>, <<"A", 6>>, <<"A", 7>>, <<"A", 8>>}
  /\ Pins(Takes(Calls[31])) = {<<"C", 4>>, <<"C", 5>>}
  BY TakesByNumber DEF Pins

\* Who takes no signal takes no pin.
LEMMA NoPins == Pins(<< >>) = {}
  BY DEF Pins

\* Two calls that take pins take different ones.
LEMMA TakersApart ==
  ASSUME NEW i \in Takers, NEW j \in Takers, i # j
  PROVE  Pins(Takes(Calls[i])) \cap Pins(Takes(Calls[j])) = {}
  BY PinsByNumber DEF Takers

\* The calls before the n-th take none of the pins the n-th drives: only sl_board_init drives
\* more than it takes, and no call before it takes any.
LEMMA PinsApartByNumber ==
  ASSUME NEW n \in 1 .. 52, NEW call \in Made(n)
  PROVE  Pins(Takes(call)) \cap Uses(Calls[n]) = {}
<1>1. PICK i \in 1 .. n - 1 : call = Calls[i]
  BY DEF Made
<1>2. CASE i \notin Takers
  <2>1. i \in 1 .. 52
    OBVIOUS
  <2> QED
    BY <1>1, <1>2, <2>1, OthersTakeNothing, NoPins
<1>3. CASE i \in Takers
  <2>1. n > 15
    BY <1>3 DEF Takers
  <2>2. Calls[n] # "sl_board_init"
    BY <2>1, CallsByNumber
  <2>3. Uses(Calls[n]) = Pins(Takes(Calls[n]))
    BY <2>2 DEF Uses
  <2>4. CASE n \in Takers
    BY <1>1, <1>3, <2>3, <2>4, TakersApart
  <2>5. CASE n \notin Takers
    BY <2>3, <2>5, OthersTakeNothing, NoPins
  <2> QED
    BY <2>4, <2>5
<1> QED
  BY <1>2, <1>3

\* The signals of the calls that take any.
LEMMA SignalsByNumber ==
  /\ DOMAIN Takes(Calls[15]) = {"GPIO_SWV"}
  /\ DOMAIN Takes(Calls[16]) = {"bridgeON", "ChangeMode", "DataReady", "emu4Wakeup"}
  /\ DOMAIN Takes(Calls[18]) = {"USART0_TX", "USART0_RX", "USART0_CLK", "USART0_CS"}
  /\ DOMAIN Takes(Calls[20]) = {"ENABLE_VCOM"}
  /\ DOMAIN Takes(Calls[29]) = {"EUART0_TX", "EUART0_RX", "EUART0_CTS", "EUART0_RTS"}
  /\ DOMAIN Takes(Calls[31]) = {"PTI_DOUT", "PTI_DFRAME"}
  BY TakesByNumber

\* No call takes another pin for a signal than the pin tool has on record.
LEMMA PinsAsRecorded ==
  ASSUME NEW n \in 1 .. 52, NEW s \in DOMAIN Takes(Calls[n]) \cap DOMAIN pin_config
  PROVE  Takes(Calls[n])[s] = pin_config[s]
<1>1. CASE n = 15
  <2>1. Takes(Calls[15])["GPIO_SWV"] = pin_config["GPIO_SWV"]
    BY TakesByNumber DEF pin_config
  <2> QED
    BY <1>1, SignalsByNumber, <2>1
<1>2. CASE n = 16
  <2>1. Takes(Calls[16])["bridgeON"] = pin_config["bridgeON"]
    BY TakesByNumber DEF pin_config
  <2>2. Takes(Calls[16])["ChangeMode"] = pin_config["ChangeMode"]
    BY TakesByNumber DEF pin_config
  <2>3. Takes(Calls[16])["DataReady"] = pin_config["DataReady"]
    BY TakesByNumber DEF pin_config
  <2>4. Takes(Calls[16])["emu4Wakeup"] = pin_config["emu4Wakeup"]
    BY TakesByNumber DEF pin_config
  <2> QED
    BY <1>2, SignalsByNumber, <2>1, <2>2, <2>3, <2>4
<1>3. CASE n = 18
  <2>1. Takes(Calls[18])["USART0_TX"] = pin_config["USART0_TX"]
    BY TakesByNumber DEF pin_config
  <2>2. Takes(Calls[18])["USART0_RX"] = pin_config["USART0_RX"]
    BY TakesByNumber DEF pin_config
  <2>3. Takes(Calls[18])["USART0_CLK"] = pin_config["USART0_CLK"]
    BY TakesByNumber DEF pin_config
  <2>4. Takes(Calls[18])["USART0_CS"] = pin_config["USART0_CS"]
    BY TakesByNumber DEF pin_config
  <2> QED
    BY <1>3, SignalsByNumber, <2>1, <2>2, <2>3, <2>4
<1>4. CASE n = 29
  <2>1. Takes(Calls[29])["EUART0_TX"] = pin_config["EUART0_TX"]
    BY TakesByNumber DEF pin_config
  <2>2. Takes(Calls[29])["EUART0_RX"] = pin_config["EUART0_RX"]
    BY TakesByNumber DEF pin_config
  <2>3. Takes(Calls[29])["EUART0_CTS"] = pin_config["EUART0_CTS"]
    BY TakesByNumber DEF pin_config
  <2>4. Takes(Calls[29])["EUART0_RTS"] = pin_config["EUART0_RTS"]
    BY TakesByNumber DEF pin_config
  <2> QED
    BY <1>4, SignalsByNumber, <2>1, <2>2, <2>3, <2>4
<1>5. CASE n = 31
  <2>1. Takes(Calls[31])["PTI_DOUT"] = pin_config["PTI_DOUT"]
    BY TakesByNumber DEF pin_config
  <2>2. Takes(Calls[31])["PTI_DFRAME"] = pin_config["PTI_DFRAME"]
    BY TakesByNumber DEF pin_config
  <2> QED
    BY <1>5, SignalsByNumber, <2>1, <2>2
<1>6. CASE n = 20
  BY <1>6, SignalsByNumber DEF pin_config
<1>7. CASE n \notin Takers
  <2>1. DOMAIN << >> = {}
    OBVIOUS
  <2> QED
    BY <1>7, <2>1, OthersTakeNothing
<1> QED
  BY <1>1, <1>2, <1>3, <1>4, <1>5, <1>6, <1>7 DEF Takers

\* By the super-loop every signal on record is taken.
LEMMA AllPinsTaken ==
  ASSUME NEW s \in DOMAIN pin_config
  PROVE  \E call \in Made(53) : s \in DOMAIN Takes(call)
<1>1. \E i \in Takers : s \in DOMAIN Takes(Calls[i])
  BY TakesByNumber DEF Takers, pin_config
<1>2. \A i \in Takers : Calls[i] \in Made(53)
  BY MadeBefore DEF Takers
<1> QED
  BY <1>1, <1>2

(***************************************************************************)
(* Interrupt lines.                                                        *)
(***************************************************************************)
\* A callback runs once it is registered, and looks at the number of its own line.
LEMMA WritesByNumber ==
  ASSUME NEW n \in 1 .. 53
  PROVE  (Writes(1, n) <=> n > 48) /\ (Writes(2, n) <=> n > 50)
<1>1. /\ "GPIO_ExtIntConfig_changeMode" \in Made(n) <=> 45 < n
      /\ "GPIO_ExtIntConfig_dataReady" \in Made(n) <=> 46 < n
      /\ "GPIOINT_Init" \in Made(n) <=> 17 < n
      /\ "register_change_mode_callback" \in Made(n) <=> 48 < n
      /\ "register_ready_to_retrieve_callback" \in Made(n) <=> 50 < n
  BY CallsByNumber, MadeBefore
<1>2. /\ Dispatched(1, n) <=> n > 48
      /\ Dispatched(2, n) <=> n > 50
  BY <1>1 DEF Dispatched, ExtInt, Served, Lines
<1> QED
  BY <1>2 DEF Writes, Served, Lines

\* It writes astray only while the next call, which gives it its pointer, is still to come.
LEMMA StrayByNumber ==
  ASSUME NEW n \in 1 .. 53
  PROVE  (Stray(1, n) <=> n = 49) /\ (Stray(2, n) <=> n = 51)
<1>1. /\ "point_change_mode_flag" \in Made(n) <=> 49 < n
      /\ "point_data_ready_flag" \in Made(n) <=> 51 < n
  BY CallsByNumber, MadeBefore
<1>2. Served[1].point = "point_change_mode_flag" /\ Served[2].point = "point_data_ready_flag"
  BY DEF Served, Lines
<1> QED
  BY <1>1, <1>2, WritesByNumber DEF Stray

=============================================================================
