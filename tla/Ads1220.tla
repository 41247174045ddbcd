------------------------------- MODULE Ads1220 -------------------------------
(***************************************************************************)
(* The register side of the ADS1220 driver.  The driver keeps a copy of    *)
(* the converter's four registers (settingsR), changes a field in the copy *)
(* and writes the whole register, so the copy must follow the converter.   *)
(* Every call blocks until it is done and nothing else uses the SPI, so    *)
(* one call is one step; each of its transfers may fail on its own, and    *)
(* nothing is made of the failure.                                         *)
(***************************************************************************)
EXTENDS Naturals, FiniteSets

CONSTANTS
  MaxFail,   \* bound: transfers of one call that may fail
  Garbage,   \* the bytes an uninitialised rx_buffer may hold
  (* the values of the #define lists that callers use, as numbers of their field *)
  DataRates, Gains, MuxChannels

ASSUME DriverAssumption ==
  /\ MaxFail \in Nat /\ Garbage \subseteq 0 .. 255 /\ Garbage # {}
  /\ DataRates \subseteq 0 .. 6 /\ Gains \subseteq 0 .. 7 /\ MuxChannels \subseteq 0 .. 11

VARIABLES
  chip,       \* the converter's registers
  settings,   \* ads1220_t.settings: what begin wants
  settingsR,  \* ads1220_t.settingsR: the driver's copy
  returned,   \* what the last call returned, "none" if it is void
  behind      \* history: the registers were written past the copy

vars == <<chip, settings, settingsR, returned, behind>>

Addresses == 0 .. 3
Bytes == 0 .. 255
Registers == [Addresses -> Bytes]

\* A field of a register: address, weight of its lowest bit, number of values.
Field(reg, low, size) == [reg |-> reg, low |-> low, size |-> size]
MUX == Field(0, 16, 16)
PGA_GAIN == Field(0, 2, 8)
PGA_BYPASS == Field(0, 1, 2)
DR == Field(1, 32, 8)
CM == Field(1, 4, 2)
TS == Field(1, 2, 2)
Fields == {MUX, PGA_GAIN, PGA_BYPASS, DR, CM, TS}

Get(v, f) == (v \div f.low) % f.size

\* reg &= ~MASK; reg |= x, for an x of the field's #define list.
\* Mutant: the mask is forgotten.
MutPutNoMask(v, f, x) == v + x * f.low
Put(v, f, x) == v - Get(v, f) * f.low + x * f.low

\* begin: AIN1/AIN0, gain 128, PGA on; 2000 SPS, turbo, single shot; external reference.
BeginRegisters == [a \in Addresses |-> CASE a = 0 -> 110 [] a = 1 -> 208 [] a = 2 -> 64 [] a = 3 -> 0]
\* What RESET leaves in them.
PowerUpRegisters == [a \in Addresses |-> 0]

Init ==
  /\ chip \in {PowerUpRegisters, BeginRegisters}   \* it may have kept its supply
  /\ settings \in [Addresses -> Garbage] /\ settingsR = settings   \* malloc in init_ads1220
  /\ returned = "none" /\ behind = TRUE

-----------------------------------------------------------------------------
(***************************************************************************)
(* The bytes on the bus.                                                   *)
(***************************************************************************)
RESET == 6
START == 8
WREG == 64
RREG == 32

\* WREG|(address<<2) and the value; a NOP and the command.
writeRegister(address, value) == <<WREG + 4 * address, value>>
spi_command(command) == <<0, command>>

\* What the converter makes of two bytes: the low half of a register command is the address
\* and, in its last two bits, the number of registers less one.
Addressed(byte) == (byte % 16) \div 4
Received(bytes, regs) ==
  IF bytes[1] \div 16 = WREG \div 16 THEN [regs EXCEPT ![Addressed(bytes[1])] = bytes[2]]
  ELSE IF bytes[2] = RESET THEN PowerUpRegisters
  ELSE regs

\* The transfers of one call that fail, out of the set ts.
Failing(ts) == {s \in SUBSET ts : Cardinality(s) <= MaxFail}

\* writeRegister for every address of ws; the transfers in lost do not arrive.
Written(from, regs, ws, lost) ==
  [a \in Addresses |-> IF a \in ws \ lost THEN Received(writeRegister(a, regs[a]), from)[a] ELSE from[a]]

\* readRegister for every address, RREG|(address<<2); a failed one returns a byte nobody wrote.
ReadBack(regs, lost) ==
  {[a \in Addresses |-> IF a \in lost THEN g[a] ELSE regs[Addressed(RREG + 4 * a)]] :
     g \in [Addresses -> Garbage]}

-----------------------------------------------------------------------------
(***************************************************************************)
(* The calls.                                                              *)
(***************************************************************************)
\* begin: reset, write the four registers, read them back, return 0.
\* Mutant: the read-back is forgotten.
MutBeginNoReadBack ==
  \E lostReset \in Failing({"RESET"}), lostW, lostR \in Failing(Addresses) :
    LET regs == IF lostReset = {} THEN Received(spi_command(RESET), chip) ELSE chip
    IN  /\ settings' = BeginRegisters /\ UNCHANGED settingsR
        /\ chip' = Written(regs, BeginRegisters, Addresses, lostW)
        /\ returned' = "0" /\ behind' = FALSE
begin ==
  \E lostReset \in Failing({"RESET"}), lostW, lostR \in Failing(Addresses) :
    LET regs == IF lostReset = {} THEN Received(spi_command(RESET), chip) ELSE chip
    IN  /\ settings' = BeginRegisters
        /\ chip' = Written(regs, BeginRegisters, Addresses, lostW)
        /\ settingsR' \in ReadBack(chip', lostR)
        /\ returned' = "0" /\ behind' = FALSE

\* ads1220_reset on its own: the registers go back to power-up, the copy does not.
ads1220_reset ==
  /\ \E lost \in Failing({"RESET"}) :
       chip' = IF lost = {} THEN Received(spi_command(RESET), chip) ELSE chip
  /\ returned' = "none" /\ behind' = TRUE
  /\ UNCHANGED <<settings, settingsR>>

\* START leaves the registers alone.
start_conv ==
  /\ chip' = Received(spi_command(START), chip)
  /\ returned' = "none" /\ UNCHANGED <<settings, settingsR, behind>>

\* The shape of every setter: change field f of the copy to x, write its register.
\* Mutant: the write takes its other fields from settings instead of the copy.
MutSetFromSettings(f, x) ==
  /\ settingsR' = [settingsR EXCEPT ![f.reg] = Put(settings[f.reg], f, x)]
  /\ \E lost \in Failing({f.reg}) : chip' = Written(chip, settingsR', {f.reg}, lost)
  /\ returned' = "none" /\ UNCHANGED <<settings, behind>>
SetField(f, x) ==
  /\ settingsR' = [settingsR EXCEPT ![f.reg] = Put(@, f, x)]
  /\ \E lost \in Failing({f.reg}) : chip' = Written(chip, settingsR', {f.reg}, lost)
  /\ returned' = "none" /\ UNCHANGED <<settings, behind>>

pga_on == SetField(PGA_BYPASS, 0)
pga_off == SetField(PGA_BYPASS, 1)
set_conv_mode_continuous == SetField(CM, 1)
set_conv_mode_single_shot == SetField(CM, 0)
set_data_rate == \E x \in DataRates : SetField(DR, x)
select_mux_channels == \E x \in MuxChannels : SetField(MUX, x)
set_pga_gain == \E x \in Gains : SetField(PGA_GAIN, x)
temp_sense_on == SetField(TS, 1)
temp_sense_off == SetField(TS, 0)

\* get_config_reg refreshes the copy.  (What it hands its caller is the last register
\* in the place of the first.)
get_config_reg ==
  /\ \E lost \in Failing(Addresses) :
       /\ settingsR' \in ReadBack(chip, lost) /\ behind' = (behind /\ lost # {})
  /\ returned' = "none" /\ UNCHANGED <<chip, settings>>

\* set_config_reg writes all four registers, past the copy.
set_config_reg ==
  /\ \E lost \in Failing(Addresses), regs \in {PowerUpRegisters, BeginRegisters} :
       chip' = Written(chip, regs, Addresses, lost)
  /\ returned' = "none" /\ behind' = TRUE
  /\ UNCHANGED <<settings, settingsR>>

Next ==
  \/ begin \/ ads1220_reset \/ start_conv \/ pga_on \/ pga_off
  \/ set_conv_mode_continuous \/ set_conv_mode_single_shot
  \/ set_data_rate \/ select_mux_channels \/ set_pga_gain
  \/ temp_sense_on \/ temp_sense_off \/ get_config_reg \/ set_config_reg

Spec == Init /\ [][Next]_vars

-----------------------------------------------------------------------------
\* Every variable has its type; no field update leaves the byte.
TypeOK ==
  /\ chip \in Registers /\ settings \in Registers /\ settingsR \in Registers
  /\ returned \in {"none", "0"} /\ behind \in BOOLEAN

\* With a working SPI the copy equals the registers, from begin on and until
\* ads1220_reset or set_config_reg writes past it.
CopyFollowsChip == ~behind => settingsR = chip

\* With a working SPI no setter undoes what another one set, though each writes a whole
\* register: the field it is for gets the value asked for, the other fields of the
\* converter keep theirs.
Sets(f, values) ==
  /\ Get(chip'[f.reg], f) \in values
  /\ \A g \in Fields \ {f} : Get(chip'[g.reg], g) = Get(chip[g.reg], g)

NoLostUpdate ==
  [][~behind =>
       /\ pga_on => Sets(PGA_BYPASS, {0})
       /\ pga_off => Sets(PGA_BYPASS, {1})
       /\ set_conv_mode_continuous => Sets(CM, {1})
       /\ set_conv_mode_single_shot => Sets(CM, {0})
       /\ set_data_rate => Sets(DR, DataRates)
       /\ select_mux_channels => Sets(MUX, MuxChannels)
       /\ set_pga_gain => Sets(PGA_GAIN, Gains)
       /\ temp_sense_on => Sets(TS, {1})
       /\ temp_sense_off => Sets(TS, {0})]_vars

\* m20_strain_ble.c, wake_up: "Check registers from sensors through SPI", and "Sensor
\* register read correctly" whenever begin returns 0.
RegistersVerified == returned = "0" => settingsR = settings
=============================================================================
