--------------------------- MODULE Ads1220_proofs ---------------------------
(***************************************************************************)
(* Theorems about the ADS1220 driver, for any lists of values and any      *)
(* bytes in an uninitialised buffer.  Type correctness holds whatever      *)
(* fails; the rest needs an SPI that works (MaxFail = 0).                  *)
(***************************************************************************)
EXTENDS Ads1220, FiniteSetTheorems, TLAPS

\* Field by field: an update leaves a byte, gives the field its value and keeps the two
\* other fields of the register.
LEMMA PutMux ==
  ASSUME NEW v \in Bytes, NEW x \in 0 .. 15
  PROVE  /\ Put(v, MUX, x) \in Bytes
         /\ Get(Put(v, MUX, x), MUX) = x
         /\ Get(Put(v, MUX, x), PGA_GAIN) = Get(v, PGA_GAIN)
         /\ Get(Put(v, MUX, x), PGA_BYPASS) = Get(v, PGA_BYPASS)
  BY SMTT(30) DEF Put, Get, Field, MUX, PGA_GAIN, PGA_BYPASS, Bytes

\* The same for the gain.
LEMMA PutGain ==
  ASSUME NEW v \in Bytes, NEW x \in 0 .. 7
  PROVE  /\ Put(v, PGA_GAIN, x) \in Bytes
         /\ Get(Put(v, PGA_GAIN, x), PGA_GAIN) = x
         /\ Get(Put(v, PGA_GAIN, x), MUX) = Get(v, MUX)
         /\ Get(Put(v, PGA_GAIN, x), PGA_BYPASS) = Get(v, PGA_BYPASS)
  BY SMTT(30) DEF Put, Get, Field, PGA_GAIN, MUX, PGA_BYPASS, Bytes

\* The same for the bypass of the amplifier.
LEMMA PutBypass ==
  ASSUME NEW v \in Bytes, NEW x \in 0 .. 1
  PROVE  /\ Put(v, PGA_BYPASS, x) \in Bytes
         /\ Get(Put(v, PGA_BYPASS, x), PGA_BYPASS) = x
         /\ Get(Put(v, PGA_BYPASS, x), MUX) = Get(v, MUX)
         /\ Get(Put(v, PGA_BYPASS, x), PGA_GAIN) = Get(v, PGA_GAIN)
  BY SMTT(30) DEF Put, Get, Field, PGA_BYPASS, MUX, PGA_GAIN, Bytes

\* The same for the data rate.
LEMMA PutRate ==
  ASSUME NEW v \in Bytes, NEW x \in 0 .. 7
  PROVE  /\ Put(v, DR, x) \in Bytes
         /\ Get(Put(v, DR, x), DR) = x
         /\ Get(Put(v, DR, x), CM) = Get(v, CM)
         /\ Get(Put(v, DR, x), TS) = Get(v, TS)
  BY SMTT(30) DEF Put, Get, Field, DR, CM, TS, Bytes

\* The same for the conversion mode.
LEMMA PutMode ==
  ASSUME NEW v \in Bytes, NEW x \in 0 .. 1
  PROVE  /\ Put(v, CM, x) \in Bytes
         /\ Get(Put(v, CM, x), CM) = x
         /\ Get(Put(v, CM, x), DR) = Get(v, DR)
         /\ Get(Put(v, CM, x), TS) = Get(v, TS)
  BY SMTT(30) DEF Put, Get, Field, CM, DR, TS, Bytes

\* The same for the temperature sensor's switch.
LEMMA PutSense ==
  ASSUME NEW v \in Bytes, NEW x \in 0 .. 1
  PROVE  /\ Put(v, TS, x) \in Bytes
         /\ Get(Put(v, TS, x), TS) = x
         /\ Get(Put(v, TS, x), DR) = Get(v, DR)
         /\ Get(Put(v, TS, x), CM) = Get(v, CM)
  BY SMTT(30) DEF Put, Get, Field, TS, DR, CM, Bytes

\* The fields by register.
LEMMA FieldsByRegister ==
  /\ Fields = {MUX, PGA_GAIN, PGA_BYPASS, DR, CM, TS}
  /\ MUX.size = 16 /\ PGA_GAIN.size = 8 /\ DR.size = 8
  /\ PGA_BYPASS.size = 2 /\ CM.size = 2 /\ TS.size = 2
  /\ MUX.reg = 0 /\ PGA_GAIN.reg = 0 /\ PGA_BYPASS.reg = 0
  /\ DR.reg = 1 /\ CM.reg = 1 /\ TS.reg = 1
  BY DEF Fields, Field, MUX, PGA_GAIN, PGA_BYPASS, DR, CM, TS

\* The same for any field.
LEMMA PutField ==
  ASSUME NEW f \in Fields, NEW v \in Bytes, NEW x \in 0 .. f.size - 1
  PROVE  /\ Put(v, f, x) \in Bytes
         /\ Get(Put(v, f, x), f) = x
         /\ \A g \in Fields \ {f} : g.reg = f.reg => Get(Put(v, f, x), g) = Get(v, g)
<1>1. CASE f = MUX
  <2>1. x \in 0 .. 15 /\ \A g \in Fields \ {f} : g.reg = f.reg => g = PGA_GAIN \/ g = PGA_BYPASS
    BY <1>1, FieldsByRegister
  <2> QED
    BY <1>1, <2>1, PutMux
<1>2. CASE f = PGA_GAIN
  <2>1. x \in 0 .. 7 /\ \A g \in Fields \ {f} : g.reg = f.reg => g = MUX \/ g = PGA_BYPASS
    BY <1>2, FieldsByRegister
  <2> QED
    BY <1>2, <2>1, PutGain
<1>3. CASE f = PGA_BYPASS
  <2>1. x \in 0 .. 1 /\ \A g \in Fields \ {f} : g.reg = f.reg => g = MUX \/ g = PGA_GAIN
    BY <1>3, FieldsByRegister
  <2> QED
    BY <1>3, <2>1, PutBypass
<1>4. CASE f = DR
  <2>1. x \in 0 .. 7 /\ \A g \in Fields \ {f} : g.reg = f.reg => g = CM \/ g = TS
    BY <1>4, FieldsByRegister
  <2> QED
    BY <1>4, <2>1, PutRate
<1>5. CASE f = CM
  <2>1. x \in 0 .. 1 /\ \A g \in Fields \ {f} : g.reg = f.reg => g = DR \/ g = TS
    BY <1>5, FieldsByRegister
  <2> QED
    BY <1>5, <2>1, PutMode
<1>6. CASE f = TS
  <2>1. x \in 0 .. 1 /\ \A g \in Fields \ {f} : g.reg = f.reg => g = DR \/ g = CM
    BY <1>6, FieldsByRegister
  <2> QED
    BY <1>6, <2>1, PutSense
<1> QED
  BY <1>1, <1>2, <1>3, <1>4, <1>5, <1>6, FieldsByRegister

\* The converter takes a written register for what it is.
LEMMA ReceivedWrite ==
  ASSUME NEW a \in Addresses, NEW v \in Bytes, NEW regs \in Registers
  PROVE  Received(writeRegister(a, v), regs) = [regs EXCEPT ![a] = v]
<1>1. writeRegister(a, v)[1] = 64 + 4 * a /\ writeRegister(a, v)[2] = v
  BY DEF writeRegister, WREG
<1>2. (64 + 4 * a) \div 16 = WREG \div 16 /\ Addressed(64 + 4 * a) = a
  BY DEF Addressed, WREG, Addresses
<1> QED
  BY <1>1, <1>2 DEF Received

\* RESET restores the registers; START concerns none of them.
LEMMA ReceivedCommand ==
  ASSUME NEW regs \in Registers
  PROVE  /\ Received(spi_command(RESET), regs) = PowerUpRegisters
         /\ Received(spi_command(START), regs) = regs
  BY DEF Received, spi_command, RESET, START, WREG

\* A call's writes reach the registers named, unless they are lost.
LEMMA WrittenRegisters ==
  ASSUME NEW from \in Registers, NEW regs \in Registers, NEW ws \in SUBSET Addresses, NEW lost
  PROVE  Written(from, regs, ws, lost) =
           [a \in Addresses |-> IF a \in ws \ lost THEN regs[a] ELSE from[a]]
  BY ReceivedWrite DEF Written, Registers

\* What an uninitialised buffer holds are bytes.
LEMMA GarbageRegisters == [Addresses -> Garbage] \subseteq Registers
<1>1. Garbage \subseteq Bytes
  BY DriverAssumption DEF Bytes
<1> QED
  BY <1>1, Zenon DEF Registers

\* A read gives registers; if nothing is lost, those of the converter.
LEMMA ReadBackRegisters ==
  ASSUME NEW regs \in Registers, NEW lost
  PROVE  ReadBack(regs, lost) \subseteq Registers /\ ReadBack(regs, {}) \subseteq {regs}
<1>1. \A a \in Addresses : Addressed(RREG + 4 * a) = a
  BY DEF Addressed, RREG, Addresses
<1> QED
  <2> DEFINE R(l, g) == [a \in Addresses |-> IF a \in l THEN g[a] ELSE regs[Addressed(RREG + 4 * a)]]
  <2>1. ASSUME NEW g \in [Addresses -> Garbage]
        PROVE  R(lost, g) \in Registers /\ R({}, g) = regs
    <3>1. \A a \in Addresses : g[a] \in Bytes /\ regs[a] \in Bytes
      BY GarbageRegisters DEF Registers
    <3>2. R(lost, g) = [a \in Addresses |-> IF a \in lost THEN g[a] ELSE regs[a]]
      BY <1>1, Zenon
    <3>3. R(lost, g) \in Registers
      BY <3>1, <3>2 DEF Registers
    <3>4. R({}, g) = regs
      <4>1. R({}, g) = [a \in Addresses |-> regs[a]]
        BY <1>1
      <4>2. regs = [a \in Addresses |-> regs[a]]
        BY DEF Registers
      <4> QED
        BY <4>1, <4>2
    <3> QED
      BY <3>3, <3>4
  <2>2. \A l : ReadBack(regs, l) = {R(l, g) : g \in [Addresses -> Garbage]}
    BY DEF ReadBack
  <2> HIDE DEF R
  <2> QED
    BY <2>1, <2>2

\* The two sets of registers the driver knows are bytes.
LEMMA Constants ==
  BeginRegisters \in Registers /\ PowerUpRegisters \in Registers
  BY DEF BeginRegisters, PowerUpRegisters, Registers, Addresses, Bytes

\* With a working SPI no transfer of a call fails.
LEMMA NothingFails ==
  ASSUME MaxFail = 0, NEW ts, IsFiniteSet(ts), NEW lost \in Failing(ts)
  PROVE  lost = {}
<1>1. IsFiniteSet(lost) /\ Cardinality(lost) <= 0
  BY FS_Subset DEF Failing
<1> QED
  BY <1>1, FS_CardinalityType, FS_EmptySet

\* The transfers of a call are finitely many.
LEMMA FiniteAddresses ==
  IsFiniteSet(Addresses) /\ IsFiniteSet({"RESET"}) /\ \A a : IsFiniteSet({a})
<1>1. \A m, n \in Int : IsFiniteSet(m .. n)
  BY FS_Interval
<1>2. 0 \in Int /\ 3 \in Int
  OBVIOUS
<1>3. IsFiniteSet(0 .. 3)
  BY <1>1, <1>2, Zenon
<1> QED
  BY <1>3, FS_Singleton DEF Addresses

-----------------------------------------------------------------------------
\* Every setter is SetField, of one of the fields and a value of that field.
LEMMA SetterCases ==
  ASSUME Next
  PROVE  \/ begin \/ ads1220_reset \/ start_conv \/ get_config_reg \/ set_config_reg
         \/ \E f \in Fields : \E x \in 0 .. f.size - 1 : SetField(f, x)
<1> DEFINE Set(f) == \E x \in 0 .. f.size - 1 : SetField(f, x)
<1> HIDE DEF Set
<1>1. MUX.size = 16 /\ PGA_GAIN.size = 8 /\ DR.size = 8 /\ PGA_BYPASS.size = 2 /\ CM.size = 2 /\ TS.size = 2
  BY FieldsByRegister
<1>2. /\ pga_on => Set(PGA_BYPASS)
      /\ pga_off => Set(PGA_BYPASS)
      /\ set_conv_mode_continuous => Set(CM)
      /\ set_conv_mode_single_shot => Set(CM)
      /\ temp_sense_on => Set(TS)
      /\ temp_sense_off => Set(TS)
  BY <1>1 DEF Set, pga_on, pga_off, set_conv_mode_continuous, set_conv_mode_single_shot,
              temp_sense_on, temp_sense_off
<1>3. /\ set_data_rate => Set(DR)
      /\ select_mux_channels => Set(MUX)
      /\ set_pga_gain => Set(PGA_GAIN)
  BY <1>1, DriverAssumption DEF Set, set_data_rate, select_mux_channels, set_pga_gain
<1>4. \A f \in {MUX, PGA_GAIN, PGA_BYPASS, DR, CM, TS} : Set(f) =>
        \E g \in Fields : \E x \in 0 .. g.size - 1 : SetField(g, x)
  BY DEF Set, Fields
<1> QED
  BY <1>2, <1>3, <1>4 DEF Next

\* What a setter does to the registers: one field of the copy, and that register written.
LEMMA SetFieldRegisters ==
  ASSUME TypeOK, NEW f \in Fields, NEW x \in 0 .. f.size - 1, SetField(f, x)
  PROVE  /\ f.reg \in Addresses
         /\ settingsR' \in Registers
         /\ settingsR' = [settingsR EXCEPT ![f.reg] = Put(settingsR[f.reg], f, x)]
         /\ \E lost \in Failing({f.reg}) :
              chip' = [a \in Addresses |-> IF a \in {f.reg} \ lost THEN settingsR'[a] ELSE chip[a]]
<1>1. f.reg \in Addresses
  BY FieldsByRegister DEF Addresses
<1>2. settingsR' = [settingsR EXCEPT ![f.reg] = Put(settingsR[f.reg], f, x)]
  BY DEF SetField
<1>3. Put(settingsR[f.reg], f, x) \in Bytes
  BY <1>1, PutField DEF TypeOK, Registers
<1>4. settingsR' \in Registers
  BY <1>1, <1>2, <1>3 DEF TypeOK, Registers
<1>5. PICK lost \in Failing({f.reg}) : chip' = Written(chip, settingsR', {f.reg}, lost)
  BY DEF SetField
<1>6. Written(chip, settingsR', {f.reg}, lost) =
        [a \in Addresses |-> IF a \in {f.reg} \ lost THEN settingsR'[a] ELSE chip[a]]
  <2>1. {f.reg} \in SUBSET Addresses /\ chip \in Registers
    BY <1>1 DEF TypeOK
  <2>2. \A regs \in Registers, ws \in SUBSET Addresses :
          Written(chip, regs, ws, lost) =
            [a \in Addresses |-> IF a \in ws \ lost THEN regs[a] ELSE chip[a]]
    BY <2>1, WrittenRegisters
  <2> QED
    BY <2>1, <2>2, <1>4, Zenon
<1> QED
  BY <1>1, <1>2, <1>4, <1>5, <1>6

\* Every call keeps the types, whatever fails.
LEMMA TypeStep ==
  ASSUME TypeOK, [Next]_vars
  PROVE  TypeOK'
<1> DEFINE Setter == \E f \in Fields : \E x \in 0 .. f.size - 1 : SetField(f, x)
<1> USE Constants, ReceivedCommand, ReadBackRegisters
<1>1. CASE begin
  <2>1. PICK regs \in Registers, lostW \in Failing(Addresses), lostR \in Failing(Addresses) :
          /\ settings' = BeginRegisters /\ returned' = "0" /\ behind' = FALSE
          /\ chip' = Written(regs, BeginRegisters, Addresses, lostW)
          /\ settingsR' \in ReadBack(chip', lostR)
    BY <1>1 DEF begin, TypeOK
  <2>2. chip' \in Registers
    <3>1. Written(regs, BeginRegisters, Addresses, lostW) =
            [a \in Addresses |-> IF a \in Addresses \ lostW THEN BeginRegisters[a] ELSE regs[a]]
      BY WrittenRegisters
    <3> QED
      BY <2>1, <3>1 DEF Registers
  <2> QED
    BY <2>1, <2>2 DEF TypeOK
<1>2. CASE ads1220_reset
  BY <1>2 DEF ads1220_reset, TypeOK
<1>3. CASE start_conv
  BY <1>3 DEF start_conv, TypeOK
<1>4. CASE get_config_reg
  BY <1>4 DEF get_config_reg, TypeOK
<1>5. CASE set_config_reg
  <2>1. PICK regs \in Registers, lost \in Failing(Addresses) : chip' = Written(chip, regs, Addresses, lost)
    BY <1>5 DEF set_config_reg
  <2>2. Written(chip, regs, Addresses, lost) =
          [a \in Addresses |-> IF a \in Addresses \ lost THEN regs[a] ELSE chip[a]]
    BY WrittenRegisters DEF TypeOK
  <2>3. chip' \in Registers
    BY <2>1, <2>2 DEF TypeOK, Registers
  <2> QED
    BY <1>5, <2>3 DEF set_config_reg, TypeOK
<1>6. CASE Setter
  <2>1. PICK f \in Fields : \E x \in 0 .. f.size - 1 : SetField(f, x)
    BY <1>6
  <2>2. PICK x \in 0 .. f.size - 1 : SetField(f, x)
    BY <2>1
  <2>3. PICK lost :
          chip' = [a \in Addresses |-> IF a \in {f.reg} \ lost THEN settingsR'[a] ELSE chip[a]]
    BY <2>2, SetFieldRegisters
  <2>4. settingsR' \in Registers
    BY <2>2, SetFieldRegisters
  <2>5. chip' \in Registers
    BY <2>3, <2>4 DEF TypeOK, Registers
  <2> QED
    BY <2>2, <2>4, <2>5 DEF SetField, TypeOK
<1>7. CASE UNCHANGED vars
  BY <1>7 DEF vars, TypeOK
<1>8. Next => begin \/ ads1220_reset \/ start_conv \/ get_config_reg \/ set_config_reg \/ Setter
  BY SetterCases
<1> HIDE DEF Setter
<1> QED
  BY <1>1, <1>2, <1>3, <1>4, <1>5, <1>6, <1>7, <1>8

\* The initial state has its types.
LEMMA InitTypes == Init => TypeOK
  BY GarbageRegisters, Constants DEF Init, TypeOK

\* The registers of the converter and both copies stay bytes, whatever transfers fail and
\* whatever an uninitialised buffer holds.
THEOREM DriverTypeCorrect == Spec => []TypeOK
<1>1. Init => TypeOK
  BY InitTypes
<1>2. TypeOK /\ [Next]_vars => TypeOK'
  BY TypeStep
<1> QED
  BY <1>1, <1>2, PTL DEF Spec
-----------------------------------------------------------------------------
\* Under a working SPI: what each kind of call does to the registers and to the copy.
LEMMA WorkingField ==
  ASSUME MaxFail = 0, TypeOK, CopyFollowsChip, ~behind,
         NEW f \in Fields, NEW x \in 0 .. f.size - 1, SetField(f, x)
  PROVE  /\ chip' = [chip EXCEPT ![f.reg] = Put(chip[f.reg], f, x)]
         /\ settingsR' = chip'
<1>1. \A lost \in Failing({f.reg}) : lost = {}
  BY NothingFails, FiniteAddresses
<1>2. chip' = [a \in Addresses |-> IF a = f.reg THEN settingsR'[a] ELSE chip[a]]
  BY <1>1, SetFieldRegisters
<1>3. settingsR = chip /\ f.reg \in Addresses
  BY SetFieldRegisters DEF CopyFollowsChip
<1>4. settingsR' = [chip EXCEPT ![f.reg] = Put(chip[f.reg], f, x)]
  BY <1>3, SetFieldRegisters
<1>5. chip \in [Addresses -> Bytes]
  BY DEF TypeOK, Registers
<1> QED
  BY <1>2, <1>3, <1>4, <1>5

\* No call takes the copy and the converter apart.
LEMMA CopyStep ==
  ASSUME MaxFail = 0, TypeOK, CopyFollowsChip, [Next]_vars
  PROVE  CopyFollowsChip'
<1>0. \A lost \in Failing(Addresses) : lost = {}
  BY NothingFails, FiniteAddresses
<1>1. CASE begin
  <2>1. settingsR' \in ReadBack(chip', {})
    BY <1>0, <1>1 DEF begin
  <2>2. chip' \in Registers
    BY TypeStep DEF TypeOK
  <2> QED
    BY <2>1, <2>2, ReadBackRegisters DEF CopyFollowsChip
<1>2. CASE ads1220_reset \/ set_config_reg
  BY <1>2 DEF ads1220_reset, set_config_reg, CopyFollowsChip
<1>3. CASE start_conv
  BY <1>3, ReceivedCommand DEF start_conv, TypeOK, CopyFollowsChip
<1>4. CASE get_config_reg
  <2>1. settingsR' \in ReadBack(chip, {}) /\ UNCHANGED chip
    BY <1>0, <1>4 DEF get_config_reg
  <2> QED
    BY <2>1, ReadBackRegisters DEF TypeOK, CopyFollowsChip
<1>5. ASSUME NEW f \in Fields, NEW x \in 0 .. f.size - 1, SetField(f, x)
      PROVE  CopyFollowsChip'
  <2>1. behind' = behind
    BY <1>5 DEF SetField
  <2> QED
    BY <1>5, <2>1, WorkingField DEF CopyFollowsChip
<1>6. CASE UNCHANGED vars
  BY <1>6 DEF vars, CopyFollowsChip
<1> QED
  BY <1>1, <1>2, <1>3, <1>4, <1>5, <1>6, SetterCases

\* With a working SPI the copy of the registers the setters work on is the converter's, from
\* begin on until ads1220_reset or set_config_reg writes past it.
THEOREM CopyIsTrue == ASSUME MaxFail = 0 PROVE Spec => []CopyFollowsChip
<1>1. Init => TypeOK /\ CopyFollowsChip
  <2>1. Init => CopyFollowsChip
    BY DEF Init, CopyFollowsChip
  <2> QED
    BY <2>1, InitTypes
<1>2. TypeOK /\ CopyFollowsChip /\ [Next]_vars => (TypeOK /\ CopyFollowsChip)'
  BY TypeStep, CopyStep
<1> QED
  BY <1>1, <1>2, PTL DEF Spec

\* A setter of f sets f and leaves the converter's other fields alone.
LEMMA SetsField ==
  ASSUME MaxFail = 0, TypeOK, CopyFollowsChip, ~behind,
         NEW f \in Fields, NEW values, NEW x \in values, x \in 0 .. f.size - 1, SetField(f, x)
  PROVE  Sets(f, values)
<1>1. /\ chip' = [chip EXCEPT ![f.reg] = Put(chip[f.reg], f, x)]
      /\ f.reg \in Addresses /\ chip \in Registers /\ chip[f.reg] \in Bytes
  BY WorkingField, SetFieldRegisters DEF TypeOK, Registers
<1>2. chip'[f.reg] = Put(chip[f.reg], f, x) /\ \A a \in Addresses \ {f.reg} : chip'[a] = chip[a]
  BY <1>1 DEF Registers
<1>3. Get(chip'[f.reg], f) \in values
  BY <1>1, <1>2, PutField
<1>4. ASSUME NEW g \in Fields \ {f} PROVE Get(chip'[g.reg], g) = Get(chip[g.reg], g)
  <2>1. CASE g.reg = f.reg
    BY <1>1, <1>2, <2>1, PutField
  <2>2. CASE g.reg # f.reg
    <3>1. g.reg \in Addresses
      BY FieldsByRegister DEF Addresses
    <3> QED
      BY <1>2, <2>2, <3>1
  <2> QED
    BY <2>1, <2>2
<1> QED
  BY <1>3, <1>4 DEF Sets

\* With a working SPI no setter undoes what another one set, though each writes a whole
\* register from the driver's copy.
THEOREM NothingIsUndone == ASSUME MaxFail = 0 PROVE Spec => NoLostUpdate
<1> DEFINE Kept ==
      ~behind =>
       /\ pga_on => Sets(PGA_BYPASS, {0})
       /\ pga_off => Sets(PGA_BYPASS, {1})
       /\ set_conv_mode_continuous => Sets(CM, {1})
       /\ set_conv_mode_single_shot => Sets(CM, {0})
       /\ set_data_rate => Sets(DR, DataRates)
       /\ select_mux_channels => Sets(MUX, MuxChannels)
       /\ set_pga_gain => Sets(PGA_GAIN, Gains)
       /\ temp_sense_on => Sets(TS, {1})
       /\ temp_sense_off => Sets(TS, {0})
<1>1. TypeOK /\ CopyFollowsChip => Kept
  <2> SUFFICES ASSUME TypeOK, CopyFollowsChip, ~behind PROVE Kept
    OBVIOUS
  <2>1. /\ {MUX, PGA_GAIN, PGA_BYPASS, DR, CM, TS} \subseteq Fields
        /\ MUX.size = 16 /\ PGA_GAIN.size = 8 /\ DR.size = 8
        /\ PGA_BYPASS.size = 2 /\ CM.size = 2 /\ TS.size = 2
    BY FieldsByRegister
  <2>2. pga_on => Sets(PGA_BYPASS, {0})
    BY <2>1, SetsField DEF pga_on
  <2>3. pga_off => Sets(PGA_BYPASS, {1})
    BY <2>1, SetsField DEF pga_off
  <2>4. set_conv_mode_continuous => Sets(CM, {1})
    BY <2>1, SetsField DEF set_conv_mode_continuous
  <2>5. set_conv_mode_single_shot => Sets(CM, {0})
    BY <2>1, SetsField DEF set_conv_mode_single_shot
  <2>6. set_data_rate => Sets(DR, DataRates)
    BY <2>1, SetsField, DriverAssumption DEF set_data_rate
  <2>7. select_mux_channels => Sets(MUX, MuxChannels)
    BY <2>1, SetsField, DriverAssumption DEF select_mux_channels
  <2>8. set_pga_gain => Sets(PGA_GAIN, Gains)
    BY <2>1, SetsField, DriverAssumption DEF set_pga_gain
  <2>9. temp_sense_on => Sets(TS, {1})
    BY <2>1, SetsField DEF temp_sense_on
  <2>10. temp_sense_off => Sets(TS, {0})
    BY <2>1, SetsField DEF temp_sense_off
  <2> QED
    BY <2>2, <2>3, <2>4, <2>5, <2>6, <2>7, <2>8, <2>9, <2>10
<1>2. Spec => []TypeOK /\ []CopyFollowsChip
  BY DriverTypeCorrect, CopyIsTrue
<1>3. NoLostUpdate <=> [][Kept]_vars
  BY DEF NoLostUpdate
<1> HIDE DEF Kept
<1> QED
  BY <1>1, <1>2, <1>3, PTL
=============================================================================
