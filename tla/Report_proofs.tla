---------------------------- MODULE Report_proofs ----------------------------
(***************************************************************************)
(* Theorems about Report, its samples and what a client sees of them, for  *)
(* any bytes the converter may answer and any number of failures.          *)
(***************************************************************************)
EXTENDS Report, GattDb_proofs, TLAPS

\* The shifts of read_data_samples put the three bytes side by side.
LEMMA Low24 ==
  ASSUME NEW x \in Int, NEW y \in Int, NEW z \in Int,
         0 <= x, x < 256, 0 <= y, y < 256, 0 <= z, z < 256
  PROVE  Shl(Shl(x, 8) + y, 8) + z = x * 65536 + y * 256 + z
<1>1. Shl(x, 8) = 256 * x
  BY SMT DEF Shl, Signed
<1>2. Shl(256 * x + y, 8) = 256 * (256 * x + y)
  BY SMT DEF Shl, Signed
<1> QED
  BY <1>1, <1>2, SMT

\* Up and down by eight bits, and bit 23 is the sign.
LEMMA SignExtended ==
  ASSUME NEW n \in Int, 0 <= n, n < 16777216
  PROVE  Shr(Shl(n, 8), 8) = IF n < 8388608 THEN n ELSE n - 16777216
<1>1. n % 16777216 = n
  BY SMT
<1>2. Signed(n, 24) = IF n < 8388608 THEN n ELSE n - 16777216
  BY <1>1, SMT DEF Signed
<1>3. \A m \in Int : Shr(m * 256, 8) = m
  BY SMT DEF Shr
<1>4. Shl(n, 8) = Signed(n, 24) * 256
  BY SMT DEF Shl
<1> QED
  BY <1>2, <1>3, <1>4, SMT

\* read_data_samples turns any three bytes into the signed 24-bit number they stand for.
THEOREM AssembleIsTwosComplement ==
  ASSUME NEW b \in [1 .. 3 -> Byte]
  PROVE  Assemble(b) = TwosComplement24(b)
<1>1. \A k \in {1, 2, 3} : b[k] \in Int /\ 0 <= b[k] /\ b[k] < 256
  BY SMT DEF Byte
<1>2. PICK x \in Int, y \in Int, z \in Int :
        /\ b[1] = x /\ b[2] = y /\ b[3] = z
        /\ 0 <= x /\ x < 256 /\ 0 <= y /\ y < 256 /\ 0 <= z /\ z < 256
  BY <1>1
<1> DEFINE n == x * 65536 + y * 256 + z
<1>3. n \in Int /\ 0 <= n /\ n < 16777216 /\ (n < 8388608 <=> x < 128)
  BY <1>2, SMT
<1>4. TwosComplement24(b) = IF x < 128 THEN n ELSE n - 16777216
  BY <1>2, SMT DEF TwosComplement24
<1>5. Shl(Shl(x, 8) + y, 8) + z = n
  BY <1>2, Low24
<1>6. Assemble(b) = Shr(Shl(n, 8), 8)
  <2>1. Assemble(b) = Shr(Shl(Shl(Shl(x, 8) + y, 8) + z, 8), 8)
    BY <1>2 DEF Assemble
  <2> QED
    BY <1>5, <2>1
<1> HIDE DEF n
<1> QED
  BY <1>3, <1>4, <1>6, SignExtended, SMT

-----------------------------------------------------------------------------
\* The types SampleWhole needs, where slot is within its bounds, and what the buffer holds
\* while a sample is read: its bytes so far, unless one of its transfers failed.
SampleTypes ==
  /\ pc \in {"loop", "read", "write", "notify", "return", "stuck"}
  /\ slot \in 0 .. 4 /\ transfer \in 0 .. 3 /\ round \in 0 .. 1 /\ fails \in Nat
  /\ rx_buffer \in [1 .. 3 -> Byte]
  /\ DOMAIN sensor_data = Slots
SlotOfStep ==
  /\ pc = "read" => slot < 4
  /\ pc \notin {"loop", "read"} => slot = 0
BytesSoFar ==
  pc = "read" /\ slot \notin torn =>
    \A i \in 1 .. 3 : i <= transfer => rx_buffer[i] = Readings[round][slot][i]
SampleInv == SampleTypes /\ SlotOfStep /\ BytesSoFar /\ SampleWhole

\* What the converter answers are bytes.
LEMMA ReadingBytes ==
  ASSUME NEW p \in 0 .. 1, NEW s \in Slots
  PROVE  Readings[p][s] \in [1 .. 3 -> Byte]
  BY ReadingsAssumption DEF Slots

\* The reset finds no sample.
LEMMA SamplesInit == Init => SampleInv
<1> SUFFICES ASSUME Init PROVE SampleInv
  OBVIOUS
<1>1. <<0, 0, 0>> \in [1 .. 3 -> Byte]
  BY DEF Byte
<1>2. slot = 0 /\ pc = "loop" /\ DOMAIN sensor_data = Slots /\ rx_buffer = <<0, 0, 0>>
  BY DEF Init, FreshPath
<1>3. SampleWhole
  BY <1>2 DEF SampleWhole, Slots
<1> QED
  BY <1>1, <1>2, <1>3 DEF Init, SampleInv, SampleTypes, SlotOfStep, BytesSoFar

\* One transfer: a byte arrives, or its slot is torn from now on.
LEMMA ByteStep == ASSUME SampleInv, ReceiveByte PROVE SampleInv'
<1> USE DEF SampleInv
<1>1. /\ pc = "read" /\ pc' = pc /\ slot' = slot /\ round' = round /\ sensor_data' = sensor_data
      /\ transfer < 3 /\ transfer' = transfer + 1
  BY DEF ReceiveByte, Transfers, client
<1>2. PICK sc \in Outcomes :
        /\ Count(sc)
        /\ rx_buffer' = IF sc = "ok" THEN [rx_buffer EXCEPT ![transfer + 1] =
                                             Readings[round][slot][transfer + 1]]
                        ELSE rx_buffer
        /\ torn' = IF sc = "fail" THEN torn \cup {slot} ELSE torn
  BY DEF ReceiveByte
<1>3. slot \in Slots /\ round \in 0 .. 1 /\ transfer + 1 \in 1 .. 3
  BY <1>1 DEF SampleTypes, SlotOfStep, Slots
<1>4. Readings[round][slot] \in [1 .. 3 -> Byte]
  BY <1>3, ReadingBytes
<1>5. rx_buffer' \in [1 .. 3 -> Byte] /\ fails' \in Nat
  BY <1>2, <1>3, <1>4 DEF SampleTypes, Count
<1>6. SampleTypes'
  BY <1>1, <1>5 DEF SampleTypes
<1>7. SlotOfStep'
  BY <1>1 DEF SlotOfStep
<1>8. BytesSoFar'
  <2> SUFFICES ASSUME slot \notin torn', NEW i \in 1 .. 3, i <= transfer + 1
               PROVE  rx_buffer'[i] = Readings[round][slot][i]
    BY <1>1 DEF BytesSoFar
  <2>1. sc = "ok" /\ slot \notin torn
    BY <1>2 DEF Outcomes
  <2>2. rx_buffer' = [rx_buffer EXCEPT ![transfer + 1] = Readings[round][slot][transfer + 1]]
    BY <1>2, <2>1
  <2>3. CASE i = transfer + 1
    BY <2>2, <2>3 DEF SampleTypes
  <2>4. CASE i # transfer + 1
    <3>1. i <= transfer /\ rx_buffer'[i] = rx_buffer[i]
      BY <2>2, <2>4 DEF SampleTypes
    <3> QED
      BY <1>1, <2>1, <3>1 DEF BytesSoFar
  <2> QED
    BY <2>3, <2>4
<1>9. SampleWhole'
  BY <1>1, <1>2 DEF SampleWhole
<1> QED
  BY <1>6, <1>7, <1>8, <1>9

\* The third byte is in: the sample is assembled into its slot.
LEMMA SampleStep == ASSUME SampleInv, ReturnSample PROVE SampleInv'
<1> USE DEF SampleInv
<1>1. /\ pc = "read" /\ pc' = "loop" /\ slot' = slot + 1 /\ transfer = 3
      /\ sensor_data' = [sensor_data EXCEPT ![slot] = Assemble(rx_buffer)]
      /\ UNCHANGED <<transfer, rx_buffer, round, fails, torn>>
  BY DEF ReturnSample, Transfers
<1>2. slot \in Slots /\ slot < 4 /\ slot' \in 0 .. 4
  BY <1>1 DEF SampleTypes, SlotOfStep, Slots
<1>3. SampleTypes'
  BY <1>1, <1>2 DEF SampleTypes
<1>4. SlotOfStep' /\ BytesSoFar'
  BY <1>1 DEF SlotOfStep, BytesSoFar
<1>5. SampleWhole'
  <2> SUFFICES ASSUME NEW s \in Slots, s < slot + 1, s \notin torn
               PROVE  sensor_data'[s] = TwosComplement24(Readings[round][s])
    BY <1>1 DEF SampleWhole
  <2>1. CASE s = slot
    <3>1. \A i \in 1 .. 3 : rx_buffer[i] = Readings[round][s][i]
      BY <1>1, <2>1 DEF BytesSoFar
    <3>2. rx_buffer \in [1 .. 3 -> Byte] /\ Readings[round][s] \in [1 .. 3 -> Byte]
      BY ReadingBytes DEF SampleTypes
    <3>3. rx_buffer = Readings[round][s]
      BY <3>1, <3>2
    <3>4. sensor_data'[s] = Assemble(rx_buffer)
      BY <1>1, <2>1 DEF SampleTypes
    <3> QED
      BY <3>2, <3>3, <3>4, AssembleIsTwosComplement
  <2>2. CASE s # slot
    <3>1. s < slot /\ sensor_data'[s] = sensor_data[s]
      BY <1>1, <1>2, <2>2 DEF SampleTypes, Slots
    <3> QED
      BY <3>1 DEF SampleWhole
  <2> QED
    BY <2>1, <2>2
<1> QED
  BY <1>3, <1>4, <1>5

\* The sender and the client leave the samples alone; a round and a reset start with none.
LEMMA OtherStep ==
  ASSUME SampleInv,
         \/ RetrieveData \/ BeginSend \/ WriteAttribute \/ NotifyAll \/ SendReturned
         \/ Connect \/ Disconnect \/ Subscribe \/ Reset \/ UNCHANGED vars
  PROVE  SampleInv'
<1> USE DEF SampleInv
<1> DEFINE Same == UNCHANGED <<slot, transfer, rx_buffer, sensor_data, round, torn>>
<1>0. ASSUME fails \in Nat, NEW sc, Count(sc) PROVE fails' \in Nat
  BY <1>0 DEF Count
<1>1. CASE RetrieveData
  <2>1. /\ pc' = "read" /\ transfer' = 0 /\ slot < 4 /\ torn' = torn \ {slot}
        /\ UNCHANGED <<slot, rx_buffer, sensor_data, round, fails>>
    BY <1>1 DEF RetrieveData
  <2>2. BytesSoFar'
    BY <2>1 DEF BytesSoFar
  <2>3. SampleWhole'
    <3> SUFFICES ASSUME NEW s \in Slots, s < slot, s \notin torn'
                 PROVE  sensor_data[s] = TwosComplement24(Readings[round][s])
      BY <2>1 DEF SampleWhole
    <3>1. s # slot
      BY DEF SampleTypes, Slots
    <3>2. s \notin torn
      BY <2>1, <3>1
    <3> QED
      BY <3>2 DEF SampleWhole
  <2>4. SampleTypes' /\ SlotOfStep'
    BY <2>1 DEF SampleTypes, SlotOfStep
  <2> QED
    BY <2>2, <2>3, <2>4
<1>2. CASE BeginSend
  <2>1. /\ pc' = "write" /\ slot' = 0
        /\ UNCHANGED <<transfer, rx_buffer, sensor_data, round, fails, torn>>
    BY <1>2 DEF BeginSend
  <2>2. SampleWhole'
    BY <2>1 DEF SampleWhole, Slots
  <2> QED
    BY <2>1, <2>2 DEF SampleTypes, SlotOfStep, BytesSoFar
<1>3. CASE WriteAttribute
  <2>1. pc = "write" /\ pc' = "notify" /\ Same /\ \E sc : Count(sc)
    BY <1>3 DEF WriteAttribute
  <2> QED
    BY <1>0, <2>1 DEF SampleTypes, SlotOfStep, BytesSoFar, SampleWhole
<1>4. CASE NotifyAll
  <2>1. pc = "notify" /\ pc' \in {"write", "return"} /\ Same /\ \E sc : Count(sc)
    BY <1>4 DEF NotifyAll, NextQuarter
  <2> QED
    BY <1>0, <2>1 DEF SampleTypes, SlotOfStep, BytesSoFar, SampleWhole
<1>5. CASE SendReturned
  <2>1. /\ pc = "return" /\ pc' \in {"loop", "stuck"} /\ round' \in {round, 1 - round}
        /\ UNCHANGED <<slot, transfer, rx_buffer, sensor_data, fails, torn>>
    BY <1>5 DEF SendReturned
  <2>2. slot = 0 /\ slot' = 0 /\ round' \in 0 .. 1
    BY <2>1 DEF SlotOfStep, SampleTypes
  <2>3. SampleWhole'
    BY <2>2 DEF SampleWhole, Slots
  <2> QED
    BY <2>1, <2>2, <2>3 DEF SampleTypes, SlotOfStep, BytesSoFar
<1>6. CASE Connect \/ Disconnect \/ Subscribe \/ UNCHANGED vars
  <2>1. UNCHANGED <<pc, slot, transfer, rx_buffer, sensor_data, round, fails, torn>>
    BY <1>6 DEF Connect, Disconnect, Subscribe, vars, path
  <2> QED
    BY <2>1 DEF SampleTypes, SlotOfStep, BytesSoFar, SampleWhole
<1>7. CASE Reset
  <2>1. <<0, 0, 0>> \in [1 .. 3 -> Byte]
    BY DEF Byte
  <2>2. /\ pc' = "loop" /\ slot' = 0 /\ transfer' = 0 /\ fails' = 0 /\ round' = round
        /\ rx_buffer' = <<0, 0, 0>> /\ DOMAIN sensor_data' = Slots
    BY <1>7 DEF Reset, FreshPath
  <2>3. SampleWhole'
    BY <2>2 DEF SampleWhole, Slots
  <2> QED
    BY <2>1, <2>2, <2>3 DEF SampleTypes, SlotOfStep, BytesSoFar
<1> QED
  BY <1>1, <1>2, <1>3, <1>4, <1>5, <1>6, <1>7

\* For any bytes the converter answers and any failures, a slot read without a failed
\* transfer holds the converter's number, whatever is left in the static buffer.
THEOREM SamplesAreWhole == Spec => []SampleWhole
<1>1. Init => SampleInv
  BY SamplesInit
<1>2. SampleInv /\ [Next]_vars => SampleInv'
  BY ByteStep, SampleStep, OtherStep DEF Next
<1>3. SampleInv => SampleWhole
  BY DEF SampleInv
<1> QED
  BY <1>1, <1>2, <1>3, PTL DEF Spec

-----------------------------------------------------------------------------
(***************************************************************************)
(* What a client sees.                                                     *)
(***************************************************************************)
\* The bytes a client expects of sample d.
Float(d) == BigEndian(convertToMicroVTemp(d))

\* A signed 24-bit number.
Is24Bit(d) == d \in Int /\ -8388608 <= d /\ d < 8388608

\* The types of the rest, where the sender is, and where each byte and sample comes from: a
\* byte of the buffer from its place in some reading, a sample of this round, or of the round
\* being sent, from its own slot.
SenderTypes ==
  /\ sensor_data \in [Slots -> Int]
  /\ \A s \in Slots : Is24Bit(sensor_data[s])
  /\ quarter \in 1 .. 5 /\ number \in {0, 4, 8, 12} /\ status \in {"ok", "fail"}
  /\ link \in BOOLEAN /\ enabled \subseteq Names /\ (enabled # {} => link)
  /\ fails <= MaxFail /\ torn \subseteq Slots
  /\ DOMAIN value = Handles /\ DOMAIN seen = Names
  /\ spoilt \subseteq Handles /\ misled \subseteq Names
SenderPlace ==
  /\ pc \in {"write", "notify"} => quarter < 5 /\ number = 4 * (quarter - 1)
  /\ pc = "return" => quarter = 5
ByteOrigin == \A i \in 1 .. 3 : rx_buffer[i] \in BytesAt(i)
SlotValues ==
  \A s \in Slots : (pc \in {"loop", "read"} => s < slot)
                     => convertToMicroVTemp(sensor_data[s]) \in Values(s, s \in torn)

\* OwnValue, StaleOnlyByFailure and the quarter that is written and not yet notified, by the
\* handles the program names.
Own ==
  \A q \in 1 .. 4 : /\ Shows(value[Target[q]], q - 1, Target[q] \in spoilt)
                    /\ Shows(seen[NameOf[q]].bytes, q - 1, NameOf[q] \in misled)
Written(q) == value[Target[q]] = Float(sensor_data[q - 1]) \/ <<"write", q>> \in missed
Told(q) ==
  NameOf[q] \in enabled /\ <<"notify", q>> \notin missed
    => seen[NameOf[q]] = [bytes |-> Float(sensor_data[q - 1]), round |-> round]
Sent ==
  /\ pc \in {"write", "notify", "return"} =>
       \A q \in 1 .. 4 : q < quarter => Written(q) /\ Told(q)
  /\ pc = "notify" => Written(quarter)

ClientInv == SenderTypes /\ SenderPlace /\ ByteOrigin /\ SlotValues /\ Own /\ Sent

\* The handles the sender names are the database's, one per sensor.
LEMMA Targets ==
  ASSUME NEW q \in 1 .. 4
  PROVE  /\ NameOf[q] \in Names /\ Target[q] \in Handles /\ ValueHandle[NameOf[q]] = Target[q]
         /\ CanNotify[NameOf[q]] /\ attribute(Target[q]).len = 4
<1>1. NameOf[q] \in Names
  BY DEF Names
<1>2. Target[q] = 17 + 4 * q
  BY DEF Target, gattdb_strain_1_characteristic, gattdb_strain_2_characteristic,
         gattdb_strain_3_characteristic, gattdb_temp_1_characteristic
<1>3. ValueHandle[NameOf[q]] = Target[q] /\ CanNotify[NameOf[q]] /\ attribute(Target[q]).len = 4
  BY <1>2, Discovered
<1> QED
  BY <1>1, <1>3 DEF Handles

\* No two sensors share a handle or a name.
LEMMA OneTargetEach ==
  ASSUME NEW q \in 1 .. 4, NEW r \in 1 .. 4, q # r
  PROVE  Target[q] # Target[r] /\ NameOf[q] # NameOf[r]
  BY DEF Target, NameOf, gattdb_strain_1_characteristic, gattdb_strain_2_characteristic,
         gattdb_strain_3_characteristic, gattdb_temp_1_characteristic

\* The invariant in the words of the properties.
LEMMA ClientSees ==
  ASSUME SenderTypes
  PROVE  (Own => OwnValue) /\ (Sent => StaleOnlyByFailure)
<1>1. ASSUME Own PROVE OwnValue
  <2> SUFFICES ASSUME NEW s \in Slots
               PROVE  /\ Shows(value[ValueHandle[NameOf[s + 1]]], s, ValueHandle[NameOf[s + 1]] \in spoilt)
                      /\ Shows(seen[NameOf[s + 1]].bytes, s, NameOf[s + 1] \in misled)
    BY DEF OwnValue
  <2>1. s + 1 \in 1 .. 4 /\ (s + 1) - 1 = s
    BY DEF Slots
  <2>2. ValueHandle[NameOf[s + 1]] = Target[s + 1]
    BY <2>1, Targets
  <2> QED
    BY <1>1, <2>1, <2>2 DEF Own
<1>2. ASSUME Sent PROVE StaleOnlyByFailure
  <2> SUFFICES ASSUME pc \in {"write", "notify", "return"}, NEW q \in 1 .. 4, q < quarter
               PROVE  LET name == NameOf[q]
                          now == BigEndian(convertToMicroVTemp(sensor_data[q - 1]))
                      IN  /\ value[ValueHandle[name]] = now \/ <<"write", q>> \in missed
                          /\ name \in enabled /\ <<"notify", q>> \notin missed
                               => seen[name] = [bytes |-> now, round |-> round]
    BY DEF StaleOnlyByFailure
  <2>1. Written(q) /\ Told(q)
    BY <1>2 DEF Sent
  <2>2. ValueHandle[NameOf[q]] = Target[q]
    BY Targets
  <2> QED
    BY <2>1, <2>2 DEF Written, Told, Float
<1> QED
  BY <1>1, <1>2

\* The bytes the sender's pointer is at, reversed, are those of its quarter.
LEMMA RebmunIsFloat ==
  ASSUME NEW q \in 1 .. 4, number = 4 * (q - 1), sensor_data \in [Slots -> Int]
  PROVE  rebmun = Float(sensor_data[q - 1])
<1> DEFINE v == convertToMicroVTemp(sensor_data[q - 1])
           tail == SubSeq(result, number + 1, Len(result))
<1>1. Len(result) = 16 /\ DOMAIN result = 1 .. 16
  BY DEF result, FloatSize
<1>2. \A k \in 1 .. 4 : result[number + k] = [of |-> v, byte |-> k - 1]
  <2> SUFFICES ASSUME NEW k \in 1 .. 4 PROVE result[number + k] = [of |-> v, byte |-> k - 1]
    OBVIOUS
  <2>1. number + k \in 1 .. 16 /\ (number + k - 1) \div 4 = q - 1 /\ ((number + k - 1) % 4) + 1 = k
    BY SMT
  <2>2. result[number + k] =
          FloatBytes(convertToMicroVTemp(sensor_data[(number + k - 1) \div 4]))[((number + k - 1) % 4) + 1]
    BY <2>1 DEF result, FloatSize
  <2>3. result[number + k] = FloatBytes(v)[k]
    BY <2>1, <2>2
  <2> QED
    BY <2>3 DEF FloatBytes, FloatSize
<1>3. \A k \in 1 .. 4 : tail[k] = result[number + k]
  BY <1>1
<1> HIDE DEF tail, v
<1>4. \A ix \in 1 .. 4 : tail[4 - ix + 1] = [of |-> v, byte |-> 4 - ix]
  BY <1>2, <1>3
<1>5. rebmun = [ix \in 1 .. 4 |-> tail[4 - ix + 1]]
  BY DEF rebmun, reverse, FloatSize, tail
<1>6. rebmun = BigEndian(v)
  BY <1>4, <1>5 DEF BigEndian, FloatSize
<1> QED
  BY <1>6 DEF v, Float

\* Its four bytes fit the attribute.
LEMMA RebmunFits == Len(rebmun) = 4
  BY DEF rebmun, reverse, FloatSize

\* Three bytes make a 24-bit number.
LEMMA SampleRange ==
  ASSUME NEW b \in [1 .. 3 -> Byte]
  PROVE  Is24Bit(TwosComplement24(b))
<1>1. \A k \in {1, 2, 3} : b[k] \in Int /\ 0 <= b[k] /\ b[k] < 256
  BY SMT DEF Byte
<1>2. PICK x \in Int, y \in Int, z \in Int :
        /\ b[1] = x /\ b[2] = y /\ b[3] = z
        /\ 0 <= x /\ x < 256 /\ 0 <= y /\ y < 256 /\ 0 <= z /\ z < 256
  BY <1>1
<1> QED
  BY <1>2, SMT DEF TwosComplement24, Is24Bit

\* A byte of a reading is one a place of the buffer can hold.
LEMMA ReadingByte ==
  ASSUME NEW p \in 0 .. 1, NEW s \in Slots, NEW i \in 1 .. 3
  PROVE  Readings[p][s][i] \in BytesAt(i)
  BY DEF BytesAt

\* A sample not yet taken is one too.
LEMMA ZeroFits == Is24Bit(0)
  BY SMT DEF Is24Bit

\* The reset shows nothing.
LEMMA FreshPathShows ==
  /\ FreshPath.sensor_data \in [Slots -> Int] /\ (\A s \in Slots : Is24Bit(FreshPath.sensor_data[s]))
  /\ FreshPath.rx_buffer = <<0, 0, 0>>
  /\ DOMAIN FreshPath.value = Handles /\ DOMAIN FreshPath.seen = Names
  /\ \A q \in 1 .. 4 : FreshPath.value[Target[q]] = Zero /\ FreshPath.seen[NameOf[q]].bytes = Zero
<1>1. Is24Bit(0) /\ \A q \in 1 .. 4 : NameOf[q] \in Names /\ Target[q] \in Handles
  BY Targets, ZeroFits
<1>2. /\ FreshPath.value = [h \in Handles |-> Zero] /\ FreshPath.seen = [name \in Names |-> Nothing]
      /\ FreshPath.sensor_data = [s \in Slots |-> 0] /\ FreshPath.rx_buffer = <<0, 0, 0>>
  BY DEF FreshPath
<1> QED
  BY <1>1, <1>2 DEF Nothing

\* The invariant at first.
LEMMA ClientInit == Init => ClientInv
<1> SUFFICES ASSUME Init PROVE ClientInv
  OBVIOUS
<1>1. /\ pc = "loop" /\ slot = 0 /\ quarter = 1 /\ number = 0 /\ status = "ok" /\ link = FALSE
      /\ enabled = {} /\ fails = 0 /\ torn = {} /\ spoilt = {} /\ misled = {}
  BY DEF Init
<1>2. /\ sensor_data \in [Slots -> Int] /\ (\A s \in Slots : Is24Bit(sensor_data[s]))
      /\ rx_buffer = <<0, 0, 0>>
      /\ DOMAIN value = Handles /\ DOMAIN seen = Names
      /\ \A q \in 1 .. 4 : value[Target[q]] = Zero /\ seen[NameOf[q]].bytes = Zero
  BY FreshPathShows DEF Init
<1>3. SenderTypes
  <2>1. link \in BOOLEAN /\ enabled \subseteq Names /\ (enabled # {} => link)
    BY <1>1, Zenon
  <2>2. fails <= MaxFail /\ torn \subseteq Slots
    BY <1>1, ReadingsAssumption
  <2>3. quarter \in 1 .. 5 /\ number \in {0, 4, 8, 12} /\ status \in {"ok", "fail"}
    BY <1>1
  <2>4. spoilt \subseteq Handles /\ misled \subseteq Names
    BY <1>1
  <2> QED
    BY <1>2, <2>1, <2>2, <2>3, <2>4 DEF SenderTypes
<1>4. SenderPlace /\ SlotValues /\ Sent
  BY <1>1 DEF SenderPlace, SlotValues, Slots, Sent
<1>5. ByteOrigin
  BY <1>2 DEF ByteOrigin, BytesAt
<1>6. Own
  BY <1>2 DEF Own, Shows
<1> QED
  BY <1>3, <1>4, <1>5, <1>6 DEF ClientInv

\* The invariant right after any other reset.
LEMMA ClientReset == ASSUME Reset PROVE ClientInv'
<1>1. /\ pc' = "loop" /\ slot' = 0 /\ quarter' = 1 /\ number' = 0 /\ status' = "ok" /\ link' = FALSE
      /\ enabled' = {} /\ fails' = 0 /\ torn' = {} /\ spoilt' = {} /\ misled' = {}
  BY DEF Reset
<1>2. /\ sensor_data' \in [Slots -> Int] /\ (\A s \in Slots : Is24Bit(sensor_data'[s]))
      /\ rx_buffer' = <<0, 0, 0>>
      /\ DOMAIN value' = Handles /\ DOMAIN seen' = Names
      /\ \A q \in 1 .. 4 : value'[Target[q]] = Zero /\ seen'[NameOf[q]].bytes = Zero
  BY FreshPathShows DEF Reset
<1>3. SenderTypes'
  <2>1. link' \in BOOLEAN /\ enabled' \subseteq Names /\ (enabled' # {} => link')
    BY <1>1, Zenon
  <2>2. fails' <= MaxFail /\ torn' \subseteq Slots
    BY <1>1, ReadingsAssumption
  <2>3. quarter' \in 1 .. 5 /\ number' \in {0, 4, 8, 12} /\ status' \in {"ok", "fail"}
    BY <1>1
  <2>4. spoilt' \subseteq Handles /\ misled' \subseteq Names
    BY <1>1
  <2> QED
    BY <1>2, <2>1, <2>2, <2>3, <2>4 DEF SenderTypes
<1>4. SenderPlace' /\ SlotValues' /\ Sent'
  BY <1>1 DEF SenderPlace, SlotValues, Slots, Sent
<1>5. ByteOrigin'
  BY <1>2 DEF ByteOrigin, BytesAt
<1>6. Own'
  BY <1>2 DEF Own, Shows
<1> QED
  BY <1>3, <1>4, <1>5, <1>6 DEF ClientInv

\* A failure is counted as long as there may be one.
LEMMA Failures ==
  ASSUME fails \in Nat, fails <= MaxFail, NEW sc \in Outcomes, Count(sc)
  PROVE  fails' \in Nat /\ fails' <= MaxFail
  BY ReadingsAssumption DEF Outcomes, Count

\* A transfer puts a byte of this slot's reading in its place, or tears the slot.
LEMMA ClientByte == ASSUME SampleInv, ClientInv, ReceiveByte PROVE ClientInv'
<1> USE DEF ClientInv
<1>1. /\ pc = "read" /\ transfer < 3
      /\ UNCHANGED <<pc, slot, sensor_data, quarter, number, status, client, round, marks, missed>>
  BY DEF ReceiveByte, Transfers
<1>2. PICK sc \in Outcomes :
        /\ Count(sc)
        /\ rx_buffer' = IF sc = "ok" THEN [rx_buffer EXCEPT ![transfer + 1] =
                                             Readings[round][slot][transfer + 1]]
                        ELSE rx_buffer
        /\ torn' = IF sc = "fail" THEN torn \cup {slot} ELSE torn
  BY DEF ReceiveByte
<1>3. slot \in Slots /\ round \in 0 .. 1 /\ transfer + 1 \in 1 .. 3 /\ rx_buffer \in [1 .. 3 -> Byte]
  BY <1>1 DEF SampleInv, SampleTypes, SlotOfStep, Slots
<1>4. SenderTypes'
  <2>1. fails' <= MaxFail
    BY <1>2, Failures DEF SampleInv, SampleTypes, SenderTypes
  <2>2. torn' \subseteq Slots
    BY <1>2, <1>3 DEF SenderTypes
  <2> QED
    BY <1>1, <2>1, <2>2 DEF SenderTypes, client, marks
<1>5. SenderPlace' /\ Sent'
  BY <1>1 DEF SenderPlace, Sent
<1>6. ByteOrigin'
  <2> SUFFICES ASSUME NEW i \in 1 .. 3 PROVE rx_buffer'[i] \in BytesAt(i)
    BY DEF ByteOrigin, BytesAt
  <2>1. rx_buffer'[i] \in {rx_buffer[i], Readings[round][slot][i]}
    BY <1>2, <1>3
  <2> QED
    BY <1>3, <2>1, ReadingByte DEF ByteOrigin
<1>7. SlotValues'
  <2> SUFFICES ASSUME NEW s \in Slots, s < slot
               PROVE  convertToMicroVTemp(sensor_data[s]) \in Values(s, s \in torn')
    BY <1>1 DEF SlotValues
  <2>1. convertToMicroVTemp(sensor_data[s]) \in Values(s, s \in torn)
    BY <1>1 DEF SlotValues
  <2>2. s # slot
    BY <1>3 DEF Slots
  <2>3. s \in torn' <=> s \in torn
    BY <1>2, <2>2
  <2> QED
    BY <2>1, <2>3 DEF Values
<1>8. Own'
  BY <1>1 DEF Own, client, marks
<1> QED
  BY <1>4, <1>5, <1>6, <1>7, <1>8

\* The sample is assembled from bytes that each come from some reading, all of them from its
\* own unless it is torn.
LEMMA ClientSample == ASSUME SampleInv, SampleInv', ClientInv, ReturnSample PROVE ClientInv'
<1> USE DEF ClientInv
<1>1. /\ pc = "read" /\ pc' = "loop" /\ slot' = slot + 1
      /\ sensor_data' = [sensor_data EXCEPT ![slot] = Assemble(rx_buffer)]
      /\ UNCHANGED <<transfer, rx_buffer, quarter, number, status, client,
                     round, fails, torn, marks, missed>>
  BY DEF ReturnSample
<1>2. slot \in Slots /\ slot' \in Nat /\ rx_buffer \in [1 .. 3 -> Byte]
  BY <1>1 DEF SampleInv, SampleTypes, SlotOfStep, Slots
<1>3. sensor_data'[slot] = TwosComplement24(rx_buffer)
  BY <1>1, <1>2, AssembleIsTwosComplement DEF SenderTypes
<1>4. \A s \in Slots : s # slot => sensor_data'[s] = sensor_data[s]
  BY <1>1, <1>2 DEF SenderTypes
<1>5. SenderTypes'
  <2> DEFINE t == TwosComplement24(rx_buffer)
  <2>1. Is24Bit(t) /\ t \in Int
    BY <1>2, SampleRange, SMT DEF Is24Bit
  <2> HIDE DEF t
  <2>2. sensor_data' = [sensor_data EXCEPT ![slot] = t]
    BY <1>1, <1>2, AssembleIsTwosComplement DEF t
  <2>3. sensor_data' \in [Slots -> Int]
    BY <1>2, <2>1, <2>2 DEF SenderTypes
  <2>4. \A s \in Slots : Is24Bit(sensor_data'[s])
    BY <1>2, <2>1, <2>2 DEF SenderTypes
  <2> QED
    BY <1>1, <2>3, <2>4 DEF SenderTypes, client, marks
<1>6. SenderPlace' /\ Sent' /\ ByteOrigin'
  BY <1>1 DEF SenderPlace, Sent, ByteOrigin
<1>7. SlotValues'
  <2> SUFFICES ASSUME NEW s \in Slots, s < slot + 1
               PROVE  convertToMicroVTemp(sensor_data'[s]) \in Values(s, s \in torn)
    BY <1>1 DEF SlotValues
  <2>1. CASE s # slot
    <3>1. s < slot
      BY <1>2, <2>1 DEF Slots
    <3> QED
      BY <1>1, <1>4, <2>1, <3>1 DEF SlotValues
  <2>2. CASE s = slot /\ s \in torn
    <3>1. /\ rx_buffer[1] \in BytesAt(1) /\ rx_buffer[2] \in BytesAt(2) /\ rx_buffer[3] \in BytesAt(3)
      BY DEF ByteOrigin
    <3>2. TwosComplement24(rx_buffer) = TwosComplement24(<<rx_buffer[1], rx_buffer[2], rx_buffer[3]>>)
      BY DEF TwosComplement24
    <3>3. convertToMicroVTemp(TwosComplement24(rx_buffer)) \in TornValues
      BY <3>1, <3>2 DEF TornValues
    <3> QED
      BY <1>3, <2>2, <3>3 DEF Values
  <2>3. CASE s = slot /\ s \notin torn
    <3>1. sensor_data'[s] = TwosComplement24(Readings[round][s])
      BY <1>1, <1>2, <2>3 DEF SampleInv, SampleWhole
    <3>2. round \in 0 .. 1
      BY DEF SampleInv, SampleTypes
    <3>3. convertToMicroVTemp(sensor_data'[s]) \in WholeValues[s]
      BY <3>1, <3>2 DEF WholeValues
    <3> QED
      BY <2>3, <3>3 DEF Values
  <2> QED
    BY <2>1, <2>2, <2>3
<1>8. Own'
  BY <1>1 DEF Own, client, marks
<1> QED
  BY <1>5, <1>6, <1>7, <1>8

\* The sender starts with four samples of this round.
LEMMA ClientBegin == ASSUME SampleInv, ClientInv, BeginSend PROVE ClientInv'
<1> USE DEF ClientInv
<1>1. /\ pc = "loop" /\ slot = 4 /\ pc' = "write" /\ slot' = 0 /\ quarter' = 1 /\ number' = 0
      /\ UNCHANGED <<transfer, rx_buffer, sensor_data, status, client, round, fails, torn, marks>>
  BY DEF BeginSend
<1>2. SenderTypes' /\ SenderPlace' /\ ByteOrigin' /\ Own'
  BY <1>1 DEF SenderTypes, SenderPlace, ByteOrigin, Own, client, marks
<1>3. Sent'
  BY <1>1 DEF Sent
<1>4. SlotValues'
  <2>1. \A s \in Slots : s < slot
    BY <1>1 DEF Slots
  <2> QED
    BY <1>1, <2>1 DEF SlotValues
<1> QED
  BY <1>2, <1>3, <1>4

\* Where the sender is, its bytes are the float of its quarter, which the slot may show.
LEMMA QuarterBytes ==
  ASSUME ClientInv, pc \in {"write", "notify"}
  PROVE  /\ quarter \in 1 .. 4 /\ rebmun = Float(sensor_data[quarter - 1])
         /\ Shows(rebmun, quarter - 1, quarter - 1 \in torn)
<1> USE DEF ClientInv
<1>1. quarter \in 1 .. 4 /\ number = 4 * (quarter - 1) /\ quarter - 1 \in Slots
  BY DEF SenderTypes, SenderPlace, Slots
<1>2. rebmun = Float(sensor_data[quarter - 1])
  BY <1>1, RebmunIsFloat DEF SenderTypes
<1>3. convertToMicroVTemp(sensor_data[quarter - 1]) \in Values(quarter - 1, quarter - 1 \in torn)
  BY <1>1 DEF SlotValues
<1> QED
  BY <1>1, <1>2, <1>3 DEF Shows, Float

\* A write puts the quarter's float into its own attribute, or it is missed.
LEMMA ClientWrite == ASSUME SampleInv, ClientInv, WriteAttribute PROVE ClientInv'
<1> USE DEF ClientInv
<1>1. /\ pc = "write" /\ pc' = "notify"
      /\ UNCHANGED <<slot, transfer, rx_buffer, sensor_data, quarter, number, status, link, enabled,
                     seen, round, torn, misled>>
  BY DEF WriteAttribute
<1>2. PICK sc \in Outcomes :
        /\ Count(sc)
        /\ missed' = IF sc = "fail" THEN missed \cup {<<"write", quarter>>} ELSE missed
        /\ LET stored == {h \in Handles : sc = "ok" /\ h = Target[quarter] /\ Len(rebmun) <= attribute(h).len}
           IN  /\ value' = [h \in Handles |-> IF h \in stored THEN rebmun ELSE value[h]]
               /\ spoilt' = Marked(spoilt, stored)
  BY DEF WriteAttribute
<1>3. /\ quarter \in 1 .. 4 /\ rebmun = Float(sensor_data[quarter - 1])
      /\ Shows(rebmun, quarter - 1, quarter - 1 \in torn)
  BY <1>1, QuarterBytes
<1>4. Target[quarter] \in Handles /\ Len(rebmun) <= attribute(Target[quarter]).len
  BY <1>3, Targets, RebmunFits
<1> DEFINE stored == IF sc = "ok" THEN {Target[quarter]} ELSE {}
<1>5. /\ value' = [h \in Handles |-> IF h \in stored THEN rebmun ELSE value[h]]
      /\ spoilt' = Marked(spoilt, stored)
  <2>1. {h \in Handles : sc = "ok" /\ h = Target[quarter] /\ Len(rebmun) <= attribute(h).len} = stored
    BY <1>4
  <2> QED
    BY <1>2, <2>1
<1>6. /\ DOMAIN value' = Handles
      /\ sc = "ok" => value'[Target[quarter]] = rebmun
      /\ \A q \in 1 .. 4 : q # quarter => value'[Target[q]] = value[Target[q]]
      /\ sc # "ok" => value'[Target[quarter]] = value[Target[quarter]]
      /\ \A q \in 1 .. 4 : q # quarter => (Target[q] \in spoilt' <=> Target[q] \in spoilt)
      /\ sc # "ok" => spoilt' = spoilt
      /\ sc = "ok" => (Target[quarter] \in spoilt' <=> quarter - 1 \in torn)
      /\ spoilt' \subseteq Handles
  <2>1. \A q \in 1 .. 4 : q # quarter => Target[q] # Target[quarter]
    BY <1>3, OneTargetEach
  <2>2. \A q \in 1 .. 4 : Target[q] \in Handles
    BY Targets
  <2>3. /\ DOMAIN value' = Handles
        /\ \A h \in Handles : value'[h] = IF h \in stored THEN rebmun ELSE value[h]
    BY <1>5
  <2>4. /\ sc # "ok" => spoilt' = spoilt
        /\ sc = "ok" => (Target[quarter] \in spoilt' <=> quarter - 1 \in torn)
        /\ \A h : h # Target[quarter] => (h \in spoilt' <=> h \in spoilt)
        /\ spoilt' \subseteq Handles
    BY <1>4, <1>5 DEF Marked, SenderTypes
  <2>5. \A q \in 1 .. 4 : q # quarter => value'[Target[q]] = value[Target[q]]
    BY <2>1, <2>2, <2>3
  <2>6. /\ sc = "ok" => value'[Target[quarter]] = rebmun
        /\ sc # "ok" => value'[Target[quarter]] = value[Target[quarter]]
    BY <1>4, <2>3
  <2> HIDE DEF stored
  <2> QED
    BY <2>1, <2>3, <2>4, <2>5, <2>6
<1>7. SenderTypes'
  <2>1. fails' <= MaxFail
    BY <1>2, Failures DEF SampleInv, SampleTypes, SenderTypes
  <2> QED
    BY <1>1, <1>6, <2>1 DEF SenderTypes
<1>8. SenderPlace' /\ ByteOrigin' /\ SlotValues'
  BY <1>1 DEF SenderPlace, ByteOrigin, SlotValues
<1>9. Own'
  <2> SUFFICES ASSUME NEW q \in 1 .. 4
               PROVE  Shows(value'[Target[q]], q - 1, Target[q] \in spoilt')
    BY <1>1 DEF Own
  <2>1. Shows(value[Target[q]], q - 1, Target[q] \in spoilt)
    BY DEF Own
  <2>2. CASE q # quarter \/ sc # "ok"
    <3>1. value'[Target[q]] = value[Target[q]] /\ (Target[q] \in spoilt' <=> Target[q] \in spoilt)
      BY <1>6, <2>2
    <3> QED
      BY <2>1, <3>1 DEF Shows, Values
  <2>3. CASE q = quarter /\ sc = "ok"
    <3>1. value'[Target[q]] = rebmun /\ (Target[q] \in spoilt' <=> q - 1 \in torn)
      BY <1>6, <2>3
    <3> QED
      BY <1>3, <2>3, <3>1 DEF Shows, Values
  <2> QED
    BY <2>2, <2>3
<1>10. Sent'
  <2>1. missed \subseteq missed' /\ (sc = "fail" => <<"write", quarter>> \in missed')
    BY <1>2
  <2>2. Written(quarter)'
    <3>1. sc \in {"ok", "fail"}
      BY DEF Outcomes
    <3> QED
      BY <1>1, <1>3, <1>6, <2>1, <3>1 DEF Written
  <2>3. ASSUME NEW q \in 1 .. 4, q < quarter PROVE Written(q)' /\ Told(q)'
    <3>1. Written(q) /\ Told(q) /\ q # quarter
      BY <1>1, <1>3, <2>3 DEF Sent
    <3>2. Written(q)'
      BY <1>1, <1>6, <2>1, <3>1 DEF Written
    <3>3. Told(q)'
      BY <1>1, <2>1, <3>1 DEF Told
    <3> QED
      BY <3>2, <3>3
  <2>4. ASSUME NEW q \in 1 .. 4, q < quarter' PROVE Written(q)' /\ Told(q)'
    BY <1>1, <2>3, <2>4
  <2> QED
    BY <2>2, <2>4, Zenon DEF Sent
<1> QED
  BY <1>7, <1>8, <1>9, <1>10

\* A notification tells the client that asked for it the quarter's float, or it is missed.
LEMMA ClientNotify == ASSUME SampleInv, ClientInv, NotifyAll PROVE ClientInv'
<1> USE DEF ClientInv
<1>1. /\ pc = "notify" /\ NextQuarter
      /\ UNCHANGED <<slot, transfer, rx_buffer, sensor_data, value, link, enabled, round, torn, spoilt>>
  BY DEF NotifyAll
<1>2. PICK sc \in Outcomes :
        /\ missed' = IF sc = "fail" THEN missed \cup {<<"notify", quarter>>} ELSE missed
        /\ LET told == {name \in Names : sc = "ok" /\ Notified(name)}
           IN  /\ seen' = [name \in Names |-> IF name \in told THEN [bytes |-> rebmun, round |-> round]
                                              ELSE seen[name]]
               /\ misled' = Marked(misled, told)
        /\ Count(sc) /\ status' = sc
  BY DEF NotifyAll
<1>3. /\ quarter \in 1 .. 4 /\ rebmun = Float(sensor_data[quarter - 1])
      /\ Shows(rebmun, quarter - 1, quarter - 1 \in torn)
  BY <1>1, QuarterBytes
<1>4. sc \in {"ok", "fail"}
  BY DEF Outcomes
<1>5. /\ quarter' = quarter + 1 /\ pc' = (IF quarter < 4 THEN "write" ELSE "return")
      /\ number' = IF quarter < 4 THEN number + 4 ELSE number
  BY <1>1 DEF NextQuarter, FloatSize
<1>6. ASSUME NEW q \in 1 .. 4
      PROVE  Notified(NameOf[q]) <=> q = quarter /\ NameOf[q] \in enabled
  <2>1. ValueHandle[NameOf[q]] = Target[q] /\ CanNotify[NameOf[q]]
    BY Targets
  <2>2. q # quarter => Target[q] # Target[quarter]
    BY <1>3, OneTargetEach
  <2> QED
    BY <2>1, <2>2 DEF Notified
<1>7. ASSUME NEW q \in 1 .. 4
      PROVE  /\ seen'[NameOf[q]] = IF sc = "ok" /\ q = quarter /\ NameOf[q] \in enabled
                                   THEN [bytes |-> rebmun, round |-> round] ELSE seen[NameOf[q]]
             /\ NameOf[q] \in misled' <=> IF sc = "ok" /\ q = quarter /\ NameOf[q] \in enabled
                                          THEN quarter - 1 \in torn ELSE NameOf[q] \in misled
  <2>1. NameOf[q] \in Names
    BY Targets
  <2>2. NameOf[q] \in {name \in Names : sc = "ok" /\ Notified(name)}
          <=> sc = "ok" /\ q = quarter /\ NameOf[q] \in enabled
    BY <1>6, <2>1
  <2> QED
    BY <1>2, <2>1, <2>2 DEF Marked
<1>8. SenderTypes'
  <2>1. fails' <= MaxFail
    BY <1>2, Failures DEF SampleInv, SampleTypes, SenderTypes
  <2>2. quarter' \in 1 .. 5 /\ number' \in {0, 4, 8, 12}
    BY <1>1, <1>3, <1>5 DEF SenderTypes, SenderPlace
  <2>3. DOMAIN seen' = Names /\ status' \in {"ok", "fail"}
    BY <1>2, <1>4
  <2>4. misled' \subseteq Names
    BY <1>2 DEF Marked, SenderTypes
  <2> QED
    BY <1>1, <2>1, <2>2, <2>3, <2>4 DEF SenderTypes
<1>9. SenderPlace' /\ ByteOrigin' /\ SlotValues'
  <2>1. SenderPlace'
    BY <1>1, <1>3, <1>5 DEF SenderPlace
  <2> QED
    BY <1>1, <1>5, <2>1 DEF ByteOrigin, SlotValues
<1>10. Own'
  <2> SUFFICES ASSUME NEW q \in 1 .. 4
               PROVE  Shows(seen'[NameOf[q]].bytes, q - 1, NameOf[q] \in misled')
    BY <1>1 DEF Own
  <2>1. CASE sc = "ok" /\ q = quarter /\ NameOf[q] \in enabled
    <3>1. seen'[NameOf[q]].bytes = rebmun /\ (NameOf[q] \in misled' <=> q - 1 \in torn)
      BY <1>7, <2>1
    <3> QED
      BY <1>3, <2>1, <3>1 DEF Shows, Values
  <2>2. CASE ~(sc = "ok" /\ q = quarter /\ NameOf[q] \in enabled)
    <3>1. seen'[NameOf[q]] = seen[NameOf[q]] /\ (NameOf[q] \in misled' <=> NameOf[q] \in misled)
      BY <1>7, <2>2
    <3>2. Shows(seen[NameOf[q]].bytes, q - 1, NameOf[q] \in misled)
      BY DEF Own
    <3> QED
      BY <3>1, <3>2 DEF Shows, Values
  <2> QED
    BY <2>1, <2>2
<1>11. Sent'
  <2>1. missed \subseteq missed' /\ (sc = "fail" => <<"notify", quarter>> \in missed')
    BY <1>2
  <2>2. ASSUME NEW q \in 1 .. 4, q < quarter PROVE Written(q)' /\ Told(q)'
    <3>1. Written(q) /\ Told(q) /\ q # quarter
      BY <1>1, <1>3, <2>2 DEF Sent
    <3>2. Written(q)'
      BY <1>1, <2>1, <3>1 DEF Written
    <3>3. seen'[NameOf[q]] = seen[NameOf[q]]
      BY <1>7, <3>1
    <3>4. Told(q)'
      BY <1>1, <2>1, <3>1, <3>3 DEF Told
    <3> QED
      BY <3>2, <3>4
  <2>3. Written(quarter) /\ (Written(quarter) => \A q \in 1 .. 4 : q = quarter => Written(q)')
    BY <1>1, <2>1 DEF Sent, Written
  <2>4. ASSUME NEW q \in 1 .. 4, q = quarter PROVE Told(q)'
    <3> SUFFICES ASSUME NameOf[q] \in enabled, <<"notify", q>> \notin missed'
                 PROVE  seen'[NameOf[q]] = [bytes |-> Float(sensor_data[q - 1]), round |-> round]
      BY <1>1 DEF Told
    <3>1. sc = "ok"
      BY <1>4, <2>1, <2>4
    <3> QED
      BY <1>3, <1>7, <2>4, <3>1
  <2>5. ASSUME NEW q \in 1 .. 4, q < quarter' PROVE Written(q)' /\ Told(q)'
    <3>1. q < quarter \/ q = quarter
      BY <1>3, <1>5, <2>5
    <3> QED
      BY <2>2, <2>3, <2>4, <3>1
  <2> QED
    BY <1>5, <2>5, Zenon DEF Sent
<1> QED
  BY <1>8, <1>9, <1>10, <1>11

\* Whatever else happens, happens between two sends.
LEMMA ClientOther ==
  ASSUME SampleInv, ClientInv,
         \/ RetrieveData \/ SendReturned \/ Connect \/ Disconnect \/ Subscribe \/ UNCHANGED vars
  PROVE  ClientInv'
<1> USE DEF ClientInv
<1>1. CASE RetrieveData
  <2>1. /\ pc = "loop" /\ pc' = "read" /\ torn' = torn \ {slot}
        /\ UNCHANGED <<slot, rx_buffer, sensor_data, quarter, number, status, client,
                       round, fails, marks, missed>>
    BY <1>1 DEF RetrieveData
  <2>2. SenderTypes' /\ SenderPlace' /\ ByteOrigin' /\ Own' /\ Sent'
    BY <2>1 DEF SenderTypes, SenderPlace, ByteOrigin, Own, Sent, client, marks
  <2>3. SlotValues'
    <3> SUFFICES ASSUME NEW s \in Slots, s < slot
                 PROVE  convertToMicroVTemp(sensor_data[s]) \in Values(s, s \in torn')
      BY <2>1 DEF SlotValues
    <3>1. convertToMicroVTemp(sensor_data[s]) \in Values(s, s \in torn)
      BY <2>1 DEF SlotValues
    <3>2. s # slot
      BY DEF SampleInv, SampleTypes, Slots
    <3>3. s \in torn' <=> s \in torn
      BY <2>1, <3>2
    <3> QED
      BY <3>1, <3>3 DEF Values
  <2> QED
    BY <2>2, <2>3
<1>2. CASE SendReturned
  <2>1. /\ pc = "return" /\ pc' \in {"loop", "stuck"}
        /\ UNCHANGED <<slot, transfer, rx_buffer, sensor_data, quarter, number, status, client,
                       fails, torn, marks, missed>>
    BY <1>2 DEF SendReturned
  <2>2. SenderTypes' /\ SenderPlace' /\ ByteOrigin' /\ Own' /\ Sent'
    BY <2>1 DEF SenderTypes, SenderPlace, ByteOrigin, Own, Sent, client, marks
  <2>3. SlotValues'
    BY <2>1 DEF SlotValues
  <2> QED
    BY <2>2, <2>3
<1> DEFINE Kept == UNCHANGED <<pc, slot, rx_buffer, sensor_data, quarter, number, status, value,
                               fails, torn, spoilt>>
<1>3. ASSUME pc \in {"loop", "stuck"}, Kept, DOMAIN seen' = Names,
             misled' \subseteq Names,
             \A q \in 1 .. 4 :
               \/ seen'[NameOf[q]].bytes = Zero
               \/ seen'[NameOf[q]].bytes = seen[NameOf[q]].bytes /\ misled' = misled,
             link' \in BOOLEAN, enabled' \subseteq Names, enabled' # {} => link'
      PROVE  ClientInv'
  <2>1. SenderTypes'
    BY <1>3 DEF SenderTypes
  <2>2. SenderPlace' /\ ByteOrigin' /\ SlotValues' /\ Sent'
    BY <1>3 DEF SenderPlace, ByteOrigin, SlotValues, Sent
  <2>3. Own'
    BY <1>3 DEF Own, Shows
  <2> QED
    BY <2>1, <2>2, <2>3
<1>4. CASE Connect
  <2>1. /\ pc \in {"loop", "stuck"} /\ Kept /\ link' = TRUE
        /\ enabled' = enabled /\ seen' = seen /\ misled' = misled
    BY <1>4 DEF Connect, StackTurn, path, marks
  <2>2. DOMAIN seen' = Names /\ enabled' \subseteq Names /\ misled' \subseteq Names
    BY <2>1 DEF SenderTypes
  <2> QED
    BY <1>3, <2>1, <2>2
<1>5. CASE Disconnect
  <2>1. /\ pc \in {"loop", "stuck"} /\ Kept /\ link' = FALSE
        /\ enabled' = {} /\ seen' = FreshPath.seen /\ misled' = {}
    BY <1>5 DEF Disconnect, StackTurn, path
  <2> QED
    BY <1>3, <2>1, FreshPathShows
<1>6. CASE Subscribe
  <2>1. /\ pc \in {"loop", "stuck"} /\ Kept /\ link' = link /\ link
        /\ seen' = seen /\ enabled' \subseteq Names /\ misled' = misled
    BY <1>6 DEF Subscribe, StackTurn, path, SenderTypes, marks
  <2>2. DOMAIN seen' = Names /\ link' \in BOOLEAN /\ link' /\ misled' \subseteq Names
    BY <2>1 DEF SenderTypes
  <2> QED
    BY <1>3, <2>1, <2>2
<1>7. CASE UNCHANGED vars
  BY <1>7 DEF SenderTypes, SenderPlace, ByteOrigin, SlotValues, Own, Sent, Written, Told, vars, path, client, marks
<1> QED
  BY <1>1, <1>2, <1>4, <1>5, <1>6, <1>7

\* Both invariants, step by step.
LEMMA ReportInv == Spec => [](SampleInv /\ ClientInv)
<1>1. Init => SampleInv /\ ClientInv
  BY SamplesInit, ClientInit
<1>2. SampleInv /\ ClientInv /\ [Next]_vars => (SampleInv /\ ClientInv)'
  <2> SUFFICES ASSUME SampleInv, ClientInv, [Next]_vars PROVE SampleInv' /\ ClientInv'
    OBVIOUS
  <2>1. SampleInv'
    BY ByteStep, SampleStep, OtherStep DEF Next
  <2>2. ClientInv'
    BY <2>1, ClientByte, ClientSample, ClientBegin, ClientWrite, ClientNotify, ClientOther, ClientReset
       DEF Next
  <2> QED
    BY <2>1, <2>2
<1> QED
  BY <1>1, <1>2, PTL DEF Spec

\* Every variable keeps its type, for any readings and any bound on the failures.
THEOREM ReportTypeCorrect == Spec => []TypeOK
<1>1. SampleInv /\ ClientInv => TypeOK
  <2> SUFFICES ASSUME SampleInv, ClientInv PROVE TypeOK
    OBVIOUS
  <2>1. sensor_data \in [Slots -> -2^23 .. 2^23 - 1]
    <3>1. \A d : Is24Bit(d) => d \in -2^23 .. 2^23 - 1
      BY SMT DEF Is24Bit
    <3> QED
      BY <3>1 DEF ClientInv, SenderTypes
  <2>2. fails \in 0 .. MaxFail
    BY ReadingsAssumption DEF SampleInv, SampleTypes, ClientInv, SenderTypes
  <2> QED
    BY <2>1, <2>2 DEF SampleInv, SampleTypes, ClientInv, SenderTypes, TypeOK
<1> QED
  BY <1>1, ReportInv, PTL

\* Whatever transfers and calls fail, and for any readings, what a client finds under a sensor's
\* name is a reading of that sensor's own slot, whole and most significant byte first, unless
\* the very sample it comes from had a failed transfer; then it is at least one value.
THEOREM ShowsOwnValue == Spec => []OwnValue
<1>1. ClientInv => OwnValue
  BY ClientSees DEF ClientInv
<1> QED
  BY <1>1, ReportInv, PTL

\* What is stale after a send, is stale because a call for it failed.
THEOREM OnlyFailuresLeaveStale == Spec => []StaleOnlyByFailure
<1>1. ClientInv => StaleOnlyByFailure
  BY ClientSees DEF ClientInv
<1> QED
  BY <1>1, ReportInv, PTL
=============================================================================
