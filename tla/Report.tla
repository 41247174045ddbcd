------------------------------- MODULE Report -------------------------------
(***************************************************************************)
(* The way of the data: read_data_samples fetches three bytes per slot,    *)
(* each with a transfer of its own, into a static buffer;                  *)
(* power_down_interface_send_data converts the four samples; the sender    *)
(* writes and notifies four characteristics with eight stack calls.  Every *)
(* transfer and every call may fail, and only the last status is returned. *)
(* The stack serves its client from sl_bt_step, so only between two turns  *)
(* of the application; StrainFsm models the waiting between the samples.   *)
(***************************************************************************)
EXTENDS Samples, GattDb

CONSTANTS
  Readings,   \* Readings[p][slot]: the bytes the converter answers in a round of parity p
  MaxFail     \* bound: transfers and calls that fail between two resets

ASSUME ReadingsAssumption ==
  /\ Readings \in [0 .. 1 -> [0 .. 3 -> [1 .. 3 -> Byte]]]
  /\ MaxFail \in Nat

VARIABLES
  pc,           \* "loop", "read", "write", "notify", "return", "stuck" (in SENDING_DATA for good)
  slot,         \* num_data_retrieved
  transfer,     \* transfers of this sample done
  rx_buffer,    \* the static buffer of read_data_samples
  sensor_data,  \* app_fsm_t.sensor_data
  quarter,      \* which of the sender's four pairs of calls is next
  number,       \* the sender's pointer, as an offset into result[]
  status,       \* sc, the status of the sender's last call
  value,        \* the stack's copy of each sensor attribute
  link,         \* a client is connected
  enabled,      \* characteristics whose notifications it has switched on
  seen,         \* what the last notification of each told it
  (* history *)
  round,        \* parity of the measuring round
  fails,        \* failures since the reset
  torn,         \* slots whose sample was read with a failed transfer
  spoilt,       \* attributes that hold the float of such a sample
  misled,       \* characteristics whose last notification told one
  missed        \* calls of this round that failed

path == <<pc, slot, transfer, rx_buffer, sensor_data, quarter, number, status>>
client == <<value, link, enabled, seen>>
marks == <<spoilt, misled>>
vars == <<path, client, round, fails, torn, marks, missed>>

Slots == 0 .. 3

\* The characteristic of each quarter, as the program names it.
Target == << gattdb_strain_1_characteristic, gattdb_strain_2_characteristic,
             gattdb_strain_3_characteristic, gattdb_temp_1_characteristic >>

Handles == {ValueHandle[name] : name \in Names}
Zero == [k \in 1 .. FloatSize |-> [of |-> 0, byte |-> 0]]
Nothing == [bytes |-> Zero, round |-> 2]

FreshPath ==
  [slot |-> 0, rx_buffer |-> <<0, 0, 0>>, sensor_data |-> [s \in Slots |-> 0],
   value |-> [h \in Handles |-> Zero], seen |-> [name \in Names |-> Nothing]]

Init ==
  /\ pc = "loop" /\ slot = 0 /\ transfer = 0 /\ quarter = 1 /\ number = 0 /\ status = "ok"
  /\ rx_buffer = FreshPath.rx_buffer /\ sensor_data = FreshPath.sensor_data
  /\ value = FreshPath.value /\ link = FALSE /\ enabled = {} /\ seen = FreshPath.seen
  /\ round = 0 /\ fails = 0 /\ torn = {} /\ missed = {} /\ spoilt = {} /\ misled = {}

\* Outcomes of a transfer or a call, and the count of failures.
Outcomes == IF fails < MaxFail THEN {"ok", "fail"} ELSE {"ok"}
Count(sc) == fails' = IF sc = "fail" THEN fails + 1 ELSE fails

-----------------------------------------------------------------------------
(***************************************************************************)
(* The sample.                                                             *)
(***************************************************************************)
\* retrieve_data, once the conversion has ended: a new sample of the slot, not torn yet.
RetrieveData ==
  /\ pc = "loop" /\ slot < 4
  /\ pc' = "read" /\ transfer' = 0 /\ torn' = torn \ {slot}
  /\ UNCHANGED <<slot, rx_buffer, sensor_data, quarter, number, status, client,
                 round, fails, marks, missed>>

\* SPIDRV_MReceiveB of one byte; a failed one leaves the buffer as it was.
\* Mutant: the loop ends one byte early.
MutTwoTransfers == 2
Transfers == 3
ReceiveByte ==
  /\ pc = "read" /\ transfer < Transfers
  /\ \E sc \in Outcomes :
       /\ Count(sc)
       /\ rx_buffer' = IF sc = "ok" THEN [rx_buffer EXCEPT ![transfer + 1] =
                                            Readings[round][slot][transfer + 1]]
                       ELSE rx_buffer
       /\ torn' = IF sc = "fail" THEN torn \cup {slot} ELSE torn
  /\ transfer' = transfer + 1
  /\ UNCHANGED <<pc, slot, sensor_data, quarter, number, status, client, round, marks, missed>>

\* The bytes become the slot's sample; check_data_retrieved advances the slot.
ReturnSample ==
  /\ pc = "read" /\ transfer = Transfers
  /\ sensor_data' = [sensor_data EXCEPT ![slot] = Assemble(rx_buffer)]
  /\ pc' = "loop" /\ slot' = slot + 1
  /\ UNCHANGED <<transfer, rx_buffer, quarter, number, status, client,
                 round, fails, torn, marks, missed>>

-----------------------------------------------------------------------------
(***************************************************************************)
(* The sender.                                                             *)
(***************************************************************************)
\* power_down_interface_send_data calls sl_bt_torque_send_data.
BeginSend ==
  /\ pc = "loop" /\ slot = 4
  /\ pc' = "write" /\ slot' = 0 /\ quarter' = 1 /\ number' = 0 /\ missed' = {}
  /\ UNCHANGED <<transfer, rx_buffer, sensor_data, status, client, round, fails, torn, marks>>

\* result[4], byte by byte, and the quarter the pointer is at, reversed.
result == [k \in 1 .. 4 * FloatSize |->
  FloatBytes(convertToMicroVTemp(sensor_data[(k - 1) \div FloatSize]))[((k - 1) % FloatSize) + 1]]
rebmun == reverse(SubSeq(result, number + 1, Len(result)), FloatSize)

\* The quarter's float is now at these places: they are marked if its sample is torn.
Marked(places, these) == IF quarter - 1 \in torn THEN places \cup these ELSE places \ these

\* sl_bt_gatt_server_write_attribute_value: the stack wants room for the bytes.
WriteAttribute ==
  /\ pc = "write" /\ pc' = "notify"
  /\ \E sc \in Outcomes :
       /\ Count(sc)
       /\ missed' = IF sc = "fail" THEN missed \cup {<<"write", quarter>>} ELSE missed
       /\ LET stored == {h \in Handles : sc = "ok" /\ h = Target[quarter] /\ Len(rebmun) <= attribute(h).len}
          IN  /\ value' = [h \in Handles |-> IF h \in stored THEN rebmun ELSE value[h]]
              /\ spoilt' = Marked(spoilt, stored)
  /\ UNCHANGED <<slot, transfer, rx_buffer, sensor_data, quarter, number, status, link, enabled, seen,
                 round, torn, misled>>

\* sl_bt_gatt_server_notify_all reaches a client that switched the notifications on.
\* Mutant: in the second block the call names the first characteristic, as copied.
MutNotifiedCopied(name) ==
  /\ name \in enabled /\ CanNotify[name]
  /\ ValueHandle[name] = IF quarter = 2 THEN Target[1] ELSE Target[quarter]
Notified(name) ==
  /\ name \in enabled /\ CanNotify[name] /\ ValueHandle[name] = Target[quarter]

\* number += size/4 before the next pair of calls.
NextQuarter ==
  /\ quarter' = quarter + 1 /\ pc' = IF quarter < 4 THEN "write" ELSE "return"
  /\ number' = IF quarter < 4 THEN number + FloatSize ELSE number

NotifyAll ==
  /\ pc = "notify"
  /\ \E sc \in Outcomes :
       /\ missed' = IF sc = "fail" THEN missed \cup {<<"notify", quarter>>} ELSE missed
       /\ LET told == {name \in Names : sc = "ok" /\ Notified(name)}
          IN  /\ seen' = [name \in Names |-> IF name \in told THEN [bytes |-> rebmun, round |-> round]
                                             ELSE seen[name]]
              /\ misled' = Marked(misled, told)
       /\ Count(sc) /\ status' = sc
  /\ NextQuarter
  /\ UNCHANGED <<slot, transfer, rx_buffer, sensor_data, value, link, enabled, round, torn, spoilt>>

\* Back in power_down_interface_send_data: the last status alone decides whether
\* data_sent_flag rises and the FSM leaves SENDING_DATA.
SendReturned ==
  /\ pc = "return"
  /\ IF status = "ok" THEN pc' = "loop" /\ round' = 1 - round
     ELSE pc' = "stuck" /\ UNCHANGED round
  /\ UNCHANGED <<slot, transfer, rx_buffer, sensor_data, quarter, number, status, client,
                 fails, torn, marks, missed>>

-----------------------------------------------------------------------------
(***************************************************************************)
(* The client, in sl_bt_step, and resets.                                  *)
(***************************************************************************)
StackTurn == pc \in {"loop", "stuck"}

Connect ==
  /\ StackTurn /\ ~link /\ link' = TRUE
  /\ UNCHANGED <<path, value, enabled, seen, round, fails, torn, marks, missed>>

\* Switches are per connection: the database keeps none for a client it has no bond with.
Disconnect ==
  /\ StackTurn /\ link /\ link' = FALSE /\ enabled' = {} /\ seen' = FreshPath.seen /\ misled' = {}
  /\ UNCHANGED <<path, value, round, fails, torn, spoilt, missed>>

Subscribe ==
  /\ StackTurn /\ link
  /\ \E name \in Names \ enabled : CanNotify[name] /\ enabled' = enabled \cup {name}
  /\ UNCHANGED <<path, value, link, seen, round, fails, torn, marks, missed>>

Reset ==
  /\ pc' = "loop" /\ slot' = 0 /\ transfer' = 0 /\ quarter' = 1 /\ number' = 0 /\ status' = "ok"
  /\ rx_buffer' = FreshPath.rx_buffer /\ sensor_data' = FreshPath.sensor_data
  /\ value' = FreshPath.value /\ link' = FALSE /\ enabled' = {} /\ seen' = FreshPath.seen
  /\ fails' = 0 /\ torn' = {} /\ missed' = {} /\ spoilt' = {} /\ misled' = {} /\ UNCHANGED round

Next ==
  \/ RetrieveData \/ ReceiveByte \/ ReturnSample
  \/ BeginSend \/ WriteAttribute \/ NotifyAll \/ SendReturned
  \/ Connect \/ Disconnect \/ Subscribe \/ Reset

Spec == Init /\ [][Next]_vars

-----------------------------------------------------------------------------
\* The values a float of slot s can have: the slot's own readings.  One of a torn sample has
\* bytes of readings, or of the fresh buffer, each at its place of the conversion word.
WholeValues == [s \in Slots |-> {convertToMicroVTemp(TwosComplement24(Readings[p][s])) : p \in 0 .. 1}]
BytesAt(i) == {0} \cup {Readings[p][s][i] : p \in 0 .. 1, s \in Slots}
TornValues == {convertToMicroVTemp(TwosComplement24(<<x, y, z>>)) :
                 x \in BytesAt(1), y \in BytesAt(2), z \in BytesAt(3)}
Values(s, ofTorn) == IF ofTorn THEN TornValues ELSE WholeValues[s]
Shows(bytes, s, ofTorn) == bytes = Zero \/ \E v \in Values(s, ofTorn) : bytes = BigEndian(v)

\* Every variable has its type.
TypeOK ==
  /\ pc \in {"loop", "read", "write", "notify", "return", "stuck"}
  /\ slot \in 0 .. 4 /\ transfer \in 0 .. 3 /\ rx_buffer \in [1 .. 3 -> Byte]
  /\ sensor_data \in [Slots -> -2^23 .. 2^23 - 1]
  /\ quarter \in 1 .. 5 /\ number \in {0, 4, 8, 12} /\ status \in {"ok", "fail"}
  /\ link \in BOOLEAN /\ enabled \subseteq Names /\ (enabled # {} => link)
  /\ round \in 0 .. 1 /\ fails \in 0 .. MaxFail /\ torn \subseteq Slots
  /\ spoilt \subseteq Handles /\ misled \subseteq Names

\* read_data_samples: a failed transfer spoils its own sample and no later one, though what it
\* left stays in the static buffer: a sample read without one is the signed 24-bit number the
\* converter sent.
SampleWhole ==
  \A s \in Slots : s < slot /\ s \notin torn => sensor_data[s] = TwosComplement24(Readings[round][s])

\* The attribute and the notifications a client finds under a sensor's name show its own slot's
\* readings, most significant byte first, whatever call failed and whatever was torn before;
\* not so where the float comes from a sample with a failed transfer, as read_data_samples
\* then goes on with bytes of another slot (NoForeignBytes).  Even such a float is one value,
\* never bytes of two, and the next one written or notified without a failure replaces it.
OwnValue ==
  \A s \in Slots :
    LET name == NameOf[s + 1]
        h == ValueHandle[name]
    IN  Shows(value[h], s, h \in spoilt) /\ Shows(seen[name].bytes, s, name \in misled)

\* readme.md: there is one characteristic "per source of data", so no attribute shows bytes of
\* another sensor's conversion, whatever fails.  read_data_samples ignores the status of its
\* transfers: after a failed one the byte in the static buffer is that of the slot read before.
NoForeignBytes ==
  \A s \in Slots :
    LET bytes == value[ValueHandle[NameOf[s + 1]]]
        Own(i) == {0} \cup {Readings[p][s][i] : p \in 0 .. 1}
    IN  bytes = Zero \/ \E x \in Own(1), y \in Own(2), z \in Own(3) :
                          bytes = BigEndian(convertToMicroVTemp(TwosComplement24(<<x, y, z>>)))

\* The sender drops seven of eight statuses, but nothing is lost beyond the calls that
\* failed: in each quarter sent, the attribute and the client's view are this round's.
StaleOnlyByFailure ==
  pc \in {"write", "notify", "return"} =>
    \A q \in 1 .. 4 : q < quarter =>
      LET name == NameOf[q]
          now == BigEndian(convertToMicroVTemp(sensor_data[q - 1]))
      IN  /\ value[ValueHandle[name]] = now \/ <<"write", q>> \in missed
          /\ name \in enabled /\ <<"notify", q>> \notin missed
               => seen[name] = [bytes |-> now, round |-> round]
=============================================================================
