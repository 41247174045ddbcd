---------------------------- MODULE GattDb_proofs ----------------------------
(***************************************************************************)
(* Theorems about the database: the handles gatt_db.h gives the sender are *)
(* those under which a client discovers the sensors' values.               *)
(***************************************************************************)
EXTENDS GattDb, Integers, TLAPS

\* The table has 38 entries.
LEMMA TableLength == AttributeHandles = 1 .. 38
<1>1. Len(gattdb_attributes_map) = 38
  BY DEF gattdb_attributes_map, Sensor, Char, Value, Config, Description, Service, Entry
<1> QED
  BY <1>1 DEF AttributeHandles

\* The four characteristics of the sensor service lie one after the other from entry 20 on.
LEMMA SensorEntries ==
  ASSUME NEW q \in 1 .. 4
  PROVE  /\ attribute(16 + 4 * q) = Char({"read", "notify"}, 32767 + q)
         /\ attribute(17 + 4 * q) = Value(32767 + q, 4)
         /\ attribute(18 + 4 * q) = Config({"notify"})
         /\ attribute(19 + 4 * q) = Description(NameOf[q])
<1> USE DEF attribute, gattdb_attributes_map, Sensor, Char, Value, Config, Description, Service,
            Entry, Uuid128, NameOf
<1>1. CASE q = 1
  BY <1>1
<1>2. CASE q = 2
  BY <1>2
<1>3. CASE q = 3
  BY <1>3
<1>4. CASE q = 4
  BY <1>4
<1> QED
  BY <1>1, <1>2, <1>3, <1>4

\* The indices of the 16-bit UUIDs that give the table its structure.
LEMMA StructureTypes ==
  /\ Type(0) = "service" /\ Type(2) = "characteristic" /\ Type(7) = "description" /\ Type(11) = "config"
  BY DEF Type, gattdb_uuidtable_16_map, Uuid128

\* The indices of those that name values.
LEMMA ValueTypes ==
  /\ Type(3) = "value" /\ Type(4) = "value" /\ Type(5) = "value" /\ Type(6) = "value"
  /\ Type(8) = "value" /\ Type(9) = "value" /\ Type(10) = "value"
  BY DEF Type, gattdb_uuidtable_16_map, Uuid128

\* What each of their entries is; the entry after them declares something else.
LEMMA SensorTypes ==
  ASSUME NEW q \in 1 .. 4
  PROVE  /\ TypeAt(16 + 4 * q) = "characteristic" /\ TypeAt(17 + 4 * q) = "value"
         /\ TypeAt(18 + 4 * q) = "config" /\ TypeAt(19 + 4 * q) = "description"
         /\ Declares(20 + 4 * q)
<1>1. /\ attribute(16 + 4 * q).uuid = 2 /\ attribute(17 + 4 * q).uuid = 32767 + q
      /\ attribute(18 + 4 * q).uuid = 11 /\ attribute(19 + 4 * q).uuid = 7
  BY SensorEntries DEF Char, Value, Config, Description, Entry
<1>2. /\ Type(2) = "characteristic" /\ Type(32767 + q) = "value" /\ Type(11) = "config"
      /\ Type(7) = "description" /\ Type(0) = "service"
  <2>1. ~(32767 + q < 32768)
    OBVIOUS
  <2>2. Type(32767 + q) = "value"
    BY <2>1 DEF Type, Uuid128
  <2> QED
    BY <2>2, StructureTypes
<1>3. attribute(20 + 4 * q).uuid \in {0, 2}
  <2>1. CASE q = 4
    BY <2>1 DEF attribute, gattdb_attributes_map, Sensor, Char, Value, Config, Description, Service,
                Entry, Uuid128
  <2>2. CASE q # 4
    <3>1. q + 1 \in 1 .. 4 /\ 20 + 4 * q = 16 + 4 * (q + 1)
      BY <2>2
    <3> QED
      BY <3>1, SensorEntries DEF Char, Entry
  <2> QED
    BY <2>1, <2>2
<1> QED
  BY <1>1, <1>2, <1>3 DEF TypeAt, Declares

\* Nothing else in the table is a description.
LEMMA OnlyDescriptions ==
  ASSUME NEW g \in 1 .. 38, TypeAt(g) = "description"
  PROVE  \E q \in 1 .. 4 : g = 19 + 4 * q
<1> DEFINE u == attribute(g).uuid
<1>1. g \in {23, 27, 31, 35} \/ u \in {0, 2, 3, 4, 5, 6, 8, 9, 10, 11} \cup {32768, 32769, 32770, 32771, 32772}
  BY DEF attribute, gattdb_attributes_map, Sensor, Char, Value, Config, Description, Service,
         Entry, Uuid128
<1>2. Type(u) = "description"
  BY DEF TypeAt
<1> HIDE DEF u
<1>3. u \notin {0, 2, 3, 4, 5, 6, 8, 9, 10, 11} \cup {32768, 32769, 32770, 32771, 32772}
  <2>1. \A n \in {32768, 32769, 32770, 32771, 32772} : Type(n) = "value"
    BY DEF Type, Uuid128
  <2> QED
    BY <1>2, <2>1, StructureTypes, ValueTypes
<1>4. g \in {23, 27, 31, 35}
  BY <1>1, <1>3
<1> QED
  BY <1>4

\* What a client finds after the declaration of a sensor: value, switch and description.
LEMMA SensorReaches ==
  ASSUME NEW q \in 1 .. 4
  PROVE  Within(16 + 4 * q) = {17 + 4 * q, 18 + 4 * q, 19 + 4 * q}
<1> DEFINE d == 16 + 4 * q
<1>1. d \in 20 .. 32 /\ 20 + 4 * q = d + 4
  OBVIOUS
<1>2. ~Declares(d + 1) /\ ~Declares(d + 2) /\ ~Declares(d + 3) /\ Declares(d + 4)
  BY SensorTypes DEF Declares
<1> HIDE DEF d
<1>3. ASSUME NEW g \in Within(d) PROVE g \in {d + 1, d + 2, d + 3}
  <2>1. g \in 1 .. 38 /\ g > d /\ \A k \in (d + 1) .. g : ~Declares(k)
    BY <1>3, TableLength DEF Within
  <2>2. ~(g >= d + 4)
    BY <1>1, <1>2, <2>1
  <2> QED
    BY <1>1, <2>1, <2>2
<1>4. ASSUME NEW g \in {d + 1, d + 2, d + 3} PROVE g \in Within(d)
  <2>1. g \in 1 .. 38 /\ g > d
    BY <1>1, <1>4
  <2>2. ASSUME NEW k \in (d + 1) .. g PROVE ~Declares(k)
    <3>1. k \in {d + 1, d + 2, d + 3}
      BY <1>1, <1>4, <2>2
    <3> QED
      BY <1>2, <3>1
  <2> QED
    BY <2>1, <2>2, TableLength DEF Within
<1>5. Within(d) = {d + 1, d + 2, d + 3}
  BY <1>3, <1>4
<1> QED
  BY <1>5 DEF d

\* A name leads a client to one declaration.
LEMMA Declared ==
  ASSUME NEW q \in 1 .. 4
  PROVE  Declaration[NameOf[q]] = 16 + 4 * q
<1> DEFINE name == NameOf[q]
           P(h) == /\ TypeAt(h) = "characteristic"
                   /\ \E g \in Within(h) : TypeAt(g) = "description" /\ attribute(g).name = name
<1>0. name \in Names
  BY DEF NameOf, Names
<1>1. 16 + 4 * q \in AttributeHandles /\ P(16 + 4 * q)
  <2>1. attribute(19 + 4 * q).name = name
    BY SensorEntries DEF Description, Entry
  <2>2. 19 + 4 * q \in Within(16 + 4 * q)
    BY SensorReaches
  <2>3. 16 + 4 * q \in AttributeHandles
    BY TableLength
  <2> QED
    BY <2>1, <2>2, <2>3, SensorTypes
<1>2. ASSUME NEW h \in AttributeHandles, P(h) PROVE h = 16 + 4 * q
  <2>1. PICK g \in Within(h) : TypeAt(g) = "description" /\ attribute(g).name = name
    BY <1>2
  <2>2. h \in 1 .. 38 /\ g \in 1 .. 38 /\ g > h /\ \A k \in (h + 1) .. g : ~Declares(k)
    BY <2>1, TableLength DEF Within
  <2>3. PICK r \in 1 .. 4 : g = 19 + 4 * r
    BY <2>1, <2>2, OnlyDescriptions
  <2>4. NameOf[r] = name
    BY <2>1, <2>3, SensorEntries DEF Description, Entry
  <2>5. r = q
    BY <2>4 DEF NameOf
  <2>6. Declares(16 + 4 * q) /\ g = 19 + 4 * q
    BY <2>3, <2>5, SensorTypes DEF Declares
  <2>7. h >= 16 + 4 * q
    BY <2>2, <2>6
  <2>8. h \notin {17 + 4 * q, 18 + 4 * q}
    BY <1>2, SensorTypes
  <2> QED
    BY <2>2, <2>6, <2>7, <2>8
<1> HIDE DEF P
<1>3. Declaration[name] = CHOOSE h \in AttributeHandles : P(h)
  BY <1>0 DEF Declaration, P
<1>4. (CHOOSE h \in AttributeHandles : P(h)) = 16 + 4 * q
  BY <1>1, <1>2
<1> QED
  BY <1>3, <1>4

\* What a client learns of the sensor of that name.
LEMMA Discovered ==
  ASSUME NEW q \in 1 .. 4
  PROVE  /\ ValueHandle[NameOf[q]] = 17 + 4 * q
         /\ CanNotify[NameOf[q]] = TRUE
         /\ attribute(17 + 4 * q).len = 4
<1> DEFINE name == NameOf[q]
<1>0. name \in Names
  BY DEF NameOf, Names
<1>1. Declaration[name] = 16 + 4 * q /\ Within(16 + 4 * q) = {17 + 4 * q, 18 + 4 * q, 19 + 4 * q}
  BY Declared, SensorReaches
<1>2. /\ attribute(16 + 4 * q).char_uuid = 32767 + q /\ "notify" \in attribute(16 + 4 * q).properties
      /\ attribute(17 + 4 * q).uuid = 32767 + q /\ attribute(18 + 4 * q).uuid = 11
      /\ attribute(19 + 4 * q).uuid = 7
  BY SensorEntries DEF Char, Value, Config, Description, Entry
<1>3. {g \in {17 + 4 * q, 18 + 4 * q, 19 + 4 * q} : attribute(g).uuid = 32767 + q} = {17 + 4 * q}
  BY <1>2
<1>4. ValueHandle[name] = Min({17 + 4 * q})
  <2>1. ValueHandle[name] = Min({g \in Within(Declaration[name]) :
                                   attribute(g).uuid = attribute(Declaration[name]).char_uuid})
    BY <1>0 DEF ValueHandle
  <2>2. {g \in Within(Declaration[name]) : attribute(g).uuid = attribute(Declaration[name]).char_uuid}
          = {17 + 4 * q}
    BY <1>1, <1>2, <1>3
  <2> QED
    BY <2>1, <2>2
<1>5. Min({17 + 4 * q}) = 17 + 4 * q
  BY DEF Min
<1>6. CanNotify[name] = TRUE
  <2>1. CanNotify[name] = (/\ "notify" \in attribute(Declaration[name]).properties
                           /\ \E g \in Within(Declaration[name]) : attribute(g) = Config({"notify"}))
    BY <1>0 DEF CanNotify
  <2>2. attribute(18 + 4 * q) = Config({"notify"})
    BY SensorEntries
  <2> QED
    BY <1>1, <1>2, <2>1, <2>2
<1>7. attribute(17 + 4 * q).len = 4
  BY SensorEntries DEF Value, Entry
<1> QED
  BY <1>4, <1>5, <1>6, <1>7

\* The handles gatt_db.h gives the sender are the ones a client discovers under the sensors'
\* names, each with the room of a float and with notifications to switch on.
THEOREM HandlesAreDiscovered ==
  /\ ValueHandle["strain_1"] = gattdb_strain_1_characteristic
  /\ ValueHandle["strain_2"] = gattdb_strain_2_characteristic
  /\ ValueHandle["strain_3"] = gattdb_strain_3_characteristic
  /\ ValueHandle["temperature"] = gattdb_temp_1_characteristic
  /\ \A name \in Names : CanNotify[name] /\ attribute(ValueHandle[name]).len = 4
<1>1. \A q \in 1 .. 4 : /\ ValueHandle[NameOf[q]] = 17 + 4 * q
                        /\ CanNotify[NameOf[q]] /\ attribute(17 + 4 * q).len = 4
  BY Discovered
<1>2. /\ NameOf[1] = "strain_1" /\ NameOf[2] = "strain_2"
      /\ NameOf[3] = "strain_3" /\ NameOf[4] = "temperature"
  BY DEF NameOf
<1>3. \A name \in Names : \E q \in 1 .. 4 : name = NameOf[q]
  BY <1>2 DEF Names
<1>4. \A name \in Names : CanNotify[name] /\ attribute(ValueHandle[name]).len = 4
  BY <1>1, <1>3
<1> QED
  BY <1>1, <1>2, <1>4 DEF gattdb_strain_1_characteristic, gattdb_strain_2_characteristic,
     gattdb_strain_3_characteristic, gattdb_temp_1_characteristic
=============================================================================
