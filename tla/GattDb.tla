------------------------------- MODULE GattDb -------------------------------
(***************************************************************************)
(* The generated GATT database gatt_db.c and the handles of gatt_db.h that *)
(* the program uses, and what a client learns of the database when it      *)
(* discovers it.                                                           *)
(***************************************************************************)
EXTENDS Naturals, Sequences, FiniteSets, FiniteSetsExt

\* UUIDs that structure the table are told apart by their index; those from Uuid128 on are
\* indices into the table of 128-bit UUIDs.
gattdb_uuidtable_16_map ==
  << "service", "secondary service", "characteristic", "value", "value", "value", "value",
     "description", "value", "value", "value", "config" >>
Uuid128 == 32768
Type(uuid) == IF uuid < Uuid128 THEN gattdb_uuidtable_16_map[uuid + 1] ELSE "value"

\* One entry of gattdb_attributes_map; "len" is the room for a value.
Entry(uuid, properties, char_uuid, len, name) ==
  [uuid |-> uuid, properties |-> properties, char_uuid |-> char_uuid, len |-> len, name |-> name]
NoUuid == 65535
Service == Entry(0, {}, NoUuid, 0, "none")
Char(properties, char_uuid) == Entry(2, properties, char_uuid, 0, "none")
Value(uuid, len) == Entry(uuid, {}, NoUuid, len, "none")
Config(properties) == Entry(11, properties, NoUuid, 0, "none")
Description(name) == Entry(7, {}, NoUuid, 0, name)

\* A characteristic of the sensor service: properties 0x12, four bytes, the client's
\* notification switch, and a description.
Sensor(uuid, name) ==
  << Char({"read", "notify"}, uuid), Value(uuid, 4), Config({"notify"}), Description(name) >>

gattdb_attributes_map ==
  << Service, Char({"indicate"}, 8), Value(8, 4), Config({"indicate"}),      \* generic attribute
     Char({"read"}, 9), Value(9, 16), Char({"read", "write"}, 10), Value(10, 1),
     Service, Char({"read", "write"}, 3), Value(3, 14), Char({"read"}, 4), Value(4, 2),  \* generic access
     Service, Char({"read"}, 5), Value(5, 12), Char({"read"}, 6), Value(6, 8),   \* device information
     Service >> \o Sensor(Uuid128, "strain_1") \o Sensor(Uuid128 + 1, "strain_2")
             \o Sensor(Uuid128 + 2, "strain_3") \o Sensor(Uuid128 + 3, "temperature")
  \o << Service, Char({"write"}, Uuid128 + 4), Value(Uuid128 + 4, 0) >>        \* over-the-air update

AttributeHandles == 1 .. Len(gattdb_attributes_map)
attribute(h) == gattdb_attributes_map[h]

\* The handles of gatt_db.h the program writes to.
gattdb_strain_1_characteristic == 21
gattdb_strain_2_characteristic == 25
gattdb_strain_3_characteristic == 29
gattdb_temp_1_characteristic == 33

-----------------------------------------------------------------------------
(***************************************************************************)
(* Discovery: a characteristic reaches from its declaration to the next    *)
(* declaration; among what follows are the value, which has the UUID the   *)
(* declaration names, the switch and the description.                      *)
(***************************************************************************)
TypeAt(h) == Type(attribute(h).uuid)
Declares(h) == TypeAt(h) \in {"service", "characteristic"}
Within(h) == {g \in AttributeHandles : g > h /\ \A k \in (h + 1) .. g : ~Declares(k)}

\* The sensors by their descriptions, in the order of the table.
NameOf == << "strain_1", "strain_2", "strain_3", "temperature" >>
Names == {NameOf[q] : q \in 1 .. 4}

Declaration == [name \in Names |->
  CHOOSE h \in AttributeHandles :
    /\ TypeAt(h) = "characteristic"
    /\ \E g \in Within(h) : TypeAt(g) = "description" /\ attribute(g).name = name]
ValueHandle == [name \in Names |->
  Min({g \in Within(Declaration[name]) : attribute(g).uuid = attribute(Declaration[name]).char_uuid})]
CanNotify == [name \in Names |->
  /\ "notify" \in attribute(Declaration[name]).properties
  /\ \E g \in Within(Declaration[name]) : attribute(g) = Config({"notify"})]
=============================================================================
