------------------------------ MODULE MCReport ------------------------------
(***************************************************************************)
(* An instance of Report for TLC.  The eight readings differ in every      *)
(* byte, and lie at the ends of the 24-bit range and on either side of     *)
(* zero.                                                                   *)
(***************************************************************************)
EXTENDS Report

MCReadings ==
  << << <<127, 255, 255>>, <<255, 254, 1>>, <<129, 3, 254>>, <<25, 0, 2>> >>,
     << <<128, 1, 0>>, <<0, 4, 3>>, <<1, 2, 4>>, <<254, 10, 128>> >> >>

\* Sequences start at one, the program's arrays at zero.
MCReadingsFromZero == [p \in 0 .. 1 |-> [s \in 0 .. 3 |-> MCReadings[p + 1][s + 1]]]
=============================================================================
