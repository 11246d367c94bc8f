--------------------------------- MODULE Ac ---------------------------------
(***************************************************************************)
(* The air conditioner's state and the Airwell remote-control protocol, as *)
(* src/main/ac.c has them: the packed state word, the code tables, and the *)
(* translation between the state and the payload of an infra-red frame.    *)
(* Everything here is a constant operator; AcMitm gives it its steps.      *)
(***************************************************************************)
EXTENDS Integers

-----------------------------------------------------------------------------
(* ac_mode_t and ac_fan_t *)

AC_MODE_FAN  == 0
AC_MODE_COOL == 1
AC_MODE_HEAT == 2
AC_MODE_DRY  == 3
AC_MODE_AUTO == 4
Modes == AC_MODE_FAN .. AC_MODE_AUTO

AC_FAN_LOW    == 0
AC_FAN_MEDIUM == 1
AC_FAN_HIGH   == 2
AC_FAN_AUTO   == 3
Fans == AC_FAN_LOW .. AC_FAN_AUTO

-----------------------------------------------------------------------------
(* current_state: five bit-fields of one 64-bit word, which is also the    *)
(* word kept in NVS.  The word is all zeros until a first save.            *)

Bit == 0 .. 1
Temperatures == 0 .. 127

AcState == [detected_power : Bit, power : Bit, temperature : Temperatures,
            fan : Fans, mode : Modes]

FactoryState == [detected_power |-> 0, power |-> 0, temperature |-> 0,
                 fan |-> AC_FAN_LOW, mode |-> AC_MODE_FAN]

(* The arguments of update_state.  Keep is the -1 that leaves a field as   *)
(* it is.                                                                  *)
Keep   == -1
Fields == {"power", "temperature", "mode", "fan"}
AllKept == [f \in Fields |-> Keep]

Settings(s) == [f \in Fields |-> s[f]]

-----------------------------------------------------------------------------
(* The code tables.  A search returns -1 where the table has no entry; no  *)
(* table has two entries for one value, so that the first match is the     *)
(* only one.                                                               *)

airwell_modes == <<AC_MODE_COOL, AC_MODE_HEAT, AC_MODE_AUTO, AC_MODE_DRY,
                   AC_MODE_FAN>>

airwell_fans == [v \in 0 .. 3 |-> v]      \* AC_FAN_LOW .. AC_FAN_AUTO in order

value_to_mode(table, value) ==
  IF value \in DOMAIN table THEN table[value] ELSE -1

mode_to_value(table, mode) ==
  IF \E v \in DOMAIN table : table[v] = mode
  THEN CHOOSE v \in DOMAIN table : table[v] = mode
  ELSE -1

-----------------------------------------------------------------------------
(* airwell_t: the fields of a frame the code reads or writes.              *)

Frame == [power_toggle : Bit, temp : 0 .. 15, fan : 0 .. 3, mode : 0 .. 7]

\* slip: the temperature code starts at the lowest setting
airwell_ir_recv16(fr, s) ==
  [power       |-> IF fr.power_toggle = 1 THEN 1 - s.power ELSE Keep,
   temperature |-> fr.temp + 16,
   mode        |-> value_to_mode(airwell_modes, fr.mode),
   fan         |-> value_to_mode(airwell_fans, fr.fan)]

(* What airwell_ir_recv asks of update_state for the frame fr.             *)
airwell_ir_recv(fr, s) ==
  [power       |-> IF fr.power_toggle = 1 THEN 1 - s.power ELSE Keep,
   temperature |-> fr.temp + 15,
   mode        |-> value_to_mode(airwell_modes, fr.mode),
   fan         |-> value_to_mode(airwell_fans, fr.fan)]

(* The frame airwell_ir_send builds; a field keeps as many bits as         *)
(* airwell_t gives it.                                                     *)
airwell_frame(s) ==
  [power_toggle |-> IF s.detected_power # s.power THEN 1 ELSE 0,
   temp         |-> (s.temperature - 15) % 16,
   fan          |-> mode_to_value(airwell_fans, s.fan) % 4,
   mode         |-> mode_to_value(airwell_modes, s.mode) % 8]

(* Nothing is sent to an air conditioner that is off and is to stay off.   *)
StaysOff(s) == s.power = 0 /\ s.detected_power = 0

(* The limits in the airwell entry of the table of air conditioners.       *)
min_temperature == 16
max_temperature == 30
supported_modes == {AC_MODE_COOL, AC_MODE_HEAT, AC_MODE_AUTO, AC_MODE_DRY,
                    AC_MODE_FAN}
supported_fans  == {AC_FAN_LOW, AC_FAN_MEDIUM, AC_FAN_HIGH, AC_FAN_AUTO}

(* What a receiver of the frame fr takes it to ask for.                    *)
Decoded(fr) == [temperature |-> fr.temp + 15,
                mode |-> value_to_mode(airwell_modes, fr.mode),
                fan  |-> value_to_mode(airwell_fans, fr.fan)]
=============================================================================
