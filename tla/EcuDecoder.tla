----------------------------- MODULE EcuDecoder -----------------------------
(***************************************************************************)
(* The decoder for the rusEFI engine controller: where each value is in    *)
(* its eleven frames, how it is scaled, and how the dashboard prints it.   *)
(* A printed value is a sign and two numbers, before and after the point.  *)
(***************************************************************************)
EXTENDS Integers, Sequences

(* The frames 0x200 to 0x20A.                                               *)
FrameIndex == 0 .. 10
(* What was received of each frame.  No data stands for a frame that was    *)
(* not found: either way nothing of it is valid.                            *)
Nothing == [i \in FrameIndex |-> <<>>]
-----------------------------------------------------------------------------
(* The places of the values.  `unit' is the power of ten in the name of the *)
(* member (deci, centi, milli, ten_thousandth).                             *)
Value(f, kind, place, scale, unit) ==
    [frame |-> f, kind |-> kind, place |-> place, scale |-> scale, unit |-> unit]
Scale(mul, div, plus) == [mul |-> mul, div |-> div, plus |-> plus]
Plain == Scale(1, 1, 0)
U8(f, place) == Value(f, "u8", place, Plain, 0)
I8(f, place) == Value(f, "i8", place, Plain, 0)
U16(f, place, unit) == Value(f, "u16", place, Plain, unit)
I16(f, place) == Value(f, "i16", place, Plain, 2)
Celsius(f, place) == Value(f, "u8", place, Scale(1, 1, -40), 0)
Half(f, place) == Value(f, "u8", place, Scale(50, 1, 0), 2)
Third(f, place) == Value(f, "u16", place, Scale(1, 3, 0), 1)
Bit(n) == Value(0, "bit", n, Plain, 0)
Egt(n) == Value(9, "u8", n - 1, Scale(5, 1, 0), 0)

EcuState ==
    [warning_counter |-> U16(0, 0, 0), last_error |-> U16(0, 2, 0),
     rev_lim_act |-> Bit(32), main_relay_act |-> Bit(33), fuel_pump_act |-> Bit(34),
     cel_act |-> Bit(35), ego_heat_act |-> Bit(36), lambda_protect_act |-> Bit(37),
     fan |-> Bit(38), fan2 |-> Bit(39),
     current_gear |-> U8(0, 5), distance_deci_km |-> U16(0, 6, 1),
     rpm |-> U16(1, 0, 0), ignition_cdeg |-> Value(1, "i16", 2, Scale(2, 1, 0), 2),
     inj_duty_cpercent |-> Half(1, 4), ign_duty_cpercent |-> Half(1, 5),
     vehicle_speed_kph |-> U8(1, 6), flex_percent |-> U8(1, 7),
     pps_cpercent |-> I16(2, 0), tps1_cpercent |-> I16(2, 2),
     tps2_cpercent |-> I16(2, 4), wastegate_cpercent |-> I16(2, 6),
     map_deci_kpa |-> Third(3, 0), coolant_temp_c |-> Celsius(3, 2),
     intake_temp_c |-> Celsius(3, 3), aux1_temp_c |-> Celsius(3, 4),
     aux2_temp_c |-> Celsius(3, 5), mcu_temp_c |-> Celsius(3, 6),
     fuel_level_cpercent |-> Half(3, 7),
     oil_press_deci_kpa |-> Third(4, 2), oil_temp_c |-> Celsius(4, 4),
     fuel_temp_c |-> Celsius(4, 5), batt_mv |-> U16(4, 6, 3),
     cyl_airmass_mg |-> U16(5, 0, 0), est_maf_centi_kgh |-> U16(5, 2, 2),
     inj_pw_us |-> Value(5, "u16", 4, Scale(10, 3, 0), 3), knock_count |-> U16(5, 6, 0),
     fuel_used_g |-> U16(6, 0, 0), fuel_flow_mgps |-> Value(6, "u16", 2, Scale(5, 1, 0), 3),
     fuel_trim1_cpercent |-> I16(6, 4), fuel_trim2_cpercent |-> I16(6, 6),
     lambda1_ten_thousandth |-> U16(7, 0, 4), lambda2_ten_thousandth |-> U16(7, 2, 4),
     fp_low_deci_kpa |-> Third(7, 4), fp_high_decibar |-> U16(7, 6, 1),
     cam1_i_deg |-> I8(8, 0), cam1_i_target_deg |-> I8(8, 1),
     cam1_e_deg |-> I8(8, 2), cam1_e_target_deg |-> I8(8, 3),
     cam2_i_deg |-> I8(8, 4), cam2_i_target_deg |-> I8(8, 5),
     cam2_e_deg |-> I8(8, 6), cam2_e_target_deg |-> I8(8, 7),
     egt1 |-> Egt(1), egt2 |-> Egt(2), egt3 |-> Egt(3), egt4 |-> Egt(4),
     egt5 |-> Egt(5), egt6 |-> Egt(6), egt7 |-> Egt(7), egt8 |-> Egt(8),
     knock0 |-> I8(10, 0), knock1 |-> I8(10, 1), knock2 |-> I8(10, 2)]

(* rusefi_can_decoder_get_*: what a frame is too short for stays invalid.   *)
Offset(v) == IF v.kind = "bit" THEN v.place \div 8 ELSE v.place
Width(v) == IF v.kind \in {"u16", "i16"} THEN 2 ELSE 1
LongEnough(v, data) == Len(data) >= Offset(v) + Width(v)

Signed(raw, half) == IF raw >= half THEN raw - 2 * half ELSE raw
Raw(v, data) ==
    LET low == data[Offset(v) + 1]
        word == low + 256 * data[Offset(v) + 2]
    IN  CASE v.kind = "u8" -> low
          [] v.kind = "i8" -> Signed(low, 128)
          [] v.kind = "u16" -> word
          [] v.kind = "i16" -> Signed(word, 32768)
          [] v.kind = "bit" -> (low \div 2 ^ (v.place % 8)) % 2

(* Division in C is towards zero.                                           *)
Quotient(n, d) == IF n < 0 THEN - ((- n) \div d) ELSE n \div d
Decoded(v, data) == Quotient(Raw(v, data) * v.scale.mul, v.scale.div) + v.scale.plus
-----------------------------------------------------------------------------
(* The pages: names of values, with the places after the point.             *)
Row(value, places) == [value |-> value, places |-> places]
Pages ==
    <<<<Row("rpm", 0), Row("map_deci_kpa", 1), Row("ignition_cdeg", 2),
        Row("inj_pw_us", 3), Row("batt_mv", 3)>>,
      <<Row("inj_duty_cpercent", 2), Row("ign_duty_cpercent", 2),
        Row("vehicle_speed_kph", 0), Row("current_gear", 0), Row("flex_percent", 0)>>,
      <<Row("pps_cpercent", 2), Row("tps1_cpercent", 2), Row("tps2_cpercent", 2),
        Row("wastegate_cpercent", 2), Row("cyl_airmass_mg", 0)>>,
      <<Row("est_maf_centi_kgh", 2), Row("knock_count", 0), Row("knock0", 0),
        Row("knock1", 0), Row("knock2", 0)>>,
      <<Row("coolant_temp_c", 0), Row("intake_temp_c", 0), Row("oil_temp_c", 0),
        Row("fuel_temp_c", 0), Row("mcu_temp_c", 0)>>,
      <<Row("aux1_temp_c", 0), Row("aux2_temp_c", 0), Row("fuel_level_cpercent", 2),
        Row("fuel_used_g", 0), Row("fuel_flow_mgps", 3)>>,
      <<Row("lambda1_ten_thousandth", 4), Row("lambda2_ten_thousandth", 4),
        Row("fuel_trim1_cpercent", 2), Row("fuel_trim2_cpercent", 2),
        Row("oil_press_deci_kpa", 1)>>,
      <<Row("fp_low_deci_kpa", 1), Row("fp_high_decibar", 1)>>,
      <<Row("warning_counter", 0), Row("last_error", 0), Row("distance_deci_km", 1),
        Row("main_relay_act", 0), Row("fuel_pump_act", 0)>>,
      <<Row("cel_act", 0), Row("rev_lim_act", 0), Row("fan", 0), Row("fan2", 0),
        Row("ego_heat_act", 0)>>,
      <<Row("cam1_i_deg", 0), Row("cam1_i_target_deg", 0), Row("cam1_e_deg", 0),
        Row("cam1_e_target_deg", 0), Row("cam2_i_deg", 0)>>,
      <<Row("cam2_i_target_deg", 0), Row("cam2_e_deg", 0), Row("cam2_e_target_deg", 0),
        Row("lambda_protect_act", 0), Row("egt1", 0)>>,
      <<Row("egt2", 0), Row("egt3", 0), Row("egt4", 0), Row("egt5", 0), Row("egt6", 0)>>,
      <<Row("egt7", 0), Row("egt8", 0)>>>>

(* The text of a number; Blank is what is drawn for an invalid value.       *)
Blank == [shown |-> FALSE, negative |-> FALSE, whole |-> 0, fraction |-> 0]
FormatFixed(value, places) ==
    LET units == IF value < 0 THEN - value ELSE value
    IN  [shown |-> TRUE, negative |-> value < 0,
         whole |-> units \div 10 ^ places, fraction |-> units % 10 ^ places]

Text(row, frames) ==
    LET v == EcuState[row.value]
        data == frames[v.frame]
    IN  IF LongEnough(v, data) THEN FormatFixed(Decoded(v, data), row.places) ELSE Blank
-----------------------------------------------------------------------------
(* What a text must say.  Every value is on one page, with the unit of its  *)
(* name; it is blank when the frame was too short; and for all bytes at     *)
(* their limits it is less than one of its last digit from the number that  *)
(* was sent, the sign included, though it was scaled in integers.           *)
Limits == {0, 1, 2, 127, 128, 255}
Samples == UNION {{[i \in 1 .. n |-> IF i % 2 = 1 THEN x ELSE y] : x, y \in Limits} : n \in 0 .. 8}

Near(text, v, data) ==
    LET read == (IF text.negative THEN -1 ELSE 1) * (text.whole * 10 ^ v.unit + text.fraction)
        gap == v.scale.div * (read - v.scale.plus) - v.scale.mul * Raw(v, data)
    IN  /\ text.fraction < 10 ^ v.unit
        /\ gap < v.scale.div /\ - gap < v.scale.div

Places == UNION {{<<p, r>> : r \in DOMAIN Pages[p]} : p \in DOMAIN Pages}
TextsTrue ==
    /\ \A name \in DOMAIN EcuState : \E x \in Places :
        /\ Pages[x[1]][x[2]] = Row(name, EcuState[name].unit)
        /\ \A y \in Places \ {x} : Pages[y[1]][y[2]].value # name
    /\ \A name \in DOMAIN EcuState, data \in Samples :
        LET v == EcuState[name]
            text == Text(Row(name, v.unit), [Nothing EXCEPT ![v.frame] = data])
        IN  IF LongEnough(v, data) THEN text.shown /\ Near(text, v, data)
            ELSE text = Blank
=============================================================================
