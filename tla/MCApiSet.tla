------------------------------- MODULE MCApiSet -------------------------------
(* ApiSet for TLC: updates at the ends of each range and beyond them.       *)
EXTENDS ApiSet, TLC

Off == [a \in Attrs |-> 0]
Used == [Off EXCEPT !["power"] = 1, !["heat_power"] = 1, !["locked"] = 1,
                    !["temp_set"] = 255, !["heat_timer_min"] = 256,
                    !["wave_timer_min"] = 65535]
TwoStates == {Off, Used}

Good == {"heat_power" :> Num(1),
         "power" :> Bool(0) @@ "wave_timer_min" :> Num(65535),
         "temp_set" :> Num(255) @@ "heat_timer_min" :> Num(255),
         "heat_appm_min" :> Num(256) @@ "temp_set_unit" :> Num(1)}
Bad == {<< >>, "temp_set" :> Num(256), "heat_timer_min" :> Num(65536),
        "locked" :> Num(2), "temp_set" :> Fraction(38), "power" :> Text,
        "temp_set" :> Bool(1), "temp_now" :> Num(1)}
AllBodies == Good \cup Bad

Panel == {"heat_power" :> Num(0), "temp_set" :> Num(20)}

\* What a shell may hand to `tubctl set`.
Words == {"heat_power" :> Yes @@ "temp_set" :> Num(255),
          "locked" :> Text @@ "filter_power" :> Num(2),
          "temp_set_unit" :> Num(1) @@ "wave_timer_min" :> Num(65535),
          "temp_set" :> Text, "heat_appm_min" :> Num(65536),
          "earth" :> Fraction(1), "color" :> Num(1), << >>}
=============================================================================
