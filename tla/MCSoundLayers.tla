---------------------------- MODULE MCSoundLayers ----------------------------
(* A finite instance of SoundLayers: cycles of odd and even numbers of frames *)
(* in buffers of two; angles on both sides of every limit, two of them above  *)
(* alpha_stall, the second with a pitch too high to be played; and the NaN    *)
(* that Airdata may hand on.  beta goes beyond its full scale.                *)
EXTENDS SoundLayers

MCSettings == { [alpha_min |-> 0, alpha_y |-> 2, alpha_ref |-> 4, alpha_stall_warning |-> 7,
                 alpha_stall |-> 8, beta_full_scale |-> 2, volume |-> Full] }
MCAirs ==
    { [alpha |-> a, beta |-> 0] : a \in {-1, 2, 4, 5} }
        \cup { [alpha |-> 8, beta |-> -5], [alpha |-> 16, beta |-> 0],
                [alpha |-> 24, beta |-> 0], [alpha |-> NaN, beta |-> NaN] }
=============================================================================
