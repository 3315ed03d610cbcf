------------------------------ MODULE Airdata ------------------------------
(* From a sample of the probe to the picture: the smoothing and the climb     *)
(* rate of model/Airdata.cpp, the expiry of a sample by the system clock, and *)
(* what PaintCycle::paint (view/AirballView.cpp) makes of it.                 *)
(*                                                                            *)
(* Of a floating-point number the model keeps whether it is a number (finite), *)
(* infinite or NaN, of a pressure also its sign, and of a filter's contents    *)
(* whether it is the zero put there at first.  Zeros have no sign, numbers do  *)
(* not overflow, and a temperature is NaN or a number above absolute zero.     *)
EXTENDS Integers, Sequences

Real == {"number", "inf", "-inf", "NaN"}
Pressure == {"-inf", "negative", "zero", "positive", "inf", "NaN"}
Ball == [alpha : Real, beta : Real, ias : Real, tas : Real]
Sample == [alpha : Real, beta : Real, q : Pressure, p : Pressure, t : {"number", "NaN"}]

CONSTANTS
    Samples,                \* the samples the probe sends
    Expiry,                 \* kAirdataExpiryPeriod, in ticks
    NumBalls,               \* kNumBalls
    FilterSizes,            \* vsi_time_constant * kSamplesPerSecond
    MaxBack                 \* bound: ticks the system clock is set back

ASSUME SamplesAssumption == Samples \subseteq Sample
ASSUME ExpiryAssumption == Expiry \in Nat \ {0}
ASSUME SizesAssumption ==
    /\ NumBalls \in Nat \ {0}
    /\ FilterSizes \subseteq Nat \ {0, 1} /\ FilterSizes # {}
ASSUME BackAssumption == MaxBack \in Nat

VARIABLES
    smooth,                 \* smooth_ball_
    raw,                    \* raw_balls_
    filter, rate,           \* climb_rate_filter_ and climb_rate_
    valid,                  \* valid_
    age,                    \* the system clock's now() - lastUpdateTime_, at most Expiry
    setBack,                \* history: the clock was set back since the last update
    vsi,                    \* the filter size asked for by the settings
    factor,                 \* smooth()'s factor for the ball's time constant: 0 for a
                            \* constant of 0, "part" (of 1) for a greater one
    clean,                  \* history: samples with an altitude, since the last
                            \* without one or the last change of the filter's size
    infinite,               \* history: the speeds that were infinite in some sample
    cut,                    \* history: those of them that were smoothed with a
                            \* factor of 0 after that
    upc,                    \* the UI thread: events, balls, cross
    balls, cross            \* what this frame, or the last one, shows

data == <<smooth, raw, filter, rate, valid, clean, infinite, cut>>
clock == <<age, setBack>>
settings == <<vsi, factor>>
picture == <<balls, cross>>
vars == <<data, clock, settings, upc, picture>>

ZeroBall == [alpha |-> "number", beta |-> "number", ias |-> "number", tas |-> "number"]

Init ==
    /\ smooth = ZeroBall
    /\ raw = [i \in 1..NumBalls |-> ZeroBall]
    /\ filter = <<"zero">>
    /\ rate = "number"
    /\ valid = TRUE
    /\ age = Expiry         \* lastUpdateTime_ is the epoch
    /\ setBack = FALSE
    /\ vsi \in FilterSizes
    /\ factor = "part"
    /\ clean = 0
    /\ infinite = {} /\ cut = {}
    /\ upc = "events"
    /\ balls = FALSE
    /\ cross = TRUE

-----------------------------------------------------------------------------
(* Arithmetic on what is kept of a number. *)

Plus(x, y) ==
    CASE "NaN" \in {x, y} \/ {x, y} = {"inf", "-inf"} -> "NaN"
      [] {x, y} = {"number"} -> "number"
      [] OTHER -> IF "inf" \in {x, y} THEN "inf" ELSE "-inf"

\* smooth(): a weighted sum of the current and the new value.  A factor of 0
\* leaves nothing of a number, but NaN of what is infinite.
Smooth(current, new) ==
    IF factor = "zero" /\ current # "number" THEN "NaN" ELSE Plus(current, new)

\* sqrt(2 q / density), for q_to_ias() and q_to_tas()
Speed(q, density) ==
    LET Infinite == {"inf", "-inf"}
        Negative == {"negative", "-inf"}
    IN  CASE \/ "NaN" \in {q, density}
             \/ {q, density} \in {{"zero"}} \cup SUBSET Infinite -> "NaN"
          [] q = "zero" \/ density \in Infinite -> "number"
          [] (q \in Negative) # (density \in Negative) -> "NaN"
          [] density = "zero" \/ q \in Infinite -> "inf"
          [] OTHER -> "number"

Ias(d) == Speed(d.q, "positive")
Tas(d) == Speed(d.q, IF d.t = "NaN" THEN "NaN" ELSE d.p)

\* pressure_to_altitude(): a root of the pressure, taken from a number.
Altitude(p) ==
    CASE p \in {"NaN", "negative"} -> "NaN"
      [] p \in {"inf", "-inf"} -> "-inf"
      [] OTHER -> "number"

\* isnan(new) ? current : new
Guarded(new, current) == IF new = "NaN" THEN current ELSE new

\* LinearRateFilter::compute_rate(), from the distances to the average
Rate(values) ==
    CASE \E i \in 1..Len(values) : values[i] \in {"NaN", "-inf"} -> "NaN"
      [] \E i \in 1..Len(values) : values[i] = "zero" -> "startup"
      [] OTHER -> "number"

\* A change of size starts a new filter, filled with zeros.
Resized(size) == IF size = Len(filter) THEN filter ELSE [i \in 1..size |-> "zero"]

\* Mutant: the oldest value stays in the filter.
PutKeepsOldest(values, y) == SubSeq(Append(Tail(Tail(values)), y), 1, Len(values) - 1)
                                \o <<Head(values)>>

\* LinearRateFilter::put(), without compute_rate()
Put(values, y) == Append(Tail(values), y)

-----------------------------------------------------------------------------
(* The handlers of the UI thread. *)

\* Mutant: a speed reaches the filter unguarded, as the angles do.
SmoothedUnguarded(d) ==
    [alpha |-> Smooth(smooth.alpha, d.alpha),
     beta |-> Smooth(smooth.beta, d.beta),
     ias |-> Smooth(smooth.ias, Ias(d)),
     tas |-> Smooth(smooth.tas, Tas(d))]

\* Airdata.cpp:64-68.  The angles that are smoothed are those of the sample.
Smoothed(d) ==
    [alpha |-> Smooth(smooth.alpha, d.alpha),
     beta |-> Smooth(smooth.beta, d.beta),
     ias |-> Smooth(smooth.ias, Guarded(Ias(d), smooth.ias)),
     tas |-> Smooth(smooth.tas, Guarded(Tas(d), smooth.tas))]

\* Airdata.cpp:70-73, with the values guarded before smooth_ball_ is replaced.
NewRawBall(d) ==
    [alpha |-> Guarded(d.alpha, smooth.alpha),
     beta |-> Guarded(d.beta, smooth.beta),
     ias |-> Guarded(Ias(d), smooth.ias),
     tas |-> Guarded(Tas(d), smooth.tas)]

Update(d) ==
    /\ upc = "events"
    /\ smooth' = Smoothed(d)
    /\ raw' = [i \in 1..NumBalls |-> IF i = 1 THEN NewRawBall(d) ELSE raw[i - 1]]
    /\ filter' = Put(Resized(vsi), Altitude(d.p))
    /\ rate' = Rate(filter')
    /\ clean' = CASE Altitude(d.p) # "number" -> 0
                  [] Altitude(d.p) = "number" /\ vsi # Len(filter) -> 1
                  [] OTHER -> IF clean < vsi THEN clean + 1 ELSE clean
    /\ infinite' = infinite \cup {v \in {"ias"} : Ias(d) = "inf"}
                            \cup {v \in {"tas"} : Tas(d) = "inf"}
    /\ cut' = IF factor = "zero" THEN infinite ELSE cut
    /\ valid' = (d.alpha # "NaN" /\ d.beta # "NaN")
    /\ age' = 0
    /\ setBack' = FALSE
    /\ UNCHANGED <<settings, upc, picture>>

\* The settings change vsi_time_constant; the filter follows with the next sample.
SetVsiTimeConstant(size) ==
    /\ upc = "events"
    /\ vsi' = size
    /\ UNCHANGED <<data, clock, factor, upc, picture>>

\* The settings change ball_time_constant, in its knob's range: zero to one second.
SetBallTimeConstant ==
    /\ upc = "events"
    /\ factor' \in {"zero", "part"}
    /\ UNCHANGED <<data, clock, vsi, upc, picture>>

\* Mutant: a sample without a NaN is valid for ever.
ValidForever == valid

\* Airdata::valid()
Valid == valid /\ age < Expiry

BeginPaint ==
    /\ upc = "events"
    /\ upc' = "balls"
    /\ UNCHANGED <<data, clock, settings, picture>>

\* AirballView.cpp:401-404
PaintBalls ==
    /\ upc = "balls"
    /\ balls' = Valid
    /\ upc' = "cross"
    /\ UNCHANGED <<data, clock, settings, cross>>

\* AirballView.cpp:421-423: valid() is asked again, later.
PaintCross ==
    /\ upc = "cross"
    /\ cross' = ~Valid
    /\ upc' = "events"
    /\ UNCHANGED <<data, clock, settings, balls>>

-----------------------------------------------------------------------------
(* The system clock. *)

Tick ==
    /\ age < Expiry
    /\ age' = age + 1
    /\ UNCHANGED <<data, setBack, settings, upc, picture>>

\* The time of day is corrected: the age of a sample is not monotonic.
SetClockBack ==
    /\ age - 1 >= -MaxBack
    /\ \E back \in 1..(age + MaxBack) : age' = age - back
    /\ setBack' = TRUE
    /\ UNCHANGED <<data, settings, upc, picture>>

-----------------------------------------------------------------------------
Paint == BeginPaint \/ PaintBalls \/ PaintCross
Next == \/ \E d \in Samples : Update(d)
        \/ \E size \in FilterSizes : SetVsiTimeConstant(size)
        \/ SetBallTimeConstant
        \/ Paint \/ Tick \/ SetClockBack

(* The loop paints frame after frame, and time passes. *)
Fairness == WF_vars(Paint) /\ WF_vars(Tick)

Spec == Init /\ [][Next]_vars
FairSpec == Spec /\ Fairness

-----------------------------------------------------------------------------
\* The types of the variables.
TypeOK ==
    /\ smooth \in Ball
    /\ raw \in [1..NumBalls -> Ball]
    /\ filter \in Seq({"zero", "number", "-inf", "NaN"})
    /\ Len(filter) \in FilterSizes \cup {1}
    /\ rate \in {"number", "NaN", "startup"}
    /\ valid \in BOOLEAN
    /\ age \in (-MaxBack)..Expiry
    /\ setBack \in BOOLEAN
    /\ vsi \in FilterSizes
    /\ factor \in {"zero", "part"}
    /\ clean \in Nat
    /\ infinite \subseteq {"ias", "tas"} /\ cut \subseteq infinite
    /\ upc \in {"events", "balls", "cross"}
    /\ balls \in BOOLEAN /\ cross \in BOOLEAN

\* Airdata.cpp:56-62, for the speeds: a NaN, from no sample whatever, gets into a
\* smoothed speed or into the trail of raw balls.  What does is an infinite speed
\* (of an empty field for the pressure, say), which stays; and that becomes NaN
\* when the pilot takes the smoothing away by a time constant of zero.
SpeedsSurviveNaN ==
    \A b \in {smooth} \cup {raw[i] : i \in 1..NumBalls}, v \in {"ias", "tas"} :
        \/ b[v] = "number"
        \/ b[v] = "inf" /\ v \in infinite
        \/ b[v] = "NaN" /\ v \in cut

\* The climb rate forgets: a filter's length after a sample without an altitude,
\* or after the pilot changed the filter's length, it is computed from measured
\* values alone.
RateRecovers == clean >= Len(filter) /\ Len(filter) > 1 => rate = "number"

\* When samples stop coming, the balls go and the cross comes and stays, even
\* after the system clock was set back.
LossShows ==
    (<>[][\A d \in Samples : ~Update(d)]_vars /\ <>[][~SetClockBack]_vars)
        => <>[](upc = "events" => cross /\ ~balls)

\* Airdata.cpp:56-58, "If we allow NaN's to get through, they will 'pollute' the
\* smoothing computation and every smoothed value thereafter will be NaN": the
\* guard keeps NaN out of the smoothed angles, at least those that come with a
\* valid sample.
AnglesStayNumbers == valid => smooth.alpha # "NaN" /\ smooth.beta # "NaN"
=============================================================================
