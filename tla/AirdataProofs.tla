---------------------------- MODULE AirdataProofs ----------------------------
(* What a sample without a number can do to the air data, and for how long,   *)
(* for any filters, any number of balls and any expiry.                       *)
EXTENDS Airdata, TLAPS

\* The filter's newest values are those of the samples counted as clean, which
\* are no more than it holds.
Window ==
    /\ clean <= Len(filter)
    /\ \A i \in 1..Len(filter) : i > Len(filter) - clean => filter[i] = "number"

\* The rate is the filter's, as soon as a sample went into it.
RateIsFilters == Len(filter) > 1 => rate = Rate(filter)

\* A value of the speed v, if it was infinite in a sample, or was cut after that.
Survives(x, v, endless, lost) ==
    x = "number" \/ (x = "inf" /\ v \in endless) \/ (x = "NaN" /\ v \in lost)

IInv == TypeOK /\ SpeedsSurviveNaN /\ Window /\ RateIsFilters

-----------------------------------------------------------------------------
\* Before the first sample.
LEMMA InitEstablishesIInv == Init => IInv
<1> SUFFICES ASSUME Init PROVE IInv
  OBVIOUS
<1>1. filter \in Seq({"zero", "number", "-inf", "NaN"}) /\ Len(filter) = 1 /\ clean = 0
  BY DEF Init
<1>2. TypeOK
  <2>1. smooth \in Ball /\ raw \in [1..NumBalls -> Ball]
    BY DEF Init, ZeroBall, Ball, Real
  <2>2. age \in (-MaxBack)..Expiry
    BY ExpiryAssumption, BackAssumption DEF Init
  <2>3. Len(filter) \in FilterSizes \cup {1} /\ clean \in Nat
    BY <1>1
  <2>4. rate \in {"number", "NaN", "startup"} /\ valid \in BOOLEAN /\ setBack \in BOOLEAN
        /\ vsi \in FilterSizes /\ factor \in {"zero", "part"}
        /\ infinite \subseteq {"ias", "tas"} /\ cut \subseteq infinite /\ upc \in {"events", "balls", "cross"}
        /\ balls \in BOOLEAN /\ cross \in BOOLEAN
    BY DEF Init
  <2> QED
    BY <1>1, <2>1, <2>2, <2>3, <2>4 DEF TypeOK
<1>3. SpeedsSurviveNaN
  <2>1. \A b \in {smooth} \cup {raw[i] : i \in 1..NumBalls} : b = ZeroBall
    BY DEF Init
  <2>2. ZeroBall.ias = "number" /\ ZeroBall.tas = "number"
    BY DEF ZeroBall
  <2> QED BY <2>1, <2>2 DEF SpeedsSurviveNaN
<1>4. Window /\ RateIsFilters
  BY <1>1 DEF Window, RateIsFilters
<1> QED
  BY <1>2, <1>3, <1>4 DEF IInv

\* A filter of another size is filled with zeros.
LEMMA ResizedType ==
  ASSUME IInv, NEW size \in FilterSizes
  PROVE  /\ Resized(size) \in Seq({"zero", "number", "-inf", "NaN"})
         /\ Len(Resized(size)) = size /\ size \in Nat /\ size > 1
         /\ size = Len(filter) => Resized(size) = filter
BY SizesAssumption DEF Resized, IInv, TypeOK

\* put() drops the oldest value and keeps the others in their order.
LEMMA PutWindow ==
  ASSUME NEW S, NEW f \in Seq(S), Len(f) > 0, NEW y \in S
  PROVE  /\ Put(f, y) \in Seq(S) /\ Len(Put(f, y)) = Len(f)
         /\ Put(f, y)[Len(f)] = y
         /\ \A i \in 1..(Len(f) - 1) : Put(f, y)[i] = f[i + 1]
<1>1. Tail(f) \in Seq(S) /\ Len(Tail(f)) = Len(f) - 1
  OBVIOUS
<1>2. \A i \in 1..(Len(f) - 1) : Tail(f)[i] = f[i + 1]
  OBVIOUS
<1> QED
  BY <1>1, <1>2 DEF Put

\* The rate is computed from what is in the filter.
LEMMA RateType ==
  ASSUME NEW f \in Seq({"zero", "number", "-inf", "NaN"})
  PROVE  /\ Rate(f) \in {"number", "NaN", "startup"}
         /\ (\A i \in 1..Len(f) : f[i] = "number") => Rate(f) = "number"
BY DEF Rate

\* What is computed from a sample, and a weighted sum.
LEMMA ArithmeticTypes ==
  /\ \A q, density : Speed(q, density) \in {"number", "inf", "NaN"}
  /\ \A p : Altitude(p) \in {"number", "-inf", "NaN"}
  /\ \A x, y \in Real : Plus(x, y) \in Real /\ Smooth(x, y) \in Real
BY DEF Speed, Altitude, Plus, Smooth, Real

\* A speed after another sample, smoothed and raw: NaN stays out.
LEMMA SpeedAfterSample ==
  ASSUME factor \in {"zero", "part"}, NEW v, NEW before, NEW lost, NEW after,
         lost \subseteq before, before \subseteq after,
         NEW current, Survives(current, v, before, lost),
         NEW new \in {"number", "inf", "NaN"}, new = "inf" => v \in after
  PROVE  LET lost2 == IF factor = "zero" THEN before ELSE lost
         IN  /\ Survives(Guarded(new, current), v, after, lost2)
             /\ Survives(Smooth(current, Guarded(new, current)), v, after, lost2)
<1> DEFINE value == Guarded(new, current)
           lost2 == IF factor = "zero" THEN before ELSE lost
<1>1. lost \subseteq lost2 /\ lost2 \subseteq after
  OBVIOUS
<1>2. /\ value \in {"number", "inf", "NaN"}
      /\ value = "inf" => v \in after
      /\ value = "NaN" => current = "NaN"
  BY DEF Guarded, Survives
<1>3. current \in {"number", "inf", "NaN"}
  BY DEF Survives
<1>4. Survives(value, v, after, lost2)
  BY <1>1, <1>2, <1>3 DEF Survives
<1> HIDE DEF value
<1>5. CASE factor = "zero" /\ current # "number"
  <2>1. Smooth(current, value) = "NaN" /\ lost2 = before
    BY <1>5 DEF Smooth
  <2>2. v \in before
    BY <1>5 DEF Survives
  <2> QED BY <1>4, <2>1, <2>2 DEF Survives, value
<1>6. CASE ~(factor = "zero" /\ current # "number")
  <2>1. Smooth(current, value) = Plus(current, value)
    BY <1>6 DEF Smooth
  <2>2. /\ Plus(current, value) \in {"number", "inf", "NaN"}
        /\ Plus(current, value) = "NaN" => current = "NaN"
        /\ Plus(current, value) = "inf" => current = "inf" \/ value = "inf"
    BY <1>2, <1>3 DEF Plus
  <2> HIDE DEF lost2
  <2>3. Survives(Plus(current, value), v, after, lost2)
    BY <1>1, <1>2, <2>2 DEF Survives
  <2> QED BY <1>4, <2>1, <2>3 DEF value, lost2
<1> QED BY <1>5, <1>6

\* A sample.
LEMMA UpdateKeepsIInv ==
  ASSUME IInv, NEW d \in Samples, Update(d)
  PROVE  IInv'
<1> DEFINE f == Resized(vsi)
           altitude == Altitude(d.p)
<1>1. /\ f \in Seq({"zero", "number", "-inf", "NaN"}) /\ Len(f) = vsi /\ vsi \in Nat /\ vsi > 1
      /\ vsi = Len(filter) => f = filter
      /\ vsi \in FilterSizes
  BY ResizedType DEF IInv, TypeOK
<1>2. d \in Sample /\ altitude \in {"number", "-inf", "NaN"}
  BY SamplesAssumption, ArithmeticTypes
<1>3. /\ filter' \in Seq({"zero", "number", "-inf", "NaN"}) /\ Len(filter') = vsi
      /\ filter'[vsi] = altitude
      /\ \A i \in 1..(vsi - 1) : filter'[i] = f[i + 1]
  <2>1. filter' = Put(f, altitude)
    BY DEF Update
  <2>2. /\ Put(f, altitude) \in Seq({"zero", "number", "-inf", "NaN"}) /\ Len(Put(f, altitude)) = Len(f)
        /\ Put(f, altitude)[Len(f)] = altitude
        /\ \A i \in 1..(Len(f) - 1) : Put(f, altitude)[i] = f[i + 1]
    <3>1. altitude \in {"zero", "number", "-inf", "NaN"} /\ Len(f) > 0
      BY <1>1, <1>2
    <3> DEFINE S == {"zero", "number", "-inf", "NaN"}
    <3>2. f \in Seq(S) /\ Len(f) > 0 /\ altitude \in S
      BY <1>1, <3>1
    <3> HIDE DEF f, altitude, S
    <3>3. /\ Put(f, altitude) \in Seq(S) /\ Len(Put(f, altitude)) = Len(f)
          /\ Put(f, altitude)[Len(f)] = altitude
          /\ \A i \in 1..(Len(f) - 1) : Put(f, altitude)[i] = f[i + 1]
      BY ONLY <3>2, PutWindow
    <3> QED
      BY <3>3 DEF S
  <2> HIDE DEF f, altitude
  <2> QED
    BY <1>1, <2>1, <2>2
<1>4. /\ clean \in Nat /\ clean' \in Nat
      /\ altitude # "number" => clean' = 0
      /\ altitude = "number" /\ vsi # Len(filter) => clean' = 1
      /\ altitude = "number" /\ vsi = Len(filter) => clean' = IF clean < vsi THEN clean + 1 ELSE clean
  BY DEF Update, IInv, TypeOK
<1> HIDE DEF altitude
<1>5. smooth' \in Ball /\ raw' \in [1..NumBalls -> Ball] /\ SpeedsSurviveNaN'
  <2>1. /\ smooth' = Smoothed(d)
        /\ raw' = [i \in 1..NumBalls |-> IF i = 1 THEN NewRawBall(d) ELSE raw[i - 1]]
        /\ cut' = IF factor = "zero" THEN infinite ELSE cut
    BY DEF Update
  <2>2. /\ infinite \subseteq infinite'
        /\ Ias(d) = "inf" => "ias" \in infinite'
        /\ Tas(d) = "inf" => "tas" \in infinite'
    BY DEF Update
  <2>3. /\ smooth \in Ball /\ raw \in [1..NumBalls -> Ball] /\ factor \in {"zero", "part"}
        /\ cut \subseteq infinite
    BY DEF IInv, TypeOK
  <2>4. /\ Survives(smooth.ias, "ias", infinite, cut) /\ Survives(smooth.tas, "tas", infinite, cut)
        /\ \A i \in 1..NumBalls, v \in {"ias", "tas"} : Survives(raw[i][v], v, infinite, cut)
    BY DEF IInv, SpeedsSurviveNaN, Survives
  <2>5. Ias(d) \in {"number", "inf", "NaN"} /\ Tas(d) \in {"number", "inf", "NaN"}
    BY ArithmeticTypes DEF Ias, Tas
  <2> DEFINE ias == Guarded(Ias(d), smooth.ias)
             tas == Guarded(Tas(d), smooth.tas)
             lost == IF factor = "zero" THEN infinite ELSE cut
  <2>6. Survives(ias, "ias", infinite', lost) /\ Survives(Smooth(smooth.ias, ias), "ias", infinite', lost)
    BY <2>2, <2>3, <2>4, <2>5, SpeedAfterSample
  <2>7. Survives(tas, "tas", infinite', lost) /\ Survives(Smooth(smooth.tas, tas), "tas", infinite', lost)
    BY <2>2, <2>3, <2>4, <2>5, SpeedAfterSample
  <2>8. cut' = lost /\ cut \subseteq lost
    BY <2>1, <2>3
  <2>9. /\ Smoothed(d).ias = Smooth(smooth.ias, ias) /\ Smoothed(d).tas = Smooth(smooth.tas, tas)
        /\ NewRawBall(d).ias = ias /\ NewRawBall(d).tas = tas
    BY DEF Smoothed, NewRawBall
  <2>10. Smoothed(d) \in Ball /\ NewRawBall(d) \in Ball
    <3>1. /\ smooth.alpha \in Real /\ smooth.beta \in Real /\ smooth.ias \in Real /\ smooth.tas \in Real
          /\ d.alpha \in Real /\ d.beta \in Real
      BY <1>2, <2>3 DEF Ball, Sample
    <3>2. /\ ias \in Real /\ tas \in Real
          /\ Guarded(d.alpha, smooth.alpha) \in Real /\ Guarded(d.beta, smooth.beta) \in Real
      BY <2>5, <3>1 DEF Guarded, Real
    <3>3. /\ Smooth(smooth.alpha, d.alpha) \in Real /\ Smooth(smooth.beta, d.beta) \in Real
          /\ Smooth(smooth.ias, ias) \in Real /\ Smooth(smooth.tas, tas) \in Real
      BY <3>1, <3>2, ArithmeticTypes
    <3> QED BY <3>2, <3>3 DEF Smoothed, NewRawBall, Ball
  <2> HIDE DEF ias, tas, lost
  <2>11. \A i \in 1..NumBalls : i # 1 => i - 1 \in 1..NumBalls
    BY SizesAssumption
  <2>12. \A i \in 1..NumBalls, v \in {"ias", "tas"} : Survives(raw'[i][v], v, infinite', lost)
    <3> TAKE i \in 1..NumBalls, v \in {"ias", "tas"}
    <3>1. CASE i = 1
      BY <2>1, <2>6, <2>7, <2>9, <3>1
    <3>2. CASE i # 1
      <4>1. raw'[i] = raw[i - 1] /\ i - 1 \in 1..NumBalls
        BY <2>1, <2>11, <3>2
      <4>2. Survives(raw[i - 1][v], v, infinite, cut)
        BY <2>4, <4>1
      <4> QED BY <2>2, <2>8, <4>1, <4>2 DEF Survives
    <3> QED BY <3>1, <3>2
  <2>13. SpeedsSurviveNaN'
    <3>1. \A v \in {"ias", "tas"} : Survives(smooth'[v], v, infinite', cut')
      BY <2>1, <2>6, <2>7, <2>8, <2>9
    <3>2. \A i \in 1..NumBalls, v \in {"ias", "tas"} : Survives(raw'[i][v], v, infinite', cut')
      BY <2>8, <2>12
    <3> QED BY <3>1, <3>2 DEF SpeedsSurviveNaN, Survives
  <2>14. raw' \in [1..NumBalls -> Ball]
    BY <2>1, <2>3, <2>10, <2>11
  <2> QED BY <2>1, <2>10, <2>13, <2>14
<1>6. rate' = Rate(filter') /\ rate' \in {"number", "NaN", "startup"}
  BY <1>3, RateType DEF Update
<1>7. TypeOK'
  <2>1. /\ UNCHANGED <<vsi, factor, upc, balls, cross>> /\ age' = 0 /\ setBack' = FALSE
        /\ valid' \in BOOLEAN
    BY DEF Update, picture, settings
  <2>2. infinite' \subseteq {"ias", "tas"} /\ cut' \subseteq infinite'
    <3>1. infinite \subseteq {"ias", "tas"} /\ cut \subseteq infinite
      BY DEF IInv, TypeOK
    <3> QED BY <3>1 DEF Update
  <2>3. 0 \in (-MaxBack)..Expiry
    BY ExpiryAssumption, BackAssumption
  <2> QED
    BY <1>1, <1>3, <1>4, <1>5, <1>6, <2>1, <2>2, <2>3 DEF IInv, TypeOK
<1>8. Window'
  <2>1. CASE altitude # "number"
    BY <1>1, <1>3, <1>4, <2>1 DEF Window
  <2>2. CASE altitude = "number" /\ vsi # Len(filter)
    <3>1. clean' = 1 /\ filter'[vsi] = "number"
      BY <1>2, <1>3, <1>4, <2>2
    <3>2. \A i \in 1..vsi : i > vsi - 1 => i = vsi
      BY <1>1
    <3> QED
      BY <1>1, <1>3, <3>1, <3>2 DEF Window
  <2>3. CASE altitude = "number" /\ vsi = Len(filter)
    <3>1. clean <= vsi /\ \A i \in 1..vsi : i > vsi - clean => f[i] = "number"
      BY <1>1, <2>3 DEF IInv, Window
    <3>2. clean' <= vsi /\ clean' <= clean + 1
      BY <1>1, <1>4, <2>3, <3>1
    <3>3. ASSUME NEW i \in 1..vsi, i > vsi - clean' PROVE filter'[i] = "number"
      <4>1. CASE i = vsi
        BY <1>2, <1>3, <2>3, <4>1
      <4>2. CASE i # vsi
        <5> DEFINE after == clean'
        <5>1. vsi \in Nat /\ clean \in Nat /\ after \in Nat /\ after <= clean + 1 /\ i > vsi - after
          BY <1>1, <1>4, <3>2, <3>3
        <5> HIDE DEF after
        <5>2. i \in 1..(vsi - 1) /\ i + 1 \in 1..vsi /\ i + 1 > vsi - clean
          BY ONLY <3>3, <4>2, <5>1
        <5> QED
          BY <1>3, <3>1, <5>2
      <4> QED
        BY <4>1, <4>2
    <3> QED
      BY <1>3, <3>2, <3>3 DEF Window
  <2> QED
    BY <2>1, <2>2, <2>3
<1> QED
  BY <1>5, <1>6, <1>7, <1>8 DEF IInv, RateIsFilters

\* Everything else leaves the data alone.
LEMMA OthersKeepIInv ==
  ASSUME IInv,
         \/ UNCHANGED vars \/ Paint \/ Tick \/ SetClockBack
         \/ (\E size \in FilterSizes : SetVsiTimeConstant(size)) \/ SetBallTimeConstant
  PROVE  IInv'
<1>1. /\ UNCHANGED <<smooth, raw, filter, rate, valid, clean, infinite, cut>>
      /\ vsi' \in FilterSizes /\ factor' \in {"zero", "part"}
      /\ upc' \in {"events", "balls", "cross"}
  BY DEF vars, data, settings, Paint, BeginPaint, PaintBalls, PaintCross, Tick, SetClockBack,
         SetVsiTimeConstant, SetBallTimeConstant, IInv, TypeOK
<1>2. age' \in (-MaxBack)..Expiry
  <2>1. CASE Tick
    BY <2>1, ExpiryAssumption, BackAssumption DEF Tick, IInv, TypeOK
  <2>2. CASE SetClockBack
    BY <2>2, ExpiryAssumption, BackAssumption DEF SetClockBack, IInv, TypeOK
  <2>3. CASE ~Tick /\ ~SetClockBack
    BY <2>3 DEF vars, clock, Paint, BeginPaint, PaintBalls, PaintCross, SetVsiTimeConstant, SetBallTimeConstant,
                IInv, TypeOK
  <2> QED
    BY <2>1, <2>2, <2>3
<1>3. setBack' \in BOOLEAN /\ balls' \in BOOLEAN /\ cross' \in BOOLEAN
  BY DEF vars, clock, picture, Paint, BeginPaint, PaintBalls, PaintCross, Tick, SetClockBack,
         SetVsiTimeConstant, SetBallTimeConstant, Valid, IInv, TypeOK
<1>4. TypeOK'
  BY <1>1, <1>2, <1>3 DEF IInv, TypeOK
<1>5. SpeedsSurviveNaN' /\ Window' /\ RateIsFilters'
  BY <1>1 DEF IInv, SpeedsSurviveNaN, Window, RateIsFilters, Rate
<1> QED
  BY <1>4, <1>5 DEF IInv

\* Every step keeps the invariant.
LEMMA NextPreservesIInv == IInv /\ [Next]_vars => IInv'
BY UpdateKeepsIInv, OthersKeepIInv DEF Next

\* The invariant holds throughout.
LEMMA Invariance == Spec => []IInv
BY InitEstablishesIInv, NextPreservesIInv, PTL DEF Spec

-----------------------------------------------------------------------------
\* The variables of the air data keep their types.
THEOREM TypeCorrectness == Spec => []TypeOK
<1>1. IInv => TypeOK
  BY DEF IInv
<1> QED
  BY <1>1, Invariance, PTL

\* No sample, whatever it lacks, puts NaN into a speed of the smoothed ball or of the
\* trail; an infinite one stays, and is NaN after a time constant of zero only
\* (Airdata.cpp:23-73).
THEOREM SpeedsAlwaysSurviveNaN == Spec => []SpeedsSurviveNaN
<1>1. IInv => SpeedsSurviveNaN
  BY DEF IInv
<1> QED
  BY <1>1, Invariance, PTL

\* A filter's length after a sample without an altitude, or after a change of the
\* filter's length, the climb rate is computed from measured values alone
\* (Airdata.cpp:76-79, LinearRateFilter).
THEOREM RateAlwaysRecovers == Spec => []RateRecovers
<1>1. IInv => RateRecovers
  <2> SUFFICES ASSUME IInv, clean >= Len(filter), Len(filter) > 1 PROVE rate = "number"
    BY DEF RateRecovers
  <2>1. filter \in Seq({"zero", "number", "-inf", "NaN"}) /\ Len(filter) \in Nat /\ clean \in Nat
    BY DEF IInv, TypeOK
  <2>2. \A i \in 1..Len(filter) : filter[i] = "number"
    BY <2>1 DEF IInv, Window
  <2> QED
    BY <2>1, <2>2, RateType DEF IInv, RateIsFilters
<1> QED
  BY <1>1, Invariance, PTL
=============================================================================
