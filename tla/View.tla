-------------------------------- MODULE View --------------------------------
(* PaintCycle (view/AirballView.cpp): what a frame shows of the settings and  *)
(* the air data, on a cairo context that outlives the frame.  Events change   *)
(* the settings and the data between frames; the data may expire at any time, *)
(* also between the two places of a frame that ask for it.                    *)
(*                                                                            *)
(* A frame is painted in three steps, that end where valid() is asked or the  *)
(* next region begins.  The place of a line or a ball in its region is left   *)
(* out.  Airspeeds are hundredths of the unit that is displayed, altitudes    *)
(* whole feet, climb rates feet per minute.                                   *)
EXTENDS SettingsStore, Canvas

CONSTANTS
    AltimeterHeight,        \* altimeterHeight_ when the altimeter is shown, in cells
    DisplayMargin,          \* displayMargin_, in cells
    NumBalls,               \* kNumBalls
    NaN,
    CastsOfNaN,             \* what a build may make of (int) round(NaN)
    Airs,                   \* the air data that samples lead to
    Docs,                   \* the documents that are loaded
    Knob                    \* bound: the parameters that the knob is turned for

ASSUME LayoutAssumption ==
    /\ DisplayMargin \in Nat /\ AltimeterHeight \in Nat
    /\ 2 * DisplayMargin < AltimeterHeight /\ AltimeterHeight < Height
    /\ NumBalls \in Nat \ {0}
ASSUME ViewAssumption ==
    /\ {"IAS_FULL_SCALE", "V_R", "V_FE", "V_NO", "V_NE", "SHOW_ALTIMETER", "DECLUTTER",
        "ROTATE_SCREEN", "SCREEN_BRIGHTNESS", "SHOW_NUMERIC_AIRSPEED"} \subseteq Params
    /\ Docs \subseteq Documents
    /\ Knob \subseteq Adjustable
    /\ NaN \notin Int
    /\ CastsOfNaN \subseteq Int /\ CastsOfNaN # {}
    /\ Airs \subseteq [ias : Nat, tas : Nat, altitude : Int \cup {NaN}, climb : Int \cup {NaN}]

VARIABLES
    store, adjusting,       \* the settings, adjusting()
    air, live,              \* the air data; valid() would be TRUE if asked now
    setBack,                \* history: the clock was set back since the frame began
    upc,                    \* the UI thread: events, altimeter, data, flushed
    cr,                     \* screen_->cr() and what the surface shows
    wasTurned,              \* history: some frame was painted turned
    brightness              \* what the screen was told, of 255

input == <<store, adjusting, air>>
screen == <<cr, wasTurned, brightness>>
data == <<live, setBack>>
vars == <<input, data, upc, screen>>

-----------------------------------------------------------------------------
(* What a frame asks of the settings. *)

ias_full_scale == store["IAS_FULL_SCALE"]
v_r == store["V_R"]
v_fe == store["V_FE"]
v_no == store["V_NO"]
v_ne == store["V_NE"]
declutter == store["DECLUTTER"] = yes
show_altimeter == store["SHOW_ALTIMETER"] = yes
show_numeric_airspeed == store["SHOW_NUMERIC_AIRSPEED"] = yes
rotate_screen == store["ROTATE_SCREEN"] = yes
screen_brightness == store["SCREEN_BRIGHTNESS"]

\* layout(): the two regions of the panel.
airballHeight == Height - (IF show_altimeter THEN AltimeterHeight ELSE 0)
AirballRegion == Area(0, 0, Width, airballHeight)
VsiRegion ==
    Area(0, airballHeight + DisplayMargin, Width, AltimeterHeight - 2 * DisplayMargin)

Abs(x) == IF x < 0 THEN -x ELSE x
Within(low, high, x) == IF x < low THEN low ELSE IF x > high THEN high ELSE x

\* Mutant: a brightness that was loaded is not looked at.
BrightnessAsTold(value) == (value * 255) \div 100

\* ST7789VIScreen::setBrightness()
setBrightness(value) == (Within(0, 100, value) * 255) \div 100

-----------------------------------------------------------------------------
(* The pictures. *)

When(condition, picture) == IF condition THEN picture ELSE <<>>

paintBackground == rectangle("background", Area(0, 0, Width, Height))

paintRawAirballs == discs(NumBalls, "raw ball")

\* radius < lowSpeedThresholdAirballRadius_: a scale of 0 makes the radius
\* infinite, or no number, and less than nothing.
LowAirspeed ==
    \/ ias_full_scale > 0 /\ 20 * air.ias < ias_full_scale
    \/ ias_full_scale < 0 /\ 20 * air.ias > ias_full_scale

paintAirballLowAirspeed == arc("ball")

paintAirballAirspeed ==
    disc("ball") \o lines(2, "crosshairs")
        \o When(show_numeric_airspeed,
                lines(2, "crosshairs") \o round_rectangle("airspeed")
                    \o draw_text("airspeed", "ias"))

paintAirballAirspeedLimitsRotate == When(v_r # 0, lines(8, "v_r"))

\* Each limit twice: on a wider stroke of the background's colour.
Limit(v, what) == When(v > 0, rosette(4, "background") \o rosette(4, what))

paintAirballAirspeedLimitsNormal ==
    Limit(v_fe, "v_fe") \o Limit(v_no, "v_no") \o Limit(v_ne, "v_ne")

paintAirballAirspeedLimits ==
    IF air.ias < v_r THEN paintAirballAirspeedLimitsRotate
                     ELSE paintAirballAirspeedLimitsNormal

\* Drawn with alpha 0 where there is nothing to show.
paintAirballTrueAirspeed ==
    rosette(4, IF air.tas > air.ias /\ air.ias # 0 THEN "tas" ELSE "transparent")

paintSmoothAirball ==
    IF LowAirspeed
      THEN paintAirballLowAirspeed
      ELSE paintAirballAirspeed \o paintAirballTrueAirspeed \o paintAirballAirspeedLimits

paintTotemPoleLine ==
    IF declutter THEN line("pole")
                 ELSE lines(2, "pole") \o arc("alpha_ref") \o arc("alpha_ref")
paintTotemPoleAlphaX == When(~declutter, lines(4, "alpha_x"))
paintTotemPoleAlphaY == When(~declutter, lines(4, "alpha_y"))
paintTotemPole == paintTotemPoleLine \o paintTotemPoleAlphaX \o paintTotemPoleAlphaY

\* numCowCatcherLines_ to each side, and one between them.
paintCowCatcher == When(~declutter, lines(4 + 4 + 1, "alpha_stall"))
paintUnitsAnnotation == draw_text("units", show_altimeter)
paintAdjusting ==
    When(adjusting, panel("adjusting") \o draw_text("adjusting", "name") \o draw_text("adjusting", "value"))

\* Mutant: the sign goes with the thousands.
ThousandsSigned(altitude) ==
    LET thousands == Abs(altitude) \div 1000
    IN  [minus |-> altitude < 0 /\ thousands # 0, number |-> thousands]

\* Without thousands the text is the sign alone, or empty.
Thousands(altitude) == [minus |-> altitude < 0, number |-> Abs(altitude) \div 1000]
LastThreeDigits(altitude) ==
    ((Abs(altitude) - 1000 * (Abs(altitude) \div 1000)) \div 10) * 10

\* Of an altitude that is no number the cast may make anything.
paintAltitude(altitude) ==
    draw_text("thousands", Thousands(altitude))
        \o draw_text("last three digits", LastThreeDigits(altitude))

\* fmin() and fmax() take the number of a number and NaN, so that NaN shows as
\* the fastest climb.  A steep pointer is bent where it meets the border.
paintVsiPointer ==
    LET climb_rate == IF air.climb = NaN THEN 3000 ELSE Within(-3000, 3000, air.climb)
        towards == IF climb_rate > 0 THEN "pointer up"
                   ELSE IF climb_rate < 0 THEN "pointer down" ELSE "pointer level"
    IN  lines(IF Abs(climb_rate) > 500 THEN 2 ELSE 1, towards)

\* Five of the frame, two for each of the vsiStepsFpm_.
paintVsiTicMarks == lines(5 + 2 * 5, "tic")
paintBaroSetting == draw_text("baro", "baro_setting")
paintVsi(altitude) ==
    rectangle("vsi", VsiRegion)
        \o paintVsiTicMarks \o paintVsiPointer \o paintAltitude(altitude) \o paintBaroSetting

paintNoFlightData == diagonals("no data", Area(0, 0, Width, Height))

-----------------------------------------------------------------------------
Init ==
    /\ store = InitialStore
    /\ adjusting = FALSE
    /\ air = [ias |-> 0, tas |-> 0, altitude |-> 0, climb |-> 0]
    /\ live = FALSE /\ setBack = FALSE
    /\ upc = "events"
    /\ cr = Context
    /\ wasTurned = FALSE
    /\ brightness = 0

\* The events between two frames: a sample, a document, the knob.
Update ==
    /\ upc = "events"
    /\ air' \in Airs
    /\ live' = TRUE
    /\ UNCHANGED <<store, adjusting, setBack, upc, screen>>

LoadDocument ==
    /\ upc = "events"
    /\ \E d \in Docs : store' = Load(store, d)
    /\ UNCHANGED <<adjusting, air, data, upc, screen>>

Adjust ==
    /\ upc = "events"
    /\ \E p \in Knob :
        store' \in {[store EXCEPT ![p] = Incremented(p, @)],
                    [store EXCEPT ![p] = Decremented(p, @)]}
    /\ adjusting' = TRUE
    /\ UNCHANGED <<air, data, upc, screen>>

StopAdjusting ==
    /\ upc = "events"
    /\ adjusting
    /\ adjusting' = FALSE
    /\ UNCHANGED <<store, air, data, upc, screen>>

\* Time passes, whatever the UI thread is at.
Expire ==
    /\ live
    /\ live' = FALSE
    /\ UNCHANGED <<input, setBack, upc, screen>>

\* The system clock is set back, and a sample that had expired is new again.
SetClockBack ==
    /\ ~live
    /\ live' = TRUE
    /\ setBack' = (upc # "events")
    /\ UNCHANGED <<input, upc, screen>>

\* Mutant: what was saved is not restored.
ClippedForGood(g, region, picture) ==
    Drawn(clip(rectangle_to(g, region)), picture)

\* Mutant: the region is not clipped.
Unclipped(g, region, picture) == Drawn(new_path(rectangle_to(g, region)), picture)

\* From the rectangle that is clipped to the restore.
Clipped(g, region, picture) ==
    restore(Drawn(clip(rectangle_to(g, region)), picture))

\* paint(), up to the first cairo_restore().  The turn comes before the save,
\* and nothing takes it back.
PaintAirball ==
    /\ upc = "events"
    /\ upc' = "altimeter"
    /\ brightness' = setBrightness(screen_brightness)
    /\ wasTurned' = (wasTurned \/ rotate_screen)
    /\ LET turned == IF rotate_screen THEN turn(cr) ELSE cr
       IN  cr' = Clipped(Drawn(save(turned), paintBackground), AirballRegion,
                    When(live, paintRawAirballs \o paintSmoothAirball)
                        \o paintTotemPole \o paintCowCatcher
                        \o paintUnitsAnnotation \o paintAdjusting)
    /\ setBack' = FALSE
    /\ UNCHANGED <<input, live>>

PaintAltimeter ==
    /\ upc = "altimeter"
    /\ upc' = "data"
    /\ \E altitude \in IF air.altitude = NaN THEN CastsOfNaN ELSE {air.altitude} :
        cr' = IF show_altimeter THEN Clipped(save(cr), VsiRegion, paintVsi(altitude))
                                ELSE cr
    /\ UNCHANGED <<input, data, wasTurned, brightness>>

\* Mutant: the cross is left to frames without an altimeter.
PaintNoFlightDataBelow ==
    /\ upc = "data"
    /\ upc' = "flushed"
    /\ cr' = IF live \/ show_altimeter THEN cr ELSE Drawn(cr, paintNoFlightData)
    /\ UNCHANGED <<input, data, wasTurned, brightness>>

\* The rest of paint(), with the flush at its end.
PaintNoFlightData ==
    /\ upc = "data"
    /\ upc' = "flushed"
    /\ cr' = IF live THEN cr ELSE Drawn(cr, paintNoFlightData)
    /\ UNCHANGED <<input, data, wasTurned, brightness>>

\* The flush of Application::run(), that shows the frame once more.
Flush ==
    /\ upc = "flushed"
    /\ upc' = "events"
    /\ cr' = [cr EXCEPT !.marks = <<>>]
    /\ UNCHANGED <<input, data, wasTurned, brightness>>

Next ==
    \/ Update \/ LoadDocument \/ Adjust \/ StopAdjusting
    \/ PaintAirball \/ PaintAltimeter \/ PaintNoFlightData \/ Flush
    \/ Expire \/ SetClockBack

Spec == Init /\ [][Next]_vars

-----------------------------------------------------------------------------
(* Correctness. *)

MarksOf(kinds) == {k \in DOMAIN cr.marks : cr.marks[k].what \in kinds}
InAirballRegion ==
    {"raw ball", "ball", "crosshairs", "airspeed", "v_r", "v_fe", "v_no", "v_ne", "tas",
     "transparent", "pole", "alpha_ref", "alpha_x", "alpha_y", "alpha_stall", "units",
     "adjusting"}
InVsiRegion ==
    {"vsi", "tic", "pointer up", "pointer down", "pointer level", "thousands",
     "last three digits", "baro"}

\* The state is of its types; what the screen is told fits the byte it is sent
\* in, whatever was loaded; and from one part of a frame to the next, or to the
\* next frame, no clip is left in force and no save without its restore.
ScreenTypeOK ==
    /\ store \in Stores /\ adjusting \in BOOLEAN
    /\ air \in [ias : Nat, tas : Nat, altitude : Int \cup {NaN}, climb : Int \cup {NaN}]
    /\ live \in BOOLEAN /\ setBack \in BOOLEAN
    /\ upc \in {"events", "altimeter", "data", "flushed"}
    /\ cr.turns \in 0..3 /\ cr.clip = Panel /\ cr.saved = <<>>
    /\ wasTurned \in BOOLEAN
    /\ brightness \in 0..255

\* A frame paints over every cell that the frame before has left, as long as
\* no frame was turned: no clip of an earlier frame is still in force.
RepaintsPanel ==
    upc = "flushed" /\ ~wasTurned =>
        cr.marks[1].what = "background" /\ cr.marks[1].cells = Panel

\* The balls and the pole stay above the altimeter and the altimeter's parts in
\* its own region, turned or not, however the altimeter is switched on and off.
InItsPlace ==
    upc = "flushed" =>
        /\ \A k \in MarksOf(InAirballRegion) :
            cr.marks[k].cells \subseteq Turned(AirballRegion, cr.turns)
        /\ \A k \in MarksOf(InVsiRegion) :
            cr.marks[k].cells \subseteq Turned(VsiRegion, cr.turns)

\* The lines of the cross run from corner to corner of the panel, nothing clips
\* them, and nothing is drawn over them.
CrossedOut ==
    LET mark == Last(cr.marks)
    IN  /\ mark.what = "no data" /\ mark.number = 2
        /\ mark.place = Panel /\ mark.cells = Panel

\* A frame that paints no ball is crossed out, also when the data expires while it
\* is painted; but not when the clock is set back then, and not when the frame is
\* turned, where the lines miss a part of a panel that is not a square.  (A ball
\* that is painted need not be seen: it has no place when an angle is NaN.)
NoDataShows ==
    upc = "flushed" /\ ~setBack /\ cr.turns = 0 =>
        MarksOf({"ball"}) # {} \/ CrossedOut

\* No ring or arc is joined by a line to the text that was drawn before it, in
\* this frame or in the one before.
StrokesStartFresh == \A k \in DOMAIN cr.marks : ~cr.marks[k].joined

\* What the altimeter shows is the altitude, cut to tens of feet towards zero,
\* with its sign; the pointer is on the side of the climb.
ReadsBack ==
    upc = "flushed" =>
        /\ air.altitude # NaN =>
            \A k \in MarksOf({"thousands"}), l \in MarksOf({"last three digits"}) :
                LET thousands == cr.marks[k].says
                    feet == 1000 * thousands.number + cr.marks[l].says
                IN  /\ thousands.minus <=> air.altitude < 0
                    /\ feet <= Abs(air.altitude) /\ Abs(air.altitude) < feet + 10
        /\ air.climb # NaN =>
            /\ air.climb > 0 => MarksOf({"pointer down", "pointer level"}) = {}
            /\ air.climb < 0 => MarksOf({"pointer up", "pointer level"}) = {}
=============================================================================
