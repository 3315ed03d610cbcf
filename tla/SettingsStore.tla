---------------------------- MODULE SettingsStore ----------------------------
(* The parameters of model/SettingsStore.h: what they begin with, how the     *)
(* knob moves them, and how they are saved to and loaded from a document (the *)
(* settings file, or a Settings datagram).                                    *)
(*                                                                            *)
(* Numbers are in hundredths.  A selection is the index of an option; in a    *)
(* document an index past the last stands for a string that is no option.  A  *)
(* truth value is 0 or 1.  A member that a document does not have is absent.    *)
EXTENDS Integers

CONSTANTS
    Params,                 \* the parameters of this instance
    absent                  \* no value

Numeric(initial, min, max, increment) ==
    [kind |-> "numeric", initial |-> initial, min |-> min, max |-> max,
     increment |-> increment]
Speed(initial) == Numeric(initial, 0, 30000, 100)
Angle(initial) == Numeric(initial, -1000, 3000, 10)
Selection(options, initial) ==
    [kind |-> "selection", initial |-> initial, options |-> options]
no == 0
yes == 1
Bool(initial) == [kind |-> "bool", initial |-> initial]

ALL_PARAMS == [
    IAS_FULL_SCALE |-> Speed(10000),
    V_R |-> Speed(5000),
    V_FE |-> Speed(7500),
    V_NO |-> Speed(10000),
    V_NE |-> Speed(10000),
    ALPHA_STALL |-> Angle(1500),
    ALPHA_STALL_WARNING |-> Angle(1400),
    ALPHA_MIN |-> Angle(-1000),
    ALPHA_MAX |-> Angle(2000),
    ALPHA_X |-> Angle(1200),
    ALPHA_Y |-> Angle(1000),
    ALPHA_REF |-> Angle(1400),
    BETA_FULL_SCALE |-> Numeric(2000, 0, 3000, 500),
    BETA_BIAS |-> Numeric(0, 0, 3000, 10),
    BARO_SETTING |-> Numeric(2992, 2500, 3500, 1),
    BALL_TIME_CONSTANT |-> Numeric(50, 0, 100, 10),
    VSI_TIME_CONSTANT |-> Numeric(100, 10, 500, 10),
    SCREEN_WIDTH |-> Numeric(27200, 27200, 27200, 0),
    SCREEN_HEIGHT |-> Numeric(48000, 48000, 48000, 0),
    SHOW_ALTIMETER |-> Bool(yes),
    SHOW_LINK_STATUS |-> Bool(yes),
    SHOW_PROBE_BATTERY_STATUS |-> Bool(yes),
    DECLUTTER |-> Bool(no),
    SOUND_SCHEME |-> Selection(2, 0),
    AUDIO_VOLUME |-> Numeric(100, 0, 100, 5),
    SPEED_UNITS |-> Selection(2, 0),
    ROTATE_SCREEN |-> Bool(no),
    SCREEN_BRIGHTNESS |-> Numeric(100, 0, 100, 5),
    SHOW_NUMERIC_AIRSPEED |-> Bool(yes),
    Q_CORRECTION_FACTOR |-> Numeric(100, 50, 150, 5)]

\* Settings.cpp: the parameters that the knob reaches.
adjustmentParamsShallow ==
    {"BARO_SETTING", "SCREEN_BRIGHTNESS", "AUDIO_VOLUME", "SHOW_ALTIMETER",
     "SHOW_NUMERIC_AIRSPEED"}
adjustmentParamsDeep ==
    {"IAS_FULL_SCALE", "V_R", "V_FE", "V_NO", "V_NE", "ALPHA_STALL",
     "ALPHA_STALL_WARNING", "ALPHA_MIN", "ALPHA_MAX", "ALPHA_X", "ALPHA_Y",
     "ALPHA_REF", "BETA_FULL_SCALE", "BETA_BIAS", "BALL_TIME_CONSTANT",
     "VSI_TIME_CONSTANT", "DECLUTTER", "SOUND_SCHEME", "SPEED_UNITS",
     "Q_CORRECTION_FACTOR"}
Adjustable == Params \cap (adjustmentParamsShallow \cup adjustmentParamsDeep)

ASSUME ParamsAssumption == Params \subseteq DOMAIN ALL_PARAMS
ASSUME AbsentAssumption == absent \notin Int

\* What TLC checks of the table, and the proofs use: the limits of a number
\* leave room for the value it begins with, a selection has options, and no
\* parameter of a menu has the increment 0 that clamp() would divide by.
ASSUME TableAssumption ==
    \A p \in DOMAIN ALL_PARAMS :
        LET a == ALL_PARAMS[p]
        IN  \/ /\ a.kind = "numeric"
               /\ {a.min, a.max, a.initial, a.increment} \subseteq Int
               /\ a.initial \in a.min..a.max
               /\ a.increment > 0
                    \/ p \notin adjustmentParamsShallow \cup adjustmentParamsDeep
            \/ /\ a.kind = "selection"
               /\ a.options \in Nat \ {0} /\ a.initial \in 0..(a.options - 1)
            \/ a.kind = "bool" /\ a.initial \in {no, yes}

-----------------------------------------------------------------------------
\* The values a parameter can hold; a number that was loaded may be any.
ValuesOf(p) ==
    LET a == ALL_PARAMS[p]
    IN  CASE a.kind = "numeric" -> Int
          [] a.kind = "selection" -> 0..(a.options - 1)
          [] a.kind = "bool" -> {no, yes}

InRange(p, v) ==
    ALL_PARAMS[p].kind = "numeric" => v \in ALL_PARAMS[p].min..ALL_PARAMS[p].max

Stores == {s \in [Params -> Int] : \A p \in Params : s[p] \in ValuesOf(p)}

\* Members of other names are ignored and have no place here.
Documents ==
    {d \in [Params -> Int \cup {absent}] :
        \A p \in Params :
            \/ d[p] \in ValuesOf(p) \cup {absent}
            \/ ALL_PARAMS[p].kind = "selection" /\ d[p] \in Nat}

InitialStore == [p \in Params |-> ALL_PARAMS[p].initial]

\* NumericParameter::clamp(): min first, so that max wins.  Dividing by the
\* increment and multiplying again changes nothing but the last bit.
Clamp(p, v) ==
    LET low == IF v < ALL_PARAMS[p].min THEN ALL_PARAMS[p].min ELSE v
    IN  IF low > ALL_PARAMS[p].max THEN ALL_PARAMS[p].max ELSE low

\* Mutant: an option past the last can be chosen.
IncrementedPast(p, v) ==
    LET a == ALL_PARAMS[p]
    IN  CASE a.kind = "numeric" -> Clamp(p, v + a.increment)
          [] a.kind = "selection" -> IF v < a.options THEN v + 1 ELSE a.options
          [] a.kind = "bool" -> yes

Incremented(p, v) ==
    LET a == ALL_PARAMS[p]
    IN  CASE a.kind = "numeric" -> Clamp(p, v + a.increment)
          [] a.kind = "selection" -> IF v + 1 < a.options THEN v + 1 ELSE a.options - 1
          [] a.kind = "bool" -> yes

Decremented(p, v) ==
    LET a == ALL_PARAMS[p]
    IN  CASE a.kind = "numeric" -> Clamp(p, v - a.increment)
          [] a.kind = "selection" -> IF v > 0 THEN v - 1 ELSE v
          [] a.kind = "bool" -> no

\* loadImpl(): a selection keeps its value if it is told a string it does not
\* know; a number is not clamped.
Taken(p, d) ==
    /\ d[p] # absent
    /\ ALL_PARAMS[p].kind = "selection" => d[p] < ALL_PARAMS[p].options

\* loadFromString(): members a document leaves out leave the store alone.
Load(s, d) == [p \in Params |-> IF Taken(p, d) THEN d[p] ELSE s[p]]

\* saveToString(): all parameters.
Save(s) == [p \in Params |-> s[p]]
=============================================================================
