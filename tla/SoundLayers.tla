----------------------------- MODULE SoundLayers -----------------------------
(* The layers of a sound scheme (sound_mixer/{sine,pwm,balance}_layer.cpp) as *)
(* the server thread applies them, and the schemes (sound_scheme/*.cpp) whose *)
(* update() changes them from the UI thread, one locked call after the other. *)
(*                                                                            *)
(* Of the sound the model keeps which frame of its cycle the tone is at and   *)
(* the gains it is multiplied with.  A gain of 1.0 is Full; angles are whole  *)
(* numbers, NaN is no number, and a pitch is rounded to an octave.            *)
EXTENDS Integers, Sequences

CONSTANTS
    Frames,                 \* actual_period_size_
    Modulus,                \* 2^64, where snd_pcm_uframes_t wraps
    Rate,                   \* actual_rate_
    Full,                   \* a gain of 1.0
    NaN,
    CastOfNone,             \* a build's cast of a negative double or NaN to unsigned
    Ramp, PeriodDefault,    \* kPeriodRamp, kPeriodDefault in frames
    ToneFast, ToneSlow,     \* kToneFrequencyFast, kToneFrequencySlow
    FastLDMax, FastOnspeed, \* kPwmFrequencyFast...
    SlowOnspeed, SlowStall, \* kPwmFrequencySlow...
    StallWarning,           \* kPwmFrequencyStallWarning
    Tolerance,              \* kAlphaRefToleranceFactor, in hundredths
    AlphaMinTone, Octaves,  \* kFrequencyAlphaMin, kOctavesMinToMax
    OnOffBase,              \* kPwmOnOffPeriodBase in frames
    PwmMin, PwmMax,         \* kPwmFrequencyAlphaMin, kPwmFrequencyAlphaMax
    Amplification,          \* kBetaAmplificationFactor
    Settings,               \* alpha_min, alpha_y, alpha_ref, alpha_stall_warning,
                            \* alpha_stall, beta_full_scale, volume (of Full)
    Airs,                   \* the samples: alpha, and beta with beta_bias added
    MaxSamples              \* bound: samples that differ from the one before

Positive == Nat \ {0}
ASSUME FramesAssumption == Frames \in Positive /\ Modulus \in Positive /\ Frames < Modulus
ASSUME RateAssumption ==
    /\ {Rate, ToneFast, ToneSlow, FastLDMax, FastOnspeed, SlowOnspeed, SlowStall,
        StallWarning, AlphaMinTone, PwmMin, PwmMax, Amplification} \subseteq Positive
    /\ {Ramp, PeriodDefault, Tolerance, Octaves, OnOffBase, CastOfNone} \subseteq Nat
    /\ Full \in Positive
ASSUME AirAssumption ==
    /\ NaN \notin Int
    /\ Airs \subseteq [alpha : Int \cup {NaN}, beta : Int \cup {NaN}]
    /\ MaxSamples \in Nat

\* The angles are in the order that their names ask for, as far as update()
\* divides by their differences.  Nothing in the program sees to it.
ASSUME SettingsAssumption ==
    \A s \in Settings :
        /\ {s.alpha_min, s.alpha_y, s.alpha_ref, s.alpha_stall_warning, s.alpha_stall}
                \subseteq Int
        /\ s.alpha_min < s.alpha_stall /\ s.alpha_ref < s.alpha_stall
        /\ s.beta_full_scale \in Positive
        /\ s.volume \in 0..Full

VARIABLES
    tone, pwm, balance,     \* tone_, pwm_ and balance_ of the scheme
    apc, i,                 \* the layer the server thread holds or comes to, and
                            \* the frame of the buffer it is at
    installed,              \* the scheme that is installed
    settings, air, samples, \* what update() reads, how often it changed
    calls                   \* the calls this update() has yet to make

layerVars == <<tone, pwm, balance>>
input == <<installed, settings, air, samples>>
layersVars == <<layerVars, apc, i, input, calls>>

-----------------------------------------------------------------------------
(* What the layers are. *)

Larger(a, b) == IF a < b THEN b ELSE a
Smaller(a, b) == IF b < a THEN b ELSE a

ToneCycle(period) == [period |-> Larger(1, period)]

\* make_adjusted_parameters(), of on <= period: no scheme asks for more.
PwmCycle(period, on, fade) ==
    [period |-> Larger(1, period),
     on |-> Smaller(on, period),
     fade |-> Smaller(fade, Smaller((period - on) \div 2, on))]

\* What the constructors of the layers make.
Oscillating(cycle) == [cycle |-> cycle, pos |-> 0, changing |-> FALSE, next |-> cycle]

\* set_period(), set_parameters()
Told(layer, cycle) == [layer EXCEPT !.changing = TRUE, !.next = cycle]

\* Mutant: a change is made as soon as it is seen.
FrameAtOnce(layer, n) ==
    IF layer.changing
      THEN [layer EXCEPT !.cycle = layer.next, !.changing = FALSE,
                         !.pos = (Modulus - n) % Modulus]
      ELSE layer

\* The body of the loops in apply(), up to the sample: a change is made where
\* a cycle begins, and that frame is the first of the new cycle.
Frame(layer, n) ==
    IF ((n + layer.pos) % Modulus) % layer.cycle.period = 0 /\ layer.changing
      THEN [layer EXCEPT !.cycle = layer.next, !.changing = FALSE,
                         !.pos = (Modulus - n) % Modulus]
      ELSE layer

\* Mutant: the position is kept for the next buffer as it is.
EndedWhereItWas(layer) == layer

\* The end of apply().
Ended(layer) ==
    [layer EXCEPT !.pos = ((layer.pos + Frames) % Modulus) % layer.cycle.period]

\* pwm_layer::factor(), in parts of the fade; without one, in parts of 1.
Factor(cycle, k) ==
    LET out == cycle.fade - (k - cycle.on)
        in == cycle.fade - (cycle.period - k)
    IN  IF k < cycle.on THEN Larger(1, cycle.fade) ELSE Larger(0, Larger(in, out))

\* valid_gain()
ValidGain(x) == Larger(0, Smaller(Full, x))

Magnitude(x) == IF x < 0 THEN -x ELSE x

\* gain_step_per_sample_; 1.0 / 0 is larger than any difference.
GainStep(ramp) == IF ramp = 0 THEN Full + 1 ELSE Full \div ramp

\* step_gain_to_goal()
StepGain(current, goal) ==
    IF Magnitude(goal - current) < balance.step THEN goal
    ELSE IF goal < current THEN current - balance.step ELSE current + balance.step

-----------------------------------------------------------------------------
(* What the schemes ask for: each update() is a sequence of calls. *)

SetGains(left, right) ==
    [layer |-> "balance", call |-> "gains", left |-> ValidGain(left), right |-> ValidGain(right)]
SetRampPeriod(ramp) == [layer |-> "balance", call |-> "ramp", ramp |-> ramp]
SetPeriod(period) == [layer |-> "tone", cycle |-> ToneCycle(period)]
SetParameters(period, on, fade) == [layer |-> "pwm", cycle |-> PwmCycle(period, on, fade)]

\* Comparing with NaN is false.
Less(x, y) == x # NaN /\ x < y

\* sound_mixer::frequency_to_period(), of the frequency num/den.
FrequencyToPeriod(num, den) ==
    IF num <= 0 THEN CastOfNone ELSE (Rate * den) \div num

\* Mutant: there is no tolerance around alpha_ref.
ExactRegime(alpha) ==
    LET s == settings
    IN  IF alpha = NaN THEN "STALL_WARNING"
        ELSE IF alpha < s.alpha_y THEN "CRUISE"
        ELSE IF alpha <= s.alpha_ref THEN "FAST"
        ELSE IF alpha < s.alpha_stall_warning THEN "SLOW"
        ELSE "STALL_WARNING"

\* calculate_regime(), of which NaN is the last
CalculateRegime(alpha) ==
    LET s == settings
        tolerance == Tolerance * (s.alpha_stall - s.alpha_ref)
    IN  IF alpha = NaN THEN "STALL_WARNING"
        ELSE IF alpha < s.alpha_y THEN "CRUISE"
        ELSE IF 100 * alpha < 100 * s.alpha_ref - tolerance THEN "FAST"
        ELSE IF 100 * alpha < 100 * s.alpha_ref + tolerance THEN "ONSPEED"
        ELSE IF alpha < s.alpha_stall_warning THEN "SLOW"
        ELSE "STALL_WARNING"

\* frequency_to_period(interpolate(..)), between two different angles
Interpolated(y0, y1, x0, x1, x) ==
    FrequencyToPeriod(y0 * (x1 - x0) + (x - x0) * (y1 - y0), x1 - x0)

\* A gain of volume * min(1.0, (num / den + 1.0) / 2.0); min() of NaN is 1.0.
Gain(num, den) ==
    IF num = NaN THEN settings.volume
    ELSE Smaller(settings.volume, (settings.volume * (num + den)) \div (2 * den))

Negated(x) == IF x = NaN THEN NaN ELSE -x

\* flyonspeed_scheme::update()
FlyOnSpeed ==
    LET s == settings
        regime == CalculateRegime(air.alpha)
        pitch == IF regime \in {"FAST", "ONSPEED"} THEN ToneFast ELSE ToneSlow
        period ==
            CASE regime = "FAST" ->
                    Interpolated(FastLDMax, FastOnspeed, s.alpha_y, s.alpha_ref, air.alpha)
              [] regime = "SLOW" ->
                    Interpolated(SlowOnspeed, SlowStall, s.alpha_ref, s.alpha_stall_warning,
                                 air.alpha)
              [] OTHER -> FrequencyToPeriod(StallWarning, 1)
    IN  IF regime = "CRUISE"
          THEN << SetGains(0, 0) >>
          ELSE << SetRampPeriod(Ramp),
                  SetGains(Gain(Negated(air.beta), s.beta_full_scale),
                           Gain(air.beta, s.beta_full_scale)),
                  SetPeriod(FrequencyToPeriod(pitch, 1)),
                  IF regime = "ONSPEED"
                    THEN SetParameters(PeriodDefault, PeriodDefault, 0)
                    ELSE SetParameters(period, period \div 2, Ramp) >>

\* alpha less alpha_min, of the range up to alpha_stall
AboveMin == air.alpha - settings.alpha_min
AngleRange == settings.alpha_stall - settings.alpha_min

\* sound_mixer::octaves_to_period(), a whole number of octaves above the base
OctavesToPeriod(octaves) ==
    IF octaves >= 0 THEN Rate \div (AlphaMinTone * 2^octaves)
    ELSE (Rate * 2^(-octaves)) \div AlphaMinTone

\* A cycle and a buffer after it can be counted without a wrap: rates, angles and
\* what a cast makes of NaN are small beside 2^64.  The lower an angle is below
\* alpha_min, the longer the cycle that stallfence asks for.
ASSUME CountAssumption ==
    /\ \A period \in {Rate, PeriodDefault, CastOfNone} : period + Frames <= Modulus
    /\ \A s \in Settings, a \in Airs :
          a.alpha # NaN /\ a.alpha < s.alpha_min =>
            OctavesToPeriod((Octaves * (a.alpha - s.alpha_min))
                                \div (s.alpha_stall - s.alpha_min)) + Frames <= Modulus

\* Mutant: no room means no sound.
SquareWaveOrNone(period) ==
    IF period \div 2 < OnOffBase THEN SetParameters(period, 0, 0)
    ELSE SetParameters(period, period - OnOffBase, Ramp)

\* The parameters of the square wave for a pwm_period, if there is room for one.
SquareWave(period) ==
    IF period \div 2 < OnOffBase THEN SetParameters(period, period, 0)
    ELSE SetParameters(period, period - OnOffBase, Ramp)

\* beta_ratio, in parts of Full; min(1.0, max(-1.0, NaN)) is -1.0.
BetaRatio ==
    LET s == settings
        above == air.alpha - s.alpha_ref
        ratio ==
            IF air.alpha # NaN /\ above > 0
              THEN (Full * air.beta * Amplification * above)
                        \div (s.beta_full_scale * (s.alpha_stall - s.alpha_ref))
              ELSE (Full * air.beta) \div s.beta_full_scale
    IN  IF air.beta = NaN THEN -Full ELSE Smaller(Full, Larger(-Full, ratio))

\* The gain of the ear that beta_ratio is towards, or away from (-beta_ratio).
FenceGain(towards) ==
    LET s == settings
        width == s.alpha_stall - s.alpha_ref
        above == air.alpha - s.alpha_ref
        part ==     \* in parts of 4 * Full * width
            IF Less(air.alpha, s.alpha_ref) THEN 2 * width * Larger(0, towards)
            ELSE IF Less(air.alpha, s.alpha_stall) THEN width * towards + 2 * Full * above
            ELSE 2 * width * (towards + Full)
    IN  (s.volume * Smaller(4 * Full * width, part)) \div (4 * Full * width)

\* stallfence_scheme::update()
StallFence ==
    LET pitch == IF air.alpha = NaN THEN CastOfNone
                 ELSE OctavesToPeriod((Octaves * AboveMin) \div AngleRange)
        pwm_period == IF air.alpha = NaN THEN CastOfNone
                      ELSE Interpolated(PwmMin, PwmMax, settings.alpha_min,
                                        settings.alpha_stall, air.alpha)
    IN  << SetPeriod(pitch),
           SquareWave(Smaller(pwm_period, FrequencyToPeriod(PwmMin, 1))),
           SetRampPeriod(Ramp),
           SetGains(FenceGain(-BetaRatio), FenceGain(BetaRatio)) >>

-----------------------------------------------------------------------------
\* A scheme is made and installed, and has not been updated yet.
LayersInit ==
    /\ tone = Oscillating(ToneCycle(1))
    /\ pwm = Oscillating(PwmCycle(1, 1, 1))
    /\ balance = [step |-> GainStep(1), goal |-> [left |-> Full, right |-> Full],
                  current |-> [left |-> Full, right |-> Full]]
    /\ apc = "toTone" /\ i = 0
    /\ installed \in {"flyonspeed", "stallfence"}
    /\ settings \in Settings
    /\ air \in Airs
    /\ samples = 0
    /\ calls = <<>>

(* The UI thread. *)

\* An event of the frame: another sample.
NewSample ==
    /\ calls = <<>>
    /\ samples < MaxSamples
    /\ samples' = samples + 1
    /\ air' \in Airs \ {air}
    /\ UNCHANGED <<layerVars, apc, i, installed, settings, calls>>

\* update(): what it asks for follows from the sample it reads.
UpdateScheme ==
    /\ calls = <<>>
    /\ calls' = IF installed = "flyonspeed" THEN FlyOnSpeed ELSE StallFence
    /\ UNCHANGED <<layerVars, apc, i, input>>

\* The calls, each under the mu_ of its layer.
CallTone ==
    /\ calls # <<>> /\ Head(calls).layer = "tone"
    /\ apc # "tone"
    /\ tone' = Told(tone, Head(calls).cycle)
    /\ calls' = Tail(calls)
    /\ UNCHANGED <<pwm, balance, apc, i, input>>

CallPwm ==
    /\ calls # <<>> /\ Head(calls).layer = "pwm"
    /\ apc # "pwm"
    /\ pwm' = Told(pwm, Head(calls).cycle)
    /\ calls' = Tail(calls)
    /\ UNCHANGED <<tone, balance, apc, i, input>>

CallBalance ==
    /\ calls # <<>> /\ Head(calls).layer = "balance"
    /\ apc # "balance"
    /\ LET c == Head(calls)
       IN  balance' = IF c.call = "ramp"
                        THEN [balance EXCEPT !.step = GainStep(c.ramp)]
                        ELSE [balance EXCEPT !.goal = [left |-> c.left, right |-> c.right]]
    /\ calls' = Tail(calls)
    /\ UNCHANGED <<tone, pwm, apc, i, input>>

Call == CallTone \/ CallPwm \/ CallBalance

(* The server thread, sound_mixer::loop(): apply() of each layer. *)

LockTone ==
    /\ apc = "toTone"
    /\ apc' = "tone" /\ i' = 0
    /\ UNCHANGED <<layerVars, input, calls>>

ApplyTone ==
    /\ apc = "tone" /\ i < Frames
    /\ tone' = Frame(tone, i)
    /\ i' = i + 1
    /\ UNCHANGED <<pwm, balance, apc, input, calls>>

UnlockTone ==
    /\ apc = "tone" /\ i = Frames
    /\ tone' = Ended(tone)
    /\ apc' = "toPwm" /\ i' = 0
    /\ UNCHANGED <<pwm, balance, input, calls>>

LockPwm ==
    /\ apc = "toPwm"
    /\ apc' = "pwm" /\ i' = 0
    /\ UNCHANGED <<layerVars, input, calls>>

ApplyPwm ==
    /\ apc = "pwm" /\ i < Frames
    /\ pwm' = Frame(pwm, i)
    /\ i' = i + 1
    /\ UNCHANGED <<tone, balance, apc, input, calls>>

UnlockPwm ==
    /\ apc = "pwm" /\ i = Frames
    /\ pwm' = Ended(pwm)
    /\ apc' = "toBalance" /\ i' = 0
    /\ UNCHANGED <<tone, balance, input, calls>>

LockBalance ==
    /\ apc = "toBalance"
    /\ apc' = "balance" /\ i' = 0
    /\ UNCHANGED <<layerVars, input, calls>>

ApplyBalance ==
    /\ apc = "balance" /\ i < Frames
    /\ balance' = [balance EXCEPT !.current =
                    [left |-> StepGain(balance.current.left, balance.goal.left),
                     right |-> StepGain(balance.current.right, balance.goal.right)]]
    /\ i' = i + 1
    /\ UNCHANGED <<tone, pwm, apc, input, calls>>

UnlockBalance ==
    /\ apc = "balance" /\ i = Frames
    /\ apc' = "toTone" /\ i' = 0
    /\ UNCHANGED <<layerVars, input, calls>>

ApplyLayers == \/ LockTone \/ ApplyTone \/ UnlockTone
               \/ LockPwm \/ ApplyPwm \/ UnlockPwm
               \/ LockBalance \/ ApplyBalance \/ UnlockBalance

LayersNext == NewSample \/ UpdateScheme \/ Call \/ ApplyLayers

(* Threads are scheduled.  The server thread holds a layer for as long as the *)
(* loop over one buffer takes and sleeps in snd_pcm_writei() after the last,  *)
(* so that the UI thread gets each layer in the end (SF).                     *)
LayersFairness ==
    /\ WF_layersVars(ApplyLayers)
    /\ WF_layersVars(UpdateScheme)
    /\ SF_layersVars(Call)

LayersSpec == LayersInit /\ [][LayersNext]_layersVars
FairLayersSpec == LayersSpec /\ LayersFairness

-----------------------------------------------------------------------------
ToneCycles == [period : Positive]
PwmCycles == [period : Positive, on : Nat, fade : Nat]
Gains == [left : 0..Full, right : 0..Full]

\* The types of the variables: gains range from 0 to 1 (balance_layer.h:10).
LayersTypeOK ==
    /\ tone.cycle \in ToneCycles /\ tone.next \in ToneCycles
    /\ pwm.cycle \in PwmCycles /\ pwm.next \in PwmCycles
    /\ \A layer \in {tone, pwm} : layer.pos \in 0..(Modulus - 1) /\ layer.changing \in BOOLEAN
    /\ balance.step \in Nat /\ balance.goal \in Gains /\ balance.current \in Gains
    /\ apc \in {"toTone", "tone", "toPwm", "pwm", "toBalance", "balance"}
    /\ i \in 0..Frames
    /\ installed \in {"flyonspeed", "stallfence"}
    /\ settings \in Settings /\ air \in Airs
    /\ samples \in 0..MaxSamples
    /\ Len(calls) <= 4

\* The frame of its cycle that a layer played last: the one before frame n of
\* this buffer, which is frame 0 if the layer is not being applied.
LastPlayed(layer, n) ==
    (((n + layer.pos) % Modulus) + layer.cycle.period - 1) % layer.cycle.period

TonePhase == LastPlayed(tone, IF apc = "tone" THEN i ELSE 0)
PwmPhase == LastPlayed(pwm, IF apc = "pwm" THEN i ELSE 0)
Coming(layer) == IF layer.changing THEN layer.next ELSE layer.cycle

\* Tone and square wave finish the cycle they are in and begin the next one as
\* they were last told, however the calls fall into the buffers (sine_layer.h:9).
ToneWave == INSTANCE Oscillator
                WITH Cycles <- ToneCycles, cycle <- tone.cycle, phase <- TonePhase,
                     next <- Coming(tone)
SquareWaves == INSTANCE Oscillator
                WITH Cycles <- PwmCycles, cycle <- pwm.cycle, phase <- PwmPhase,
                     next <- Coming(pwm)
CyclesFinish == ToneWave!Spec /\ SquareWaves!Spec

\* A step that moves the gain of the square wave by no more than a step of its fade.
\* A wave without a fade is on all the time, and one that is never on is silence.
Smooth ==
    LET step(c) == Larger(1, c.fade)
        g == Factor(pwm.cycle, PwmPhase) * step(pwm.cycle')
        h == Factor(pwm.cycle', PwmPhase') * step(pwm.cycle)
    IN  pwm.cycle.on > 0 /\ pwm.cycle'.on > 0 =>
            Magnitude(g - h) <= Larger(step(pwm.cycle), step(pwm.cycle'))

\* The gain of the square wave is never moved by more than a step of its fade,
\* also where the parameters change: no click (pwm_layer.h:10-13).
NoClick == [][Smooth]_pwm

\* What is heard: a tone that is not silence, through a square wave that is on
\* at times, in one ear at least.  A sine of two frames is sampled where it is 0
\* (sine_layer.cpp:25-27), as is every other at its first frame: the square wave
\* must be on for more than that one.
Audible ==
    /\ tone.cycle.period > 2
    /\ pwm.cycle.on > 1 \/ pwm.cycle.on = pwm.cycle.period
    /\ balance.current.left + balance.current.right > 0

\* The scheme's tone is one that can be played.  With stallfence the pitch goes on
\* rising beyond alpha_stall, and its cycle falls to two frames and less.
PitchFits == installed = "stallfence" => OctavesToPeriod((Octaves * AboveMin) \div AngleRange) > 2

\* A stall that lasts is heard, with either scheme, at and above alpha_stall, as far
\* as the pitch fits.
StallIsHeard ==
    <>[](/\ air.alpha # NaN /\ air.alpha >= settings.alpha_stall
         /\ settings.volume = Full /\ PitchFits)
        => <>[]Audible

\* With flyonspeed an angle is heard as what it is: below alpha_y nothing, at
\* alpha_ref a steady tone, on either side of it (by more than the tolerance)
\* pulses, and beyond it at a higher pitch.
SoundsRight ==
    LET s == settings
        alpha == air.alpha
        off == 100 * Magnitude(alpha - s.alpha_ref) > Tolerance * (s.alpha_stall - s.alpha_ref)
        steady == pwm.cycle.on = pwm.cycle.period
        high == tone.cycle.period = Rate \div ToneSlow
    IN  alpha # NaN =>
        CASE alpha < s.alpha_y -> balance.current = [left |-> 0, right |-> 0]
          [] s.alpha_y <= alpha /\ alpha = s.alpha_ref -> steady /\ ~high
          [] s.alpha_y <= alpha /\ off /\ alpha < s.alpha_ref -> ~steady /\ ~high
          [] s.alpha_y <= alpha /\ off /\ alpha > s.alpha_ref -> ~steady /\ high
          [] OTHER -> TRUE

\* An angle that lasts sounds right in the end (flyonspeed_scheme.cpp:90-160).
HearsRegime ==
    \A a \in Airs :
        <>[](installed = "flyonspeed" /\ air = a) => <>[]SoundsRight
=============================================================================
