----------------------------- MODULE SoundProofs -----------------------------
(* Proofs about the sound: the threads of SoundMixer, for any schemes and     *)
(* however often the setting changes, and the oscillations of SoundLayers,    *)
(* for any angles and settings, any parameters and any size of the buffer.    *)
EXTENDS SoundMixer, SoundLayers, SequenceTheorems, FiniteSetTheorems, TLAPS

-----------------------------------------------------------------------------
(* SoundMixer *)

\* The types of the variables that the argument needs.
Types ==
    /\ mut \in {"free", "server"}
    /\ layers \in Seq([of : Nat, name : {"tone", "pwm", "balance"}])
    /\ todo \in Seq([of : Nat, name : {"tone", "pwm", "balance"}])
    /\ applied \in Seq([of : Nat, name : {"tone", "pwm", "balance"}])
    /\ kind \in Seq(Kinds)
    /\ current \in {None} \cup (DOMAIN kind \ freed)
    /\ freed \subseteq DOMAIN kind
    /\ wanted \in Kinds \cup {Unknown}

\* Where the UI thread has a scheme in its hands, and where it has none.
SchemeKnown ==
    /\ upc \in {"clear", "lastClear", "free", "lastFree", "install"} => current # None
    /\ upc = "make" => current = None
    /\ upc \in {"clear", "free", "make"} => wanted \in Kinds

\* The mixer has the layers of the scheme that there is, and none of them any
\* more when the scheme is freed.
LayersOfScheme ==
    /\ \A k \in 1..Len(layers) : layers[k].of = current /\ current # None
    /\ upc \in {"free", "lastFree"} => layers = <<>>

\* The server thread's loop over the layers has the mutex, and nobody replaces
\* the vector under it.
PassIsLocked ==
    spc = "pass" => mut = "server" /\ applied \o todo = layers

IInv == Types /\ SchemeKnown /\ LayersOfScheme /\ PassIsLocked

-----------------------------------------------------------------------------
\* There is no scheme yet.
LEMMA InitEstablishesIInv == Init => IInv
BY DEF Init, IInv, Types, SchemeKnown, LayersOfScheme, PassIsLocked, None

\* One layer more has been begun: the pass is over the same layers.
LEMMA PassMovesOn ==
  ASSUME NEW S, NEW a \in Seq(S), NEW t \in Seq(S), t # <<>>
  PROVE  /\ Append(a, Head(t)) \in Seq(S) /\ Tail(t) \in Seq(S)
         /\ Append(a, Head(t)) \o Tail(t) = a \o t
<1>1. Head(t) \in S /\ Tail(t) \in Seq(S) /\ t = <<Head(t)>> \o Tail(t)
  <2>1. Head(t) \in S /\ Tail(t) \in Seq(S) /\ Len(t) \in Nat /\ Len(t) > 0
    BY EmptySeq, HeadTailProperties, LenProperties
  <2> QED
    BY <2>1, HeadTailProperties
<1>2. Append(a, Head(t)) = a \o <<Head(t)>>
  BY <1>1, AppendIsConcat
<1>3. (a \o <<Head(t)>>) \o Tail(t) = a \o (<<Head(t)>> \o Tail(t))
  BY <1>1, ConcatAssociative
<1> QED
  BY <1>1, <1>2, <1>3, AppendProperties

\* The server thread.
LEMMA ServerKeepsIInv ==
  ASSUME IInv, Server
  PROVE  IInv'
<1> USE DEF scheme
<1>1. CASE Wait \/ Awake \/ EndPass \/ Write
  <2>1. /\ spc' # "pass"
        /\ mut' \in {"free", "server"}
        /\ UNCHANGED <<layers, todo, applied, upc, scheme>>
    BY <1>1 DEF Wait, Awake, EndPass, Write, IInv, Types
  <2> QED
    BY <2>1 DEF IInv, Types, SchemeKnown, LayersOfScheme, PassIsLocked
<1>2. CASE BeginPass
  <2>1. applied' = <<>> /\ UNCHANGED <<layers, upc, scheme>>
    BY <1>2 DEF BeginPass
  <2>2. /\ todo' \in {todo, layers} /\ mut' \in {"free", "server"}
        /\ spc' = "pass" => todo' = layers /\ mut' = "server"
    BY <1>2 DEF BeginPass, IInv, Types
  <2>3. <<>> \o layers = layers
    BY ConcatEmptySeq DEF IInv, Types
  <2>4. Types'
    BY <2>1, <2>2 DEF IInv, Types
  <2>5. SchemeKnown' /\ LayersOfScheme' /\ PassIsLocked'
    BY <2>1, <2>2, <2>3 DEF IInv, SchemeKnown, LayersOfScheme, PassIsLocked
  <2> QED
    BY <2>4, <2>5 DEF IInv
<1>3. CASE Apply
  <2>1. /\ todo # <<>> /\ applied' = Append(applied, Head(todo)) /\ todo' = Tail(todo)
        /\ UNCHANGED <<mut, layers, spc, upc, scheme>>
    BY <1>3 DEF Apply
  <2>2. /\ applied' \in Seq([of : Nat, name : {"tone", "pwm", "balance"}])
        /\ todo' \in Seq([of : Nat, name : {"tone", "pwm", "balance"}])
        /\ applied' \o todo' = applied \o todo
    BY <2>1, PassMovesOn DEF IInv, Types
  <2>3. Types'
    BY <2>1, <2>2 DEF IInv, Types
  <2>4. SchemeKnown' /\ LayersOfScheme' /\ PassIsLocked'
    BY <2>1, <2>2 DEF IInv, SchemeKnown, LayersOfScheme, PassIsLocked
  <2> QED
    BY <2>3, <2>4 DEF IInv
<1> QED
  BY <1>1, <1>2, <1>3 DEF Server

\* The steps of the UI thread that replace layers or schemes.
LEMMA SchemeKeepsIInv ==
  ASSUME IInv, Clear \/ Free \/ Make \/ Install \/ Update \/ Remove
  PROVE  IInv'
<1> USE DEF server, scheme
<1>1. CASE Clear
  <2>1. /\ upc \in {"clear", "lastClear"} /\ mut = "free" /\ layers' = <<>>
        /\ upc' \in {"free", "lastFree"} /\ (upc' = "free" => upc = "clear")
        /\ UNCHANGED <<mut, server, scheme>>
    BY <1>1 DEF Clear
  <2>2. Types'
    BY <2>1 DEF IInv, Types
  <2>3. SchemeKnown' /\ LayersOfScheme' /\ PassIsLocked'
    BY <2>1 DEF IInv, SchemeKnown, LayersOfScheme, PassIsLocked
  <2> QED
    BY <2>2, <2>3 DEF IInv
<1>2. CASE Free
  <2>1. /\ upc \in {"free", "lastFree"} /\ upc' \in {"make", "destroy"}
        /\ upc' = "make" => upc = "free"
        /\ freed' = freed \cup {current} /\ current' = None
        /\ UNCHANGED <<mut, layers, server, wanted, changes, kind>>
    BY <1>2 DEF Free
  <2>2. Types'
    BY <2>1 DEF IInv, Types, SchemeKnown
  <2>3. SchemeKnown' /\ LayersOfScheme' /\ PassIsLocked'
    BY <2>1 DEF IInv, SchemeKnown, LayersOfScheme, PassIsLocked
  <2> QED
    BY <2>2, <2>3 DEF IInv
<1>3. CASE Make
  <2>1. /\ upc = "make" /\ upc' = "install"
        /\ kind' = Append(kind, wanted) /\ current' = Len(kind) + 1
        /\ UNCHANGED <<mut, layers, server, wanted, changes, freed>>
    BY <1>3 DEF Make
  <2>2. /\ wanted \in Kinds /\ current = None
    BY <2>1 DEF IInv, SchemeKnown
  <2>3. /\ kind' \in Seq(Kinds) /\ Len(kind) \in Nat
        /\ DOMAIN kind = 1..Len(kind) /\ DOMAIN kind' = 1..(Len(kind) + 1)
    BY <2>1, <2>2, AppendProperties, LenProperties DEF IInv, Types
  <2>4. Types'
    BY <2>1, <2>3 DEF IInv, Types
  <2>5. SchemeKnown' /\ LayersOfScheme' /\ PassIsLocked'
    BY <2>1, <2>2, <2>3 DEF IInv, SchemeKnown, LayersOfScheme, PassIsLocked, None
  <2> QED
    BY <2>4, <2>5 DEF IInv
<1>4. CASE Install
  <2>1. /\ upc = "install" /\ upc' = "run" /\ mut = "free"
        /\ layers' = LayersOf(current)
        /\ UNCHANGED <<mut, server, scheme>>
    BY <1>4 DEF Install
  <2>2. current # None /\ current \in Nat
    BY <2>1, LenProperties DEF IInv, Types, SchemeKnown
  <2>3. /\ layers' \in Seq([of : Nat, name : {"tone", "pwm", "balance"}])
        /\ \A k \in 1..Len(layers') : layers'[k].of = current
    BY <2>1, <2>2 DEF LayersOf
  <2>4. Types'
    BY <2>1, <2>3 DEF IInv, Types
  <2>5. SchemeKnown' /\ LayersOfScheme' /\ PassIsLocked'
    BY <2>1, <2>2, <2>3 DEF IInv, SchemeKnown, LayersOfScheme, PassIsLocked
  <2> QED
    BY <2>4, <2>5 DEF IInv
<1>5. CASE Update \/ Remove
  <2>1. /\ upc' \in {"run", "make", "clear", "destroy", "lastClear"}
        /\ upc' = "make" => current = None
        /\ upc' \in {"clear", "make"} => wanted # Unknown
        /\ upc' \in {"clear", "lastClear"} => current # None
        /\ UNCHANGED <<mut, layers, server, scheme>>
    BY <1>5 DEF Update, Remove
  <2>2. Types'
    BY <2>1 DEF IInv, Types
  <2>3. SchemeKnown' /\ LayersOfScheme' /\ PassIsLocked'
    BY <2>1 DEF IInv, Types, SchemeKnown, LayersOfScheme, PassIsLocked
  <2> QED
    BY <2>2, <2>3 DEF IInv
<1> QED
  BY <1>1, <1>2, <1>3, <1>4, <1>5

\* Everything else leaves layers and schemes alone.
LEMMA OthersKeepIInv ==
  ASSUME IInv,
         \/ UNCHANGED vars \/ Underrun \/ Stop \/ ChangeSetting
         \/ Construct \/ Open \/ SetUp \/ Notify \/ CheckRunning \/ Destroy \/ Join
  PROVE  IInv'
<1>1. /\ UNCHANGED <<mut, layers, todo, applied, current, kind, freed>>
      /\ spc' = "pass" => spc = "pass"
      /\ wanted' \in Kinds \cup {Unknown}
      /\ \/ upc' = upc /\ (wanted' = wanted \/ upc = "events")
         \/ upc' \in {"open", "setup", "notify", "run", "events", "remove", "join", "gone"}
            /\ wanted' = wanted
  BY DEF vars, Underrun, Stop, ChangeSetting, Construct, Open, SetUp, Notify, NotifyOne,
         CheckRunning, Destroy, Join, server, scheme, IInv, Types
<1>2. Types'
  BY <1>1 DEF IInv, Types
<1>3. SchemeKnown' /\ LayersOfScheme' /\ PassIsLocked'
  BY <1>1 DEF IInv, SchemeKnown, LayersOfScheme, PassIsLocked
<1> QED
  BY <1>2, <1>3 DEF IInv

\* Every step keeps the invariant.
LEMMA NextPreservesIInv == IInv /\ [Next]_vars => IInv'
BY ServerKeepsIInv, SchemeKeepsIInv, OthersKeepIInv DEF Next, UI

-----------------------------------------------------------------------------
\* The server thread never calls a layer of a scheme that was freed, for any
\* schemes, any number of changes and any interleaving of the two threads
\* (airball_sound_scheme.cpp:14-18, sound_mixer.cpp).
THEOREM LayersAlwaysAlive == Spec => []LayersAlive
<1>1. Spec => []IInv
  BY InitEstablishesIInv, NextPreservesIInv, PTL DEF Spec
<1>2. IInv => LayersAlive
  BY DEF IInv, Types, LayersOfScheme, PassIsLocked, LayersAlive
<1> QED
  BY <1>1, <1>2, PTL

-----------------------------------------------------------------------------
(* SoundLayers: numbers *)

LEMMA Divided ==
  ASSUME NEW q \in Nat, NEW p \in Positive
  PROVE  q = p * (q \div p) + (q % p) /\ q \div p \in Nat /\ q % p \in 0..(p - 1)
BY SMT DEF Positive

LEMMA RemainderIs ==
  ASSUME NEW q \in Nat, NEW p \in Positive, NEW k \in Nat, NEW r \in 0..(p - 1),
         q = p * k + r
  PROVE  q % p = r
BY SMT DEF Positive

LEMMA RemainderOfLess ==
  ASSUME NEW q \in Nat, NEW p \in Positive, q < p
  PROVE  q % p = q
BY SMT DEF Positive

\* Counting up goes round.
LEMMA NextRemainder ==
  ASSUME NEW q \in Nat, NEW p \in Positive
  PROVE  (q + 1) % p = IF (q % p) + 1 = p THEN 0 ELSE (q % p) + 1
<1>1. PICK k \in Nat, r \in 0..(p - 1) : q = p * k + r /\ q % p = r
  BY Divided
<1> p \in Nat /\ p > 0
  BY DEF Positive
<1>2. CASE r + 1 = p
  <2>1. p * (k + 1) = p * k + p
    BY SMT
  <2>2. q + 1 = p * (k + 1) + 0
    BY <1>1, <1>2, <2>1
  <2>3. k + 1 \in Nat /\ 0 \in 0..(p - 1) /\ q + 1 \in Nat
    OBVIOUS
  <2>4. (q + 1) % p = 0
    BY <2>2, <2>3, RemainderIs, Zenon
  <2> QED BY <1>1, <1>2, <2>4
<1>3. CASE r + 1 # p
  <2>1. q + 1 = p * k + (r + 1) /\ r + 1 \in 0..(p - 1) /\ q + 1 \in Nat
    BY <1>1, <1>3
  <2>2. (q + 1) % p = r + 1
    BY <2>1, RemainderIs, Zenon
  <2> QED BY <1>1, <1>3, <2>2
<1> QED BY <1>2, <1>3

\* The number before, taken round.
LEMMA LastRemainder ==
  ASSUME NEW q \in Nat, NEW p \in Positive
  PROVE  (q + p - 1) % p = IF q % p = 0 THEN p - 1 ELSE (q % p) - 1
<1>1. PICK k \in Nat, r \in 0..(p - 1) : q = p * k + r /\ q % p = r
  BY Divided
<1> p \in Nat /\ p > 0
  BY DEF Positive
<1>2. CASE r = 0
  <2>1. q + p - 1 = p * k + (p - 1)
    BY <1>1, <1>2
  <2>2. q + p - 1 \in Nat /\ p - 1 \in 0..(p - 1)
    OBVIOUS
  <2>3. (q + p - 1) % p = p - 1
    BY <2>1, <2>2, RemainderIs, Zenon
  <2> QED BY <1>1, <1>2, <2>3
<1>3. CASE r # 0
  <2>1. p * (k + 1) = p * k + p
    BY SMT
  <2>2. q + p - 1 = p * (k + 1) + (r - 1) /\ q + p - 1 \in Nat /\ r - 1 \in 0..(p - 1)
    BY <1>1, <1>3, <2>1
  <2>3. k + 1 \in Nat
    OBVIOUS
  <2>4. (q + p - 1) % p = r - 1
    BY <2>2, <2>3, RemainderIs, Zenon
  <2> QED BY <1>1, <1>3, <2>4
<1> QED BY <1>2, <1>3

\* A power of two counts the subsets of a set.
LEMMA PowerOfTwo ==
  ASSUME NEW n \in Nat
  PROVE  2^n \in Positive
<1>1. IsFiniteSet(1..n) /\ Cardinality(1..n) = n
  BY FS_Interval
<1>2. IsFiniteSet(SUBSET (1..n)) /\ Cardinality(SUBSET (1..n)) = 2^n
  BY <1>1, FS_SUBSET
<1>3. 2^n \in Nat /\ 2^n # 0
  BY <1>2, FS_CardinalityType, FS_EmptySet
<1> QED BY <1>3 DEF Positive

-----------------------------------------------------------------------------
(* SoundLayers: what apply() does to an oscillating layer. *)

\* A layer whose cycles are in C.
OscillatingOver(C) ==
    [cycle : C, pos : 0..(Modulus - 1), changing : BOOLEAN, next : C]

\* The frames since the cycle began that a change was made at, or a buffer.
Elapsed(layer, n) == (n + layer.pos) % Modulus

\* The number of frames does not wrap within the buffer.
RunsOn(layer, n) == Elapsed(layer, n) + (Frames - n) < Modulus

\* A cycle after which a whole buffer can be counted.
Fits(cycle) == cycle.period + Frames <= Modulus

\* What is known about an oscillating layer of which n frames were played.
Steady(layer, n, C) ==
    /\ layer \in OscillatingOver(C)
    /\ RunsOn(layer, n)
    /\ Fits(layer.cycle) /\ Fits(layer.next)

\* In the middle of a buffer.
LEMMA PhaseIs ==
  ASSUME NEW C, \A c \in C : c.period \in Positive,
         NEW layer \in OscillatingOver(C), NEW n \in Nat
  PROVE  /\ Elapsed(layer, n) \in 0..(Modulus - 1)
         /\ Elapsed(layer, n) % layer.cycle.period \in 0..(layer.cycle.period - 1)
         /\ LastPlayed(layer, n) =
                IF Elapsed(layer, n) % layer.cycle.period = 0 THEN layer.cycle.period - 1
                ELSE (Elapsed(layer, n) % layer.cycle.period) - 1
<1> DEFINE q == Elapsed(layer, n)
           p == layer.cycle.period
<1>1. p \in Positive /\ n + layer.pos \in Nat /\ Modulus \in Positive
  BY FramesAssumption DEF OscillatingOver
<1>2. q \in 0..(Modulus - 1)
  BY <1>1, Divided DEF Elapsed
<1>3. q \in Nat
  <2> HIDE DEF q
  <2> QED BY <1>2
<1>4. LastPlayed(layer, n) = (q + p - 1) % p
  BY DEF LastPlayed, Elapsed
<1> HIDE DEF p, q
<1>5. q % p \in 0..(p - 1) /\ (q + p - 1) % p = IF q % p = 0 THEN p - 1 ELSE (q % p) - 1
  BY <1>1, <1>3, Divided, LastRemainder
<1> QED BY <1>2, <1>4, <1>5 DEF p, q

\* A frame in which no change is made is the next of its cycle, or the first of
\* the same cycle again.
LEMMA FramePlays ==
  ASSUME NEW C, \A c \in C : c.period \in Positive,
         NEW layer, NEW n \in 0..(Frames - 1), Steady(layer, n, C)
  PROVE  /\ Steady(layer, n + 1, C)
         /\ LastPlayed(layer, n + 1) = Elapsed(layer, n) % layer.cycle.period
<1> DEFINE q == Elapsed(layer, n)
           p == layer.cycle.period
<1>1. layer \in OscillatingOver(C) /\ p \in Positive /\ n + layer.pos \in Nat
      /\ Modulus \in Positive /\ Frames \in Positive /\ n \in Nat /\ n + 1 \in Nat
  BY FramesAssumption DEF OscillatingOver, Steady, Positive
<1>2. q \in 0..(Modulus - 1) /\ q % p \in 0..(p - 1)
  BY <1>1, PhaseIs
<1>3. q + (Frames - n) < Modulus
  BY DEF Steady, RunsOn
<1>4. Elapsed(layer, n + 1) = ((n + layer.pos) + 1) % Modulus /\ q = (n + layer.pos) % Modulus
  <2>1. n + 1 + layer.pos = (n + layer.pos) + 1
    BY <1>1 DEF OscillatingOver
  <2> QED BY <2>1 DEF Elapsed
<1>5. Elapsed(layer, n + 1) = IF q + 1 = Modulus THEN 0 ELSE q + 1
  <2> HIDE DEF p, q
  <2> QED BY <1>1, <1>4, NextRemainder
<1>6. Elapsed(layer, n + 1) = q + 1
  <2> HIDE DEF p, q
  <2> QED BY <1>1, <1>2, <1>3, <1>5 DEF Positive
<1>7. RunsOn(layer, n + 1)
  <2> HIDE DEF p, q
  <2> QED BY <1>1, <1>2, <1>3, <1>6 DEF RunsOn, Positive
<1>8. LastPlayed(layer, n + 1) = (q + 1 + p - 1) % p
  BY <1>6 DEF LastPlayed, Elapsed
<1>9. LastPlayed(layer, n + 1) =
        IF (q + 1) % p = 0 THEN p - 1 ELSE ((q + 1) % p) - 1
  BY <1>1, <1>6, PhaseIs
<1> HIDE DEF p, q
<1>10. q \in Nat
  BY <1>2
<1>11. (q + 1) % p = IF (q % p) + 1 = p THEN 0 ELSE (q % p) + 1
  BY <1>1, <1>10, NextRemainder
<1>12. LastPlayed(layer, n + 1) = q % p
  BY <1>2, <1>9, <1>11
<1> QED BY <1>7, <1>12 DEF Steady, p, q

\* A change is made where a cycle begins: the frame before was the last of the
\* cycle, and this one is the first of the new cycle.
LEMMA FrameChanges ==
  ASSUME NEW C, \A c \in C : c.period \in Positive,
         NEW layer, NEW n \in 0..(Frames - 1), Steady(layer, n, C),
         NEW h, h \in OscillatingOver(C), h.cycle = layer.next, h.next = layer.next,
         h.pos = (Modulus - n) % Modulus
  PROVE  /\ Steady(h, n + 1, C)
         /\ LastPlayed(h, n + 1) = 0
<1> DEFINE p == h.cycle.period
<1>1. p \in Positive /\ Modulus \in Positive /\ Frames \in Positive /\ Frames < Modulus
      /\ n \in Nat /\ n + 1 \in Nat
  BY FramesAssumption DEF OscillatingOver, Positive
<1>2. Elapsed(h, n + 1) = 1
  <2>1. CASE n = 0
    <3>1. Modulus = Modulus * 1 + 0 /\ 0 \in 0..(Modulus - 1) /\ Modulus \in Nat
      BY <1>1 DEF Positive
    <3>2. Modulus % Modulus = 0
      BY <1>1, <3>1, RemainderIs
    <3>3. h.pos = 0
      BY <1>1, <2>1, <3>2 DEF Positive
    <3>4. 1 \in Nat /\ 1 < Modulus
      BY <1>1 DEF Positive
    <3>5. 1 % Modulus = 1
      BY <1>1, <3>4, RemainderOfLess
    <3> QED BY <2>1, <3>3, <3>5 DEF Elapsed
  <2>2. CASE n # 0
    <3>1. Modulus - n \in Nat /\ Modulus - n < Modulus
      BY <1>1, <2>2 DEF Positive
    <3>2. h.pos = Modulus - n
      BY <1>1, <3>1, RemainderOfLess
    <3>3. n + 1 + h.pos = Modulus * 1 + 1 /\ 1 \in 0..(Modulus - 1) /\ n + 1 + h.pos \in Nat
      BY <1>1, <3>2 DEF Positive
    <3>4. (n + 1 + h.pos) % Modulus = 1
      BY <1>1, <3>3, RemainderIs
    <3> QED BY <3>4 DEF Elapsed
  <2> QED BY <2>1, <2>2
<1>3. RunsOn(h, n + 1)
  BY <1>1, <1>2 DEF RunsOn, Positive
<1>4. Fits(h.cycle) /\ Fits(h.next)
  BY DEF Steady
<1>5. LastPlayed(h, n + 1) = IF 1 % p = 0 THEN p - 1 ELSE (1 % p) - 1
  BY <1>1, <1>2, PhaseIs
<1>6. LastPlayed(h, n + 1) = 0
  <2> HIDE DEF p
  <2>1. CASE p = 1
    <3>1. 1 = p * 1 + 0 /\ 0 \in 0..(p - 1) /\ 1 \in Nat /\ 0 \in Nat
      BY <2>1
    <3>2. 1 % p = 0
      BY <1>1, <3>1, RemainderIs
    <3> QED BY <1>5, <2>1, <3>2
  <2>2. CASE p # 1
    <3>1. 1 \in Nat /\ 1 < p
      BY <1>1, <2>2 DEF Positive
    <3>2. 1 % p = 1
      BY <1>1, <3>1, RemainderOfLess
    <3> QED BY <1>5, <3>2
  <2> QED BY <2>1, <2>2
<1> QED BY <1>3, <1>4, <1>6 DEF Steady

\* Between two buffers the layer keeps its place in the cycle.
LEMMA EndKeepsPhase ==
  ASSUME NEW C, \A c \in C : c.period \in Positive,
         NEW layer, Steady(layer, Frames, C),
         NEW h, h \in OscillatingOver(C), h.cycle = layer.cycle, h.next = layer.next,
         h.pos = ((layer.pos + Frames) % Modulus) % layer.cycle.period
  PROVE  /\ Steady(h, 0, C)
         /\ LastPlayed(h, 0) = LastPlayed(layer, Frames)
<1> DEFINE q == Elapsed(layer, Frames)
           p == layer.cycle.period
<1>1. layer \in OscillatingOver(C) /\ p \in Positive /\ Modulus \in Positive
      /\ Frames \in Positive /\ Frames \in Nat /\ p + Frames <= Modulus
  BY FramesAssumption DEF OscillatingOver, Steady, Fits, Positive
<1>2. q \in 0..(Modulus - 1) /\ q % p \in 0..(p - 1)
      /\ LastPlayed(layer, Frames) = IF q % p = 0 THEN p - 1 ELSE (q % p) - 1
  BY <1>1, PhaseIs
<1>3. h.pos = q % p
  <2>1. layer.pos + Frames = Frames + layer.pos
    BY <1>1 DEF OscillatingOver
  <2> QED BY <2>1 DEF Elapsed
<1>4. Elapsed(h, 0) = q % p
  <2> HIDE DEF p, q
  <2>1. 0 + h.pos = q % p /\ q % p \in Nat /\ q % p < Modulus
    BY <1>1, <1>2, <1>3 DEF Positive
  <2>2. (q % p) % Modulus = q % p
    BY <1>1, <2>1, RemainderOfLess
  <2> QED BY <2>1, <2>2 DEF Elapsed
<1>5. RunsOn(h, 0)
  <2> HIDE DEF p, q
  <2> QED BY <1>1, <1>2, <1>4 DEF RunsOn, Positive
<1>6. LastPlayed(h, 0) =
        IF (q % p) % p = 0 THEN p - 1 ELSE ((q % p) % p) - 1
  <2>1. 0 \in Nat
    OBVIOUS
  <2> QED BY <1>4, <2>1, PhaseIs
<1>7. (q % p) % p = q % p
  <2> HIDE DEF p, q
  <2>1. q % p \in Nat /\ q % p < p
    BY <1>1, <1>2 DEF Positive
  <2> QED BY <1>1, <2>1, RemainderOfLess
<1>8. Fits(h.cycle) /\ Fits(h.next)
  BY DEF Steady
<1>9. LastPlayed(h, 0) = LastPlayed(layer, Frames)
  <2> HIDE DEF p, q
  <2> QED BY <1>2, <1>6, <1>7
<1> QED BY <1>5, <1>8, <1>9 DEF Steady

\* A call leaves the place in the cycle as it is.
LEMMA TellingKeepsPhase ==
  ASSUME NEW C, NEW layer, NEW n, Steady(layer, n, C),
         NEW h, h \in OscillatingOver(C), h.cycle = layer.cycle, h.pos = layer.pos,
         Fits(h.next)
  PROVE  /\ Steady(h, n, C)
         /\ LastPlayed(h, n) = LastPlayed(layer, n)
<1>1. Elapsed(h, n) = Elapsed(layer, n)
  BY Zenon DEF Elapsed
<1>2. RunsOn(h, n)
  BY <1>1, Zenon DEF RunsOn, Steady
<1>3. LastPlayed(h, n) = LastPlayed(layer, n)
  BY Zenon DEF LastPlayed
<1> QED BY <1>2, <1>3, Zenon DEF Steady

\* A step of an oscillation: it stays, is told of another cycle, goes on, or
\* begins the cycle that was to come.
Oscillates(C, cycle, phase, coming, cycle1, phase1, coming1) ==
    \/ cycle1 = cycle /\ phase1 = phase /\ (coming1 = coming \/ coming1 \in C)
    \/ cycle1 = cycle /\ phase + 1 < cycle.period /\ phase1 = phase + 1 /\ coming1 = coming
    \/ cycle1 = coming /\ phase + 1 = cycle.period /\ phase1 = 0 /\ coming1 = coming

\* From n frames of a layer to m frames of another.
Goes(C, layer, n, h, m) ==
    Oscillates(C, layer.cycle, LastPlayed(layer, n), Coming(layer),
               h.cycle, LastPlayed(h, m), Coming(h))

LEMMA ChangeIsMade ==
  ASSUME NEW C, NEW layer \in OscillatingOver(C), NEW n \in 0..(Frames - 1),
         Elapsed(layer, n) % layer.cycle.period = 0, layer.changing,
         NEW h, h = Frame(layer, n)
  PROVE  /\ h \in OscillatingOver(C) /\ h.cycle = layer.next /\ h.next = layer.next
         /\ h.pos = (Modulus - n) % Modulus
         /\ Coming(h) = layer.next /\ Coming(layer) = layer.next
<1> DEFINE new == [layer EXCEPT !.cycle = layer.next, !.changing = FALSE,
                                !.pos = (Modulus - n) % Modulus]
<1>1. h = new
  BY Zenon DEF Frame, Elapsed
<1>2. (Modulus - n) % Modulus \in 0..(Modulus - 1)
  <2>1. Modulus - n \in Nat /\ Modulus \in Positive
    BY FramesAssumption DEF Positive
  <2> QED BY <2>1, Divided
<1> DEFINE at == (Modulus - n) % Modulus
<1>3. /\ h = [layer EXCEPT !.cycle = layer.next, !.changing = FALSE, !.pos = at]
      /\ at \in 0..(Modulus - 1)
  BY <1>1, <1>2
<1> HIDE DEF at, new
<1>4. /\ h.cycle = layer.next /\ h.next = layer.next /\ h.pos = at /\ h.changing = FALSE
      /\ h \in OscillatingOver(C)
  BY <1>3, Zenon DEF OscillatingOver
<1>5. Coming(h) = h.cycle /\ Coming(layer) = layer.next
  BY <1>4, Zenon DEF Coming
<1> QED BY <1>4, <1>5, Zenon DEF at

LEMMA FrameOscillates ==
  ASSUME NEW C, \A c \in C : c.period \in Positive,
         NEW layer, NEW n \in 0..(Frames - 1), Steady(layer, n, C)
  PROVE  /\ Steady(Frame(layer, n), n + 1, C)
         /\ Goes(C, layer, n, Frame(layer, n), n + 1)
<1> DEFINE h == Frame(layer, n)
           r == Elapsed(layer, n) % layer.cycle.period
<1>1. n \in Nat /\ layer \in OscillatingOver(C)
  BY FramesAssumption DEF Steady, Positive
<1>2. /\ r \in 0..(layer.cycle.period - 1)
      /\ LastPlayed(layer, n) = IF r = 0 THEN layer.cycle.period - 1 ELSE r - 1
  BY <1>1, PhaseIs
<1>3. layer.cycle.period \in Nat
  BY <1>1 DEF OscillatingOver, Positive
<1>4. CASE r = 0 /\ layer.changing
  <2>1. /\ h \in OscillatingOver(C) /\ h.cycle = layer.next /\ h.next = layer.next
        /\ h.pos = (Modulus - n) % Modulus
        /\ Coming(h) = layer.next /\ Coming(layer) = layer.next
    BY <1>1, <1>4, ChangeIsMade
  <2> HIDE DEF h, r
  <2>2. Steady(h, n + 1, C) /\ LastPlayed(h, n + 1) = 0
    BY <2>1, FrameChanges
  <2>3. LastPlayed(layer, n) + 1 = layer.cycle.period
    BY <1>2, <1>3, <1>4
  <2>4. Goes(C, layer, n, h, n + 1)
    BY <2>1, <2>2, <2>3, Zenon DEF Goes, Oscillates
  <2> QED BY <2>2, <2>4 DEF h
<1>5. CASE ~(r = 0 /\ layer.changing)
  <2>1. h = layer
    BY <1>5, Zenon DEF Frame, Elapsed
  <2>2. Steady(layer, n + 1, C) /\ LastPlayed(layer, n + 1) = r
    BY FramePlays
  <2>3. r = 0 => Coming(layer) = layer.cycle
    BY <1>5, Zenon DEF Coming
  <2> HIDE DEF r, h
  <2>4. Goes(C, layer, n, layer, n + 1)
    <3>1. CASE r = 0
      <4>1. LastPlayed(layer, n) + 1 = layer.cycle.period
        BY <1>2, <1>3, <3>1
      <4> QED BY <2>2, <2>3, <3>1, <4>1, Zenon DEF Goes, Oscillates
    <3>2. CASE r # 0
      <4>1. r = LastPlayed(layer, n) + 1 /\ LastPlayed(layer, n) + 1 < layer.cycle.period
        BY <1>2, <1>3, <3>2
      <4> QED BY <2>2, <4>1, Zenon DEF Goes, Oscillates
    <3> QED BY <3>1, <3>2
  <2> QED BY <2>1, <2>2, <2>4, Zenon DEF h
<1> QED BY <1>4, <1>5

LEMMA EndedOscillates ==
  ASSUME NEW C, \A c \in C : c.period \in Positive,
         NEW layer, Steady(layer, Frames, C)
  PROVE  /\ Steady(Ended(layer), 0, C)
         /\ Goes(C, layer, Frames, Ended(layer), 0)
<1> DEFINE h == Ended(layer)
           at == ((layer.pos + Frames) % Modulus) % layer.cycle.period
<1>1. layer \in OscillatingOver(C)
  BY DEF Steady
<1>2. at \in 0..(Modulus - 1)
  <2>1. /\ layer.pos + Frames \in Nat /\ Modulus \in Positive
        /\ layer.cycle.period \in Positive /\ layer.cycle.period + Frames <= Modulus
        /\ Frames \in Nat
    BY <1>1, FramesAssumption DEF OscillatingOver, Steady, Fits, Positive
  <2> DEFINE q == (layer.pos + Frames) % Modulus
  <2>2. q \in Nat
    BY <2>1, Divided
  <2> HIDE DEF q
  <2>3. q % layer.cycle.period \in 0..(layer.cycle.period - 1)
    BY <2>1, <2>2, Divided
  <2>4. q % layer.cycle.period \in 0..(Modulus - 1)
    BY <2>1, <2>3 DEF Positive
  <2> QED BY <2>4 DEF q
<1>3. h = [layer EXCEPT !.pos = at]
  BY DEF Ended
<1> HIDE DEF h, at
<1>4. /\ h.cycle = layer.cycle /\ h.next = layer.next /\ h.pos = at
      /\ h.changing = layer.changing /\ h \in OscillatingOver(C)
  BY <1>1, <1>2, <1>3, Zenon DEF OscillatingOver
<1>5. Steady(h, 0, C) /\ LastPlayed(h, 0) = LastPlayed(layer, Frames)
  BY <1>4, EndKeepsPhase DEF at
<1>6. Coming(h) = Coming(layer)
  BY <1>4, Zenon DEF Coming
<1>7. Goes(C, layer, Frames, h, 0)
  BY <1>4, <1>5, <1>6, Zenon DEF Goes, Oscillates
<1> QED BY <1>5, <1>7 DEF h

LEMMA ToldOscillates ==
  ASSUME NEW C, NEW layer, NEW n, Steady(layer, n, C), NEW c \in C, Fits(c)
  PROVE  /\ Steady(Told(layer, c), n, C)
         /\ Goes(C, layer, n, Told(layer, c), n)
<1> DEFINE h == Told(layer, c)
<1>1. layer \in OscillatingOver(C)
  BY DEF Steady
<1>2. h = [layer EXCEPT !.changing = TRUE, !.next = c]
  BY DEF Told
<1> HIDE DEF h
<1>3. /\ h.cycle = layer.cycle /\ h.next = c /\ h.pos = layer.pos
      /\ h.changing = TRUE /\ h \in OscillatingOver(C)
  BY <1>1, <1>2, Zenon DEF OscillatingOver
<1>4. Steady(h, n, C) /\ LastPlayed(h, n) = LastPlayed(layer, n)
  <2>1. Fits(h.next)
    BY <1>3
  <2> QED BY <1>3, <2>1, TellingKeepsPhase
<1>5. Coming(h) = c
  BY <1>3, Zenon DEF Coming
<1>6. Goes(C, layer, n, h, n)
  BY <1>3, <1>4, <1>5, Zenon DEF Goes, Oscillates
<1> QED BY <1>4, <1>6 DEF h

-----------------------------------------------------------------------------
(* SoundLayers: what update() asks for. *)

\* A square wave is on for no longer than its cycle leaves it after the fade.
Waves == {c \in PwmCycles : c.on + c.fade <= c.period}

\* Cycles after which a buffer can be counted, and periods of such.
Fitting(C) == {c \in C : Fits(c)}
Periods == {p \in Nat : p + Frames <= Modulus}

ToneCalls == [layer : {"tone"}, cycle : Fitting(ToneCycles)]
PwmCalls == [layer : {"pwm"}, cycle : Fitting(Waves)]
GainsCalls == [layer : {"balance"}, call : {"gains"}, left : 0..Full, right : 0..Full]
RampCalls == [layer : {"balance"}, call : {"ramp"}, ramp : Nat]
SchemeCalls == ToneCalls \cup PwmCalls \cup GainsCalls \cup RampCalls

LEMMA TonePeriod ==
  ASSUME NEW period \in Periods
  PROVE  ToneCycle(period) \in Fitting(ToneCycles)
BY FramesAssumption DEF ToneCycle, ToneCycles, Larger, Positive, Fitting, Fits, Periods

LEMMA WavePeriod ==
  ASSUME NEW period \in Periods, NEW on \in 0..period, NEW fade \in Nat
  PROVE  PwmCycle(period, on, fade) \in Fitting(Waves)
<1> DEFINE most == (period - on) \div 2
           f == Smaller(fade, Smaller(most, on))
           o == Smaller(on, period)
           p == Larger(1, period)
<1> period \in Nat
  BY DEF Periods
<1>1. most \in Nat /\ 2 * most <= period - on
  OBVIOUS
<1>2. o = on /\ o \in Nat
  BY DEF Smaller
<1>3. p \in Positive /\ p >= period /\ p + Frames <= Modulus
  BY FramesAssumption DEF Larger, Positive, Periods
<1>4. f \in Nat /\ f <= most
  <2> HIDE DEF most
  <2> QED BY <1>1 DEF Smaller
<1>5. PwmCycle(period, on, fade) = [period |-> p, on |-> o, fade |-> f]
  BY DEF PwmCycle
<1> HIDE DEF p, o, f, most
<1>6. o + f <= p
  BY <1>1, <1>2, <1>3, <1>4 DEF Positive
<1> QED BY <1>2, <1>3, <1>4, <1>5, <1>6 DEF Waves, PwmCycles, Fitting, Fits

LEMMA CallsAreCalls ==
  /\ \A period \in Periods : SetPeriod(period) \in SchemeCalls
  /\ \A period \in Periods : \A fade \in Nat : \A on \in 0..period : SetParameters(period, on, fade) \in SchemeCalls
  /\ \A left, right \in Int : SetGains(left, right) \in SchemeCalls
  /\ \A ramp \in Nat : SetRampPeriod(ramp) \in SchemeCalls
<1>1. ASSUME NEW period \in Periods PROVE SetPeriod(period) \in SchemeCalls
  BY TonePeriod DEF SetPeriod, SchemeCalls, ToneCalls
<1>2. ASSUME NEW period \in Periods, NEW fade \in Nat, NEW on \in 0..period
      PROVE  SetParameters(period, on, fade) \in SchemeCalls
  <2>1. PwmCycle(period, on, fade) \in Fitting(Waves)
    BY WavePeriod
  <2> QED BY <2>1, Zenon DEF SetParameters, SchemeCalls, PwmCalls
<1>3. ASSUME NEW left \in Int, NEW right \in Int PROVE SetGains(left, right) \in SchemeCalls
  <2>1. ValidGain(left) \in 0..Full /\ ValidGain(right) \in 0..Full
    BY RateAssumption DEF ValidGain, Larger, Smaller, Positive
  <2> QED BY <2>1, Zenon DEF SetGains, SchemeCalls, GainsCalls
<1>4. ASSUME NEW ramp \in Nat PROVE SetRampPeriod(ramp) \in SchemeCalls
  BY <1>4 DEF SetRampPeriod, SchemeCalls, RampCalls
<1> QED BY <1>1, <1>2, <1>3, <1>4

LEMMA Products ==
  /\ \A a, b \in Int : a * b \in Int
  /\ \A a, b \in Nat : a * b \in Nat
  /\ \A a, b \in Positive : a * b \in Positive
<1>1. \A a, b \in Positive : a * b \in Positive
  <2> SUFFICES ASSUME NEW a \in Positive, NEW b \in Positive PROVE a * b \in Positive
    OBVIOUS
  <2>1. PICK c \in Nat : b = c + 1
    BY DEF Positive
  <2>2. a * (c + 1) = a * c + a /\ a * c \in Nat
    BY SMT DEF Positive
  <2> QED BY <2>1, <2>2 DEF Positive
<1>2. /\ \A a, b \in Int : a * b \in Int
      /\ \A a, b \in Nat : a * b \in Nat
  BY SMT
<1> QED BY <1>1, <1>2

LEMMA Quotients ==
  ASSUME NEW q \in Int, NEW p \in Positive
  PROVE  /\ q \div p \in Int
         /\ q >= 0 => q \div p \in Nat
BY SMT DEF Positive

LEMMA SmallerQuotient ==
  ASSUME NEW a \in Nat, NEW d \in Positive, NEW n \in Positive, d <= n
  PROVE  (a * d) \div n \in 0..a
<1> DEFINE q == a * d
           k == q \div n
           r == q % n
<1>1. q \in Nat
  BY Products DEF Positive
<1>2. q = n * k + r /\ k \in Nat /\ r \in 0..(n - 1)
  <2> HIDE DEF q
  <2> QED BY <1>1, Divided
<1>3. SUFFICES ASSUME k > a PROVE FALSE
  BY <1>2
<1> HIDE DEF k, r
<1>4. PICK e, f \in Nat : k = a + 1 + e /\ n = d + f
  <2>1. k - a - 1 \in Nat /\ n - d \in Nat /\ k = a + 1 + (k - a - 1) /\ n = d + (n - d)
    BY <1>2, <1>3 DEF Positive
  <2> QED BY <2>1
<1>5. n * k = (d + f) * a + (d + f) * (1 + e)
  BY <1>4, SMT DEF Positive
<1>6. (d + f) * a = a * d + f * a /\ f * a \in Nat /\ a * d \in Nat
  BY SMT DEF Positive
<1>7. (d + f) * (1 + e) \in Positive
  <2>1. d + f \in Positive /\ 1 + e \in Positive
    BY DEF Positive
  <2> QED BY <2>1, Products
<1> QED BY <1>2, <1>5, <1>6, <1>7 DEF Positive

LEMMA LowPeriods ==
  /\ \A period \in 0..Rate : period \in Periods
  /\ CastOfNone \in Periods /\ PeriodDefault \in Periods /\ Rate \in Positive
<1>1. /\ Rate \in Positive /\ CastOfNone \in Nat /\ PeriodDefault \in Nat
      /\ Frames \in Positive /\ Modulus \in Positive
  BY RateAssumption, FramesAssumption
<1>2. /\ Rate + Frames <= Modulus /\ CastOfNone + Frames <= Modulus
      /\ PeriodDefault + Frames <= Modulus
  BY CountAssumption
<1> QED BY <1>1, <1>2 DEF Periods, Positive

\* A frequency that is positive has a period, and one of a Hertz or more a
\* period that fits.
LEMMA PeriodOfFrequency ==
  ASSUME NEW num \in Int, NEW den \in Positive
  PROVE  /\ FrequencyToPeriod(num, den) \in Nat
         /\ num >= den => FrequencyToPeriod(num, den) \in Periods
<1>1. CASE num <= 0
  <2>1. ~(num >= den)
    BY <1>1 DEF Positive
  <2> QED BY <1>1, <2>1, RateAssumption DEF FrequencyToPeriod
<1>2. CASE ~(num <= 0)
  <2>1. num \in Positive /\ Rate \in Positive
    BY <1>2, RateAssumption DEF Positive
  <2>2. FrequencyToPeriod(num, den) = (Rate * den) \div num
    BY <1>2 DEF FrequencyToPeriod
  <2>3. (Rate * den) \div num \in Nat
    <3> DEFINE q == Rate * den
    <3>1. q \in Positive
      BY <2>1, Products
    <3> HIDE DEF q
    <3>2. q \div num \in Nat
      BY <2>1, <3>1, Quotients DEF Positive
    <3> QED BY <3>2 DEF q
  <2>4. ASSUME num >= den PROVE (Rate * den) \div num \in Periods
    <3>1. Rate \in Nat /\ den <= num
      BY <2>1, <2>4 DEF Positive
    <3>2. (Rate * den) \div num \in 0..Rate
      BY <2>1, <3>1, SmallerQuotient
    <3> QED BY <3>2, LowPeriods
  <2> QED BY <2>2, <2>3, <2>4
<1> QED BY <1>1, <1>2

\* Between two limits a frequency is at least the lower one.
LEMMA InterpolatedPeriod ==
  ASSUME NEW y0 \in Positive, NEW y1 \in Positive, NEW x0 \in Int, NEW x1 \in Int,
         NEW x \in Int, x0 < x1
  PROVE  /\ Interpolated(y0, y1, x0, x1, x) \in Nat
         /\ x0 <= x /\ x <= x1 => Interpolated(y0, y1, x0, x1, x) \in Periods
<1> DEFINE num == y0 * (x1 - x0) + (x - x0) * (y1 - y0)
           den == x1 - x0
<1>1. den \in Positive
  BY DEF Positive
<1>2. num \in Int
  BY SMT DEF Positive
<1>3. ASSUME x0 <= x, x <= x1 PROVE num >= den
  <2>1. PICK a, b \in Nat : x = x0 + a /\ x1 = x + b
    <3>1. x - x0 \in Nat /\ x1 - x \in Nat /\ x = x0 + (x - x0) /\ x1 = x + (x1 - x)
      BY <1>3
    <3> QED BY <3>1
  <2>2. PICK c, d \in Nat : y0 = c + 1 /\ y1 = d + 1
    <3>1. y0 - 1 \in Nat /\ y1 - 1 \in Nat /\ y0 = (y0 - 1) + 1 /\ y1 = (y1 - 1) + 1
      BY DEF Positive
    <3> QED BY <3>1
  <2>3. den = a + b /\ x - x0 = a /\ y1 - y0 = d - c
    BY <2>1, <2>2
  <2>4. num = (c + 1) * (a + b) + a * (d - c)
    BY <2>2, <2>3
  <2>5. (c + 1) * (a + b) + a * (d - c) = c * b + a * d + a + b
    BY SMT
  <2>6. c * b \in Nat /\ a * d \in Nat
    BY SMT
  <2> HIDE DEF num, den
  <2> QED BY <2>3, <2>4, <2>5, <2>6
<1>4. Interpolated(y0, y1, x0, x1, x) = FrequencyToPeriod(num, den)
  BY DEF Interpolated
<1> HIDE DEF num, den
<1> QED BY <1>1, <1>2, <1>3, <1>4, PeriodOfFrequency

\* A pitch above the base has a shorter period.
LEMMA PeriodOfOctaves ==
  ASSUME NEW octaves \in Nat
  PROVE  OctavesToPeriod(octaves) \in Periods
<1>1. Rate \in Positive /\ AlphaMinTone \in Positive
  BY RateAssumption
<1> DEFINE two == 2^octaves
<1>2. two \in Positive
  BY PowerOfTwo
<1>3. OctavesToPeriod(octaves) = Rate \div (AlphaMinTone * two)
  BY DEF OctavesToPeriod
<1> HIDE DEF two
<1> DEFINE p == AlphaMinTone * two
<1>4. p \in Positive
  BY <1>1, <1>2, Products
<1> HIDE DEF p
<1>5. (Rate * 1) \div p \in 0..Rate
  <2>1. 1 \in Positive /\ 1 <= p /\ Rate \in Nat
    BY <1>1, <1>4 DEF Positive
  <2> QED BY <1>4, <2>1, SmallerQuotient
<1>6. Rate * 1 = Rate
  BY <1>1 DEF Positive
<1> QED BY <1>3, <1>5, <1>6, LowPeriods DEF p

\* One below it has one that is a number.
LEMMA PeriodOfLowOctaves ==
  ASSUME NEW octaves \in Int, octaves < 0
  PROVE  OctavesToPeriod(octaves) \in Nat
<1>1. Rate \in Positive /\ AlphaMinTone \in Positive
  BY RateAssumption
<1> DEFINE two == 2^(-octaves)
<1>2. two \in Positive
  <2>1. -octaves \in Nat
    OBVIOUS
  <2> QED BY <2>1, PowerOfTwo
<1>3. OctavesToPeriod(octaves) = (Rate * two) \div AlphaMinTone
  BY DEF OctavesToPeriod
<1> HIDE DEF two
<1> DEFINE q == Rate * two
<1>4. q \in Positive
  BY <1>1, <1>2, Products
<1> HIDE DEF q
<1>5. q \div AlphaMinTone \in Nat
  BY <1>1, <1>4, Quotients DEF Positive
<1> QED BY <1>3, <1>5 DEF q

\* What update() reads.
Read == settings \in Settings /\ air \in Airs

LEMMA WhatIsRead ==
  ASSUME Read
  PROVE  /\ settings.alpha_min \in Int /\ settings.alpha_y \in Int /\ settings.alpha_ref \in Int
         /\ settings.alpha_stall_warning \in Int /\ settings.alpha_stall \in Int
         /\ settings.alpha_min < settings.alpha_stall
         /\ settings.alpha_ref < settings.alpha_stall
         /\ settings.beta_full_scale \in Positive
         /\ settings.volume \in 0..Full /\ Full \in Positive
         /\ air.alpha \in Int \cup {NaN} /\ air.beta \in Int \cup {NaN}
         /\ NaN \notin Int
<1>1. /\ {settings.alpha_min, settings.alpha_y, settings.alpha_ref,
          settings.alpha_stall_warning, settings.alpha_stall} \subseteq Int
      /\ settings.alpha_min < settings.alpha_stall
      /\ settings.alpha_ref < settings.alpha_stall
      /\ settings.beta_full_scale \in Positive
      /\ settings.volume \in 0..Full
  BY SettingsAssumption DEF Read
<1>2. air \in [alpha : Int \cup {NaN}, beta : Int \cup {NaN}] /\ NaN \notin Int
  BY AirAssumption DEF Read
<1> QED BY <1>1, <1>2, RateAssumption

LEMMA GainIsNumber ==
  ASSUME Read, NEW num \in Int \cup {NaN}, NEW den \in Positive
  PROVE  Gain(num, den) \in Int
<1>1. CASE num = NaN
  BY <1>1, WhatIsRead DEF Gain
<1>2. CASE num # NaN
  <2> DEFINE q == settings.volume * (num + den)
             p == 2 * den
  <2>1. num \in Int /\ num + den \in Int /\ p \in Positive /\ settings.volume \in Int
    BY <1>2, WhatIsRead DEF Positive
  <2>2. q \in Int
    BY <2>1, Products
  <2>3. Gain(num, den) = Smaller(settings.volume, q \div p)
    BY <1>2 DEF Gain
  <2> HIDE DEF q, p
  <2>4. q \div p \in Int
    BY <2>1, <2>2, Quotients
  <2> QED BY <2>1, <2>3, <2>4 DEF Smaller
<1> QED BY <1>1, <1>2

\* An angle is only interpolated between limits that are in order.
LEMMA RegimeBetweenLimits ==
  ASSUME Read
  PROVE  /\ CalculateRegime(air.alpha) \in {"FAST", "SLOW"} => air.alpha \in Int
         /\ CalculateRegime(air.alpha) = "FAST" =>
                settings.alpha_y <= air.alpha /\ air.alpha < settings.alpha_ref
         /\ CalculateRegime(air.alpha) = "SLOW" =>
                settings.alpha_ref <= air.alpha /\ air.alpha < settings.alpha_stall_warning
<1> DEFINE tolerance == Tolerance * (settings.alpha_stall - settings.alpha_ref)
<1>1. tolerance \in Nat
  <2>1. Tolerance \in Nat /\ settings.alpha_stall - settings.alpha_ref \in Nat
    BY WhatIsRead, RateAssumption
  <2> QED BY <2>1, Products
<1>2. CalculateRegime(air.alpha) =
        IF air.alpha = NaN THEN "STALL_WARNING"
        ELSE IF air.alpha < settings.alpha_y THEN "CRUISE"
        ELSE IF 100 * air.alpha < 100 * settings.alpha_ref - tolerance THEN "FAST"
        ELSE IF 100 * air.alpha < 100 * settings.alpha_ref + tolerance THEN "ONSPEED"
        ELSE IF air.alpha < settings.alpha_stall_warning THEN "SLOW"
        ELSE "STALL_WARNING"
  BY DEF CalculateRegime
<1> HIDE DEF tolerance
<1> QED BY <1>1, <1>2, WhatIsRead

LEMMA FlyOnSpeedCalls ==
  ASSUME Read
  PROVE  FlyOnSpeed \in Seq(SchemeCalls) /\ Len(FlyOnSpeed) <= 4
<1> DEFINE s == settings
           regime == CalculateRegime(air.alpha)
           pitch == IF regime \in {"FAST", "ONSPEED"} THEN ToneFast ELSE ToneSlow
           period ==
             CASE regime = "FAST" ->
                    Interpolated(FastLDMax, FastOnspeed, s.alpha_y, s.alpha_ref, air.alpha)
               [] regime = "SLOW" ->
                    Interpolated(SlowOnspeed, SlowStall, s.alpha_ref, s.alpha_stall_warning,
                                 air.alpha)
               [] OTHER -> FrequencyToPeriod(StallWarning, 1)
           wave == IF regime = "ONSPEED" THEN SetParameters(PeriodDefault, PeriodDefault, 0)
                   ELSE SetParameters(period, period \div 2, Ramp)
           gains == SetGains(Gain(Negated(air.beta), s.beta_full_scale),
                             Gain(air.beta, s.beta_full_scale))
           tonePeriod == FrequencyToPeriod(pitch, 1)
<1>1. FlyOnSpeed = IF regime = "CRUISE" THEN << SetGains(0, 0) >>
                   ELSE << SetRampPeriod(Ramp), gains, SetPeriod(tonePeriod), wave >>
  BY DEF FlyOnSpeed
<1>2. 1 \in Positive /\ ToneFast \in Int /\ ToneSlow \in Int /\ StallWarning \in Int
      /\ ToneFast >= 1 /\ ToneSlow >= 1 /\ StallWarning >= 1
      /\ {FastLDMax, FastOnspeed, SlowOnspeed, SlowStall} \subseteq Positive
      /\ Ramp \in Nat /\ PeriodDefault \in Periods
  BY RateAssumption, LowPeriods DEF Positive
<1>3. period \in Periods
  <2>1. CASE regime = "FAST"
    <3>1. s.alpha_y \in Int /\ s.alpha_ref \in Int /\ air.alpha \in Int
          /\ s.alpha_y < s.alpha_ref /\ s.alpha_y <= air.alpha /\ air.alpha <= s.alpha_ref
      BY <2>1, WhatIsRead, RegimeBetweenLimits
    <3>2. Interpolated(FastLDMax, FastOnspeed, s.alpha_y, s.alpha_ref, air.alpha)
            \in Periods
      BY <1>2, <3>1, InterpolatedPeriod
    <3> QED BY <2>1, <3>2
  <2>2. CASE regime = "SLOW"
    <3>1. s.alpha_ref \in Int /\ s.alpha_stall_warning \in Int /\ air.alpha \in Int
          /\ s.alpha_ref < s.alpha_stall_warning
          /\ s.alpha_ref <= air.alpha /\ air.alpha <= s.alpha_stall_warning
      BY <2>2, WhatIsRead, RegimeBetweenLimits
    <3>2. Interpolated(SlowOnspeed, SlowStall, s.alpha_ref, s.alpha_stall_warning, air.alpha)
            \in Periods
      BY <1>2, <3>1, InterpolatedPeriod
    <3> QED BY <2>2, <3>2
  <2>3. CASE regime \notin {"FAST", "SLOW"}
    <3>1. FrequencyToPeriod(StallWarning, 1) \in Periods
      BY <1>2, PeriodOfFrequency
    <3> QED BY <2>3, <3>1
  <2> QED BY <2>1, <2>2, <2>3
<1>4. tonePeriod \in Periods
  <2>1. pitch \in Int /\ pitch >= 1
    BY <1>2
  <2> HIDE DEF pitch
  <2> QED BY <1>2, <2>1, PeriodOfFrequency
<1>5. gains \in SchemeCalls
  <2>1. Negated(air.beta) \in Int \cup {NaN} /\ air.beta \in Int \cup {NaN}
        /\ s.beta_full_scale \in Positive
    BY WhatIsRead DEF Negated
  <2>2. /\ Gain(Negated(air.beta), s.beta_full_scale) \in Int
        /\ Gain(air.beta, s.beta_full_scale) \in Int
    BY <2>1, GainIsNumber
  <2> QED BY <2>2, CallsAreCalls
<1>6. wave \in SchemeCalls
  <2> HIDE DEF period, regime
  <2>1. period \div 2 \in 0..period /\ PeriodDefault \in 0..PeriodDefault /\ 0 \in Nat
    BY <1>2, <1>3 DEF Periods
  <2>2. /\ SetParameters(PeriodDefault, PeriodDefault, 0) \in SchemeCalls
        /\ SetParameters(period, period \div 2, Ramp) \in SchemeCalls
    BY <1>2, <1>3, <2>1, CallsAreCalls
  <2> QED BY <2>2, Zenon
<1>7. /\ SetRampPeriod(Ramp) \in SchemeCalls /\ SetPeriod(tonePeriod) \in SchemeCalls
      /\ SetGains(0, 0) \in SchemeCalls
  <2> HIDE DEF tonePeriod
  <2>1. 0 \in Int
    OBVIOUS
  <2> QED BY <1>2, <1>4, <2>1, CallsAreCalls
<1> HIDE DEF wave, gains, tonePeriod, regime
<1>8. CASE regime = "CRUISE"
  BY <1>1, <1>7, <1>8
<1>9. CASE regime # "CRUISE"
  <2>1. FlyOnSpeed = << SetRampPeriod(Ramp), gains, SetPeriod(tonePeriod), wave >>
    BY <1>1, <1>9
  <2> QED BY <1>5, <1>6, <1>7, <2>1
<1> QED BY <1>8, <1>9

\* What flyonspeed asks of the tone and of the square wave, unless it cruises.
AsksPitch(frequency) == FlyOnSpeed[3] = SetPeriod(FrequencyToPeriod(frequency, 1))
AsksSteady == FlyOnSpeed[4].layer = "pwm" /\ FlyOnSpeed[4].cycle.on = FlyOnSpeed[4].cycle.period
AsksPulses == FlyOnSpeed[4].layer = "pwm" /\ FlyOnSpeed[4].cycle.on < FlyOnSpeed[4].cycle.period

\* On for half of the period is never on all the time.
LEMMA HalfIsPulses ==
  ASSUME NEW period \in Nat, NEW fade
  PROVE  LET wave == SetParameters(period, period \div 2, fade)
         IN  wave.layer = "pwm" /\ wave.cycle.on < wave.cycle.period
<1>1. period \div 2 \in Nat /\ period \div 2 <= period /\ period \div 2 < Larger(1, period)
  BY DEF Larger
<1>2. Smaller(period \div 2, period) = period \div 2
  BY <1>1 DEF Smaller
<1> HIDE DEF Smaller, Larger
<1> QED BY <1>1, <1>2 DEF SetParameters, PwmCycle

LEMMA AllIsSteady ==
  ASSUME NEW period \in Positive, NEW fade
  PROVE  LET wave == SetParameters(period, period, fade)
         IN  wave.layer = "pwm" /\ wave.cycle.on = wave.cycle.period
<1>1. Smaller(period, period) = period /\ Larger(1, period) = period
  BY DEF Smaller, Larger, Positive
<1> QED BY <1>1 DEF SetParameters, PwmCycle

\* flyonspeed asks for what SoundsRight names: below alpha_y for silence, at
\* alpha_ref for a steady tone, by more than the tolerance away from it for
\* pulses, which are higher beyond it (flyonspeed_scheme.cpp:53-161; the step
\* of HearsRegime from an angle to the calls).
THEOREM FlyOnSpeedAsksForItsRegime ==
  ASSUME Read, air.alpha # NaN, Tolerance > 0, PeriodDefault > 0
  PROVE  LET s == settings
             alpha == air.alpha
             off == 100 * Magnitude(alpha - s.alpha_ref)
                        > Tolerance * (s.alpha_stall - s.alpha_ref)
         IN  /\ alpha < s.alpha_y => FlyOnSpeed = << SetGains(0, 0) >>
             /\ alpha >= s.alpha_y /\ alpha = s.alpha_ref => AsksSteady /\ AsksPitch(ToneFast)
             /\ alpha >= s.alpha_y /\ off /\ alpha < s.alpha_ref =>
                    AsksPulses /\ AsksPitch(ToneFast)
             /\ alpha >= s.alpha_y /\ off /\ alpha > s.alpha_ref =>
                    AsksPulses /\ AsksPitch(ToneSlow)
<1> DEFINE s == settings
           alpha == air.alpha
           width == s.alpha_stall - s.alpha_ref
           tolerance == Tolerance * width
           regime == CalculateRegime(air.alpha)
           pitch == IF regime \in {"FAST", "ONSPEED"} THEN ToneFast ELSE ToneSlow
           period ==
             CASE regime = "FAST" ->
                    Interpolated(FastLDMax, FastOnspeed, s.alpha_y, s.alpha_ref, air.alpha)
               [] regime = "SLOW" ->
                    Interpolated(SlowOnspeed, SlowStall, s.alpha_ref, s.alpha_stall_warning,
                                 air.alpha)
               [] OTHER -> FrequencyToPeriod(StallWarning, 1)
           wave == IF regime = "ONSPEED" THEN SetParameters(PeriodDefault, PeriodDefault, 0)
                   ELSE SetParameters(period, period \div 2, Ramp)
           gains == SetGains(Gain(Negated(air.beta), s.beta_full_scale),
                             Gain(air.beta, s.beta_full_scale))
<1>1. /\ alpha \in Int /\ s.alpha_y \in Int /\ s.alpha_ref \in Int
      /\ s.alpha_stall_warning \in Int /\ s.alpha_stall \in Int /\ width \in Positive
  BY WhatIsRead DEF Positive
<1>2. tolerance \in Positive
  <2>1. Tolerance \in Positive
    BY RateAssumption DEF Positive
  <2> QED BY <1>1, <2>1, Products
<1>3. regime = IF alpha < s.alpha_y THEN "CRUISE"
               ELSE IF 100 * alpha < 100 * s.alpha_ref - tolerance THEN "FAST"
               ELSE IF 100 * alpha < 100 * s.alpha_ref + tolerance THEN "ONSPEED"
               ELSE IF alpha < s.alpha_stall_warning THEN "SLOW"
               ELSE "STALL_WARNING"
  BY DEF CalculateRegime
<1>4. FlyOnSpeed = IF regime = "CRUISE" THEN << SetGains(0, 0) >>
                   ELSE << SetRampPeriod(Ramp), gains,
                           SetPeriod(FrequencyToPeriod(pitch, 1)), wave >>
  BY DEF FlyOnSpeed
<1>5. period \in Nat
  <2>1. CASE regime = "FAST"
    <3>1. s.alpha_y < s.alpha_ref
      BY <2>1, RegimeBetweenLimits, <1>1
    <3>2. Interpolated(FastLDMax, FastOnspeed, s.alpha_y, s.alpha_ref, air.alpha) \in Nat
      BY <1>1, <3>1, RateAssumption, InterpolatedPeriod
    <3> QED BY <2>1, <3>2
  <2>2. CASE regime = "SLOW"
    <3>1. s.alpha_ref < s.alpha_stall_warning
      BY <2>2, RegimeBetweenLimits, <1>1
    <3>2. Interpolated(SlowOnspeed, SlowStall, s.alpha_ref, s.alpha_stall_warning, air.alpha)
            \in Nat
      BY <1>1, <3>1, RateAssumption, InterpolatedPeriod
    <3> QED BY <2>2, <3>2
  <2>3. CASE regime \notin {"FAST", "SLOW"}
    <3>1. StallWarning \in Int /\ 1 \in Positive
      BY RateAssumption DEF Positive
    <3>2. FrequencyToPeriod(StallWarning, 1) \in Nat
      BY <3>1, PeriodOfFrequency
    <3> QED BY <2>3, <3>2
  <2> QED BY <2>1, <2>2, <2>3
<1> HIDE DEF tolerance, regime, period, gains
<1>6. regime # "CRUISE" =>
        /\ AsksPitch(pitch)
        /\ IF regime = "ONSPEED" THEN AsksSteady ELSE AsksPulses
  <2> SUFFICES ASSUME regime # "CRUISE"
               PROVE  AsksPitch(pitch) /\ IF regime = "ONSPEED" THEN AsksSteady ELSE AsksPulses
    OBVIOUS
  <2>1. FlyOnSpeed[3] = SetPeriod(FrequencyToPeriod(pitch, 1)) /\ FlyOnSpeed[4] = wave
    BY <1>4
  <2>2. PeriodDefault \in Positive
    BY RateAssumption DEF Positive
  <2>3. LET steady == SetParameters(PeriodDefault, PeriodDefault, 0)
        IN  steady.layer = "pwm" /\ steady.cycle.on = steady.cycle.period
    BY <2>2, AllIsSteady
  <2>4. LET pulses == SetParameters(period, period \div 2, Ramp)
        IN  pulses.layer = "pwm" /\ pulses.cycle.on < pulses.cycle.period
    BY <1>5, HalfIsPulses
  <2> QED BY <2>1, <2>3, <2>4, Zenon DEF AsksPitch, AsksSteady, AsksPulses
<1>7. /\ alpha < s.alpha_y => regime = "CRUISE"
      /\ alpha >= s.alpha_y /\ alpha = s.alpha_ref => regime = "ONSPEED"
      /\ alpha >= s.alpha_y /\ alpha < s.alpha_ref
           /\ 100 * Magnitude(alpha - s.alpha_ref) > tolerance => regime = "FAST"
      /\ alpha >= s.alpha_y /\ alpha > s.alpha_ref
           /\ 100 * Magnitude(alpha - s.alpha_ref) > tolerance =>
                regime \in {"SLOW", "STALL_WARNING"}
  BY <1>1, <1>2, <1>3 DEF Magnitude, Positive
<1> QED BY <1>4, <1>6, <1>7 DEF tolerance

LEMMA SquareWaveIsCall ==
  ASSUME NEW period \in Periods
  PROVE  SquareWave(period) \in SchemeCalls
<1>1. OnOffBase \in Nat /\ Ramp \in Nat /\ period \in Nat
  BY RateAssumption DEF Periods
<1>2. CASE period \div 2 < OnOffBase
  <2>1. period \in 0..period /\ 0 \in Nat
    BY <1>1
  <2>2. SetParameters(period, period, 0) \in SchemeCalls
    BY <2>1, CallsAreCalls
  <2> QED BY <1>2, <2>2 DEF SquareWave
<1>3. CASE ~(period \div 2 < OnOffBase)
  <2>1. period - OnOffBase \in 0..period
    BY <1>1, <1>3
  <2>2. SetParameters(period, period - OnOffBase, Ramp) \in SchemeCalls
    BY <1>1, <2>1, CallsAreCalls
  <2> QED BY <1>3, <2>2 DEF SquareWave
<1> QED BY <1>2, <1>3

LEMMA RatioIsNumber ==
  ASSUME Read
  PROVE  BetaRatio \in Int
<1> DEFINE s == settings
           above == air.alpha - s.alpha_ref
           width == s.beta_full_scale * (s.alpha_stall - s.alpha_ref)
           steep == (Full * air.beta * Amplification * above) \div width
           plain == (Full * air.beta) \div s.beta_full_scale
           ratio == IF air.alpha # NaN /\ above > 0 THEN steep ELSE plain
<1>1. BetaRatio = IF air.beta = NaN THEN -Full ELSE Smaller(Full, Larger(-Full, ratio))
  BY DEF BetaRatio
<1>2. Full \in Int /\ Amplification \in Int
  BY RateAssumption DEF Positive
<1>3. CASE air.beta = NaN
  BY <1>1, <1>2, <1>3
<1>4. CASE air.beta # NaN
  <2>1. air.beta \in Int
    BY <1>4, WhatIsRead
  <2>2. plain \in Int
    <3>1. Full * air.beta \in Int
      BY <1>2, <2>1, Products
    <3> QED BY <3>1, WhatIsRead, Quotients
  <2>3. CASE air.alpha = NaN
    BY <1>1, <1>2, <1>4, <2>2, <2>3 DEF Smaller, Larger
  <2>4. CASE air.alpha # NaN
    <3>1. above \in Int
      BY <2>4, WhatIsRead
    <3>2. width \in Positive
      <4>1. s.beta_full_scale \in Positive /\ s.alpha_stall - s.alpha_ref \in Positive
        BY WhatIsRead DEF Positive
      <4> QED BY <4>1, Products
    <3> HIDE DEF above, width
    <3>3. Full * air.beta * Amplification * above \in Int
      BY <1>2, <2>1, <3>1, Products
    <3>4. steep \in Int
      BY <3>2, <3>3, Quotients
    <3>5. ratio \in Int
      BY <2>2, <3>4
    <3> HIDE DEF ratio
    <3> QED BY <1>1, <1>2, <1>4, <3>5 DEF Smaller, Larger
  <2> QED BY <2>3, <2>4
<1> QED BY <1>3, <1>4

LEMMA FenceGainIsNumber ==
  ASSUME Read, NEW towards \in Int
  PROVE  FenceGain(towards) \in Int
<1> DEFINE s == settings
           width == s.alpha_stall - s.alpha_ref
           above == air.alpha - s.alpha_ref
           low == 2 * width * Larger(0, towards)
           middle == width * towards + 2 * Full * above
           high == 2 * width * (towards + Full)
           part == IF Less(air.alpha, s.alpha_ref) THEN low
                   ELSE IF Less(air.alpha, s.alpha_stall) THEN middle
                   ELSE high
           all == 4 * Full * width
<1>1. FenceGain(towards) = (s.volume * Smaller(all, part)) \div all
  BY DEF FenceGain
<1>2. width \in Positive /\ Full \in Positive /\ s.volume \in Int /\ 4 \in Positive
  BY WhatIsRead DEF Positive
<1>3. all \in Positive
  BY <1>2, Products
<1>4. low \in Int /\ high \in Int
  <2>1. Larger(0, towards) \in Int /\ towards + Full \in Int /\ width \in Int
    BY <1>2 DEF Larger, Positive
  <2> HIDE DEF width
  <2> QED BY <2>1, Products
<1>5. air.alpha # NaN => middle \in Int
  <2> SUFFICES ASSUME air.alpha # NaN PROVE middle \in Int
    OBVIOUS
  <2>1. above \in Int /\ width \in Int /\ Full \in Int
    BY <1>2, WhatIsRead DEF Positive
  <2> HIDE DEF above, width
  <2> QED BY <2>1, SMT
<1>6. part \in Int
  <2> HIDE DEF low, middle, high
  <2> QED BY <1>4, <1>5 DEF Less
<1> HIDE DEF part, all
<1>7. Smaller(all, part) \in Int
  BY <1>3, <1>6 DEF Smaller, Positive
<1>8. s.volume * Smaller(all, part) \in Int
  BY <1>2, <1>7, Products
<1> QED BY <1>1, <1>3, <1>8, Quotients

LEMMA StallFenceCalls ==
  ASSUME Read
  PROVE  StallFence \in Seq(SchemeCalls) /\ Len(StallFence) <= 4
<1> DEFINE octaves == (Octaves * AboveMin) \div AngleRange
           pitch == IF air.alpha = NaN THEN CastOfNone ELSE OctavesToPeriod(octaves)
           pwm_period == IF air.alpha = NaN THEN CastOfNone
                         ELSE Interpolated(PwmMin, PwmMax, settings.alpha_min,
                                           settings.alpha_stall, air.alpha)
           least == Smaller(pwm_period, FrequencyToPeriod(PwmMin, 1))
<1>1. StallFence = << SetPeriod(pitch), SquareWave(least), SetRampPeriod(Ramp),
                      SetGains(FenceGain(-BetaRatio), FenceGain(BetaRatio)) >>
  BY DEF StallFence
<1>2. /\ CastOfNone \in Periods /\ CastOfNone \in Nat /\ Ramp \in Nat /\ Octaves \in Nat
      /\ PwmMin \in Positive /\ PwmMax \in Positive /\ 1 \in Positive
  BY RateAssumption, LowPeriods DEF Positive
<1>3. pitch \in Periods
  <2>1. CASE air.alpha = NaN
    BY <1>2, <2>1
  <2>2. CASE air.alpha # NaN
    <3>1. AboveMin \in Int /\ AngleRange \in Positive /\ air.alpha \in Int
          /\ settings.alpha_min \in Int /\ AboveMin = air.alpha - settings.alpha_min
      BY <2>2, WhatIsRead DEF AboveMin, AngleRange, Positive
    <3>2. Octaves * AboveMin \in Int
      BY <1>2, <3>1, Products
    <3>3. octaves \in Int
      BY <3>1, <3>2, Quotients
    <3>4. CASE AboveMin >= 0
      <4>1. Octaves * AboveMin \in Nat
        BY <1>2, <3>1, <3>4, Products
      <4>2. octaves \in Nat
        BY <3>1, <4>1, Quotients
      <4> HIDE DEF octaves
      <4> QED BY <2>2, <4>2, PeriodOfOctaves
    <3>5. CASE ~(AboveMin >= 0)
      <4>1. air.alpha < settings.alpha_min
        BY <3>1, <3>5
      <4>2. OctavesToPeriod(octaves) + Frames <= Modulus
        BY <2>2, <4>1, CountAssumption DEF Read, AboveMin, AngleRange
      <4>3. OctavesToPeriod(octaves) \in Nat
        <5> HIDE DEF octaves
        <5>1. octaves >= 0 => octaves \in Nat
          BY <3>3
        <5> QED BY <3>3, <5>1, PeriodOfOctaves, PeriodOfLowOctaves DEF Periods
      <4> HIDE DEF octaves
      <4> QED BY <2>2, <4>2, <4>3 DEF Periods
    <3> QED BY <3>4, <3>5
  <2> QED BY <2>1, <2>2
<1>4. pwm_period \in Nat
  <2>1. CASE air.alpha = NaN
    BY <1>2, <2>1
  <2>2. CASE air.alpha # NaN
    <3>1. settings.alpha_min \in Int /\ settings.alpha_stall \in Int /\ air.alpha \in Int
          /\ settings.alpha_min < settings.alpha_stall
      BY <2>2, WhatIsRead
    <3>2. Interpolated(PwmMin, PwmMax, settings.alpha_min, settings.alpha_stall, air.alpha)
            \in Nat
      BY <1>2, <3>1, InterpolatedPeriod
    <3> QED BY <2>2, <3>2
  <2> QED BY <2>1, <2>2
<1>5. least \in Periods
  <2> HIDE DEF pwm_period
  <2>1. PwmMin \in Int /\ PwmMin >= 1
    BY <1>2 DEF Positive
  <2>2. FrequencyToPeriod(PwmMin, 1) \in Periods
    BY <1>2, <2>1, PeriodOfFrequency
  <2> QED BY <1>4, <2>2, FramesAssumption DEF Smaller, Periods, Positive
<1>6. SetGains(FenceGain(-BetaRatio), FenceGain(BetaRatio)) \in SchemeCalls
  <2>1. BetaRatio \in Int /\ -BetaRatio \in Int
    BY RatioIsNumber
  <2>2. FenceGain(-BetaRatio) \in Int /\ FenceGain(BetaRatio) \in Int
    BY <2>1, FenceGainIsNumber
  <2> QED BY <2>2, CallsAreCalls
<1> HIDE DEF pitch, least
<1>7. /\ SetPeriod(pitch) \in SchemeCalls /\ SetRampPeriod(Ramp) \in SchemeCalls
      /\ SquareWave(least) \in SchemeCalls
  BY <1>2, <1>3, <1>5, CallsAreCalls, SquareWaveIsCall
<1> QED BY <1>1, <1>6, <1>7

-----------------------------------------------------------------------------
(* SoundLayers: the types. *)

Balances == [step : Nat, goal : Gains, current : Gains]

\* LayersTypeOK, with records that are what they are, and what calls carry.
LayersTypes ==
    /\ tone \in OscillatingOver(ToneCycles) /\ pwm \in OscillatingOver(Waves)
    /\ balance \in Balances
    /\ apc \in {"toTone", "tone", "toPwm", "pwm", "toBalance", "balance"}
    /\ i \in 0..Frames
    /\ installed \in {"flyonspeed", "stallfence"}
    /\ Read
    /\ samples \in 0..MaxSamples
    /\ calls \in Seq(SchemeCalls) /\ Len(calls) <= 4

LEMMA PeriodsArePositive ==
  /\ \A c \in ToneCycles : c.period \in Positive
  /\ \A c \in Waves : c.period \in Positive
BY DEF ToneCycles, Waves, PwmCycles

LEMMA LayerKeepsType ==
  ASSUME NEW C, \A c \in C : c.period \in Positive,
         NEW layer \in OscillatingOver(C)
  PROVE  /\ \A n \in 0..(Frames - 1) : Frame(layer, n) \in OscillatingOver(C)
         /\ Ended(layer) \in OscillatingOver(C)
         /\ \A c \in C : Told(layer, c) \in OscillatingOver(C)
<1>1. ASSUME NEW n \in 0..(Frames - 1) PROVE Frame(layer, n) \in OscillatingOver(C)
  <2>1. CASE Elapsed(layer, n) % layer.cycle.period = 0 /\ layer.changing
    BY <2>1, ChangeIsMade
  <2>2. CASE ~(Elapsed(layer, n) % layer.cycle.period = 0 /\ layer.changing)
    BY <2>2, Zenon DEF Frame, Elapsed
  <2> QED BY <2>1, <2>2
<1>2. Ended(layer) \in OscillatingOver(C)
  <2> DEFINE q == (layer.pos + Frames) % Modulus
             p == layer.cycle.period
             at == q % p
  <2>1. layer.pos + Frames \in Nat /\ Modulus \in Positive /\ p \in Positive
    BY FramesAssumption DEF OscillatingOver, Positive
  <2>2. q \in 0..(Modulus - 1)
    BY <2>1, Divided
  <2>3. at \in 0..(Modulus - 1)
    <3> HIDE DEF q, p
    <3>1. q \in Nat
      BY <2>2
    <3>2. q = p * (q \div p) + (q % p) /\ q \div p \in Nat /\ q % p \in 0..(p - 1)
      BY <2>1, <3>1, Divided
    <3>3. p * (q \div p) \in Nat
      BY <2>1, <3>2, Products DEF Positive
    <3> QED BY <2>1, <2>2, <3>2, <3>3 DEF Positive
  <2>4. Ended(layer) = [layer EXCEPT !.pos = at]
    BY DEF Ended
  <2> HIDE DEF at
  <2> QED BY <2>3, <2>4, Zenon DEF OscillatingOver
<1>3. ASSUME NEW c \in C PROVE Told(layer, c) \in OscillatingOver(C)
  BY <1>3, Zenon DEF Told, OscillatingOver
<1> QED BY <1>1, <1>2, <1>3

\* A gain that steps towards another stays between 0 and 1.
LEMMA StepStaysInRange ==
  ASSUME balance.step \in Nat, NEW from \in 0..Full, NEW goal \in 0..Full
  PROVE  StepGain(from, goal) \in 0..Full
BY RateAssumption DEF StepGain, Magnitude, Positive

\* What the next call is.
LEMMA NextCall ==
  ASSUME LayersTypes, calls # <<>>
  PROVE  /\ Head(calls) \in SchemeCalls
         /\ Tail(calls) \in Seq(SchemeCalls) /\ Len(Tail(calls)) <= 4
<1>1. calls \in Seq(SchemeCalls) /\ Len(calls) \in Nat /\ Len(calls) <= 4
  BY LenProperties DEF LayersTypes
<1>2. Head(calls) \in SchemeCalls /\ Tail(calls) \in Seq(SchemeCalls)
      /\ Len(Tail(calls)) = Len(calls) - 1
  BY <1>1, HeadTailProperties
<1> QED BY <1>1, <1>2

LEMMA CallKinds ==
  ASSUME NEW c \in SchemeCalls
  PROVE  /\ c.layer = "tone" => c.cycle \in ToneCycles /\ Fits(c.cycle)
         /\ c.layer = "pwm" => c.cycle \in Waves /\ Fits(c.cycle)
         /\ c.layer = "balance" /\ c.call = "ramp" => c.ramp \in Nat
         /\ c.layer = "balance" /\ c.call # "ramp" => c.left \in 0..Full /\ c.right \in 0..Full
BY DEF SchemeCalls, ToneCalls, PwmCalls, GainsCalls, RampCalls, Fitting

LEMMA OneFits == 1 \in Periods
BY FramesAssumption DEF Periods, Positive

LEMMA InitEstablishesLayersTypes == LayersInit => LayersTypes
<1> SUFFICES ASSUME LayersInit PROVE LayersTypes
  OBVIOUS
<1> USE DEF LayersInit
<1>1. ToneCycle(1) \in ToneCycles
  BY TonePeriod, OneFits DEF Fitting
<1>2. PwmCycle(1, 1, 1) \in Waves
  BY WavePeriod, OneFits DEF Fitting
<1>3. 0 \in 0..(Modulus - 1)
  BY FramesAssumption DEF Positive
<1>4. tone \in OscillatingOver(ToneCycles)
  BY <1>1, <1>3, Zenon DEF OscillatingOver, Oscillating
<1>5. pwm \in OscillatingOver(Waves)
  BY <1>2, <1>3, Zenon DEF OscillatingOver, Oscillating
<1>6. balance \in Balances
  <2>1. GainStep(1) \in Nat /\ Full \in 0..Full
    BY RateAssumption DEF GainStep, Positive
  <2> QED BY <2>1 DEF Balances, Gains
<1>7. i \in 0..Frames /\ samples \in 0..MaxSamples
  BY FramesAssumption, AirAssumption DEF Positive
<1>8. calls \in Seq(SchemeCalls) /\ Len(calls) <= 4
  OBVIOUS
<1>9. Read
  BY DEF Read
<1> QED BY <1>4, <1>5, <1>6, <1>7, <1>8, <1>9 DEF LayersTypes

LEMMA NextPreservesLayersTypes == LayersTypes /\ [LayersNext]_layersVars => LayersTypes'
<1> SUFFICES ASSUME LayersTypes, [LayersNext]_layersVars PROVE LayersTypes'
  OBVIOUS
<1> USE DEF layerVars, input
<1>1. CASE NewSample
  <2>1. samples' \in 0..MaxSamples /\ air' \in Airs
    BY <1>1, AirAssumption DEF NewSample, LayersTypes
  <2> QED BY <1>1, <2>1, Zenon DEF NewSample, LayersTypes, Read
<1>2. CASE UpdateScheme
  <2>1. calls' \in Seq(SchemeCalls) /\ Len(calls') <= 4
    BY <1>2, FlyOnSpeedCalls, StallFenceCalls DEF UpdateScheme, LayersTypes
  <2> QED BY <1>2, <2>1, Zenon DEF UpdateScheme, LayersTypes, Read
<1>3. CASE CallTone
  <2>1. Head(calls).cycle \in ToneCycles
    BY <1>3, NextCall, CallKinds DEF CallTone
  <2>2. tone' \in OscillatingOver(ToneCycles)
    <3>1. Told(tone, Head(calls).cycle) \in OscillatingOver(ToneCycles)
      BY <2>1, LayerKeepsType, PeriodsArePositive DEF LayersTypes
    <3> QED BY <1>3, <3>1 DEF CallTone
  <2>3. calls' \in Seq(SchemeCalls) /\ Len(calls') <= 4
    BY <1>3, NextCall DEF CallTone
  <2> QED BY <1>3, <2>2, <2>3, Zenon DEF CallTone, LayersTypes, Read
<1>4. CASE CallPwm
  <2>1. Head(calls).cycle \in Waves
    BY <1>4, NextCall, CallKinds DEF CallPwm
  <2>2. pwm' \in OscillatingOver(Waves)
    <3>1. Told(pwm, Head(calls).cycle) \in OscillatingOver(Waves)
      BY <2>1, LayerKeepsType, PeriodsArePositive DEF LayersTypes
    <3> QED BY <1>4, <3>1 DEF CallPwm
  <2>3. calls' \in Seq(SchemeCalls) /\ Len(calls') <= 4
    BY <1>4, NextCall DEF CallPwm
  <2> QED BY <1>4, <2>2, <2>3, Zenon DEF CallPwm, LayersTypes, Read
<1>5. CASE CallBalance
  <2> DEFINE c == Head(calls)
  <2>1. c \in SchemeCalls /\ c.layer = "balance"
    BY <1>5, NextCall DEF CallBalance
  <2>2. calls' \in Seq(SchemeCalls) /\ Len(calls') <= 4
    BY <1>5, NextCall DEF CallBalance
  <2>3. balance' \in Balances
    <3>1. CASE c.call = "ramp"
      <4>1. c.ramp \in Nat
        BY <2>1, <3>1, CallKinds
      <4> HIDE DEF c
      <4>2. GainStep(c.ramp) \in Nat
        <5>1. CASE c.ramp = 0
          BY <5>1, RateAssumption DEF GainStep, Positive
        <5>2. CASE c.ramp # 0
          <6>1. c.ramp \in Positive /\ Full \in Int /\ Full >= 0
            BY <4>1, <5>2, RateAssumption DEF Positive
          <6> QED BY <5>2, <6>1, Quotients DEF GainStep
        <5> QED BY <5>1, <5>2
      <4>3. balance' = [balance EXCEPT !.step = GainStep(c.ramp)]
        BY <1>5, <3>1 DEF CallBalance, c
      <4> QED BY <4>2, <4>3 DEF LayersTypes, Balances
    <3>2. CASE c.call # "ramp"
      <4>1. c.left \in 0..Full /\ c.right \in 0..Full
        BY <2>1, <3>2, CallKinds
      <4>2. balance' = [balance EXCEPT !.goal = [left |-> c.left, right |-> c.right]]
        BY <1>5, <3>2 DEF CallBalance
      <4> HIDE DEF c
      <4> QED BY <4>1, <4>2 DEF LayersTypes, Balances, Gains
    <3> QED BY <3>1, <3>2
  <2> QED BY <1>5, <2>2, <2>3, Zenon DEF CallBalance, LayersTypes, Read
<1>6. CASE ApplyTone
  <2>1. i \in 0..(Frames - 1) /\ i' \in 0..Frames
    BY <1>6, FramesAssumption DEF ApplyTone, LayersTypes, Positive
  <2>2. tone' \in OscillatingOver(ToneCycles)
    <3>1. Frame(tone, i) \in OscillatingOver(ToneCycles)
      BY <2>1, LayerKeepsType, PeriodsArePositive DEF LayersTypes
    <3> QED BY <1>6, <3>1 DEF ApplyTone
  <2> QED BY <1>6, <2>1, <2>2, Zenon DEF ApplyTone, LayersTypes, Read
<1>7. CASE ApplyPwm
  <2>1. i \in 0..(Frames - 1) /\ i' \in 0..Frames
    BY <1>7, FramesAssumption DEF ApplyPwm, LayersTypes, Positive
  <2>2. pwm' \in OscillatingOver(Waves)
    <3>1. Frame(pwm, i) \in OscillatingOver(Waves)
      BY <2>1, LayerKeepsType, PeriodsArePositive DEF LayersTypes
    <3> QED BY <1>7, <3>1 DEF ApplyPwm
  <2> QED BY <1>7, <2>1, <2>2, Zenon DEF ApplyPwm, LayersTypes, Read
<1>8. CASE ApplyBalance
  <2>1. i' \in 0..Frames
    BY <1>8, FramesAssumption DEF ApplyBalance, LayersTypes, Positive
  <2> DEFINE l == StepGain(balance.current.left, balance.goal.left)
             r == StepGain(balance.current.right, balance.goal.right)
  <2>2. l \in 0..Full /\ r \in 0..Full
    <3>1. balance.step \in Nat
          /\ balance.current.left \in 0..Full /\ balance.goal.left \in 0..Full
          /\ balance.current.right \in 0..Full /\ balance.goal.right \in 0..Full
      BY DEF LayersTypes, Balances, Gains
    <3> QED BY <3>1, StepStaysInRange
  <2>3. balance' = [balance EXCEPT !.current = [left |-> l, right |-> r]]
    BY <1>8 DEF ApplyBalance
  <2> HIDE DEF l, r
  <2>4. balance' \in Balances
    BY <2>2, <2>3 DEF LayersTypes, Balances, Gains
  <2> QED BY <1>8, <2>1, <2>4, Zenon DEF ApplyBalance, LayersTypes, Read
<1> 0 \in 0..Frames
  BY FramesAssumption DEF Positive
<1>9. CASE LockTone \/ LockPwm \/ LockBalance \/ UnlockBalance
  BY <1>9, Zenon DEF LockTone, LockPwm, LockBalance, UnlockBalance, LayersTypes, Read
<1>10. CASE UnlockTone
  <2>1. Ended(tone) \in OscillatingOver(ToneCycles)
    BY LayerKeepsType, PeriodsArePositive DEF LayersTypes
  <2> QED BY <1>10, <2>1, Zenon DEF UnlockTone, LayersTypes, Read
<1>11. CASE UnlockPwm
  <2>1. Ended(pwm) \in OscillatingOver(Waves)
    BY LayerKeepsType, PeriodsArePositive DEF LayersTypes
  <2> QED BY <1>11, <2>1, Zenon DEF UnlockPwm, LayersTypes, Read
<1>12. CASE UNCHANGED layersVars
  BY <1>12, Zenon DEF layersVars, LayersTypes, Read
<1> QED
  BY <1>1, <1>2, <1>3, <1>4, <1>5, <1>6, <1>7, <1>8, <1>9, <1>10, <1>11, <1>12
     DEF LayersNext, Call, ApplyLayers

LEMMA TypesThroughout == LayersSpec => []LayersTypes
BY InitEstablishesLayersTypes, NextPreservesLayersTypes, PTL DEF LayersSpec

\* The variables keep their types: whatever the angles, every gain is between 0
\* and 1, all the way to its goal, and every cycle is one frame long at least
\* (balance_layer.h:10, balance_layer.cpp, sine_layer.cpp).
THEOREM LayersTypeCorrectness == LayersSpec => []LayersTypeOK
<1>1. LayersTypes => LayersTypeOK
  <2> SUFFICES ASSUME LayersTypes PROVE LayersTypeOK
    OBVIOUS
  <2>1. /\ tone.cycle \in ToneCycles /\ tone.next \in ToneCycles
        /\ tone.pos \in 0..(Modulus - 1) /\ tone.changing \in BOOLEAN
    BY Zenon DEF LayersTypes, OscillatingOver
  <2>2. /\ pwm.cycle \in PwmCycles /\ pwm.next \in PwmCycles
        /\ pwm.pos \in 0..(Modulus - 1) /\ pwm.changing \in BOOLEAN
    BY Zenon DEF LayersTypes, OscillatingOver, Waves
  <2>3. balance.step \in Nat /\ balance.goal \in Gains /\ balance.current \in Gains
    BY DEF LayersTypes, Balances
  <2> QED BY <2>1, <2>2, <2>3, Zenon DEF LayersTypeOK, LayersTypes, Read
<1> QED
  BY TypesThroughout, <1>1, PTL

-----------------------------------------------------------------------------
(* SoundLayers: the oscillations. *)

\* The frames of this buffer that each of the oscillating layers has played.
ToneFrame == IF apc = "tone" THEN i ELSE 0
PwmFrame == IF apc = "pwm" THEN i ELSE 0

WavesInv ==
    /\ LayersTypes
    /\ Steady(tone, ToneFrame, ToneCycles)
    /\ Steady(pwm, PwmFrame, Waves)

\* A layer that is made plays its first cycle next.
LEMMA MadeIsSteady ==
  ASSUME NEW C, NEW c \in C, c.period = 1
  PROVE  /\ Steady(Oscillating(c), 0, C)
         /\ Oscillating(c).cycle.period = 1 /\ LastPlayed(Oscillating(c), 0) = 0
         /\ Coming(Oscillating(c)) = Oscillating(c).cycle
<1> DEFINE layer == Oscillating(c)
<1>2. 0 \in 0..(Modulus - 1) /\ Modulus \in Positive /\ Frames < Modulus /\ Frames \in Positive
  BY FramesAssumption DEF Positive
<1>3. layer \in OscillatingOver(C)
  BY <1>2, Zenon DEF OscillatingOver, Oscillating
<1>4. layer.cycle = c /\ layer.next = c /\ layer.pos = 0
  BY DEF Oscillating
<1>5. Coming(layer) = layer.cycle
  BY Zenon DEF Coming, Oscillating
<1> HIDE DEF layer
<1>6. 0 % Modulus = 0
  BY <1>2, RemainderOfLess DEF Positive
<1>7. Elapsed(layer, 0) = 0
  BY <1>4, <1>6 DEF Elapsed
<1>8. RunsOn(layer, 0)
  BY <1>2, <1>7 DEF RunsOn, Positive
<1>9. Fits(c)
  BY <1>2 DEF Fits, Positive
<1>10. LastPlayed(layer, 0) = 0
  <2>1. LastPlayed(layer, 0) = (0 + 1 - 1) % 1
    BY <1>4, <1>6 DEF LastPlayed
  <2>2. 1 \in Positive /\ 0 < 1
    BY DEF Positive
  <2> QED BY <2>1, <2>2, RemainderOfLess
<1>11. Steady(layer, 0, C)
  BY <1>3, <1>4, <1>8, <1>9 DEF Steady
<1>12. layer.cycle.period = 1
  BY <1>4
<1> QED BY <1>5, <1>10, <1>11, <1>12 DEF layer

LEMMA InitIsSteady ==
  ASSUME LayersInit
  PROVE  /\ WavesInv
         /\ tone.cycle.period = 1 /\ TonePhase = 0 /\ Coming(tone) = tone.cycle
         /\ pwm.cycle.period = 1 /\ PwmPhase = 0 /\ Coming(pwm) = pwm.cycle
<1>1. ToneFrame = 0 /\ PwmFrame = 0 /\ TonePhase = LastPlayed(tone, 0)
      /\ PwmPhase = LastPlayed(pwm, 0)
  BY DEF LayersInit, ToneFrame, PwmFrame, TonePhase, PwmPhase
<1>2. ToneCycle(1) \in ToneCycles /\ ToneCycle(1).period = 1
  BY TonePeriod, OneFits DEF ToneCycle, Larger, Fitting
<1>3. PwmCycle(1, 1, 1) \in Waves /\ PwmCycle(1, 1, 1).period = 1
  BY WavePeriod, OneFits DEF PwmCycle, Larger, Fitting
<1>4. /\ Steady(tone, 0, ToneCycles) /\ tone.cycle.period = 1 /\ LastPlayed(tone, 0) = 0
      /\ Coming(tone) = tone.cycle
  BY <1>2, MadeIsSteady DEF LayersInit
<1>5. /\ Steady(pwm, 0, Waves) /\ pwm.cycle.period = 1 /\ LastPlayed(pwm, 0) = 0
      /\ Coming(pwm) = pwm.cycle
  BY <1>3, MadeIsSteady DEF LayersInit
<1> QED
  BY <1>1, <1>4, <1>5, InitEstablishesLayersTypes, Zenon DEF WavesInv

\* A layer that is left alone.
LEMMA StaysSteady ==
  ASSUME NEW C, NEW layer, NEW n
  PROVE  Goes(C, layer, n, layer, n)
BY Zenon DEF Goes, Oscillates

LEMMA ToneOscillates ==
  ASSUME WavesInv, [LayersNext]_layersVars
  PROVE  /\ Steady(tone', ToneFrame', ToneCycles)
         /\ Goes(ToneCycles, tone, ToneFrame, tone', ToneFrame')
<1> USE DEF layerVars, input
<1>1. Steady(tone, ToneFrame, ToneCycles) /\ LayersTypes
  BY DEF WavesInv
<1>2. CASE CallTone
  <2> DEFINE c == Head(calls).cycle
  <2>1. c \in ToneCycles /\ Fits(c)
    <3>1. calls # <<>> /\ Head(calls).layer = "tone"
      BY <1>2 DEF CallTone
    <3>2. Head(calls) \in SchemeCalls
      BY <1>1, <3>1, NextCall
    <3> QED BY <3>1, <3>2, CallKinds
  <2>2. apc # "tone" /\ apc' = apc /\ tone' = Told(tone, c)
    BY <1>2 DEF CallTone
  <2> HIDE DEF c
  <2>3. ToneFrame' = ToneFrame
    BY <1>2, Zenon DEF CallTone, ToneFrame
  <2>4. Steady(Told(tone, c), ToneFrame, ToneCycles)
        /\ Goes(ToneCycles, tone, ToneFrame, Told(tone, c), ToneFrame)
    BY <1>1, <2>1, ToldOscillates
  <2> QED BY <2>2, <2>3, <2>4, Zenon
<1>3. CASE ApplyTone
  <2>1. ToneFrame = i /\ ToneFrame' = i + 1 /\ tone' = Frame(tone, i)
    BY <1>3 DEF ApplyTone, ToneFrame
  <2>2. i \in 0..(Frames - 1)
    BY <1>1, <1>3, FramesAssumption DEF ApplyTone, LayersTypes, Positive
  <2>3. Steady(tone, i, ToneCycles)
    BY <1>1, <2>1
  <2>4. Steady(Frame(tone, i), i + 1, ToneCycles)
        /\ Goes(ToneCycles, tone, i, Frame(tone, i), i + 1)
    BY <2>2, <2>3, FrameOscillates, PeriodsArePositive
  <2> QED BY <2>1, <2>4, Zenon
<1>4. CASE UnlockTone
  <2>1. ToneFrame = Frames /\ ToneFrame' = 0 /\ tone' = Ended(tone)
    BY <1>4 DEF UnlockTone, ToneFrame
  <2>2. Steady(tone, Frames, ToneCycles)
    BY <1>1, <2>1
  <2>3. Steady(Ended(tone), 0, ToneCycles)
        /\ Goes(ToneCycles, tone, Frames, Ended(tone), 0)
    BY <2>2, EndedOscillates, PeriodsArePositive
  <2> QED BY <2>1, <2>3, Zenon
<1>5. CASE ~(CallTone \/ ApplyTone \/ UnlockTone)
  <2>1. tone' = tone /\ ToneFrame' = ToneFrame
    BY <1>5 DEF layersVars, LayersNext, NewSample, UpdateScheme, Call, CallPwm, CallBalance,
                ApplyLayers, LockTone, LockPwm, ApplyPwm, UnlockPwm, LockBalance,
                ApplyBalance, UnlockBalance, ToneFrame
  <2> QED BY <1>1, <2>1, StaysSteady, Zenon
<1> QED BY <1>2, <1>3, <1>4, <1>5

LEMMA PwmOscillates ==
  ASSUME WavesInv, [LayersNext]_layersVars
  PROVE  /\ Steady(pwm', PwmFrame', Waves)
         /\ Goes(Waves, pwm, PwmFrame, pwm', PwmFrame')
<1> USE DEF layerVars, input
<1>1. Steady(pwm, PwmFrame, Waves) /\ LayersTypes
  BY DEF WavesInv
<1>2. CASE CallPwm
  <2> DEFINE c == Head(calls).cycle
  <2>1. c \in Waves /\ Fits(c)
    <3>1. calls # <<>> /\ Head(calls).layer = "pwm"
      BY <1>2 DEF CallPwm
    <3>2. Head(calls) \in SchemeCalls
      BY <1>1, <3>1, NextCall
    <3> QED BY <3>1, <3>2, CallKinds
  <2>2. apc # "pwm" /\ apc' = apc /\ pwm' = Told(pwm, c)
    BY <1>2 DEF CallPwm
  <2> HIDE DEF c
  <2>3. PwmFrame' = PwmFrame
    BY <1>2, Zenon DEF CallPwm, PwmFrame
  <2>4. Steady(Told(pwm, c), PwmFrame, Waves)
        /\ Goes(Waves, pwm, PwmFrame, Told(pwm, c), PwmFrame)
    BY <1>1, <2>1, ToldOscillates
  <2> QED BY <2>2, <2>3, <2>4, Zenon
<1>3. CASE ApplyPwm
  <2>1. PwmFrame = i /\ PwmFrame' = i + 1 /\ pwm' = Frame(pwm, i)
    BY <1>3 DEF ApplyPwm, PwmFrame
  <2>2. i \in 0..(Frames - 1)
    BY <1>1, <1>3, FramesAssumption DEF ApplyPwm, LayersTypes, Positive
  <2>3. Steady(pwm, i, Waves)
    BY <1>1, <2>1
  <2>4. Steady(Frame(pwm, i), i + 1, Waves)
        /\ Goes(Waves, pwm, i, Frame(pwm, i), i + 1)
    BY <2>2, <2>3, FrameOscillates, PeriodsArePositive
  <2> QED BY <2>1, <2>4, Zenon
<1>4. CASE UnlockPwm
  <2>1. PwmFrame = Frames /\ PwmFrame' = 0 /\ pwm' = Ended(pwm)
    BY <1>4 DEF UnlockPwm, PwmFrame
  <2>2. Steady(pwm, Frames, Waves)
    BY <1>1, <2>1
  <2>3. Steady(Ended(pwm), 0, Waves)
        /\ Goes(Waves, pwm, Frames, Ended(pwm), 0)
    BY <2>2, EndedOscillates, PeriodsArePositive
  <2> QED BY <2>1, <2>3, Zenon
<1>5. CASE ~(CallPwm \/ ApplyPwm \/ UnlockPwm)
  <2>1. pwm' = pwm /\ PwmFrame' = PwmFrame
    BY <1>5 DEF layersVars, LayersNext, NewSample, UpdateScheme, Call, CallTone, CallBalance,
                ApplyLayers, LockTone, ApplyTone, UnlockTone, LockPwm, LockBalance,
                ApplyBalance, UnlockBalance, PwmFrame
  <2> QED BY <1>1, <2>1, StaysSteady, Zenon
<1> QED BY <1>2, <1>3, <1>4, <1>5

LEMMA NextPreservesWavesInv == WavesInv /\ [LayersNext]_layersVars => WavesInv'
BY NextPreservesLayersTypes, ToneOscillates, PwmOscillates, Zenon DEF WavesInv

LEMMA WavesThroughout == LayersSpec => []WavesInv
BY InitIsSteady, NextPreservesWavesInv, PTL DEF LayersSpec

ToneState == <<tone.cycle, TonePhase, Coming(tone)>>
SquareWaveState == <<pwm.cycle, PwmPhase, Coming(pwm)>>

LEMMA InitOfOscillators == LayersInit => ToneWave!Init /\ SquareWaves!Init
<1> SUFFICES ASSUME LayersInit PROVE ToneWave!Init /\ SquareWaves!Init
  OBVIOUS
<1>1. /\ tone.cycle \in ToneCycles /\ pwm.cycle \in PwmCycles
      /\ tone.cycle.period = 1 /\ TonePhase = 0 /\ Coming(tone) = tone.cycle
      /\ pwm.cycle.period = 1 /\ PwmPhase = 0 /\ Coming(pwm) = pwm.cycle
  BY InitIsSteady DEF WavesInv, LayersTypes, OscillatingOver, Waves
<1> QED BY <1>1 DEF ToneWave!Init, SquareWaves!Init

LEMMA StepsOfOscillators ==
  WavesInv /\ [LayersNext]_layersVars
    => [ToneWave!Next]_ToneState /\ [SquareWaves!Next]_SquareWaveState
<1> SUFFICES ASSUME WavesInv, [LayersNext]_layersVars
             PROVE  [ToneWave!Next]_ToneState /\ [SquareWaves!Next]_SquareWaveState
  OBVIOUS
<1>1. [ToneWave!Next]_ToneState
  <2>1. TonePhase = LastPlayed(tone, ToneFrame) /\ TonePhase' = LastPlayed(tone', ToneFrame')
    BY DEF TonePhase, ToneFrame
  <2>2. Oscillates(ToneCycles, tone.cycle, TonePhase, Coming(tone),
                   tone'.cycle, TonePhase', Coming(tone'))
    BY ToneOscillates, <2>1, Zenon DEF Goes
  <2> QED
    BY <2>2, Zenon DEF Oscillates, ToneState, ToneWave!Next, ToneWave!Play, ToneWave!Tell,
                       ToneWave!GoOn, ToneWave!Begin
<1>2. [SquareWaves!Next]_SquareWaveState
  <2>1. PwmPhase = LastPlayed(pwm, PwmFrame) /\ PwmPhase' = LastPlayed(pwm', PwmFrame')
    BY DEF PwmPhase, PwmFrame
  <2>2. Oscillates(Waves, pwm.cycle, PwmPhase, Coming(pwm),
                   pwm'.cycle, PwmPhase', Coming(pwm'))
    BY PwmOscillates, <2>1, Zenon DEF Goes
  <2>3. \A c : c \in Waves => c \in PwmCycles
    BY DEF Waves
  <2> QED
    BY <2>2, <2>3, Zenon DEF Oscillates, SquareWaveState, SquareWaves!Next,
                       SquareWaves!Play, SquareWaves!Tell, SquareWaves!GoOn, SquareWaves!Begin
<1> QED BY <1>1, <1>2

\* Tone and square wave are oscillators: they finish the cycle they are in, and
\* begin the next one as they were last told, whatever the schemes ask for, in
\* buffers of any size (sine_layer.cpp, pwm_layer.cpp; the safety part of
\* CyclesFinish).
THEOREM LayersImplementOscillator ==
  LayersSpec =>
    /\ ToneWave!Init /\ [][ToneWave!Next]_ToneState
    /\ SquareWaves!Init /\ [][SquareWaves!Next]_SquareWaveState
BY WavesThroughout, InitOfOscillators, StepsOfOscillators, PTL DEF LayersSpec

-----------------------------------------------------------------------------
(* SoundLayers: the gain of the square wave. *)

FadeOf(c) == Larger(1, c.fade)

\* Within a cycle the gain is moved by a step of the fade at most.
LEMMA FadeIsGradual ==
  ASSUME NEW c \in Waves, NEW k \in 0..(c.period - 1), k + 1 < c.period
  PROVE  \E d \in {-1, 0, 1} : Factor(c, k + 1) = Factor(c, k) + d
<1>1. c.period \in Nat /\ c.on \in Nat /\ c.fade \in Nat /\ c.on + c.fade <= c.period
  BY DEF Waves, PwmCycles, Positive
<1> QED BY <1>1 DEF Factor, Larger

\* It ends where the next cycle begins, or a step before.
LEMMA FadeIsComplete ==
  ASSUME NEW c \in Waves, c.on > 0
  PROVE  /\ Factor(c, 0) = FadeOf(c)
         /\ \E d \in {0, 1} : Factor(c, c.period - 1) = FadeOf(c) - d
         /\ FadeOf(c) \in Positive
<1>1. c.period \in Nat /\ c.on \in Nat /\ c.fade \in Nat /\ c.on + c.fade <= c.period
  BY DEF Waves, PwmCycles, Positive
<1> QED BY <1>1 DEF Factor, Larger, FadeOf, Positive

LEMMA FactorIsNumber ==
  ASSUME NEW c \in Waves, NEW k \in Int
  PROVE  Factor(c, k) \in Int /\ FadeOf(c) \in Positive
<1>1. c.period \in Nat /\ c.on \in Nat /\ c.fade \in Nat
  BY DEF Waves, PwmCycles, Positive
<1> QED BY <1>1 DEF Factor, Larger, FadeOf, Positive

\* A change of one step, in parts of another fade.
LEMMA Scaled ==
  ASSUME NEW a \in Int, NEW d \in {-1, 0, 1}, NEW b \in Positive, NEW e \in Positive
  PROVE  Magnitude(a * b - (a + d) * b) <= Larger(b, e)
<1>1. (a + d) * b = a * b + d * b /\ a * b \in Int
  BY SMT DEF Positive
<1>2. d * b \in {-b, 0, b}
  BY DEF Positive
<1> DEFINE x == a * b
           y == d * b
<1> HIDE DEF x, y
<1>3. x \in Int /\ y \in {-b, 0, b} /\ (a + d) * b = x + y /\ b \in Int /\ b > 0 /\ e \in Int
  BY <1>1, <1>2 DEF x, y, Positive
<1>4. x - (x + y) = -y
  BY <1>3
<1>5. Magnitude(-y) <= Larger(b, e)
  BY <1>3 DEF Magnitude, Larger
<1> QED BY <1>3, <1>4, <1>5 DEF x

LEMMA OscillatingIsSmooth ==
  ASSUME WavesInv, [LayersNext]_layersVars,
         pwm.cycle.on > 0, pwm'.cycle.on > 0
  PROVE  Magnitude(Factor(pwm.cycle, PwmPhase) * FadeOf(pwm'.cycle)
                    - Factor(pwm'.cycle, PwmPhase') * FadeOf(pwm.cycle))
           <= Larger(FadeOf(pwm.cycle), FadeOf(pwm'.cycle))
<1> DEFINE c == pwm.cycle
           d == pwm'.cycle
           k == PwmPhase
           l == PwmPhase'
<1>1. c \in Waves /\ d \in Waves
  <2>1. pwm' \in OscillatingOver(Waves)
    BY PwmOscillates DEF Steady
  <2> QED BY <2>1 DEF WavesInv, LayersTypes, OscillatingOver
<1>2. k = LastPlayed(pwm, PwmFrame) /\ l = LastPlayed(pwm', PwmFrame')
  BY DEF PwmPhase, PwmFrame
<1>3. Oscillates(Waves, c, k, Coming(pwm), d, l, Coming(pwm'))
  BY PwmOscillates, <1>2, Zenon DEF Goes
<1>4. k \in 0..(c.period - 1)
  <2>1. pwm \in OscillatingOver(Waves) /\ PwmFrame \in Nat
    BY FramesAssumption DEF WavesInv, LayersTypes, PwmFrame, Positive
  <2>2. c.period \in Nat /\ c.period > 0
    BY <1>1 DEF Waves, PwmCycles, Positive
  <2>3. /\ Elapsed(pwm, PwmFrame) % c.period \in 0..(c.period - 1)
        /\ k = IF Elapsed(pwm, PwmFrame) % c.period = 0 THEN c.period - 1
               ELSE (Elapsed(pwm, PwmFrame) % c.period) - 1
    BY <1>2, <2>1, PhaseIs, PeriodsArePositive
  <2> HIDE DEF c, k
  <2> QED BY <2>2, <2>3
<1>5. \/ d = c /\ l = k
      \/ d = c /\ k + 1 < c.period /\ l = k + 1
      \/ k + 1 = c.period /\ l = 0
  BY <1>3, Zenon DEF Oscillates
<1>6. c.on > 0 /\ d.on > 0
  OBVIOUS
<1> SUFFICES Magnitude(Factor(c, k) * FadeOf(d) - Factor(d, l) * FadeOf(c))
                <= Larger(FadeOf(c), FadeOf(d))
  OBVIOUS
<1> HIDE DEF c, d, k, l
<1>7. Factor(c, k) \in Int /\ FadeOf(c) \in Positive /\ FadeOf(d) \in Positive /\ 0 \in {-1, 0, 1}
  BY <1>1, <1>4, FactorIsNumber
<1>8. CASE d = c /\ l = k
  <2>1. Magnitude(Factor(c, k) * FadeOf(c) - (Factor(c, k) + 0) * FadeOf(c))
            <= Larger(FadeOf(c), FadeOf(c))
    BY <1>7, Scaled
  <2>2. Factor(c, k) + 0 = Factor(c, k)
    BY <1>7
  <2> QED BY <1>8, <2>1, <2>2, Zenon
<1>9. CASE d = c /\ k + 1 < c.period /\ l = k + 1
  <2>1. PICK e \in {-1, 0, 1} : Factor(c, l) = Factor(c, k) + e
    BY <1>1, <1>4, <1>9, FadeIsGradual
  <2>2. Magnitude(Factor(c, k) * FadeOf(c) - (Factor(c, k) + e) * FadeOf(c))
            <= Larger(FadeOf(c), FadeOf(c))
    BY <1>7, Scaled
  <2> QED BY <1>9, <2>1, <2>2, Zenon
<1>10. CASE k + 1 = c.period /\ l = 0
  <2>1. k = c.period - 1
    BY <1>1, <1>4, <1>10
  <2>2. PICK e \in {0, 1} : Factor(c, k) = FadeOf(c) - e
    BY <1>1, <1>6, <2>1, FadeIsComplete
  <2>3. Factor(d, l) = FadeOf(d)
    BY <1>1, <1>6, <1>10, FadeIsComplete
  <2> DEFINE a == Factor(c, k)
             f == FadeOf(c)
             g == FadeOf(d)
  <2>4. a \in Int /\ f \in Positive /\ g \in Positive /\ f = a + e /\ e \in {-1, 0, 1}
    BY <1>7, <2>2 DEF Positive
  <2> HIDE DEF a, f, g
  <2>5. Magnitude(a * g - (a + e) * g) <= Larger(g, f)
    BY <2>4, Scaled
  <2>6. g * f = (a + e) * g
    BY <2>4, SMT DEF Positive
  <2>7. Larger(g, f) = Larger(f, g)
    BY <2>4 DEF Larger, Positive
  <2>8. Magnitude(a * g - g * f) <= Larger(f, g)
    BY <2>5, <2>6, <2>7, Zenon
  <2> QED BY <2>3, <2>8 DEF a, f, g
<1> QED BY <1>5, <1>8, <1>9, <1>10

\* No change of the parameters, and no frame, moves the gain of the square wave
\* by more than a step of its fade: there is no click, whatever the schemes ask
\* for (pwm_layer.h:10-13, pwm_layer.cpp).
THEOREM SquareWaveNeverClicks == LayersSpec => NoClick
<1>1. WavesInv /\ [LayersNext]_layersVars => [Smooth]_pwm
  <2> SUFFICES ASSUME WavesInv, [LayersNext]_layersVars PROVE Smooth
    OBVIOUS
  <2> QED BY OscillatingIsSmooth DEF Smooth, FadeOf
<1> QED
  BY WavesThroughout, <1>1, PTL DEF LayersSpec, NoClick
==============================================================================
