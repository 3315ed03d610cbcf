----------------------------- MODULE SoundMixer ------------------------------
(* sound_mixer/sound_mixer.cpp with its client, airball_sound_scheme: the     *)
(* mixer's server thread waits to be started, and then applies the layers to  *)
(* one buffer after the other; the UI thread replaces the layers, and frees   *)
(* the scheme that they are members of, when the settings name another one.   *)
(*                                                                            *)
(* What a layer does to a buffer is left out.  Condition variables wake nobody *)
(* by themselves here.                                                         *)
EXTENDS Naturals, Sequences, FiniteSets

CONSTANTS
    Kinds,                  \* the sound schemes the program knows
    Unknown,                \* any other name the settings may hold
    MaxChanges              \* bound: times the setting changes

ASSUME KindsAssumption == Kinds # {} /\ Unknown \notin Kinds
ASSUME MaxChangesAssumption == MaxChanges \in Nat

VARIABLES
    mut,                    \* holder of mut_: free, or server
    layers,                 \* layers_
    done,                   \* done_
    spc,                    \* where the server thread is
    todo,                   \* the layers of this pass not yet begun
    applied,                \* those begun: the last of them is being applied
    pcm,                    \* the device: closed, open, running or underrun
    sounding,               \* the layers in what the device last accepted
    upc,                    \* where the UI thread is
    wanted, changes,        \* the setting sound_scheme, how often it changed
    current,                \* soundScheme_: a scheme object, or None
    kind,                   \* the kinds of the scheme objects made so far
    freed,                  \* those that were freed
    stopping,               \* stop() was called
    told,                   \* history: start() woke the server thread
    deaf                    \* history: the destructor woke nobody

server == <<spc, todo, applied>>
scheme == <<wanted, changes, current, kind, freed>>
vars == <<mut, layers, done, server, pcm, sounding, upc, scheme, stopping, told, deaf>>

None == 0
Objects == 1..(MaxChanges + 1)
Layer == [of : Objects, name : {"tone", "pwm", "balance"}]

\* The layers of a scheme, in the order both schemes install them.
LayersOf(s) == << [of |-> s, name |-> "tone"],
                  [of |-> s, name |-> "pwm"],
                  [of |-> s, name |-> "balance"] >>

Init ==
    /\ mut = "free"
    /\ layers = <<>>
    /\ done = FALSE
    /\ spc = "unborn" /\ todo = <<>> /\ applied = <<>>
    /\ pcm = "closed"
    /\ sounding = <<>>
    /\ upc = "construct"
    /\ wanted \in Kinds \cup {Unknown} /\ changes = 0
    /\ current = None
    /\ kind = <<>>
    /\ freed = {}
    /\ stopping = FALSE
    /\ told = FALSE /\ deaf = FALSE

-----------------------------------------------------------------------------
(* The server thread, sound_mixer::loop(). *)

\* The unique_lock, and the wait that releases it.
Wait ==
    /\ spc = "begin"
    /\ mut = "free"
    /\ spc' = "wait"
    /\ UNCHANGED <<mut, layers, done, todo, applied, pcm, sounding, upc, scheme,
                   stopping, told, deaf>>

\* The wait returns with mut_ held, which start_lock.unlock() lets go of.
Awake ==
    /\ spc = "notified"
    /\ mut = "free"
    /\ spc' = "loop"
    /\ UNCHANGED <<mut, layers, done, todo, applied, pcm, sounding, upc, scheme,
                   stopping, told, deaf>>

\* loop_lock
BeginPass ==
    /\ spc = "loop"
    /\ mut = "free"
    /\ IF done
          THEN spc' = "exited" /\ UNCHANGED <<mut, todo>>
          ELSE spc' = "pass" /\ mut' = "server" /\ todo' = layers
    /\ applied' = <<>>
    /\ UNCHANGED <<layers, done, pcm, sounding, upc, scheme, stopping, told, deaf>>

\* layer->apply(): the one before has returned.
Apply ==
    /\ spc = "pass"
    /\ todo # <<>>
    /\ applied' = Append(applied, Head(todo))
    /\ todo' = Tail(todo)
    /\ UNCHANGED <<mut, layers, done, spc, pcm, sounding, upc, scheme, stopping,
                   told, deaf>>

\* The end of loop_lock's scope.
EndPass ==
    /\ spc = "pass"
    /\ todo = <<>>
    /\ mut' = "free"
    /\ spc' = "write"
    /\ UNCHANGED <<layers, done, todo, applied, pcm, sounding, upc, scheme,
                   stopping, told, deaf>>

\* snd_pcm_writei(): what the layers made of the buffer; after an underrun an
\* error, every time, because nobody prepares the device again.
Write ==
    /\ spc = "write"
    /\ spc' = "loop"
    /\ sounding' = IF pcm = "running" THEN applied ELSE <<>>
    /\ UNCHANGED <<mut, layers, done, todo, applied, pcm, upc, scheme, stopping,
                   told, deaf>>

Server == Wait \/ Awake \/ BeginPass \/ Apply \/ EndPass \/ Write

\* The server thread was late and the device ran dry.
Underrun ==
    /\ pcm = "running"
    /\ pcm' = "underrun"
    /\ sounding' = <<>>
    /\ UNCHANGED <<mut, layers, done, server, upc, scheme, stopping, told, deaf>>

-----------------------------------------------------------------------------
(* The UI thread: the constructor of the mixer ... *)

\* The members, then the thread.
Construct ==
    /\ upc = "construct"
    /\ spc' = "begin"
    /\ upc' = "open"
    /\ UNCHANGED <<mut, layers, done, todo, applied, pcm, sounding, scheme,
                   stopping, told, deaf>>

\* start(): snd_pcm_open() fails or not.
Open ==
    /\ upc = "open"
    /\ \/ upc' = "run" /\ UNCHANGED pcm
       \/ upc' = "setup" /\ pcm' = "open"
    /\ UNCHANGED <<mut, layers, done, server, sounding, scheme, stopping, told, deaf>>

\* start(): the snd_pcm_hw_params calls fail or not.
SetUp ==
    /\ upc = "setup"
    /\ \/ upc' = "run" /\ UNCHANGED pcm
       \/ upc' = "notify" /\ pcm' = "running"
    /\ UNCHANGED <<mut, layers, done, server, sounding, scheme, stopping, told, deaf>>

\* start_.notify_one(): only a thread that waits hears it.
NotifyOne == spc' = IF spc = "wait" THEN "notified" ELSE spc

Notify ==
    /\ upc = "notify"
    /\ NotifyOne
    /\ told' = (spc = "wait")
    /\ upc' = "run"
    /\ UNCHANGED <<mut, layers, done, todo, applied, pcm, sounding, scheme, stopping,
                   deaf>>

(* ... the frames, Application::run() with airball_sound_scheme ...           *)

CheckRunning ==
    /\ upc = "run"
    /\ upc' = IF stopping THEN "remove" ELSE "events"
    /\ UNCHANGED <<mut, layers, done, server, pcm, sounding, scheme, stopping, told,
                   deaf>>

\* An event of the frame changes the setting.
ChangeSetting ==
    /\ upc = "events"
    /\ changes < MaxChanges
    /\ changes' = changes + 1
    /\ wanted' \in Kinds \cup {Unknown}
    /\ UNCHANGED <<mut, layers, done, server, pcm, sounding, upc, current, kind,
                   freed, stopping, told, deaf>>

\* Mutant: a scheme that is installed is left in place.
UpdateOnce ==
    /\ upc = "events"
    /\ upc' = IF wanted \in Kinds /\ current = None THEN "make" ELSE "run"
    /\ UNCHANGED <<mut, layers, done, server, pcm, sounding, scheme, stopping, told,
                   deaf>>

\* update(): a name the program does not know leaves the scheme alone.
Update ==
    /\ upc = "events"
    /\ upc' = CASE wanted = Unknown -> "run"
                [] wanted # Unknown /\ current = None -> "make"
                [] OTHER -> IF kind[current] = wanted THEN "run" ELSE "clear"
    /\ UNCHANGED <<mut, layers, done, server, pcm, sounding, scheme, stopping, told,
                   deaf>>

\* Mutant: set_layers() without its lock.
ClearUnlocked ==
    /\ upc \in {"clear", "lastClear"}
    /\ layers' = <<>>
    /\ upc' = IF upc = "clear" THEN "free" ELSE "lastFree"
    /\ UNCHANGED <<mut, done, server, pcm, sounding, scheme, stopping, told, deaf>>

\* remove() of the scheme: set_layers({}).
Clear ==
    /\ upc \in {"clear", "lastClear"}
    /\ mut = "free"
    /\ layers' = <<>>
    /\ upc' = IF upc = "clear" THEN "free" ELSE "lastFree"
    /\ UNCHANGED <<mut, done, server, pcm, sounding, scheme, stopping, told, deaf>>

\* soundScheme_ = nullptr: the scheme is freed, and its layers with it.
Free ==
    /\ upc \in {"free", "lastFree"}
    /\ freed' = freed \cup {current}
    /\ current' = None
    /\ upc' = IF upc = "free" THEN "make" ELSE "destroy"
    /\ UNCHANGED <<mut, layers, done, server, pcm, sounding, wanted, changes, kind,
                   stopping, told, deaf>>

Make ==
    /\ upc = "make"
    /\ kind' = Append(kind, wanted)
    /\ current' = Len(kind) + 1
    /\ upc' = "install"
    /\ UNCHANGED <<mut, layers, done, server, pcm, sounding, wanted, changes, freed,
                   stopping, told, deaf>>

\* install() of the scheme: set_layers(..).
Install ==
    /\ upc = "install"
    /\ mut = "free"
    /\ layers' = LayersOf(current)
    /\ upc' = "run"
    /\ UNCHANGED <<mut, done, server, pcm, sounding, scheme, stopping, told, deaf>>

\* Application::stop(), from any thread.
Stop ==
    /\ ~stopping
    /\ stopping' = TRUE
    /\ UNCHANGED <<mut, layers, done, server, pcm, sounding, upc, scheme, told, deaf>>

\* remove() after the last frame.
Remove ==
    /\ upc = "remove"
    /\ upc' = IF current = None THEN "destroy" ELSE "lastClear"
    /\ UNCHANGED <<mut, layers, done, server, pcm, sounding, scheme, stopping, told,
                   deaf>>

(* ... and the destructor of the mixer, in a program whose other threads are  *)
(* gone by then.                                                              *)

\* Mutant: the thread is notified after its wait has been given up.
DestroySilently ==
    /\ upc = "destroy"
    /\ mut = "free"
    /\ done' = TRUE
    /\ deaf' = (spc \in {"unborn", "begin"})
    /\ upc' = "join"
    /\ UNCHANGED <<mut, layers, server, pcm, sounding, scheme, stopping, told>>

Destroy ==
    /\ upc = "destroy"
    /\ mut = "free"
    /\ NotifyOne
    /\ done' = TRUE
    /\ deaf' = (spc = "begin")
    /\ upc' = "join"
    /\ UNCHANGED <<mut, layers, todo, applied, pcm, sounding, scheme, stopping, told>>

Join ==
    /\ upc = "join"
    /\ spc = "exited"
    /\ upc' = "gone"
    /\ UNCHANGED <<mut, layers, done, server, pcm, sounding, scheme, stopping, told,
                   deaf>>

UI == \/ Construct \/ Open \/ SetUp \/ Notify \/ CheckRunning \/ Update \/ Clear
      \/ Free \/ Make \/ Install \/ Remove \/ Destroy \/ Join

-----------------------------------------------------------------------------
Next == Server \/ Underrun \/ UI \/ ChangeSetting \/ Stop

(* Threads are scheduled.  While the device plays, the server thread sleeps   *)
(* in snd_pcm_writei() with the mutex free, so that the UI thread gets it     *)
(* (SF); once the device fails, it takes the mutex again at once.             *)
Fairness ==
    /\ WF_vars(Server)
    /\ WF_vars(UI)
    /\ SF_vars(pcm # "underrun" /\ (Clear \/ Install \/ Destroy))

Spec == Init /\ [][Next]_vars
FairSpec == Spec /\ Fairness

-----------------------------------------------------------------------------
\* The types of the variables.
TypeOK ==
    /\ mut \in {"free", "server"}
    /\ layers \in Seq(Layer) /\ todo \in Seq(Layer)
    /\ applied \in Seq(Layer) /\ sounding \in Seq(Layer)
    /\ done \in BOOLEAN
    /\ spc \in {"unborn", "begin", "wait", "notified", "loop", "pass", "write", "exited"}
    /\ pcm \in {"closed", "open", "running", "underrun"}
    /\ upc \in {"construct", "open", "setup", "notify", "run", "events", "clear",
                "free", "make", "install", "remove", "lastClear", "lastFree",
                "destroy", "join", "gone"}
    /\ wanted \in Kinds \cup {Unknown}
    /\ changes \in 0..MaxChanges
    /\ kind \in Seq(Kinds)
    /\ current \in {None} \cup (DOMAIN kind \ freed)
    /\ freed \subseteq DOMAIN kind
    /\ stopping \in BOOLEAN /\ told \in BOOLEAN /\ deaf \in BOOLEAN

\* The server thread never calls a layer of a scheme that was freed, however
\* often the setting changes while it plays (airball_sound_scheme.cpp:14-18).
LayersAlive ==
    /\ \A i \in 1..Len(layers) : layers[i].of \notin freed
    /\ spc = "pass" => \A i \in 1..Len(applied \o todo) : (applied \o todo)[i].of \notin freed

\* What is heard is in the end what the settings ask for, as long as start()
\* found the server thread waiting, the device never ran dry and nobody stops
\* the program.
HearsSetting ==
    \A k \in Kinds :
        <>[](wanted = k /\ told /\ pcm = "running" /\ ~stopping)
            => <>[](sounding # <<>> /\ kind[sounding[1].of] = k)

\* The destructor gets its thread back, and the program ends, unless the thread
\* had not even begun to wait when it was told to go.
Joins == [](pcm # "underrun") /\ stopping ~> upc = "gone" \/ deaf
=============================================================================
