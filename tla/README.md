# A formal model of airball-display

The Airball display is a C++ program on a small computer in a light aircraft.
It hears samples of an air data probe over UDP, paints an airspeed/angle of
attack "ball", plays a sound scheme, and keeps settings that the pilot changes
with a knob (turn, press, hold), with a web page, or by the knob of another
display in the same aircraft.

This directory holds TLA+ modules translated from that code, the TLC
configurations that check them on small instances, and proofs for TLAPS.
Paths below are relative to the repository (`src/framework`, `src/airball`,
`rootfs`).

## 1. Inventory

| Component | State | Operations | Interacts with |
|---|---|---|---|
| Event loop, `framework/Application.h` | `events_` under `eventsMu_`, the batch being run, `running_` | `enqueue` (any thread), frame: take the batch, run it, paint, update sound, sleep; `stop` | everything: all other threads only enqueue |
| One-shot timer, `util/one_shot_timer.cpp` | `mu_`, `running_`, `end_`, a thread | constructor, `run`, `cancel`, destructor | callback enqueues under `eventsMu_` |
| Settings, `model/Settings.cpp` | the store, menu (vector, index), knob state; input thread, file watch thread, two timers | `hid*` handlers, `acceptSettings`, `acceptSettingsRequest`, `setAdjustmentKnobState`, `loadFromFile`, `saveToFile` | event loop, timers, telemetry, file |
| File watch, `util/file_write_watch.cpp` | inotify descriptor and one watch | `next_event` | settings file, web server |
| Web server, `rootfs/var/www/server.py` | none | POST rewrites the settings file in place | settings file |
| Air data, `model/Airdata.cpp`, `util/LinearRateFilter.cpp` | smoothed ball, raw balls, climb-rate filter, validity and time of the last sample | `update`, `valid` | telemetry thread via the event loop, view |
| View, `view/AirballView.cpp` | none of its own; the cairo context of the screen outlives the frame | `paint` | air data, settings, widgets, screen |
| Widgets, `view/widgets.cpp` | the current path, clip and transformation of the context they draw to | `line`, `arc`, `disc`, `rosette`, `rectangle`, `round_rectangle`, `draw_text` | cairo |
| Telemetry, `model/telemetry/` | two sockets | `receiveSample`, `sendSample` | network, other displays |
| Atomic store, `util/atomic_store.cpp` | a file: header, two banks | `write_payload`, `read_payload` | a utility; the program does not use it yet |
| Sound mixer, `sound_mixer/sound_mixer.cpp` | layers under `mut_`, `start_`, `done_`, server thread | `start`, `set_layers`, `loop` | sound schemes, ALSA |
| Sound schemes, `sound_scheme/` | the scheme that is installed | `install`, `remove`, `update` | settings, air data, mixer, layers |
| Sound layers, `sound_mixer/*_layer.cpp` | period, position and pending change per layer, gains | `set_*`, `apply` | UI thread and mixer thread, under a mutex each |
| Screens, `screen/` | a surface and its context, the brightness | `flush`, `setBrightness` | view |
| Units, aerodynamics, fake telemetry, string compression | none that matters | formulas | out of scope (section 8) |

Threads of the running program: the UI thread (`Application::run`), the
telemetry thread (`ab_main.cpp:121`), the input thread and the file watch
thread (`Settings.cpp:42-100`), up to four timer threads (a timer and the one it
replaces, twice), and the mixer's server thread. The design rule of the code is
that only the UI thread touches settings, air data and view; all others hand it
closures. What is hard:

- *interleaving*: threads inside `push_back`, the move, `cancel` and `reset`;
- *stale events*: a timer event that was enqueued before the key that restarted
  the timer, a load queued before a save, a settings broadcast before a knob;
- *failure*: power loss between memory, file and broadcast; a knob unplugged in
  mid-press; datagrams lost, duplicated, reordered; files read while written;
- *time*: five- and two-second timers against keys, data that expires in the
  middle of a frame, a system clock that is set back;
- *state that is left behind*: clips, turns and current points on a context that
  is the same in every frame; the rest of a cycle when a sound is changed;
- *numbers*: NaN in comparisons, unsigned positions that wrap, values from a file
  that no knob could set.

What makes each component correct is stated by its properties (section 4); the
hazards they answer are listed, line by line, under `hazards` in `PROJECT.json`.

## 2. Modules

| Module | Models | Uses |
|---|---|---|
| `EventQueue` | what `IEventQueue` promises: a FIFO whose events each run once | |
| `EventLoop` | `Application.h` with non-atomic vector operations | implements `EventQueue` |
| `EventLoopProofs` | TLAPS proofs about `EventLoop` | |
| `Timer` | what `one_shot_timer.h` promises: fires at most once, never after cancel | |
| `OneShotTimer` | the timer's thread, lock, polling, with the slot of `Settings.cpp` that restarts it | implements `Timer` |
| `SettingsMenu` | input thread, timers, event queue and menu | the abstract queue and timer, as the two refinements justify |
| `SettingsMenuProofs` | TLAPS proofs about `SettingsMenu` | |
| `SettingsStore` | the table of parameters; increment, decrement, load and save as operators | |
| `SettingsSync` | several displays, their knobs, files and the network | extends `SettingsStore` |
| `SettingsSyncProofs` | TLAPS proofs about `SettingsStore` and `SettingsSync` | |
| `SettingsFile` | file system, web server, watch, UI thread | |
| `SettingsFileProofs` | TLAPS proofs about `SettingsFile` | |
| `Airdata` | samples, smoothing, expiry, two queries per frame | |
| `AirdataProofs` | TLAPS proofs about `Airdata` | |
| `AtomicStore` | the file as kernel and disk have it | |
| `UtilProofs` | TLAPS proofs about the two utilities, `OneShotTimer` and `AtomicStore` | |
| `SoundMixer` | the mixer's server thread, set_layers, schemes made and freed by the UI thread | |
| `Oscillator` | what `sine_layer.h` promises: a cycle is finished, the next begins as last told | |
| `SoundLayers` | the three layers, frame by frame, and the calls that `update()` of either scheme makes | implements `Oscillator`, twice |
| `SoundProofs` | TLAPS proofs about `SoundMixer` and `SoundLayers` | |
| `Canvas` | the parts of cairo that the view uses, and the widgets as calls of them | |
| `View` | a frame: settings and air data to a sequence of widgets | extends `SettingsStore` and `Canvas` |
| `ViewProofs` | TLAPS proofs about `Canvas` and `View` | |
| `MC*` | a finite instance of each, for TLC | |

Two layers of specifications carry the composition. `EventLoop` and
`OneShotTimer` (and `SoundLayers` over `Oscillator`) are detailed: every lock, read and write is a step. They are shown
to implement `EventQueue` and `Timer`. The modules above them (`SettingsMenu`,
`SettingsSync`, `SettingsFile`) use the abstract behaviour: a queue whose events
the UI thread runs one at a time, and a timer as a record that fires at most
once and is gone after its cancel.

## 3. Correspondence with the code

`PROJECT.json`, `map`, names the lines of every definition. The conventions:

**EventLoop.** `ppc[p]` is where a thread is in `enqueue`: `idle`, `locked`
(holds the `lock_guard`), `pushing` (has read the vector). `upc` walks through
`run`: `while` is the test of `running()`, `lock`/`move`/`clear` the block of
lines 37-40, `dispatch` the `for`, `update` the sound and the sleep. `push_back`
is a read and a later write and the move is a read and a later clear: it is
`eventsMu_` that keeps them apart, and the model can see it fail to. `pushed`,
`ran`, `taken` and `painted` are history.

**OneShotTimer.** `tpc[t]` is where `run()` is: `awake` before the lock, `locked`
inside it, `calling` inside the callback, with `eventsMu_` too. `opc` is where
the owner is in `reset()`: `cancel`, `store`, `join` are the destructor. A new
timer is created before the old one dies, as `unique_ptr::reset` does. `Expire`
lets the time of any live timer come at any moment.

**SettingsMenu.** `todo` holds the calls a key handler has yet to make, so that a
timer can fire between the enqueue of a key and the restart of its timer.
`timers` is the set of armed timers with the ticks they have left (a tick is a
second; `kCancelDelay` is 5, `kLongPressDelay` 2); a timer thread may be `MaxLag`
ticks late. An event carries the key that caused it and, as history, how many
keys had been read when it was enqueued. `ipc = "gone"` is a device that was
unplugged while open: the next `read` fails even if the knob is back by then.
Of a key's action on a parameter only the menu's part is kept here; the values
are in `SettingsStore`.

**SettingsStore.** `ALL_PARAMS` is the table of `SettingsStore.h`, `Params` the part of it
an instance keeps. Numbers are integers of hundredths, so `(v / increment) * increment`
in `clamp`, which on doubles changes at most the last bit, changes nothing. `Documents`
are what a file or a datagram may hold: members may be missing (`absent`), numbers out
of range, selections unknown; `Load` ignores the first and the last and takes the
second as it is, as `loadImpl` does.

**SettingsSync.** A turn of the knob moves any parameter of the two menus. `upc[d]` is what is
left of a handler: the change in memory, the save and the broadcast are separate
steps, so that power may be lost between them. `net[d]` is what is on its way to
display `d`: datagrams to one receiver arrive in order unless a `Fault` reorders,
drops or doubles them. `Broadcast` reaches every display that runs, but the
sender, which drops datagrams from its own address (`UdpPacketReader.cpp:74`).

**SettingsFile.** `path` is the inode the settings path leads to, `content` what
an inode holds: a whole document by display or web, or `Broken`, a document cut
short. `rename` changes `path`; an inode that neither the path nor the server
holds is freed, which ends its watch with an `ignored` event. `next_event`
returns for any event of its watch, that one too. `LoadFromFile` reads the file
in one step: a document is small, and one read returns it. `WriteFails` and
`RenameFails` are what the code does not look at; `failed` remembers that the last
save did not reach the path whole.

**Airdata.** Of a number the model keeps whether it is finite (`"number"`), infinite or NaN, of a
pressure also its sign, and of the filter whether a value is one of the zeros (`"zero"`) it
starts with. A sample is what the sentence holds, `[alpha, beta, q, p, t]`; `Ias`, `Tas` and
`Altitude` say what becomes infinite or NaN of it: `p = 0` makes the true airspeed infinite, which
`isnan` lets pass, and a negative pressure makes it NaN. `factor` is the weight of the past in
`smooth()`: `"zero"` for a ball time constant of 0, which the knob allows, and then `0 * inf` is
NaN. `infinite` and `cut` are history: which speeds were infinite in some sample, and which of
them a factor of 0 was applied to after that. `age` is the system clock minus the time of the last
sample, which is negative after the clock was set back. A frame asks `valid()`
twice, in `PaintBalls` and `PaintCross`; time may pass in between.

**AtomicStore.** (Its operators and actions say `File`, so that one module can reason about both
utilities.) A file is a header (the number of the current bank) and two banks
of cells; each exists twice, as the kernel has it and as it is on the disk.
`write_raw` calls `fsync` before `fclose` flushes the stdio buffer, so `Fsync`
makes durable what was written before this call, and `WriteBank`/`WriteHeader`
come after it. A loss of power leaves any mix of the two, cell by cell.

**SoundMixer.** `mut` is `mut_`: only a pass of the server thread holds it for
more than a step, so `set_layers` and the destructor's block are one step each,
enabled while it is free. `spc` is where `loop()` is (`begin` before the wait, `wait`,
`notified`, `loop` at the head of the `while`, `pass` under the lock, `write`), `upc`
where the UI thread is, from the mixer's constructor through the frames to its
destructor. `NotifyOne` reaches a thread that waits and no other. `told` and `deaf` are
history. A scheme object is a number; a layer is a member of one.

**SoundLayers.** `installed` is the scheme that plays, `apc` the layer that the server thread
holds or comes to. The server thread applies tone, square wave and balance in turn, and a
frame of a buffer is a step; `Lock*` and `Unlock*` are the `lock_guard` of `apply()`. Calls
of the UI thread find the layer unlocked. Positions are kept modulo `Modulus`, the width of
`snd_pcm_uframes_t`: `pos_ = -i` wraps, and `Frame` says so. The sample values are left
out: `Factor` is the square wave's gain, and `balance` holds the gains of both ears.
`FlyOnSpeed` and `StallFence` are `update()`: a sequence of calls, which `Call*` make one by
one. Angles are whole degrees, a pitch is rounded to an octave, and NaN is compared as C++
does it; `CastOfNone` is what a build makes of a negative frequency or a NaN as unsigned.
`CountAssumption` says that a cycle and a buffer after it can be counted without a wrap; section 8
says why it holds.

**Canvas.** A context has a stack of saved states, a clip, a number of quarter turns, and
of its path the cells of rectangles and whether there is a current point. `Draw*` are the
calls of `widgets.cpp`, in their order; a widget drawn leaves a mark: what it was, what it
says, which cells it may have touched, in which area of the device its coordinates lie (`place`, where
the widget says so), and whether a line joined it to a point that was
left behind. A line, a ball and a text *may* touch all their clip lets them; that they do is
never said. What the cross covers is therefore told by its `place`, the rectangle whose
diagonals it is: on a turned context that is not the panel.

**View.** Each `paint*` of the code is a picture of the same name: the widgets it draws under
its conditions. A frame is three steps, which end where the code asks `valid()` or opens the
next region, and `Expire` and `SetClockBack` come in between. `PaintAirball` turns the
context before the save, as the code does, so a rotated frame is turned further than the
one before; `wasTurned` remembers it. `LowAirspeed` follows the division by a scale that
may be 0.

## 4. Runs

Run inside this directory: `tlc -config X.cfg MCX`.

| Run | Shows |
|---|---|
| `event_loop` | Each enqueued event runs exactly once, in order (`ExactlyOnceInOrder`); a frame shows its batch (`FrameShowsItsBatch`); `stop` ends the loop and removes the scheme (`StopEndsLoop`); the loop implements `EventQueue` with its fairness, so an event enqueued is run (`QueueSpec`). |
| `one_shot_timer` | A freed timer's thread is gone (`FreedIsQuiet`), `reset` leaves one timer (`OnlySlotLives`), no call after a cancel (`NoCallAfterCancel`), the owner always gets back from `reset` (`OwnerReturns`), and the class implements `Timer` (`TimerSpec`). |
| `settings_menu` | The unchecked index is in range (`IndexInRange`); a late cancel is at most one key late (`CancelStaleByOne`); a shallow menu left alone closes (`ShallowCloses`); the deep menu opens for a long press only (`LongPressMeansHeld`). |
| `settings_sync` | Memory is on disk when a handler is done (`StoreIsSaved`); a leader is moved by its own knob only (`LeaderUnmoved`); displays agree in the end if the network loses nothing (`Converges`); the network falls silent (`FallsSilent`). |
| `settings_file` | The path never leads to half a save, but for a stream that failed, and the next save repairs that (`PathIsWhole`); a saved file is what is in memory, whatever watch events come late (`SavedIsStore`); reading a file cut short changes nothing (`NeverBackToDefault`); memory and file agree in the end, but for edits the watch could not see and saves that failed (`Settles`). |
| `lost_web_edit` | **Violated.** After a save by the display, web edits are not loaded. See section 5. |
| `airdata` | No NaN of a sample gets into a speed; an infinite speed stays, and only it becomes NaN, when it is smoothed with a time constant of 0 (`SpeedsSurviveNaN`); the climb rate recovers (`RateRecovers`); lost data shows (`LossShows`). |
| `nan_pollution` | **Violated.** An angle that was NaN in one sample is NaN in the smoothed ball after the next good sample, while `valid()` is true (`AnglesStayNumbers`). |
| `atomic_store` | A crash or a loss of power leaves a whole payload, and only a loss of power takes a returned write back (`OldOrNew`). |
| `sound_mixer` | No layer of a freed scheme is applied or kept (`LayersAlive`); what is heard is in the end what the settings name (`HearsSetting`); the destructor gets its thread back (`Joins`). |
| `sound_layers` | Tone and square wave finish their cycle and implement `Oscillator` (`CyclesFinish`); no change moves the square wave's gain by more than a step of the fade (`NoClick`); a stall that lasts is heard with either scheme, as far as its pitch fits into the frames (`StallIsHeard`); with flyonspeed every angle that lasts sounds as it should in the end (`HearsRegime`). |
| `view` | The screen is told a byte, and between the parts of a frame and between frames no clip is in force and nothing is saved (`ScreenTypeOK`); a frame repaints the whole panel (`RepaintsPanel`); balls and altimeter keep to their regions (`InItsPlace`); a frame that is not turned paints a ball or crosses the panel from corner to corner (`NoDataShows`); no arc is joined to an earlier text (`StrokesStartFresh`); the altimeter reads back as the altitude (`ReadsBack`). |

Bounds, and why they are enough:

- `event_loop`: two producers with two events each. Every pair of threads can be
  at every pair of points of `enqueue` and of the move, and a second event can
  come while the first is in the batch. The proofs cover every number.
- `one_shot_timer`: three timers: the current one, the one being destroyed, and
  one already freed. The proofs cover every number.
- `settings_menu`: menus of one and two parameters (the deep one longer, as 20
  to 5 in the code), three keys, one unplugging. A press, a release and another
  press, or a press and a long-press event with an index in the deep menu, are
  the shortest histories that could break the properties. At most one knob report
  waits while the UI is busy (`MaxQueue` bounds the input thread's reports only).
- `settings_sync`: two displays, a number and a selection, two moves in all: two turns,
  a knob moved from one display to the other, a crash and a turn, a turn and a fault.
  A display starts from an empty file, a complete one, or one edited by hand, with a
  number out of range and an option unknown. The safety properties are proved for any
  number of displays, parameters and moves.
- `settings_file`: two values, two saves, two edits, one restart: a save between two
  edits, an edit between two saves, and both against a load; either save may fail, so
  that a good one follows a failed one.
- `airdata`: filters of lengths 2 and 3, an expiry of two ticks, a clock set back
  by at most one tick before the last sample's time. Five samples: a good one; a NaN angle and
  temperature; a pressure of zero; an infinite `q` with a NaN pressure; a negative `q` with an infinite
  negative pressure. Between them each speed is good, NaN and infinite, alone and together, and the altitude is good, NaN and
  infinite. The time constants change between any two of them. The proof covers every sample.
- `atomic_store`: three writes (both banks full, then one overwritten), two
  crashes, banks of three cells, payloads of one or two.
- `sound_mixer`: two schemes and a name that is neither, two changes of the setting:
  a scheme replaced while its first, second or third layer is applied, and the
  replacement replaced again.
- `sound_layers`: cycles of 1 to 24 frames, odd and even, in buffers of 2, so that a cycle
  spans several buffers and a buffer several cycles; positions modulo 32. Angles on
  both sides of every limit, one of them below alpha_min (a cycle longer than the base tone's), one NaN,
  one above alpha_stall where stallfence's pitch has risen further and still fits, and one where
  it no longer does. A cast of NaN gives 0, as on ARM; and one change: layers still on the way to the
  first angle's sound when the second comes. Beta goes beyond its scale.
- `view`: a panel of 2 by 5 cells with an altimeter of 3 rows and a margin of 1, so that the
  regions are apart; samples below the low-speed radius, below and above the limits, with
  NaN, and altitudes around 0 and 1000 ft. Documents hold a brightness out of range, a scale
  of 0, and switch rotation on and off. The state space is finite without a bound.

`CHECK_DEADLOCK FALSE` is set where the bounds let the system stop (keys, moves,
saves or writes are used up); nothing else stops it.

**Fairness.** Threads of a running program are scheduled: weak fairness on the UI
thread, the input thread once it is inside a handler, the telemetry and watch
threads, and on the passage of time. For mutexes, weak fairness of a waiting
thread is not enough where the holder comes and goes: a timer polls `mu_` once a
millisecond and sleeps with it free, and `eventsMu_` is held only for a push or a
move, so `OneShotTimer` assumes strong fairness for those who wait for them.
`SoundMixer` likewise: while the device plays, the server thread
sleeps in `snd_pcm_writei` with `mut_` free. After an underrun it does not sleep, the
strong fairness is not assumed, and the two liveness properties exclude that case:
nothing in the code prepares the device again. `HearsSetting` further asks that
`start()` found the thread waiting (`told`) and `Joins` that the destructor did not come
before the wait (`deaf`): the wait has no predicate, so the code promises neither.
`SoundLayers` assumes strong fairness of the UI thread's calls: the server thread holds a
layer for one buffer and then sleeps in `snd_pcm_writei`.
Nothing makes the pilot act, a producer start an `enqueue`, anybody call `stop`,
a display crash or boot, or the network fail. A producer waiting for `eventsMu_`
has no fairness in `EventLoop`: no property needs it.

## 5. Findings

- **Web edits are lost after the first save** (`lost_web_edit`, `Settings.cpp:225`,
  `file_write_watch.cpp:8`). inotify watches an inode; `rename` puts a new one at
  the path, and the watch thread never adds a watch for it.
- **NaN angles pollute the smoothed ball** (`nan_pollution`, `Airdata.cpp:65-66`).
  The guarded `new_alpha`, `new_beta` are computed and the raw ones smoothed: after a
  sample with a NaN angle and a good one, `valid()` is true and the smoothed angle is still NaN. For
  speeds the guard works against NaN (`SpeedsSurviveNaN`), though not against infinity; see below.

Seen while modelling, without a run of their own:

- A rotated screen turns by another 90 degrees in each frame (`AirballView.cpp:389`;
  `RepaintsPanel` therefore excludes turned frames). The cross of a turned frame goes from corner to
  corner of the turned rectangle and misses part of a panel that is not square
  (`AirballView.cpp:389-392`, `1158-1169`), where an older ball stays uncrossed; `NoDataShows` excludes
  turned frames.
- A pressure of 0, which an empty field is read as (`NMEAFormat.cpp:35`), makes the true airspeed infinite
  (`aerodynamics.cpp:20-26`). It passes `isnan` and stays in the average; with a ball time constant of 0
  (`SettingsStore.h:387-393`) the next sample makes it NaN for ever (`Airdata.cpp:26-27`).
  `SpeedsSurviveNaN` allows this and nothing else.
- Beyond alpha_stall stallfence's pitch goes on rising by two octaves for each range of angles
  (`stallfence_scheme.cpp:42-58`). About six and a half octaves above its lowest tone, 220 Hz, a cycle has two frames, at
  both of which the sine is 0 (`sine_layer.cpp:25-27`): silence.
- After a NaN alpha, which stays (`nan_pollution`), stallfence casts NaN to an unsigned period. Where that gives
  2^63 (x86-64) the tone begins a cycle that never ends, and no later period is taken; flyonspeed takes
  NaN for a stall warning for good.
- `wait()` has no predicate (`sound_mixer.cpp:34`): `start()` or the destructor may notify before the server thread waits, and then
  nothing plays, or the join does not end.
- A payload of the atomic store is not terminated, so that a shorter one is read back
  with the tail of a longer one (`atomic_store.cpp:60`).
- A leader that loads a web edit does not broadcast it (`Settings.cpp:46`).

## 6. Proofs

TLAPS checks these for every value of the constants. Every safety invariant and
every action property of the passing runs is among them.

`EventLoopProofs`: `TypeCorrectness`, `EventsExactlyOnceInOrder`,
`FramesShowTheirBatch`, and `LoopImplementsQueue` (the safety part of `QueueSpec`).
`ExactlyOnceInOrder` is not inductive: nothing in it says that the vector a
thread has read is still the vector it will write. `IInv` adds that a thread
inside `push_back` or the move holds `eventsMu_` (`OneThreadInQueue`), that what it
read is still current (`ReadsAreCurrent`), and how the batch relates to the
histories (`BatchAccounted`).

`UtilProofs`, the timer: `TypeCorrectness`, `NoUseAfterFree`, `RestartLeavesOneTimer`,
`CancelIsFinal`, and `ImplementsTimer` (the safety part of `TimerSpec`). `IInv` adds who holds
which mutex at which program counter (`LocksHeld`), what the threads know about
`running_` (`CancelKnown`) and that every timer is in the slot, being destroyed,
or freed (`Owned`).

`SettingsSyncProofs`: `TypeCorrectness`, `StoreAlwaysSaved` (`StoreIsSaved`),
`LeaderOnlyByItsKnob` (`LeaderUnmoved`); and of the store, `LoadOfSave` (what is saved is
loaded without a difference over any store, which is why followers can agree with
their leader) and `KnobBringsIntoRange`. `StoreIsSaved` says nothing of a display that
is off, so `SavedInv` adds that such a display begins with the initial store and no
handler under way (`OffIsBlank`).

`SettingsMenuProofs`: `IndexAlwaysInRange`, `CancelAlwaysStaleByOne` (`CancelStaleByOne`),
`OnlyLongPressesFire` (`LongPressMeansHeld`). The index needs only the types and that
vector and index change together. A late cancel is bounded because a key handler
replaces the timer before the next key is read: `CancelTimersFresh` says which keys an armed timer may
belong to while calls are still to be made. `LongPressMeansHeld` is about a step, so
`HeldCounts` says of every armed long-press timer, and of every call that will arm one, that
it belongs to the press under way and has run down as far as the button was held, or was
left over by an unplugging.

`SettingsFileProofs`: `PathAlwaysWhole`, `SavedAlwaysStore` (`SavedIsStore`),
`MemoryOnlyFromDocuments` (`NeverBackToDefault`). The temporary file of a save is nobody
else's and holds what memory holds, or is cut short (`TempIsOwn`); the watched inode is at
the path or in the server (`Held`), which is why three inodes are enough.

`SoundProofs`, the mixer: `LayersAlwaysAlive`. `mut_` makes a pass a pass over the layers that
are installed (`PassIsLocked`), they are those of the scheme there is, and
there are none when it is freed (`LayersOfScheme`).

`SoundProofs`, the layers: `LayersTypeCorrectness`; `LayersImplementOscillator`, the safety part of
`CyclesFinish`: every step of the layers is a step of both oscillators, or none;
`SquareWaveNeverClicks` (`NoClick`); and, of the operators, `FlyOnSpeedAsksForItsRegime`: the calls
that flyonspeed makes for an angle are the ones `SoundsRight` hears.
A layer counts frames with an unsigned that `pos_ = -i` wraps on purpose, and takes remainders of the
wrapped sum: this is right only while the frames that are left of the buffer do not wrap it once
more. `WavesInv` therefore says, of each layer and the frame its buffer is at, that its cycle and
the one to come leave room for a buffer (`Fits`) and that the frames since its position's origin
and those left stay below `Modulus` (`RunsOn`). Although `Modulus` is no multiple of a period, the
lemmas about remainders do the rest: the frame played last and the one now are neighbours
in their cycle. That the cycles fit is a fact about the schemes: every call of either `update()` asks
for a period of at most a second, or for one that `CountAssumption` names (`FlyOnSpeedCalls`,
`StallFenceCalls`), because frequencies are interpolated between limits only where
the limits are in order. `NoClick` follows from the oscillation: within a cycle the gain moves by
one part of the fade (`FadeIsGradual`), at its end it has come back to within one part of all of it,
and the next cycle begins with all of it.

`ViewProofs`: `TypeCorrectness` (`ScreenTypeOK`), `AlwaysRepaintsPanel` (`RepaintsPanel`), `EverythingInItsPlace`
(`InItsPlace`), `NoDataAlwaysShows` (`NoDataShows`), `StrokesAlwaysStartFresh` (`StrokesStartFresh`),
`AltitudeReadsBack` (`ReadsBack`). A picture is a sequence of widgets that `Drawn` folds
over the context. `PictureLeavesMarks` says what any picture of any length does: one mark for each
widget, in order, within the clip, joined to nothing, and turns, clip and saved states as they were.
It is an induction over the widgets (`DrawnInTurn`: the smallest number at which it would fail is
none, by `WFMin`), and it needs a context on which no path and no joined line is left where a picture begins
(`Rests`), so `ContextRests` says that of the time between any two steps. A current point
may be left: every arc begins without it. Each `paint` is then a
question about its sequence of widgets. `IInv` adds that a frame's first mark is
the background (`FrameBegins`), that every mark is within its region as the panel is turned *now*
and says what the air data says *now* (`MarksAreRight`: samples and turns must not change within a
frame), and that there is a ball as long as data that was valid when the frame
began is (`BallWhileLive`): `NoDataShows` alone says nothing until the frame is over, and the
data may expire between the two questions. That the cross goes from corner to corner of the
panel needs that the frame is not turned (`IsCross`): its lines lie where the turn puts them.

`AirdataProofs`: `SpeedsAlwaysSurviveNaN` (`SpeedsSurviveNaN`), `RateAlwaysRecovers` (`RateRecovers`).
A speed is a root, so it is never negative infinity (`ArithmeticTypes`), and `inf - inf` does not occur; guarded and
smoothed, it is NaN only if it was, or if it was infinite and the factor is 0 (`SpeedAfterSample`). The clean samples are the filter's newest values (`Window`), and the rate is that of the
filter as it is (`RateIsFilters`).

`UtilProofs`, the store: `FileTypeCorrectness`, `AlwaysOldOrNew` (`OldOrNew`). Before each write the disk has all that came
earlier (`SyncedBeforeWrite`), so it lacks the header or cells of one bank, never both
(`DiskIsBehind`): an `fsync` that comes too early for its own bytes is early enough for those
before it.

Assumptions used are the named ASSUMEs of the modules only;
`TableAssumption`, about the table of parameters, is checked by TLC for all of it.
`FlyOnSpeedAsksForItsRegime` asks besides that the tolerance and the default period are not 0: they
are constants of the code.

Only model-checked: liveness, and the fairness part of the refinements (ENABLED and
fairness are out of the prover's reach). These are `StopEndsLoop`, `OwnerReturns`, `ShallowCloses`,
`Converges`, `FallsSilent`, `Settles`, `LossShows`, `HearsSetting`, `Joins`, `StallIsHeard`, `HearsRegime`, and
of `QueueSpec`, `TimerSpec` and `CyclesFinish` what they say beyond their steps.

## 7. Plan

1. Composition of file and network: a web edit on a leader.
2. The telemetry sentences and their parsing; `AtomicStore`: `initialize` as a call,
   interrupted.
3. Proofs: the safety core of the liveness properties: for stallfence what `FlyOnSpeedAsksForItsRegime`
   says of flyonspeed; of `Settles` and `Converges`, that a state in which nothing is left to do is a
   state in which all agree.

## 8. Not modelled, and assumptions

Positions of lines and balls within their region, colours, fonts and the wording of texts are
left out of `View`; what the screens do with a frame (framebuffer, X11, the SPI protocol of the
display) is output to hardware. `box`, `polygon`, `shape` and `sine_envelope_layer` are used by no
other part of the program. Of aerodynamics `Airdata` has
what makes a speed or an altitude infinite or NaN; the values are real arithmetic. Fake telemetry and test programs are
not part of the running system; string compression is not used by it. The telemetry sentences'
formatting and parsing are left out; a sample is what comes out of them.

- `Airdata`: zeros have no sign, finite numbers do not overflow, a temperature is NaN or above
  absolute zero, `q_correction_factor` is finite and positive, and the ball's time constant is one that the knob can set
  (0 to 1): a file could set a negative or an infinite one.
- `View` takes the screen's size to be the panel's, as it is for the X11 and image screens
  (`ab_main.cpp:63-72`); the ST7789VI screen has a size of its own. A disc begins
  without a new path; joined to a point that was left behind, its border runs to the point and
  back and encloses no more, so `DrawDisc` does not mark it.
- `SettingsAssumption` of `SoundLayers` (the angles are in their order) is enforced by nothing
  in the program: files and knob may set them equal, and the schemes then divide by 0.
- `CountAssumption` of `SoundLayers`: `Modulus` is 2^32 or 2^64 by the build, a second is about 44,100
  frames (`Rate`), and a cast of NaN to an unsigned gives 0 (ARM) or half of 2^64 (x86-64). (A cast of a
  negative frequency may give more, but stallfence takes the smaller of it and a longest period.) Only an
  angle below alpha_min asks stallfence for a cycle longer than a base tone's, and it doubles
  for every octave below: there are two octaves to the range of angles, so that an angle would have to be
  many ranges below its least before a cycle does not fit.
- A scheme that was just installed plays what its layers' constructors made until its first
  `update()`, which follows in the same frame.
- `NoDataShows` counts a ball as painted when the code paints one; at a NaN angle it has no place and
  is not seen.
- The altimeter's and the ball's numbers are whole; rounding before them is left out.
- A settings document that does not parse leaves the rapidjson document the empty object
  that `SetObject` made it (`Settings.cpp:259-260`), so no parameter is loaded. A document that parses but has members of a wrong
  type is not considered.
- The server's and the display's settings path name the same file, on the same
  file system as the temporary file that `saveToFile` makes in its working
  directory, so that `rename` can succeed; write and rename may still fail (`WriteFails`, `RenameFails`).
- Settings are saved without `fsync`: `SettingsFile` has crashes of the process,
  not losses of power. `SettingsSync` takes a renamed file for durable.
- The web server handles one edit at a time and does not die in the middle.
- Condition variables wake nobody spuriously. (Woken before `start()` has opened the
  device, `loop()` would write to a null handle.)
- `SoundMixer` ends as the framework's `Application` does when `stop` is called. No part
  of `ab_main.cpp` calls it, and `AirballApplication` keeps a telemetry thread that is
  never joined; its destructor would end the process before the mixer's.
- The 1024-byte receive buffer holds the settings document.
