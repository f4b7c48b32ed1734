# A verification development for the AX310 driver

The program drives a mixing deck over USB HID. A driver library (`src/src/ax310`)
opens the deck, wakes it, reads and writes its registers, decodes its reports and
sends it frames for its screen. An application (`src/src/app`, `src/src/gui`)
runs the driver on a worker thread, offers it to an interface written in QML and
draws the deck's panel. What is hard about it is not the arithmetic: it is that
registers, caches, mutexes, a cable and two or more threads meet, that each USB
transfer may fail on its own, and that waking the deck overwrites what somebody
had set on it.

This directory holds TLA+ modules of those parts, the TLC configurations that
check them on small instances, and proofs that TLAPS checks for every instance.
Paths below are relative to `src/`, the root of the repository, and `Device.cpp`,
`DeviceBridge.cpp`, `Probe.cpp` and so on stand for the files of `src/ax310`,
`src/app` and `src/tools`.

## 1. Inventory

| Part | State | Operations | Modelled in |
|---|---|---|---|
| Level writes and their cache (`Device.cpp` 450-548) | `_levels`, `_lastLevelWrite`, `_paceMutex`; the deck's blocks 0x27, 0x2e and register 0x35 | `setLevel`, `writeLevelSpaced`, `readLevels`, `level` | LevelWrites |
| Mix selection and turns (`Device.cpp` 550-640, 862-911, 1164-1240) | `_mix`, `_mixerMode`; the deck's 0x15, 0x1d, 0x21 and ring colour; `_levelsWantReading` | `selectMix`, `adoptTheDecksOwnState`, the turn of a knob, `DeviceBridge::selectMix` | Mixer |
| Session (`Device.cpp` 142-417, `DeviceBridge.cpp` 89-166) | `_state`, the transport's handle, `_isRunning`, the worker, the snapshot | `connect`, `disconnect`, `run`, `start`, `stop` | Session |
| Screen frames (`Device.cpp` 941-1007) | `_screenMutex`, `_writeMutex` | `sendScreen` | Screen, FrameLine |
| Reports (`Device.cpp` 1009-1240) | `_isSeeded`, `_last`, `_isTouchDown`, `_touchX/Y`, `_audioMeters` | `poll`, `dispatchEvent`, `dispatchKnobBitmasks`, `dispatchKnobValues`, `dispatchAudioMeters` | Reports |
| Transport (`HidApiTransport.cpp`) | the handle | open, close, send, get, read | as transfers that land or fail |
| Bridge (`DeviceBridge.cpp` 113-210, 276-384, 541-567; `MixerView.qml`, `ScreenUI.qml`) | the mirror of the levels, `_monitorRestoreLevel`, `_levelsWantReading`, the queue of signals, the gauges | `setLevel`, `setMicMonitor`, `publishDeviceState`, `rememberLevel`, the tiles and gauges | Bridge |
| Effects chain (`Device.cpp` 430-448, 642-688, 781-860; `Settings.cpp` 99-151) | `_framedBodies`, `_parameterChosen`, `_effectState`, the settings file, the sliders | `setParameter`, `setEffectEnabled`, `applyEffectState`, `effectState`, `effects`, `setEffects` | Effects |
| Lights and brightness | none in the driver | one write each | not modelled |
| Render timer, frame jobs and shutdown (`main.cpp` 205-419) | the busy flag, `quitRequested`, where main() is | grab, encode, send on a pool thread; signal, quit timer, the destructors in their order | Panel, LiveView |
| Reading a register (`Protocol.hpp` 978-1013, `Device.cpp` 304-333, `Probe.cpp` 104-197) | the deck's reply buffer | question, answer, the echo that tells one from another | Answers |
| Probe: `--try` (`Probe.cpp` 594-671) | the old value | read, write, look, put back, read again | Answers |
| Probe: `--inputs` (`Probe.cpp` 1030-1540) | the walk's findings, the deck's lights | light, await a press and a release, retry, judge | InputWalk |
| Logging, QML, other tools, tests | files and widgets | | not modelled |

How they interact:

- The **worker** (`DeviceBridge::run`) connects, polls, re-reads the levels when
  asked and disconnects when a read fails. Events are delivered on it, through
  the listener, to the bridge and as Qt signals to the interface.
- The **interface** calls the driver's setters directly, on its own thread, and
  draws from a mirror. Its `selectMix` asks the worker for a reading through an
  atomic flag.
- **Pool threads** send frames that the render timer, on the interface's thread, has
  grabbed; a flag keeps it to one.
- **main()** leaves its event loop when it is told to and destroys view, timer and
  bridge; the bridge joins the worker, and the application waits for the pool.
- **The probe** is a program of its own that may run beside the driver: they share
  the deck, its registers, its lights and its reply buffer.
- Four mutexes order them: `_paceMutex` and `_screenMutex` are held over a
  sequence, `_writeMutex` over one transfer, `_stateMutex` over one assignment.
  The first two are taken before `_writeMutex` and never together.

What makes each part correct, in the order the hazards suggest: the cache follows
the registers; writes are spaced and pairs stay pairs; a selection leaves deck and
driver agreeing and destroys no level of a Dual deck; a session gives back the
settings it overwrote, gets a lost deck back, and ends when it is told to; the
deck gets whole frames; the listener hears what happened, once and in order;
the microphone's chain is what somebody chose, in this run or an earlier one, and
nothing else; the panel is a live view that is never overtaken and comes to show
the last look; the program ends when it is told to; an answer is never taken for
another's; and what a measurement says of the tables is true or is not said.
`PROJECT.json` lists the hazards one by one with the properties that cover them.

## 2. Modules

    LevelWrites  <-- Mixer            (EXTENDS: the level calls are its steps)
    Session      <-- Screen           (EXTENDS: frames run around the session)
                     Screen --> FrameLine   (INSTANCE: the abstraction it implements)
                     Screen   <-- Panel     (EXTENDS: main() around session and frames)
                                  Panel --> LiveView  (INSTANCE: the same)
    Reports, InputWalk, Answers  <-- Readers   (EXTENDS: they share an instance)
    Effects
    Bridge
    *Proofs      EXTENDS the component and TLAPS; MixerProofs EXTENDS LevelWritesProofs
                 and PanelProofs (of Screen and Panel) SessionProofs, as their
                 components do; ProbeProofs is of Answers, InputWalk and Readers
    MC*          EXTENDS the component and declares the names an instance uses

**LevelWrites.** A step is what one critical section does. A transfer and an
assignment are one step each, because their mutex is held for nothing else;
`_paceMutex` is held over several steps and is the variable `pace`. `pc` says
where a thread is inside `setLevel` or `readLevels`. The clock is two ages that
stop counting at the gap: what `writeLevelSpaced` remembers (`stampAge`) and what
the deck saw (`landedAge`). Ghosts: `passed` and `overtaken` mark a reading that a
write to the same register went past, `gateCut` a second microphone write that
was lost. The former is a race the code has: `readLevels` fetches and assigns in
two critical sections and a `setLevel` between them is overwritten in the cache by
the older answer, until the level is written or read again. CacheAgrees says that
this is all that can part cache and register.

**Mixer.** LevelWrites with the mixer around it. The worker starts inside
`connect()` after the restore, reads mode and mix, selects the mix, reads the
levels, and goes on to the bridge's loop, where it re-reads when asked and
otherwise polls for turns. The interface drags levels and switches mixes from the
first step on, as nothing keeps it from that. The deck's answer to `KnobLedSelect`
-- a value that names one mix copies that mix's playback tracks over the other,
the Dual value copies nothing -- is from `.agent/rules/hardware-facts.md`, lines
594-630, and `Protocol.hpp` 516-523. Ghosts name the exceptions: `crossed`
selections, a selection that was `cut`, a track the deck `refused` to answer for,
one it collapsed (`undone`) before a landed write had been recorded, and a request
that was `dropped`. `known` says that the worker has read the mode, and `blind` who
is in a selection that was called before: OnlyTheBlindCollapse says that on a Dual
deck no other step moves a level but by writing it, which rests on what a selection
works out when it is called and still carries when it writes.

**Session.** One thread at a time drives it: the worker, then, once `stop()` has
joined it, the thread that stopped it. Five of the fourteen preserved registers are
kept: SelectedMix (0x15) and KnobLedSelect (0x21), which the selection at the end of a
connect writes, the latter from both of their values; the two level blocks (0x27,
0x2e), which other writes run over; and the ring brightness (0x1e), which the shutdown
writes. The other nine are read and written back independently: no value of theirs
decides what is written elsewhere, and in a connect only the handshake and their own
restore write them. A transfer fails when the handle is stale
or when one of `MaxFaults` faults is spent. `KnobLedSelect`, if it is written a value
that names one mix, and the creator block may run over other registers when they are
written (`Protocol.hpp` 516-523, 1024-1031; `hardware-facts.md` 594-629); how much of
them is left to chance. After the restore connect() adopts what the deck came
back to: it reads the mode (`AdoptMode`) and the mix (`AdoptMix`) and selects that mix
(`SelectMix`, one transfer a step), which writes KnobLedSelect and SelectedMix again,
after the level blocks. A Dual deck keeps everything by that. On a Single deck the
write copies the monitored mix's playback tracks over the other block in each connect,
even with every transfer landing: `SelectionMayChange` says what the selection may
change, from what the connect found, and no promise is made of that.
`_mixerMode` outlives the session, as in the code. `before`, `wanted`, `lost` and
`late` are ghosts that say what the settings were and which register has an excuse.

**FrameLine and Screen.** FrameLine is the promise: chunks are one frame after
another, and a new one begins only after a whole one or one that was given up.
Screen is `sendScreen` under its two mutexes, called by any threads while Session
runs underneath; the steps of Session that make a transfer wait for
`_writeMutex`, and the one close that does not is a step of its own (`Tear`).

**Panel.** Screen with the program around it. The timer's grab and the job's
encoding may come to nothing (`MaxMishaps`). `busy` is set by the timer and cleared
by it or at a job's end; `job` says what each pool thread does with its frame.
main() goes from place to place the way its destructors do: the view and the timers
go, the bridge stops and joins the worker, the pool is waited for last. So a job
may outlive the bridge it points to, and a touch the view it is posted to:
`strayed` marks it, and such a job goes no further. `carries` and `shown`
say which look of the interface a frame is of; LiveView is the promise they are
checked against. With `main = "elsewhere"` the module is any other program that
uses the driver, whose threads send frames as they please: OneFrameAtATime and
ChunkHasHandle need no flag, and only there do two senders meet.

**Answers.** A question is answered into the deck's one reply buffer, which keeps
the tail of what it held; collecting is a second transfer, and another program may
ask in between. A reply is known by what it echoes, so `reply.to` is what it seems
to answer: the version's reply runs straight into data where a property has
address and length, so it may seem to have any. `seen` is the ghost that keeps
what the asked-for bytes have held since the question. `--try` runs on top, one
transfer a step, with `found` what its register really held when it was tried,
whatever the probe reads as the old value, and `disturbed` marking that somebody else
wrote it since.
A deck nobody has initialised (`cold`) answers nothing and the buffer stays.

**InputWalk.** The walk, the lights, and somebody who goes by them. A light write
is one step, may be lost, and may alternate with a driver's that lights all four.
`cues` are the buttons the lights have asked for so far: whoever goes by them may
have any of those down in the next report, early, late, again or never, which is
all that is assumed of the person; the knobs are pushed from left to right, the last
one again if the person likes.
A verdict is judged against every deck there might be (`Wirings`).

**Readers.** Reports, InputWalk and Answers have nothing in common but the deck they
read, so the module is one or another of them, and exists to check them together.

**Reports.** Hands act on a deck; a report samples it; `poll` turns two samples
into events. Ordinary reports may also come while a finger is down, and touch
reports come only then. `untold` counts presses against what the listener heard,
`moved` what a knob turned since the session's last report.

**Effects.** The deck answers nothing about its chain, so the driver edits cached
bodies, which begin as captured ones, and sends a body whole. No lock is held over
mark, edit and copy, and the interface and the worker do all three, so each access
is a step and a body is copied byte by byte; only the transfer is one step. A
parameter is one byte here, also the room size, which is two in the code. A run of
the program begins with what the settings file has (`Fresh`), leaves by storing
`EffectState` and joining the worker, or is killed at any step. `SetEffectEnabled`
is the driver's operation; the interface has no control for it yet. The deck may
switch the delay effect on when it takes that effect's body (`Device.cpp` 827-831):
whether it does is left to chance. Another program or a power cycle may change the
chain at any time, with the driver's handle open or not (`Elsewhere`); then nothing is
claimed of a body or an enable until the driver has sent it again. What concerns the handshake is only that it has
nothing about the chain in it (`Commands.hpp` 119-137), so the comment at
`Device.hpp` 435-438 that connect() sends the defaults is of an earlier version.
Ghosts: `touched` (set by hand in this run), `kept` (what each parameter was given in
the last run that touched it and was left, whatever `EffectState` makes of it; with the
one exception `CutOff`, a run left while the worker has marked a parameter as chosen
and not yet put it in the cache, of which the code stores the captured default),
`imposed` (bodies this run got onto the deck), `crowded`, `sure` and
`waived` (calls that met another thread's, or were lost).

**Bridge.** What the bridge makes of the levels the driver has. A level call of
the driver is one step here, as LevelWrites says how it is made; what follows it
is not: `rememberLevel` is a critical section of another mutex, the announcement
is made under none, and the worker and the interface's thread both go that way.
What the worker announces waits in the interface's event queue (`queue`, taken by
`Deliver`); what the interface's own thread announces reaches the gauges at once.
`decide` and `lookUp` are the two readings of `setMicMonitor(!micMonitor())`, for a
push of the knob on the worker and for the tile on the interface. `shown` is one
view's row of gauges, the one that is dragged. The handshake and the driver's
`selectMix` leave what Mixer and Session say; here the levels after them are left
to chance. A turn or a push may come while a request to read is pending, as the
worker may be inside `poll` when it is made. Ghosts: `heard` is the last level
above silence the driver knew the microphone at; `overtaken`, `behind` and
`unheard` mark calls that crossed between cache and mirror, and half-written
microphone levels; `late` and `astray` mark announcements that crossed between
mirror and gauge, and drags nobody has answered yet.

Cached levels appear in Mixer (two mixes, two threads) and in Reports (the row the
knobs turn). Reports cares for how far a turn goes and Mixer for what it starts
from, Bridge for who is told, so each keeps the others' half simple: Mixer's `Poll` reports any turn,
Reports' `DispatchKnobValues` writes at once.

## 3. Runs

All passing runs are exhaustive for their instance.

| Run | Instance | What it shows |
|---|---|---|
| LevelWrites_mic | 2 threads, the microphone (two tracks, one of them paired), 2 steps, gap 2, any transfer may fail | CacheAgrees, LevelWritesSpaced, MicPairAgrees |
| Mixer_all | 2 threads, one playback track in two mixes, gap 1, no faults, the interface drags and switches | MixInv (with StaleLevelsAreReread and SelectionAgrees), OnlyTheBlindCollapse |
| Mixer_faults | the same with gap 0, any transfer may fail, the interface switches | MixInv, SelectionAgrees, StaleLevelsAreReread, RereadComes |
| Session_all | the mode, the mix and the two blocks of a Dual or Single deck on either mix, 2 faults, 1 unplug, 1 setting | SessionInv (handle and state agree, what is to be put back is in hand, and the selection writes what was found), SettingsComeBack, Reconnects, StopEnds |
| Panel_all | 2 pool threads, frames of 0 and 3 chunks, 2 looks, 1 grab or encoding that fails, 1 fault, 1 unplug; the preserved registers left to Session_all | PanelInv, ChunkHasHandle, OneFrameAtATime (Screen implements FrameLine), ShowsALiveView (Panel implements LiveView), LastLookIsShown, ProgramEnds |
| Readers_all | Reports: 1 button, 1 knob, 2 spots, 2 readings, a counter of 4, 2 steps. InputWalk: 3 buttons, 2 knobs, 2 attempts, 1 light write lost. Answers: 2 registers of 2 values, questions of 1 or 2 bytes, 2 programs, 1 write of others, 1 lost write | ReportsInv, MetersAreTold, NoPhantomPress, ContactsInOrder, LevelsFollowKnobs, LiftIsTold; WalkInv, VerdictsAreTrue; AnswersAreTheirs, TrialIsUndone |
| Effects_all | 2 parameters of one body, 1 enable, values 0 and 1, 1 setting by hand in each of 2 runs of the program | EffectsInv, BodyIsOnTheDeck, EnablesHaveTheFinalWord, NoStrangersChain, NextRunStartsWhereLastEnded |
| Bridge_all | the microphone, 2 steps, a queue of 2, 4 calls at the panel or the deck, any call may be lost | BridgeInv, MirrorFollowsCache, RestoreIsWhatWasHeard, GaugesFollowMirror |

The invariants whose name ends in Inv are the inductive ones of the proofs, and
type correctness is a part of each: a run checks them before anybody proves them.

Why the bounds are enough. Two threads are what the program has for levels and
mixes (worker and interface); the proofs of LevelWrites and Screen cover any
number. A gap of 2 separates "no time", "some time" and "the gap". Two steps of
level tell a value from another, the clamp from the turn and the end of the scale
from its middle; a counter of 4 has a half to tell the sign by and wraps at once.
Tracks do not interact but for the microphone's pair and the playback copy, and
an instance has each of those. Two faults allow one in the handshake or restore
and one in what follows; one unplug gives a stale handle at any point; three
chunks are a first, a middle and a last. Reports' `Turn` keeps a knob below half a
round between two reports, beyond which the code itself cannot tell the
direction. Two parameters of one body let a call carry a byte it is not about; two
runs of the program are what a choice needs to outlive one, and a third would
begin as the second does, from a file and a deck that Effects starts with any of.
In Bridge no property relates two tracks, and the microphone is the one that is
also monitored and half-written; two levels above silence tell the last heard from
another; four calls let each thread's call cross one of the other's, with one
before and one after. BridgeProofs holds for any number of all of these.
In Panel two threads and two looks are enough for a frame to overtake another, if
the flag let it; a third look would follow the second as that follows the first. The one
mishap is at any grab or any encoding, and the one fault at any transfer.
In InputWalk three buttons tell the one asked for from one that was and one that
will be; the code asks three times for a button, and the second time already
differs from the first in every way that the third does. In Answers two registers
and two lengths are an answer that is another's, one that is too short, and one
that runs past.
Deadlock is not checked in Session, Panel, Effects and Readers, where the program,
or the walk, ends; the other modules never stop.

### Runs that end in a violation

Each states what a comment, a document or a test says and finds a run of the code
that contradicts it. `PROJECT.json` quotes the text.

- **Mixer_V_DualMixesStayApart.** The interface switches the mix while `connect()`
  has not read the mode yet; `_mixerMode` is still Single and the deck, which is
  Dual, copies one mix over the other. A mode read that fails does it, too.
- **Session_V_LevelsAreTheUsers.** A handshake that fails after it has written
  captured levels closes the deck; the next `connect()` snapshots those.
- **Session_V_StopPutsBack.** The shutdown sequence writes the brightness of the
  rings and nothing restores it, in a run without a single fault.
- **Effects_V_SlidersShowTheDriver.** The sliders are made, each with the value the
  cache begins with; then the first connect puts the stored parameters into the
  cache, and only the bridge's own `setParameter` tells the sliders anything.

In the passing runs the same facts are kept apart: `lost`, `late`, a per-connect
`before` and `SelectionMayChange` in SettingsComeBack, and the selections called before
the mode was read (`blind`) in OnlyTheBlindCollapse. What is left is what the code does
guarantee. The two Session runs claim nothing of `SelectionMayChange` either, so what
they find is not the Single deck's copy.

### Fairness

- LevelWrites, Effects and Bridge have no liveness property and no fairness. That `_paceMutex` is given back
  is the scope of a lock guard and nothing to check.
- Mixer: the worker keeps looping, an interface thread inside the driver goes on,
  time passes. The interface is never obliged to call.
- Session: the driving thread goes on. Nobody has to stop the program or touch the
  cable, so Reconnects is stated for a deck that stays on the bus and faults are
  bounded: a deck that fails every transfer for ever is not got back by any code.
- Panel: the event loop serves its timers, the worker, the pool's threads and
  main()'s way down go on. Nobody has to give the signal, and who gets a free mutex
  is not assumed: ProgramEnds and LastLookIsShown hold because there is one frame
  at most, so nothing contends for `_screenMutex`. LastLookIsShown is stated for a
  deck that stays connected and an interface that comes to rest.
- Reports: with no finger down the deck sends ordinary reports (`Protocol.hpp`
  1833) and the worker polls for them. Of the walk and of the registers nothing is
  assumed: whoever is at the deck need not press, and no program need go on.

## 4. Proofs

TLAPS proves the following for every value of the constants that the named
assumptions allow (`LevelAssumption`, `MixerAssumption`, `SessionAssumption`,
`ScreenAssumption`, `ReportsAssumption`, `EffectsAssumption`, `BridgeAssumption`,
`PanelAssumption`, `AnswersAssumption`, `WalkAssumption`; TLC evaluates each on its
run's instance). Every invariant and every action property of the passing runs is
stated by a theorem; liveness is not.

**LevelWritesProofs.** `IInv` is inductive; TypeCorrect, CacheAgreement, Spacing
and MicPairing follow. None of the four properties is inductive by itself.
`PaceOwned` says that exactly the owner of `pace` is between taking and returning
it, so there is one writer. `WriterSeesRegister` carries what it wrote from the
landing to the recording: with one writer nothing else moves the register.
`ReaderSeesRegister` does it for the reading that no write has passed.
`StampCoversLanding` and `GapWaitedFor` say that the stamp the next writer waits by
is never older than the landing, except while the writer has still to take it,
which is why the stamp must be taken with the lock held. `MicPairOnItsWay`
says where the pair may be apart.

**MixerProofs.** StepKinds sorts the steps into a dozen kinds, and what follows is
proved kind by kind. `MixInv` is inductive: `WorkerPlace` (the deck is adopted
once), `LoneSelectionFenced`, `CrossingsAreMarked` and `SelectionOnItsWay` (write by
write, what a whole selection has got onto the deck so far) give SelectionsAgree.
StaleLevelsReread needs to know of every level in somebody's hands what it is worth:
`RecordedOrUndone` of a writer's, `AnswerHolds` of the reader's. SightedKeepApart
is the action property, from the same invariant: `KnownIsTrue` and `NoneSees`
say that a selection called once the mode was read carries the Dual value all the way
to its write, and that on a Dual deck no selection called before can be taken for one.
MixerSpacing and MixerMicPairing show that LevelWrites' promises about the registers
survive the composition, in which threads call from more places and selections move
levels behind the writers' backs; `MicInHand` is what is left of WriterSeesRegister
there. CacheAgrees does not survive it: StaleLevelsAreReread is what does.

**SessionProofs.** ControlInvariant is the control flow by itself: handle, state,
place and who drives. SessionInvariant and SettingsAreBack add the way back,
`OnTheWayBack`, one claim for each loop of connect(): up to `next` the snapshot has
what the register held; then all of it is in hand; then up to `next` the register has
it back and from `next` on it is in hand. That writing one back disturbs none that
was written before is RunsOverComesLater, the lemma about the order of
`PreservedAddresses`: with two entries swapped it is false. The selection comes after
all of them and has no such order to help it: there `ModeHolds` and `MixHolds` say that
what it has read is what the connect found, SelectionRunsOver what its KnobLedSelect can
then run over, and SelectMixTouches that each of its writes changes nothing outside
`SelectionMayChange` (EverythingIsBack, AdoptPromise, PublishPromise carry the claim
from the restore's end to the session).

**PanelProofs.** Of Screen: `FrameInv` is inductive, sessions included;
`ScreenOwned` makes one thread the owner, `LastIsMine` ties its progress to the
last chunk the deck took, `LastIsOver` says that nothing is left half-way
otherwise. OneFrame then maps each step to a step of FrameLine or a stutter: a
landing to Begin or GoOn, a chunk that fails to GiveUp. ChunksHaveHandles is from
`ChunkInv`, in which `WriteOwned` (a chunk on its way owns the write lock) meets
SessionControl: only a step under that lock takes a handle away, or the one that
marks the sender.
Of Panel: PanelInv is inductive as it stands, over FrameInv: a thread is inside
`sendScreen` exactly while its job is, so a job that ends
in any way leaves no frame behind, and the flag goes with the only job there is.
That there is only one is what lets a job without its bridge give up whatever frame
is under way. LiveViewShown maps a grab to Grab, a landing to Show or a stutter and
the job's end to Over. FrameJobsHaveHandles, JobsSendOneFrame, FramesLeaveTheSession
and FramesLeaveTheSettings say of the whole program what was proved of its parts:
each of its steps is one of the session's, or moves nothing of it but its faults.

**ReportsProofs.** `PressInv` says that a control which is down now and was not in
the last report (a button) or in the session's last (a knob) has still to be told.
With it no event takes `untold` below zero: PressesOnce. That the button's half
holds across sessions and the knob's only inside one is the code's asymmetry.
`ReportsInv` adds that a contact is told down exactly while the driver holds it
down (`ContactIsTold`, for ContactsAreTold), that the listener's meters are the
driver's while connected (`ReadingIsTold`, for MetersTold), and that a counter is the last
report's and what has been turned since, wrapped once at most (`CountersFollow`).
LevelsFollow is from that and DeltaIsTheTurn: the delta the code computes from
two bytes is what was turned, as long as that is less than half a round. It is
proved for any even width.

**EffectsProofs.** NoStrangersChain speaks of the deck and of what was chosen; what
carries it from run to run is the file, so the invariant (`ChosenInv`) follows a
choice all the way: stored implies chosen, given to the driver implies stored, on
its way to the deck implies given or set by hand (`StoredWasChosen`,
`SentWasChosen`). The step that needs it is Leave, where a parameter the driver
marked itself, because it applied it, is stored again (`MarkedWasChosen`). TypesHold is the clamp's
result at every place a value gets to. `EffectsInv` is the whole: a body that is
copied is the cache's byte by byte up to where the copy is (`CopiesAreTrue`) unless
the threads have met over it (`MeetingsAreMarked`), which gives BodiesAreOnTheDeck;
the enables of a connect come after its parameters (`EnablesComeLast`,
`EnablesAreTrue`), which gives FinalWord; and what was wanted when a run was left is
in the file, then in the driver's hands, then in the cache (`FileIsKept`,
`WantedIsHeld`), which gives NextRunStarts. That storing `EffectState` stores what
`kept` asks for, wherever in its connect the worker is, is from `MarkedIsHeld`: what is
marked as chosen is in the cache, or a thread is one step from putting it there.

**BridgeProofs.** The mirror agrees with the cache when nobody carries a level, so
the invariant (`MirrorInv`) says what is in somebody's hands: `HeldIsCached`, a
level on its way to the mirror is the cached one unless the cache has moved on
since (`overtaken`), and `IdleHasNothingLeft`, that a thread which has come home
has published every track. MonitoringPutsBack needs more, as `heard` is set with
the cache and `restore` with the mirror: `CachedIsHeard` ties the first two and
`RestoreOrOnItsWay` says that what was heard is restored, or in the hands of a
thread, or read and not yet published. Steps that touch neither cache nor mirror
are dealt with once, in the lemma AsideKeepsInv. `BridgeInv` adds what is on
its way from the mirror to the gauges (`AnnouncementsAreTrue`: an announcement in a
thread's hands or in the queue is the mirror's unless it is marked `late`), from
which GaugesAreTold.

**ProbeProofs.** Of Answers: AnswersAreTheirs needs three things beside it
(`ReadInv`): the
buffer of a deck that is not awake answers nobody (`ColdIsSilent`), what the
registers hold now is in `seen` (`SeenIsNow`), and an answer to a longer question
is, for the bytes both asked for, the registers' (AskReadInv). TryUndoesItself adds
`TrialInv`: until the old value is taken the register has held one value or been
disturbed (`BeforeIsSteady`), and at each place where it is not being tried it has
the old one (`RegisterIsBack`). The old value is the one the register held when it was
tried, not only the one the probe believes it read (`OriginalIsFound`). The exception for the fence inside the fence is
needed by FenceIsAnother.
Of InputWalk: `WalkInv` is inductive. `LightsInOrder` says which lights can be on
while lightOnly's writes are under way, so that they never ask for a button ahead of
the walk (`CuesInOrder`), whatever another program lights in between; so what is taken
down in a round is of that round or before (`TakenInOrder`). `PushedInOrder` says the
same of knobs. VerdictsTrue is then a counting argument (NoneBeyondItsPlace,
InOrderAreInPlace, by the pigeonhole theorem of the library): a distinct button in
every round, none beyond its round, can only be each round's own, and as many
increasing knobs as there are knobs are all of them; so a verdict, if there is one, is
right of whatever deck it is.
Of Readers: ReadersAreThemselves, that each part behaves in it as it does alone.

What stays with TLC is every liveness property (RereadComes,
Reconnects, StopEnds, LastLookIsShown, ProgramEnds, LiftIsTold), whose proofs would
need fairness and ENABLED, and the four violations. No module uses a RECURSIVE
operator; Session's tables are concatenations of at most one element each, so that
nothing has to be proved about filtering a sequence.

## 5. What is not modelled, and the plan

Left out for good: byte layouts, checksums and name tables (checked by the
compiler and unit tests, no state); lights and brightness of the driver (one
stateless write each); logging and QML layout; the capture decoder, the document
generator and the screenshot maker, which go once over a file; the probe's
single writes (`--level`, `--button` and the like, which appear in Answers as
others' writes) and the commands that only print what they read. Objects that are
used after they are destroyed are marked in Panel (`strayed`) but what happens then
is not modelled. `_state` is read without synchronisation by other threads; the
models let those readers see either value and rely on the handle, which is looked
at under the lock.

Next, in this order:

1. Mixer and Session in one module: what a reconnect does to a selection and to a
   setLevel that are under way, now that both invariants are proved alone.
2. Abstract specifications of the mixer (a selection as one step, its exceptions
   named) and of the session (connected or not, settings kept), with the invariants
   proved so far as the refinement's.
3. The other nine preserved registers, should any turn out to depend on another.
