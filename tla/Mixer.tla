------------------------------- MODULE Mixer -------------------------------
(***************************************************************************)
(* The mixer of a connected deck: the level registers and their cache      *)
(* (LevelWrites) together with which mix is monitored, whether the deck    *)
(* keeps its two mixes apart, and the thread that adopts what the deck     *)
(* came back on, re-reads its levels when asked to, and applies the turns  *)
(* the deck reports.                                                       *)
(*                                                                         *)
(* Reader is the bridge's worker: it starts inside Device::connect, with   *)
(* the handshake and the restore behind it, and goes on to the loop of     *)
(* DeviceBridge::run.  The other threads are the interface: they call      *)
(* DeviceBridge::setLevel and selectMix whenever they like, and nothing    *)
(* in the bridge keeps them from doing so while the deck is being adopted. *)
(***************************************************************************)
EXTENDS LevelWrites

CONSTANTS
  GuiCalls,   \* what the interface does in this instance: "level", "mix"
  Deltas      \* how far a report can say a knob has turned

Playback == Knobs \cap {"System", "Game", "Chat"}  \* the host's tracks
Worker   == Reader
Gui      == Threads \ {Worker}
Modes    == {"Single", "Dual"}
LedSelects == Mixes \cup {"Dual"}

ASSUME MixerAssumption ==
  /\ GuiCalls \subseteq {"level", "mix"}
  /\ Deltas \subseteq Int \ {0}

VARIABLES
  selected,     \* the deck: SelectedMix, 0x15
  led,          \* the deck: KnobLedSelect, 0x21, the mode and the rings' mix
  fence,        \* the deck: SettingsTransaction, 0x1d, is open
  ring,         \* the deck: the mix whose colour the rings were last given
  mix,          \* Device::_mix
  mode,         \* Device::_mixerMode
  wantReading,  \* DeviceBridge::_levelsWantReading
  connected,    \* connect() has returned to the worker
  target,       \* the mix each thread's selectMix was given
  rings,        \* and the KnobLedSelect it worked out when it was called
  turns,        \* what is left to dispatch of the report being handled
  crossed,      \* the last selections overlapped
  cut,          \* a write of the last selections was lost
  undone,       \* the tracks the deck collapsed between landing and recording
  refused,      \* the tracks the deck did not answer for when last asked
  dropped,      \* the last request to re-read was cleared without a reading
  known,        \* the worker has read the mode
  blind         \* whoever is in a selectMix called before it had

deckVars   == <<selected, led, fence, ring>>
driverVars == <<mix, mode, wantReading, connected>>
callVars   == <<target, rings, turns>>
ghosts     == <<crossed, cut, undone, refused, dropped, known, blind>>
mixVars    == <<deckVars, driverVars, callVars, ghosts>>
levelData  == <<reg, gate, levels, pace, track, level, toRead, stampAge,
                landedAge, passed, overtaken, gateCut>>  \* all but pc
allVars    == <<levelVars, mixVars>>

SelectPc == {"fenceOpen", "led", "selector", "ring", "fenceClose", "mixAssign"}
AdoptPc  == {"readMode", "readMix", "choose", "settle"}
MixPc    == LevelPc \cup SelectPc \cup AdoptPc \cup {"want", "poll", "dispatch"}

NoTurns == [k \in Knobs |-> 0]

\* Type correctness of the composition.
MixTypeOK ==
  /\ LevelTypeOK
  /\ pc \in [Threads -> MixPc]
  /\ selected \in Mixes /\ ring \in Mixes /\ mix \in Mixes
  /\ led \in LedSelects
  /\ mode \in Modes
  /\ target \in [Threads -> Mixes]
  /\ rings \in [Threads -> LedSelects]
  /\ turns \in [Knobs -> Deltas \cup {0}]
  /\ undone \in SUBSET Tracks /\ refused \in SUBSET Tracks
  /\ fence \in BOOLEAN /\ wantReading \in BOOLEAN /\ connected \in BOOLEAN
  /\ crossed \in BOOLEAN /\ cut \in BOOLEAN /\ dropped \in BOOLEAN
  /\ known \in BOOLEAN /\ blind \in SUBSET Threads

\* knobLedSelectFor
LedSelectFor(md, m) == IF md = "Dual" THEN "Dual" ELSE m

\* The deck is as the restore left it, in the mode and on the mix it was on;
\* the rings wear the handshake's colour.  The driver's members are as they
\* are constructed.
MixInit ==
  /\ LevelInit
  /\ pc = [t \in Threads |-> IF t = Worker THEN "readMode" ELSE "idle"]
  /\ selected \in Mixes
  /\ \E md \in Modes : led = LedSelectFor(md, selected)
  /\ fence = FALSE
  /\ ring = "Creator"
  /\ mix = "Creator"
  /\ mode = "Single"
  /\ wantReading = FALSE
  /\ connected = FALSE
  /\ target = [t \in Threads |-> "Creator"]
  /\ rings = [t \in Threads |-> "Dual"]
  /\ turns = NoTurns
  /\ crossed = FALSE
  /\ cut = FALSE
  /\ undone = {}
  /\ refused = {}
  /\ dropped = FALSE
  /\ known = FALSE
  /\ blind = {}

-----------------------------------------------------------------------------
(* selectMix: five writes, each a critical section of its own.             *)

\* Mutant: the mix is written bare, and a Dual deck is put back into Single.
RingsIgnoringMode(m) == m

RingsFor(m) == LedSelectFor(mode, m)

\* The call.  What KnobLedSelect will carry is worked out here, from
\* _mixerMode as it is now.  A selection that starts alone makes every write
\* again: whatever crossed or was cut before it is behind.
CallSelectMix(t, m) ==
  LET alone == \A u \in Threads \ {t} : pc[u] \notin SelectPc IN
  /\ target' = [target EXCEPT ![t] = m]
  /\ rings' = [rings EXCEPT ![t] = RingsFor(m)]
  /\ crossed' = ~alone
  /\ cut' = (cut /\ ~alone)
  /\ blind' = IF known THEN blind \ {t} ELSE blind \cup {t}
  /\ Goto(t, "fenceOpen")

\* Where the thread goes once its selectMix is over: the worker reads the
\* levels whether or not the selection worked, the interface asks for a
\* reading only if it did.
AfterSelect(t, worked) ==
  /\ target' = [target EXCEPT ![t] = "Creator"]
  /\ rings' = [rings EXCEPT ![t] = "Dual"]
  /\ blind' = blind \ {t}
  /\ IF t = Worker
       THEN CallReadLevels
       ELSE /\ Goto(t, IF worked THEN "want" ELSE "idle")
            /\ UNCHANGED levelData

\* Mutant: the rings' colour goes out after the fence is closed.
RingAfterFence ==
  [fenceOpen |-> "led", led |-> "selector", selector |-> "fenceClose",
   fenceClose |-> "ring", ring |-> "mixAssign"]

\* The order of the five writes.
AfterWrite ==
  [fenceOpen |-> "led", led |-> "selector", selector |-> "ring",
   ring |-> "fenceClose", fenceClose |-> "mixAssign"]

\* A write of the sequence is lost, and with it the rest of the sequence.
LoseSelect(t) ==
  /\ pc[t] \in SelectPc \ {"mixAssign"}
  /\ "write" \in Faults
  /\ cut' = TRUE
  /\ AfterSelect(t, FALSE)
  /\ UNCHANGED <<deckVars, driverVars, turns, crossed, undone, refused,
                 dropped, known>>

LandFence(t) ==
  /\ pc[t] \in {"fenceOpen", "fenceClose"}
  /\ fence' = (pc[t] = "fenceOpen")
  /\ Goto(t, AfterWrite[pc[t]])
  /\ UNCHANGED <<levelData, selected, led, ring, driverVars, callVars,
                 ghosts>>

\* The deck's side of KnobLedSelect: a value that names one mix has that mix's
\* playback tracks copied over the other block; the Dual value copies nothing.
Collapsed(r, v) ==
  [e \in Tracks |-> IF v \in Mixes /\ e[2] \in Playback THEN r[<<v, e[2]>>]
                                                        ELSE r[e]]

LandLed(t) ==
  /\ pc[t] = "led"
  /\ led' = rings[t]
  /\ reg' = Collapsed(reg, rings[t])
  /\ undone' = undone \cup {e \in Tracks : /\ reg'[e] # reg[e]
                                         /\ \E u \in Threads : Recording(u, e)}
  /\ Goto(t, AfterWrite["led"])
  /\ UNCHANGED <<gate, levels, pace, track, level, toRead, stampAge,
                 landedAge, passed, overtaken, gateCut>>
  /\ UNCHANGED <<selected, fence, ring, driverVars, callVars, crossed, cut,
                 refused, dropped, known, blind>>

LandSelector(t) ==
  /\ pc[t] = "selector"
  /\ selected' = target[t]
  /\ Goto(t, AfterWrite["selector"])
  /\ UNCHANGED <<levelData, led, fence, ring, driverVars, callVars, ghosts>>

LandRing(t) ==
  /\ pc[t] = "ring"
  /\ ring' = target[t]
  /\ Goto(t, AfterWrite["ring"])
  /\ UNCHANGED <<levelData, selected, led, fence, driverVars, callVars,
                 ghosts>>

\* Only once everything has landed does the driver say it is on the mix.
AssignMix(t) ==
  /\ pc[t] = "mixAssign"
  /\ mix' = target[t]
  /\ AfterSelect(t, TRUE)
  /\ UNCHANGED <<deckVars, mode, wantReading, connected, turns, crossed, cut,
                 undone, refused, dropped, known>>

SelectStep(t) ==
  \/ LandFence(t)
  \/ LandLed(t)
  \/ LandSelector(t)
  \/ LandRing(t)
  \/ AssignMix(t)
  \/ LoseSelect(t)

-----------------------------------------------------------------------------
(* adoptTheDecksOwnState, up to the selection and the reading it makes.    *)

ReadMode ==
  /\ pc[Worker] = "readMode"
  /\ mode' = IF led = "Dual" THEN "Dual" ELSE "Single"
  /\ known' = TRUE
  /\ Goto(Worker, "readMix")
  /\ UNCHANGED <<levelData, deckVars, mix, wantReading, connected, callVars,
                 crossed, cut, undone, refused, dropped, blind>>

\* A mode that cannot be read leaves _mixerMode what it was.
ReadModeFails ==
  /\ pc[Worker] = "readMode"
  /\ "read" \in Faults
  /\ Goto(Worker, "readMix")
  /\ UNCHANGED <<levelData, mixVars>>

\* asked.value_or(MixId::Creator)
ReadSelectedMix ==
  /\ pc[Worker] = "readMix"
  /\ \/ target' = [target EXCEPT ![Worker] = selected]
     \/ /\ "read" \in Faults
        /\ target' = [target EXCEPT ![Worker] = "Creator"]
  /\ Goto(Worker, "choose")
  /\ UNCHANGED <<levelData, deckVars, driverVars, rings, turns, ghosts>>

Choose ==
  /\ pc[Worker] = "choose"
  /\ CallSelectMix(Worker, target[Worker])
  /\ UNCHANGED <<levelData, deckVars, driverVars, turns, undone, refused,
                 dropped, known>>

\* connect() has returned: run() clears the request to re-read, because the
\* levels have just been read.
Settle ==
  /\ pc[Worker] = "settle"
  /\ dropped' = (dropped \/ wantReading)
  /\ wantReading' = FALSE
  /\ connected' = TRUE
  /\ Goto(Worker, "idle")
  /\ UNCHANGED <<levelData, deckVars, mix, mode, callVars, crossed, cut,
                 undone, refused, known, blind>>

AdoptStep == ReadMode \/ ReadModeFails \/ ReadSelectedMix \/ Choose \/ Settle

-----------------------------------------------------------------------------
(* The loop of DeviceBridge::run on a connected deck.                      *)

\* Mutant: the request is taken and nothing is read.
RequestTakenOnly ==
  /\ pc[Worker] = "idle"
  /\ wantReading
  /\ wantReading' = FALSE
  /\ Goto(Worker, "poll")
  /\ UNCHANGED <<levelData, deckVars, mix, mode, connected, callVars, ghosts>>

\* _levelsWantReading.exchange(false), and the reading it asks for.
Reread ==
  /\ pc[Worker] = "idle"
  /\ wantReading
  /\ wantReading' = FALSE
  /\ dropped' = FALSE
  /\ CallReadLevels
  /\ UNCHANGED <<deckVars, mix, mode, connected, callVars, crossed, cut,
                 undone, refused, known, blind>>

EnterPoll ==
  /\ pc[Worker] = "idle"
  /\ ~wantReading
  /\ Goto(Worker, "poll")
  /\ UNCHANGED <<levelData, mixVars>>

\* The deck reports how far knobs have turned, or nothing in time.
Poll ==
  /\ pc[Worker] = "poll"
  /\ turns' \in [Knobs -> Deltas \cup {0}]
  /\ Goto(Worker, IF turns' = NoTurns THEN "idle" ELSE "dispatch")
  /\ UNCHANGED <<levelData, deckVars, driverVars, target, rings, ghosts>>

\* Level::fromPercent(held + delta * PercentPerStep), in steps.
Turned(l, d) ==
  IF l + d < 0 THEN 0 ELSE IF l + d > MaxSteps THEN MaxSteps ELSE l + d

\* A turn moves the level the driver holds for the mix it is on, both read in
\* one critical section; the write comes after it.
ApplyTurn(k) ==
  LET e == <<mix, k>> IN
  /\ pc[Worker] = "dispatch"
  /\ turns[k] # 0
  /\ levels[e] # NoLevel
  /\ Turned(levels[e], turns[k]) # levels[e]
  /\ turns' = [turns EXCEPT ![k] = 0]
  /\ CallSetLevel(Worker, e, Turned(levels[e], turns[k]))
  /\ UNCHANGED <<deckVars, driverVars, target, rings, ghosts>>

\* A turn of a track whose level is not known, or that is at its end already.
RefuseTurn(k) ==
  LET e == <<mix, k>> IN
  /\ pc[Worker] = "dispatch"
  /\ turns[k] # 0
  /\ levels[e] = NoLevel \/ Turned(levels[e], turns[k]) = levels[e]
  /\ turns' = [turns EXCEPT ![k] = 0]
  /\ UNCHANGED levelVars
  /\ UNCHANGED <<deckVars, driverVars, target, rings, ghosts>>

EndPoll ==
  /\ pc[Worker] = "dispatch"
  /\ turns = NoTurns
  /\ Goto(Worker, "idle")
  /\ UNCHANGED <<levelData, mixVars>>

LoopStep ==
  \/ Reread
  \/ EnterPoll
  \/ Poll
  \/ \E k \in Knobs : ApplyTurn(k) \/ RefuseTurn(k)
  \/ EndPoll

-----------------------------------------------------------------------------
(* The interface.                                                          *)

GuiSetLevel(t) ==
  /\ "level" \in GuiCalls
  /\ SetLevel(t)
  /\ UNCHANGED mixVars

GuiSelectMix(t) ==
  /\ "mix" \in GuiCalls
  /\ pc[t] = "idle"
  /\ \E m \in Mixes : CallSelectMix(t, m)
  /\ UNCHANGED <<levelData, deckVars, driverVars, turns, undone, refused,
                 dropped, known>>

\* Mutant: the levels are taken to be what they were before the switch.
AskForNothing(t) ==
  /\ pc[t] = "want"
  /\ Goto(t, "idle")
  /\ UNCHANGED <<levelData, mixVars>>

\* DeviceBridge::selectMix after a selection that worked.
AskForReading(t) ==
  /\ pc[t] = "want"
  /\ wantReading' = TRUE
  /\ Goto(t, "idle")
  /\ UNCHANGED <<levelData, deckVars, mix, mode, connected, callVars, ghosts>>

GuiProgress(t) ==
  \/ (SetLevelStep(t) \/ ReturnTo(t, "idle")) /\ UNCHANGED mixVars
  \/ SelectStep(t)
  \/ AskForReading(t)

\* A step of readLevels, and what it says of the tracks that were asked for.
ReadStep ==
  /\ \/ \E e \in Tracks : Fetch(e) /\ refused' = refused \ {e}
          /\ undone' = IF \E t \in Threads : Recording(t, e)
                         THEN undone ELSE undone \ {e}
     \/ \E e \in Tracks : FetchFails(e) /\ refused' = refused \cup {e}
                                /\ UNCHANGED undone
     \/ Assign /\ UNCHANGED <<refused, undone>>
  /\ UNCHANGED <<deckVars, driverVars, callVars, crossed, cut, dropped, known,
                 blind>>

WorkerStep ==
  \/ (SetLevelStep(Worker) \/ ReturnTo(Worker, "dispatch")) /\ UNCHANGED mixVars
  \/ SelectStep(Worker)
  \/ ReadStep
  \/ EndReadLevels(IF connected THEN "poll" ELSE "settle") /\ UNCHANGED mixVars
  \/ AdoptStep
  \/ LoopStep

MixNext ==
  \/ \E t \in Gui : GuiSetLevel(t) \/ GuiSelectMix(t) \/ GuiProgress(t)
  \/ WorkerStep
  \/ Tick /\ UNCHANGED mixVars

MixSpec == MixInit /\ [][MixNext]_allVars

\* A thread inside the driver goes on and the worker keeps looping.
MixFairSpec ==
  /\ MixSpec
  /\ WF_allVars(Tick /\ UNCHANGED mixVars)
  /\ WF_allVars(WorkerStep)
  /\ \A t \in Gui : WF_allVars(GuiProgress(t))

-----------------------------------------------------------------------------
(* Properties.                                                             *)

Selecting == \E t \in Threads : pc[t] \in SelectPc

\* Whether the deck has been adopted: the worker's first selection is behind.
Adopted ==
  connected \/ pc[Worker] \in {"fetch", "assign", "settle"}

\* What a selection is for: with the deck adopted and no selection running,
\* the mix the driver writes levels to, the mix the deck monitors, the mix the
\* rings wear and the register that carries the mode all say the same, and the
\* fence is closed -- if no two selections have crossed and none was cut.
SelectionAgrees ==
  Adopted /\ ~Selecting /\ ~crossed /\ ~cut
    => /\ selected = mix
       /\ ring = mix
       /\ led = LedSelectFor(mode, mix)
       /\ ~fence

\* "all three go inside one fence" (Device.cpp:563): the three writes of a
\* selection that no other crosses land between the opening of the fence and
\* its closing, whatever an earlier selection left behind.
LoneSelectionFenced ==
  \A t \in Threads :
    pc[t] \in {"led", "selector", "ring"} => fence \/ crossed

\* "a switch that assumed Single would flatten a Dual deck's second mix"
\* (Device.cpp:872): on a Dual deck a level changes only when it is written.
DualMixesStayApart ==
  [][led = "Dual" =>
       \A e \in Tracks : reg'[e] # reg[e] =>
         \E t \in Threads : pc[t] = "transfer" /\ track[t] = e]_allVars

\* "The mode first, because selecting a mix writes the register that carries
\* it" (Device.cpp:869): a level of a Dual deck that changes without being
\* written, or a Dual deck that becomes Single, is the doing of a selection that
\* was called before the worker had read the mode -- never of one called after,
\* by whichever thread, whatever crossed it and whatever landed in between.
OnlyTheBlindCollapse ==
  [][led = "Dual" =>
       \/ /\ led' = "Dual"
          /\ \A e \in Tracks : reg'[e] # reg[e] =>
               \E t \in Threads : pc[t] = "transfer" /\ track[t] = e
       \/ \E t \in blind : pc[t] = "led" /\ pc'[t] # "led"]_allVars

\* A reading that is still to ask for the track, or is certain to be made.
RereadOnItsWay(e) ==
  \/ wantReading
  \/ \E t \in Gui : pc[t] \in SelectPc \cup {"want"}
  \/ pc[Worker] \in {"fetch", "assign"} /\ e \in toRead
  \/ pc[Worker] = "assign" /\ track[Worker] = e /\ level[Worker] = reg[e]
  \/ ~connected /\ ~Adopted

\* Stale levels are never left to lie.  A level the driver holds that the deck
\* does not is about to be recorded or read again, unless it was cached from a
\* reading a write had passed, or the deck collapsed it before it was recorded,
\* or the deck did not answer when asked, or the request to read again was
\* dropped at the end of connect(), or a selection was cut after it had moved
\* the levels.
StaleLevelsAreReread ==
  \A e \in Tracks :
    \/ levels[e] \in {NoLevel, reg[e]}
    \/ e \in overtaken
    \/ \E t \in Threads : Recording(t, e)
    \/ RereadOnItsWay(e)
    \/ e \in undone \cup refused
    \/ dropped
    \/ cut

\* Whoever switches the mix gets the levels read again.
RereadComes == wantReading ~> (~wantReading /\ (pc[Worker] = "fetch" \/ dropped))

-----------------------------------------------------------------------------
(* The inductive invariant behind the safety properties.                   *)

\* The deck is adopted once, and connect() returns after it.
WorkerPlace ==
  IF connected THEN pc[Worker] \notin AdoptPc \cup SelectPc
               ELSE pc[Worker] \in AdoptPc \cup SelectPc \cup ReadPc

\* Two selections at once have crossed.
CrossingsAreMarked ==
  \A t, u \in Threads :
    pc[t] \in SelectPc /\ pc[u] \in SelectPc => t = u \/ crossed

\* The mode has been asked for, and is not asked for again.
ModeIsRead == pc[Worker] # "readMode"

\* The worker has started its own selection; the mode stays what it is.
ModeIsSettled == pc[Worker] \notin {"readMode", "readMix", "choose"}

\* The mode is Dual only by having been read; what was read is what the deck
\* still says, and what every selection called since goes by.
KnownIsTrue ==
  /\ mode = "Dual" => known
  /\ \A t \in Threads : pc[t] \in SelectPc /\ rings[t] = "Dual" => mode = "Dual"
  /\ known => ModeIsRead /\ (led = "Dual" => mode = "Dual")
  /\ known => \A t \in Threads \ blind :
                pc[t] \in SelectPc /\ mode = "Dual" => rings[t] = "Dual"

\* Until then whoever selects does so blindly.
NoneSees == ~known => \A t \in Threads \ blind : pc[t] \notin SelectPc

\* What has landed of a selection that is whole so far.
SelectionOnItsWay ==
  ModeIsSettled /\ ~crossed /\ ~cut =>
    \A t \in Threads :
      /\ pc[t] \in SelectPc => rings[t] = LedSelectFor(mode, target[t])
      /\ pc[t] \in {"selector", "ring", "fenceClose", "mixAssign"} => led = rings[t]
      /\ pc[t] \in {"ring", "fenceClose", "mixAssign"} => selected = target[t]
      /\ pc[t] \in {"fenceClose", "mixAssign"} => ring = target[t]
      /\ pc[t] = "mixAssign" => ~fence

\* A level that has landed is the register's until it is recorded, but for a
\* collapse in between.
RecordedOrUndone ==
  \A t \in Threads, e \in Tracks :
    Recording(t, e) => reg[e] = level[t] \/ e \in undone

\* The interface has moved levels about, and the worker is to read them again.
Unsettled ==
  wantReading \/ dropped \/ cut \/ \E t \in Gui : pc[t] \in SelectPc \cup {"want"}

\* An answer that is being recorded is the register's, unless a write or a
\* collapse has passed it.
AnswerHolds ==
  pc[Worker] = "assign" /\ ~passed =>
    level[Worker] = reg[track[Worker]] \/ Unsettled

\* What holds in every state of the composition, whatever has failed.
MixInv ==
  /\ MixTypeOK
  /\ PaceOwned
  /\ WorkerPlace
  /\ LoneSelectionFenced
  /\ CrossingsAreMarked
  /\ KnownIsTrue
  /\ NoneSees
  /\ SelectionOnItsWay
  /\ SelectionAgrees
  /\ RecordedOrUndone
  /\ AnswerHolds
  /\ StaleLevelsAreReread

=============================================================================
