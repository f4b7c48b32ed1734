---------------------------- MODULE MixerProofs ----------------------------
(***************************************************************************)
(* What the mixer promises for any number of interface threads, any set of *)
(* knobs and any number of steps, whatever transfers fail: the deck and    *)
(* the driver agree on the mix, and stale levels are read again.           *)
(***************************************************************************)
EXTENDS Mixer, LevelWritesProofs

-----------------------------------------------------------------------------
(* The kinds of steps.                                                     *)

\* A thread begins a selection: the worker its own, the interface any.
StartsSelect(t, m) ==
  /\ pc[t] = IF t = Worker THEN "choose" ELSE "idle"
  /\ CallSelectMix(t, m)
  /\ UNCHANGED <<levelData, deckVars, driverVars, turns, undone, refused,
                 dropped, known>>

\* A thread begins a setLevel.
StartsLevel(t) ==
  /\ pc[t] = "idle" \/ (t = Worker /\ pc[t] = "dispatch")
  /\ \E e \in Tracks, l \in Steps : CallSetLevel(t, e, l)
  /\ UNCHANGED <<deckVars, driverVars, target, rings, ghosts>>

\* The worker goes about its loop.
WalksLoop ==
  /\ pc[Worker] \in {"idle", "poll", "dispatch"}
  /\ \E l \in {"idle", "poll", "dispatch"} : Goto(Worker, l)
  /\ UNCHANGED <<levelData, deckVars, driverVars, target, rings, ghosts>>

Returns(t) ==
  ReturnTo(t, IF t = Worker THEN "dispatch" ELSE "idle") /\ UNCHANGED mixVars

EndsReading ==
  EndReadLevels(IF connected THEN "poll" ELSE "settle") /\ UNCHANGED mixVars

AsksTheDeck == ReadMode \/ ReadModeFails \/ ReadSelectedMix

Names == Worker \in Threads /\ Gui = Threads \ {Worker} /\ AnyTrack \in Tracks

LEMMA NamesHold == Names
  BY LevelAssumption, AnyTrackIsATrack DEF Names, Worker, Gui

\* A turn leaves a level on the scale.
LEMMA TurnedIsAStep ==
  ASSUME NEW l \in Steps, NEW d \in Int
  PROVE  Turned(l, d) \in Steps
  BY LevelAssumption DEF Turned, Steps

\* What is left to dispatch stays a report.
LEMMA TurnsTypeOK ==
  ASSUME MixTypeOK, [MixNext]_allVars
  PROVE  turns' \in [Knobs -> Deltas \cup {0}]
<1> USE DEF MixTypeOK
<1>1. CASE \E k \in Knobs : ApplyTurn(k) \/ RefuseTurn(k)
  BY <1>1 DEF ApplyTurn, RefuseTurn
<1>2. CASE Poll
  BY <1>2 DEF Poll
<1>3. CASE UNCHANGED turns
  BY <1>3
<1>4. QED
  BY <1>1, <1>2, <1>3 DEF MixNext, GuiSetLevel, GuiSelectMix, GuiProgress,
     WorkerStep, SelectStep, LandFence, LandLed, LandSelector, LandRing,
     AssignMix, LoseSelect, AskForReading, ReadStep, AdoptStep, ReadMode,
     ReadModeFails, ReadSelectedMix, Choose, Settle, LoopStep, Reread,
     EnterPoll, EndPoll, mixVars, callVars, allVars

LEMMA WorkerStepKinds ==
  ASSUME MixTypeOK, WorkerStep
  PROVE  \/ \E t \in Threads : SelectStep(t)
         \/ \E t \in Threads, m \in Mixes : StartsSelect(t, m)
         \/ AsksTheDeck \/ Settle \/ Reread \/ ReadStep \/ EndsReading
         \/ WalksLoop
         \/ \E t \in Threads : StartsLevel(t)
         \/ \E t \in Threads : Returns(t)
         \/ \E t \in Threads : SetLevelStep(t) /\ UNCHANGED mixVars
<1> USE NamesHold DEF Names
<1>1. CASE Choose
  BY <1>1 DEF Choose, StartsSelect, MixTypeOK
<1>2. CASE \E k \in Knobs : ApplyTurn(k)
  <2>1. PICK k \in Knobs : ApplyTurn(k)
    BY <1>2
  <2> DEFINE e == <<mix, k>>
  <2>2. e \in Tracks
    BY DEF MixTypeOK, Tracks
  <2>3. levels[e] \in Steps /\ turns[k] \in Int
    BY <2>1, <2>2, MixerAssumption DEF ApplyTurn, MixTypeOK, LevelTypeOK
  <2>4. Turned(levels[e], turns[k]) \in Steps
    BY <2>3, TurnedIsAStep
  <2>5. QED
    BY <2>1, <2>2, <2>4 DEF ApplyTurn, StartsLevel
<1>3. CASE (\E k \in Knobs : RefuseTurn(k)) \/ EnterPoll \/ Poll \/ EndPoll
  <2>1. CASE \E k \in Knobs : RefuseTurn(k)
    <3>1. pc' = [pc EXCEPT ![Worker] = "dispatch"]
      BY <2>1 DEF RefuseTurn, levelVars, MixTypeOK
    <3>2. QED
      BY <2>1, <3>1 DEF RefuseTurn, WalksLoop, Goto, levelVars, levelData
  <2>2. QED
    BY <1>3, <2>1 DEF EnterPoll, Poll, EndPoll, WalksLoop, mixVars, callVars
<1>4. CASE ReturnTo(Worker, "dispatch") /\ UNCHANGED mixVars
  BY <1>4 DEF Returns
<1>5. QED
  BY <1>1, <1>2, <1>3, <1>4 DEF WorkerStep, AdoptStep, LoopStep, AsksTheDeck,
     EndsReading

\* Every step is of one of these kinds.
LEMMA StepKinds ==
  ASSUME MixTypeOK, [MixNext]_allVars
  PROVE  \/ \E t \in Threads : SelectStep(t)
         \/ \E t \in Threads, m \in Mixes : StartsSelect(t, m)
         \/ \E t \in Gui : AskForReading(t)
         \/ AsksTheDeck \/ Settle \/ Reread \/ ReadStep \/ EndsReading
         \/ WalksLoop
         \/ \E t \in Threads : StartsLevel(t)
         \/ \E t \in Threads : Returns(t)
         \/ \E t \in Threads : SetLevelStep(t) /\ UNCHANGED mixVars
         \/ Tick /\ UNCHANGED mixVars
         \/ UNCHANGED allVars
<1> USE NamesHold DEF Names
<1>1. CASE WorkerStep
  BY <1>1, WorkerStepKinds
<1>2. CASE \E t \in Gui : GuiSetLevel(t)
  <2>1. PICK t \in Gui : GuiSetLevel(t)
    BY <1>2
  <2>2. UNCHANGED <<deckVars, driverVars, target, rings, ghosts>>
    BY <2>1 DEF GuiSetLevel, mixVars, callVars
  <2>3. pc[t] = "idle" /\ \E e \in Tracks, l \in Steps : CallSetLevel(t, e, l)
    BY <2>1 DEF GuiSetLevel, SetLevel
  <2>4. StartsLevel(t)
    BY <2>2, <2>3 DEF StartsLevel
  <2>5. QED
    BY <2>4
<1>3. CASE \E t \in Gui : GuiSelectMix(t)
  BY <1>3 DEF GuiSelectMix, StartsSelect
<1>4. CASE \E t \in Gui : GuiProgress(t)
  BY <1>4 DEF GuiProgress, Returns
<1>5. QED
  BY <1>1, <1>2, <1>3, <1>4 DEF MixNext

-----------------------------------------------------------------------------
(* Types, the mutex and the worker's place.                                *)

LEMMA GotoTypeOK ==
  ASSUME MixTypeOK, NEW t \in Threads, NEW l \in MixPc, Goto(t, l)
  PROVE  pc' \in [Threads -> MixPc]
  BY DEF MixTypeOK, Goto

LEMMA ReadingTypeOK ==
  ASSUME MixTypeOK, CallReadLevels
  PROVE  LevelTypeOK' /\ pc' \in [Threads -> MixPc]
<1> USE NamesHold DEF Names
<1>1. "fetch" \in MixPc
  BY DEF MixPc, LevelPc, ReadPc
<1>2. pc' \in [Threads -> MixPc]
  BY <1>1, GotoTypeOK DEF CallReadLevels, Worker
<1>3. QED
  BY <1>2 DEF CallReadLevels, MixTypeOK, LevelTypeOK

\* A step inside setLevel keeps to the types and to the mutex, and goes from
\* one place of setLevel's to another.
LEMMA SetLevelTypeOK ==
  ASSUME MixTypeOK, PaceOwned, NEW t \in Threads, SetLevelStep(t)
  PROVE  /\ LevelTypeOK' /\ PaceOwned'
         /\ pc[t] \in WritePc \ {"return"}
         /\ \E l \in WritePc : Goto(t, l)
<1> USE LevelAssumption DEF MixTypeOK, LevelTypeOK, WritePc, HoldingPc, Goto,
     PaceOwned
<1>1. CASE TakePace(t)
  BY <1>1 DEF TakePace, PaceFree
<1>2. CASE WaitForGap(t)
  BY <1>2 DEF WaitForGap
<1>3. CASE LandLevel(t)
  <2>1. reg' \in [Tracks -> Steps] /\ landedAge' \in 0 .. Gap /\ passed' \in BOOLEAN
    BY <1>3 DEF LandLevel
  <2>2. QED
    BY <1>3, <2>1 DEF LandLevel
<1>4. CASE LoseLevel(t)
  BY <1>4 DEF LoseLevel
<1>5. CASE Stamp(t)
  <2>1. AfterStamp(pc[t]) \in {"remember", "return"}
    BY DEF AfterStamp
  <2>2. stampAge' \in 0 .. Gap
    BY <1>5 DEF Stamp
  <2>3. QED
    BY <1>5, <2>1, <2>2 DEF Stamp
<1>6. CASE Remember(t)
  <2>1. levels' \in [Tracks -> Steps \cup {NoLevel}] /\ overtaken' \in SUBSET Tracks
    BY <1>6 DEF Remember
  <2>2. AfterRemember(track[t]) \in {"waitGate", "return"}
    BY DEF AfterRemember
  <2>3. QED
    BY <1>6, <2>1, <2>2 DEF Remember
<1>7. CASE LandGate(t)
  <2>1. gate' \in Steps /\ landedAge' \in 0 .. Gap
    BY <1>7 DEF LandGate
  <2>2. gateCut' \in BOOLEAN
    BY <1>7 DEF LandGate
  <2>3. QED
    BY <1>7, <2>1, <2>2 DEF LandGate
<1>8. CASE LoseGate(t)
  BY <1>8 DEF LoseGate
<1>9. QED
  BY <1>1, <1>2, <1>3, <1>4, <1>5, <1>6, <1>7, <1>8 DEF SetLevelStep

LEMMA ReturnTypeOK ==
  ASSUME MixTypeOK, PaceOwned, NEW t \in Threads, Returns(t)
  PROVE  /\ LevelTypeOK' /\ PaceOwned'
         /\ pc[t] = "return"
         /\ Goto(t, IF t = Worker THEN "dispatch" ELSE "idle")
<1> USE LevelAssumption, NamesHold DEF MixTypeOK, LevelTypeOK, Names
<1> DEFINE l == IF t = Worker THEN "dispatch" ELSE "idle"
<1>1. pc[t] = "return" /\ pc' = [pc EXCEPT ![t] = l] /\ l \in {"idle", "dispatch"}
  BY DEF Returns, ReturnTo, Goto
<1>2. PaceOwned'
  BY <1>1 DEF Returns, ReturnTo, PaceOwned, HoldingPc, WritePc
<1>3. LevelTypeOK'
  BY DEF Returns, ReturnTo, Steps
<1>4. QED
  BY <1>1, <1>2, <1>3 DEF Goto

LEMMA StartLevelTypeOK ==
  ASSUME MixTypeOK, PaceOwned, NEW t \in Threads, StartsLevel(t)
  PROVE  LevelTypeOK' /\ PaceOwned' /\ Goto(t, "pace")
<1>1. PICK e \in Tracks, l \in Steps : CallSetLevel(t, e, l)
  BY DEF StartsLevel
<1>2. LevelTypeOK'
  BY <1>1 DEF CallSetLevel, MixTypeOK, LevelTypeOK
<1>3. PaceOwned'
  BY <1>1, LevelAssumption DEF StartsLevel, CallSetLevel, Goto, MixTypeOK,
     PaceOwned, HoldingPc, WritePc
<1>4. QED
  BY <1>1, <1>2, <1>3 DEF CallSetLevel

\* A step of readLevels keeps to the types and to its places.
LEMMA ReadTypeOK ==
  ASSUME MixTypeOK, ReadStep
  PROVE  /\ LevelTypeOK' /\ undone' \in SUBSET Tracks /\ refused' \in SUBSET Tracks
         /\ pc[Worker] \in ReadPc /\ UNCHANGED <<pace, reg>>
         /\ \E l \in ReadPc : Goto(Worker, l)
<1> USE NamesHold DEF Names, MixTypeOK, LevelTypeOK, ReadPc, Worker
<1>1. CASE \E e \in Tracks : Fetch(e) /\ refused' = refused \ {e}
              /\ undone' = IF \E t \in Threads : Recording(t, e)
                             THEN undone ELSE undone \ {e}
  <2>1. PICK e \in Tracks : Fetch(e) /\ refused' = refused \ {e}
              /\ undone' = IF \E t \in Threads : Recording(t, e)
                             THEN undone ELSE undone \ {e}
    BY <1>1
  <2>2. undone' \in SUBSET Tracks /\ refused' \in SUBSET Tracks
    BY <2>1
  <2>3. QED
    BY <2>1, <2>2 DEF Fetch
<1>2. CASE \E e \in Tracks : FetchFails(e) /\ refused' = refused \cup {e} /\ UNCHANGED undone
  <2>1. PICK e \in Tracks : FetchFails(e) /\ refused' = refused \cup {e} /\ UNCHANGED undone
    BY <1>2
  <2>2. Goto(Worker, "fetch")
    BY <2>1 DEF FetchFails, Goto
  <2>3. QED
    BY <2>1, <2>2 DEF FetchFails
<1>3. CASE Assign /\ UNCHANGED <<refused, undone>>
  <2>1. level' \in [Threads -> Steps]
    BY <1>3, LevelAssumption DEF Assign, Steps
  <2>2. QED
    BY <1>3, <2>1 DEF Assign
<1>4. QED
  BY <1>1, <1>2, <1>3 DEF ReadStep

\* Where a thread in a selection can go next.
SelectNextPc(t) ==
  SelectPc \cup IF t = Worker THEN {"fetch"} ELSE {"want", "idle"}

\* A selection that is over leaves the levels and the mutex alone.
LEMMA AfterSelectTypeOK ==
  ASSUME MixTypeOK, NEW t \in Threads, NEW w \in BOOLEAN, AfterSelect(t, w)
  PROVE  /\ LevelTypeOK' /\ pc' \in [Threads -> MixPc]
         /\ target' \in [Threads -> Mixes] /\ rings' \in [Threads -> LedSelects]
         /\ blind' \in SUBSET Threads
         /\ UNCHANGED <<reg, levels, pace, track, level, overtaken, passed>>
         /\ t # Worker => UNCHANGED toRead
         /\ t = Worker => toRead' = Tracks
         /\ Goto(t, IF t = Worker THEN "fetch" ELSE IF w THEN "want" ELSE "idle")
<1> USE NamesHold DEF Names, AfterSelect
<1>1. /\ target' \in [Threads -> Mixes] /\ rings' \in [Threads -> LedSelects]
      /\ blind' \in SUBSET Threads
  BY DEF MixTypeOK, Mixes, LedSelects
<1>2. CASE t = Worker
  BY <1>1, <1>2, ReadingTypeOK DEF CallReadLevels, Worker
<1>3. CASE t # Worker
  <2>1. Goto(t, IF w THEN "want" ELSE "idle") /\ UNCHANGED levelData
    BY <1>3
  <2>2. pc' \in [Threads -> MixPc]
    BY <2>1, GotoTypeOK DEF MixPc, LevelPc
  <2>3. LevelTypeOK'
    BY <2>1 DEF levelData, MixTypeOK, LevelTypeOK
  <2>4. QED
    BY <1>1, <1>3, <2>1, <2>2, <2>3 DEF levelData
<1>4. QED
  BY <1>2, <1>3

\* The deck's copying stays within the levels there are.
LEMMA CollapsedTypeOK ==
  ASSUME MixTypeOK, NEW v \in LedSelects
  PROVE  Collapsed(reg, v) \in [Tracks -> Steps]
<1>1. ASSUME NEW e \in Tracks
      PROVE  (IF v \in Mixes /\ e[2] \in Playback THEN reg[<<v, e[2]>>] ELSE reg[e]) \in Steps
  BY <1>1 DEF Tracks, Playback, MixTypeOK, LevelTypeOK
<1>2. QED
  BY <1>1 DEF Collapsed

LEMMA AfterWriteIsSelect ==
  ASSUME NEW l \in SelectPc \ {"mixAssign"}
  PROVE  AfterWrite[l] \in SelectPc
  BY DEF AfterWrite, SelectPc

\* A step of a selection keeps to the types, and to its places until it is
\* over.
LEMMA SelectTypeOK ==
  ASSUME MixTypeOK, NEW t \in Threads, SelectStep(t)
  PROVE  /\ MixTypeOK' /\ pc[t] \in SelectPc
         /\ UNCHANGED <<pace, connected, crossed, mode, dropped, refused,
                        wantReading, levels, track, level, overtaken, passed>>
         /\ \E l \in SelectNextPc(t) : Goto(t, l)
<1> USE DEF SelectNextPc
<1>1. SelectPc \subseteq MixPc
  BY DEF MixPc
<1>2. CASE LandFence(t) \/ LandLed(t) \/ LandSelector(t) \/ LandRing(t)
  <2>1. pc[t] \in SelectPc \ {"mixAssign"} /\ Goto(t, AfterWrite[pc[t]])
    BY <1>2 DEF LandFence, LandLed, LandSelector, LandRing, SelectPc
  <2>2. AfterWrite[pc[t]] \in SelectPc
    BY <2>1, AfterWriteIsSelect
  <2>3. pc' \in [Threads -> MixPc]
    BY <1>1, <2>1, <2>2, GotoTypeOK
  <2>4. CASE LandFence(t)
    BY <2>1, <2>2, <2>3, <2>4 DEF LandFence, MixTypeOK, LevelTypeOK, levelData,
       driverVars, callVars, ghosts
  <2>5. CASE LandLed(t)
    <3>1. led' \in LedSelects /\ reg' \in [Tracks -> Steps] /\ undone' \in SUBSET Tracks
      BY <2>5, CollapsedTypeOK DEF LandLed, MixTypeOK
    <3>2. QED
      BY <2>1, <2>2, <2>3, <2>5, <3>1 DEF LandLed, MixTypeOK, LevelTypeOK,
         driverVars, callVars
  <2>6. CASE LandSelector(t)
    BY <2>1, <2>2, <2>3, <2>6 DEF LandSelector, MixTypeOK, LevelTypeOK, levelData,
       driverVars, callVars, ghosts
  <2>7. CASE LandRing(t)
    BY <2>1, <2>2, <2>3, <2>7 DEF LandRing, MixTypeOK, LevelTypeOK, levelData,
       driverVars, callVars, ghosts
  <2>8. QED
    BY <1>2, <2>4, <2>5, <2>6, <2>7
<1>3. CASE AssignMix(t)
  <2>1. AfterSelect(t, TRUE) /\ pc[t] = "mixAssign"
    BY <1>3 DEF AssignMix
  <2>2. mix' \in Mixes
    BY <1>3 DEF AssignMix, MixTypeOK
  <2>3. QED
    BY <1>3, <2>1, <2>2, AfterSelectTypeOK DEF AssignMix, MixTypeOK, deckVars, ghosts,
       SelectPc
<1>4. CASE LoseSelect(t)
  <2>1. AfterSelect(t, FALSE) /\ pc[t] \in SelectPc
    BY <1>4 DEF LoseSelect
  <2>2. QED
    BY <1>4, <2>1, AfterSelectTypeOK DEF LoseSelect, MixTypeOK, deckVars, driverVars
<1>5. QED
  BY <1>2, <1>3, <1>4 DEF SelectStep

LEMMA StartSelectTypeOK ==
  ASSUME MixTypeOK, NEW t \in Threads, NEW m \in Mixes, StartsSelect(t, m)
  PROVE  /\ MixTypeOK' /\ Goto(t, "fenceOpen")
         /\ rings' = [rings EXCEPT ![t] = LedSelectFor(mode, m)]
<1>1. LedSelectFor(mode, m) \in LedSelects
  BY DEF LedSelectFor, LedSelects
<1>2. /\ target' \in [Threads -> Mixes]
      /\ rings' \in [Threads -> LedSelects]
      /\ crossed' \in BOOLEAN /\ cut' \in BOOLEAN
      /\ blind' \in SUBSET Threads
  BY <1>1 DEF StartsSelect, CallSelectMix, RingsFor, MixTypeOK
<1>3. pc' \in [Threads -> MixPc] /\ Goto(t, "fenceOpen")
  BY GotoTypeOK DEF StartsSelect, CallSelectMix, MixPc, SelectPc
<1>4. QED
  BY <1>2, <1>3 DEF StartsSelect, CallSelectMix, RingsFor, MixTypeOK, LevelTypeOK,
     levelData, deckVars, driverVars

\* Type correctness and the mutex, through any step.
LEMMA NextTypeOK ==
  ASSUME MixTypeOK, PaceOwned, [MixNext]_allVars
  PROVE  MixTypeOK'
<1> USE NamesHold DEF Names
<1>1. CASE \E t \in Threads : SelectStep(t)
  BY <1>1, SelectTypeOK
<1>2. CASE \E t \in Threads, m \in Mixes : StartsSelect(t, m)
  BY <1>2, StartSelectTypeOK
<1>3. CASE \E t \in Gui : AskForReading(t)
  <2>1. PICK t \in Gui : AskForReading(t)
    BY <1>3
  <2>2. pc' \in [Threads -> MixPc]
    BY <2>1, GotoTypeOK DEF AskForReading, MixPc, LevelPc
  <2>3. QED
    BY <2>1, <2>2 DEF AskForReading, MixTypeOK, LevelTypeOK, levelData, deckVars,
       callVars, ghosts
<1>4. CASE AsksTheDeck
  <2>1. pc' \in [Threads -> MixPc]
    BY <1>4, GotoTypeOK DEF AsksTheDeck, ReadMode, ReadModeFails,
       ReadSelectedMix, MixPc, AdoptPc
  <2>2. mode' \in Modes
    BY <1>4 DEF AsksTheDeck, ReadMode, ReadModeFails, ReadSelectedMix, MixTypeOK,
       Modes, mixVars, driverVars
  <2>3. target' \in [Threads -> Mixes]
    BY <1>4 DEF AsksTheDeck, ReadMode, ReadModeFails, ReadSelectedMix, MixTypeOK,
       Mixes, mixVars, callVars
  <2>4. known' \in BOOLEAN /\ UNCHANGED blind
    BY <1>4 DEF AsksTheDeck, ReadMode, ReadModeFails, ReadSelectedMix, MixTypeOK,
       ghosts, mixVars
  <2>5. /\ UNCHANGED <<levelData, deckVars, mix, wantReading, connected, rings, turns>>
        /\ UNCHANGED <<crossed, cut, undone, refused, dropped>>
    BY <1>4 DEF AsksTheDeck, ReadMode, ReadModeFails, ReadSelectedMix, driverVars,
       callVars, ghosts, mixVars
  <2>6. QED
    BY <2>1, <2>2, <2>3, <2>4, <2>5 DEF MixTypeOK, LevelTypeOK, levelData, deckVars
<1>5. CASE Settle
  <2>1. pc' \in [Threads -> MixPc]
    BY <1>5, GotoTypeOK DEF Settle, MixPc, LevelPc
  <2>2. QED
    BY <1>5, <2>1 DEF Settle, MixTypeOK, LevelTypeOK, levelData, deckVars, callVars
<1>6. CASE Reread
  BY <1>6, ReadingTypeOK DEF Reread, MixTypeOK, deckVars, callVars
<1>7. CASE ReadStep
  <2>1. pc' \in [Threads -> MixPc]
    <3>1. PICK l \in ReadPc : Goto(Worker, l)
      BY <1>7, ReadTypeOK
    <3>2. QED
      BY <3>1, GotoTypeOK DEF MixPc, LevelPc
  <2>2. QED
    BY <1>7, <2>1, ReadTypeOK DEF ReadStep, MixTypeOK, deckVars, driverVars, callVars
<1>8. CASE EndsReading
  <2>1. pc' \in [Threads -> MixPc]
    BY <1>8, GotoTypeOK DEF EndsReading, EndReadLevels, MixPc, AdoptPc, Worker
  <2>2. QED
    BY <1>8, <2>1 DEF EndsReading, EndReadLevels, MixTypeOK, LevelTypeOK, mixVars,
       deckVars, driverVars, callVars, ghosts
<1>9. CASE WalksLoop
  <2>1. pc' \in [Threads -> MixPc]
    BY <1>9, GotoTypeOK DEF WalksLoop, MixPc, LevelPc
  <2>2. QED
    BY <1>9, <2>1, TurnsTypeOK DEF WalksLoop, MixTypeOK, LevelTypeOK, levelData,
       deckVars, driverVars, ghosts
<1>10. CASE \E t \in Threads : StartsLevel(t)
  <2>1. PICK t \in Threads : StartsLevel(t)
    BY <1>10
  <2>2. pc' \in [Threads -> MixPc]
    BY <2>1, StartLevelTypeOK, GotoTypeOK DEF MixPc, LevelPc, WritePc
  <2>3. QED
    BY <2>1, <2>2, StartLevelTypeOK, TurnsTypeOK DEF StartsLevel, MixTypeOK,
       deckVars, driverVars, ghosts
<1>11. CASE \E t \in Threads : Returns(t)
  <2>1. PICK t \in Threads : Returns(t)
    BY <1>11
  <2>2. pc' \in [Threads -> MixPc]
    BY <2>1, ReturnTypeOK, GotoTypeOK DEF MixPc, LevelPc
  <2>3. QED
    BY <2>1, <2>2, ReturnTypeOK DEF Returns, MixTypeOK, mixVars, deckVars,
       driverVars, callVars, ghosts
<1>12. CASE \E t \in Threads : SetLevelStep(t) /\ UNCHANGED mixVars
  <2>1. PICK t \in Threads : SetLevelStep(t) /\ UNCHANGED mixVars
    BY <1>12
  <2>2. pc' \in [Threads -> MixPc]
    <3>1. PICK l \in WritePc : Goto(t, l)
      BY <2>1, SetLevelTypeOK
    <3>2. QED
      BY <3>1, GotoTypeOK DEF MixPc, LevelPc
  <2>3. QED
    BY <2>1, <2>2, SetLevelTypeOK DEF MixTypeOK, mixVars, deckVars, driverVars,
       callVars, ghosts
<1>13. CASE Tick /\ UNCHANGED mixVars
  <2>1. Older(stampAge) \in 0 .. Gap /\ Older(landedAge) \in 0 .. Gap
    BY LevelAssumption DEF Older, MixTypeOK, LevelTypeOK
  <2>2. QED
    BY <1>13, <2>1 DEF Tick, MixTypeOK, LevelTypeOK, mixVars, deckVars, driverVars,
       callVars, ghosts
<1>14. CASE UNCHANGED allVars
  BY <1>14 DEF allVars, levelVars, MixTypeOK, LevelTypeOK, mixVars, deckVars,
     driverVars, callVars, ghosts
<1>15. QED
  BY <1>1, <1>2, <1>3, <1>4, <1>5, <1>6, <1>7, <1>8, <1>9, <1>10, <1>11, <1>12,
     <1>13, <1>14, StepKinds

\* The mutex is touched by setLevel alone.
LEMMA NextPaceOwned ==
  ASSUME MixTypeOK, PaceOwned, [MixNext]_allVars
  PROVE  PaceOwned'
<1> USE NamesHold DEF Names
<1>1. ASSUME UNCHANGED pace, NEW t \in Threads, NEW l, Goto(t, l),
             pc[t] \notin HoldingPc, l \notin HoldingPc
      PROVE  PaceOwned'
  BY <1>1 DEF PaceOwned, MixTypeOK, Goto
<1> DEFINE Away == SelectPc \cup AdoptPc \cup ReadPc
                     \cup {"idle", "want", "poll", "dispatch"}
<1>2. \A l \in Away : l \notin HoldingPc
  BY DEF SelectPc, AdoptPc, ReadPc, HoldingPc, WritePc
<1>3. CASE \E t \in Threads : SelectStep(t)
  <2>1. PICK t \in Threads : SelectStep(t)
    BY <1>3
  <2>2. PICK l \in SelectNextPc(t) : Goto(t, l)
    BY <2>1, SelectTypeOK
  <2>3. l \in Away /\ pc[t] \in Away /\ UNCHANGED pace
    BY <2>1, <2>2, SelectTypeOK DEF SelectNextPc, ReadPc
  <2>4. QED
    BY <1>1, <1>2, <2>2, <2>3
<1>4. CASE \E t \in Threads, m \in Mixes : StartsSelect(t, m)
  <2>1. PICK t \in Threads, m \in Mixes : StartsSelect(t, m)
    BY <1>4
  <2>2. Goto(t, "fenceOpen") /\ UNCHANGED pace /\ pc[t] \in Away /\ "fenceOpen" \in Away
    BY <2>1, StartSelectTypeOK DEF StartsSelect, levelData, SelectPc, AdoptPc
  <2>3. QED
    BY <1>1, <1>2, <2>2
<1>5. CASE \E t \in Gui : AskForReading(t)
  <2>1. PICK t \in Gui : AskForReading(t)
    BY <1>5
  <2>2. Goto(t, "idle") /\ UNCHANGED pace /\ pc[t] \in Away
    BY <2>1 DEF AskForReading, levelData
  <2>3. QED
    BY <1>1, <1>2, <2>2
<1>6. CASE AsksTheDeck \/ Settle \/ Reread \/ EndsReading
  <2>1. PICK l \in Away : Goto(Worker, l)
    BY <1>6 DEF AsksTheDeck, ReadMode, ReadModeFails, ReadSelectedMix, Settle, Reread,
       EndsReading, EndReadLevels, CallReadLevels, AdoptPc, ReadPc, Worker
  <2>2. UNCHANGED pace /\ pc[Worker] \in Away
    BY <1>6 DEF AsksTheDeck, ReadMode, ReadModeFails, ReadSelectedMix, Settle, Reread,
       EndsReading, EndReadLevels, CallReadLevels, AdoptPc, ReadPc, Worker, levelData
  <2>3. QED
    BY <1>1, <1>2, <2>1, <2>2
<1>7. CASE ReadStep
  <2>1. PICK l \in ReadPc : Goto(Worker, l)
    BY <1>7, ReadTypeOK
  <2>2. UNCHANGED pace /\ pc[Worker] \in ReadPc
    BY <1>7, ReadTypeOK
  <2>3. QED
    BY <1>1, <1>2, <2>1, <2>2
<1>8. CASE WalksLoop
  <2>1. PICK l \in {"idle", "poll", "dispatch"} : Goto(Worker, l)
    BY <1>8 DEF WalksLoop
  <2>2. UNCHANGED pace /\ pc[Worker] \in Away
    BY <1>8 DEF WalksLoop, levelData
  <2>3. QED
    BY <1>1, <1>2, <2>1, <2>2
<1>9. CASE UNCHANGED <<pc, pace>>
  BY <1>9 DEF PaceOwned
<1>10. QED
  BY <1>3, <1>4, <1>5, <1>6, <1>7, <1>8, <1>9, StepKinds, StartLevelTypeOK,
     ReturnTypeOK, SetLevelTypeOK DEF Tick, allVars, levelVars

-----------------------------------------------------------------------------
(* Selections: the fence, the crossings and what has landed.               *)

Selections ==
  LoneSelectionFenced /\ CrossingsAreMarked /\ SelectionOnItsWay /\ SelectionAgrees

\* A step outside a selection, of a thread that neither learns the mode nor
\* becomes adopted, leaves what is said of selections as it was.
LEMMA SelectionsStand ==
  ASSUME MixTypeOK, Selections, NEW t \in Threads, NEW l, Goto(t, l),
         pc[t] \notin SelectPc, l \notin SelectPc,
         UNCHANGED <<deckVars, mix, mode, target, rings, crossed, cut>>,
         Adopted' => Adopted, ModeIsSettled' => ModeIsSettled
  PROVE  Selections'
<1> USE DEF Selections, MixTypeOK, Goto, deckVars
<1>1. \A u \in Threads : pc'[u] \in SelectPc => pc'[u] = pc[u]
  OBVIOUS
<1>2. \A u \in Threads : pc[u] \in SelectPc => pc'[u] = pc[u]
  OBVIOUS
<1>3. LoneSelectionFenced'
  BY <1>1 DEF LoneSelectionFenced, SelectPc
<1>4. CrossingsAreMarked'
  BY <1>1 DEF CrossingsAreMarked
<1>5. SelectionOnItsWay'
  <2>1. SUFFICES ASSUME ModeIsSettled', ~crossed', ~cut', NEW u \in Threads
                 PROVE  /\ pc'[u] \in SelectPc => rings'[u] = LedSelectFor(mode', target'[u])
                        /\ pc'[u] \in {"selector", "ring", "fenceClose", "mixAssign"} => led' = rings'[u]
                        /\ pc'[u] \in {"ring", "fenceClose", "mixAssign"} => selected' = target'[u]
                        /\ pc'[u] \in {"fenceClose", "mixAssign"} => ring' = target'[u]
                        /\ pc'[u] = "mixAssign" => ~fence'
    BY DEF SelectionOnItsWay, LedSelectFor
  <2>2. ModeIsSettled /\ ~crossed /\ ~cut
    BY <2>1
  <2>3. pc'[u] \in SelectPc => pc'[u] = pc[u]
    BY <1>1
  <2>4. QED
    BY <2>2, <2>3 DEF SelectionOnItsWay, SelectPc
<1>6. SelectionAgrees'
  <2>1. ~Selecting' => ~Selecting
    BY <1>2 DEF Selecting
  <2>2. QED
    BY <2>1 DEF SelectionAgrees, LedSelectFor
<1>7. QED
  BY <1>3, <1>4, <1>5, <1>6

\* A selection that begins alone leaves nobody else's behind, and one that
\* does not is marked.
LEMMA StartSelections ==
  ASSUME MixTypeOK, Selections, NEW t \in Threads, NEW m \in Mixes, StartsSelect(t, m)
  PROVE  Selections'
<1> USE DEF MixTypeOK
<1> DEFINE alone == \A u \in Threads \ {t} : pc[u] \notin SelectPc
<1>1. /\ pc' = [pc EXCEPT ![t] = "fenceOpen"] /\ target' = [target EXCEPT ![t] = m]
      /\ rings' = [rings EXCEPT ![t] = LedSelectFor(mode, m)]
      /\ crossed' = ~alone /\ cut' = (cut /\ ~alone)
      /\ UNCHANGED <<selected, led, fence, ring, mix, mode>>
  BY StartSelectTypeOK DEF StartsSelect, CallSelectMix, Goto, deckVars, driverVars
<1>2. "fenceOpen" \in SelectPc
  BY DEF SelectPc
<1> HIDE DEF alone
<1>3. CASE alone
  <2>1. \A u \in Threads : pc'[u] \in SelectPc => u = t
    BY <1>1, <1>3 DEF alone
  <2>2. LoneSelectionFenced' /\ CrossingsAreMarked'
    BY <1>1, <2>1 DEF LoneSelectionFenced, CrossingsAreMarked, SelectPc
  <2>3. SelectionOnItsWay'
    BY <1>1, <2>1 DEF SelectionOnItsWay, SelectPc, LedSelectFor
  <2>4. Selecting'
    BY <1>1, <1>2 DEF Selecting
  <2>5. QED
    BY <2>2, <2>3, <2>4 DEF Selections, SelectionAgrees
<1>4. CASE ~alone
  BY <1>1, <1>4 DEF Selections, SelectionAgrees, SelectionOnItsWay, LoneSelectionFenced,
     CrossingsAreMarked
<1>5. QED
  BY <1>3, <1>4

\* The writes of a selection, one after the other: what each of them moves.
LEMMA SelectMoves ==
  ASSUME MixTypeOK, NEW t \in Threads, SelectStep(t)
  PROVE  \/ /\ pc[t] = "fenceOpen" /\ Goto(t, "led") /\ fence'
            /\ UNCHANGED <<reg, selected, led, ring, mix, target, rings, cut, undone>>
         \/ /\ pc[t] = "led" /\ Goto(t, "selector") /\ led' = rings[t]
            /\ UNCHANGED <<selected, fence, ring, mix, target, rings, cut>>
         \/ /\ pc[t] = "selector" /\ Goto(t, "ring") /\ selected' = target[t]
            /\ UNCHANGED <<reg, led, fence, ring, mix, target, rings, cut, undone>>
         \/ /\ pc[t] = "ring" /\ Goto(t, "fenceClose") /\ ring' = target[t]
            /\ UNCHANGED <<reg, selected, led, fence, mix, target, rings, cut, undone>>
         \/ /\ pc[t] = "fenceClose" /\ Goto(t, "mixAssign") /\ ~fence'
            /\ UNCHANGED <<reg, selected, led, ring, mix, target, rings, cut, undone>>
         \/ /\ pc[t] = "mixAssign" /\ mix' = target[t]
            /\ Goto(t, IF t = Worker THEN "fetch" ELSE "want")
            /\ UNCHANGED <<reg, selected, led, fence, ring, cut, undone>>
         \/ /\ cut'
            /\ \E l \in {"fetch", "idle"} : Goto(t, l)
            /\ UNCHANGED <<reg, selected, led, fence, ring, mix, undone>>
<1>1. CASE LandFence(t)
  <2>1. /\ UNCHANGED <<reg, selected, led, ring, mix, target, rings, cut, undone>>
        /\ Goto(t, AfterWrite[pc[t]])
    BY <1>1 DEF LandFence, levelData, driverVars, callVars, ghosts
  <2>2. CASE pc[t] = "fenceOpen"
    <3>1. fence'
      BY <1>1, <2>2, Zenon DEF LandFence
    <3>2. Goto(t, "led")
      BY <2>1, <2>2 DEF AfterWrite
    <3>3. QED
      BY <2>1, <2>2, <3>1, <3>2
  <2>3. CASE pc[t] = "fenceClose"
    <3>1. ~fence'
      BY <1>1, <2>3 DEF LandFence
    <3>2. Goto(t, "mixAssign")
      BY <2>1, <2>3 DEF AfterWrite
    <3>3. QED
      BY <2>1, <2>3, <3>1, <3>2
  <2>4. QED
    BY <1>1, <2>2, <2>3 DEF LandFence
<1>2. CASE LandLed(t)
  BY <1>2 DEF LandLed, AfterWrite, driverVars, callVars
<1>3. CASE LandSelector(t)
  BY <1>3 DEF LandSelector, AfterWrite, levelData, driverVars, callVars, ghosts
<1>4. CASE LandRing(t)
  BY <1>4 DEF LandRing, AfterWrite, levelData, driverVars, callVars, ghosts
<1>5. CASE AssignMix(t)
  BY <1>5, AfterSelectTypeOK DEF AssignMix, deckVars, ghosts
<1>6. CASE LoseSelect(t)
  BY <1>6, AfterSelectTypeOK DEF LoseSelect, deckVars, driverVars
<1>7. QED
  BY <1>1, <1>2, <1>3, <1>4, <1>5, <1>6 DEF SelectStep

\* Each write of a selection adds what it says to what has landed, and the
\* last one finds all of it agreeing.
LEMMA StepSelections ==
  ASSUME MixTypeOK, Selections, WorkerPlace, NEW t \in Threads, SelectStep(t)
  PROVE  Selections'
<1> USE NamesHold DEF Names
<1>1. PICK l \in SelectNextPc(t) : pc' = [pc EXCEPT ![t] = l]
  BY SelectTypeOK DEF Goto
<1>2. UNCHANGED <<crossed, mode, connected>> /\ pc[t] \in SelectPc
  BY SelectTypeOK
<1>3. \A u \in Threads : u # t => pc'[u] = pc[u]
  BY <1>1 DEF MixTypeOK
<1>4. pc'[t] = l
  BY <1>1 DEF MixTypeOK
<1>5. CrossingsAreMarked'
  BY <1>2, <1>3 DEF Selections, CrossingsAreMarked
<1>6. LoneSelectionFenced'
  <2>1. CASE crossed
    BY <1>2, <2>1 DEF LoneSelectionFenced
  <2>2. CASE ~crossed
    <3>1. \A u \in Threads : pc[u] \in SelectPc => u = t
      BY <1>2, <2>2 DEF Selections, CrossingsAreMarked
    <3>2. \A u \in Threads : pc'[u] \in SelectPc => u = t
      BY <1>3, <3>1
    <3>3. pc'[t] \in {"led", "selector", "ring"} => fence'
      BY <2>2, SelectMoves DEF Selections, LoneSelectionFenced, MixTypeOK, Goto
    <3>4. QED
      BY <3>2, <3>3 DEF LoneSelectionFenced, SelectPc
  <2>3. QED
    BY <2>1, <2>2
<1>7. SelectionOnItsWay'
  <2>1. SUFFICES ASSUME ModeIsSettled', ~crossed', ~cut'
                 PROVE  \A u \in Threads :
                   /\ pc'[u] \in SelectPc => rings'[u] = LedSelectFor(mode, target'[u])
                   /\ pc'[u] \in {"selector", "ring", "fenceClose", "mixAssign"} => led' = rings'[u]
                   /\ pc'[u] \in {"ring", "fenceClose", "mixAssign"} => selected' = target'[u]
                   /\ pc'[u] \in {"fenceClose", "mixAssign"} => ring' = target'[u]
                   /\ pc'[u] = "mixAssign" => ~fence'
    BY <1>2 DEF SelectionOnItsWay, LedSelectFor
  <2>2. ~crossed /\ ModeIsSettled
    BY <1>2, <1>3, <2>1 DEF ModeIsSettled, SelectPc
  <2>3. \A u \in Threads : pc'[u] \in SelectPc => u = t
    BY <1>2, <1>3, <2>2 DEF Selections, CrossingsAreMarked
  <2>4. ~cut => /\ rings[t] = LedSelectFor(mode, target[t])
                /\ pc[t] \in {"selector", "ring", "fenceClose", "mixAssign"} => led = rings[t]
                /\ pc[t] \in {"ring", "fenceClose", "mixAssign"} => selected = target[t]
                /\ pc[t] \in {"fenceClose", "mixAssign"} => ring = target[t]
    BY <1>2, <2>2 DEF Selections, SelectionOnItsWay
  <2>5. pc'[t] \in SelectPc =>
          /\ rings'[t] = LedSelectFor(mode, target'[t])
          /\ pc'[t] \in {"selector", "ring", "fenceClose", "mixAssign"} => led' = rings'[t]
          /\ pc'[t] \in {"ring", "fenceClose", "mixAssign"} => selected' = target'[t]
          /\ pc'[t] \in {"fenceClose", "mixAssign"} => ring' = target'[t]
          /\ pc'[t] = "mixAssign" => ~fence'
    BY <2>1, <2>4, SelectMoves DEF MixTypeOK, Goto, SelectPc
  <2>6. QED
    BY <2>3, <2>5 DEF SelectPc
<1>8. SelectionAgrees'
  <2>1. SUFFICES ASSUME Adopted', ~Selecting', ~crossed', ~cut'
                 PROVE  selected' = mix' /\ ring' = mix' /\ led' = LedSelectFor(mode, mix')
                        /\ ~fence'
    BY <1>2 DEF SelectionAgrees, LedSelectFor
  <2>2. pc'[t] \notin SelectPc
    BY <2>1 DEF Selecting
  <2>3. /\ pc[t] = "mixAssign" /\ mix' = target[t]
        /\ UNCHANGED <<selected, led, fence, ring, cut>>
    BY <2>1, <2>2, SelectMoves DEF MixTypeOK, Goto, SelectPc
  <2>4. ModeIsSettled
    <3>1. CASE t = Worker
      BY <2>3, <3>1 DEF ModeIsSettled
    <3>2. CASE t # Worker
      BY <1>2, <1>3, <2>1, <3>2 DEF ModeIsSettled, Adopted, WorkerPlace, AdoptPc
    <3>3. QED
      BY <3>1, <3>2
  <2>5. QED
    BY <1>2, <2>1, <2>3, <2>4 DEF Selections, SelectionOnItsWay, SelectPc
<1>9. QED
  BY <1>5, <1>6, <1>7, <1>8 DEF Selections

\* What the worker learns of the mode, it learns before its own selection.
LEMMA AskSelections ==
  ASSUME MixTypeOK, Selections, WorkerPlace, AsksTheDeck
  PROVE  Selections'
<1> USE NamesHold DEF Names
<1>1. PICK l \in {"readMix", "choose"} : pc' = [pc EXCEPT ![Worker] = l]
  BY DEF AsksTheDeck, ReadMode, ReadModeFails, ReadSelectedMix, Goto
<1>2. /\ pc[Worker] \in {"readMode", "readMix"}
      /\ UNCHANGED <<fence, crossed, connected>>
  BY DEF AsksTheDeck, ReadMode, ReadModeFails, ReadSelectedMix, mixVars, deckVars,
     driverVars, ghosts
<1>3. \A u \in Threads : pc'[u] \in SelectPc => pc'[u] = pc[u]
  BY <1>1 DEF MixTypeOK, SelectPc
<1>4. ~ModeIsSettled' /\ pc'[Worker] = l
  BY <1>1 DEF ModeIsSettled, MixTypeOK
<1>5. ~Adopted'
  BY <1>2, <1>4 DEF Adopted, WorkerPlace, AdoptPc
<1>6. LoneSelectionFenced' /\ CrossingsAreMarked'
  BY <1>2, <1>3 DEF Selections, LoneSelectionFenced, CrossingsAreMarked, SelectPc
<1>7. QED
  BY <1>4, <1>5, <1>6 DEF Selections, SelectionOnItsWay, SelectionAgrees

\* Once adopted, the worker never goes back to where it was before.
LEMMA NextWorkerPlace ==
  ASSUME MixTypeOK, PaceOwned, WorkerPlace, [MixNext]_allVars
  PROVE  /\ WorkerPlace'
         /\ ~(\E t \in Threads : SelectStep(t)) => (Adopted' => Adopted)
<1> USE NamesHold DEF Names, MixTypeOK
<1>1. ASSUME UNCHANGED connected, NEW t \in Threads \ {Worker}, NEW l, Goto(t, l)
      PROVE  WorkerPlace' /\ (Adopted' => Adopted)
  BY <1>1 DEF Goto, WorkerPlace, Adopted
<1>2. ASSUME connected, connected', NEW l, Goto(Worker, l), l \notin AdoptPc \cup SelectPc
      PROVE  WorkerPlace' /\ (Adopted' => Adopted)
  BY <1>2 DEF Goto, WorkerPlace, Adopted
<1>3. \A l \in WritePc \cup {"idle", "want", "poll", "dispatch"} :
        l \notin AdoptPc \cup SelectPc \cup ReadPc
  BY DEF WritePc, AdoptPc, SelectPc, ReadPc
<1>4. pc[Worker] \notin AdoptPc \cup SelectPc \cup ReadPc => connected
  BY DEF WorkerPlace
<1>5. CASE \E t \in Threads : SelectStep(t)
  <2>1. PICK t \in Threads : SelectStep(t)
    BY <1>5
  <2>2. PICK l \in SelectNextPc(t) : Goto(t, l)
    BY <2>1, SelectTypeOK
  <2>3. pc[t] \in SelectPc /\ UNCHANGED connected
    BY <2>1, SelectTypeOK
  <2>4. WorkerPlace'
    BY <2>2, <2>3, <1>1 DEF SelectNextPc, ReadPc, Goto, WorkerPlace
  <2>5. QED
    BY <1>5, <2>4
<1>6. CASE \E t \in Threads, m \in Mixes : StartsSelect(t, m)
  <2>1. PICK t \in Threads, m \in Mixes : StartsSelect(t, m)
    BY <1>6
  <2>2. Goto(t, "fenceOpen") /\ UNCHANGED connected
    BY <2>1, StartSelectTypeOK DEF StartsSelect, driverVars
  <2>3. t = Worker => pc[Worker] = "choose"
    BY <2>1 DEF StartsSelect
  <2>4. QED
    BY <1>1, <2>2, <2>3 DEF WorkerPlace, Adopted, Goto, AdoptPc, SelectPc
<1>7. CASE \E t \in Gui : AskForReading(t)
  BY <1>1, <1>7 DEF AskForReading
<1>8. CASE AsksTheDeck
  <2>1. PICK l \in {"readMix", "choose"} : Goto(Worker, l)
    BY <1>8 DEF AsksTheDeck, ReadMode, ReadModeFails, ReadSelectedMix
  <2>2. pc[Worker] \in {"readMode", "readMix"} /\ UNCHANGED connected
    BY <1>8 DEF AsksTheDeck, ReadMode, ReadModeFails, ReadSelectedMix, mixVars, driverVars
  <2>3. QED
    BY <2>1, <2>2 DEF WorkerPlace, Adopted, Goto, AdoptPc
<1>9. CASE Settle
  BY <1>9, <1>3 DEF Settle, WorkerPlace, Adopted, Goto
<1>10. CASE Reread
  BY <1>10, <1>3, <1>4 DEF Reread, CallReadLevels, WorkerPlace, Adopted, Goto, AdoptPc,
     SelectPc, Worker
<1>11. CASE ReadStep
  <2>1. PICK l \in ReadPc : Goto(Worker, l)
    BY <1>11, ReadTypeOK
  <2>2. pc[Worker] \in ReadPc /\ UNCHANGED connected
    BY <1>11, ReadTypeOK DEF ReadStep, driverVars
  <2>3. QED
    BY <2>1, <2>2 DEF WorkerPlace, Adopted, Goto, ReadPc, AdoptPc, SelectPc
<1>12. CASE EndsReading
  <2>1. /\ pc[Worker] = "fetch" /\ UNCHANGED connected
        /\ Goto(Worker, IF connected THEN "poll" ELSE "settle")
    BY <1>12 DEF EndsReading, EndReadLevels, Worker, mixVars, driverVars
  <2>2. CASE connected
    BY <1>2, <1>3, <2>1, <2>2
  <2>3. CASE ~connected
    BY <2>1, <2>3 DEF WorkerPlace, Adopted, Goto, AdoptPc
  <2>4. QED
    BY <2>2, <2>3
<1>13. CASE WalksLoop
  <2>1. PICK l \in {"idle", "poll", "dispatch"} : Goto(Worker, l)
    BY <1>13 DEF WalksLoop
  <2>2. connected /\ UNCHANGED connected
    BY <1>13, <1>3, <1>4 DEF WalksLoop, driverVars
  <2>3. QED
    BY <1>2, <1>3, <2>1, <2>2
<1>14. ASSUME NEW t \in Threads, NEW l \in WritePc \cup {"idle", "dispatch"}, Goto(t, l),
              pc[t] \in WritePc \cup {"idle", "dispatch"}, UNCHANGED connected
       PROVE  WorkerPlace' /\ (Adopted' => Adopted)
  BY <1>1, <1>2, <1>3, <1>4, <1>14
<1>15. CASE \E t \in Threads : StartsLevel(t)
  BY <1>14, <1>15, StartLevelTypeOK DEF StartsLevel, driverVars, WritePc
<1>16. CASE \E t \in Threads : Returns(t)
  BY <1>14, <1>16, ReturnTypeOK DEF Returns, mixVars, driverVars, WritePc
<1>17. CASE \E t \in Threads : SetLevelStep(t) /\ UNCHANGED mixVars
  BY <1>14, <1>17, SetLevelTypeOK DEF mixVars, driverVars
<1>18. CASE UNCHANGED <<pc, connected>>
  BY <1>18 DEF WorkerPlace, Adopted
<1>19. QED
  BY <1>5, <1>6, <1>7, <1>8, <1>9, <1>10, <1>11, <1>12, <1>13, <1>15, <1>16, <1>17,
     <1>18, StepKinds DEF Tick, allVars, levelVars, mixVars, driverVars

LEMMA NextSelections ==
  ASSUME MixTypeOK, PaceOwned, WorkerPlace, Selections, [MixNext]_allVars
  PROVE  Selections'
<1> USE NamesHold DEF Names
<1> DEFINE Still == UNCHANGED <<deckVars, mix, mode, target, rings, crossed, cut>>
<1>1. ASSUME NEW t \in Threads, NEW l, Goto(t, l), Still, ~(\E u \in Threads : SelectStep(u)),
             pc[t] \notin SelectPc, l \notin SelectPc, ModeIsSettled' => ModeIsSettled
      PROVE  Selections'
  <2>1. Adopted' => Adopted
    BY <1>1, NextWorkerPlace
  <2>2. QED
    BY <1>1, <2>1, SelectionsStand
<1>2. CASE \E t \in Threads : SelectStep(t)
  BY <1>2, StepSelections
<1>3. CASE \E t \in Threads, m \in Mixes : StartsSelect(t, m)
  BY <1>3, StartSelections
<1>4. CASE AsksTheDeck
  BY <1>4, AskSelections
<1>5. ASSUME ~(\E t \in Threads : SelectStep(t))
      PROVE  Selections'
  <2>1. ASSUME NEW t \in Threads, NEW l, Goto(t, l), Still, pc[t] \notin SelectPc,
               l \notin SelectPc,
               t = Worker => pc[t] \notin {"readMode", "readMix", "choose"}
        PROVE  Selections'
    <3>1. ModeIsSettled' => ModeIsSettled
      BY <2>1 DEF ModeIsSettled, Goto, MixTypeOK
    <3>2. QED
      BY <1>1, <1>5, <2>1, <3>1
  <2>2. \A l \in WritePc \cup ReadPc \cup {"idle", "want", "poll", "dispatch", "settle"} :
          l \notin SelectPc /\ l \notin {"readMode", "readMix", "choose"}
    BY DEF WritePc, ReadPc, SelectPc
  <2>3. CASE \E t \in Gui : AskForReading(t)
    <3>1. PICK t \in Gui : AskForReading(t)
      BY <2>3
    <3>2. Still /\ Goto(t, "idle") /\ pc[t] = "want"
      BY <3>1 DEF AskForReading, callVars, ghosts
    <3>3. QED
      BY <2>1, <2>2, <3>2
  <2>4. CASE Settle
    <3>1. Still /\ Goto(Worker, "idle") /\ pc[Worker] = "settle"
      BY <2>4 DEF Settle, callVars
    <3>2. QED
      BY <2>1, <2>2, <3>1
  <2>5. CASE Reread
    <3>1. Still /\ Goto(Worker, "fetch") /\ pc[Worker] = "idle"
      BY <2>5 DEF Reread, CallReadLevels, Worker, callVars
    <3>2. QED
      BY <2>1, <2>2, <3>1 DEF ReadPc
  <2>6. CASE ReadStep
    <3>1. PICK l \in ReadPc : Goto(Worker, l)
      BY <2>6, ReadTypeOK
    <3>2. Still /\ pc[Worker] \in ReadPc
      BY <2>6, ReadTypeOK DEF ReadStep, callVars, driverVars
    <3>3. QED
      BY <2>1, <2>2, <3>1, <3>2
  <2>7. CASE EndsReading
    <3>1. PICK l \in {"poll", "settle"} : Goto(Worker, l)
      BY <2>7 DEF EndsReading, EndReadLevels, Worker
    <3>2. Still /\ pc[Worker] = "fetch"
      BY <2>7 DEF EndsReading, EndReadLevels, Worker, mixVars, driverVars, callVars, ghosts
    <3>3. QED
      BY <2>1, <2>2, <3>1, <3>2 DEF ReadPc
  <2>8. CASE WalksLoop
    <3>1. PICK l \in {"idle", "poll", "dispatch"} : Goto(Worker, l)
      BY <2>8 DEF WalksLoop
    <3>2. Still /\ pc[Worker] \in {"idle", "poll", "dispatch"}
      BY <2>8 DEF WalksLoop, driverVars, ghosts
    <3>3. QED
      BY <2>1, <2>2, <3>1, <3>2
  <2>9. CASE \E t \in Threads : StartsLevel(t)
    <3>1. PICK t \in Threads : StartsLevel(t)
      BY <2>9
    <3>2. Still /\ pc[t] \in {"idle", "dispatch"} /\ Goto(t, "pace")
      BY <3>1, StartLevelTypeOK DEF StartsLevel, driverVars, ghosts
    <3>3. QED
      BY <2>1, <2>2, <3>2 DEF WritePc
  <2>10. CASE \E t \in Threads : Returns(t)
    <3>1. PICK t \in Threads : Returns(t)
      BY <2>10
    <3>2. PICK l \in {"idle", "dispatch"} : Goto(t, l)
      BY <3>1 DEF Returns, ReturnTo
    <3>3. Still /\ pc[t] = "return"
      BY <3>1 DEF Returns, ReturnTo, mixVars, driverVars, callVars, ghosts
    <3>4. QED
      BY <2>1, <2>2, <3>2, <3>3 DEF WritePc
  <2>11. CASE \E t \in Threads : SetLevelStep(t) /\ UNCHANGED mixVars
    <3>1. PICK t \in Threads : SetLevelStep(t) /\ UNCHANGED mixVars
      BY <2>11
    <3>2. PICK l \in WritePc : Goto(t, l)
      BY <3>1, SetLevelTypeOK
    <3>3. Still /\ pc[t] \in WritePc
      BY <3>1, SetLevelTypeOK DEF mixVars, driverVars, callVars, ghosts
    <3>4. QED
      BY <2>1, <2>2, <3>2, <3>3
  <2>12. CASE UNCHANGED <<pc, connected>> /\ Still
    BY <2>12 DEF Selections, LoneSelectionFenced, CrossingsAreMarked, SelectionOnItsWay,
       SelectionAgrees, ModeIsSettled, Selecting, Adopted, LedSelectFor, deckVars
  <2>13. QED
    BY <1>2, <1>3, <1>4, <2>3, <2>4, <2>5, <2>6, <2>7, <2>8, <2>9, <2>10, <2>11, <2>12,
       StepKinds DEF Tick, allVars, levelVars, mixVars, driverVars, callVars, ghosts
<1>6. QED
  BY <1>2, <1>5

-----------------------------------------------------------------------------
(* Stale levels.                                                           *)

Held == RecordedOrUndone /\ AnswerHolds /\ StaleLevelsAreReread

\* What is behind a level the driver holds and the deck does not, the reading
\* apart.
Excused(e) ==
  \/ levels[e] \in {NoLevel, reg[e]}
  \/ e \in overtaken
  \/ \E t \in Threads : Recording(t, e)
  \/ e \in undone \cup refused
  \/ dropped
  \/ cut

LEMMA StaleIsExcused ==
  StaleLevelsAreReread <=> \A e \in Tracks : Excused(e) \/ RereadOnItsWay(e)
  BY DEF StaleLevelsAreReread, Excused

\* A step after which every track is certain to be read again.
LEMMA AllReread ==
  ASSUME \/ wantReading
         \/ dropped \/ cut
         \/ \E t \in Gui : pc[t] \in SelectPc \cup {"want"}
         \/ pc[Worker] = "fetch" /\ toRead = Tracks
         \/ ~connected /\ ~Adopted
  PROVE  StaleLevelsAreReread
  BY StaleIsExcused DEF Excused, RereadOnItsWay

\* A step that moves no level, of a thread that is not in a selection or a
\* reading and keeps what it is recording.
LEMMA LevelsStand ==
  ASSUME MixTypeOK, Held, NEW t \in Threads, NEW l, Goto(t, l),
         UNCHANGED <<reg, levels, overtaken, passed, toRead, undone, refused, dropped,
                     cut, wantReading, connected>>,
         \A u \in Threads \ {t} : track'[u] = track[u] /\ level'[u] = level[u],
         l \in {"stamp", "remember"} <=> pc[t] \in {"stamp", "remember"},
         l \in {"stamp", "remember"} => track'[t] = track[t] /\ level'[t] = level[t],
         pc[t] \notin SelectPc \cup {"want"} \cup ReadPc, l \notin ReadPc,
         Adopted' => Adopted
  PROVE  Held'
<1> USE NamesHold DEF Names
<1>1. /\ pc'[t] = l /\ \A u \in Threads \ {t} : pc'[u] = pc[u]
  BY DEF Goto, MixTypeOK
<1>2. \A u \in Threads, e \in Tracks :
        /\ Recording(u, e)' <=> Recording(u, e)
        /\ Recording(u, e) => level'[u] = level[u]
  BY <1>1 DEF Recording
<1>3. RecordedOrUndone'
  BY <1>2 DEF Held, RecordedOrUndone
<1>4. Unsettled => Unsettled'
  BY <1>1 DEF Unsettled
<1>5. pc'[Worker] \in ReadPc \/ pc[Worker] \in ReadPc => t # Worker
  BY <1>1
<1>6. pc'[Worker] \in ReadPc \/ pc[Worker] \in ReadPc
        => /\ pc'[Worker] = pc[Worker] /\ track'[Worker] = track[Worker]
           /\ level'[Worker] = level[Worker]
  BY <1>1, <1>5
<1>7. AnswerHolds'
  BY <1>4, <1>6 DEF Held, AnswerHolds, ReadPc
<1>8. ASSUME NEW e \in Tracks PROVE Excused(e) => Excused(e)'
  BY <1>2 DEF Excused
<1>9. ASSUME NEW e \in Tracks PROVE RereadOnItsWay(e) => RereadOnItsWay(e)'
  BY <1>1, <1>6 DEF RereadOnItsWay, ReadPc
<1>10. StaleLevelsAreReread'
  BY <1>8, <1>9, StaleIsExcused DEF Held, StaleLevelsAreReread, Excused
<1>11. QED
  BY <1>3, <1>7, <1>10 DEF Held

\* The levels that have landed are the register's, whatever a thread that
\* records none of them does.
LEMMA RecordsStand ==
  ASSUME MixTypeOK, RecordedOrUndone, NEW t \in Threads, NEW l, Goto(t, l),
         UNCHANGED <<reg, track, level, undone>>, l \notin {"stamp", "remember"}
  PROVE  RecordedOrUndone'
<1>1. \A u \in Threads, e \in Tracks : Recording(u, e)' => Recording(u, e)
  BY DEF Goto, MixTypeOK, Recording
<1>2. QED
  BY <1>1 DEF RecordedOrUndone

\* A selection that has begun, and one that is over, has the levels read.
LEMMA SelectUnsettles ==
  ASSUME MixTypeOK, NEW t \in Threads, SelectStep(t)
  PROVE  /\ t # Worker => cut' \/ pc'[t] \in SelectPc \cup {"want"}
         /\ t = Worker => pc'[t] \in SelectPc \/ (pc'[t] = "fetch" /\ toRead' = Tracks)
<1>1. CASE AssignMix(t)
  <2>1. AfterSelect(t, TRUE)
    BY <1>1 DEF AssignMix
  <2>2. /\ Goto(t, IF t = Worker THEN "fetch" ELSE "want")
        /\ t = Worker => toRead' = Tracks
    BY <2>1, AfterSelectTypeOK
  <2>3. QED
    BY <2>2 DEF Goto, MixTypeOK
<1>2. CASE LoseSelect(t)
  <2>1. AfterSelect(t, FALSE) /\ cut'
    BY <1>2 DEF LoseSelect
  <2>2. /\ Goto(t, IF t = Worker THEN "fetch" ELSE "idle")
        /\ t = Worker => toRead' = Tracks
    BY <2>1, AfterSelectTypeOK
  <2>3. QED
    BY <2>1, <2>2 DEF Goto, MixTypeOK
<1>3. CASE LandFence(t) \/ LandLed(t) \/ LandSelector(t) \/ LandRing(t)
  <2>1. pc[t] \in SelectPc \ {"mixAssign"} /\ Goto(t, AfterWrite[pc[t]])
    BY <1>3 DEF LandFence, LandLed, LandSelector, LandRing, SelectPc
  <2>2. QED
    BY <2>1, AfterWriteIsSelect DEF Goto, MixTypeOK
<1>4. QED
  BY <1>1, <1>2, <1>3 DEF SelectStep

\* What a collapse undoes it marks.
LEMMA CollapseMarks ==
  ASSUME MixTypeOK, NEW t \in Threads, SelectStep(t)
  PROVE  /\ undone \subseteq undone'
         /\ \A u \in Threads, e \in Tracks :
              Recording(u, e) /\ reg'[e] # reg[e] => e \in undone'
<1>1. CASE LandLed(t)
  BY <1>1 DEF LandLed
<1>2. CASE ~LandLed(t)
  <2>1. UNCHANGED <<reg, undone>>
    BY <1>2, AfterSelectTypeOK DEF SelectStep, LandFence, LandSelector, LandRing, AssignMix,
       LoseSelect, levelData, ghosts
  <2>2. QED
    BY <2>1
<1>3. QED
  BY <1>1, <1>2

LEMMA SelectHeld ==
  ASSUME MixTypeOK, WorkerPlace, Held, NEW t \in Threads, SelectStep(t)
  PROVE  Held'
<1> USE NamesHold DEF Names
<1>1. PICK l \in SelectNextPc(t) : Goto(t, l)
  BY SelectTypeOK
<1>2. UNCHANGED <<track, level, connected>>
  BY SelectTypeOK
<1>3. \A u \in Threads, e \in Tracks : Recording(u, e)' => Recording(u, e)
  BY <1>1, <1>2 DEF Goto, MixTypeOK, Recording, SelectNextPc, SelectPc
<1>4. RecordedOrUndone'
  BY <1>2, <1>3, CollapseMarks DEF Held, RecordedOrUndone
<1>5. t # Worker => Unsettled'
  BY SelectUnsettles DEF Unsettled
<1>6. t = Worker => pc'[Worker] # "assign"
  BY SelectUnsettles DEF SelectPc
<1>7. AnswerHolds'
  BY <1>5, <1>6 DEF AnswerHolds
<1>8. CASE t # Worker
  BY <1>4, <1>5, <1>7, <1>8, AllReread DEF Unsettled, Held, StaleLevelsAreReread,
     RereadOnItsWay
<1>9. CASE t = Worker
  <2>1. ~connected'
    BY <1>2, <1>9, SelectTypeOK DEF WorkerPlace
  <2>2. pc'[Worker] \in SelectPc => ~Adopted'
    BY <2>1 DEF Adopted, SelectPc
  <2>3. StaleLevelsAreReread'
    BY <1>9, <2>1, <2>2, SelectUnsettles DEF StaleLevelsAreReread, RereadOnItsWay
  <2>4. QED
    BY <1>4, <1>7, <2>3 DEF Held
<1>10. QED
  BY <1>8, <1>9

LEMMA StartSelectHeld ==
  ASSUME MixTypeOK, WorkerPlace, Held, NEW t \in Threads, NEW m \in Mixes, StartsSelect(t, m)
  PROVE  Held'
<1> USE NamesHold DEF Names
<1>1. Goto(t, "fenceOpen") /\ UNCHANGED <<reg, track, level, undone, connected>>
  BY StartSelectTypeOK DEF StartsSelect, levelData, driverVars
<1>2. RecordedOrUndone'
  BY <1>1, RecordsStand DEF Held
<1>3. pc'[t] = "fenceOpen" /\ "fenceOpen" \in SelectPc
  BY <1>1 DEF Goto, MixTypeOK, SelectPc
<1>4. CASE t # Worker
  BY <1>2, <1>3, <1>4 DEF Held, AnswerHolds, Unsettled, StaleLevelsAreReread, RereadOnItsWay
<1>5. CASE t = Worker
  <2>1. ~connected'
    BY <1>1, <1>5 DEF StartsSelect, WorkerPlace, AdoptPc
  <2>2. ~Adopted'
    BY <1>3, <1>5, <2>1 DEF Adopted
  <2>3. QED
    BY <1>2, <1>3, <1>5, <2>1, <2>2 DEF Held, AnswerHolds, StaleLevelsAreReread,
       RereadOnItsWay
<1>6. QED
  BY <1>4, <1>5

\* The interface asks for the levels to be read.
LEMMA AskForReadingHeld ==
  ASSUME MixTypeOK, Held, NEW t \in Gui, AskForReading(t)
  PROVE  Held'
<1> USE NamesHold DEF Names
<1>1. Goto(t, "idle") /\ wantReading' /\ UNCHANGED <<reg, track, level, undone>>
  BY DEF AskForReading, levelData, ghosts
<1>2. RecordedOrUndone'
  BY <1>1, RecordsStand DEF Held
<1>3. QED
  BY <1>1, <1>2 DEF Held, AnswerHolds, Unsettled, StaleLevelsAreReread, RereadOnItsWay

\* What the worker does about the deck before it reads the levels.
LEMMA AskHeld ==
  ASSUME MixTypeOK, WorkerPlace, Held, AsksTheDeck
  PROVE  Held'
<1> USE NamesHold DEF Names
<1>1. PICK l \in {"readMix", "choose"} : Goto(Worker, l)
  BY DEF AsksTheDeck, ReadMode, ReadModeFails, ReadSelectedMix
<1>2. /\ pc[Worker] \in {"readMode", "readMix"}
      /\ UNCHANGED <<reg, track, level, undone, connected>>
  BY DEF AsksTheDeck, ReadMode, ReadModeFails, ReadSelectedMix, levelData, mixVars,
     driverVars, ghosts
<1>3. RecordedOrUndone'
  BY <1>1, <1>2, RecordsStand DEF Held
<1>4. pc'[Worker] = l
  BY <1>1 DEF Goto, MixTypeOK
<1>5. ~connected'
  BY <1>2 DEF WorkerPlace, AdoptPc
<1>6. ~Adopted'
  BY <1>4, <1>5 DEF Adopted
<1>7. QED
  BY <1>3, <1>4, <1>5, <1>6 DEF Held, AnswerHolds, StaleLevelsAreReread, RereadOnItsWay

\* The end of connect(): a request that is cleared is known to be dropped.
LEMMA SettleHeld ==
  ASSUME MixTypeOK, Held, Settle
  PROVE  Held'
<1> USE NamesHold DEF Names
<1>1. /\ Goto(Worker, "idle") /\ dropped' = (dropped \/ wantReading) /\ pc[Worker] = "settle"
      /\ UNCHANGED <<reg, levels, overtaken, track, level, undone, refused, cut>>
  BY DEF Settle, levelData
<1>2. RecordedOrUndone'
  BY <1>1, RecordsStand DEF Held
<1>3. pc'[Worker] = "idle" /\ \A u \in Gui : pc'[u] = pc[u]
  BY <1>1 DEF Goto, MixTypeOK
<1>4. AnswerHolds'
  BY <1>3 DEF AnswerHolds
<1>5. ASSUME NEW e \in Tracks PROVE (Excused(e) \/ RereadOnItsWay(e))'
  <2>1. \A u \in Threads : Recording(u, e) => Recording(u, e)'
    BY <1>1 DEF Goto, MixTypeOK, Recording
  <2>2. CASE Excused(e)
    BY <1>1, <2>1, <2>2 DEF Excused
  <2>3. CASE RereadOnItsWay(e)
    BY <1>1, <1>3, <2>3 DEF RereadOnItsWay, Excused, Adopted
  <2>4. QED
    BY <2>2, <2>3, StaleIsExcused DEF Held
<1>6. StaleLevelsAreReread'
  BY <1>5 DEF StaleLevelsAreReread, Excused
<1>7. QED
  BY <1>2, <1>4, <1>6 DEF Held

LEMMA RereadHeld ==
  ASSUME MixTypeOK, Held, Reread
  PROVE  Held'
<1> USE NamesHold DEF Names
<1>1. /\ Goto(Worker, "fetch") /\ toRead' = Tracks
      /\ UNCHANGED <<reg, track, level, undone>>
  BY DEF Reread, CallReadLevels, Worker
<1>2. RecordedOrUndone'
  BY <1>1, RecordsStand DEF Held
<1>3. pc'[Worker] = "fetch"
  BY <1>1 DEF Goto, MixTypeOK
<1>4. QED
  BY <1>1, <1>2, <1>3 DEF Held, AnswerHolds, StaleLevelsAreReread, RereadOnItsWay

\* The deck answers: what it says is on its way to the cache.
LEMMA FetchHeld ==
  ASSUME MixTypeOK, WorkerPlace, Held, ReadStep, NEW f \in Tracks, Fetch(f),
         refused' = refused \ {f},
         undone' = IF \E t \in Threads : Recording(t, f) THEN undone ELSE undone \ {f}
  PROVE  Held'
<1> USE NamesHold DEF Names
<1>1. /\ pc[Worker] = "fetch" /\ f \in toRead /\ toRead' = toRead \ {f}
      /\ pc' = [pc EXCEPT ![Worker] = "assign"]
      /\ track' = [track EXCEPT ![Worker] = f] /\ level' = [level EXCEPT ![Worker] = reg[f]]
      /\ UNCHANGED <<reg, levels, overtaken>>
  BY DEF Fetch, Goto, Worker
<1>2. UNCHANGED <<wantReading, connected, cut, dropped>>
  BY DEF ReadStep, driverVars
<1>3. /\ pc'[Worker] = "assign" /\ track'[Worker] = f /\ level'[Worker] = reg[f]
      /\ \A u \in Gui : pc'[u] = pc[u] /\ track'[u] = track[u] /\ level'[u] = level[u]
  BY <1>1 DEF MixTypeOK, LevelTypeOK
<1>4. \A u \in Threads, e \in Tracks :
        /\ Recording(u, e)' <=> Recording(u, e)
        /\ Recording(u, e) => level'[u] = level[u]
  BY <1>1, <1>3 DEF Recording
<1>5. RecordedOrUndone'
  BY <1>1, <1>4 DEF Held, RecordedOrUndone
<1>6. AnswerHolds'
  BY <1>1, <1>3 DEF AnswerHolds
<1>7. ASSUME NEW e \in Tracks PROVE (Excused(e) \/ RereadOnItsWay(e))'
  <2>1. CASE e = f
    BY <1>1, <1>3, <2>1 DEF RereadOnItsWay
  <2>2. CASE e # f /\ Excused(e)
    BY <1>1, <1>2, <1>4, <2>2 DEF Excused
  <2>3. CASE e # f /\ RereadOnItsWay(e)
    BY <1>1, <1>2, <1>3, <2>3 DEF RereadOnItsWay, Adopted
  <2>4. QED
    BY <2>1, <2>2, <2>3, StaleIsExcused DEF Held
<1>8. StaleLevelsAreReread'
  BY <1>7 DEF StaleLevelsAreReread, Excused
<1>9. QED
  BY <1>5, <1>6, <1>8 DEF Held

\* The deck does not answer, and the track is known to be one it refused.
LEMMA FetchFailsHeld ==
  ASSUME MixTypeOK, Held, ReadStep, NEW f \in Tracks, FetchFails(f),
         refused' = refused \cup {f}, UNCHANGED undone
  PROVE  Held'
<1>1. /\ pc[Worker] = "fetch" /\ toRead' = toRead \ {f}
      /\ UNCHANGED <<reg, levels, overtaken, pc, track, level, passed>>
      /\ UNCHANGED <<wantReading, connected, cut, dropped>>
  BY DEF FetchFails, ReadStep, driverVars, Worker
<1>2. RecordedOrUndone' /\ AnswerHolds'
  BY <1>1 DEF Held, RecordedOrUndone, Recording, AnswerHolds, Unsettled
<1>3. ASSUME NEW e \in Tracks PROVE (Excused(e) \/ RereadOnItsWay(e))'
  BY <1>1, StaleIsExcused DEF Held, Excused, RereadOnItsWay, Recording, Adopted
<1>4. StaleLevelsAreReread'
  BY <1>3 DEF StaleLevelsAreReread, Excused
<1>5. QED
  BY <1>2, <1>4 DEF Held

\* The answer is cached: it is the register's, or a write or a collapse has
\* passed it.
LEMMA AssignHeld ==
  ASSUME MixTypeOK, Held, ReadStep, Assign, UNCHANGED <<refused, undone>>
  PROVE  Held'
<1> USE NamesHold DEF Names
<1> DEFINE f == track[Worker]
<1>1. /\ pc[Worker] = "assign" /\ pc' = [pc EXCEPT ![Worker] = "fetch"]
      /\ levels' = [levels EXCEPT ![f] = level[Worker]]
      /\ overtaken' = IF passed THEN overtaken \cup {f} ELSE overtaken \ {f}
      /\ track' = [track EXCEPT ![Worker] = AnyTrack]
      /\ level' = [level EXCEPT ![Worker] = 0]
      /\ UNCHANGED <<reg, toRead>>
  BY DEF Assign, Goto, Worker
<1>2. UNCHANGED <<wantReading, connected, cut, dropped>>
  BY DEF ReadStep, driverVars
<1>3. /\ pc'[Worker] = "fetch" /\ f \in Tracks
      /\ \A u \in Gui : pc'[u] = pc[u] /\ track'[u] = track[u] /\ level'[u] = level[u]
  BY <1>1 DEF MixTypeOK, LevelTypeOK
<1>4. \A u \in Threads, e \in Tracks :
        /\ Recording(u, e)' <=> Recording(u, e)
        /\ Recording(u, e) => level'[u] = level[u]
  BY <1>1, <1>3 DEF Recording
<1>5. RecordedOrUndone'
  BY <1>1, <1>4 DEF Held, RecordedOrUndone
<1>6. AnswerHolds'
  BY <1>3 DEF AnswerHolds
<1>7. /\ levels'[f] = level[Worker]
      /\ \A e \in Tracks \ {f} : levels'[e] = levels[e]
  BY <1>1, <1>3 DEF MixTypeOK, LevelTypeOK
<1>8. ASSUME NEW e \in Tracks PROVE (Excused(e) \/ RereadOnItsWay(e))'
  <2>1. CASE e = f /\ passed
    BY <1>1, <2>1 DEF Excused
  <2>2. CASE e = f /\ ~passed
    <3>1. level[Worker] = reg[f] \/ Unsettled
      BY <1>1, <2>2 DEF Held, AnswerHolds
    <3>2. QED
      BY <1>1, <1>2, <1>3, <1>7, <2>2, <3>1 DEF Unsettled, Excused, RereadOnItsWay
  <2>3. CASE e # f /\ Excused(e)
    BY <1>1, <1>2, <1>4, <1>7, <2>3 DEF Excused
  <2>4. CASE e # f /\ RereadOnItsWay(e)
    BY <1>1, <1>2, <1>3, <2>4 DEF RereadOnItsWay, Adopted
  <2>5. QED
    BY <2>1, <2>2, <2>3, <2>4, StaleIsExcused DEF Held
<1>9. StaleLevelsAreReread'
  BY <1>8 DEF StaleLevelsAreReread, Excused
<1>10. QED
  BY <1>5, <1>6, <1>9 DEF Held

LEMMA ReadHeld ==
  ASSUME MixTypeOK, WorkerPlace, Held, ReadStep
  PROVE  Held'
  BY FetchHeld, FetchFailsHeld, AssignHeld DEF ReadStep

\* The reading is over: nothing was left to ask for.
LEMMA EndsReadingHeld ==
  ASSUME MixTypeOK, Held, EndsReading
  PROVE  Held'
<1> USE NamesHold DEF Names
<1>1. /\ pc[Worker] = "fetch" /\ toRead = {}
      /\ Goto(Worker, IF connected THEN "poll" ELSE "settle")
      /\ UNCHANGED <<reg, levels, overtaken, track, level, passed, toRead>>
      /\ UNCHANGED <<wantReading, connected, cut, dropped, undone, refused>>
  BY DEF EndsReading, EndReadLevels, Worker, mixVars, driverVars, ghosts
<1>2. RecordedOrUndone'
  BY <1>1, RecordsStand DEF Held
<1>3. pc'[Worker] \in {"poll", "settle"} /\ \A u \in Gui : pc'[u] = pc[u]
  BY <1>1 DEF Goto, MixTypeOK
<1>4. AnswerHolds'
  BY <1>3 DEF AnswerHolds
<1>5. ASSUME NEW e \in Tracks PROVE (Excused(e) \/ RereadOnItsWay(e))'
  <2>1. \A u \in Threads : Recording(u, e) => Recording(u, e)'
    BY <1>1 DEF Goto, MixTypeOK, Recording
  <2>2. CASE Excused(e)
    BY <1>1, <2>1, <2>2 DEF Excused
  <2>3. CASE RereadOnItsWay(e)
    BY <1>1, <1>3, <2>3 DEF RereadOnItsWay, Adopted
  <2>4. QED
    BY <2>2, <2>3, StaleIsExcused DEF Held
<1>6. StaleLevelsAreReread'
  BY <1>5 DEF StaleLevelsAreReread, Excused
<1>7. QED
  BY <1>2, <1>4, <1>6 DEF Held

\* A level lands: the thread that holds the mutex is the only one to record.
LEMMA LandLevelHeld ==
  ASSUME MixTypeOK, PaceOwned, Held, NEW t \in Threads, LandLevel(t), UNCHANGED mixVars
  PROVE  Held'
<1> USE NamesHold DEF Names
<1> DEFINE f == track[t]
<1>1. /\ pc[t] = "transfer" /\ pc' = [pc EXCEPT ![t] = "stamp"]
      /\ reg' = [reg EXCEPT ![f] = level[t]]
      /\ passed' = (passed \/ (pc[Worker] = "assign" /\ track[Worker] = f))
      /\ UNCHANGED <<levels, overtaken, track, level, toRead>>
  BY DEF LandLevel, Goto, Worker
<1>2. UNCHANGED <<wantReading, connected, cut, dropped, undone, refused>>
  BY DEF mixVars, driverVars, ghosts
<1>3. f \in Tracks /\ reg'[f] = level[t] /\ \A e \in Tracks \ {f} : reg'[e] = reg[e]
  BY <1>1 DEF MixTypeOK, LevelTypeOK
<1>4. pc'[t] = "stamp" /\ \A u \in Threads \ {t} : pc'[u] = pc[u]
  BY <1>1 DEF MixTypeOK
<1>5. \A u \in Threads \ {t}, e \in Tracks : ~Recording(u, e) /\ ~Recording(u, e)'
  BY <1>1, <1>4 DEF Recording, PaceOwned, HoldingPc, WritePc
<1>6. \A e \in Tracks : ~Recording(t, e) /\ (Recording(t, e)' <=> e = f)
  BY <1>1, <1>4 DEF Recording
<1>7. RecordedOrUndone'
  BY <1>1, <1>3, <1>5, <1>6 DEF RecordedOrUndone
<1>8. pc[t] # "assign" /\ (pc'[Worker] \in ReadPc => t # Worker)
      /\ (pc[Worker] \in ReadPc => t # Worker)
  BY <1>1, <1>4 DEF ReadPc
<1>9. AnswerHolds'
  <2>1. SUFFICES ASSUME pc'[Worker] = "assign", ~passed'
                 PROVE  level'[Worker] = reg'[track'[Worker]] \/ Unsettled'
    BY DEF AnswerHolds
  <2>2. pc[Worker] = "assign" /\ ~passed /\ track[Worker] # f
    BY <1>1, <1>4, <1>8, <2>1 DEF ReadPc
  <2>3. level[Worker] = reg[track[Worker]] \/ Unsettled
    BY <2>2 DEF Held, AnswerHolds
  <2>4. track[Worker] \in Tracks
    BY DEF MixTypeOK, LevelTypeOK
  <2>5. Unsettled => Unsettled'
    BY <1>1, <1>2, <1>4 DEF Unsettled, SelectPc
  <2>6. QED
    BY <1>1, <1>3, <2>2, <2>3, <2>4, <2>5
<1>10. ASSUME NEW e \in Tracks PROVE (Excused(e) \/ RereadOnItsWay(e))'
  <2>1. CASE e = f
    BY <1>6, <2>1 DEF Excused
  <2>2. CASE e # f /\ Excused(e)
    BY <1>1, <1>2, <1>3, <1>5, <1>6, <2>2 DEF Excused
  <2>3. CASE e # f /\ RereadOnItsWay(e)
    <3>1. CASE t = Worker
      BY <1>1, <1>2, <1>4, <2>3, <3>1 DEF RereadOnItsWay, Adopted
    <3>2. CASE t # Worker
      BY <1>1, <1>2, <1>3, <1>4, <2>3, <3>2 DEF RereadOnItsWay, Adopted, SelectPc
    <3>3. QED
      BY <3>1, <3>2
  <2>4. QED
    BY <2>1, <2>2, <2>3, StaleIsExcused DEF Held
<1>11. StaleLevelsAreReread'
  BY <1>10 DEF StaleLevelsAreReread, Excused
<1>12. QED
  BY <1>7, <1>9, <1>11 DEF Held

\* The cache takes the level that landed, which is the register's but for a
\* collapse in between.
LEMMA RememberHeld ==
  ASSUME MixTypeOK, PaceOwned, WorkerPlace, Held, NEW t \in Threads, Remember(t),
         UNCHANGED mixVars
  PROVE  Held'
<1> USE NamesHold DEF Names
<1> DEFINE f == track[t]
<1>1. /\ pc[t] = "remember" /\ Goto(t, AfterRemember(f))
      /\ levels' = [levels EXCEPT ![f] = level[t]]
      /\ overtaken' = overtaken \ {f}
      /\ UNCHANGED <<reg, track, level, toRead, passed>>
  BY DEF Remember
<1>2. UNCHANGED <<wantReading, connected, cut, dropped, undone, refused>>
  BY DEF mixVars, driverVars, ghosts
<1>3. f \in Tracks /\ levels'[f] = level[t] /\ \A e \in Tracks \ {f} : levels'[e] = levels[e]
  BY <1>1 DEF MixTypeOK, LevelTypeOK
<1>4. pc'[t] \in {"waitGate", "return"} /\ \A u \in Threads \ {t} : pc'[u] = pc[u]
  BY <1>1 DEF MixTypeOK, AfterRemember, Goto
<1>5. RecordedOrUndone'
  BY <1>1, <1>2, <1>4, RecordsStand DEF Held, AfterRemember
<1>6. AnswerHolds'
  <2>1. Unsettled => Unsettled'
    BY <1>1, <1>2, <1>4 DEF Unsettled, SelectPc
  <2>2. pc'[Worker] = "assign" => pc[Worker] = "assign"
    BY <1>4
  <2>3. QED
    BY <1>1, <2>1, <2>2 DEF Held, AnswerHolds
<1>7. ASSUME NEW e \in Tracks PROVE (Excused(e) \/ RereadOnItsWay(e))'
  <2>1. CASE e = f
    <3>1. reg[f] = level[t] \/ f \in undone
      BY <1>1, <1>3 DEF Held, RecordedOrUndone, Recording
    <3>2. QED
      BY <1>1, <1>2, <1>3, <2>1, <3>1 DEF Excused
  <2>2. CASE e # f /\ Excused(e)
    <3>1. \A u \in Threads : Recording(u, e) => Recording(u, e)'
      BY <1>1, <1>4, <2>2 DEF Recording
    <3>2. QED
      BY <1>1, <1>2, <1>3, <2>2, <3>1 DEF Excused
  <2>3. CASE e # f /\ RereadOnItsWay(e)
    <3>1. CASE t = Worker
      BY <1>1, <1>2, <1>4, <2>3, <3>1 DEF RereadOnItsWay, Adopted
    <3>2. CASE t # Worker
      BY <1>1, <1>2, <1>4, <2>3, <3>2 DEF RereadOnItsWay, Adopted, SelectPc
    <3>3. QED
      BY <3>1, <3>2
  <2>4. QED
    BY <2>1, <2>2, <2>3, StaleIsExcused DEF Held
<1>8. StaleLevelsAreReread'
  BY <1>7 DEF StaleLevelsAreReread, Excused
<1>9. QED
  BY <1>5, <1>6, <1>8 DEF Held

\* A step of setLevel, landing and recording included.
LEMMA SetLevelHeld ==
  ASSUME MixTypeOK, PaceOwned, WorkerPlace, Held, NEW t \in Threads, SetLevelStep(t),
         UNCHANGED mixVars, Adopted' => Adopted
  PROVE  Held'
<1>1. CASE LandLevel(t)
  BY <1>1, LandLevelHeld
<1>2. CASE Remember(t)
  BY <1>2, RememberHeld
<1>3. CASE ~LandLevel(t) /\ ~Remember(t)
  <2>1. /\ UNCHANGED <<reg, levels, overtaken, passed, toRead, track, level>>
        /\ UNCHANGED <<undone, refused, dropped, cut, wantReading, connected>>
    BY <1>3 DEF SetLevelStep, TakePace, WaitForGap, LoseLevel, Stamp, LandGate, LoseGate,
       mixVars, driverVars, ghosts
  <2>2. PICK l \in WritePc : /\ Goto(t, l)
                             /\ l \in {"stamp", "remember"} <=> pc[t] \in {"stamp", "remember"}
    BY <1>3 DEF SetLevelStep, TakePace, WaitForGap, LoseLevel, Stamp, AfterStamp, LandGate,
       LoseGate, WritePc
  <2>3. pc[t] \in WritePc
    BY SetLevelTypeOK
  <2>4. pc[t] \notin SelectPc \cup {"want"} \cup ReadPc /\ l \notin ReadPc
    BY <2>2, <2>3 DEF WritePc, SelectPc, ReadPc
  <2>5. QED
    BY <2>1, <2>2, <2>4, LevelsStand
<1>4. QED
  BY <1>1, <1>2, <1>3

LEMMA NextHeld ==
  ASSUME MixTypeOK, PaceOwned, WorkerPlace, Held, [MixNext]_allVars
  PROVE  Held'
<1> USE NamesHold DEF Names
<1>1. CASE \E t \in Threads : SelectStep(t)
  BY <1>1, SelectHeld
<1>2. CASE ~(\E t \in Threads : SelectStep(t))
  <2>1. Adopted' => Adopted
    BY <1>2, NextWorkerPlace
  <2> DEFINE Same == UNCHANGED <<reg, levels, overtaken, passed, toRead, undone, refused,
                                 dropped, cut, wantReading, connected>>
  <2>2. CASE \E t \in Threads : StartsLevel(t)
    <3>1. PICK t \in Threads : StartsLevel(t)
      BY <2>2
    <3>2. PICK e \in Tracks, v \in Steps : CallSetLevel(t, e, v)
      BY <3>1 DEF StartsLevel
    <3>3. Same /\ Goto(t, "pace") /\ pc[t] \in {"idle", "dispatch"}
      BY <3>1, <3>2 DEF StartsLevel, CallSetLevel, driverVars, ghosts
    <3>4. \A u \in Threads \ {t} : track'[u] = track[u] /\ level'[u] = level[u]
      BY <3>2 DEF CallSetLevel, MixTypeOK, LevelTypeOK
    <3>5. pc[t] \notin SelectPc \cup {"want"} \cup ReadPc /\ "pace" \notin ReadPc
      BY <3>3 DEF SelectPc, ReadPc
    <3>6. QED
      BY <2>1, <3>3, <3>4, <3>5, LevelsStand
  <2>3. CASE \E t \in Threads : Returns(t)
    <3>1. PICK t \in Threads : Returns(t)
      BY <2>3
    <3>2. PICK l \in {"idle", "dispatch"} : Goto(t, l)
      BY <3>1 DEF Returns, ReturnTo
    <3>3. Same /\ pc[t] = "return"
      BY <3>1 DEF Returns, ReturnTo, mixVars, driverVars, ghosts
    <3>4. \A u \in Threads \ {t} : track'[u] = track[u] /\ level'[u] = level[u]
      BY <3>1 DEF Returns, ReturnTo, MixTypeOK, LevelTypeOK
    <3>5. pc[t] \notin SelectPc \cup {"want"} \cup ReadPc /\ l \notin ReadPc
      BY <3>3 DEF SelectPc, ReadPc
    <3>6. QED
      BY <2>1, <3>2, <3>3, <3>4, <3>5, LevelsStand
  <2>4. CASE WalksLoop
    <3>1. PICK l \in {"idle", "poll", "dispatch"} : Goto(Worker, l)
      BY <2>4 DEF WalksLoop
    <3>2. Same /\ UNCHANGED <<track, level>> /\ pc[Worker] \in {"idle", "poll", "dispatch"}
      BY <2>4 DEF WalksLoop, levelData, driverVars, ghosts
    <3>3. pc[Worker] \notin SelectPc \cup {"want"} \cup ReadPc /\ l \notin ReadPc
      BY <3>2 DEF SelectPc, ReadPc
    <3>4. QED
      BY <2>1, <3>1, <3>2, <3>3, LevelsStand
  <2>5. CASE Same /\ UNCHANGED <<pc, track, level>>
    BY <2>5 DEF Held, RecordedOrUndone, Recording, AnswerHolds, Unsettled,
       StaleLevelsAreReread, RereadOnItsWay, Adopted
  <2>6. CASE (Tick /\ UNCHANGED mixVars) \/ UNCHANGED allVars
    BY <2>5, <2>6 DEF Tick, mixVars, allVars, levelVars, driverVars, ghosts
  <2>7. CASE \/ \E t \in Threads, m \in Mixes : StartsSelect(t, m)
             \/ \E t \in Gui : AskForReading(t)
             \/ AsksTheDeck \/ Settle \/ Reread \/ ReadStep \/ EndsReading
    BY <2>7, StartSelectHeld, AskForReadingHeld, AskHeld, SettleHeld, RereadHeld, ReadHeld,
       EndsReadingHeld
  <2>8. CASE \E t \in Threads : SetLevelStep(t) /\ UNCHANGED mixVars
    BY <2>1, <2>8, SetLevelHeld
  <2>9. QED
    BY <1>2, <2>2, <2>3, <2>4, <2>6, <2>7, <2>8, StepKinds
<1>3. QED
  BY <1>1, <1>2

-----------------------------------------------------------------------------
(* What a selection goes by.                                               *)

Informed == KnownIsTrue /\ NoneSees

\* Reading the mode makes it known; whoever selects already does so blindly.
LEMMA ReadModeInforms ==
  ASSUME MixTypeOK, Informed, ReadMode
  PROVE  Informed'
<1> USE NamesHold DEF Names, ReadMode, Informed, KnownIsTrue, NoneSees, ModeIsRead,
        callVars, deckVars
<1>1. ~known /\ mode = "Single"
  BY DEF MixTypeOK, Modes
<1>2. /\ pc' = [pc EXCEPT ![Worker] = "readMix"]
      /\ UNCHANGED <<rings, led, blind>> /\ known'
  BY DEF Goto
<1>3. \A t \in Threads : pc'[t] \in SelectPc => pc[t] \in SelectPc
  BY <1>2 DEF MixTypeOK, SelectPc
<1>4. pc'[Worker] # "readMode"
  BY <1>2 DEF MixTypeOK
<1>5. \A t \in Threads : pc'[t] \in SelectPc => rings'[t] # "Dual" /\ t \in blind'
  BY <1>1, <1>2, <1>3
<1>6. led' = "Dual" => mode' = "Dual"
  BY <1>2
<1>7. QED
  BY <1>2, <1>4, <1>5, <1>6

\* A selection goes by the mode of its call.
LEMMA StartSelectInforms ==
  ASSUME MixTypeOK, Informed, NEW t \in Threads, NEW m \in Mixes,
         StartsSelect(t, m)
  PROVE  Informed'
<1>1. /\ pc' = [pc EXCEPT ![t] = "fenceOpen"]
      /\ rings' = [rings EXCEPT ![t] = LedSelectFor(mode, m)]
      /\ UNCHANGED <<mode, led, known>>
      /\ blind' = IF known THEN blind \ {t} ELSE blind \cup {t}
  BY StartSelectTypeOK DEF StartsSelect, CallSelectMix, Goto, deckVars, driverVars
<1>2. rings'[t] = "Dual" <=> mode = "Dual"
  BY <1>1 DEF MixTypeOK, LedSelectFor, Mixes, Modes
<1>3. \A u \in Threads \ {t} : /\ pc'[u] = pc[u] /\ rings'[u] = rings[u]
                               /\ u \in blind' <=> u \in blind
  BY <1>1 DEF MixTypeOK
<1>4. pc[t] # "readMode" /\ pc'[t] # "readMode"
  BY <1>1, NamesHold DEF StartsSelect, MixTypeOK
<1>5. pc'[Worker] = "readMode" => pc[Worker] = "readMode"
  BY <1>3, <1>4, NamesHold DEF Names
<1>6. KnownIsTrue'
  <2>1. \A u \in Threads : pc'[u] \in SelectPc /\ rings'[u] = "Dual" => mode' = "Dual"
    BY <1>1, <1>2, <1>3 DEF Informed, KnownIsTrue
  <2>2. known' => \A u \in Threads \ blind' :
          pc'[u] \in SelectPc /\ mode' = "Dual" => rings'[u] = "Dual"
    BY <1>1, <1>2, <1>3 DEF Informed, KnownIsTrue
  <2>3. QED
    BY <1>1, <1>5, <2>1, <2>2 DEF Informed, KnownIsTrue, ModeIsRead
<1>7. NoneSees'
  BY <1>1, <1>3 DEF Informed, NoneSees
<1>8. QED
  BY <1>6, <1>7 DEF Informed

\* And writes it.
LEMMA SelectInforms ==
  ASSUME MixTypeOK, Informed, NEW t \in Threads, SelectStep(t)
  PROVE  Informed'
<1>1. /\ pc[t] \in SelectPc /\ UNCHANGED mode
      /\ \A u \in Threads : u # t => pc'[u] = pc[u]
      /\ pc'[Worker] = "readMode" => pc[Worker] = "readMode"
  <2>1. PICK l \in SelectNextPc(t) : pc' = [pc EXCEPT ![t] = l]
    BY SelectTypeOK DEF Goto
  <2>2. l # "readMode"
    BY <2>1 DEF SelectNextPc, SelectPc
  <2>3. QED
    BY <2>1, <2>2, SelectTypeOK DEF MixTypeOK
<1>2. CASE UNCHANGED <<rings, blind>>
  <2>1. led' \in {led, rings[t]} /\ UNCHANGED known
    BY <1>2 DEF SelectStep, LandFence, LandLed, LandSelector, LandRing, AssignMix,
       LoseSelect, deckVars, ghosts
  <2>2. \A u \in Threads : pc'[u] \in SelectPc => pc[u] \in SelectPc
    BY <1>1
  <2>3. known => (led' = "Dual" => mode' = "Dual")
    BY <1>1, <2>1 DEF Informed, KnownIsTrue
  <2>4. KnownIsTrue'
    BY <1>1, <1>2, <2>1, <2>2, <2>3 DEF Informed, KnownIsTrue, ModeIsRead
  <2>5. NoneSees'
    BY <1>2, <2>1, <2>2 DEF Informed, NoneSees
  <2>6. QED
    BY <2>4, <2>5 DEF Informed
<1>3. CASE ~(UNCHANGED <<rings, blind>>)
  <2>1. AssignMix(t) \/ LoseSelect(t)
    BY <1>3 DEF SelectStep, LandFence, LandLed, LandSelector, LandRing, callVars, ghosts
  <2>2. /\ UNCHANGED <<led, known>>
        /\ rings' = [rings EXCEPT ![t] = "Dual"]
        /\ blind' = blind \ {t}
    BY <2>1 DEF AssignMix, LoseSelect, AfterSelect, deckVars
  <2>3. pc'[t] \notin SelectPc
    <3>1. PICK w \in BOOLEAN : AfterSelect(t, w)
      BY <2>1 DEF AssignMix, LoseSelect
    <3>2. Goto(t, IF t = Worker THEN "fetch" ELSE IF w THEN "want" ELSE "idle")
      BY <3>1, AfterSelectTypeOK
    <3>3. QED
      BY <3>2 DEF Goto, MixTypeOK, SelectPc
  <2>4. \A u \in Threads : pc'[u] \in SelectPc =>
          u # t /\ pc[u] \in SelectPc /\ rings'[u] = rings[u] /\ (u \in blind' <=> u \in blind)
    BY <1>1, <2>2, <2>3 DEF MixTypeOK
  <2>5. KnownIsTrue'
    BY <1>1, <2>2, <2>4 DEF Informed, KnownIsTrue, ModeIsRead
  <2>6. NoneSees'
    BY <2>2, <2>4 DEF Informed, NoneSees
  <2>7. QED
    BY <2>5, <2>6 DEF Informed
<1>4. QED
  BY <1>2, <1>3

\* A thread that goes to no place of a selection, and not to where the mode is
\* read, leaves the deck as well informed as it was.
LEMMA ElsewhereInformed ==
  ASSUME MixTypeOK, Informed, NEW t \in Threads, NEW l, Goto(t, l),
         l \notin SelectPc \cup {"readMode"},
         UNCHANGED <<mode, led, rings, known, blind>>
  PROVE  Informed'
<1>1. /\ \A u \in Threads : pc'[u] \in SelectPc => pc[u] \in SelectPc
      /\ pc'[Worker] = "readMode" => pc[Worker] = "readMode"
  BY NamesHold DEF Goto, MixTypeOK, Names
<1>2. QED
  BY <1>1 DEF Informed, KnownIsTrue, NoneSees, ModeIsRead

LEMMA NextInformed ==
  ASSUME MixTypeOK, PaceOwned, Informed, [MixNext]_allVars
  PROVE  Informed'
<1> USE NamesHold DEF Names
<1>1. CASE \E t \in Threads : SelectStep(t)
  BY <1>1, SelectInforms
<1>2. CASE \E t \in Threads, m \in Mixes : StartsSelect(t, m)
  BY <1>2, StartSelectInforms
<1>3. CASE AsksTheDeck
  <2>1. CASE ReadMode
    BY <2>1, ReadModeInforms
  <2>2. CASE ReadModeFails \/ ReadSelectedMix
    <3>1. UNCHANGED <<mode, led, rings, known, blind>>
      BY <2>2 DEF ReadModeFails, ReadSelectedMix, mixVars, driverVars, deckVars, callVars,
         ghosts
    <3>2. Goto(Worker, "readMix") \/ Goto(Worker, "choose")
      BY <2>2 DEF ReadModeFails, ReadSelectedMix
    <3>3. QED
      BY <3>1, <3>2, ElsewhereInformed DEF SelectPc
  <2>3. QED
    BY <1>3, <2>1, <2>2 DEF AsksTheDeck
<1>4. CASE (\E t \in Gui : AskForReading(t)) \/ Settle
  <2>1. UNCHANGED <<mode, led, rings, known, blind>>
    BY <1>4 DEF AskForReading, Settle, deckVars, callVars, ghosts
  <2>2. \E t \in Threads : Goto(t, "idle")
    BY <1>4 DEF AskForReading, Settle
  <2>3. QED
    BY <2>1, <2>2, ElsewhereInformed DEF SelectPc
<1>5. CASE Reread \/ EndsReading
  <2>1. UNCHANGED <<mode, led, rings, known, blind>>
    BY <1>5 DEF Reread, EndsReading, mixVars, driverVars, deckVars, callVars, ghosts
  <2>2. \E l \in {"fetch", "poll", "settle"} : Goto(Worker, l)
    BY <1>5 DEF Reread, EndsReading, EndReadLevels, CallReadLevels, Worker
  <2>3. QED
    BY <2>1, <2>2, ElsewhereInformed DEF SelectPc
<1>6. CASE WalksLoop
  <2>1. UNCHANGED <<mode, led, rings, known, blind>>
    BY <1>6 DEF WalksLoop, driverVars, deckVars, ghosts
  <2>2. \E l \in {"idle", "poll", "dispatch"} : Goto(Worker, l)
    BY <1>6 DEF WalksLoop
  <2>3. QED
    BY <2>1, <2>2, ElsewhereInformed DEF SelectPc
<1>7. CASE ReadStep
  <2>1. UNCHANGED <<mode, led, rings, known, blind>>
    BY <1>7 DEF ReadStep, driverVars, deckVars, callVars
  <2>2. \E l \in ReadPc : Goto(Worker, l)
    BY <1>7, ReadTypeOK
  <2>3. QED
    BY <2>1, <2>2, ElsewhereInformed DEF SelectPc, ReadPc
<1>8. ASSUME NEW t \in Threads, StartsLevel(t) PROVE Informed'
  <2>1. UNCHANGED <<mode, led, rings, known, blind>>
    BY <1>8 DEF StartsLevel, driverVars, deckVars, ghosts
  <2>2. Goto(t, "pace")
    BY <1>8, StartLevelTypeOK
  <2>3. QED
    BY <2>1, <2>2, ElsewhereInformed DEF SelectPc
<1>9. ASSUME NEW t \in Threads, Returns(t) PROVE Informed'
  <2>1. UNCHANGED <<mode, led, rings, known, blind>>
    BY <1>9 DEF Returns, mixVars, driverVars, deckVars, callVars, ghosts
  <2>2. Goto(t, "idle") \/ Goto(t, "dispatch")
    BY <1>9, ReturnTypeOK
  <2>3. QED
    BY <2>1, <2>2, ElsewhereInformed DEF SelectPc
<1>10. ASSUME NEW t \in Threads, SetLevelStep(t), UNCHANGED mixVars PROVE Informed'
  <2>1. UNCHANGED <<mode, led, rings, known, blind>>
    BY <1>10 DEF mixVars, driverVars, deckVars, callVars, ghosts
  <2>2. \E l \in WritePc : Goto(t, l)
    BY <1>10, SetLevelTypeOK
  <2>3. QED
    BY <2>1, <2>2, ElsewhereInformed DEF SelectPc, WritePc
<1>11. CASE (Tick /\ UNCHANGED mixVars) \/ UNCHANGED allVars
  BY <1>11 DEF Tick, allVars, levelVars, mixVars, driverVars, deckVars, callVars, ghosts,
     Informed, KnownIsTrue, NoneSees, ModeIsRead
<1>12. QED
  BY <1>1, <1>2, <1>3, <1>4, <1>5, <1>6, <1>7, <1>8, <1>9, <1>10, <1>11, StepKinds

-----------------------------------------------------------------------------
(* The theorems.                                                           *)

LEMMA InitMixInv == MixInit => MixInv
<1> SUFFICES ASSUME MixInit PROVE MixInv
  OBVIOUS
<1> USE LevelAssumption, NamesHold DEF Names, MixInit, LevelInit
<1>1. MixTypeOK
  <2>1. LevelTypeOK
    <3>1. gateCut \in BOOLEAN
      OBVIOUS
    <3>2. 0 \in Steps /\ Gap \in 0 .. Gap
      BY DEF Steps
    <3>3. QED
      BY <3>1, <3>2 DEF LevelTypeOK
  <2>2. pc \in [Threads -> MixPc]
    BY DEF MixPc, LevelPc, AdoptPc
  <2>3. led \in LedSelects
    BY DEF LedSelectFor, LedSelects
  <2>4. turns \in [Knobs -> Deltas \cup {0}]
    BY DEF NoTurns
  <2>5. QED
    BY <2>1, <2>2, <2>3, <2>4 DEF MixTypeOK, Mixes, Modes, LedSelects
<1>2. PaceOwned
  BY DEF PaceOwned, HoldingPc, WritePc
<1>3. \A t \in Threads : pc[t] \in {"readMode", "idle"}
  OBVIOUS
<1>4. WorkerPlace /\ ~Adopted
  BY DEF WorkerPlace, AdoptPc, Adopted
<1>5. LoneSelectionFenced /\ CrossingsAreMarked
  BY <1>3 DEF LoneSelectionFenced, CrossingsAreMarked, SelectPc
<1>6. SelectionOnItsWay /\ SelectionAgrees
  BY <1>4 DEF SelectionOnItsWay, SelectionAgrees, ModeIsSettled
<1>7. RecordedOrUndone /\ AnswerHolds /\ StaleLevelsAreReread
  BY <1>3 DEF RecordedOrUndone, Recording, AnswerHolds, StaleLevelsAreReread
<1>8. KnownIsTrue /\ NoneSees
  BY <1>3 DEF KnownIsTrue, NoneSees, SelectPc
<1>9. QED
  BY <1>1, <1>2, <1>4, <1>5, <1>6, <1>7, <1>8 DEF MixInv

\* The invariant of the mixer: in every state of any number of interface
\* threads over the worker, whatever transfers fail.
THEOREM MixInvariant == MixSpec => []MixInv
<1>1. MixInit => MixInv
  BY InitMixInv
<1>2. MixInv /\ [MixNext]_allVars => MixInv'
  <2> SUFFICES ASSUME MixInv, [MixNext]_allVars PROVE MixInv'
    OBVIOUS
  <2>1. Selections /\ Held
    BY DEF MixInv, Selections, Held
  <2>2. MixTypeOK' /\ PaceOwned' /\ WorkerPlace'
    BY NextTypeOK, NextPaceOwned, NextWorkerPlace DEF MixInv
  <2>3. Selections' /\ Held'
    BY <2>1, NextSelections, NextHeld DEF MixInv
  <2>4. KnownIsTrue' /\ NoneSees'
    BY NextInformed DEF MixInv, Informed
  <2>5. QED
    BY <2>2, <2>3, <2>4 DEF MixInv, Selections, Held
<1>3. QED
  BY <1>1, <1>2, PTL DEF MixSpec

\* Once a selection is over that nothing crossed or cut, the deck's selected
\* mix, its rings, its mode register and the driver's mix agree.
THEOREM SelectionsAgree == MixSpec => []SelectionAgrees
<1>1. MixInv => SelectionAgrees
  BY DEF MixInv
<1>2. QED
  BY <1>1, MixInvariant, PTL

\* A level the driver holds that the deck does not is read again, or one of
\* the reasons that are named kept it from being.
THEOREM StaleLevelsReread == MixSpec => []StaleLevelsAreReread
<1>1. MixInv => StaleLevelsAreReread
  BY DEF MixInv
<1>2. QED
  BY <1>1, MixInvariant, PTL

\* However many threads select, and whatever crosses them or is lost: a Dual
\* deck's mixes are only ever collapsed by a selection that was called before
\* the worker had read the mode.
THEOREM SightedKeepApart == MixSpec => OnlyTheBlindCollapse
<1> DEFINE Written == /\ led' = "Dual"
                      /\ \A e \in Tracks : reg'[e] # reg[e] =>
                           \E t \in Threads : pc[t] = "transfer" /\ track[t] = e
           Blindly == \E t \in blind : pc[t] = "led" /\ pc'[t] # "led"
           Apart   == led = "Dual" => Written \/ Blindly
<1>1. MixInv /\ [MixNext]_allVars => [Apart]_allVars
  <2> SUFFICES ASSUME MixInv, [MixNext]_allVars, led = "Dual"
               PROVE  Written \/ Blindly
    OBVIOUS
  <2> USE NamesHold DEF Names
  <2>1. MixTypeOK
    BY DEF MixInv
  <2>2. CASE \E t \in Threads : SelectStep(t)
    <3>1. PICK t \in Threads : SelectStep(t)
      BY <2>2
    <3>2. CASE LandLed(t) /\ t \in blind
      BY <3>2 DEF LandLed, Goto, AfterWrite, MixInv, MixTypeOK
    <3>3. CASE LandLed(t) /\ t \notin blind
      <4>1. rings[t] = "Dual"
        <5>1. pc[t] \in SelectPc
          BY <3>3 DEF LandLed, SelectPc
        <5>2. known
          BY <3>3, <5>1 DEF MixInv, NoneSees
        <5>3. QED
          BY <3>3, <5>1, <5>2 DEF MixInv, KnownIsTrue
      <4>2. led' = "Dual" /\ reg' = Collapsed(reg, "Dual")
        BY <3>3, <4>1 DEF LandLed
      <4>3. \A e \in Tracks : reg'[e] = reg[e]
        BY <4>2 DEF Collapsed, Mixes
      <4>4. QED
        BY <4>2, <4>3
    <3>4. CASE ~LandLed(t)
      <4>1. UNCHANGED <<led, reg>>
        BY <2>1, <3>1, <3>4, AfterSelectTypeOK DEF SelectStep, LandFence, LandSelector,
           LandRing, AssignMix, LoseSelect, levelData, deckVars
      <4>2. QED
        BY <4>1
    <3>5. QED
      BY <3>2, <3>3, <3>4
  <2>3. CASE \E t \in Threads : SetLevelStep(t) /\ UNCHANGED mixVars
    <3>1. PICK t \in Threads : SetLevelStep(t) /\ UNCHANGED mixVars
      BY <2>3
    <3>2. led' = "Dual"
      BY <3>1 DEF mixVars, deckVars
    <3>3. CASE LandLevel(t)
      BY <2>1, <3>2, <3>3 DEF LandLevel, MixTypeOK, LevelTypeOK
    <3>4. CASE ~LandLevel(t)
      BY <3>1, <3>2, <3>4 DEF SetLevelStep, TakePace, WaitForGap, LoseLevel, Stamp, Remember,
         LandGate, LoseGate
    <3>5. QED
      BY <3>3, <3>4
  <2>4. CASE UNCHANGED <<led, reg>>
    BY <2>4
  <2>5. CASE \/ \E t \in Threads, m \in Mixes : StartsSelect(t, m)
             \/ \E t \in Gui : AskForReading(t)
             \/ AsksTheDeck \/ Settle \/ Reread \/ WalksLoop
    BY <2>4, <2>5 DEF StartsSelect, AskForReading, AsksTheDeck, ReadMode, ReadModeFails,
       ReadSelectedMix, Settle, Reread, CallReadLevels, WalksLoop, levelData, deckVars, mixVars
  <2>6. CASE ReadStep
    BY <2>1, <2>4, <2>6, ReadTypeOK DEF ReadStep, deckVars
  <2>7. CASE \/ EndsReading \/ (\E t \in Threads : StartsLevel(t))
             \/ (\E t \in Threads : Returns(t))
             \/ (Tick /\ UNCHANGED mixVars) \/ UNCHANGED allVars
    BY <2>4, <2>7 DEF EndsReading, EndReadLevels, StartsLevel, CallSetLevel, Returns, ReturnTo,
       Tick, allVars, levelVars, mixVars, deckVars
  <2>8. QED
    BY <2>1, <2>2, <2>3, <2>5, <2>6, <2>7, StepKinds
<1>2. QED
  BY <1>1, MixInvariant, PTL DEF MixSpec, OnlyTheBlindCollapse

-----------------------------------------------------------------------------
(* The level writes, in the midst of it: LevelWrites' promises about the   *)
(* registers are kept by the composition, whose selections move levels and *)
(* whose threads come from more places.                                    *)

\* What a writer has in its hands is the microphone's level, where that is
\* what it writes: no selection moves it, as the microphone is not played back.
MicInHand ==
  \A t \in Threads :
    /\ pc[t] \in {"waitGate", "transferGate"} => track[t] = MicTrack
    /\ pc[t] \in {"stamp", "remember", "waitGate", "transferGate"} /\ track[t] = MicTrack
         => reg[MicTrack] = level[t]

WritesInOrder ==
  StampCoversLanding /\ GapWaitedFor /\ MicInHand /\ MicPairOnItsWay

\* The places WritesInOrder speaks of.
InHandPc == {"transfer", "stamp", "remember", "waitGate", "transferGate", "stampGate"}

\* A step that says nothing to anybody who is there.
LEMMA WritesStand ==
  ASSUME MixTypeOK, WritesInOrder, NEW t \in Threads, NEW l \in MixPc \ InHandPc, Goto(t, l),
         pc[t] \notin InHandPc,
         UNCHANGED <<stampAge, landedAge, gate, gateCut>>,
         MicTrack \in Tracks => reg'[MicTrack] = reg[MicTrack],
         \A u \in Threads \ {t} : track'[u] = track[u] /\ level'[u] = level[u]
  PROVE  WritesInOrder'
<1>1. /\ \A u \in Threads : pc[u] \in InHandPc \/ pc'[u] \in InHandPc
                              => u # t /\ pc'[u] = pc[u]
  BY DEF Goto, MixTypeOK
<1>2. \A u \in Threads : pc'[u] \in InHandPc => pc'[u] = pc[u] /\ track'[u] = track[u] /\ level'[u] = level[u]
  BY <1>1
<1>3. StampCoversLanding'
  <2>1. CASE stampAge <= landedAge
    BY <2>1 DEF StampCoversLanding
  <2>2. CASE \E u \in Threads : pc[u] \in {"stamp", "stampGate"}
    BY <1>1, <2>2 DEF StampCoversLanding, InHandPc
  <2>3. QED
    BY <2>1, <2>2 DEF WritesInOrder, StampCoversLanding
<1>4. GapWaitedFor'
  BY <1>2 DEF WritesInOrder, GapWaitedFor, InHandPc
<1>5. MicInHand'
  <2> SUFFICES ASSUME NEW u \in Threads, pc'[u] \in {"stamp", "remember", "waitGate", "transferGate"}
               PROVE  /\ pc'[u] \in {"waitGate", "transferGate"} => track'[u] = MicTrack
                      /\ track'[u] = MicTrack => reg'[MicTrack] = level'[u]
    BY DEF MicInHand
  <2>1. pc'[u] = pc[u] /\ track'[u] = track[u] /\ level'[u] = level[u]
    BY <1>2 DEF InHandPc
  <2>2. track[u] \in Tracks
    BY DEF MixTypeOK, LevelTypeOK
  <2>3. QED
    BY <2>1, <2>2 DEF WritesInOrder, MicInHand
<1>6. MicPairOnItsWay'
  <2>1. CASE gateCut \/ GateAgrees
    BY <2>1 DEF MicPairOnItsWay, GateAgrees
  <2>2. CASE \E u \in Threads : /\ pc[u] \in {"stamp", "remember", "waitGate", "transferGate"}
                                /\ track[u] = MicTrack
    BY <1>1, <2>2 DEF MicPairOnItsWay, InHandPc
  <2>3. QED
    BY <2>1, <2>2 DEF WritesInOrder, MicPairOnItsWay
<1>7. QED
  BY <1>3, <1>4, <1>5, <1>6 DEF WritesInOrder

\* The microphone's level is not copied with the playback tracks.
LEMMA MicIsNotCopied ==
  ASSUME NEW v, MicTrack \in Tracks
  PROVE  Collapsed(reg, v)[MicTrack] = reg[MicTrack]
  BY DEF Collapsed, MicTrack, Playback

\* A step inside setLevel: its thread is the only one that is there.
LEMMA SetLevelInOrder ==
  ASSUME MixTypeOK, PaceOwned, WritesInOrder,
         NEW t \in Threads, SetLevelStep(t), UNCHANGED mixVars
  PROVE  WritesInOrder'
<1> USE LevelAssumption
<1>1. CASE TakePace(t)
  BY <1>1, WritesStand DEF TakePace, MixPc, LevelPc, WritePc, InHandPc
<1>2. CASE ~TakePace(t)
  <2> DEFINE Others == \A u \in Threads \ {t} : pc[u] \notin InHandPc /\ pc'[u] \notin InHandPc
  <2>1. PICK l \in WritePc : Goto(t, l)
    BY SetLevelTypeOK
  <2>2. pc[t] \in HoldingPc
    BY <1>2 DEF SetLevelStep, WaitForGap, LandLevel, LoseLevel, Stamp, Remember,
       LandGate, LoseGate, HoldingPc, WritePc
  <2>3. Others
    <3>1. \A u \in Threads \ {t} : pc[u] \notin HoldingPc /\ pc'[u] = pc[u]
      BY <2>1, <2>2 DEF PaceOwned, Goto, MixTypeOK
    <3>2. QED
      BY <3>1 DEF InHandPc, HoldingPc, WritePc
  <2>4. pc'[t] = l /\ UNCHANGED <<track, level>>
    <3>1. UNCHANGED <<track, level>>
      BY <1>2 DEF SetLevelStep, WaitForGap, LandLevel, LoseLevel, Stamp, Remember,
         LandGate, LoseGate
    <3>2. QED
      BY <2>1, <3>1 DEF Goto, MixTypeOK
  <2>5. /\ stampAge \in 0 .. Gap /\ landedAge \in 0 .. Gap /\ Gap \in Nat
        /\ track[t] \in Tracks
    BY DEF MixTypeOK, LevelTypeOK
  <2> HIDE DEF Others
  <2>6. StampCoversLanding'
    <3>1. CASE Stamp(t)
      BY <2>5, <3>1 DEF Stamp, StampCoversLanding
    <3>2. CASE LandLevel(t) \/ LandGate(t)
      <4>1. pc'[t] \in {"stamp", "stampGate"}
        BY <3>2 DEF LandLevel, LandGate, Goto, MixTypeOK
      <4>2. QED
        BY <4>1 DEF StampCoversLanding
    <3>3. CASE WaitForGap(t) \/ LoseLevel(t) \/ Remember(t) \/ LoseGate(t)
      <4>1. UNCHANGED <<stampAge, landedAge>> /\ pc[t] \notin {"stamp", "stampGate"}
        BY <3>3 DEF WaitForGap, LoseLevel, Remember, LoseGate
      <4>2. \A u \in Threads : pc[u] \notin {"stamp", "stampGate"}
        BY <2>3, <4>1 DEF Others, InHandPc
      <4>3. QED
        BY <4>1, <4>2 DEF WritesInOrder, StampCoversLanding
    <3>4. QED
      BY <1>2, <3>1, <3>2, <3>3 DEF SetLevelStep
  <2>7. GapWaitedFor'
    <3> SUFFICES ASSUME NEW u \in Threads, pc'[u] \in {"transfer", "transferGate"}
                 PROVE  stampAge' = Gap
      BY DEF GapWaitedFor
    <3>1. u = t
      BY <2>3 DEF Others, InHandPc
    <3>2. WaitForGap(t)
      BY <1>2, <3>1 DEF SetLevelStep, LandLevel, LoseLevel, Stamp, Remember, LandGate,
         LoseGate, Goto, MixTypeOK, AfterStamp, AfterRemember
    <3>3. QED
      BY <2>5, <3>2 DEF WaitForGap, GapGoneBy
  <2>8. MicInHand'
    <3> SUFFICES /\ pc'[t] \in {"waitGate", "transferGate"} => track[t] = MicTrack
                 /\ pc'[t] \in {"stamp", "remember", "waitGate", "transferGate"}
                      /\ track[t] = MicTrack => reg'[MicTrack] = level[t]
      BY <2>3, <2>4 DEF Others, MicInHand, InHandPc
    <3>1. CASE WaitForGap(t)
      BY <3>1 DEF WaitForGap, WritesInOrder, MicInHand, Goto, MixTypeOK
    <3>2. CASE LandLevel(t)
      <4>1. pc'[t] = "stamp" /\ reg' = [reg EXCEPT ![track[t]] = level[t]]
        BY <3>2 DEF LandLevel, Goto, MixTypeOK
      <4>2. QED
        BY <2>5, <4>1 DEF MixTypeOK, LevelTypeOK
    <3>3. CASE LoseLevel(t) \/ LandGate(t) \/ LoseGate(t)
      BY <3>3 DEF LoseLevel, LandGate, LoseGate, Goto, MixTypeOK
    <3>4. CASE Stamp(t)
      BY <3>4 DEF Stamp, AfterStamp, WritesInOrder, MicInHand, Goto, MixTypeOK
    <3>5. CASE Remember(t)
      BY <3>5 DEF Remember, AfterRemember, WritesInOrder, MicInHand, Goto, MixTypeOK
    <3>6. QED
      BY <1>2, <3>1, <3>2, <3>3, <3>4, <3>5 DEF SetLevelStep
  <2> DEFINE Mine == /\ pc[t] \in {"stamp", "remember", "waitGate", "transferGate"}
                     /\ track[t] = MicTrack
  <2>9. MicPairOnItsWay'
    <3>1. gateCut \/ GateAgrees \/ Mine
      BY <2>3 DEF WritesInOrder, MicPairOnItsWay, Others, InHandPc
    <3>2. SUFFICES gateCut' \/ GateAgrees' \/ Mine'
      BY DEF MicPairOnItsWay
    <3>3. CASE WaitForGap(t)
      BY <2>4, <3>1, <3>3 DEF WaitForGap, Goto, MixTypeOK, GateAgrees
    <3>4. CASE LandLevel(t)
      <4>1. pc'[t] = "stamp" /\ reg' = [reg EXCEPT ![track[t]] = level[t]]
            /\ UNCHANGED <<gate, gateCut>> /\ pc[t] = "transfer"
        BY <3>4 DEF LandLevel, Goto, MixTypeOK
      <4>2. CASE track[t] = MicTrack
        BY <2>4, <4>1, <4>2
      <4>3. CASE track[t] # MicTrack
        <5>1. MicTrack \in Tracks => reg'[MicTrack] = reg[MicTrack]
          BY <4>1, <4>3 DEF MixTypeOK, LevelTypeOK
        <5>2. QED
          BY <3>1, <4>1, <5>1 DEF GateAgrees
      <4>4. QED
        BY <4>2, <4>3
    <3>5. CASE LoseLevel(t)
      BY <3>1, <3>5 DEF LoseLevel, GateAgrees
    <3>6. CASE Stamp(t)
      <4>1. UNCHANGED <<gate, gateCut, reg>>
        BY <3>6 DEF Stamp
      <4>2. CASE Mine
        <5>1. pc[t] = "stamp" /\ pc'[t] = "remember"
          BY <3>6, <4>2 DEF Stamp, AfterStamp, Goto, MixTypeOK
        <5>2. QED
          BY <2>4, <4>2, <5>1
      <4>3. QED
        BY <3>1, <4>1, <4>2 DEF GateAgrees
    <3>7. CASE Remember(t)
      <4>1. UNCHANGED <<gate, gateCut, reg>>
        BY <3>7 DEF Remember
      <4>2. CASE Mine
        <5>1. pc'[t] = "waitGate"
          BY <3>7, <4>2 DEF Remember, AfterRemember, Goto, MixTypeOK
        <5>2. QED
          BY <2>4, <4>2, <5>1
      <4>3. QED
        BY <3>1, <4>1, <4>2 DEF GateAgrees
    <3>8. CASE LandGate(t)
      <4>1. gate' = level[t] /\ reg' = reg /\ reg[MicTrack] = level[t]
        BY <3>8 DEF LandGate, WritesInOrder, MicInHand
      <4>2. QED
        BY <4>1 DEF GateAgrees
    <3>9. CASE LoseGate(t)
      BY <3>9 DEF LoseGate
    <3>10. QED
      BY <1>2, <3>3, <3>4, <3>5, <3>6, <3>7, <3>8, <3>9 DEF SetLevelStep
  <2>10. QED
    BY <2>6, <2>7, <2>8, <2>9 DEF WritesInOrder
<1>3. QED
  BY <1>1, <1>2

\* The clock: both ages go on together and stop at the gap.
LEMMA TickInOrder ==
  ASSUME MixTypeOK, WritesInOrder, Tick
  PROVE  WritesInOrder'
<1> USE LevelAssumption
<1>1. /\ stampAge \in 0 .. Gap /\ landedAge \in 0 .. Gap /\ Gap \in Nat
      /\ stampAge' = Older(stampAge) /\ landedAge' = Older(landedAge)
      /\ UNCHANGED <<reg, gate, gateCut, pc, track, level>>
  BY DEF MixTypeOK, LevelTypeOK, Tick
<1>2. StampCoversLanding'
  BY <1>1 DEF WritesInOrder, StampCoversLanding, Older
<1>3. GapWaitedFor'
  BY <1>1 DEF WritesInOrder, GapWaitedFor, Older
<1>4. MicInHand' /\ MicPairOnItsWay'
  BY <1>1 DEF WritesInOrder, MicInHand, MicPairOnItsWay, GateAgrees
<1>5. QED
  BY <1>2, <1>3, <1>4 DEF WritesInOrder

\* A step of readLevels or of a selection, and what leads to them and away.
LEMMA AwayInOrder ==
  ASSUME MixTypeOK, WritesInOrder, NEW t \in Threads,
         NEW l \in SelectPc \cup AdoptPc \cup ReadPc \cup {"idle", "want", "poll", "dispatch", "pace"},
         Goto(t, l),
         pc[t] \in SelectPc \cup AdoptPc \cup ReadPc
                     \cup {"idle", "want", "poll", "dispatch", "return"},
         UNCHANGED <<stampAge, landedAge, gate, gateCut>>,
         MicTrack \in Tracks => reg'[MicTrack] = reg[MicTrack],
         \A u \in Threads \ {t} : track'[u] = track[u] /\ level'[u] = level[u]
  PROVE  WritesInOrder'
<1>1. l \in MixPc \ InHandPc /\ pc[t] \notin InHandPc
  BY DEF InHandPc, MixPc, LevelPc, WritePc, SelectPc, AdoptPc, ReadPc
<1>2. QED
  BY <1>1, WritesStand

LEMMA SelectInOrder ==
  ASSUME MixTypeOK, WritesInOrder, NEW t \in Threads, SelectStep(t)
  PROVE  WritesInOrder'
<1>1. PICK l \in SelectNextPc(t) : Goto(t, l)
  BY SelectTypeOK
<1>2. pc[t] \in SelectPc /\ UNCHANGED <<track, level>>
  BY SelectTypeOK
<1>3. l \in SelectPc \cup AdoptPc \cup ReadPc \cup {"idle", "want", "poll", "dispatch", "pace"}
  BY <1>1, <1>2 DEF SelectNextPc, ReadPc
<1>4. UNCHANGED <<stampAge, landedAge, gate, gateCut>>
  BY DEF SelectStep, LandFence, LandLed, LandSelector, LandRing, AssignMix,
     LoseSelect, AfterSelect, CallReadLevels, levelData
<1>5. MicTrack \in Tracks => reg'[MicTrack] = reg[MicTrack]
  <2>1. CASE LandLed(t)
    BY <2>1, MicIsNotCopied DEF LandLed
  <2>2. CASE ~LandLed(t)
    BY <2>2 DEF SelectStep, LandFence, LandSelector, LandRing, AssignMix,
       LoseSelect, AfterSelect, CallReadLevels, levelData
  <2>3. QED
    BY <2>1, <2>2
<1>6. QED
  BY <1>1, <1>2, <1>3, <1>4, <1>5, AwayInOrder

LEMMA NextWritesInOrder ==
  ASSUME MixTypeOK, PaceOwned, WritesInOrder, [MixNext]_allVars
  PROVE  WritesInOrder'
<1> USE NamesHold DEF Names
<1> DEFINE Away == SelectPc \cup AdoptPc \cup ReadPc \cup {"idle", "want", "poll", "dispatch"}
           Steady == /\ UNCHANGED <<stampAge, landedAge, gate, gateCut>>
                     /\ MicTrack \in Tracks => reg'[MicTrack] = reg[MicTrack]
           OnlyOf(t) == \A u \in Threads \ {t} : track'[u] = track[u] /\ level'[u] = level[u]
<1>1. CASE \E t \in Threads : SelectStep(t)
  BY <1>1, SelectInOrder
<1>2. CASE \E t \in Threads, m \in Mixes : StartsSelect(t, m)
  <2>1. PICK t \in Threads, m \in Mixes : StartsSelect(t, m)
    BY <1>2
  <2>2. Goto(t, "fenceOpen") /\ Steady /\ OnlyOf(t) /\ pc[t] \in Away /\ "fenceOpen" \in Away
    BY <2>1, StartSelectTypeOK DEF StartsSelect, levelData, SelectPc, AdoptPc
  <2>3. QED
    BY <2>2, AwayInOrder
<1>3. CASE \E t \in Gui : AskForReading(t)
  <2>1. PICK t \in Gui : AskForReading(t)
    BY <1>3
  <2>2. Goto(t, "idle") /\ Steady /\ OnlyOf(t) /\ pc[t] \in Away
    BY <2>1 DEF AskForReading, levelData
  <2>3. QED
    BY <2>2, AwayInOrder
<1>4. CASE AsksTheDeck \/ Settle \/ Reread \/ EndsReading
  <2>1. PICK l \in Away : Goto(Worker, l)
    BY <1>4 DEF AsksTheDeck, ReadMode, ReadModeFails, ReadSelectedMix, Settle, Reread,
       EndsReading, EndReadLevels, CallReadLevels, AdoptPc, ReadPc, Worker
  <2>2. Steady /\ OnlyOf(Worker) /\ pc[Worker] \in Away
    BY <1>4 DEF AsksTheDeck, ReadMode, ReadModeFails, ReadSelectedMix, Settle, Reread,
       EndsReading, EndReadLevels, CallReadLevels, AdoptPc, ReadPc, Worker, levelData
  <2>3. QED
    BY <2>1, <2>2, AwayInOrder
<1>5. CASE ReadStep
  <2>1. PICK l \in ReadPc : Goto(Worker, l)
    BY <1>5, ReadTypeOK
  <2>2. Steady /\ pc[Worker] \in ReadPc
    BY <1>5, ReadTypeOK DEF ReadStep, Fetch, FetchFails, Assign
  <2>3. OnlyOf(Worker)
    BY <1>5 DEF ReadStep, Fetch, FetchFails, Assign, Worker, MixTypeOK, LevelTypeOK
  <2>4. QED
    BY <2>1, <2>2, <2>3, AwayInOrder
<1>6. CASE WalksLoop
  <2>1. PICK l \in {"idle", "poll", "dispatch"} : Goto(Worker, l)
    BY <1>6 DEF WalksLoop
  <2>2. Steady /\ OnlyOf(Worker) /\ pc[Worker] \in Away
    BY <1>6 DEF WalksLoop, levelData
  <2>3. QED
    BY <2>1, <2>2, AwayInOrder
<1>7. CASE \E t \in Threads : StartsLevel(t)
  <2>1. PICK t \in Threads : StartsLevel(t)
    BY <1>7
  <2>2. Goto(t, "pace") /\ pc[t] \in Away
    BY <2>1, StartLevelTypeOK DEF StartsLevel
  <2>3. Steady /\ OnlyOf(t)
    BY <2>1 DEF StartsLevel, CallSetLevel, MixTypeOK, LevelTypeOK
  <2>4. QED
    BY <2>2, <2>3, AwayInOrder
<1>8. CASE \E t \in Threads : Returns(t)
  <2>1. PICK t \in Threads : Returns(t)
    BY <1>8
  <2>2. PICK l \in {"idle", "dispatch"} : Goto(t, l)
    BY <2>1, ReturnTypeOK
  <2>3. Steady /\ OnlyOf(t) /\ pc[t] = "return"
    BY <2>1 DEF Returns, ReturnTo, MixTypeOK, LevelTypeOK
  <2>4. QED
    BY <2>2, <2>3, AwayInOrder
<1>9. CASE \E t \in Threads : SetLevelStep(t) /\ UNCHANGED mixVars
  BY <1>9, SetLevelInOrder
<1>10. CASE Tick
  BY <1>10, TickInOrder
<1>11. CASE UNCHANGED allVars
  BY <1>11 DEF allVars, levelVars, WritesInOrder, StampCoversLanding, GapWaitedFor,
     MicInHand, MicPairOnItsWay, GateAgrees
<1>12. QED
  BY <1>1, <1>2, <1>3, <1>4, <1>5, <1>6, <1>7, <1>8, <1>9, <1>10, <1>11, StepKinds

LEMMA WritesStayInOrder == MixSpec => []WritesInOrder
<1>1. MixInit => WritesInOrder
  <2> SUFFICES ASSUME MixInit PROVE WritesInOrder
    OBVIOUS
  <2>1. \A t \in Threads : pc[t] \in {"readMode", "idle"}
    BY DEF MixInit
  <2>2. StampCoversLanding
    BY LevelAssumption DEF MixInit, LevelInit, StampCoversLanding
  <2>3. MicPairOnItsWay
    BY Zenon DEF MixInit, LevelInit, MicPairOnItsWay
  <2>4. QED
    BY <2>1, <2>2, <2>3 DEF WritesInOrder, GapWaitedFor, MicInHand
<1>2. MixInv /\ WritesInOrder /\ [MixNext]_allVars => WritesInOrder'
  BY NextWritesInOrder DEF MixInv
<1>3. QED
  BY <1>1, <1>2, MixInvariant, PTL DEF MixSpec

\* Turns, drags and selections of whatever threads: no two level writes land
\* closer together than the gap.
THEOREM MixerSpacing == MixSpec => []LevelWritesSpaced
<1>1. MixInv /\ WritesInOrder => LevelWritesSpaced
  <2> SUFFICES ASSUME MixInv, WritesInOrder, NEW t \in Threads,
                      pc[t] \in {"transfer", "transferGate"}
               PROVE  landedAge >= Gap
    BY DEF LevelWritesSpaced
  <2>1. \A u \in Threads : pc[u] \in HoldingPc => u = t
    BY DEF MixInv, PaceOwned, HoldingPc, WritePc
  <2>2. stampAge <= landedAge
    BY <2>1 DEF WritesInOrder, StampCoversLanding, HoldingPc, WritePc
  <2>3. QED
    BY <2>2, LevelAssumption DEF MixInv, MixTypeOK, LevelTypeOK, WritesInOrder, GapWaitedFor
<1>2. QED
  BY <1>1, MixInvariant, WritesStayInOrder, PTL

\* And the microphone's two registers stay a pair, over any switching of the
\* mixes.
THEOREM MixerMicPairing == MixSpec => []MicPairAgrees
<1>1. MixInv /\ WritesInOrder => MicPairAgrees
  <2> SUFFICES ASSUME MixInv, WritesInOrder, pace = NoThread, ~gateCut
               PROVE  GateAgrees
    BY DEF MicPairAgrees
  <2>1. \A u \in Threads : pc[u] \notin HoldingPc
    BY LevelAssumption DEF MixInv, PaceOwned
  <2>2. QED
    BY <2>1 DEF WritesInOrder, MicPairOnItsWay, HoldingPc, WritePc
<1>2. QED
  BY <1>1, MixInvariant, WritesStayInOrder, PTL

=============================================================================
