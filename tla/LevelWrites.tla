---------------------------- MODULE LevelWrites ----------------------------
(***************************************************************************)
(* The level registers of the deck, the driver's cache of them, and the    *)
(* two operations that move values between the two: Device::setLevel,      *)
(* called by any thread, and Device::readLevels, called by the thread that *)
(* polls the deck.                                                         *)
(*                                                                         *)
(* A step is what one critical section does.  A transfer is one step: it   *)
(* is made whole under _writeMutex, which nothing else is done under.  An  *)
(* access to the cache is one step: it is made under _stateMutex, which is *)
(* held for the assignment alone.  _paceMutex is held across steps and is  *)
(* the variable pace.                                                      *)
(***************************************************************************)
EXTENDS Integers, FiniteSets

CONSTANTS
  Threads,    \* the threads that call the driver
  Reader,     \* the one of them that polls the deck and runs readLevels
  NoThread,   \* nobody: the owner of a mutex that is free
  Knobs,      \* the knobs of the deck this instance has
  MaxSteps,   \* Level::MaxSteps, 20 on the deck
  Gap,        \* CommandGap in ticks of the clock, 10 ms in the code
  Faults      \* the kinds of transfer that may fail

AllKnobs == {"Mic", "LineIn", "Console", "System", "Game", "Chat"}

ASSUME LevelAssumption ==
  /\ Reader \in Threads
  /\ NoThread \notin Threads
  /\ Knobs \subseteq AllKnobs
  /\ Knobs # {}
  /\ MaxSteps \in Nat
  /\ Gap \in Nat
  /\ Faults \subseteq {"write", "read"}

Mixes   == {"Creator", "Audience"}
Tracks  == Mixes \X Knobs       \* one level register each: base + index
Steps   == 0 .. MaxSteps
NoLevel == -1                   \* std::nullopt in Device::_levels

\* The one track that takes two writes.
MicTrack == <<"Creator", "Mic">>

\* What arguments that went out of scope are reset to.
AnyTrack == CHOOSE e \in Tracks : TRUE

VARIABLES
  reg,        \* the deck: the level register of each track (0x27, 0x2e)
  gate,       \* the deck: KnobPropertyAt35
  levels,     \* Device::_levels
  pace,       \* who holds Device::_paceMutex
  pc,         \* where each thread is
  track,      \* the track each thread's call is about
  level,      \* the level its setLevel was given, or its read answered
  toRead,     \* the tracks the running readLevels has not asked for yet
  stampAge,   \* ticks since Device::_lastLevelWrite, up to Gap
  landedAge,  \* ticks since the deck took a level write, up to Gap
  passed,     \* a write landed on the reader's track after the deck answered
  overtaken,  \* the tracks last cached from an answer a write had passed
  gateCut     \* the last write of KnobPropertyAt35 did not land

levelVars == <<reg, gate, levels, pace, pc, track, level, toRead,
               stampAge, landedAge, passed, overtaken, gateCut>>

WritePc == {"pace", "wait", "transfer", "stamp", "stampFailed", "remember",
            "waitGate", "transferGate", "stampGate", "return"}
ReadPc  == {"fetch", "assign"}
LevelPc == {"idle"} \cup WritePc \cup ReadPc

LevelTypeOK ==
  /\ reg \in [Tracks -> Steps]
  /\ gate \in Steps
  /\ levels \in [Tracks -> Steps \cup {NoLevel}]
  /\ pace \in Threads \cup {NoThread}
  /\ track \in [Threads -> Tracks]
  /\ level \in [Threads -> Steps]
  /\ toRead \in SUBSET Tracks
  /\ stampAge \in 0 .. Gap
  /\ landedAge \in 0 .. Gap
  /\ passed \in BOOLEAN
  /\ overtaken \in SUBSET Tracks
  /\ gateCut \in BOOLEAN

\* Type correctness: the cache holds a step of the hardware's or nothing, and
\* every register a step.
TypeOK == LevelTypeOK /\ pc \in [Threads -> LevelPc]

GateAgrees == MicTrack \in Tracks => gate = reg[MicTrack]

\* The deck holds whatever it was left with; the driver has read nothing.  An
\* instance without the microphone has no use for its second register.
LevelInit ==
  /\ reg \in [Tracks -> Steps]
  /\ gate \in (IF MicTrack \in Tracks THEN Steps ELSE {0})
  /\ levels = [e \in Tracks |-> NoLevel]
  /\ pace = NoThread
  /\ track = [t \in Threads |-> AnyTrack]
  /\ level = [t \in Threads |-> 0]
  /\ toRead = {}
  /\ stampAge = Gap
  /\ landedAge = Gap
  /\ passed = FALSE
  /\ overtaken = {}
  /\ gateCut = ~GateAgrees

Init == LevelInit /\ pc = [t \in Threads |-> "idle"]

Goto(t, l) == pc' = [pc EXCEPT ![t] = l]

-----------------------------------------------------------------------------
(* setLevel.  The return address, back, is where the caller goes on.       *)

CallSetLevel(t, e, l) ==
  /\ track' = [track EXCEPT ![t] = e]
  /\ level' = [level EXCEPT ![t] = l]
  /\ Goto(t, "pace")
  /\ UNCHANGED <<reg, gate, levels, pace, toRead, stampAge, landedAge,
                 passed, overtaken, gateCut>>

\* Mutant: the sequence of writes is not under one lock.
PaceNotTaken == TRUE

PaceFree == pace = NoThread

\* std::lock_guard pacing { _paceMutex }
TakePace(t) ==
  /\ pc[t] = "pace"
  /\ PaceFree
  /\ pace' = t
  /\ Goto(t, "wait")
  /\ UNCHANGED <<reg, gate, levels, track, level, toRead, stampAge, landedAge,
                 passed, overtaken, gateCut>>

GapGoneBy == stampAge >= Gap

\* writeLevelSpaced up to the transfer: what is left of the gap is slept.
WaitForGap(t) ==
  /\ pc[t] \in {"wait", "waitGate"}
  /\ GapGoneBy
  /\ Goto(t, IF pc[t] = "wait" THEN "transfer" ELSE "transferGate")
  /\ UNCHANGED <<reg, gate, levels, pace, track, level, toRead, stampAge,
                 landedAge, passed, overtaken, gateCut>>

\* The deck takes the level.
LandLevel(t) ==
  /\ pc[t] = "transfer"
  /\ reg' = [reg EXCEPT ![track[t]] = level[t]]
  /\ landedAge' = 0
  /\ passed' = (passed \/ (pc[Reader] = "assign" /\ track[Reader] = track[t]))
  /\ Goto(t, "stamp")
  /\ UNCHANGED <<gate, levels, pace, track, level, toRead, stampAge,
                 overtaken, gateCut>>

\* The transfer fails, or the handle is closed: the register is not reached.
LoseLevel(t) ==
  /\ pc[t] = "transfer"
  /\ "write" \in Faults
  /\ Goto(t, "stampFailed")
  /\ UNCHANGED <<reg, gate, levels, pace, track, level, toRead, stampAge,
                 landedAge, passed, overtaken, gateCut>>

\* Mutant: a level is remembered whether or not its write landed.
RememberLost(l) == IF l = "stampGate" THEN "return" ELSE "remember"

\* Only a level that landed is remembered.
AfterStamp(l) == IF l = "stamp" THEN "remember" ELSE "return"

\* The stamp is taken once the transfer is over, landed or not.
Stamp(t) ==
  /\ pc[t] \in {"stamp", "stampFailed", "stampGate"}
  /\ stampAge' = 0
  /\ Goto(t, AfterStamp(pc[t]))
  /\ UNCHANGED <<reg, gate, levels, pace, track, level, toRead, landedAge,
                 passed, overtaken, gateCut>>

\* Mutant: the microphone takes one write like any other track.
OneWriteEach(e) == "return"

\* The creator mix's microphone level is written to KnobPropertyAt35 as well.
AfterRemember(e) == IF e = MicTrack THEN "waitGate" ELSE "return"

\* _levels takes the level, before the second write the microphone needs.
Remember(t) ==
  /\ pc[t] = "remember"
  /\ levels' = [levels EXCEPT ![track[t]] = level[t]]
  /\ overtaken' = overtaken \ {track[t]}
  /\ Goto(t, AfterRemember(track[t]))
  /\ UNCHANGED <<reg, gate, pace, track, level, toRead, stampAge, landedAge,
                 passed, gateCut>>

LandGate(t) ==
  /\ pc[t] = "transferGate"
  /\ gate' = level[t]
  /\ landedAge' = 0
  /\ gateCut' = FALSE
  /\ Goto(t, "stampGate")
  /\ UNCHANGED <<reg, levels, pace, track, level, toRead, stampAge, passed,
                 overtaken>>

LoseGate(t) ==
  /\ pc[t] = "transferGate"
  /\ "write" \in Faults
  /\ gateCut' = TRUE
  /\ Goto(t, "stampGate")
  /\ UNCHANGED <<reg, gate, levels, pace, track, level, toRead, stampAge,
                 landedAge, passed, overtaken>>

\* setLevel returns to `back`, and the guard on _paceMutex goes.
ReturnTo(t, back) ==
  /\ pc[t] = "return"
  /\ pace' = NoThread
  /\ track' = [track EXCEPT ![t] = AnyTrack]
  /\ level' = [level EXCEPT ![t] = 0]
  /\ Goto(t, back)
  /\ UNCHANGED <<reg, gate, levels, toRead, stampAge, landedAge, passed,
                 overtaken, gateCut>>

\* One thread's next step inside setLevel, its return apart.
SetLevelStep(t) ==
  \/ TakePace(t)
  \/ WaitForGap(t)
  \/ LandLevel(t)
  \/ LoseLevel(t)
  \/ Stamp(t)
  \/ Remember(t)
  \/ LandGate(t)
  \/ LoseGate(t)

-----------------------------------------------------------------------------
(* readLevels.  The code asks mix by mix and knob by knob; the tracks do   *)
(* not depend on one another and the model asks in any order.              *)

CallReadLevels ==
  /\ toRead' = Tracks
  /\ Goto(Reader, "fetch")
  /\ UNCHANGED <<reg, gate, levels, pace, track, level, stampAge, landedAge,
                 passed, overtaken, gateCut>>

\* readProperty answers: request and reply are one critical section.
Fetch(e) ==
  /\ pc[Reader] = "fetch"
  /\ e \in toRead
  /\ toRead' = toRead \ {e}
  /\ track' = [track EXCEPT ![Reader] = e]
  /\ level' = [level EXCEPT ![Reader] = reg[e]]
  /\ passed' = FALSE
  /\ Goto(Reader, "assign")
  /\ UNCHANGED <<reg, gate, levels, pace, stampAge, landedAge, overtaken,
                 gateCut>>

\* Mutant: the values of a reply that did not come are recorded.
RecordNoAnswer(e) ==
  /\ pc[Reader] = "fetch"
  /\ "read" \in Faults
  /\ e \in toRead
  /\ toRead' = toRead \ {e}
  /\ track' = [track EXCEPT ![Reader] = e]
  /\ level' = [level EXCEPT ![Reader] = NoLevel]
  /\ Goto(Reader, "assign")
  /\ UNCHANGED <<reg, gate, levels, pace, stampAge, landedAge, passed,
                 overtaken, gateCut>>

\* readProperty fails: the track keeps what it had and the rest are attempted.
FetchFails(e) ==
  /\ pc[Reader] = "fetch"
  /\ "read" \in Faults
  /\ e \in toRead
  /\ toRead' = toRead \ {e}
  /\ UNCHANGED <<reg, gate, levels, pace, pc, track, level, stampAge,
                 landedAge, passed, overtaken, gateCut>>

\* The answer is recorded, in a critical section of its own.
Assign ==
  /\ pc[Reader] = "assign"
  /\ levels' = [levels EXCEPT ![track[Reader]] = level[Reader]]
  /\ overtaken' = IF passed THEN overtaken \cup {track[Reader]}
                            ELSE overtaken \ {track[Reader]}
  /\ track' = [track EXCEPT ![Reader] = AnyTrack]
  /\ level' = [level EXCEPT ![Reader] = 0]
  /\ passed' = FALSE
  /\ Goto(Reader, "fetch")
  /\ UNCHANGED <<reg, gate, pace, toRead, stampAge, landedAge, gateCut>>

EndReadLevels(back) ==
  /\ pc[Reader] = "fetch"
  /\ toRead = {}
  /\ Goto(Reader, back)
  /\ UNCHANGED <<reg, gate, levels, pace, track, level, toRead, stampAge,
                 landedAge, passed, overtaken, gateCut>>

ReadLevelsStep ==
  \/ \E e \in Tracks : Fetch(e)
  \/ \E e \in Tracks : FetchFails(e)
  \/ Assign

-----------------------------------------------------------------------------

Older(age) == IF age < Gap THEN age + 1 ELSE Gap

\* The clock; ages stop at Gap, beyond which no code tells them apart.
Tick ==
  /\ stampAge < Gap \/ landedAge < Gap
  /\ stampAge' = Older(stampAge)
  /\ landedAge' = Older(landedAge)
  /\ UNCHANGED <<reg, gate, levels, pace, pc, track, level, toRead, passed,
                 overtaken, gateCut>>

SetLevel(t) ==
  /\ pc[t] = "idle"
  /\ \E e \in Tracks, l \in Steps : CallSetLevel(t, e, l)

ReadLevels ==
  /\ pc[Reader] = "idle"
  /\ CallReadLevels

\* What a thread does once it has called.
Progress(t) ==
  \/ SetLevelStep(t)
  \/ ReturnTo(t, "idle")
  \/ t = Reader /\ (ReadLevelsStep \/ EndReadLevels("idle"))

Next ==
  \/ \E t \in Threads : SetLevel(t) \/ Progress(t)
  \/ ReadLevels
  \/ Tick

Spec == Init /\ [][Next]_levelVars

-----------------------------------------------------------------------------
(* Properties.                                                             *)

\* A thread that holds a level in its hands: the deck has it, _levels not yet.
Recording(t, e) == pc[t] \in {"stamp", "remember"} /\ track[t] = e

\* The cache and the registers.  Outside the moment between a write landing
\* and its being recorded, a level the driver holds is the level the deck
\* holds, but for the tracks whose last reading was passed by a write: the
\* order setLevel's writes land in is the order they are recorded in.
CacheAgrees ==
  \A e \in Tracks :
    \/ levels[e] = NoLevel
    \/ levels[e] = reg[e]
    \/ e \in overtaken
    \/ \E t \in Threads : Recording(t, e)

\* Two level writes never land closer together than the gap the deck needs,
\* whichever threads make them: a thread whose transfer may land now finds the
\* last landing at least Gap ago.
LevelWritesSpaced ==
  \A t \in Threads :
    pc[t] \in {"transfer", "transferGate"} => landedAge >= Gap

\* The microphone's two registers are written as a pair.  While no setLevel
\* runs they hold the same level, unless the second write of the last pair was
\* lost: two callers never leave one's level beside the other's.
MicPairAgrees == pace = NoThread /\ ~gateCut => GateAgrees

-----------------------------------------------------------------------------
(* The inductive invariant behind them.                                    *)

\* The places where a thread holds _paceMutex.
HoldingPc == WritePc \ {"pace"}

\* The mutex is held by exactly the thread that is between taking and
\* returning it.
PaceOwned == \A t \in Threads : pc[t] \in HoldingPc <=> pace = t

\* From the landing on, the register holds the level of the thread that wrote
\* it, and only the microphone's call reaches the second write.
WriterSeesRegister ==
  \A t \in Threads :
    /\ pc[t] \in {"stamp", "remember", "waitGate", "transferGate"}
         => reg[track[t]] = level[t]
    /\ pc[t] \in {"waitGate", "transferGate"} => track[t] = MicTrack

\* An answer no write has passed is still what the register holds.
ReaderSeesRegister ==
  pc[Reader] = "assign" /\ ~passed => level[Reader] = reg[track[Reader]]

\* The stamp is never older than the landing it stands for, once taken.
StampCoversLanding ==
  \/ stampAge <= landedAge
  \/ \E t \in Threads : pc[t] \in {"stamp", "stampGate"}

GapWaitedFor ==
  \A t \in Threads : pc[t] \in {"transfer", "transferGate"} => stampAge = Gap

\* The pair is whole, cut by a lost write, or on its way.
MicPairOnItsWay ==
  \/ gateCut
  \/ GateAgrees
  \/ \E t \in Threads :
       /\ pc[t] \in {"stamp", "remember", "waitGate", "transferGate"}
       /\ track[t] = MicTrack

IInv ==
  /\ TypeOK
  /\ PaceOwned
  /\ WriterSeesRegister
  /\ ReaderSeesRegister
  /\ StampCoversLanding
  /\ GapWaitedFor
  /\ MicPairOnItsWay
  /\ CacheAgrees

=============================================================================
