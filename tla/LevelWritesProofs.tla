-------------------------- MODULE LevelWritesProofs --------------------------
(* What LevelWrites promises for every set of threads, every set of knobs,  *)
(* every number of steps and every gap.                                     *)
EXTENDS LevelWrites, TLAPS

\* There is a track: the arguments of a call that is over are one.
LEMMA AnyTrackIsATrack == AnyTrack \in Tracks
<1>1. PICK k \in Knobs : TRUE
  BY LevelAssumption
<1>2. <<"Creator", k>> \in Tracks
  BY <1>1 DEF Tracks, Mixes
<1>3. QED
  BY <1>2 DEF AnyTrack

LEMMA InitIInv == Init => IInv
<1> SUFFICES ASSUME Init PROVE IInv
  OBVIOUS
<1> USE LevelAssumption, AnyTrackIsATrack DEF Init, LevelInit
<1>1. TypeOK
  <2>1. gateCut \in BOOLEAN
    OBVIOUS
  <2>2. 0 \in Steps /\ Gap \in 0 .. Gap /\ "idle" \in LevelPc
    BY DEF Steps, LevelPc
  <2>3. QED
    BY <2>1, <2>2 DEF TypeOK, LevelTypeOK
<1>2. PaceOwned
  BY DEF PaceOwned, HoldingPc, WritePc
<1>3. MicPairOnItsWay
  BY Zenon DEF MicPairOnItsWay
<1>4. StampCoversLanding
  BY DEF StampCoversLanding
<1>5. WriterSeesRegister /\ ReaderSeesRegister /\ GapWaitedFor /\ CacheAgrees
  BY DEF WriterSeesRegister, ReaderSeesRegister, GapWaitedFor, CacheAgrees
<1>6. QED
  BY <1>1, <1>2, <1>3, <1>4, <1>5 DEF IInv

\* A call begins: only the caller's arguments and place change.
LEMMA CallSetLevelIInv ==
  ASSUME NEW t \in Threads, NEW e \in Tracks, NEW l \in Steps, IInv, CallSetLevel(t, e, l), pc[t] = "idle"
  PROVE  IInv'
<1> USE LevelAssumption, AnyTrackIsATrack DEF IInv, TypeOK, LevelTypeOK,
     LevelPc, WritePc, ReadPc, CallSetLevel, Goto
<1>1. TypeOK'
  OBVIOUS
<1>2. PaceOwned'
  BY DEF PaceOwned, HoldingPc
<1>3. WriterSeesRegister'
  BY DEF PaceOwned, HoldingPc, WriterSeesRegister
<1>4. ReaderSeesRegister'
  BY DEF ReaderSeesRegister
<1>5. StampCoversLanding'
  BY DEF StampCoversLanding
<1>6. GapWaitedFor'
  BY DEF PaceOwned, HoldingPc, GapWaitedFor
<1>7. MicPairOnItsWay'
  BY DEF MicPairOnItsWay, GateAgrees
<1>8. CacheAgrees'
  BY DEF CacheAgrees, Recording
<1>9. QED
  BY <1>1, <1>2, <1>3, <1>4, <1>5, <1>6, <1>7, <1>8

\* The mutex goes to a thread when it is free, so nobody else was holding it.
LEMMA TakePaceIInv ==
  ASSUME NEW t \in Threads, IInv, TakePace(t)
  PROVE  IInv'
<1> USE LevelAssumption, AnyTrackIsATrack DEF IInv, TypeOK, LevelTypeOK,
     PaceFree, LevelPc, WritePc, ReadPc, TakePace, Goto
<1>1. TypeOK'
  OBVIOUS
<1>2. PaceOwned'
  BY DEF PaceOwned, HoldingPc
<1>3. WriterSeesRegister'
  BY DEF PaceOwned, HoldingPc, WriterSeesRegister
<1>4. ReaderSeesRegister'
  BY DEF ReaderSeesRegister
<1>5. StampCoversLanding'
  BY DEF StampCoversLanding
<1>6. GapWaitedFor'
  BY DEF PaceOwned, HoldingPc, GapWaitedFor
<1>7. MicPairOnItsWay'
  BY DEF MicPairOnItsWay, GateAgrees
<1>8. CacheAgrees'
  BY DEF CacheAgrees, Recording
<1>9. QED
  BY <1>1, <1>2, <1>3, <1>4, <1>5, <1>6, <1>7, <1>8

\* A thread leaves the wait when the stamp is Gap old.
LEMMA WaitForGapIInv ==
  ASSUME NEW t \in Threads, IInv, WaitForGap(t)
  PROVE  IInv'
<1> USE LevelAssumption, AnyTrackIsATrack DEF IInv, TypeOK, LevelTypeOK,
     GapGoneBy, LevelPc, WritePc, ReadPc, WaitForGap, Goto
<1>1. TypeOK'
  OBVIOUS
<1>2. PaceOwned'
  BY DEF PaceOwned, HoldingPc
<1>3. WriterSeesRegister'
  BY DEF PaceOwned, HoldingPc, WriterSeesRegister
<1>4. ReaderSeesRegister'
  BY DEF ReaderSeesRegister
<1>5. StampCoversLanding'
  BY DEF StampCoversLanding
<1>6. GapWaitedFor'
  BY DEF PaceOwned, HoldingPc, GapWaitedFor
<1>7. MicPairOnItsWay'
  BY DEF MicPairOnItsWay, GateAgrees
<1>8. CacheAgrees'
  BY DEF CacheAgrees, Recording
<1>9. QED
  BY <1>1, <1>2, <1>3, <1>4, <1>5, <1>6, <1>7, <1>8

\* A level lands: the writer is the only holder, so no other thread is between
\* a landing and its record.
LEMMA LandLevelIInv ==
  ASSUME NEW t \in Threads, IInv, LandLevel(t)
  PROVE  IInv'
<1> USE LevelAssumption, AnyTrackIsATrack DEF IInv, TypeOK, LevelTypeOK,
     LevelPc, WritePc, ReadPc, LandLevel, Goto
<1>1. TypeOK'
  OBVIOUS
<1>2. PaceOwned'
  BY DEF PaceOwned, HoldingPc
<1>3. WriterSeesRegister'
  BY DEF PaceOwned, HoldingPc, WriterSeesRegister
<1>4. ReaderSeesRegister'
  BY DEF ReaderSeesRegister, PaceOwned, HoldingPc
<1>5. StampCoversLanding'
  BY DEF StampCoversLanding
<1>6. GapWaitedFor'
  BY DEF PaceOwned, HoldingPc, GapWaitedFor
<1>7. MicPairOnItsWay'
  BY DEF MicPairOnItsWay, GateAgrees, PaceOwned, HoldingPc
<1>8. CacheAgrees'
  BY DEF CacheAgrees, Recording, PaceOwned, HoldingPc
<1>9. QED
  BY <1>1, <1>2, <1>3, <1>4, <1>5, <1>6, <1>7, <1>8

\* A level is lost: nothing but the writer's place changes.
LEMMA LoseLevelIInv ==
  ASSUME NEW t \in Threads, IInv, LoseLevel(t)
  PROVE  IInv'
<1> USE LevelAssumption, AnyTrackIsATrack DEF IInv, TypeOK, LevelTypeOK,
     LevelPc, WritePc, ReadPc, LoseLevel, Goto
<1>1. TypeOK'
  OBVIOUS
<1>2. PaceOwned'
  BY DEF PaceOwned, HoldingPc
<1>3. WriterSeesRegister'
  BY DEF PaceOwned, HoldingPc, WriterSeesRegister
<1>4. ReaderSeesRegister'
  BY DEF ReaderSeesRegister
<1>5. StampCoversLanding'
  BY DEF StampCoversLanding
<1>6. GapWaitedFor'
  BY DEF PaceOwned, HoldingPc, GapWaitedFor
<1>7. MicPairOnItsWay'
  BY DEF MicPairOnItsWay, GateAgrees
<1>8. CacheAgrees'
  BY DEF CacheAgrees, Recording
<1>9. QED
  BY <1>1, <1>2, <1>3, <1>4, <1>5, <1>6, <1>7, <1>8

\* The stamp starts over, which no landing can be younger than.
LEMMA StampIInv ==
  ASSUME NEW t \in Threads, IInv, Stamp(t)
  PROVE  IInv'
<1> USE LevelAssumption, AnyTrackIsATrack DEF IInv, TypeOK, LevelTypeOK,
     AfterStamp, LevelPc, WritePc, ReadPc, Stamp, Goto
<1>1. TypeOK'
  OBVIOUS
<1>2. PaceOwned'
  BY DEF PaceOwned, HoldingPc
<1>3. WriterSeesRegister'
  BY DEF PaceOwned, HoldingPc, WriterSeesRegister
<1>4. ReaderSeesRegister'
  BY DEF ReaderSeesRegister
<1>5. StampCoversLanding'
  BY DEF StampCoversLanding
<1>6. GapWaitedFor'
  BY DEF PaceOwned, HoldingPc, GapWaitedFor
<1>7. MicPairOnItsWay'
  BY DEF MicPairOnItsWay, GateAgrees
<1>8. CacheAgrees'
  BY DEF CacheAgrees, Recording
<1>9. QED
  BY <1>1, <1>2, <1>3, <1>4, <1>5, <1>6, <1>7, <1>8

\* The cache takes the level the register already has.
LEMMA RememberIInv ==
  ASSUME NEW t \in Threads, IInv, Remember(t)
  PROVE  IInv'
<1> USE LevelAssumption, AnyTrackIsATrack DEF IInv, TypeOK, LevelTypeOK,
     AfterRemember, LevelPc, WritePc, ReadPc, Remember, Goto
<1>1. TypeOK'
  OBVIOUS
<1>2. PaceOwned'
  BY DEF PaceOwned, HoldingPc
<1>3. WriterSeesRegister'
  BY DEF PaceOwned, HoldingPc, WriterSeesRegister
<1>4. ReaderSeesRegister'
  BY DEF ReaderSeesRegister
<1>5. StampCoversLanding'
  BY DEF StampCoversLanding
<1>6. GapWaitedFor'
  BY DEF PaceOwned, HoldingPc, GapWaitedFor
<1>7. MicPairOnItsWay'
  BY DEF MicPairOnItsWay, GateAgrees
<1>8. CacheAgrees'
  BY DEF CacheAgrees, Recording, WriterSeesRegister
<1>9. QED
  BY <1>1, <1>2, <1>3, <1>4, <1>5, <1>6, <1>7, <1>8

\* The second register takes the level the first one has: the pair is whole.
LEMMA LandGateIInv ==
  ASSUME NEW t \in Threads, IInv, LandGate(t)
  PROVE  IInv'
<1> USE LevelAssumption, AnyTrackIsATrack DEF IInv, TypeOK, LevelTypeOK,
     LevelPc, WritePc, ReadPc, LandGate, Goto
<1>1. TypeOK'
  <2>1. pc' \in [Threads -> LevelPc]
    BY DEF LevelPc
  <2>2. gate' \in Steps /\ levels' \in [Tracks -> Steps \cup {NoLevel}]
    OBVIOUS
  <2>3. track' \in [Threads -> Tracks] /\ level' \in [Threads -> Steps]
    BY DEF Steps
  <2>4. landedAge' \in 0 .. Gap
    OBVIOUS
  <2>5. QED
    BY <2>1, <2>2, <2>3, <2>4
<1>2. PaceOwned'
  BY DEF PaceOwned, HoldingPc
<1>3. WriterSeesRegister'
  BY DEF PaceOwned, HoldingPc, WriterSeesRegister
<1>4. ReaderSeesRegister'
  BY DEF ReaderSeesRegister
<1>5. StampCoversLanding'
  BY DEF StampCoversLanding
<1>6. GapWaitedFor'
  BY DEF PaceOwned, HoldingPc, GapWaitedFor
<1>7. MicPairOnItsWay'
  BY DEF MicPairOnItsWay, GateAgrees, WriterSeesRegister
<1>8. CacheAgrees'
  BY DEF CacheAgrees, Recording
<1>9. QED
  BY <1>1, <1>2, <1>3, <1>4, <1>5, <1>6, <1>7, <1>8

\* The second write is lost, and the pair is known to be cut.
LEMMA LoseGateIInv ==
  ASSUME NEW t \in Threads, IInv, LoseGate(t)
  PROVE  IInv'
<1> USE LevelAssumption, AnyTrackIsATrack DEF IInv, TypeOK, LevelTypeOK,
     LevelPc, WritePc, ReadPc, LoseGate, Goto
<1>1. TypeOK'
  OBVIOUS
<1>2. PaceOwned'
  BY DEF PaceOwned, HoldingPc
<1>3. WriterSeesRegister'
  BY DEF PaceOwned, HoldingPc, WriterSeesRegister
<1>4. ReaderSeesRegister'
  BY DEF ReaderSeesRegister
<1>5. StampCoversLanding'
  BY DEF StampCoversLanding
<1>6. GapWaitedFor'
  BY DEF PaceOwned, HoldingPc, GapWaitedFor
<1>7. MicPairOnItsWay'
  BY DEF MicPairOnItsWay, GateAgrees
<1>8. CacheAgrees'
  BY DEF CacheAgrees, Recording
<1>9. QED
  BY <1>1, <1>2, <1>3, <1>4, <1>5, <1>6, <1>7, <1>8

\* The mutex is given back by the thread that holds it.
LEMMA ReturnToIInv ==
  ASSUME NEW t \in Threads, IInv, ReturnTo(t, "idle")
  PROVE  IInv'
<1> USE LevelAssumption, AnyTrackIsATrack DEF IInv, TypeOK, LevelTypeOK,
     LevelPc, WritePc, ReadPc, ReturnTo, Goto
<1>1. TypeOK'
  BY DEF Steps
<1>2. PaceOwned'
  BY DEF PaceOwned, HoldingPc
<1>3. WriterSeesRegister'
  BY DEF PaceOwned, HoldingPc, WriterSeesRegister
<1>4. ReaderSeesRegister'
  BY DEF ReaderSeesRegister
<1>5. StampCoversLanding'
  BY DEF StampCoversLanding
<1>6. GapWaitedFor'
  BY DEF PaceOwned, HoldingPc, GapWaitedFor
<1>7. MicPairOnItsWay'
  BY DEF MicPairOnItsWay, GateAgrees
<1>8. CacheAgrees'
  BY DEF CacheAgrees, Recording
<1>9. QED
  BY <1>1, <1>2, <1>3, <1>4, <1>5, <1>6, <1>7, <1>8

\* readLevels begins with every track to ask for.
LEMMA CallReadLevelsIInv ==
  ASSUME IInv, CallReadLevels, pc[Reader] = "idle"
  PROVE  IInv'
<1> USE LevelAssumption, AnyTrackIsATrack DEF IInv, TypeOK, LevelTypeOK,
     LevelPc, WritePc, ReadPc, CallReadLevels, Goto
<1>1. TypeOK'
  OBVIOUS
<1>2. PaceOwned'
  BY DEF PaceOwned, HoldingPc
<1>3. WriterSeesRegister'
  BY DEF PaceOwned, HoldingPc, WriterSeesRegister
<1>4. ReaderSeesRegister'
  BY DEF ReaderSeesRegister
<1>5. StampCoversLanding'
  BY DEF StampCoversLanding
<1>6. GapWaitedFor'
  BY DEF PaceOwned, HoldingPc, GapWaitedFor
<1>7. MicPairOnItsWay'
  BY DEF MicPairOnItsWay, GateAgrees
<1>8. CacheAgrees'
  BY DEF CacheAgrees, Recording
<1>9. QED
  BY <1>1, <1>2, <1>3, <1>4, <1>5, <1>6, <1>7, <1>8

\* The deck answers with what the register holds.
LEMMA FetchIInv ==
  ASSUME NEW e \in Tracks, IInv, Fetch(e)
  PROVE  IInv'
<1> USE LevelAssumption, AnyTrackIsATrack DEF IInv, TypeOK, LevelTypeOK,
     LevelPc, WritePc, ReadPc, Fetch, Goto
<1>1. TypeOK'
  OBVIOUS
<1>2. PaceOwned'
  BY DEF PaceOwned, HoldingPc
<1>3. WriterSeesRegister'
  BY DEF PaceOwned, HoldingPc, WriterSeesRegister
<1>4. ReaderSeesRegister'
  BY DEF ReaderSeesRegister
<1>5. StampCoversLanding'
  BY DEF StampCoversLanding
<1>6. GapWaitedFor'
  BY DEF PaceOwned, HoldingPc, GapWaitedFor
<1>7. MicPairOnItsWay'
  BY DEF MicPairOnItsWay, GateAgrees
<1>8. CacheAgrees'
  BY DEF CacheAgrees, Recording
<1>9. QED
  BY <1>1, <1>2, <1>3, <1>4, <1>5, <1>6, <1>7, <1>8

\* A read that fails leaves everything but the list of tracks alone.
LEMMA FetchFailsIInv ==
  ASSUME NEW e \in Tracks, IInv, FetchFails(e)
  PROVE  IInv'
<1> USE LevelAssumption, AnyTrackIsATrack DEF IInv, TypeOK, LevelTypeOK,
     LevelPc, WritePc, ReadPc, FetchFails, Goto
<1>1. TypeOK'
  OBVIOUS
<1>2. PaceOwned'
  BY DEF PaceOwned, HoldingPc
<1>3. WriterSeesRegister'
  BY DEF PaceOwned, HoldingPc, WriterSeesRegister
<1>4. ReaderSeesRegister'
  BY DEF ReaderSeesRegister
<1>5. StampCoversLanding'
  BY DEF StampCoversLanding
<1>6. GapWaitedFor'
  BY DEF PaceOwned, HoldingPc, GapWaitedFor
<1>7. MicPairOnItsWay'
  BY DEF MicPairOnItsWay, GateAgrees
<1>8. CacheAgrees'
  BY DEF CacheAgrees, Recording
<1>9. QED
  BY <1>1, <1>2, <1>3, <1>4, <1>5, <1>6, <1>7, <1>8

\* The answer is cached: it is the register's value, or a write has passed it.
LEMMA AssignIInv ==
  ASSUME IInv, Assign
  PROVE  IInv'
<1> USE LevelAssumption, AnyTrackIsATrack DEF IInv, TypeOK, LevelTypeOK,
     LevelPc, WritePc, ReadPc, Assign, Goto
<1>1. TypeOK'
  <2>1. pc' \in [Threads -> LevelPc]
    BY DEF LevelPc
  <2>2. gate' \in Steps /\ levels' \in [Tracks -> Steps \cup {NoLevel}]
    OBVIOUS
  <2>3. track' \in [Threads -> Tracks] /\ level' \in [Threads -> Steps]
    BY DEF Steps
  <2>4. overtaken' \in SUBSET Tracks
    OBVIOUS
  <2>5. QED
    BY <2>1, <2>2, <2>3, <2>4
<1>2. PaceOwned'
  BY DEF PaceOwned, HoldingPc
<1>3. WriterSeesRegister'
  BY DEF PaceOwned, HoldingPc, WriterSeesRegister
<1>4. ReaderSeesRegister'
  BY DEF ReaderSeesRegister
<1>5. StampCoversLanding'
  BY DEF StampCoversLanding
<1>6. GapWaitedFor'
  BY DEF PaceOwned, HoldingPc, GapWaitedFor
<1>7. MicPairOnItsWay'
  BY DEF MicPairOnItsWay, GateAgrees
<1>8. CacheAgrees'
  BY DEF CacheAgrees, Recording, ReaderSeesRegister
<1>9. QED
  BY <1>1, <1>2, <1>3, <1>4, <1>5, <1>6, <1>7, <1>8

\* readLevels is over.
LEMMA EndReadLevelsIInv ==
  ASSUME IInv, EndReadLevels("idle")
  PROVE  IInv'
<1> USE LevelAssumption, AnyTrackIsATrack DEF IInv, TypeOK, LevelTypeOK,
     LevelPc, WritePc, ReadPc, EndReadLevels, Goto
<1>1. TypeOK'
  OBVIOUS
<1>2. PaceOwned'
  BY DEF PaceOwned, HoldingPc
<1>3. WriterSeesRegister'
  BY DEF PaceOwned, HoldingPc, WriterSeesRegister
<1>4. ReaderSeesRegister'
  BY DEF ReaderSeesRegister
<1>5. StampCoversLanding'
  BY DEF StampCoversLanding
<1>6. GapWaitedFor'
  BY DEF PaceOwned, HoldingPc, GapWaitedFor
<1>7. MicPairOnItsWay'
  BY DEF MicPairOnItsWay, GateAgrees
<1>8. CacheAgrees'
  BY DEF CacheAgrees, Recording
<1>9. QED
  BY <1>1, <1>2, <1>3, <1>4, <1>5, <1>6, <1>7, <1>8

\* Both ages grow together, up to the same bound.
LEMMA TickIInv ==
  ASSUME IInv, Tick
  PROVE  IInv'
<1> USE LevelAssumption, AnyTrackIsATrack DEF IInv, TypeOK, LevelTypeOK,
     LevelPc, WritePc, ReadPc, Tick, Older, Goto
<1>1. TypeOK'
  OBVIOUS
<1>2. PaceOwned'
  BY DEF PaceOwned, HoldingPc
<1>3. WriterSeesRegister'
  BY DEF PaceOwned, HoldingPc, WriterSeesRegister
<1>4. ReaderSeesRegister'
  BY DEF ReaderSeesRegister
<1>5. StampCoversLanding'
  BY DEF StampCoversLanding
<1>6. GapWaitedFor'
  BY DEF PaceOwned, HoldingPc, GapWaitedFor
<1>7. MicPairOnItsWay'
  BY DEF MicPairOnItsWay, GateAgrees
<1>8. CacheAgrees'
  BY DEF CacheAgrees, Recording
<1>9. QED
  BY <1>1, <1>2, <1>3, <1>4, <1>5, <1>6, <1>7, <1>8

-----------------------------------------------------------------------------

\* Every step of the specification keeps the inductive invariant.
LEMMA NextIInv == IInv /\ [Next]_levelVars => IInv'
<1> SUFFICES ASSUME IInv, [Next]_levelVars
             PROVE  IInv'
  OBVIOUS
<1>1. CASE \E t \in Threads : SetLevel(t)
  BY <1>1, CallSetLevelIInv DEF SetLevel
<1>2. ASSUME NEW t \in Threads, SetLevelStep(t)
      PROVE  IInv'
  BY <1>2, TakePaceIInv, WaitForGapIInv, LandLevelIInv, LoseLevelIInv,
     StampIInv, RememberIInv, LandGateIInv, LoseGateIInv DEF SetLevelStep
<1>3. ASSUME NEW t \in Threads, ReturnTo(t, "idle")
      PROVE  IInv'
  BY <1>3, ReturnToIInv
<1>4. CASE ReadLevelsStep \/ EndReadLevels("idle")
  BY <1>4, FetchIInv, FetchFailsIInv, AssignIInv, EndReadLevelsIInv
     DEF ReadLevelsStep
<1>5. CASE ReadLevels
  BY <1>5, CallReadLevelsIInv DEF ReadLevels
<1>6. CASE Tick
  BY <1>6, TickIInv
<1>7. CASE UNCHANGED levelVars
  BY <1>7 DEF levelVars, IInv, TypeOK, LevelTypeOK, PaceOwned,
     WriterSeesRegister, ReaderSeesRegister, StampCoversLanding, GapWaitedFor,
     MicPairOnItsWay, GateAgrees, CacheAgrees, Recording
<1>8. QED
  BY <1>1, <1>2, <1>3, <1>4, <1>5, <1>6, <1>7 DEF Next, Progress

\* The strengthened invariant holds in every reachable state: the ownership of
\* _paceMutex ties what a writer has on the wire to what it records.
THEOREM Inductive == Spec => []IInv
  BY InitIInv, NextIInv, PTL DEF Spec

\* Every variable keeps its type, whatever the threads interleave.
THEOREM TypeCorrect == Spec => []TypeOK
<1>1. IInv => TypeOK
  BY DEF IInv
<1>2. QED
  BY <1>1, Inductive, PTL

\* Device::_levels disagrees with the deck only while a write is being recorded
\* or where a write passed a reading (Device::setLevel, Device::readLevels).
THEOREM CacheAgreement == Spec => []CacheAgrees
<1>1. IInv => CacheAgrees
  BY DEF IInv
<1>2. QED
  BY <1>1, Inductive, PTL

\* The gap between two landings is never shorter than CommandGap, however many
\* threads write (Device::writeLevelSpaced under _paceMutex).
THEOREM Spacing == Spec => []LevelWritesSpaced
<1>1. IInv => LevelWritesSpaced
  <2> SUFFICES ASSUME IInv, NEW t \in Threads,
                      pc[t] \in {"transfer", "transferGate"}
               PROVE  landedAge >= Gap
    BY DEF LevelWritesSpaced
  <2>1. stampAge = Gap
    BY DEF IInv, GapWaitedFor
  <2>2. pace = t
    BY DEF IInv, PaceOwned, HoldingPc, WritePc
  <2>3. ~ \E u \in Threads : pc[u] \in {"stamp", "stampGate"}
    BY <2>2 DEF IInv, PaceOwned, HoldingPc, WritePc
  <2>4. QED
    BY <2>1, <2>3 DEF IInv, StampCoversLanding
<1>2. QED
  BY <1>1, Inductive, PTL

\* The microphone's two registers hold one caller's level whenever no setLevel
\* is running and the last pair was not cut by a lost write.
THEOREM MicPairing == Spec => []MicPairAgrees
<1>1. IInv => MicPairAgrees
  <2> SUFFICES ASSUME IInv, pace = NoThread, ~gateCut
               PROVE  GateAgrees
    BY DEF MicPairAgrees
  <2>1. \A t \in Threads : pc[t] \notin HoldingPc
    BY LevelAssumption DEF IInv, PaceOwned
  <2>2. QED
    BY <2>1 DEF IInv, MicPairOnItsWay, HoldingPc, WritePc
<1>2. QED
  BY <1>1, Inductive, PTL

=============================================================================
