---------------------------- MODULE PanelProofs ----------------------------
(***************************************************************************)
(* The frames, for any number of threads, looks and sizes of frame.  First *)
(* what the model of sendScreen promises: its invariant, that it           *)
(* implements FrameLine, and that a chunk has a handle to go through.      *)
(* Then what main() makes of it: one frame in flight, and a live view of   *)
(* the interface on the panel.                                             *)
(***************************************************************************)
EXTENDS Panel, SessionProofs

-----------------------------------------------------------------------------
(* sendScreen: the theorems of Screen.                                     *)

\* The counts of a frame are numbers.
LEMMA SizesAreNat == \A n \in Sizes \cup {0} : n \in Nat
  BY ScreenAssumption

LEMMA CountsAreNat ==
  ASSUME ScreenTypeOK, NEW s \in Senders
  PROVE  sent[s] \in Nat /\ size[s] \in Nat
<1>1. size[s] \in Sizes \cup {0} /\ sent[s] \in Nat
  BY DEF ScreenTypeOK
<1>2. QED
  BY <1>1, SizesAreNat

\* Nothing is being sent, and the deck has been sent nothing.
LEMMA InitFrameInv == ScreenInit => FrameInv
<1> SUFFICES ASSUME ScreenInit PROVE FrameInv
  OBVIOUS
<1> USE ScreenAssumption DEF ScreenInit, FramesInit, line!NoChunk, line!Chunk
<1>1. ScreenTypeOK
  BY DEF ScreenTypeOK
<1>2. ScreenOwned /\ LastIsMine /\ NothingSent
  BY DEF ScreenOwned, LastIsMine, NothingSent
<1>3. LastIsOver
  BY DEF LastIsOver, line!IsFinal
<1>4. QED
  BY <1>1, <1>2, <1>3 DEF FrameInv

\* The session never touches a frame; a failed handshake only marks senders.
LEMMA SessionKeepsFrames ==
  ASSUME Drive \/ Around
  PROVE  /\ UNCHANGED <<screen, place, size, sent, last, cut>>
         /\ write' = write
         /\ torn' = torn \/ torn' = torn \cup {s \in Senders : place[s] = "transfer"}
<1>1. CASE Drive
  BY <1>1 DEF Drive, Tear, frameVars
<1>2. CASE Around
  BY <1>2 DEF Around, frameVars
<1>3. QED
  BY <1>1, <1>2

LEMMA SessionFrameInv ==
  ASSUME FrameInv, Drive \/ Around
  PROVE  FrameInv'
<1>1. /\ UNCHANGED <<screen, place, size, sent, last, cut>>
      /\ write' = write
      /\ torn' \in SUBSET Senders
  BY SessionKeepsFrames DEF FrameInv, ScreenTypeOK
<1>2. ScreenTypeOK'
  BY <1>1 DEF FrameInv, ScreenTypeOK
<1>3. ScreenOwned' /\ LastIsMine' /\ LastIsOver' /\ NothingSent'
  BY <1>1 DEF FrameInv, ScreenOwned, LastIsMine, LastIsOver, NothingSent,
              line!IsFinal
<1>4. QED
  BY <1>2, <1>3 DEF FrameInv

\* A call takes nothing yet.
LEMMA CallFrameInv ==
  ASSUME FrameInv, NEW s \in Senders, Call(s)
  PROVE  FrameInv'
<1> USE DEF FrameInv, ScreenTypeOK, Call
<1>1. ScreenTypeOK'
  OBVIOUS
<1>2. screen # s
  BY DEF ScreenOwned
<1>3. ScreenOwned' /\ NothingSent'
  BY DEF ScreenOwned, NothingSent
<1>4. LastIsMine'
  BY <1>2 DEF LastIsMine
<1>5. LastIsOver'
  BY DEF LastIsOver
<1>6. QED
  BY <1>1, <1>3, <1>4, <1>5

\* The frame lock is taken when it is free: the frame before it is over.
LEMMA TakeFrameFrameInv ==
  ASSUME FrameInv, NEW s \in Senders, TakeFrame(s)
  PROVE  FrameInv'
<1> USE ScreenAssumption DEF FrameInv, ScreenTypeOK, TakeFrame, ScreenFree
<1>1. ScreenTypeOK'
  OBVIOUS
<1>2. ScreenOwned' /\ NothingSent'
  BY DEF ScreenOwned, NothingSent
<1>3. LastIsMine'
  <2>1. sent[s] = 0 /\ (cut \/ line!IsFinal(last)) /\ size[s] \in Nat
    BY DEF LastIsOver, NothingSent
  <2>2. sent' = sent /\ size' = size /\ cut' = cut /\ last' = last
    OBVIOUS
  <2>3. (cut \/ line!IsFinal(last))'
    BY <2>1, <2>2 DEF line!IsFinal
  <2>4. place'[s] = "chunk" /\ screen' = s
    OBVIOUS
  <2>5. QED
    BY <2>1, <2>2, <2>3, <2>4 DEF LastIsMine
<1>4. LastIsOver'
  BY DEF LastIsOver
<1>5. QED
  BY <1>1, <1>2, <1>3, <1>4

LEMMA TakeWriteFrameInv ==
  ASSUME FrameInv, NEW s \in Senders, TakeWrite(s)
  PROVE  FrameInv'
<1> USE ScreenAssumption DEF FrameInv, ScreenTypeOK, TakeWrite
<1>1. ScreenTypeOK'
  OBVIOUS
<1>2. ScreenOwned' /\ NothingSent'
  BY DEF ScreenOwned, NothingSent
<1>3. LastIsMine'
  BY DEF LastIsMine, line!IsFinal
<1>4. LastIsOver'
  BY DEF LastIsOver, line!IsFinal
<1>5. QED
  BY <1>1, <1>2, <1>3, <1>4

\* Only the holder of the frame lock is in a transfer, so the chunk that lands
\* is the next of the frame the deck is being sent.
LEMMA LandFrameInv ==
  ASSUME FrameInv, NEW s \in Senders, Land(s)
  PROVE  FrameInv'
<1> USE ScreenAssumption DEF FrameInv, ScreenTypeOK, Land
<1>1. ScreenTypeOK'
  <2>1. sent' \in [Senders -> Nat]
    OBVIOUS
  <2>2. last' \in [from : Senders \cup {Nobody}, size : Sizes \cup {0},
                   index : Nat]
    BY DEF line!Chunk
  <2>3. QED
    BY <2>1, <2>2
<1>2. screen = s
  BY DEF ScreenOwned
<1>3. ScreenOwned' /\ NothingSent'
  BY <1>2 DEF ScreenOwned, NothingSent
<1>4. LastIsMine'
  <2>1. sent[s] \in Nat /\ size[s] \in Nat /\ sent[s] < size[s]
    BY <1>2, CountsAreNat DEF LastIsMine
  <2>2. screen' = s /\ size' = size /\ place'[s] = "chunk"
    BY <1>2
  <2>3. sent'[s] = sent[s] + 1
    OBVIOUS
  <2>4. ~cut' /\ last' = line!Chunk(s, size'[s], sent'[s])
    BY <2>2, <2>3
  <2>5. sent'[s] <= size'[s] /\ sent'[s] > 0
    BY <2>1, <2>2, <2>3
  <2>6. LastIsMine' <=> /\ sent'[s] <= size'[s]
                        /\ place'[s] = "transfer" => sent'[s] < size'[s]
                        /\ sent'[s] > 0 =>
                             ~cut' /\ last' = line!Chunk(s, size'[s], sent'[s])
                        /\ sent'[s] = 0 => cut' \/ line!IsFinal(last')
    BY <2>2 DEF LastIsMine, line!IsFinal, line!Chunk
  <2>7. QED
    BY <2>2, <2>4, <2>5, <2>6
<1>5. LastIsOver'
  BY <1>2 DEF LastIsOver
<1>6. QED
  BY <1>1, <1>3, <1>4, <1>5

LEMMA StoppedFrameInv ==
  ASSUME FrameInv, NEW s \in Senders, Stopped(s)
  PROVE  FrameInv'
<1> USE ScreenAssumption DEF FrameInv, ScreenTypeOK, Stopped, Return
<1>1. ScreenTypeOK'
  OBVIOUS
<1>2. screen = s
  BY DEF ScreenOwned
<1>3. ScreenOwned' /\ NothingSent'
  BY <1>2 DEF ScreenOwned, NothingSent
<1>4. LastIsMine'
  BY DEF LastIsMine
<1>5. LastIsOver'
  <2>1. CASE sent[s] > 0
    BY <2>1 DEF LastIsOver
  <2>2. CASE sent[s] = 0
    BY <1>2, <2>2 DEF LastIsOver, LastIsMine, line!IsFinal
  <2>3. QED
    BY <2>1, <2>2
<1>6. QED
  BY <1>1, <1>3, <1>4, <1>5

LEMMA FinishFrameInv ==
  ASSUME FrameInv, NEW s \in Senders, Finish(s)
  PROVE  FrameInv'
<1> USE ScreenAssumption DEF FrameInv, ScreenTypeOK, Finish, Return
<1>1. ScreenTypeOK'
  OBVIOUS
<1>2. screen = s
  BY DEF ScreenOwned
<1>3. ScreenOwned' /\ NothingSent'
  BY <1>2 DEF ScreenOwned, NothingSent
<1>4. LastIsMine'
  BY DEF LastIsMine
<1>5. LastIsOver'
  <2>1. CASE sent[s] > 0
    BY <1>2, <2>1 DEF LastIsOver, LastIsMine, line!IsFinal, line!Chunk
  <2>2. CASE sent[s] = 0
    BY <1>2, <2>2 DEF LastIsOver, LastIsMine, line!IsFinal
  <2>3. QED
    BY <2>1, <2>2
<1>6. QED
  BY <1>1, <1>3, <1>4, <1>5

LEMMA NextFrameInv == FrameInv /\ [ScreenNext]_screenVars => FrameInv'
<1> SUFFICES ASSUME FrameInv, [ScreenNext]_screenVars PROVE FrameInv'
  OBVIOUS
<1>1. CASE Drive \/ Around
  BY <1>1, SessionFrameInv
<1>2. ASSUME NEW s \in Senders, Call(s) PROVE FrameInv'
  BY <1>2, CallFrameInv
<1>3. ASSUME NEW s \in Senders, Send(s) PROVE FrameInv'
  BY <1>3, TakeFrameFrameInv, TakeWriteFrameInv, LandFrameInv, StoppedFrameInv,
     FinishFrameInv DEF Send
<1>4. CASE UNCHANGED screenVars
  BY <1>4 DEF screenVars, frameVars, FrameInv, ScreenTypeOK, ScreenOwned,
              LastIsMine, LastIsOver, NothingSent, line!IsFinal
<1>5. QED
  BY <1>1, <1>2, <1>3, <1>4 DEF ScreenNext

\* The frame lock, the chunks sent and what the deck last took agree in every
\* reachable state, for any number of senders.
THEOREM FrameInvariant == ScreenSpec => []FrameInv
<1>1. QED
  BY InitFrameInv, NextFrameInv, PTL DEF ScreenSpec

-----------------------------------------------------------------------------
(* The implementation of FrameLine: the deck's last chunk is FrameLine's.  *)

\* A chunk that lands begins a frame or goes on with the one before it.
LEMMA LandIsBeginOrGoOn ==
  ASSUME FrameInv, NEW s \in Senders, Land(s)
  PROVE  line!LineNext
<1> USE ScreenAssumption DEF FrameInv, ScreenTypeOK, Land
<1>1. screen = s /\ sent[s] < size[s]
  BY DEF ScreenOwned, LastIsMine
<1>2. CASE sent[s] = 0
  <2>1. line!IsFinal(last) \/ cut
    BY <1>1, <1>2 DEF LastIsMine
  <2>2. size[s] \in Sizes \ {0}
    BY <1>1, <1>2
  <2>3. line!Begin(s, size[s])
    BY <1>2, <2>1 DEF line!Begin
  <2>4. QED
    BY <2>2, <2>3 DEF line!LineNext
<1>3. CASE sent[s] > 0
  <2>1. ~cut /\ last = line!Chunk(s, size[s], sent[s])
    BY <1>1, <1>3 DEF LastIsMine
  <2>2. line!GoOn
    BY <1>1, <2>1 DEF line!GoOn, line!IsFinal, line!Chunk
  <2>3. QED
    BY <2>2 DEF line!LineNext
<1>4. QED
  BY <1>2, <1>3

\* A frame that stops is given up if any of it went, and is nothing to the
\* deck if none did.
LEMMA StoppedIsGiveUp ==
  ASSUME FrameInv, NEW s \in Senders, Stopped(s)
  PROVE  line!LineNext \/ UNCHANGED <<last, cut>>
<1> USE DEF FrameInv, ScreenTypeOK, Stopped
<1>1. screen = s /\ sent[s] < size[s]
  BY DEF ScreenOwned, LastIsMine
<1>2. CASE sent[s] = 0
  BY <1>2
<1>3. CASE sent[s] > 0
  <2>1. last = line!Chunk(s, size[s], sent[s])
    BY <1>1, <1>3 DEF LastIsMine
  <2>2. last.index = sent[s] /\ last.size = size[s]
    BY <2>1 DEF line!Chunk
  <2>3. sent[s] \in Nat /\ size[s] \in Nat
    BY CountsAreNat
  <2>4. ~line!IsFinal(last)
    BY <1>1, <2>2, <2>3 DEF line!IsFinal
  <2>5. cut' = TRUE /\ last' = last
    BY <1>3
  <2>6. line!GiveUp
    BY <2>4, <2>5 DEF line!GiveUp
  <2>7. QED
    BY <2>6 DEF line!LineNext
<1>4. QED
  BY <1>2, <1>3

LEMMA SendersAreLineSteps ==
  ASSUME FrameInv, NEW s \in Senders, Call(s) \/ Send(s)
  PROVE  line!LineNext \/ UNCHANGED <<last, cut>>
<1>1. CASE Land(s)
  BY <1>1, LandIsBeginOrGoOn
<1>2. CASE Stopped(s)
  BY <1>2, StoppedIsGiveUp
<1>3. CASE Call(s) \/ TakeFrame(s) \/ TakeWrite(s) \/ Finish(s)
  BY <1>3 DEF Call, TakeFrame, TakeWrite, Finish
<1>4. QED
  BY <1>1, <1>2, <1>3 DEF Send

LEMMA ScreenStepsAreLineSteps ==
  FrameInv /\ [ScreenNext]_screenVars => [line!LineNext]_<<last, cut>>
<1> SUFFICES ASSUME FrameInv, [ScreenNext]_screenVars
             PROVE  line!LineNext \/ UNCHANGED <<last, cut>>
  OBVIOUS
<1>1. CASE Drive \/ Around
  BY <1>1, SessionKeepsFrames
<1>2. ASSUME NEW s \in Senders, Call(s) \/ Send(s)
      PROVE  line!LineNext \/ UNCHANGED <<last, cut>>
  BY <1>2, SendersAreLineSteps
<1>3. CASE UNCHANGED screenVars
  BY <1>3 DEF screenVars, frameVars
<1>4. QED
  BY <1>1, <1>2, <1>3 DEF ScreenNext

LEMMA ScreenInitIsLineInit == ScreenInit => line!LineInit
  BY DEF ScreenInit, FramesInit, line!LineInit

\* "One frame at a time, for the whole frame": for any number of threads
\* sending frames of any size, over any opening and closing of the deck and
\* any transfer that fails, the deck takes one frame after another.
THEOREM OneFrame == ScreenSpec => OneFrameAtATime
<1>1. QED
  BY ScreenInitIsLineInit, ScreenStepsAreLineSteps, FrameInvariant, PTL
     DEF ScreenSpec, OneFrameAtATime, line!LineSpec

-----------------------------------------------------------------------------
(* The handle under a chunk.                                               *)

\* A transfer of a frame is nothing to the session but a fault.
LEMMA FramesKeepControl ==
  ASSUME SessionControl, UNCHANGED <<deck, driver, where, snapshot, marks>>,
         UNCHANGED bounds \/ Fails
  PROVE  SessionControl'
<1>1. faults' \in 0 .. MaxFaults /\ unplugs' = unplugs /\ sets' = sets
  BY SessionAssumption DEF Fails, bounds, SessionControl, SessionTypeOK
<1>2. SessionTypeOK'
  BY <1>1 DEF SessionControl, SessionTypeOK, deck, driver, adopted,
     where, marks
<1>3. QED
  BY <1>2 DEF SessionControl, HandleFollowsState, HandleIsOwned, Connecting,
     StateFollowsPlace, StopFollowsWorker, InTable, driver, where

LEMMA SendersKeepControl ==
  ASSUME SessionControl, NEW s \in Senders, Call(s) \/ Send(s)
  PROVE  SessionControl'
<1>1. CASE Land(s) \/ Stopped(s)
  BY <1>1, FramesKeepControl DEF Land, Stopped, Lands
<1>2. CASE Call(s) \/ TakeFrame(s) \/ TakeWrite(s) \/ Finish(s)
  BY <1>2, FramesKeepControl
     DEF Call, TakeFrame, TakeWrite, Finish, sessionVars
<1>3. QED
  BY <1>1, <1>2 DEF Send

\* The session takes a handle away only under the write lock, or in a failed
\* handshake, which marks whoever is in a transfer.
LEMMA SessionTakesHandle ==
  ASSUME SessionControl, Drive \/ Around, handle' = "none", handle # "none"
  PROVE  \/ write = Nobody /\ UNCHANGED torn
         \/ torn' = torn \cup {s \in Senders : place[s] = "transfer"}
<1> USE DEF driver
<1>1. CASE WriteFree /\ LockedStep /\ UNCHANGED frameVars
  BY <1>1 DEF WriteFree, frameVars
<1>2. CASE UnlockedStep
  <2>1. CASE Join
    BY <2>1 DEF Join, SessionControl, HandleIsOwned, Connecting
  <2>2. CASE ~Join
    BY <1>2, <2>2 DEF UnlockedStep, Loop, PollAnswers, PollFails, Sleep, Open,
       OpenFails, EndSnapshot, EndHandshake, EndRestore, EndSelect,
       Publish, EndShutdown
  <2>3. QED
    BY <2>1, <2>2
<1>3. CASE Tear
  BY <1>3 DEF Tear
<1>4. CASE Around
  BY <1>4 DEF Around, Stop, Unplug, Plug, UserSets
<1>5. QED
  BY <1>1, <1>2, <1>3, <1>4 DEF Drive

LEMMA SessionChunkInv ==
  ASSUME ChunkInv, Drive \/ Around
  PROVE  ChunkInv'
<1>1. SessionControl'
  <2>1. SessionNext
    BY DEF Drive, Around, LockedStep, UnlockedStep, Tear, SessionNext,
       DriveStep, ConnectStep, DisconnectStep, Outside
  <2>2. QED
    BY <2>1, NextControl DEF ChunkInv
<1>2. /\ UNCHANGED <<place, write>>
      /\ torn \subseteq torn'
  BY SessionKeepsFrames
<1>3. WriteOwned'
  BY <1>2 DEF ChunkInv, WriteOwned
<1>4. ASSUME NEW s \in Senders, place'[s] = "transfer", handle' = "none"
      PROVE  s \in torn'
  <2>1. place[s] = "transfer" /\ write = s /\ write # Nobody
    BY <1>2, <1>4, ScreenAssumption DEF ChunkInv, WriteOwned
  <2>2. CASE handle = "none"
    BY <1>2, <2>1, <2>2 DEF ChunkInv, ChunkHasHandle
  <2>3. CASE handle # "none"
    BY <1>4, <2>1, <2>3, SessionTakesHandle DEF ChunkInv
  <2>4. QED
    BY <2>2, <2>3
<1>5. ChunkHasHandle'
  BY <1>4 DEF ChunkHasHandle
<1>6. QED
  BY <1>1, <1>3, <1>5 DEF ChunkInv

\* Whoever lets go of a frame takes its own mark along and nobody else's lock.
LEMMA ReturnChunkInv ==
  ASSUME FrameInv, ChunkInv, NEW s \in Senders, Return(s), SessionControl',
         handle' = handle
  PROVE  ChunkInv'
<1>1. \A t \in Senders : place'[t] = "transfer" =>
        t # s /\ place[t] = "transfer"
  BY DEF Return, FrameInv, ScreenTypeOK
<1>2. WriteOwned'
  BY <1>1 DEF Return, ChunkInv, WriteOwned
<1>3. ChunkHasHandle'
  BY <1>1 DEF Return, ChunkInv, ChunkHasHandle
<1>4. QED
  BY <1>2, <1>3 DEF ChunkInv

LEMMA SendersChunkInv ==
  ASSUME FrameInv, ChunkInv, NEW s \in Senders, Call(s) \/ Send(s)
  PROVE  ChunkInv'
<1>1. SessionControl'
  BY SendersKeepControl DEF ChunkInv
<1>2. CASE Finish(s) \/ Stopped(s)
  BY <1>1, <1>2, ReturnChunkInv
     DEF Finish, Stopped, sessionVars, driver
<1>3. CASE TakeWrite(s)
  <2>1. /\ write = Nobody /\ write' = s /\ handle' = handle /\ handle # "none"
        /\ place' = [place EXCEPT ![s] = "transfer"]
    BY <1>3 DEF TakeWrite, sessionVars, driver
  <2>2. \A t \in Senders : place'[t] = "transfer" => t = s
    BY <2>1, ScreenAssumption
       DEF ChunkInv, WriteOwned, FrameInv, ScreenTypeOK
  <2>3. WriteOwned' /\ ChunkHasHandle'
    BY <2>1, <2>2 DEF WriteOwned, ChunkHasHandle
  <2>4. QED
    BY <1>1, <2>3 DEF ChunkInv
<1>4. CASE Call(s) \/ TakeFrame(s) \/ Land(s)
  <2>1. /\ handle' = handle /\ torn' = torn
        /\ \A t \in Senders : place'[t] = "transfer" =>
             t # s /\ place[t] = "transfer"
    BY <1>4 DEF Call, TakeFrame, Land, sessionVars, driver, FrameInv,
       ScreenTypeOK
  <2>2. write' = write \/ (write' = Nobody /\ place[s] = "transfer")
    BY <1>4 DEF Call, TakeFrame, Land
  <2>3. WriteOwned'
    BY <2>1, <2>2 DEF ChunkInv, WriteOwned
  <2>4. ChunkHasHandle'
    BY <2>1 DEF ChunkInv, ChunkHasHandle
  <2>5. QED
    BY <1>1, <2>3, <2>4 DEF ChunkInv
<1>5. QED
  BY <1>2, <1>3, <1>4 DEF Send

LEMMA InitChunkInv == ScreenInit => ChunkInv
  BY InitControl DEF ScreenInit, FramesInit, ChunkInv, WriteOwned,
     ChunkHasHandle

LEMMA UnchangedChunkInv ==
  ASSUME ChunkInv, UNCHANGED screenVars
  PROVE  ChunkInv'
<1>1. SessionControl'
  BY NextControl DEF ChunkInv, screenVars
<1>2. QED
  BY <1>1 DEF ChunkInv, WriteOwned, ChunkHasHandle, screenVars, frameVars,
     sessionVars, driver

LEMMA NextChunkInv ==
  FrameInv /\ ChunkInv /\ [ScreenNext]_screenVars => ChunkInv'
<1> SUFFICES ASSUME FrameInv, ChunkInv, [ScreenNext]_screenVars
             PROVE  ChunkInv'
  OBVIOUS
<1>1. CASE Drive \/ Around
  BY <1>1, SessionChunkInv
<1>2. ASSUME NEW s \in Senders, Call(s) \/ Send(s) PROVE ChunkInv'
  BY <1>2, SendersChunkInv
<1>3. CASE UNCHANGED screenVars
  BY <1>3, UnchangedChunkInv
<1>4. QED
  BY <1>1, <1>2, <1>3 DEF ScreenNext

\* "Closing under the write lock is what stops a frame already inside
\* sendScreen from writing to a descriptor this thread just closed": for any
\* number of threads, and wherever stop() and the cable find them, a chunk on
\* its way has its handle, but for the one that a failed handshake closes.
THEOREM ChunksHaveHandles == ScreenSpec => []ChunkHasHandle
<1>1. FrameInv /\ FrameInv' /\ ChunkInv /\ [ScreenNext]_screenVars => ChunkInv'
  BY NextChunkInv
<1>2. ChunkInv => ChunkHasHandle
  BY DEF ChunkInv
<1>3. QED
  BY <1>1, <1>2, InitChunkInv, FrameInvariant, PTL DEF ScreenSpec

-----------------------------------------------------------------------------
(* The render timer, the frame jobs and the shutdown: the theorems of      *)
(* Panel.                                                                  *)

LEMMA InitPanelInv == PanelInit => PanelInv
<1> SUFFICES ASSUME PanelInit PROVE PanelInv
  OBVIOUS
<1>1. FrameInv
  BY InitFrameInv DEF PanelInit
<1>2. \A s \in Senders : place[s] = "idle"
  BY DEF PanelInit, ScreenInit, FramesInit
<1>3. Flying = {} /\ ~busy
  BY DEF PanelInit, Flying
<1>4. /\ main \in MainPlaces
      /\ job \in [Senders -> {"none", "encode", "send", "clear"}]
      /\ look \in 1 .. MaxLooks /\ shown \in 0 .. look
      /\ carries \in [Senders -> 0 .. look]
      /\ mishaps \in 0 .. MaxMishaps
      /\ strayed \subseteq {"view", "bridge"}
  BY PanelAssumption DEF PanelInit, MainPlaces
<1>5. {quitRequested, busy, whole} \subseteq BOOLEAN
  BY DEF PanelInit
<1>6. \A s \in Senders : job[s] = "none" /\ carries[s] = 0
  BY DEF PanelInit
<1>7. QED
  BY <1>1, <1>2, <1>3, <1>4, <1>5, <1>6 DEF PanelInv

\* Another program's threads leave main() where it is not.
LEMMA ElsewherePanelInv ==
  ASSUME PanelInv, Elsewhere
  PROVE  PanelInv'
<1>1. FrameInv'
  BY NextFrameInv DEF PanelInv, Elsewhere
<1>2. QED
  BY <1>1 DEF PanelInv, Elsewhere, panelVars, mainVars, jobVars, lookVars, Flying

\* What the event loop does beside the timer, and main()'s way down.
LEMMA AsidePanelInv ==
  ASSUME PanelInv, Redraw \/ Signal \/ QuitPoll \/ WindowCloses \/ Unwind
  PROVE  PanelInv'
<1>1. UNCHANGED frameVars
  BY DEF Redraw, Signal, QuitPoll, WindowCloses, Unwind, ViewGoes, BridgeStops,
         BridgeGoes, PoolIsWaitedFor, screenVars
<1>2. FrameInv'
  BY <1>1 DEF PanelInv, frameVars, FrameInv, ScreenTypeOK, ScreenOwned,
              LastIsMine, LastIsOver, NothingSent, line!IsFinal
<1>3. UNCHANGED <<jobVars, place, whole, mishaps, strayed>>
  BY <1>1 DEF Redraw, Signal, QuitPoll, WindowCloses, Unwind, ViewGoes,
              BridgeStops, BridgeGoes, PoolIsWaitedFor, lookVars, frameVars
<1>4. /\ look' \in 1 .. MaxLooks /\ look <= look'
      /\ shown' = shown
  BY PanelAssumption
     DEF PanelInv, Redraw, Signal, QuitPoll, WindowCloses, Unwind, ViewGoes,
         BridgeStops, BridgeGoes, PoolIsWaitedFor, lookVars
<1>5. /\ quitRequested' \in BOOLEAN
      /\ main' \in MainPlaces /\ main' # "elsewhere" /\ main # "elsewhere"
  <2>1. CASE Redraw
    BY <2>1 DEF Redraw, PanelInv, mainVars
  <2>2. CASE Signal
    BY <2>2 DEF Signal, PanelInv
  <2>3. CASE QuitPoll \/ WindowCloses \/ Unwind
    BY <2>3 DEF QuitPoll, AskedToQuit, WindowCloses, Unwind, ViewGoes, BridgeStops,
                BridgeGoes, PoolIsWaitedFor, MainGoes, MainPlaces, PanelInv
  <2>4. QED
    BY <2>1, <2>2, <2>3
<1>6. carries' \in [Senders -> 0 .. look'] /\ shown' \in 0 .. look'
  BY <1>3, <1>4, PanelAssumption DEF PanelInv, jobVars
<1>7. QED
  BY <1>2, <1>3, <1>4, <1>5, <1>6 DEF PanelInv, jobVars, Flying

LEMMA SessionPanelInv ==
  ASSUME PanelInv, DriveApp \/ AroundApp
  PROVE  PanelInv'
<1>1. Drive \/ Around
  BY DEF DriveApp, AroundApp
<1>2. FrameInv' /\ place' = place
  BY <1>1, SessionFrameInv, SessionKeepsFrames DEF PanelInv
<1>3. UNCHANGED <<mainVars, jobVars, look, shown, mishaps>>
  BY DEF DriveApp, AroundApp
<1>4. whole' \in BOOLEAN /\ strayed' \subseteq {"view", "bridge"}
  BY DEF DriveApp, AroundApp, Polled, PanelInv
<1>5. QED
  BY <1>2, <1>3, <1>4 DEF PanelInv, mainVars, jobVars, Flying

-----------------------------------------------------------------------------
(* The flag and the frame it stands for.                                   *)

LEMMA TimerPanelInv ==
  ASSUME PanelInv, TimerFires
  PROVE  PanelInv'
<1>1. /\ main = "exec" /\ ~busy /\ Flying = {}
      /\ UNCHANGED <<screenVars, mainVars, look, shown, whole, strayed>>
  BY DEF TimerFires, NoneInFlight, PanelInv
<1>2. FrameInv' /\ place' = place
  BY <1>1 DEF PanelInv, screenVars, frameVars, FrameInv, ScreenTypeOK, ScreenOwned,
              LastIsMine, LastIsOver, NothingSent, line!IsFinal
<1>3. mishaps' \in 0 .. MaxMishaps
  BY PanelAssumption DEF PanelInv, TimerFires, Mishap
<1>4. CASE UNCHANGED <<job, carries>> /\ busy' = AfterNull
  BY <1>1, <1>2, <1>3, <1>4 DEF PanelInv, mainVars, Flying, AfterNull
<1>5. CASE /\ Idle # {}
           /\ job' = [job EXCEPT ![IdleThread] = "encode"]
           /\ carries' = [carries EXCEPT ![IdleThread] = look]
           /\ busy' = TRUE
  <2>1. IdleThread \in Senders /\ job[IdleThread] = "none"
    BY <1>5 DEF IdleThread, Idle
  <2>2. job' \in [Senders -> {"none", "encode", "send", "clear"}]
    BY <1>5, <2>1 DEF PanelInv
  <2>3. carries' \in [Senders -> 0 .. look'] /\ look' = look /\ look # 0
    BY <1>1, <1>5, <2>1, PanelAssumption DEF PanelInv
  <2>4. Flying' = {IdleThread}
    BY <1>1, <1>5, <2>1 DEF PanelInv, Flying
  <2>5. \A s \in Senders : job'[s] = "none" <=> carries'[s] = 0
    BY <1>5, <2>1, <2>3 DEF PanelInv
  <2>6. \A s \in Senders : job'[s] = "send" <=> place'[s] # "idle"
    BY <1>1, <1>2, <1>5, <2>1 DEF PanelInv
  <2>7. busy' \in BOOLEAN /\ busy' <=> Flying' # {}
    BY <1>5, <2>4
  <2>8. QED
    BY <1>1, <1>2, <1>3, <2>2, <2>3, <2>4, <2>5, <2>6, <2>7 DEF PanelInv, mainVars
<1>6. QED
  BY <1>4, <1>5 DEF TimerFires

\* A job that goes on with its frame, and keeps main() and the flag as they are.
LEMMA GoesOnPanelInv ==
  ASSUME PanelInv, NEW s \in Senders, NEW to \in {"send", "clear"},
         job[s] # "none", job' = [job EXCEPT ![s] = to],
         UNCHANGED <<mainVars, busy, carries, look>>,
         FrameInv', shown' \in 0 .. look, mishaps' \in 0 .. MaxMishaps,
         whole' \in BOOLEAN, strayed' \subseteq {"view", "bridge"},
         \A t \in Senders \ {s} : place'[t] = place[t],
         main # "elsewhere" => (to = "send" <=> place'[s] # "idle")
  PROVE  PanelInv'
<1>1. job' \in [Senders -> {"none", "encode", "send", "clear"}]
  BY DEF PanelInv
<1>2. \A t \in Senders : job'[t] = "none" <=> job[t] = "none"
  BY DEF PanelInv
<1>3. Flying' = Flying
  BY <1>2 DEF Flying
<1>4. main # "elsewhere" => \A t \in Senders : job'[t] = "send" <=> place'[t] # "idle"
  BY DEF PanelInv
<1>5. QED
  BY <1>1, <1>2, <1>3, <1>4 DEF PanelInv, mainVars

LEMMA EncodePanelInv ==
  ASSUME PanelInv, NEW s \in Senders, Encode(s)
  PROVE  PanelInv'
<1>1. /\ job[s] = "encode"
      /\ UNCHANGED <<mainVars, busy, carries, look, shown, whole, strayed>>
  BY DEF Encode
<1>2. mishaps' \in 0 .. MaxMishaps
  BY PanelAssumption DEF Encode, Mishap, PanelInv
<1>3. CASE Call(s) /\ job' = [job EXCEPT ![s] = "send"]
  <2>1. FrameInv'
    BY <1>3, CallFrameInv DEF PanelInv
  <2>2. place'[s] = "frame" /\ \A t \in Senders \ {s} : place'[t] = place[t]
    BY <1>3 DEF Call, PanelInv, FrameInv, ScreenTypeOK
  <2>3. QED
    BY <1>1, <1>2, <1>3, <2>1, <2>2, GoesOnPanelInv DEF PanelInv
<1>4. CASE UNCHANGED screenVars /\ job' = [job EXCEPT ![s] = "clear"]
  <2>1. FrameInv' /\ place' = place
    BY <1>4 DEF PanelInv, screenVars, frameVars, FrameInv, ScreenTypeOK, ScreenOwned,
                LastIsMine, LastIsOver, NothingSent, line!IsFinal
  <2>2. main # "elsewhere" => place'[s] = "idle"
    BY <1>1, <2>1 DEF PanelInv
  <2>3. QED
    BY <1>1, <1>2, <1>4, <2>1, <2>2, GoesOnPanelInv DEF PanelInv
<1>5. QED
  BY <1>3, <1>4 DEF Encode

LEMMA SendPanelInv ==
  ASSUME PanelInv, NEW s \in Senders, SendStep(s)
  PROVE  PanelInv'
<1>1. /\ job[s] = "send" /\ Send(s)
      /\ job' = [job EXCEPT ![s] = IF place'[s] = "idle" THEN "clear" ELSE @]
      /\ UNCHANGED <<mainVars, busy, carries, look, mishaps, strayed>>
  BY DEF SendStep
<1>2. FrameInv'
  BY <1>1, TakeFrameFrameInv, TakeWriteFrameInv, LandFrameInv, StoppedFrameInv,
     FinishFrameInv DEF Send, PanelInv
<1>3. \A t \in Senders \ {s} : place'[t] = place[t]
  BY <1>1 DEF Send, TakeFrame, TakeWrite, Land, Stopped, Finish, Return,
              PanelInv, FrameInv, ScreenTypeOK
<1>4. shown' \in 0 .. look /\ whole' \in BOOLEAN
  BY DEF SendStep, PanelInv
<1>5. CASE place'[s] = "idle"
  BY <1>1, <1>2, <1>3, <1>4, <1>5, GoesOnPanelInv DEF PanelInv
<1>6. CASE place'[s] # "idle"
  BY <1>1, <1>2, <1>3, <1>4, <1>6, GoesOnPanelInv DEF PanelInv
<1>7. QED
  BY <1>5, <1>6

\* The flag goes with the only frame there is.
LEMMA ClearPanelInv ==
  ASSUME PanelInv, NEW s \in Senders, Clear(s)
  PROVE  PanelInv'
<1>1. /\ job[s] = "clear" /\ ~busy'
      /\ job' = [job EXCEPT ![s] = "none"]
      /\ carries' = [carries EXCEPT ![s] = 0]
      /\ UNCHANGED <<screenVars, mainVars, lookVars, strayed>>
  BY DEF Clear
<1>2. FrameInv' /\ place' = place
  BY <1>1 DEF PanelInv, screenVars, frameVars, FrameInv, ScreenTypeOK, ScreenOwned,
              LastIsMine, LastIsOver, NothingSent, line!IsFinal
<1>3. Flying' = {}
  BY <1>1 DEF PanelInv, Flying
<1>4. /\ job' \in [Senders -> {"none", "encode", "send", "clear"}]
      /\ \A t \in Senders : job'[t] = "none" <=> carries'[t] = 0
      /\ \A t \in Senders : job'[t] = "send" <=> job[t] = "send"
  BY <1>1 DEF PanelInv
<1>5. carries' \in [Senders -> 0 .. look] /\ look' = look
  BY <1>1, PanelAssumption DEF PanelInv, lookVars
<1>6. busy' \in BOOLEAN
  BY DEF Clear
<1>7. QED
  BY <1>1, <1>2, <1>3, <1>4, <1>5, <1>6 DEF PanelInv, mainVars, lookVars

\* A job that is left without its bridge gives up the frame it is in, which
\* is the one frame there is.
LEMMA StrayPanelInv ==
  ASSUME PanelInv, NEW s \in Senders, StrayJob(s)
  PROVE  PanelInv'
<1>1. /\ job[s] \in {"encode", "send"} /\ main = "bridgeGone"
      /\ job' = [job EXCEPT ![s] = "clear"]
      /\ strayed' = strayed \cup {"bridge"}
      /\ UNCHANGED <<sessionVars, mainVars, busy, carries, lookVars>>
  BY DEF StrayJob
<1>2. /\ FrameInv' /\ place'[s] = "idle"
      /\ \A t \in Senders \ {s} : place'[t] = place[t]
  <2>1. CASE place[s] = "idle"
    <3>1. UNCHANGED frameVars
      BY <2>1 DEF StrayJob
    <3>2. QED
      BY <2>1, <3>1 DEF PanelInv, frameVars, FrameInv, ScreenTypeOK, ScreenOwned,
                        LastIsMine, LastIsOver, NothingSent, line!IsFinal
  <2>2. CASE place[s] # "idle"
    <3> USE ScreenAssumption DEF PanelInv, FrameInv, ScreenTypeOK, Return
    <3>1. /\ Return(s) /\ last' = last
          /\ cut' = (cut \/ sent[s] \in 1 .. size[s] - 1)
      BY <2>2 DEF StrayJob
    <3>2. \A t \in Senders \ {s} : place[t] = "idle"
      BY <1>1 DEF Flying
    <3>3. screen \in {s, Nobody}
      BY <3>2 DEF ScreenOwned
    <3>4. ScreenTypeOK'
      BY <3>1
    <3>5. ScreenOwned' /\ LastIsMine' /\ NothingSent'
      BY <3>1, <3>2, <3>3 DEF ScreenOwned, LastIsMine, NothingSent
    <3>6. LastIsOver'
      <4>1. CASE screen = Nobody
        BY <3>1, <4>1 DEF LastIsOver, line!IsFinal
      <4>2. CASE screen = s /\ sent[s] = 0
        BY <3>1, <4>2 DEF LastIsOver, LastIsMine, line!IsFinal
      <4>3. CASE screen = s /\ sent[s] = size[s] /\ sent[s] # 0
        BY <3>1, <4>3, CountsAreNat
           DEF LastIsOver, LastIsMine, line!IsFinal, line!Chunk
      <4>4. CASE screen = s /\ sent[s] # size[s] /\ sent[s] # 0
        <5>1. sent[s] \in 1 .. size[s] - 1
          BY <4>4, CountsAreNat DEF LastIsMine
        <5>2. QED
          BY <3>1, <5>1 DEF LastIsOver
      <4>5. QED
        BY <3>3, <4>1, <4>2, <4>3, <4>4
    <3>7. QED
      BY <3>1, <3>4, <3>5, <3>6
  <2>3. QED
    BY <2>1, <2>2
<1>3. QED
  BY <1>1, <1>2, GoesOnPanelInv DEF PanelInv, lookVars

LEMMA NextPanelInv == PanelInv /\ [PanelNext]_appVars => PanelInv'
<1> SUFFICES ASSUME PanelInv, [PanelNext]_appVars PROVE PanelInv'
  OBVIOUS
<1>1. CASE Elsewhere
  BY <1>1, ElsewherePanelInv
<1>2. CASE Redraw \/ Signal \/ QuitPoll \/ WindowCloses \/ Unwind
  BY <1>2, AsidePanelInv
<1>3. CASE TimerFires
  BY <1>3, TimerPanelInv
<1>4. ASSUME NEW s \in Senders, JobStep(s) PROVE PanelInv'
  BY <1>4, EncodePanelInv, SendPanelInv, ClearPanelInv, StrayPanelInv DEF JobStep
<1>5. CASE DriveApp \/ AroundApp
  BY <1>5, SessionPanelInv
<1>6. CASE UNCHANGED appVars
  BY <1>6 DEF appVars, panelVars, mainVars, jobVars, lookVars, screenVars, frameVars,
              PanelInv, FrameInv, ScreenTypeOK, ScreenOwned, LastIsMine, LastIsOver,
              NothingSent, line!IsFinal, Flying
<1>7. QED
  BY <1>1, <1>2, <1>3, <1>4, <1>5, <1>6 DEF PanelNext, AppStep

\* "One frame in flight at a time": the flag stands for the one job that has a
\* frame, from its grab to its end, whatever fails on the way and whenever
\* main() comes down; for any number of threads in the pool.
THEOREM OneInFlight == PanelSpec => []PanelInv
<1>1. QED
  BY InitPanelInv, NextPanelInv, PTL DEF PanelSpec

-----------------------------------------------------------------------------
(* The handle under a chunk, with main() coming down around it.            *)

LEMMA JobChunkInv ==
  ASSUME PanelInv, ChunkInv, NEW s \in Senders, JobStep(s)
  PROVE  ChunkInv'
<1>1. FrameInv
  BY DEF PanelInv
<1>2. CASE UNCHANGED screenVars
  BY <1>2, UnchangedChunkInv
<1>3. CASE Call(s) \/ Send(s)
  BY <1>1, <1>3, SendersChunkInv
<1>4. CASE StrayJob(s)
  <2>1. CASE UNCHANGED frameVars
    BY <1>2, <1>4, <2>1 DEF StrayJob, screenVars
  <2>2. CASE Return(s)
    <3>1. UNCHANGED sessionVars
      BY <1>4 DEF StrayJob
    <3>2. SessionControl' /\ handle' = handle
      BY <3>1, NextControl DEF ChunkInv, sessionVars, driver
    <3>3. QED
      BY <1>1, <2>2, <3>2, ReturnChunkInv
  <2>3. QED
    BY <1>4, <2>1, <2>2 DEF StrayJob
<1>5. QED
  BY <1>2, <1>3, <1>4 DEF JobStep, Encode, SendStep, Clear

LEMMA NextPanelChunkInv ==
  PanelInv /\ ChunkInv /\ [PanelNext]_appVars => ChunkInv'
<1> SUFFICES ASSUME PanelInv, ChunkInv, [PanelNext]_appVars PROVE ChunkInv'
  OBVIOUS
<1>1. CASE Elsewhere
  BY <1>1, NextChunkInv DEF Elsewhere, PanelInv
<1>2. CASE DriveApp \/ AroundApp
  BY <1>2, SessionChunkInv DEF DriveApp, AroundApp
<1>3. CASE BridgeStops
  BY <1>3, SessionChunkInv DEF BridgeStops, Around
<1>4. CASE \/ Redraw \/ TimerFires \/ Signal \/ QuitPoll \/ WindowCloses
           \/ ViewGoes \/ BridgeGoes \/ PoolIsWaitedFor \/ UNCHANGED appVars
  <2>1. UNCHANGED screenVars
    BY <1>4 DEF Redraw, TimerFires, Signal, QuitPoll, WindowCloses, ViewGoes,
       BridgeGoes, PoolIsWaitedFor, appVars
  <2>2. QED
    BY <2>1, UnchangedChunkInv
<1>5. ASSUME NEW s \in Senders, JobStep(s) PROVE ChunkInv'
  BY <1>5, JobChunkInv
<1>6. QED
  BY <1>1, <1>2, <1>3, <1>4, <1>5 DEF PanelNext, AppStep, Unwind

\* The application's own frames, too, have a handle under every chunk,
\* whenever main() stops the worker and destroys the bridge they go through.
THEOREM FrameJobsHaveHandles == PanelSpec => []ChunkHasHandle
<1>1. PanelInit => ChunkInv
  BY InitChunkInv DEF PanelInit
<1>2. ChunkInv => ChunkHasHandle
  BY DEF ChunkInv
<1>3. QED
  BY <1>1, <1>2, NextPanelChunkInv, OneInFlight, PTL DEF PanelSpec

-----------------------------------------------------------------------------
(* The frames of the application's own jobs, one at a time.                *)

\* A job that finds the bridge gone gives up a frame the deck has begun on.
LEMMA StrayIsLineStep ==
  ASSUME PanelInv, NEW s \in Senders, StrayJob(s)
  PROVE  line!LineNext \/ UNCHANGED <<last, cut>>
<1> USE DEF PanelInv, FrameInv, ScreenTypeOK
<1>1. CASE place[s] = "idle"
  BY <1>1 DEF StrayJob, frameVars
<1>2. CASE place[s] # "idle"
  <2>1. cut' = (cut \/ sent[s] \in 1 .. size[s] - 1) /\ last' = last
    BY <1>2 DEF StrayJob
  <2>2. sent[s] \in Nat /\ size[s] \in Nat
    BY CountsAreNat
  <2>3. CASE sent[s] \notin 1 .. size[s] - 1
    BY <2>1, <2>3
  <2>4. CASE sent[s] \in 1 .. size[s] - 1
    <3>1. screen = s
      BY <2>2, <2>4 DEF NothingSent
    <3>2. last = line!Chunk(s, size[s], sent[s])
      BY <2>2, <2>4, <3>1 DEF LastIsMine
    <3>3. ~line!IsFinal(last)
      BY <2>2, <2>4, <3>2 DEF line!IsFinal, line!Chunk
    <3>4. cut' = TRUE
      BY <2>1, <2>4
    <3>5. line!GiveUp
      BY <2>1, <3>3, <3>4 DEF line!GiveUp
    <3>6. QED
      BY <3>5 DEF line!LineNext
  <2>5. QED
    BY <2>3, <2>4
<1>3. QED
  BY <1>1, <1>2

LEMMA PanelStepsAreLineSteps ==
  PanelInv /\ [PanelNext]_appVars => [line!LineNext]_<<last, cut>>
<1> SUFFICES ASSUME PanelInv, [PanelNext]_appVars
             PROVE  line!LineNext \/ UNCHANGED <<last, cut>>
  OBVIOUS
<1>1. CASE Elsewhere
  BY <1>1, ScreenStepsAreLineSteps DEF Elsewhere, PanelInv
<1>2. CASE DriveApp \/ AroundApp
  BY <1>2, SessionKeepsFrames DEF DriveApp, AroundApp
<1>3. CASE BridgeStops
  BY <1>3 DEF BridgeStops, frameVars
<1>4. CASE \/ Redraw \/ TimerFires \/ Signal \/ QuitPoll \/ WindowCloses
           \/ ViewGoes \/ BridgeGoes \/ PoolIsWaitedFor \/ UNCHANGED appVars
  BY <1>4 DEF Redraw, TimerFires, Signal, QuitPoll, WindowCloses, ViewGoes,
     BridgeGoes, PoolIsWaitedFor, appVars, screenVars, frameVars
<1>5. ASSUME NEW s \in Senders, JobStep(s)
      PROVE  line!LineNext \/ UNCHANGED <<last, cut>>
  <2>1. CASE Encode(s) \/ SendStep(s)
    <3>1. CASE Call(s) \/ Send(s)
      BY <3>1, SendersAreLineSteps DEF PanelInv
    <3>2. CASE UNCHANGED screenVars
      BY <3>2 DEF screenVars, frameVars
    <3>3. QED
      BY <2>1, <3>1, <3>2 DEF Encode, SendStep
  <2>2. CASE Clear(s)
    BY <2>2 DEF Clear, screenVars, frameVars
  <2>3. CASE StrayJob(s)
    BY <2>3, StrayIsLineStep
  <2>4. QED
    BY <1>5, <2>1, <2>2, <2>3 DEF JobStep
<1>6. QED
  BY <1>1, <1>2, <1>3, <1>4, <1>5 DEF PanelNext, AppStep, Unwind

\* The application keeps to it as well: its jobs' frames reach the deck one
\* after another, whole or given up, main() coming down in the middle or not.
THEOREM JobsSendOneFrame == PanelSpec => OneFrameAtATime
<1>1. PanelInit => line!LineInit
  BY ScreenInitIsLineInit DEF PanelInit
<1>2. QED
  BY <1>1, PanelStepsAreLineSteps, OneInFlight, PTL
     DEF PanelSpec, OneFrameAtATime, line!LineSpec

-----------------------------------------------------------------------------
(* The implementation of LiveView: the frame on its way is the job's.      *)

LEMMA OnItsWayIsCarried ==
  ASSUME PanelInv
  PROVE  /\ Flying = {} => OnItsWay = 0
         /\ \A s \in Flying : OnItsWay = carries[s] /\ carries[s] # 0
<1>1. ASSUME NEW s \in Flying
      PROVE  OnItsWay = carries[s] /\ carries[s] # 0
  <2>1. (CHOOSE t \in Flying : TRUE) \in Flying
    BY <1>1
  <2>2. (CHOOSE t \in Flying : TRUE) = s
    BY <1>1, <2>1 DEF PanelInv
  <2>3. QED
    BY <1>1, <2>2 DEF OnItsWay, PanelInv, Flying
<1>2. QED
  BY <1>1 DEF OnItsWay

\* A step that leaves the jobs' frames alone leaves the one on its way.
LEMMA SameOnItsWay ==
  ASSUME Flying' = Flying, carries' = carries
  PROVE  OnItsWay' = OnItsWay
BY DEF OnItsWay

LEMMA GoesOnFlying ==
  ASSUME PanelInv, NEW s \in Senders, Encode(s) \/ SendStep(s) \/ StrayJob(s)
  PROVE  s \in Flying /\ OnItsWay' = OnItsWay
<1>1. /\ s \in Flying /\ carries' = carries
      /\ \E to \in {"send", "clear"} : job' = [job EXCEPT ![s] = to]
  BY DEF Encode, SendStep, StrayJob, Flying
<1>2. \A t \in Senders : job'[t] = "none" <=> job[t] = "none"
  BY <1>1 DEF PanelInv, Flying
<1>3. Flying' = Flying
  BY <1>2 DEF Flying
<1>4. QED
  BY <1>1, <1>3, SameOnItsWay

LEMMA JobStepIsViewStep ==
  ASSUME PanelInv, PanelInv', NEW s \in Senders, JobStep(s)
  PROVE  view!ViewNext \/ UNCHANGED <<look, OnItsWay, shown>>
<1>1. CASE Encode(s) \/ StrayJob(s)
  BY <1>1, GoesOnFlying DEF Encode, StrayJob, lookVars
<1>2. CASE SendStep(s)
  <2>1. OnItsWay = carries[s] /\ OnItsWay # 0 /\ OnItsWay' = OnItsWay
    BY <1>2, GoesOnFlying, OnItsWayIsCarried
  <2>2. look' = look /\ shown' \in {carries[s], shown}
    BY <1>2 DEF SendStep
  <2>3. QED
    BY <2>1, <2>2 DEF view!ViewNext, view!Show
<1>3. CASE Clear(s)
  <2>1. s \in Flying /\ OnItsWay # 0
    BY <1>3, OnItsWayIsCarried DEF Clear, Flying
  <2>2. Flying' = {}
    BY <1>3 DEF Clear, PanelInv, Flying
  <2>3. OnItsWay' = 0
    BY <2>2 DEF OnItsWay
  <2>4. QED
    BY <1>3, <2>1, <2>3 DEF Clear, lookVars, view!ViewNext, view!Over
<1>4. QED
  BY <1>1, <1>2, <1>3 DEF JobStep

LEMMA TimerIsViewStep ==
  ASSUME PanelInv, PanelInv', TimerFires
  PROVE  view!ViewNext \/ UNCHANGED <<look, OnItsWay, shown>>
<1>1. Flying = {} /\ OnItsWay = 0 /\ look' = look /\ shown' = shown
  BY DEF TimerFires, NoneInFlight, PanelInv, OnItsWay
<1>2. CASE UNCHANGED <<job, carries>>
  <2>1. Flying' = Flying
    BY <1>2 DEF Flying
  <2>2. QED
    BY <1>1, <1>2, <2>1, SameOnItsWay
<1>3. CASE /\ Idle # {}
           /\ job' = [job EXCEPT ![IdleThread] = "encode"]
           /\ carries' = [carries EXCEPT ![IdleThread] = look]
  <2>1. IdleThread \in Senders
    BY <1>3 DEF IdleThread, Idle
  <2>2. Flying' = {IdleThread} /\ carries'[IdleThread] = look
    BY <1>1, <1>3, <2>1 DEF PanelInv, Flying
  <2>3. OnItsWay' = look
    BY <2>2 DEF OnItsWay
  <2>4. QED
    BY <1>1, <2>3 DEF view!ViewNext, view!Grab
<1>4. QED
  BY <1>2, <1>3 DEF TimerFires

LEMMA AsideIsViewStep ==
  ASSUME \/ Redraw \/ Signal \/ QuitPoll \/ WindowCloses \/ Unwind
         \/ DriveApp \/ AroundApp \/ Elsewhere \/ UNCHANGED appVars
  PROVE  view!ViewNext \/ UNCHANGED <<look, OnItsWay, shown>>
<1>1. job' = job /\ carries' = carries
  BY DEF Redraw, Signal, QuitPoll, WindowCloses, Unwind, ViewGoes, BridgeStops,
         BridgeGoes, PoolIsWaitedFor, DriveApp, AroundApp, Elsewhere, appVars,
         panelVars, jobVars
<1>2. Flying' = Flying
  BY <1>1 DEF Flying
<1>3. OnItsWay' = OnItsWay
  BY <1>1, <1>2, SameOnItsWay
<1>4. CASE Redraw
  BY <1>3, <1>4 DEF Redraw, view!ViewNext, view!Redraw
<1>5. CASE ~Redraw
  BY <1>3, <1>5
     DEF Signal, QuitPoll, WindowCloses, Unwind, ViewGoes, BridgeStops, BridgeGoes,
         PoolIsWaitedFor, DriveApp, AroundApp, Elsewhere, appVars, panelVars, lookVars
<1>6. QED
  BY <1>4, <1>5

\* The panel is a live view: whatever fails and whenever the program ends, a
\* frame is of the look there was when it was grabbed, is grabbed only when
\* none is on its way, and is shown before the next is grabbed or not at all.
THEOREM LiveViewShown == PanelSpec => ShowsALiveView
<1>1. PanelInit => view!ViewInit
  <2> SUFFICES ASSUME PanelInit PROVE view!ViewInit
    OBVIOUS
  <2>1. OnItsWay = 0
    BY DEF PanelInit, OnItsWay, Flying
  <2>2. QED
    BY <2>1 DEF PanelInit, view!ViewInit
<1>2. PanelInv /\ PanelInv' /\ [PanelNext]_appVars
        => [view!ViewNext]_<<look, OnItsWay, shown>>
  BY JobStepIsViewStep, TimerIsViewStep, AsideIsViewStep DEF PanelNext, AppStep
<1>3. QED
  BY <1>1, <1>2, OneInFlight, PTL DEF PanelSpec, ShowsALiveView, view!ViewSpec

-----------------------------------------------------------------------------
(* The session underneath: SessionProofs' promises, kept while frames are  *)
(* sent and main() comes down.                                             *)

\* What moves nothing of a session but its faults.
BesideTheSession == UNCHANGED <<deck, driver, where, snapshot, marks>>

LEMMA ScreenStepsOfTheSession ==
  ASSUME [ScreenNext]_screenVars
  PROVE  SessionNext \/ BesideTheSession
<1> USE DEF BesideTheSession
<1>1. CASE Drive \/ Around
  BY <1>1 DEF Drive, Around, LockedStep, UnlockedStep, Tear, SessionNext,
     DriveStep, ConnectStep, DisconnectStep, Outside
<1>2. ASSUME NEW s \in Senders, Call(s) \/ Send(s) PROVE BesideTheSession
  BY <1>2 DEF Call, Send, TakeFrame, TakeWrite, Land, Stopped, Finish, sessionVars
<1>3. CASE UNCHANGED screenVars
  BY <1>3 DEF screenVars, sessionVars
<1>4. QED
  BY <1>1, <1>2, <1>3 DEF ScreenNext

LEMMA PanelStepsOfTheSession ==
  ASSUME [PanelNext]_appVars
  PROVE  SessionNext \/ BesideTheSession
<1>1. CASE Elsewhere
  BY <1>1, ScreenStepsOfTheSession DEF Elsewhere
<1>2. CASE DriveApp \/ AroundApp
  BY <1>2, ScreenStepsOfTheSession DEF DriveApp, AroundApp, ScreenNext
<1>3. CASE BridgeStops
  BY <1>3 DEF BridgeStops, SessionNext, Outside
<1>4. CASE \/ Redraw \/ TimerFires \/ Signal \/ QuitPoll \/ WindowCloses
           \/ ViewGoes \/ BridgeGoes \/ PoolIsWaitedFor \/ UNCHANGED appVars
  BY <1>4 DEF Redraw, TimerFires, Signal, QuitPoll, WindowCloses, ViewGoes,
     BridgeGoes, PoolIsWaitedFor, appVars, screenVars, sessionVars, BesideTheSession
<1>5. ASSUME NEW s \in Senders, JobStep(s) PROVE SessionNext \/ BesideTheSession
  <2>1. CASE Call(s) \/ Send(s)
    BY <2>1, ScreenStepsOfTheSession DEF ScreenNext
  <2>2. CASE UNCHANGED sessionVars
    BY <2>2 DEF sessionVars, BesideTheSession
  <2>3. QED
    BY <1>5, <2>1, <2>2 DEF JobStep, Encode, SendStep, Clear, StrayJob, screenVars
<1>6. QED
  BY <1>1, <1>2, <1>3, <1>4, <1>5 DEF PanelNext, AppStep, Unwind

LEMMA PanelKeepsPromise == PanelSpec => [](ChunkInv /\ Promise)
<1>1. PanelInit => ChunkInv /\ Promise
  BY InitChunkInv, InitPromise DEF PanelInit, ScreenInit
<1>2. PanelInv /\ ChunkInv /\ Promise /\ [PanelNext]_appVars => Promise'
  <2> SUFFICES ASSUME ChunkInv, Promise, [PanelNext]_appVars PROVE Promise'
    OBVIOUS
  <2>1. CASE SessionNext
    BY <2>1, NextPromise DEF ChunkInv
  <2>2. CASE BesideTheSession
    BY <2>2, UnchangedPromise DEF BesideTheSession, deck, driver, adopted, where,
       marks
  <2>3. QED
    BY <2>1, <2>2, PanelStepsOfTheSession
<1>3. QED
  BY <1>1, <1>2, NextPanelChunkInv, OneInFlight, PTL DEF PanelSpec

\* The session is what it is by itself, with frames of any threads between its
\* transfers, faults spent on them, and main() stopping it at any point.
THEOREM FramesLeaveTheSession == PanelSpec => []SessionInv
<1>1. ChunkInv /\ Promise => SessionInv
  BY DEF ChunkInv, Promise, SessionInv
<1>2. QED
  BY <1>1, PanelKeepsPromise, PTL

\* And a connect that has frames in its way gives the settings back all the
\* same.
THEOREM FramesLeaveTheSettings == PanelSpec => []SettingsComeBack
<1>1. Promise => SettingsComeBack
  BY DEF Promise
<1>2. QED
  BY <1>1, PanelKeepsPromise, PTL

=============================================================================
