------------------------------- MODULE Screen -------------------------------
(***************************************************************************)
(* Frames for the deck's panel: Device::sendScreen, called by any number   *)
(* of threads, while the session (Session) opens, hands over and closes    *)
(* the transport underneath them.                                          *)
(*                                                                         *)
(* Two mutexes are ordered here.  _screenMutex is held for a whole frame   *)
(* and _writeMutex for one chunk, so that what else is written goes        *)
(* between the chunks and no other frame does.                             *)
(***************************************************************************)
EXTENDS Session

CONSTANTS
  Senders,   \* the threads that send frames
  Nobody,    \* the owner of a mutex that is free
  Sizes      \* the numbers of chunks a frame may have

ASSUME ScreenAssumption ==
  /\ Nobody \notin Senders
  /\ Sizes \subseteq Nat

VARIABLES
  screen,   \* who holds Device::_screenMutex
  write,    \* who holds Device::_writeMutex between two steps
  place,    \* where each sender is
  size,     \* the number of chunks of its frame
  sent,     \* how many of them it has sent
  last,     \* the deck: the last chunk it took
  cut,      \* the frame of that chunk has been given up
  torn      \* senders whose handle a failed handshake closed in mid-transfer

line == INSTANCE FrameLine WITH Senders <- Senders, Nobody <- Nobody,
                               Sizes <- Sizes, last <- last, cut <- cut

frameVars  == <<screen, write, place, size, sent, last, cut, torn>>
screenVars == <<sessionVars, frameVars>>

ScreenTypeOK ==
  /\ screen \in Senders \cup {Nobody}
  /\ write \in Senders \cup {Nobody}
  /\ place \in [Senders -> {"idle", "frame", "chunk", "transfer"}]
  /\ size \in [Senders -> Sizes \cup {0}]
  /\ sent \in [Senders -> Nat]
  /\ cut \in BOOLEAN
  /\ torn \in SUBSET Senders
  /\ last \in [from : Senders \cup {Nobody}, size : Sizes \cup {0}, index : Nat]

FramesInit ==
  /\ screen = Nobody
  /\ write = Nobody
  /\ place = [s \in Senders |-> "idle"]
  /\ size = [s \in Senders |-> 0]
  /\ sent = [s \in Senders |-> 0]
  /\ last = line!NoChunk
  /\ cut = FALSE
  /\ torn = {}

ScreenInit == SessionInit /\ FramesInit

-----------------------------------------------------------------------------
(* sendScreen                                                              *)

\* An empty frame has no chunk and is sent without a transfer.
Call(s) ==
  /\ place[s] = "idle"
  /\ \E n \in Sizes : size' = [size EXCEPT ![s] = n]
  /\ sent' = [sent EXCEPT ![s] = 0]
  /\ place' = [place EXCEPT ![s] = "frame"]
  /\ UNCHANGED <<sessionVars, screen, write, last, cut, torn>>

ScreenFree == screen = Nobody

\* std::lock_guard frameLock { _screenMutex }
TakeFrame(s) ==
  /\ place[s] = "frame"
  /\ ScreenFree
  /\ screen' = s
  /\ place' = [place EXCEPT ![s] = "chunk"]
  /\ UNCHANGED <<sessionVars, write, size, sent, last, cut, torn>>

\* std::lock_guard lock { _writeMutex }, and the transport is open.
TakeWrite(s) ==
  /\ place[s] = "chunk"
  /\ sent[s] < size[s]
  /\ write = Nobody
  /\ handle # "none"
  /\ write' = s
  /\ place' = [place EXCEPT ![s] = "transfer"]
  /\ UNCHANGED <<sessionVars, screen, size, sent, last, cut, torn>>

\* The deck takes the chunk.
Land(s) ==
  /\ place[s] = "transfer"
  /\ Lands
  /\ sent' = [sent EXCEPT ![s] = sent[s] + 1]
  /\ last' = line!Chunk(s, size[s], sent[s] + 1)
  /\ cut' = FALSE
  /\ write' = Nobody
  /\ place' = [place EXCEPT ![s] = "chunk"]
  /\ UNCHANGED <<deck, driver, where, snapshot, marks, screen, size, torn>>

\* sendScreen returns and lets go of what it holds.
Return(s) ==
  /\ screen' = Nobody
  /\ write' = IF write = s THEN Nobody ELSE write
  /\ place' = [place EXCEPT ![s] = "idle"]
  /\ size' = [size EXCEPT ![s] = 0]
  /\ sent' = [sent EXCEPT ![s] = 0]
  /\ torn' = torn \ {s}

\* Mutant: the frame goes on with the chunk after the one that failed.
SkipChunk(s) ==
  /\ place[s] = "transfer"
  /\ Fails
  /\ sent' = [sent EXCEPT ![s] = sent[s] + 1]
  /\ write' = Nobody
  /\ place' = [place EXCEPT ![s] = "chunk"]
  /\ UNCHANGED <<deck, driver, where, snapshot, marks, screen, size, last,
                 cut, torn>>

\* The frame stops at the chunk that cannot be sent: the transport is found
\* closed, or closes in mid-transfer, or the transfer fails.
Stopped(s) ==
  /\ \/ /\ place[s] = "chunk" /\ sent[s] < size[s] /\ write = Nobody
        /\ handle = "none" /\ UNCHANGED bounds
     \/ place[s] = "transfer" /\ handle = "none" /\ UNCHANGED bounds
     \/ place[s] = "transfer" /\ Fails
  /\ cut' = (cut \/ sent[s] > 0)
  /\ Return(s)
  /\ UNCHANGED <<deck, driver, where, snapshot, marks, last>>

Finish(s) ==
  /\ place[s] = "chunk"
  /\ sent[s] = size[s]
  /\ Return(s)
  /\ UNCHANGED <<sessionVars, last, cut>>

Send(s) == TakeFrame(s) \/ TakeWrite(s) \/ Land(s) \/ Stopped(s) \/ Finish(s)

-----------------------------------------------------------------------------
(* The session, and what of it is done under _writeMutex.                  *)

\* Mutant: disconnect() closes without the lock.
NoCloseLock == at = "close" \/ write = Nobody

WriteFree == write = Nobody

\* One transfer each, and the close of a deck that was connected.
LockedStep ==
  ReadRegister \/ SendInit \/ WriteBack \/ AdoptMode \/ AdoptMix \/ SelectMix
    \/ SendShutdown \/ Close

UnlockedStep ==
  \/ Loop \/ PollAnswers \/ PollFails \/ Sleep \/ Open \/ OpenFails
  \/ EndSnapshot \/ EndHandshake \/ EndRestore \/ EndSelect \/ Publish
  \/ EndShutdown
  \/ Join

\* connect() closes a deck whose handshake failed, and does not wait for the
\* chunk that may be on its way.
Tear ==
  /\ CloseBotched
  /\ torn' = torn \cup {s \in Senders : place[s] = "transfer"}
  /\ UNCHANGED <<screen, write, place, size, sent, last, cut>>

Drive ==
  \/ WriteFree /\ LockedStep /\ UNCHANGED frameVars
  \/ UnlockedStep /\ UNCHANGED frameVars
  \/ Tear

Around ==
  /\ \/ Stop \/ Unplug \/ Plug
     \/ WriteFree /\ \E r \in Registers : UserSets(r)
  /\ UNCHANGED frameVars

ScreenNext == Drive \/ Around \/ \E s \in Senders : Call(s) \/ Send(s)

ScreenSpec == ScreenInit /\ [][ScreenNext]_screenVars

-----------------------------------------------------------------------------
(* Properties.                                                             *)

\* "One frame at a time, for the whole frame" (Device.cpp:943): what the deck
\* takes is one frame after another, each whole unless it was given up.
OneFrameAtATime == line!LineSpec

\* "Closing under the write lock is what stops a frame already inside
\* sendScreen from writing to a descriptor this thread just closed"
\* (Device.cpp:272): a chunk on its way has a handle to go through, unless a
\* failed handshake took it away.
ChunkHasHandle ==
  \A s \in Senders : place[s] = "transfer" => handle # "none" \/ s \in torn

-----------------------------------------------------------------------------
(* The inductive invariant behind OneFrameAtATime.                         *)

\* The frame lock is held by exactly the thread that is between chunks or in
\* one.
ScreenOwned ==
  \A s \in Senders : place[s] \in {"chunk", "transfer"} <=> screen = s

\* The deck's last chunk is the last the sender has sent; a sender that has
\* sent none finds a frame behind it that is over.
LastIsMine ==
  \A s \in Senders : screen = s =>
    /\ sent[s] <= size[s]
    /\ place[s] = "transfer" => sent[s] < size[s]
    /\ sent[s] > 0 => ~cut /\ last = line!Chunk(s, size[s], sent[s])
    /\ sent[s] = 0 => cut \/ line!IsFinal(last)

\* With nobody in a frame, the last one is over.
LastIsOver == screen = Nobody => cut \/ line!IsFinal(last)

NothingSent == \A s \in Senders : screen # s => sent[s] = 0

FrameInv ==
  /\ ScreenTypeOK
  /\ ScreenOwned
  /\ LastIsMine
  /\ LastIsOver
  /\ NothingSent

-----------------------------------------------------------------------------
(* The inductive invariant behind ChunkHasHandle, with FrameInv's types.   *)

\* A chunk on its way has the write lock.
WriteOwned == \A s \in Senders : place[s] = "transfer" => write = s

ChunkInv ==
  /\ SessionControl
  /\ WriteOwned
  /\ ChunkHasHandle

=============================================================================
