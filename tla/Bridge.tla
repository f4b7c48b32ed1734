------------------------------- MODULE Bridge -------------------------------
(***************************************************************************)
(* The bridge's copy of the levels, what microphone monitoring makes of    *)
(* it, and what the gauges show.                                           *)
(*                                                                         *)
(* A level call of the driver is one step here: LevelWrites says how it is *)
(* made and how far the driver's cache is the deck's.  What follows a call *)
(* is not: its level is copied into the mirror under a mutex of the        *)
(* bridge's own, and announced under none.  The worker and the interface's *)
(* thread both go that way, and what the worker announces waits in the     *)
(* interface's event queue.                                                *)
(***************************************************************************)
EXTENDS Integers, Sequences

CONSTANTS
  Tracks,    \* tracks of this instance; "Mic" is the creator mix's microphone
  MaxSteps,  \* Level::MaxSteps
  Half,      \* what monitoring starts from: 50 percent
  MaxQueue,  \* bound: events that wait for the interface
  MaxCalls   \* bound: what is done at the panel and on the deck

ASSUME BridgeAssumption ==
  /\ "Mic" \in Tracks
  /\ MaxSteps \in Nat \ {0}
  /\ Half \in 1 .. MaxSteps
  /\ MaxQueue \in Nat \ {0}
  /\ MaxCalls \in Nat

Threads == {"worker", "interface"}
Other(t) == IF t = "worker" THEN "interface" ELSE "worker"
Steps   == 0 .. MaxSteps
NoLevel == -1

\* Level::fromPercent.
Clamped(n) == IF n < 0 THEN 0 ELSE IF n > MaxSteps THEN MaxSteps ELSE n

VARIABLES
  reg,          \* the deck: its levels
  cache,        \* Device::_levels
  connected,    \* the transport is open
  mirror,       \* DeviceBridge::_levels
  restore,      \* DeviceBridge::_monitorRestoreLevel
  wantReading,  \* DeviceBridge::_levelsWantReading
  shown,        \* MixerView.levels
  queue,        \* levelChanged on its way from the worker to the interface
  pc,           \* where each thread is
  track,        \* the track each thread is about
  level,        \* and the level it has in its hands
  todo,         \* the tracks left of a reading or a publishing
  calls         \* what has been done at the panel and on the deck

\* What happened, for the properties.
VARIABLES
  heard,        \* the last level of the microphone above silence in the cache
  unheard,      \* it may have been passed by before the mirror had it
  overtaken,    \* the cache moved on while a thread had a level in its hands
  late,         \* the mirror moved on before what a thread has is announced
  behind,       \* tracks whose mirror was last given a level too old, or none
  astray        \* tracks whose gauge last took a late event, or was dragged

driverVars == <<reg, cache, connected>>
mirrorVars == <<mirror, restore>>
guiVars    == <<shown, queue>>
callVars   == <<pc, track, level, todo>>
ghostVars  == <<heard, unheard, overtaken, late, behind, astray>>
bridgeVars == <<driverVars, mirrorVars, wantReading, guiVars, callVars, calls,
                ghostVars>>

\* write, remember and announce are setLevel; decide and lookUp setMicMonitor;
\* want and publish selectMix and publishDeviceState.
CallPc == {"write", "remember", "announce", "decide", "lookUp", "publish"}
Pcs == [worker    |-> CallPc \cup {"down", "handshake", "adopt", "poll", "reread"},
        interface |-> CallPc \cup {"idle", "want"}]

Event == [track : Tracks, level : Steps, late : BOOLEAN]

DriverTypes ==
  /\ reg \in [Tracks -> Steps]
  /\ cache \in [Tracks -> Steps \cup {NoLevel}]
  /\ connected \in BOOLEAN

MirrorTypes ==
  /\ mirror \in [Tracks -> Steps]
  /\ restore \in 1 .. MaxSteps
  /\ wantReading \in BOOLEAN

GuiTypes ==
  /\ shown \in [Tracks -> Steps]
  /\ queue \in Seq(Event)
  /\ Len(queue) <= MaxQueue

CallTypes ==
  /\ pc \in [Threads -> Pcs["worker"] \cup Pcs["interface"]]
  /\ \A t \in Threads : pc[t] \in Pcs[t]
  /\ track \in [Threads -> Tracks]
  /\ level \in [Threads -> Steps]
  /\ todo \in [Threads -> SUBSET Tracks]
  /\ calls \in 0 .. MaxCalls

GhostTypes ==
  /\ heard \in 1 .. MaxSteps
  /\ unheard \in BOOLEAN
  /\ overtaken \in [Threads -> BOOLEAN]
  /\ late \in [Threads -> BOOLEAN]
  /\ behind \in SUBSET Tracks
  /\ astray \in SUBSET Tracks

\* Type correctness: no level leaves the scale by any route, and monitoring is
\* never put back to silence.
BridgeTypeOK ==
  /\ DriverTypes
  /\ MirrorTypes
  /\ GuiTypes
  /\ CallTypes
  /\ GhostTypes

BridgeInit ==
  /\ reg = [e \in Tracks |-> 0]
  /\ cache = [e \in Tracks |-> NoLevel]
  /\ connected = FALSE
  /\ mirror = [e \in Tracks |-> 0]
  /\ restore = Half
  /\ wantReading = FALSE
  /\ shown = [e \in Tracks |-> 0]
  /\ queue = <<>>
  /\ pc = [worker |-> "down", interface |-> "idle"]
  /\ track = [t \in Threads |-> "Mic"]
  /\ level = [t \in Threads |-> 0]
  /\ todo = [t \in Threads |-> {}]
  /\ calls = 0
  /\ heard = Half
  /\ unheard = FALSE
  /\ overtaken = [t \in Threads |-> FALSE]
  /\ late = [t \in Threads |-> FALSE]
  /\ behind = {}
  /\ astray = {}

\* t is on its way to the mirror with a level of e, or will fetch one.
Holds(t, e)    == pc[t] = "remember" /\ track[t] = e
Fetches(t, e)  == pc[t] \in {"adopt", "reread", "want"} \/ e \in todo[t]
Carries(t, e)  == Holds(t, e) \/ Fetches(t, e)

Goto(t, l) == pc' = [pc EXCEPT ![t] = l]

\* Where a thread goes on when a level has been announced, or was not set.
Home(t, left) ==
  IF left # {} THEN "publish" ELSE IF t = "interface" THEN "idle" ELSE "poll"

Return(t) ==
  /\ Goto(t, Home(t, todo[t]))
  /\ track' = [track EXCEPT ![t] = "Mic"]
  /\ level' = [level EXCEPT ![t] = 0]

\* t puts l into the driver's cache of e.
CacheTakes(t, e, l) ==
  /\ cache' = [cache EXCEPT ![e] = l]
  /\ overtaken' = [overtaken EXCEPT
                     ![Other(t)] = @ \/ (Holds(Other(t), e) /\ l # cache[e])]
  /\ heard' = IF e = "Mic" /\ l > 0 THEN l ELSE heard

\* The microphone has been read and is not published yet.
Unpublished ==
  /\ cache["Mic"] > 0
  /\ IF pc["worker"] \in {"adopt", "reread"} THEN "Mic" \notin todo["worker"]
                                             ELSE "Mic" \in todo["worker"]

-----------------------------------------------------------------------------
(* setLevel: the driver's call, then the mirror, then the announcement.    *)

WriteLands(t) ==
  /\ pc[t] = "write"
  /\ connected
  /\ reg' = [reg EXCEPT ![track[t]] = level[t]]
  /\ CacheTakes(t, track[t], level[t])
  /\ unheard' = (unheard \/ (track[t] = "Mic" /\ Unpublished))
  /\ Goto(t, "remember")
  /\ UNCHANGED <<connected, mirrorVars, wantReading, guiVars, track, level, todo,
                 calls, late, behind, astray>>

\* Mutant: the level is remembered whatever became of the write.
RememberAnyway(t) ==
  /\ Goto(t, "remember")
  /\ UNCHANGED <<track, level>>

\* setLevel and setMicMonitor return early: nothing is kept nor announced.
GiveUp(t) == Return(t)

\* Nothing lands.
WriteFails(t) ==
  /\ pc[t] = "write"
  /\ GiveUp(t)
  /\ UNCHANGED <<driverVars, mirrorVars, wantReading, guiVars, todo, calls,
                 ghostVars>>

\* The microphone's first write lands and is cached, its second is lost, and
\* the call fails (Device.cpp:469-483).
WriteHalf(t) ==
  /\ pc[t] = "write"
  /\ connected
  /\ track[t] = "Mic"
  /\ reg' = [reg EXCEPT !["Mic"] = level[t]]
  /\ CacheTakes(t, "Mic", level[t])
  /\ GiveUp(t)
  /\ behind' = behind \cup {"Mic"}
  /\ unheard' = (unheard \/ level[t] > 0 \/ Unpublished)
  /\ UNCHANGED <<connected, mirrorVars, wantReading, guiVars, todo, calls, late,
                 astray>>

\* Mutant: only what monitoring itself puts back is remembered.
RestoreKept(t) == restore

\* What rememberLevel leaves for monitoring to put back.
RestoreAfter(t) ==
  IF track[t] = "Mic" /\ level[t] > 0 THEN level[t] ELSE restore

\* Mutant: nobody is told.
TellsNobody(t) == Home(t, todo[t])

AfterRemember(t) == "announce"

\* rememberLevel, in one critical section.  Whatever was remembered of the
\* track before and is not announced yet will come late.
Remember(t) ==
  LET e == track[t] IN
  /\ pc[t] = "remember"
  /\ mirror' = [mirror EXCEPT ![e] = level[t]]
  /\ restore' = RestoreAfter(t)
  /\ Goto(t, AfterRemember(t))
  /\ queue' = [i \in DOMAIN queue |->
                 [queue[i] EXCEPT !.late = @ \/ queue[i].track = e]]
  /\ late' = [late EXCEPT
                ![Other(t)] = @ \/ (pc[Other(t)] = "announce" /\ track[Other(t)] = e)]
  /\ behind' = IF overtaken[t] THEN behind \cup {e} ELSE behind \ {e}
  /\ unheard' = IF e = "Mic" /\ level[t] > 0 THEN overtaken[t] ELSE unheard
  /\ overtaken' = [overtaken EXCEPT ![t] = FALSE]
  /\ UNCHANGED <<driverVars, wantReading, shown, track, level, todo, calls, heard,
                 astray>>

\* A gauge takes an announced level.
GaugeTakes(e, l, isLate) ==
  /\ shown' = [shown EXCEPT ![e] = l]
  /\ astray' = IF isLate THEN astray \cup {e} ELSE astray \ {e}

\* levelChanged reaches the gauges at once from the interface's own thread, and
\* through its queue from the worker.
Announce(t) ==
  /\ pc[t] = "announce"
  /\ IF t = "interface"
       THEN GaugeTakes(track[t], level[t], late[t]) /\ UNCHANGED queue
       ELSE /\ Len(queue) < MaxQueue
            /\ queue' = Append(queue, [track |-> track[t], level |-> level[t],
                                       late |-> late[t]])
            /\ UNCHANGED <<shown, astray>>
  /\ late' = [late EXCEPT ![t] = FALSE]
  /\ Return(t)
  /\ UNCHANGED <<driverVars, mirrorVars, wantReading, todo, calls, heard, unheard,
                 overtaken, behind>>

SetLevel(t, e, l) ==
  /\ track' = [track EXCEPT ![t] = e]
  /\ level' = [level EXCEPT ![t] = l]
  /\ Goto(t, "write")

SetLevelStep(t) ==
  \/ WriteLands(t)
  \/ WriteFails(t)
  \/ WriteHalf(t)
  \/ Remember(t)
  \/ Announce(t)

-----------------------------------------------------------------------------
(* setMicMonitor(!micMonitor()), for a push on the worker and for the tile *)
(* on the interface.                                                       *)

\* micMonitor is one critical section, and what it says is stale at once.
Decide(t) ==
  /\ pc[t] = "decide"
  /\ IF mirror["Mic"] > 0
       THEN SetLevel(t, "Mic", 0)
       ELSE Goto(t, "lookUp") /\ UNCHANGED <<track, level>>
  /\ UNCHANGED <<driverVars, mirrorVars, wantReading, guiVars, todo, calls,
                 ghostVars>>

\* The level to put back is read in another, let go before the write.
LookUp(t) ==
  /\ pc[t] = "lookUp"
  /\ SetLevel(t, "Mic", restore)
  /\ UNCHANGED <<driverVars, mirrorVars, wantReading, guiVars, todo, calls,
                 ghostVars>>

-----------------------------------------------------------------------------
(* publishDeviceState.                                                     *)

\* A track the deck has not answered for is left alone.
Skips(e) == cache[e] = NoLevel

Publish(t, e) ==
  /\ pc[t] = "publish"
  /\ e \in todo[t]
  /\ todo' = [todo EXCEPT ![t] = @ \ {e}]
  /\ IF Skips(e)
       THEN /\ Goto(t, Home(t, todo[t] \ {e}))
            /\ UNCHANGED <<track, level>>
       ELSE /\ track' = [track EXCEPT ![t] = e]
            /\ level' = [level EXCEPT ![t] = cache[e]]
            /\ Goto(t, "remember")
  /\ UNCHANGED <<driverVars, mirrorVars, wantReading, guiVars, calls, ghostVars>>

-----------------------------------------------------------------------------
(* The worker.                                                             *)

\* connect() opens the deck.  The interface may set a level from now on.
Connect ==
  /\ pc["worker"] = "down"
  /\ connected' = TRUE
  /\ Goto("worker", "handshake")
  /\ UNCHANGED <<reg, cache, mirrorVars, wantReading, guiVars, track, level, todo,
                 calls, ghostVars>>

\* The handshake has put the registers back to what somebody left them at, and
\* the levels are read.
EndHandshake ==
  /\ pc["worker"] = "handshake"
  /\ reg' \in [Tracks -> Steps]
  /\ Goto("worker", "adopt")
  /\ todo' = [todo EXCEPT !["worker"] = Tracks]
  /\ UNCHANGED <<cache, connected, mirrorVars, wantReading, guiVars, track, level,
                 calls, ghostVars>>

\* The handshake fails, or poll() finds the deck gone.
Disconnect ==
  /\ pc["worker"] \in {"handshake", "poll"}
  /\ connected' = FALSE
  /\ Goto("worker", "down")
  /\ UNCHANGED <<reg, cache, mirrorVars, wantReading, guiVars, track, level, todo,
                 calls, ghostVars>>

\* A request to read again is taken before the reading.
Reread ==
  /\ pc["worker"] = "poll"
  /\ wantReading
  /\ wantReading' = FALSE
  /\ Goto("worker", "reread")
  /\ todo' = [todo EXCEPT !["worker"] = Tracks]
  /\ UNCHANGED <<driverVars, mirrorVars, guiVars, track, level, calls, ghostVars>>

\* readLevels, of one track: the deck answers, or it does not.
ReadLevel(e) ==
  /\ pc["worker"] \in {"adopt", "reread"}
  /\ e \in todo["worker"]
  /\ todo' = [todo EXCEPT !["worker"] = @ \ {e}]
  /\ \/ CacheTakes("worker", e, reg[e])
     \/ UNCHANGED <<cache, overtaken, heard>>
  /\ UNCHANGED <<reg, connected, mirrorVars, wantReading, guiVars, pc, track,
                 level, calls, unheard, late, behind, astray>>

\* The reading is over.  After a connect, the request to read is cleared.
EndReading ==
  /\ pc["worker"] \in {"adopt", "reread"}
  /\ todo["worker"] = {}
  /\ wantReading' = IF pc["worker"] = "adopt" THEN FALSE ELSE wantReading
  /\ todo' = [todo EXCEPT !["worker"] = Tracks]
  /\ Goto("worker", "publish")
  /\ UNCHANGED <<driverVars, mirrorVars, guiVars, track, level, calls, ghostVars>>

\* A turn from the cached level, which the driver writes and reports.  A request
\* to read may have come since the worker looked for one, and one report may
\* hold more turns than this.
Turn(e, d) ==
  /\ pc["worker"] = "poll"
  /\ calls < MaxCalls
  /\ calls' = calls + 1
  /\ cache[e] # NoLevel
  /\ Clamped(cache[e] + d) # cache[e]
  /\ SetLevel("worker", e, Clamped(cache[e] + d))
  /\ UNCHANGED <<driverVars, mirrorVars, wantReading, guiVars, todo, ghostVars>>

\* The microphone's knob is pushed.
Push ==
  /\ pc["worker"] = "poll"
  /\ calls < MaxCalls
  /\ calls' = calls + 1
  /\ Goto("worker", "decide")
  /\ UNCHANGED <<driverVars, mirrorVars, wantReading, guiVars, track, level, todo,
                 ghostVars>>

Worker ==
  \/ Connect
  \/ EndHandshake
  \/ Disconnect
  \/ Reread
  \/ \E e \in Tracks : ReadLevel(e)
  \/ EndReading
  \/ \E e \in Tracks, d \in {-1, 1} : Turn(e, d)
  \/ Push

-----------------------------------------------------------------------------
(* The interface.                                                          *)

\* A gauge is drawn where it is dragged to, and then sent.
Drag(e, l) ==
  /\ pc["interface"] = "idle"
  /\ calls < MaxCalls
  /\ calls' = calls + 1
  /\ shown' = [shown EXCEPT ![e] = l]
  /\ astray' = astray \cup {e}
  /\ SetLevel("interface", e, l)
  /\ UNCHANGED <<driverVars, mirrorVars, wantReading, queue, todo, heard, unheard,
                 overtaken, late, behind>>

\* The Mute mic tile, while the panel edits the creator's mix.  In the audience's
\* it sets a track that is not monitored.
MuteTile ==
  /\ pc["interface"] = "idle"
  /\ calls < MaxCalls
  /\ calls' = calls + 1
  /\ SetLevel("interface", "Mic", 0)
  /\ UNCHANGED <<driverVars, mirrorVars, wantReading, guiVars, todo, ghostVars>>

MonitorTile ==
  /\ pc["interface"] = "idle"
  /\ calls < MaxCalls
  /\ calls' = calls + 1
  /\ Goto("interface", "decide")
  /\ UNCHANGED <<driverVars, mirrorVars, wantReading, guiVars, track, level, todo,
                 ghostVars>>

\* The driver's selectMix, which may make the deck copy playback tracks over
\* (Mixer), whether or not it succeeds.
SwitchTile ==
  /\ pc["interface"] = "idle"
  /\ calls < MaxCalls
  /\ calls' = calls + 1
  /\ connected
  /\ reg' \in {r \in [Tracks -> Steps] : r["Mic"] = reg["Mic"]}
  /\ \/ Goto("interface", "want")
     \/ UNCHANGED pc
  /\ UNCHANGED <<cache, connected, mirrorVars, wantReading, guiVars, track, level,
                 todo, ghostVars>>

\* It asks for a reading, and publishes what there is.
Want ==
  /\ pc["interface"] = "want"
  /\ wantReading' = TRUE
  /\ todo' = [todo EXCEPT !["interface"] = Tracks]
  /\ Goto("interface", "publish")
  /\ UNCHANGED <<driverVars, mirrorVars, guiVars, track, level, calls, ghostVars>>

\* The event loop takes the next of the worker's announcements.
Deliver ==
  /\ pc["interface"] = "idle"
  /\ queue # <<>>
  /\ GaugeTakes(Head(queue).track, Head(queue).level, Head(queue).late)
  /\ queue' = Tail(queue)
  /\ UNCHANGED <<driverVars, mirrorVars, wantReading, callVars, calls, heard,
                 unheard, overtaken, late, behind>>

Interface ==
  \/ \E e \in Tracks, l \in Steps : Drag(e, l)
  \/ MuteTile
  \/ MonitorTile
  \/ SwitchTile
  \/ Want
  \/ Deliver

BridgeNext ==
  \/ \E t \in Threads :
       \/ SetLevelStep(t)
       \/ Decide(t)
       \/ LookUp(t)
       \/ \E e \in Tracks : Publish(t, e)
  \/ Worker
  \/ Interface

BridgeSpec == BridgeInit /\ [][BridgeNext]_bridgeVars

-----------------------------------------------------------------------------
(* Properties.                                                             *)

\* The levels "as last written or last read from the deck" (DeviceBridge.hpp,
\* _levels): the mirror has the driver's cached level of a track, once whoever
\* changed or read it has come back through rememberLevel.  It is left behind
\* by two threads whose calls crossed, until the next level of the track, and
\* by a microphone level of which half was lost.
MirrorFollowsCache ==
  \A e \in Tracks \ behind :
    (\A t \in Threads : ~Carries(t, e))
      => cache[e] = NoLevel \/ mirror[e] = cache[e]

\* "What monitoring is restored to is any level this track has been seen at"
\* (DeviceBridge.cpp:327): it is the last one above silence the driver knew the
\* microphone at, by whichever route it came and went, unless that level was
\* gone before the mirror could have it.
RestoreIsWhatWasHeard ==
  ~unheard /\ (\A t \in Threads : ~Carries(t, "Mic")) => restore = heard

\* Each change of the mirror is announced: with nothing on its way a gauge
\* stands at the mirror's level, unless the last it took was an event that
\* another thread's had passed, or a drag that was refused.
GaugesFollowMirror ==
  \A e \in Tracks \ astray :
    \/ shown[e] = mirror[e]
    \/ \E i \in DOMAIN queue : queue[i].track = e
    \/ \E t \in Threads : pc[t] = "announce" /\ track[t] = e

-----------------------------------------------------------------------------
(* The inductive invariants.                                               *)

\* A level in somebody's hands is the cached one, but for one overtaken.
HeldIsCached ==
  \A t \in Threads :
    pc[t] = "remember" /\ ~overtaken[t] => cache[track[t]] = level[t]

\* What is in the cache above silence has been heard last.
CachedIsHeard == cache["Mic"] > 0 => heard = cache["Mic"]

\* Monitoring's level is right unless a level above silence is on its way.
RestoreOrOnItsWay ==
  \/ unheard
  \/ \E t \in Threads : Holds(t, "Mic") /\ level[t] > 0
  \/ Unpublished
  \/ restore = heard

\* A thread that is about nothing has nothing left to publish.
IdleHasNothingLeft ==
  \A t \in Threads :
    pc[t] \in {"down", "handshake", "poll", "idle"} => todo[t] = {}

MirrorInv ==
  /\ BridgeTypeOK
  /\ IdleHasNothingLeft
  /\ HeldIsCached
  /\ MirrorFollowsCache
  /\ CachedIsHeard
  /\ RestoreOrOnItsWay

\* An announcement that is not late says what the mirror has, whether it waits
\* for the interface or in a thread's hands; only announcements come late.
AnnouncementsAreTrue ==
  /\ \A i \in DOMAIN queue :
       ~queue[i].late => queue[i].level = mirror[queue[i].track]
  /\ \A t \in Threads :
       /\ pc[t] = "announce" /\ ~late[t] => level[t] = mirror[track[t]]
       /\ late[t] => pc[t] = "announce"

\* What holds in every state of the bridge.
BridgeInv ==
  /\ MirrorInv
  /\ AnnouncementsAreTrue
  /\ GaugesFollowMirror

=============================================================================
