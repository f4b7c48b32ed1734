---------------------------- MODULE BridgeProofs ----------------------------
(***************************************************************************)
(* What the bridge's mirror, monitoring's level and the gauges are worth,  *)
(* for any tracks, any scale, any length of the event queue and any number *)
(* of calls.                                                               *)
(***************************************************************************)
EXTENDS Bridge, SequenceTheorems, TLAPS

LEMMA ZeroIsAStep == 0 \in Steps
  BY BridgeAssumption DEF Steps

\* The initial state is of the right types.
LEMMA TypesBegin == BridgeInit => BridgeTypeOK
  <1> SUFFICES ASSUME BridgeInit PROVE BridgeTypeOK
    OBVIOUS
  <1> USE ZeroIsAStep DEF BridgeInit
  <1>1. DriverTypes
    BY DEF DriverTypes
  <1>2. MirrorTypes
    BY BridgeAssumption DEF MirrorTypes
  <1>3. GuiTypes
    BY BridgeAssumption DEF GuiTypes
  <1>4. CallTypes
    BY BridgeAssumption DEF CallTypes, Pcs, CallPc, Threads
  <1>5. GhostTypes
    BY BridgeAssumption DEF GhostTypes
  <1>6. QED
    BY <1>1, <1>2, <1>3, <1>4, <1>5 DEF BridgeTypeOK

\* A turn, a drag or a reading never leaves the scale.
LEMMA ClampedIsAStep == \A n \in Int : Clamped(n) \in Steps
  BY BridgeAssumption DEF Clamped, Steps

\* A thread comes home to a place of its own.
LEMMA HomeIsAPlace ==
  \A t \in Threads, left \in SUBSET Tracks : Home(t, left) \in Pcs[t]
  BY DEF Home, Pcs, CallPc, Threads

\* A thread that moves to a place of its own keeps the types of the calls.
LEMMA GotoKeepsTypes ==
  ASSUME CallTypes, NEW t \in Threads, NEW l \in Pcs[t], Goto(t, l),
         UNCHANGED <<track, level, todo, calls>>
  PROVE  CallTypes'
  BY DEF CallTypes, Goto, Pcs, CallPc, Threads

\* So does one that comes home.
LEMMA ReturnKeepsTypes ==
  ASSUME CallTypes, NEW t \in Threads, Return(t), UNCHANGED <<todo, calls>>
  PROVE  CallTypes'
  <1>1. Home(t, todo[t]) \in Pcs[t]
    BY HomeIsAPlace DEF CallTypes
  <1>2. pc' \in [Threads -> Pcs["worker"] \cup Pcs["interface"]]
        /\ \A u \in Threads : pc'[u] \in Pcs[u]
    BY <1>1 DEF CallTypes, Return, Goto, Pcs, CallPc, Threads
  <1>3. QED
    BY <1>2, BridgeAssumption, ZeroIsAStep DEF CallTypes, Return

\* A level the cache takes is one of the scale's, and heard above silence only.
LEMMA CacheTakesKeepsTypes ==
  ASSUME BridgeTypeOK, NEW t \in Threads, NEW e \in Tracks, NEW l \in Steps,
         CacheTakes(t, e, l)
  PROVE  /\ cache' \in [Tracks -> Steps \cup {NoLevel}]
         /\ heard' \in 1 .. MaxSteps
         /\ overtaken' \in [Threads -> BOOLEAN]
  <1>1. cache' \in [Tracks -> Steps \cup {NoLevel}]
    BY DEF CacheTakes, BridgeTypeOK, DriverTypes
  <1>2. heard' \in 1 .. MaxSteps
    BY BridgeAssumption DEF CacheTakes, BridgeTypeOK, GhostTypes, Steps
  <1>3. overtaken' \in [Threads -> BOOLEAN]
    BY DEF CacheTakes, BridgeTypeOK, GhostTypes, Threads, Other, Holds
  <1>4. QED
    BY <1>1, <1>2, <1>3


-----------------------------------------------------------------------------
(* Types, action by action.                                                *)

LEMMA TypesOfWriteLands ==
  ASSUME BridgeTypeOK, NEW t \in Threads, WriteLands(t)
  PROVE  BridgeTypeOK'
  <1>1. track[t] \in Tracks /\ level[t] \in Steps
    BY DEF BridgeTypeOK, CallTypes
  <1>2. DriverTypes'
    BY <1>1, CacheTakesKeepsTypes DEF WriteLands, BridgeTypeOK, DriverTypes
  <1>3. MirrorTypes' /\ GuiTypes'
    BY DEF WriteLands, BridgeTypeOK, MirrorTypes, GuiTypes, mirrorVars, guiVars
  <1>4. CallTypes'
    BY GotoKeepsTypes DEF WriteLands, BridgeTypeOK, Pcs, CallPc, Threads
  <1>5. unheard' \in BOOLEAN
    BY DEF WriteLands
  <1>6. GhostTypes'
    BY <1>1, <1>5, CacheTakesKeepsTypes DEF WriteLands, BridgeTypeOK, GhostTypes
  <1>7. QED
    BY <1>2, <1>3, <1>4, <1>6 DEF BridgeTypeOK

LEMMA TypesOfWriteFails ==
  ASSUME BridgeTypeOK, NEW t \in Threads, WriteFails(t)
  PROVE  BridgeTypeOK'
  <1>1. CallTypes'
    BY ReturnKeepsTypes DEF WriteFails, GiveUp, BridgeTypeOK
  <1>2. QED
    BY <1>1 DEF WriteFails, BridgeTypeOK, DriverTypes, MirrorTypes, GuiTypes,
       GhostTypes, driverVars, mirrorVars, guiVars, ghostVars

LEMMA TypesOfWriteHalf ==
  ASSUME BridgeTypeOK, NEW t \in Threads, WriteHalf(t)
  PROVE  BridgeTypeOK'
  <1>1. "Mic" \in Tracks /\ level[t] \in Steps
    BY BridgeAssumption DEF BridgeTypeOK, CallTypes
  <1>2. DriverTypes'
    BY <1>1, CacheTakesKeepsTypes DEF WriteHalf, BridgeTypeOK, DriverTypes
  <1>3. MirrorTypes' /\ GuiTypes'
    BY DEF WriteHalf, BridgeTypeOK, MirrorTypes, GuiTypes, mirrorVars, guiVars
  <1>4. CallTypes'
    BY ReturnKeepsTypes DEF WriteHalf, GiveUp, BridgeTypeOK
  <1>5. unheard' \in BOOLEAN
    BY DEF WriteHalf
  <1>6. GhostTypes'
    BY <1>1, <1>5, CacheTakesKeepsTypes DEF WriteHalf, BridgeTypeOK, GhostTypes
  <1>7. QED
    BY <1>2, <1>3, <1>4, <1>6 DEF BridgeTypeOK

LEMMA TypesOfRemember ==
  ASSUME BridgeTypeOK, NEW t \in Threads, Remember(t)
  PROVE  BridgeTypeOK'
  <1>1. track[t] \in Tracks /\ level[t] \in Steps
    BY DEF BridgeTypeOK, CallTypes
  <1>2. DriverTypes'
    BY DEF Remember, BridgeTypeOK, DriverTypes, driverVars
  <1>3. MirrorTypes'
    BY <1>1, BridgeAssumption DEF Remember, RestoreAfter, BridgeTypeOK, MirrorTypes,
       Steps
  <1>4. GuiTypes'
    <2>1. queue' \in Seq(Event) /\ Len(queue') = Len(queue)
      <3>1. Len(queue) \in Nat /\ DOMAIN queue = 1 .. Len(queue)
            /\ \A i \in 1 .. Len(queue) : queue[i] \in Event
        BY DEF BridgeTypeOK, GuiTypes
      <3>2. \A i \in 1 .. Len(queue), b \in BOOLEAN :
              [queue[i] EXCEPT !.late = b] \in Event
        BY <3>1 DEF Event
      <3>3. \A i \in 1 .. Len(queue) :
              (queue[i].late \/ queue[i].track = track[t]) \in BOOLEAN
        BY Zenon
      <3>4. \A i \in 1 .. Len(queue) :
              [queue[i] EXCEPT !.late = @ \/ queue[i].track = track[t]] \in Event
        BY <3>2, <3>3
      <3>5. queue' = [i \in 1 .. Len(queue) |->
                        [queue[i] EXCEPT !.late = @ \/ queue[i].track = track[t]]]
        BY <3>1 DEF Remember
      <3>6. queue' \in [1 .. Len(queue) -> Event]
        BY <3>4, <3>5
      <3>7. QED
        BY <3>1, <3>6, SeqDef, LenProperties
    <2>2. QED
      BY <2>1 DEF Remember, BridgeTypeOK, GuiTypes
  <1>5. CallTypes'
    BY GotoKeepsTypes DEF Remember, AfterRemember, BridgeTypeOK, Pcs, CallPc, Threads
  <1>6. late' \in [Threads -> BOOLEAN] /\ overtaken' \in [Threads -> BOOLEAN]
    BY DEF Remember, BridgeTypeOK, GhostTypes, Threads, Other
  <1>7. unheard' \in BOOLEAN /\ behind' \in SUBSET Tracks
    BY <1>1 DEF Remember, BridgeTypeOK, GhostTypes
  <1>8. GhostTypes'
    BY <1>6, <1>7 DEF Remember, BridgeTypeOK, GhostTypes
  <1>9. QED
    BY <1>2, <1>3, <1>4, <1>5, <1>8 DEF BridgeTypeOK

LEMMA TypesOfAnnounce ==
  ASSUME BridgeTypeOK, NEW t \in Threads, Announce(t)
  PROVE  BridgeTypeOK'
  <1>1. track[t] \in Tracks /\ level[t] \in Steps /\ late[t] \in BOOLEAN
    BY DEF BridgeTypeOK, CallTypes, GhostTypes
  <1>2. DriverTypes' /\ MirrorTypes'
    BY DEF Announce, BridgeTypeOK, DriverTypes, MirrorTypes, driverVars, mirrorVars
  <1>3. GuiTypes' /\ astray' \in SUBSET Tracks
    <2>1. CASE t = "interface"
      BY <1>1, <2>1 DEF Announce, GaugeTakes, BridgeTypeOK, GuiTypes, GhostTypes
    <2>2. CASE t # "interface"
      <3>1. [track |-> track[t], level |-> level[t], late |-> late[t]] \in Event
        BY <1>1 DEF Event
      <3>2. queue' \in Seq(Event) /\ Len(queue') = Len(queue) + 1
        BY <3>1, <2>2 DEF Announce, BridgeTypeOK, GuiTypes
      <3>3. Len(queue) \in Nat /\ Len(queue) < MaxQueue
        BY <2>2 DEF Announce, BridgeTypeOK, GuiTypes
      <3>4. QED
        BY <2>2, <3>2, <3>3, BridgeAssumption DEF Announce, BridgeTypeOK, GuiTypes,
           GhostTypes
    <2>3. QED
      BY <2>1, <2>2
  <1>4. CallTypes'
    BY ReturnKeepsTypes DEF Announce, BridgeTypeOK
  <1>5. GhostTypes'
    BY <1>3 DEF Announce, BridgeTypeOK, GhostTypes
  <1>6. QED
    BY <1>2, <1>3, <1>4, <1>5 DEF BridgeTypeOK

\* monitoring's two reads, and the fetch of a track that is published
LEMMA TypesOfDecide ==
  ASSUME BridgeTypeOK, NEW t \in Threads, Decide(t) \/ LookUp(t)
  PROVE  BridgeTypeOK'
  <1>1. "Mic" \in Tracks /\ 0 \in Steps /\ restore \in Steps
    BY BridgeAssumption DEF BridgeTypeOK, MirrorTypes, Steps
  <1>2. CallTypes'
    BY <1>1 DEF Decide, LookUp, SetLevel, Goto, BridgeTypeOK, CallTypes, Pcs, CallPc,
       Threads
  <1>3. QED
    BY <1>2 DEF Decide, LookUp, BridgeTypeOK, DriverTypes, MirrorTypes, GuiTypes,
       GhostTypes, driverVars, mirrorVars, guiVars, ghostVars

LEMMA TypesOfPublish ==
  ASSUME BridgeTypeOK, NEW t \in Threads, NEW e \in Tracks, Publish(t, e)
  PROVE  BridgeTypeOK'
  <1>1. todo' \in [Threads -> SUBSET Tracks] /\ calls' \in 0 .. MaxCalls
    BY DEF Publish, BridgeTypeOK, CallTypes
  <1>2. CallTypes'
    <2>1. CASE Skips(e)
      <3>1. Home(t, todo[t] \ {e}) \in Pcs[t]
        BY HomeIsAPlace DEF BridgeTypeOK, CallTypes
      <3>2. Goto(t, Home(t, todo[t] \ {e})) /\ UNCHANGED <<track, level>>
        BY <2>1 DEF Publish
      <3>3. QED
        BY <1>1, <3>1, <3>2 DEF BridgeTypeOK, CallTypes, Goto, Pcs, CallPc, Threads
    <2>2. CASE ~Skips(e)
      <3>1. cache[e] \in Steps
        BY <2>2 DEF Skips, BridgeTypeOK, DriverTypes
      <3>2. QED
        BY <1>1, <2>2, <3>1 DEF Publish, BridgeTypeOK, CallTypes, Goto, Pcs, CallPc,
           Threads
    <2>3. QED
      BY <2>1, <2>2
  <1>3. QED
    BY <1>2 DEF Publish, BridgeTypeOK, DriverTypes, MirrorTypes, GuiTypes,
       GhostTypes, driverVars, mirrorVars, guiVars, ghostVars

\* A call that only moves the thread, or calls setLevel.
LEMMA TypesOfTurn ==
  ASSUME BridgeTypeOK, NEW e \in Tracks, NEW d \in {-1, 1}, Turn(e, d)
  PROVE  BridgeTypeOK'
  <1>1. cache[e] \in Int
    BY DEF BridgeTypeOK, DriverTypes, Steps, NoLevel
  <1>2. Clamped(cache[e] + d) \in Steps
    BY <1>1, ClampedIsAStep
  <1>3. calls' \in 0 .. MaxCalls
    BY BridgeAssumption DEF Turn, BridgeTypeOK, CallTypes
  <1>4. CallTypes'
    BY <1>2, <1>3 DEF Turn, SetLevel, Goto, BridgeTypeOK, CallTypes, Pcs, CallPc,
       Threads
  <1>5. QED
    BY <1>4 DEF Turn, BridgeTypeOK, DriverTypes, MirrorTypes, GuiTypes, GhostTypes,
       driverVars, mirrorVars, guiVars, ghostVars

LEMMA TypesOfWorker ==
  ASSUME BridgeTypeOK, Worker
  PROVE  BridgeTypeOK'
  <1>1. CASE Connect
    BY <1>1 DEF Connect, Goto, BridgeTypeOK, DriverTypes, MirrorTypes, GuiTypes,
       CallTypes, GhostTypes, mirrorVars, guiVars, ghostVars, Pcs, CallPc, Threads
  <1>2. CASE EndHandshake
    BY <1>2 DEF EndHandshake, Goto, BridgeTypeOK, DriverTypes, MirrorTypes, GuiTypes,
       CallTypes, GhostTypes, mirrorVars, guiVars, ghostVars, Pcs, CallPc, Threads
  <1>3. CASE Disconnect
    <2>1. CallTypes'
      BY <1>3, GotoKeepsTypes DEF Disconnect, BridgeTypeOK, Pcs, CallPc, Threads
    <2>2. QED
      BY <1>3, <2>1 DEF Disconnect, BridgeTypeOK, DriverTypes, MirrorTypes, GuiTypes,
         GhostTypes, mirrorVars, guiVars, ghostVars
  <1>4. CASE Reread
    <2>1. CallTypes'
      BY <1>4 DEF Reread, Goto, BridgeTypeOK, CallTypes, Pcs, CallPc, Threads
    <2>2. QED
      BY <1>4, <2>1 DEF Reread, BridgeTypeOK, DriverTypes, MirrorTypes, GuiTypes,
         GhostTypes, driverVars, mirrorVars, guiVars, ghostVars
  <1>5. ASSUME NEW e \in Tracks, ReadLevel(e)
        PROVE  BridgeTypeOK'
    <2>1. reg[e] \in Steps /\ "worker" \in Threads
      BY DEF BridgeTypeOK, DriverTypes, Threads
    <2>2. /\ cache' \in [Tracks -> Steps \cup {NoLevel}]
          /\ heard' \in 1 .. MaxSteps
          /\ overtaken' \in [Threads -> BOOLEAN]
      <3>1. CASE CacheTakes("worker", e, reg[e])
        BY <2>1, <3>1, CacheTakesKeepsTypes
      <3>2. CASE UNCHANGED <<cache, overtaken, heard>>
        BY <3>2 DEF BridgeTypeOK, DriverTypes, GhostTypes
      <3>3. QED
        BY <1>5, <3>1, <3>2 DEF ReadLevel
    <2>3. CallTypes'
      BY <1>5 DEF ReadLevel, BridgeTypeOK, CallTypes, Threads
    <2>4. QED
      BY <1>5, <2>2, <2>3 DEF ReadLevel, BridgeTypeOK, DriverTypes, MirrorTypes,
         GuiTypes, GhostTypes, mirrorVars, guiVars
  <1>6. CASE EndReading
    <2>1. wantReading' \in BOOLEAN
      BY <1>6 DEF EndReading, BridgeTypeOK, MirrorTypes
    <2>2. CallTypes'
      BY <1>6 DEF EndReading, Goto, BridgeTypeOK, CallTypes, Pcs, CallPc, Threads
    <2>3. QED
      BY <1>6, <2>1, <2>2 DEF EndReading, BridgeTypeOK, DriverTypes, MirrorTypes,
         GuiTypes, GhostTypes, driverVars, mirrorVars, guiVars, ghostVars
  <1>7. CASE Push
    <2>1. CallTypes'
      BY <1>7, BridgeAssumption DEF Push, Goto, BridgeTypeOK, CallTypes, Pcs, CallPc,
         Threads
    <2>2. QED
      BY <1>7, <2>1 DEF Push, BridgeTypeOK, DriverTypes, MirrorTypes, GuiTypes,
         GhostTypes, driverVars, mirrorVars, guiVars, ghostVars
  <1>8. QED
    BY <1>1, <1>2, <1>3, <1>4, <1>5, <1>6, <1>7, TypesOfTurn DEF Worker

LEMMA TypesOfInterface ==
  ASSUME BridgeTypeOK, Interface
  PROVE  BridgeTypeOK'
  <1>1. ASSUME NEW e \in Tracks, NEW l \in Steps, Drag(e, l)
        PROVE  BridgeTypeOK'
    <2>1. CallTypes'
      BY <1>1, BridgeAssumption DEF Drag, SetLevel, Goto, BridgeTypeOK, CallTypes,
         Pcs, CallPc, Threads
    <2>2. QED
      BY <1>1, <2>1 DEF Drag, BridgeTypeOK, DriverTypes, MirrorTypes, GuiTypes,
         GhostTypes, driverVars, mirrorVars
  <1>2. CASE MuteTile \/ MonitorTile
    <2>1. CallTypes'
      BY <1>2, BridgeAssumption, ZeroIsAStep DEF MuteTile, MonitorTile, SetLevel, Goto,
         BridgeTypeOK, CallTypes, Pcs, CallPc, Threads
    <2>2. QED
      BY <1>2, <2>1 DEF MuteTile, MonitorTile, BridgeTypeOK, DriverTypes, MirrorTypes,
         GuiTypes, GhostTypes, driverVars, mirrorVars, guiVars, ghostVars
  <1>3. CASE SwitchTile
    <2>1. CallTypes'
      BY <1>3, BridgeAssumption DEF SwitchTile, Goto, BridgeTypeOK, CallTypes, Pcs,
         CallPc, Threads
    <2>2. QED
      BY <1>3, <2>1 DEF SwitchTile, BridgeTypeOK, DriverTypes, MirrorTypes, GuiTypes,
         GhostTypes, mirrorVars, guiVars, ghostVars
  <1>4. CASE Want
    BY <1>4 DEF Want, Goto, BridgeTypeOK, DriverTypes, MirrorTypes, GuiTypes,
       CallTypes, GhostTypes, driverVars, mirrorVars, guiVars, ghostVars, Pcs, CallPc,
       Threads
  <1>5. CASE Deliver
    <2>1. Head(queue) \in Event /\ Tail(queue) \in Seq(Event)
          /\ Len(Tail(queue)) = Len(queue) - 1
      BY <1>5 DEF Deliver, BridgeTypeOK, GuiTypes
    <2>2. Head(queue).track \in Tracks /\ Head(queue).level \in Steps
      BY <2>1 DEF Event
    <2>3. GuiTypes'
      <3>1. shown' \in [Tracks -> Steps]
        BY <1>5, <2>2 DEF Deliver, GaugeTakes, BridgeTypeOK, GuiTypes
      <3>2. Len(queue) \in Nat /\ Len(queue) <= MaxQueue
        BY DEF BridgeTypeOK, GuiTypes
      <3>3. QED
        BY <1>5, <2>1, <3>1, <3>2, BridgeAssumption DEF Deliver, GuiTypes
    <2>4. astray' \in SUBSET Tracks
      BY <1>5, <2>2 DEF Deliver, GaugeTakes, BridgeTypeOK, GhostTypes
    <2>5. QED
      BY <1>5, <2>3, <2>4 DEF Deliver, BridgeTypeOK, DriverTypes, MirrorTypes,
         CallTypes, GhostTypes, driverVars, mirrorVars, callVars
  <1>6. QED
    BY <1>1, <1>2, <1>3, <1>4, <1>5 DEF Interface

LEMMA TypesStay == BridgeTypeOK /\ [BridgeNext]_bridgeVars => BridgeTypeOK'
  <1> SUFFICES ASSUME BridgeTypeOK, [BridgeNext]_bridgeVars PROVE BridgeTypeOK'
    OBVIOUS
  <1>1. ASSUME NEW t \in Threads, SetLevelStep(t) PROVE BridgeTypeOK'
    BY <1>1, TypesOfWriteLands, TypesOfWriteFails, TypesOfWriteHalf, TypesOfRemember,
       TypesOfAnnounce DEF SetLevelStep
  <1>2. ASSUME NEW t \in Threads, Decide(t) \/ LookUp(t) PROVE BridgeTypeOK'
    BY <1>2, TypesOfDecide
  <1>3. ASSUME NEW t \in Threads, NEW e \in Tracks, Publish(t, e) PROVE BridgeTypeOK'
    BY <1>3, TypesOfPublish
  <1>4. CASE UNCHANGED bridgeVars
    BY <1>4 DEF bridgeVars, BridgeTypeOK, DriverTypes, MirrorTypes, GuiTypes,
       CallTypes, GhostTypes, driverVars, mirrorVars, guiVars, callVars, ghostVars
  <1>5. QED
    BY <1>1, <1>2, <1>3, <1>4, TypesOfWorker, TypesOfInterface DEF BridgeNext

\* No level leaves the scale by any route -- a drag, a turn, monitoring, a
\* reading or an event -- and what monitoring puts back is never silence.
THEOREM LevelsStayOnTheScale == BridgeSpec => []BridgeTypeOK
  BY TypesBegin, TypesStay, PTL DEF BridgeSpec

-----------------------------------------------------------------------------
(* The invariant.                                                          *)

\* What a step that touches neither the cache nor the mirror has to keep.
Aside ==
  /\ UNCHANGED <<cache, mirror, restore, heard, unheard, overtaken, behind>>
  /\ \A t \in Threads :
       /\ pc'[t] = "remember" <=> pc[t] = "remember"
       /\ pc[t] = "remember" => track'[t] = track[t] /\ level'[t] = level[t]
       /\ \A e \in Tracks : Fetches(t, e) => Fetches(t, e)'
  /\ Unpublished => Unpublished'
  /\ IdleHasNothingLeft'

\* Such a step keeps the invariant.
LEMMA AsideKeepsInv ==
  ASSUME MirrorInv, BridgeTypeOK', Aside
  PROVE  MirrorInv'
  <1> USE DEF MirrorInv, Aside
  <1>1. \A t \in Threads, e \in Tracks : Holds(t, e)' <=> Holds(t, e)
    BY DEF Holds
  <1>2. HeldIsCached'
    BY DEF HeldIsCached
  <1>3. MirrorFollowsCache'
    BY <1>1 DEF MirrorFollowsCache, Carries
  <1>4. CachedIsHeard'
    BY DEF CachedIsHeard
  <1>5. RestoreOrOnItsWay'
    BY <1>1, BridgeAssumption DEF RestoreOrOnItsWay, Holds
  <1>6. QED
    BY <1>2, <1>3, <1>4, <1>5

\* The places a thread may come home to.
LEMMA HomeIsNoReading ==
  \A t \in Threads, left \in SUBSET Tracks :
    /\ Home(t, left) \notin {"remember", "adopt", "reread", "want", "down", "handshake"}
    /\ Home(t, left) \in {"idle", "poll"} => left = {}
  BY DEF Home

LEMMA InvAfterLands ==
  ASSUME MirrorInv, BridgeTypeOK', NEW t \in Threads, WriteLands(t)
  PROVE  MirrorInv'
  <1> DEFINE e == track[t]
  <1>1. /\ e \in Tracks /\ level[t] \in Steps /\ "Mic" \in Tracks
        /\ pc[t] = "write" /\ pc' = [pc EXCEPT ![t] = "remember"]
        /\ UNCHANGED <<track, level, todo, mirror, restore, behind>>
        /\ CacheTakes(t, e, level[t])
        /\ unheard' = (unheard \/ (e = "Mic" /\ Unpublished))
    BY BridgeAssumption DEF WriteLands, Goto, mirrorVars, MirrorInv, BridgeTypeOK,
       CallTypes
  <1>2. pc \in [Threads -> Pcs["worker"] \cup Pcs["interface"]]
        /\ cache \in [Tracks -> Steps \cup {NoLevel}]
        /\ overtaken \in [Threads -> BOOLEAN]
    BY DEF MirrorInv, BridgeTypeOK, CallTypes, DriverTypes, GhostTypes
  <1>3. \A u \in Threads : u = t \/ u = Other(t)
    BY DEF Threads, Other
  <1>4. \A u \in Threads, f \in Tracks :
          /\ Fetches(u, f)' <=> Fetches(u, f)
          /\ Holds(u, f)' <=> (Holds(u, f) \/ (u = t /\ f = e))
    BY <1>1, <1>2 DEF Fetches, Holds
  <1>5. IdleHasNothingLeft'
    BY <1>1, <1>2 DEF MirrorInv, IdleHasNothingLeft
  <1>6. HeldIsCached'
    <2> SUFFICES ASSUME NEW u \in Threads, pc'[u] = "remember", ~overtaken'[u]
                 PROVE  cache'[track[u]] = level[u]
      BY <1>1 DEF HeldIsCached
    <2>1. CASE u = t
      BY <1>1, <1>2, <2>1 DEF CacheTakes
    <2>2. CASE u # t
      <3>1. u = Other(t) /\ pc[u] = "remember" /\ track[u] \in Tracks
        BY <1>1, <1>2, <1>3, <2>2 DEF MirrorInv, BridgeTypeOK, CallTypes
      <3>2. ~overtaken[u] /\ ~(Holds(u, e) /\ level[t] # cache[e])
        BY <1>1, <1>2, <3>1 DEF CacheTakes
      <3>3. cache[track[u]] = level[u]
        BY <3>1, <3>2 DEF MirrorInv, HeldIsCached
      <3>4. QED
        BY <1>1, <1>2, <3>1, <3>2, <3>3 DEF CacheTakes, Holds
    <2>3. QED
      BY <2>1, <2>2
  <1>7. MirrorFollowsCache'
    BY <1>1, <1>2, <1>4 DEF MirrorInv, MirrorFollowsCache, Carries, CacheTakes
  <1>8. CachedIsHeard'
    BY <1>1, <1>2 DEF MirrorInv, CachedIsHeard, CacheTakes
  <1>9. RestoreOrOnItsWay'
    <2>1. CASE e = "Mic" /\ level[t] > 0
      BY <1>1, <1>4, <2>1 DEF RestoreOrOnItsWay
    <2>2. CASE e = "Mic" /\ ~(level[t] > 0)
      <3>1. heard' = heard
        BY <1>1, <2>2 DEF CacheTakes
      <3>2. QED
        BY <1>1, <1>4, <2>2, <3>1 DEF MirrorInv, RestoreOrOnItsWay
    <2>3. CASE e # "Mic"
      <3>1. heard' = heard /\ cache'["Mic"] = cache["Mic"] /\ (unheard => unheard')
        BY <1>1, <1>2, <2>3 DEF CacheTakes
      <3>2. Unpublished' <=> Unpublished
        BY <1>1, <1>2, <3>1 DEF Unpublished, Threads
      <3>3. QED
        BY <1>1, <1>4, <3>1, <3>2 DEF MirrorInv, RestoreOrOnItsWay
    <2>4. QED
      BY <2>1, <2>2, <2>3
  <1>10. QED
    BY <1>5, <1>6, <1>7, <1>8, <1>9 DEF MirrorInv

LEMMA InvAfterHalf ==
  ASSUME MirrorInv, BridgeTypeOK', NEW t \in Threads, WriteHalf(t)
  PROVE  MirrorInv'
  <1> DEFINE home == Home(t, todo[t])
  <1>1. /\ level[t] \in Steps /\ "Mic" \in Tracks
        /\ pc[t] = "write" /\ track[t] = "Mic"
        /\ pc' = [pc EXCEPT ![t] = home]
        /\ UNCHANGED <<todo, mirror, restore>>
        /\ CacheTakes(t, "Mic", level[t])
        /\ behind' = behind \cup {"Mic"}
        /\ unheard' = (unheard \/ level[t] > 0 \/ Unpublished)
        /\ \A u \in Threads \ {t} : track'[u] = track[u] /\ level'[u] = level[u]
    BY BridgeAssumption DEF WriteHalf, GiveUp, Return, Goto, mirrorVars, MirrorInv,
       BridgeTypeOK, CallTypes
  <1>2. pc \in [Threads -> Pcs["worker"] \cup Pcs["interface"]]
        /\ cache \in [Tracks -> Steps \cup {NoLevel}]
        /\ overtaken \in [Threads -> BOOLEAN]
    BY DEF MirrorInv, BridgeTypeOK, CallTypes, DriverTypes, GhostTypes
  <1>3. /\ home \notin {"remember", "adopt", "reread", "want", "down", "handshake"}
        /\ home \in {"idle", "poll"} => todo[t] = {}
    BY HomeIsNoReading DEF MirrorInv, BridgeTypeOK, CallTypes
  <1>4. \A u \in Threads : u = t \/ u = Other(t)
    BY DEF Threads, Other
  <1>5. \A u \in Threads, f \in Tracks :
          /\ Fetches(u, f)' <=> Fetches(u, f)
          /\ Holds(u, f)' <=> Holds(u, f)
    BY <1>1, <1>2, <1>3 DEF Fetches, Holds
  <1>6. IdleHasNothingLeft'
    BY <1>1, <1>2, <1>3 DEF MirrorInv, IdleHasNothingLeft
  <1>7. HeldIsCached'
    <2> SUFFICES ASSUME NEW u \in Threads, pc'[u] = "remember", ~overtaken'[u]
                 PROVE  cache'[track'[u]] = level'[u]
      BY DEF HeldIsCached
    <2>1. u # t /\ u = Other(t) /\ pc[u] = "remember" /\ track[u] \in Tracks
      BY <1>1, <1>2, <1>3, <1>4 DEF MirrorInv, BridgeTypeOK, CallTypes
    <2>2. ~overtaken[u] /\ ~(Holds(u, "Mic") /\ level[t] # cache["Mic"])
      BY <1>1, <1>2, <2>1 DEF CacheTakes
    <2>3. cache[track[u]] = level[u]
      BY <2>1, <2>2 DEF MirrorInv, HeldIsCached
    <2>4. QED
      BY <1>1, <1>2, <2>1, <2>2, <2>3 DEF CacheTakes, Holds
  <1>8. MirrorFollowsCache'
    BY <1>1, <1>2, <1>5 DEF MirrorInv, MirrorFollowsCache, Carries, CacheTakes
  <1>9. CachedIsHeard'
    BY <1>1, <1>2 DEF MirrorInv, CachedIsHeard, CacheTakes
  <1>10. RestoreOrOnItsWay'
    <2>1. CASE level[t] > 0 \/ Unpublished
      BY <1>1, <2>1 DEF RestoreOrOnItsWay
    <2>2. CASE ~(level[t] > 0) /\ ~Unpublished
      <3>1. heard' = heard
        BY <1>1, <2>2 DEF CacheTakes
      <3>2. \A u \in Threads : Holds(u, "Mic") => Holds(u, "Mic")' /\ level'[u] = level[u]
        BY <1>1, <1>5 DEF Holds
      <3>3. QED
        BY <1>1, <2>2, <3>1, <3>2 DEF MirrorInv, RestoreOrOnItsWay
    <2>3. QED
      BY <2>1, <2>2
  <1>11. QED
    BY <1>6, <1>7, <1>8, <1>9, <1>10 DEF MirrorInv

LEMMA InvAfterRemember ==
  ASSUME MirrorInv, BridgeTypeOK', NEW t \in Threads, Remember(t)
  PROVE  MirrorInv'
  <1> DEFINE e == track[t]
  <1>1. /\ e \in Tracks /\ level[t] \in Steps /\ "Mic" \in Tracks
        /\ pc[t] = "remember" /\ pc' = [pc EXCEPT ![t] = "announce"]
        /\ UNCHANGED <<track, level, todo, cache, heard>>
        /\ mirror' = [mirror EXCEPT ![e] = level[t]]
        /\ restore' = IF e = "Mic" /\ level[t] > 0 THEN level[t] ELSE restore
        /\ behind' = IF overtaken[t] THEN behind \cup {e} ELSE behind \ {e}
        /\ unheard' = IF e = "Mic" /\ level[t] > 0 THEN overtaken[t] ELSE unheard
        /\ overtaken' = [overtaken EXCEPT ![t] = FALSE]
    BY BridgeAssumption DEF Remember, RestoreAfter, AfterRemember, Goto, driverVars,
       MirrorInv, BridgeTypeOK, CallTypes
  <1>2. pc \in [Threads -> Pcs["worker"] \cup Pcs["interface"]]
        /\ mirror \in [Tracks -> Steps]
        /\ overtaken \in [Threads -> BOOLEAN]
    BY DEF MirrorInv, BridgeTypeOK, CallTypes, MirrorTypes, GhostTypes
  <1>3. \A u \in Threads, f \in Tracks :
          /\ Fetches(u, f)' <=> Fetches(u, f)
          /\ Holds(u, f)' <=> (Holds(u, f) /\ u # t)
    BY <1>1, <1>2 DEF Fetches, Holds
  <1>4. ~overtaken[t] => cache[e] = level[t]
    BY <1>1 DEF MirrorInv, HeldIsCached
  <1>5. IdleHasNothingLeft'
    BY <1>1, <1>2 DEF MirrorInv, IdleHasNothingLeft
  <1>6. HeldIsCached'
    BY <1>1, <1>2 DEF MirrorInv, HeldIsCached
  <1>7. MirrorFollowsCache'
    <2> SUFFICES ASSUME NEW f \in Tracks \ behind', \A u \in Threads : ~Carries(u, f)'
                 PROVE  cache[f] = NoLevel \/ mirror'[f] = cache[f]
      BY <1>1 DEF MirrorFollowsCache
    <2>1. CASE f = e
      BY <1>1, <1>2, <1>4, <2>1
    <2>2. CASE f # e
      <3>1. f \notin behind /\ mirror'[f] = mirror[f]
        BY <1>1, <1>2, <2>2
      <3>2. \A u \in Threads : ~Carries(u, f)
        BY <1>3, <2>2 DEF Carries, Holds
      <3>3. QED
        BY <3>1, <3>2 DEF MirrorInv, MirrorFollowsCache
    <2>3. QED
      BY <2>1, <2>2
  <1>8. CachedIsHeard'
    BY <1>1 DEF MirrorInv, CachedIsHeard
  <1>9. RestoreOrOnItsWay'
    <2>1. CASE e = "Mic" /\ level[t] > 0
      <3>1. CASE overtaken[t]
        BY <1>1, <2>1, <3>1 DEF RestoreOrOnItsWay
      <3>2. CASE ~overtaken[t]
        <4>1. cache["Mic"] = level[t] /\ restore' = level[t]
          BY <1>1, <1>4, <2>1, <3>2
        <4>2. heard' = level[t]
          BY <1>1, <2>1, <4>1 DEF MirrorInv, CachedIsHeard
        <4>3. QED
          BY <4>1, <4>2 DEF RestoreOrOnItsWay
      <3>3. QED
        BY <3>1, <3>2
    <2>2. CASE ~(e = "Mic" /\ level[t] > 0)
      <3>1. restore' = restore /\ (unheard => unheard')
        BY <1>1, <2>2
      <3>2. Unpublished' <=> Unpublished
        BY <1>1, <1>2 DEF Unpublished, Threads
      <3>3. \A u \in Threads :
              Holds(u, "Mic") /\ level[u] > 0 => Holds(u, "Mic")' /\ level'[u] > 0
        BY <1>1, <1>3, <2>2 DEF Holds
      <3>4. QED
        BY <1>1, <3>1, <3>2, <3>3 DEF MirrorInv, RestoreOrOnItsWay
    <2>3. QED
      BY <2>1, <2>2
  <1>10. QED
    BY <1>5, <1>6, <1>7, <1>8, <1>9 DEF MirrorInv

LEMMA InvAfterPublish ==
  ASSUME MirrorInv, BridgeTypeOK', NEW t \in Threads, NEW e \in Tracks, Publish(t, e)
  PROVE  MirrorInv'
  <1> DEFINE left == todo[t] \ {e}
  <1>1. /\ pc[t] = "publish" /\ e \in todo[t]
        /\ todo' = [todo EXCEPT ![t] = left]
        /\ UNCHANGED <<cache, mirror, restore, heard, unheard, overtaken, behind>>
        /\ "Mic" \in Tracks /\ left \in SUBSET Tracks
    BY BridgeAssumption DEF Publish, driverVars, mirrorVars, ghostVars, MirrorInv,
       BridgeTypeOK, CallTypes
  <1>2. /\ pc \in [Threads -> Pcs["worker"] \cup Pcs["interface"]]
        /\ track \in [Threads -> Tracks]
        /\ level \in [Threads -> Steps]
        /\ todo \in [Threads -> SUBSET Tracks]
    BY DEF MirrorInv, BridgeTypeOK, CallTypes
  <1>3. CASE Skips(e)
    <2>1. cache[e] = NoLevel /\ pc' = [pc EXCEPT ![t] = Home(t, left)]
          /\ UNCHANGED <<track, level>>
      BY <1>3 DEF Publish, Skips, Goto
    <2>2. /\ Home(t, left) \notin {"remember", "adopt", "reread", "want", "down",
                                   "handshake"}
          /\ Home(t, left) \in {"idle", "poll"} => left = {}
      BY <1>1, HomeIsNoReading
    <2>3. \A u \in Threads, f \in Tracks :
            /\ Holds(u, f)' <=> Holds(u, f)
            /\ f # e => (Fetches(u, f)' <=> Fetches(u, f))
      BY <1>1, <1>2, <2>1, <2>2 DEF Holds, Fetches
    <2>4. IdleHasNothingLeft'
      BY <1>1, <1>2, <2>1, <2>2 DEF MirrorInv, IdleHasNothingLeft
    <2>5. HeldIsCached' /\ CachedIsHeard'
      BY <1>1, <1>2, <2>1, <2>2 DEF MirrorInv, HeldIsCached, CachedIsHeard
    <2>6. MirrorFollowsCache'
      BY <1>1, <2>1, <2>3 DEF MirrorInv, MirrorFollowsCache, Carries
    <2>7. Unpublished => Unpublished'
      BY <1>1, <1>2, <2>1, <2>2 DEF Unpublished, NoLevel, Threads
    <2>8. RestoreOrOnItsWay'
      BY <1>1, <2>1, <2>3, <2>7 DEF MirrorInv, RestoreOrOnItsWay
    <2>9. QED
      BY <2>4, <2>5, <2>6, <2>8 DEF MirrorInv
  <1>4. CASE ~Skips(e)
    <2>1. /\ pc' = [pc EXCEPT ![t] = "remember"]
          /\ track' = [track EXCEPT ![t] = e]
          /\ level' = [level EXCEPT ![t] = cache[e]]
      BY <1>4 DEF Publish, Goto
    <2>2. \A u \in Threads, f \in Tracks : Carries(u, f) => Carries(u, f)'
      BY <1>1, <1>2, <2>1 DEF Carries, Holds, Fetches
    <2>3. IdleHasNothingLeft'
      BY <1>1, <1>2, <2>1 DEF MirrorInv, IdleHasNothingLeft
    <2>4. HeldIsCached'
      BY <1>1, <1>2, <2>1 DEF MirrorInv, HeldIsCached
    <2>5. MirrorFollowsCache' /\ CachedIsHeard'
      BY <1>1, <2>2 DEF MirrorInv, MirrorFollowsCache, CachedIsHeard
    <2>6. Unpublished => Unpublished' \/ (Holds(t, "Mic")' /\ level'[t] > 0)
      BY <1>1, <1>2, <2>1 DEF Unpublished, Holds, Threads
    <2>7. \A u \in Threads : Holds(u, "Mic") => Holds(u, "Mic")' /\ level'[u] = level[u]
      BY <1>1, <1>2, <2>1 DEF Holds
    <2>8. RestoreOrOnItsWay'
      BY <1>1, <2>6, <2>7 DEF MirrorInv, RestoreOrOnItsWay
    <2>9. QED
      BY <2>3, <2>4, <2>5, <2>8 DEF MirrorInv
  <1>5. QED
    BY <1>3, <1>4

LEMMA InvAfterReadLevel ==
  ASSUME MirrorInv, BridgeTypeOK', NEW e \in Tracks, ReadLevel(e)
  PROVE  MirrorInv'
  <1>1. /\ pc["worker"] \in {"adopt", "reread"} /\ e \in todo["worker"]
        /\ todo' = [todo EXCEPT !["worker"] = @ \ {e}]
        /\ UNCHANGED <<pc, track, level, mirror, restore, unheard, behind>>
        /\ "Mic" \in Tracks
        /\ CacheTakes("worker", e, reg[e]) \/ UNCHANGED <<cache, overtaken, heard>>
    BY BridgeAssumption DEF ReadLevel, mirrorVars
  <1>2. /\ todo \in [Threads -> SUBSET Tracks]
        /\ cache \in [Tracks -> Steps \cup {NoLevel}]
        /\ overtaken \in [Threads -> BOOLEAN]
    BY DEF MirrorInv, BridgeTypeOK, CallTypes, DriverTypes, GhostTypes
  <1>3. IdleHasNothingLeft'
    BY <1>1, <1>2 DEF MirrorInv, IdleHasNothingLeft, Threads
  <1>4. MirrorFollowsCache'
    BY <1>1 DEF MirrorFollowsCache, Carries, Fetches, Threads
  <1>5. HeldIsCached'
    <2> SUFFICES ASSUME NEW u \in Threads, pc[u] = "remember", ~overtaken'[u]
                 PROVE  cache'[track[u]] = level[u]
      BY <1>1 DEF HeldIsCached
    <2>1. u = "interface" /\ Other("worker") = u /\ track[u] \in Tracks
      BY <1>1 DEF Threads, Other, MirrorInv, BridgeTypeOK, CallTypes
    <2>2. CASE CacheTakes("worker", e, reg[e])
      <3>1. ~overtaken[u] /\ ~(Holds(u, e) /\ reg[e] # cache[e])
        BY <1>2, <2>1, <2>2 DEF CacheTakes
      <3>2. cache[track[u]] = level[u]
        BY <3>1 DEF MirrorInv, HeldIsCached
      <3>3. QED
        BY <1>2, <2>1, <2>2, <3>1, <3>2 DEF CacheTakes, Holds
    <2>3. CASE UNCHANGED <<cache, overtaken, heard>>
      BY <2>3 DEF MirrorInv, HeldIsCached
    <2>4. QED
      BY <1>1, <2>2, <2>3
  <1>6. CachedIsHeard'
    BY <1>1, <1>2 DEF MirrorInv, CachedIsHeard, CacheTakes
  <1>7. \A u \in Threads : Holds(u, "Mic")' <=> Holds(u, "Mic")
    BY <1>1 DEF Holds
  <1>8. RestoreOrOnItsWay'
    <2>1. CASE e = "Mic"
      <3>1. ~Unpublished
        BY <1>1, <2>1 DEF Unpublished
      <3>2. CASE heard' = heard
        BY <1>1, <1>7, <3>1, <3>2 DEF MirrorInv, RestoreOrOnItsWay
      <3>3. CASE heard' # heard
        <4>1. cache'["Mic"] > 0
          BY <1>1, <1>2, <2>1, <3>3 DEF CacheTakes
        <4>2. Unpublished'
          BY <1>1, <1>2, <2>1, <4>1 DEF Unpublished, Threads
        <4>3. QED
          BY <4>2 DEF RestoreOrOnItsWay
      <3>4. QED
        BY <3>2, <3>3
    <2>2. CASE e # "Mic"
      <3>1. heard' = heard /\ cache'["Mic"] = cache["Mic"]
        BY <1>1, <1>2, <2>2 DEF CacheTakes
      <3>2. Unpublished' <=> Unpublished
        BY <1>1, <1>2, <2>2, <3>1 DEF Unpublished, Threads
      <3>3. QED
        BY <1>1, <1>7, <3>1, <3>2 DEF MirrorInv, RestoreOrOnItsWay
    <2>3. QED
      BY <2>1, <2>2
  <1>9. QED
    BY <1>3, <1>4, <1>5, <1>6, <1>8 DEF MirrorInv

-----------------------------------------------------------------------------
(* The steps that touch neither the cache nor the mirror.                  *)

LEMMA CallsAreAside ==
  ASSUME MirrorInv, NEW t \in Threads,
         WriteFails(t) \/ Announce(t) \/ Decide(t) \/ LookUp(t)
  PROVE  Aside
  <1>1. /\ UNCHANGED <<cache, mirror, restore, heard, unheard, overtaken, behind, todo>>
        /\ pc[t] \in {"write", "announce", "decide", "lookUp"}
    BY DEF WriteFails, Announce, Decide, LookUp, driverVars, mirrorVars, ghostVars
  <1>2. \E l \in {"write", "lookUp", Home(t, todo[t])} : pc' = [pc EXCEPT ![t] = l]
    BY DEF WriteFails, GiveUp, Return, Announce, Decide, LookUp, SetLevel, Goto
  <1>3. \A u \in Threads \ {t} : track'[u] = track[u] /\ level'[u] = level[u]
    BY DEF WriteFails, GiveUp, Return, Announce, Decide, LookUp, SetLevel, MirrorInv,
       BridgeTypeOK, CallTypes
  <1>4. /\ Home(t, todo[t]) \notin {"remember", "adopt", "reread", "want", "down",
                                    "handshake"}
        /\ Home(t, todo[t]) \in {"idle", "poll"} => todo[t] = {}
    BY HomeIsNoReading DEF MirrorInv, BridgeTypeOK, CallTypes
  <1>5. pc \in [Threads -> Pcs["worker"] \cup Pcs["interface"]]
    BY DEF MirrorInv, BridgeTypeOK, CallTypes
  <1>6. \A u \in Threads, e \in Tracks : Fetches(u, e) => Fetches(u, e)'
    BY <1>1, <1>2, <1>4, <1>5 DEF Fetches
  <1>7. Unpublished => Unpublished'
    BY <1>1, <1>2, <1>4, <1>5 DEF Unpublished, Threads
  <1>8. IdleHasNothingLeft'
    BY <1>1, <1>2, <1>4, <1>5 DEF MirrorInv, IdleHasNothingLeft
  <1>9. QED
    BY <1>1, <1>2, <1>3, <1>4, <1>5, <1>6, <1>7, <1>8 DEF Aside

LEMMA WorkersAreAside ==
  ASSUME MirrorInv,
         \/ Connect \/ EndHandshake \/ Disconnect \/ Reread \/ EndReading \/ Push
         \/ \E e \in Tracks, d \in {-1, 1} : Turn(e, d)
  PROVE  Aside
  <1> USE DEF Goto, SetLevel, driverVars, mirrorVars, ghostVars
  <1>1. UNCHANGED <<cache, mirror, restore, heard, unheard, overtaken, behind>>
    BY DEF Connect, EndHandshake, Disconnect, Reread, EndReading, Push, Turn
  <1>2. /\ pc \in [Threads -> Pcs["worker"] \cup Pcs["interface"]]
        /\ todo \in [Threads -> SUBSET Tracks]
        /\ track \in [Threads -> Tracks] /\ level \in [Threads -> Steps]
    BY DEF MirrorInv, BridgeTypeOK, CallTypes
  <1>3. pc["worker"] \in {"down", "handshake", "poll"} => todo["worker"] = {}
    BY DEF MirrorInv, IdleHasNothingLeft, Threads
  <1>4. /\ pc["worker"] # "remember" /\ pc'["worker"] # "remember"
        /\ pc'["interface"] = pc["interface"]
        /\ track'["interface"] = track["interface"]
        /\ level'["interface"] = level["interface"]
        /\ todo'["interface"] = todo["interface"]
    BY <1>2 DEF Connect, EndHandshake, Disconnect, Reread, EndReading, Push, Turn,
       Threads
  <1>5. \A e \in Tracks : Fetches("worker", e) => Fetches("worker", e)'
    BY <1>2, <1>3 DEF Fetches, Connect, EndHandshake, Disconnect, Reread, EndReading,
       Push, Turn, Threads
  <1>6. Unpublished => Unpublished'
    BY <1>1, <1>2, <1>3, BridgeAssumption DEF Unpublished, Connect, EndHandshake,
       Disconnect, Reread, EndReading, Push, Turn, Threads
  <1>7. IdleHasNothingLeft'
    <2>1. pc'["worker"] \in {"down", "handshake", "poll", "idle"} => todo'["worker"] = {}
      BY <1>2, <1>3 DEF Connect, EndHandshake, Disconnect, Reread, EndReading, Push,
         Turn, Threads
    <2>2. QED
      BY <1>4, <2>1 DEF MirrorInv, IdleHasNothingLeft, Threads
  <1>8. QED
    BY <1>1, <1>4, <1>5, <1>6, <1>7 DEF Aside, Threads, Fetches

LEMMA InterfaceIsAside ==
  ASSUME MirrorInv, Interface
  PROVE  Aside
  <1> USE DEF Goto, SetLevel, driverVars, mirrorVars, ghostVars, callVars
  <1>1. UNCHANGED <<cache, mirror, restore, heard, unheard, overtaken, behind>>
    BY DEF Interface, Drag, MuteTile, MonitorTile, SwitchTile, Want, Deliver
  <1>2. /\ pc \in [Threads -> Pcs["worker"] \cup Pcs["interface"]]
        /\ todo \in [Threads -> SUBSET Tracks]
        /\ track \in [Threads -> Tracks] /\ level \in [Threads -> Steps]
    BY DEF MirrorInv, BridgeTypeOK, CallTypes
  <1>3. pc["interface"] = "idle" => todo["interface"] = {}
    BY DEF MirrorInv, IdleHasNothingLeft, Threads
  <1>4. /\ pc["interface"] # "remember" /\ pc'["interface"] # "remember"
        /\ pc'["worker"] = pc["worker"]
        /\ track'["worker"] = track["worker"]
        /\ level'["worker"] = level["worker"]
        /\ todo'["worker"] = todo["worker"]
    BY <1>2 DEF Interface, Drag, MuteTile, MonitorTile, SwitchTile, Want, Deliver,
       Threads
  <1>5. \A e \in Tracks : Fetches("interface", e) => Fetches("interface", e)'
    BY <1>2, <1>3 DEF Fetches, Interface, Drag, MuteTile, MonitorTile, SwitchTile,
       Want, Deliver, Threads
  <1>6. IdleHasNothingLeft'
    <2>1. pc'["interface"] \in {"down", "handshake", "poll", "idle"}
            => todo'["interface"] = {}
      BY <1>2, <1>3 DEF Interface, Drag, MuteTile, MonitorTile, SwitchTile, Want,
         Deliver, Threads
    <2>2. QED
      BY <1>4, <2>1 DEF MirrorInv, IdleHasNothingLeft, Threads
  <1>7. QED
    BY <1>1, <1>4, <1>5, <1>6 DEF Aside, Threads, Fetches, Unpublished

-----------------------------------------------------------------------------
(* The announcements and the gauges.                                       *)

\* What a step that changes neither the mirror nor the queue must leave alone.
LEMMA AnnouncementsStay ==
  ASSUME AnnouncementsAreTrue, UNCHANGED <<mirror, queue, late>>,
         \A t \in Threads : pc'[t] = "announce" <=> pc[t] = "announce",
         \A t \in Threads : pc[t] = "announce" =>
                              track'[t] = track[t] /\ level'[t] = level[t]
  PROVE  AnnouncementsAreTrue'
  BY DEF AnnouncementsAreTrue

LEMMA GaugesStay ==
  ASSUME GaugesFollowMirror, UNCHANGED <<mirror, queue>>,
         \A e \in Tracks \ astray' : e \notin astray /\ shown'[e] = shown[e],
         \A t \in Threads : pc[t] = "announce" =>
                              pc'[t] = "announce" /\ track'[t] = track[t]
  PROVE  GaugesFollowMirror'
  BY DEF GaugesFollowMirror

\* A thread that announces does nothing else before it has.
LEMMA AnnouncersWait ==
  ASSUME BridgeInv, [BridgeNext]_bridgeVars,
         \A t \in Threads : ~Remember(t) /\ ~Announce(t), ~Deliver
  PROVE  /\ UNCHANGED <<mirror, queue, late>>
         /\ \A e \in Tracks \ astray' : e \notin astray /\ shown'[e] = shown[e]
         /\ \A t \in Threads : pc'[t] = "announce" <=> pc[t] = "announce"
         /\ \A t \in Threads : pc[t] = "announce" =>
                                 track'[t] = track[t] /\ level'[t] = level[t]
  <1> USE DEF Goto, SetLevel, Return, mirrorVars, guiVars, ghostVars, callVars
  <1>1. /\ pc \in [Threads -> Pcs["worker"] \cup Pcs["interface"]]
        /\ todo \in [Threads -> SUBSET Tracks]
        /\ track \in [Threads -> Tracks] /\ level \in [Threads -> Steps]
        /\ shown \in [Tracks -> Steps] /\ astray \in SUBSET Tracks
    BY DEF BridgeInv, MirrorInv, BridgeTypeOK, CallTypes, GuiTypes, GhostTypes
  <1>2. ASSUME NEW t \in Threads,
               WriteLands(t) \/ WriteFails(t) \/ WriteHalf(t) \/ Decide(t)
                 \/ LookUp(t) \/ \E e \in Tracks : Publish(t, e)
        PROVE  /\ UNCHANGED <<mirror, queue, late, shown, astray>>
               /\ pc[t] # "announce" /\ pc'[t] # "announce"
               /\ \A u \in Threads \ {t} :
                    pc'[u] = pc[u] /\ track'[u] = track[u] /\ level'[u] = level[u]
    <2>1. UNCHANGED <<mirror, queue, late, shown, astray>>
      BY <1>2 DEF WriteLands, WriteFails, WriteHalf, Decide, LookUp, Publish
    <2>2. pc[t] # "announce" /\ pc'[t] # "announce"
      BY <1>1, <1>2, HomeIsNoReading DEF WriteLands, WriteFails, WriteHalf, GiveUp,
         Decide, LookUp, Publish, Home
    <2>3. \A u \in Threads \ {t} :
            pc'[u] = pc[u] /\ track'[u] = track[u] /\ level'[u] = level[u]
      BY <1>1, <1>2 DEF WriteLands, WriteFails, WriteHalf, GiveUp, Decide, LookUp,
         Publish
    <2>4. QED
      BY <2>1, <2>2, <2>3
  <1>3. ASSUME Worker
        PROVE  /\ UNCHANGED <<mirror, queue, late, shown, astray>>
               /\ \/ UNCHANGED <<pc, track, level>>
                  \/ /\ pc["worker"] # "announce" /\ pc'["worker"] # "announce"
                     /\ pc'["interface"] = pc["interface"]
                     /\ track'["interface"] = track["interface"]
                     /\ level'["interface"] = level["interface"]
    <2>1. UNCHANGED <<mirror, queue, late, shown, astray>>
      BY <1>3 DEF Worker, Connect, EndHandshake, Disconnect, Reread, ReadLevel,
         EndReading, Push, Turn
    <2>2. CASE \E e \in Tracks : ReadLevel(e)
      BY <2>1, <2>2 DEF ReadLevel
    <2>3. CASE ~ \E e \in Tracks : ReadLevel(e)
      BY <1>1, <1>3, <2>1, <2>3 DEF Worker, Connect, EndHandshake, Disconnect, Reread,
         EndReading, Push, Turn, Threads
    <2>4. QED
      BY <2>2, <2>3
  <1>4. ASSUME Interface
        PROVE  /\ UNCHANGED <<mirror, queue, late>>
               /\ \A e \in Tracks \ astray' : e \notin astray /\ shown'[e] = shown[e]
               /\ \/ UNCHANGED <<pc, track, level>>
                  \/ /\ pc["interface"] # "announce" /\ pc'["interface"] # "announce"
                     /\ pc'["worker"] = pc["worker"]
                     /\ track'["worker"] = track["worker"]
                     /\ level'["worker"] = level["worker"]
    <2>1. UNCHANGED <<mirror, queue, late>>
      BY <1>4 DEF Interface, Drag, MuteTile, MonitorTile, SwitchTile, Want
    <2>2. \A e \in Tracks \ astray' : e \notin astray /\ shown'[e] = shown[e]
      BY <1>1, <1>4 DEF Interface, Drag, MuteTile, MonitorTile, SwitchTile, Want
    <2>3. \/ UNCHANGED <<pc, track, level>>
          \/ /\ pc["interface"] # "announce" /\ pc'["interface"] # "announce"
             /\ pc'["worker"] = pc["worker"]
             /\ track'["worker"] = track["worker"]
             /\ level'["worker"] = level["worker"]
      BY <1>1, <1>4 DEF Interface, Drag, MuteTile, MonitorTile, SwitchTile, Want,
         Threads
    <2>4. QED
      BY <2>1, <2>2, <2>3
  <1>5. CASE UNCHANGED bridgeVars
    BY <1>5 DEF bridgeVars
  <1>6. QED
    BY <1>2, <1>3, <1>4, <1>5 DEF BridgeNext, SetLevelStep, Threads

LEMMA GaugesAfterRemember ==
  ASSUME BridgeInv, NEW t \in Threads, Remember(t)
  PROVE  AnnouncementsAreTrue' /\ GaugesFollowMirror'
  <1>1. /\ pc \in [Threads -> Pcs["worker"] \cup Pcs["interface"]]
        /\ track[t] \in Tracks /\ mirror \in [Tracks -> Steps]
        /\ late \in [Threads -> BOOLEAN]
        /\ \A i \in DOMAIN queue : queue[i] \in Event
    BY DEF BridgeInv, MirrorInv, BridgeTypeOK, CallTypes, MirrorTypes, GuiTypes,
       GhostTypes
  <1>2. /\ pc[t] = "remember" /\ pc' = [pc EXCEPT ![t] = "announce"]
        /\ mirror' = [mirror EXCEPT ![track[t]] = level[t]]
        /\ UNCHANGED <<shown, track, level, astray>>
        /\ Other(t) \in Threads /\ Other(t) # t
        /\ \A u \in Threads : u = t \/ u = Other(t)
    BY DEF Remember, AfterRemember, Goto, Other, Threads
  <1>3. /\ late'[t] = late[t]
        /\ late'[Other(t)] = (late[Other(t)]
             \/ (pc[Other(t)] = "announce" /\ track[Other(t)] = track[t]))
    BY <1>1, <1>2 DEF Remember
  <1>4. /\ DOMAIN queue' = DOMAIN queue
        /\ \A i \in DOMAIN queue :
             /\ queue'[i].track = queue[i].track
             /\ queue'[i].level = queue[i].level
             /\ queue'[i].late = (queue[i].late \/ queue[i].track = track[t])
    <2>1. queue' = [i \in DOMAIN queue |->
                      [queue[i] EXCEPT !.late = @ \/ queue[i].track = track[t]]]
      BY DEF Remember
    <2>2. QED
      BY <1>1, <2>1 DEF Event
  <1>5. ASSUME NEW i \in DOMAIN queue', ~queue'[i].late
        PROVE  queue'[i].level = mirror'[queue'[i].track]
    BY <1>1, <1>2, <1>4, <1>5 DEF BridgeInv, AnnouncementsAreTrue, Event
  <1>6. ASSUME NEW u \in Threads
        PROVE  /\ pc'[u] = "announce" /\ ~late'[u] => level'[u] = mirror'[track'[u]]
               /\ late'[u] => pc'[u] = "announce"
    <2>1. CASE u = t
      BY <1>1, <1>2, <2>1
    <2>2. CASE u = Other(t)
      <3>1. /\ pc[u] = "announce" /\ ~late[u] => level[u] = mirror[track[u]]
            /\ late[u] => pc[u] = "announce"
            /\ track[u] \in Tracks
        BY DEF BridgeInv, AnnouncementsAreTrue, MirrorInv, BridgeTypeOK, CallTypes
      <3>2. pc'[u] = pc[u]
        BY <1>1, <1>2, <2>2
      <3>3. CASE pc[u] = "announce" /\ track[u] = track[t]
        BY <1>3, <2>2, <3>2, <3>3
      <3>4. CASE ~(pc[u] = "announce" /\ track[u] = track[t])
        <4>1. late'[u] <=> late[u]
          BY <1>3, <2>2, <3>4
        <4>2. pc[u] = "announce" => mirror'[track[u]] = mirror[track[u]]
          BY <1>1, <1>2, <3>1, <3>4
        <4>3. QED
          BY <1>2, <3>1, <3>2, <4>1, <4>2
      <3>5. QED
        BY <3>3, <3>4
    <2>3. QED
      BY <1>2, <2>1, <2>2
  <1>7. GaugesFollowMirror'
    <2> SUFFICES ASSUME NEW e \in Tracks \ astray
                 PROVE  \/ shown[e] = mirror'[e]
                        \/ \E i \in DOMAIN queue' : queue'[i].track = e
                        \/ \E u \in Threads : pc'[u] = "announce" /\ track'[u] = e
      BY <1>2 DEF GaugesFollowMirror
    <2>1. CASE e = track[t]
      BY <1>1, <1>2, <2>1
    <2>2. CASE e # track[t]
      <3>1. mirror'[e] = mirror[e]
        BY <1>1, <1>2, <2>2
      <3>2. \A u \in Threads : pc[u] = "announce" => pc'[u] = "announce"
        BY <1>1, <1>2
      <3>3. QED
        BY <1>2, <1>4, <3>1, <3>2 DEF BridgeInv, GaugesFollowMirror
    <2>3. QED
      BY <2>1, <2>2
  <1>8. QED
    BY <1>5, <1>6, <1>7 DEF AnnouncementsAreTrue

LEMMA GaugesAfterAnnounce ==
  ASSUME BridgeInv, NEW t \in Threads, Announce(t)
  PROVE  AnnouncementsAreTrue' /\ GaugesFollowMirror'
  <1>1. /\ pc \in [Threads -> Pcs["worker"] \cup Pcs["interface"]]
        /\ todo[t] \in SUBSET Tracks
        /\ track[t] \in Tracks /\ level[t] \in Steps /\ late \in [Threads -> BOOLEAN]
        /\ track \in [Threads -> Tracks] /\ level \in [Threads -> Steps]
        /\ shown \in [Tracks -> Steps] /\ astray \in SUBSET Tracks
        /\ queue \in Seq(Event)
    BY DEF BridgeInv, MirrorInv, BridgeTypeOK, CallTypes, GuiTypes, GhostTypes
  <1>2. /\ pc[t] = "announce" /\ mirror' = mirror
        /\ pc'[t] # "announce" /\ ~late'[t]
        /\ \A u \in Threads \ {t} :
             /\ pc'[u] = pc[u] /\ track'[u] = track[u] /\ level'[u] = level[u]
             /\ late'[u] = late[u]
    BY <1>1 DEF Announce, Return, Goto, Home, mirrorVars
  <1>3. ~late[t] => level[t] = mirror[track[t]]
    BY <1>2 DEF BridgeInv, AnnouncementsAreTrue
  <1>4. \A u \in Threads :
          /\ pc'[u] = "announce" /\ ~late'[u] => level'[u] = mirror'[track'[u]]
          /\ late'[u] => pc'[u] = "announce"
    BY <1>2 DEF BridgeInv, AnnouncementsAreTrue
  <1>5. CASE t = "interface"
    <2>1. /\ queue' = queue
          /\ shown' = [shown EXCEPT ![track[t]] = level[t]]
          /\ astray' = IF late[t] THEN astray \cup {track[t]}
                                  ELSE astray \ {track[t]}
      BY <1>5 DEF Announce, GaugeTakes
    <2>2. AnnouncementsAreTrue'
      BY <1>2, <1>4, <2>1 DEF BridgeInv, AnnouncementsAreTrue
    <2>3. ASSUME NEW e \in Tracks \ astray'
          PROVE  \/ shown'[e] = mirror[e]
                 \/ \E i \in DOMAIN queue : queue[i].track = e
                 \/ \E u \in Threads : pc'[u] = "announce" /\ track'[u] = e
      <3>1. CASE e = track[t]
        BY <1>1, <1>3, <2>1, <2>3, <3>1
      <3>2. CASE e # track[t]
        <4>1. e \notin astray /\ shown'[e] = shown[e]
          BY <1>1, <2>1, <2>3, <3>2
        <4>2. QED
          BY <1>2, <3>2, <4>1 DEF BridgeInv, GaugesFollowMirror
      <3>3. QED
        BY <3>1, <3>2
    <2>4. QED
      BY <1>2, <2>1, <2>2, <2>3 DEF GaugesFollowMirror
  <1>6. CASE t # "interface"
    <2> DEFINE last == [track |-> track[t], level |-> level[t], late |-> late[t]]
    <2>1. queue' = Append(queue, last) /\ UNCHANGED <<shown, astray>>
      BY <1>6 DEF Announce
    <2>2. last \in Event
      BY <1>1 DEF Event
    <2>3. /\ Len(queue) \in Nat
          /\ DOMAIN queue = 1 .. Len(queue)
          /\ DOMAIN queue' = 1 .. Len(queue) + 1
          /\ \A i \in 1 .. Len(queue) : queue'[i] = queue[i]
          /\ queue'[Len(queue) + 1] = last
      <3> HIDE DEF last
      <3> QED
        BY <1>1, <2>1, <2>2
    <2>4. \A i \in DOMAIN queue' : i \in DOMAIN queue \/ i = Len(queue) + 1
      BY <2>3
    <2>5. \A i \in DOMAIN queue' :
            ~queue'[i].late => queue'[i].level = mirror[queue'[i].track]
      BY <1>3, <2>3, <2>4 DEF BridgeInv, AnnouncementsAreTrue
    <2>6. AnnouncementsAreTrue'
      BY <1>2, <1>4, <2>5 DEF AnnouncementsAreTrue
    <2>7. ASSUME NEW e \in Tracks \ astray
          PROVE  \/ shown[e] = mirror[e]
                 \/ \E i \in DOMAIN queue' : queue'[i].track = e
                 \/ \E u \in Threads : pc'[u] = "announce" /\ track'[u] = e
      <3>1. CASE e = track[t]
        <4>1. Len(queue) + 1 \in DOMAIN queue'
          BY <2>3
        <4>2. QED
          BY <2>3, <3>1, <4>1
      <3>2. CASE e # track[t]
        <4>1. \A i \in DOMAIN queue : i \in DOMAIN queue' /\ queue'[i] = queue[i]
          BY <2>3
        <4>2. QED
          BY <1>2, <3>2, <4>1 DEF BridgeInv, GaugesFollowMirror
      <3>3. QED
        BY <3>1, <3>2
    <2>8. QED
      BY <1>2, <2>1, <2>6, <2>7 DEF GaugesFollowMirror
  <1>7. QED
    BY <1>5, <1>6

LEMMA GaugesAfterDeliver ==
  ASSUME BridgeInv, Deliver
  PROVE  AnnouncementsAreTrue' /\ GaugesFollowMirror'
  <1>1. /\ queue \in Seq(Event) /\ queue # <<>>
        /\ shown \in [Tracks -> Steps] /\ astray \in SUBSET Tracks
        /\ queue' = Tail(queue)
        /\ UNCHANGED <<mirror, pc, track, level, late>>
    BY DEF BridgeInv, MirrorInv, BridgeTypeOK, GuiTypes, GhostTypes, Deliver,
       mirrorVars, callVars
  <1>2. PICK n \in Nat : n = Len(queue) /\ n > 0 /\ DOMAIN queue = 1 .. n
    BY <1>1
  <1>3. /\ Head(queue) = queue[1] /\ 1 \in DOMAIN queue
        /\ DOMAIN queue' = 1 .. n - 1
        /\ \A i \in 1 .. n - 1 : queue'[i] = queue[i + 1]
    BY <1>1, <1>2
  <1>4. queue[1].track \in Tracks
    <2>1. queue[1] \in Event
      BY <1>1, <1>2
    <2>2. QED
      BY <2>1 DEF Event
  <1>5. ASSUME NEW i \in DOMAIN queue'
        PROVE  /\ i + 1 \in DOMAIN queue
               /\ queue'[i] = queue[i + 1]
    BY <1>2, <1>3, <1>5
  <1>6. AnnouncementsAreTrue'
    BY <1>1, <1>5 DEF BridgeInv, AnnouncementsAreTrue
  <1>7. /\ shown' = [shown EXCEPT ![queue[1].track] = queue[1].level]
        /\ astray' = IF queue[1].late THEN astray \cup {queue[1].track}
                                      ELSE astray \ {queue[1].track}
    BY <1>3 DEF Deliver, GaugeTakes
  <1>8. ASSUME NEW e \in Tracks \ astray'
        PROVE  \/ shown'[e] = mirror[e]
               \/ \E i \in DOMAIN queue' : queue'[i].track = e
               \/ \E u \in Threads : pc[u] = "announce" /\ track[u] = e
    <2>1. CASE e = queue[1].track
      <3>1. ~queue[1].late
        BY <1>7, <1>8, <2>1
      <3>2. queue[1].level = mirror[e]
        BY <1>3, <2>1, <3>1 DEF BridgeInv, AnnouncementsAreTrue
      <3>3. QED
        BY <1>1, <1>7, <2>1, <3>2
    <2>2. CASE e # queue[1].track
      <3>1. e \notin astray /\ shown'[e] = shown[e]
        BY <1>1, <1>4, <1>7, <1>8, <2>2
      <3>2. ASSUME NEW i \in DOMAIN queue, queue[i].track = e
            PROVE  \E j \in DOMAIN queue' : queue'[j].track = e
        <4>1. i # 1 /\ i \in 1 .. n
          BY <1>2, <2>2, <3>2
        <4>2. i - 1 \in 1 .. n - 1 /\ (i - 1) + 1 = i
          BY <4>1
        <4>3. queue'[i - 1] = queue[i]
          BY <1>3, <4>2
        <4>4. QED
          BY <1>3, <3>2, <4>2, <4>3
      <3>3. QED
        BY <3>1, <3>2 DEF BridgeInv, GaugesFollowMirror
    <2>3. QED
      BY <2>1, <2>2
  <1>9. QED
    BY <1>1, <1>6, <1>8 DEF GaugesFollowMirror

-----------------------------------------------------------------------------
(* The theorems.                                                           *)

LEMMA InvBegins == BridgeInit => MirrorInv
  <1> SUFFICES ASSUME BridgeInit PROVE MirrorInv
    OBVIOUS
  <1>1. \A t \in Threads : pc[t] \in {"down", "idle"} /\ todo[t] = {}
    BY DEF BridgeInit, Threads
  <1>2. HeldIsCached /\ IdleHasNothingLeft
    BY <1>1 DEF HeldIsCached, IdleHasNothingLeft
  <1>3. MirrorFollowsCache
    BY DEF BridgeInit, MirrorFollowsCache
  <1>4. CachedIsHeard /\ RestoreOrOnItsWay
    BY BridgeAssumption DEF BridgeInit, CachedIsHeard, RestoreOrOnItsWay, NoLevel
  <1>5. QED
    BY <1>2, <1>3, <1>4, TypesBegin DEF MirrorInv

LEMMA InvStays == MirrorInv /\ [BridgeNext]_bridgeVars => MirrorInv'
  <1> SUFFICES ASSUME MirrorInv, [BridgeNext]_bridgeVars PROVE MirrorInv'
    OBVIOUS
  <1>1. BridgeTypeOK'
    BY TypesStay DEF MirrorInv
  <1>2. ASSUME NEW t \in Threads, SetLevelStep(t) PROVE MirrorInv'
    BY <1>1, <1>2, InvAfterLands, InvAfterHalf, InvAfterRemember, CallsAreAside,
       AsideKeepsInv DEF SetLevelStep
  <1>3. ASSUME NEW t \in Threads, Decide(t) \/ LookUp(t) PROVE MirrorInv'
    BY <1>1, <1>3, CallsAreAside, AsideKeepsInv
  <1>4. ASSUME NEW t \in Threads, NEW e \in Tracks, Publish(t, e) PROVE MirrorInv'
    BY <1>1, <1>4, InvAfterPublish
  <1>5. CASE Worker
    BY <1>1, <1>5, InvAfterReadLevel, WorkersAreAside, AsideKeepsInv DEF Worker
  <1>6. CASE Interface
    BY <1>1, <1>6, InterfaceIsAside, AsideKeepsInv
  <1>7. CASE UNCHANGED bridgeVars
    <2>1. UNCHANGED <<cache, mirror, restore, heard, unheard, overtaken, behind, pc,
                      track, level, todo>>
      BY <1>7 DEF bridgeVars, driverVars, mirrorVars, callVars, ghostVars
    <2>2. Aside
      BY <2>1 DEF Aside, Fetches, Unpublished, IdleHasNothingLeft, MirrorInv
    <2>3. QED
      BY <1>1, <2>2, AsideKeepsInv
  <1>8. QED
    BY <1>2, <1>3, <1>4, <1>5, <1>6, <1>7 DEF BridgeNext

\* The mirror has what the driver's cache has of each track nobody is carrying
\* to it, unless two calls crossed over the track or half a level was lost.
THEOREM MirrorIsTheCache == BridgeSpec => []MirrorFollowsCache
  <1>1. MirrorInv => MirrorFollowsCache
    BY DEF MirrorInv
  <1>2. QED
    BY <1>1, InvBegins, InvStays, PTL DEF BridgeSpec

\* Monitoring puts back the last level above silence the driver knew the
\* microphone at, by whichever route it came and went.
THEOREM MonitoringPutsBack == BridgeSpec => []RestoreIsWhatWasHeard
  <1>1. ASSUME MirrorInv, ~unheard, \A t \in Threads : ~Carries(t, "Mic")
        PROVE  restore = heard
    <2>1. ~Unpublished
      BY <1>1 DEF Unpublished, Carries, Fetches, Threads
    <2>2. \A t \in Threads : ~Holds(t, "Mic")
      BY <1>1 DEF Carries
    <2>3. QED
      BY <1>1, <2>1, <2>2 DEF MirrorInv, RestoreOrOnItsWay
  <1>2. MirrorInv => RestoreIsWhatWasHeard
    BY <1>1 DEF RestoreIsWhatWasHeard
  <1>3. QED
    BY <1>2, InvBegins, InvStays, PTL DEF BridgeSpec

\* In every state of the bridge, whichever way the threads' calls crossed: the
\* mirror, what is remembered for monitoring, the announcements on their way
\* and the gauges are as true as the cache.
THEOREM BridgeInvariant == BridgeSpec => []BridgeInv
  <1>1. BridgeInit => BridgeInv
    <2> SUFFICES ASSUME BridgeInit PROVE BridgeInv
      OBVIOUS
    <2>1. AnnouncementsAreTrue /\ GaugesFollowMirror
      BY DEF BridgeInit, AnnouncementsAreTrue, GaugesFollowMirror, Threads
    <2>2. QED
      BY <2>1, InvBegins DEF BridgeInv
  <1>2. BridgeInv /\ [BridgeNext]_bridgeVars => BridgeInv'
    <2> SUFFICES ASSUME BridgeInv, [BridgeNext]_bridgeVars PROVE BridgeInv'
      OBVIOUS
    <2>1. MirrorInv'
      BY InvStays DEF BridgeInv
    <2>2. AnnouncementsAreTrue' /\ GaugesFollowMirror'
      <3>1. CASE Deliver
        BY <3>1, GaugesAfterDeliver
      <3>2. ASSUME NEW t \in Threads, Remember(t) \/ Announce(t)
            PROVE  AnnouncementsAreTrue' /\ GaugesFollowMirror'
        BY <3>2, GaugesAfterRemember, GaugesAfterAnnounce
      <3>3. CASE ~Deliver /\ \A t \in Threads : ~Remember(t) /\ ~Announce(t)
        BY <3>3, AnnouncersWait, AnnouncementsStay, GaugesStay DEF BridgeInv
      <3>4. QED
        BY <3>1, <3>2, <3>3
    <2>3. QED
      BY <2>1, <2>2 DEF BridgeInv
  <1>3. QED
    BY <1>1, <1>2, PTL DEF BridgeSpec

\* Each change of the mirror reaches the gauge: none stays at an older level
\* with nothing on its way, whatever waits in the event queue.
THEOREM GaugesAreTold == BridgeSpec => []GaugesFollowMirror
  <1>1. BridgeInv => GaugesFollowMirror
    BY DEF BridgeInv
  <1>2. QED
    BY <1>1, BridgeInvariant, PTL

=============================================================================
