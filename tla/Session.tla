------------------------------ MODULE Session ------------------------------
(***************************************************************************)
(* A session with the deck, from the loop that opens it to the stop that   *)
(* ends it: DeviceBridge::run and stop, Device::connect and disconnect,    *)
(* and what they do to the settings somebody had made on the deck.         *)
(*                                                                         *)
(* connect() replays a captured sequence that overwrites those settings,   *)
(* so it reads them first and writes them back after; then it reads in     *)
(* which mode and on which mix the deck came back and selects that mix,    *)
(* which writes two of them again.  disconnect() plays a sequence too.     *)
(* Any transfer may fail, the cable may be pulled between any two, and a   *)
(* handle opened before the cable was pulled is of no use when it is back. *)
(*                                                                         *)
(* One thread at a time drives the session: the worker, until stop() has   *)
(* joined it, then whoever called stop().  `at` is where that thread is.   *)
(***************************************************************************)
EXTENDS Integers, Sequences

CONSTANTS
  Registers,   \* the preserved registers this instance has
  MaxFaults,   \* bound on the transfers that fail although the deck is there
  MaxUnplugs,  \* bound on the times the cable is pulled
  MaxSets      \* bound on the settings made while the program runs

AllRegisters == {"SelectedMix", "KnobLedBrightness", "KnobLedSelect",
                 "CreatorMixLevels", "AudienceMixLevels"}

\* The two registers that a selection writes go together.
ASSUME SessionAssumption ==
  /\ Registers \subseteq AllRegisters
  /\ "KnobLedSelect" \in Registers <=> "SelectedMix" \in Registers
  /\ MaxFaults \in Nat
  /\ MaxUnplugs \in Nat
  /\ MaxSets \in Nat

\* An instance with fewer registers leaves out what is about the others.
Only(r) == IF r \in Registers THEN <<r>> ELSE <<>>

\* Mutant: the audience block goes back before the write that takes it along.
PreservedSwapped ==
  Only("SelectedMix") \o Only("KnobLedBrightness") \o Only("KnobLedSelect")
    \o Only("AudienceMixLevels") \o Only("CreatorMixLevels")

\* PreservedAddresses: 0x15, 0x1e, 0x21, 0x27, 0x2e.
PreservedAddresses ==
  Only("SelectedMix") \o Only("KnobLedBrightness") \o Only("KnobLedSelect")
    \o Only("CreatorMixLevels") \o Only("AudienceMixLevels")

\* The payloads of InitPayloads and ShutdownPayloads that write a preserved
\* register, and one for all the rest before and after them.
InitPayloads ==
  <<"Other">> \o Only("KnobLedSelect") \o Only("CreatorMixLevels")
    \o Only("SelectedMix") \o Only("KnobLedBrightness") \o <<"Other">>
ShutdownPayloads == <<"Other">> \o Only("KnobLedBrightness") \o <<"Other">>

\* The writes of selectMix, the fence, the rings' colour and the fence about
\* the two registers.
SelectPayloads ==
  <<"Other">> \o Only("KnobLedSelect") \o Only("SelectedMix") \o <<"Other">>

\* SelectedMix names a mix, and KnobLedSelect the one mix of a Single deck or
\* that the deck keeps two.  Of the others, the user's own values, the
\* captured ones, the value of the shutdown, and whatever a block holds that a
\* write to another register has run over.
Mixes    == {"Creator", "Audience"}
Values   == Mixes \cup {"Dual", "own", "set", "captured", "dimmed", "spoiled"}
NotValid == "notValid"

\* What the handshake writes: the captured deck was Single, on its creator mix.
Captured(r) == IF r \in {"KnobLedSelect", "SelectedMix"} THEN "Creator"
                                                         ELSE "captured"

\* Device::readMixerMode
ModeOf(v) == IF v = "Dual" THEN "Dual" ELSE "Single"

Blocks == Registers \cap {"CreatorMixLevels", "AudienceMixLevels"}

\* What else the deck may change when a register is written a value: a
\* KnobLedSelect that names one mix copies that mix's playback tracks over the
\* other block, whatever it said before, and the creator block, written whole,
\* takes the audience block with it (Protocol.hpp:520, 1026).
RunsOver(r, v) ==
  Registers \cap
    CASE r = "KnobLedSelect" /\ v = "Creator"  -> {"AudienceMixLevels"}
      [] r = "KnobLedSelect" /\ v = "Audience" -> {"CreatorMixLevels"}
      [] r = "CreatorMixLevels"                -> {"AudienceMixLevels"}
      [] OTHER                                 -> {}

VARIABLES
  prop,      \* the deck: the preserved registers
  present,   \* the deck is on the bus
  handle,    \* the transport: "none", "live", or "stale" once unplugged
  state,     \* Device::_state
  running,   \* DeviceBridge::_isRunning
  joined,    \* stop() has joined the worker
  mixerMode, \* Device::_mixerMode
  asked,     \* the mix adoptTheDecksOwnState selects
  at,        \* where the thread that drives the session is
  next,      \* the element its loop is at
  snapshot,  \* connect()'s PropertySnapshot
  faults, unplugs, sets,  \* how much of each bound is used
  before,    \* the settings as this connect found them, and as changed since
  wanted,    \* the settings as the user last made them
  lost,      \* registers this connect could not read or could not write back
  late       \* registers set while a value read before was still to go back

deck   == <<prop, present>>
adopted == <<mixerMode, asked>>
driver == <<handle, state, running, joined, adopted>>
where  == <<at, next>>
bounds == <<faults, unplugs, sets>>
marks  == <<before, wanted, lost, late>>
sessionVars == <<deck, driver, where, snapshot, bounds, marks>>

Places == {"loop", "open", "snapshot", "handshake", "botched", "restore",
           "adoptMode", "adoptMix", "select", "publish", "poll", "shutdown",
           "close", "sleep", "ended", "gone"}

\* What the interface sets in one transfer.  Selecting a mix is Mixer's.
Settable == Registers \ {"KnobLedSelect", "SelectedMix"}

SessionTypeOK ==
  /\ prop \in [Registers -> Values]
  /\ handle \in {"none", "live", "stale"}
  /\ state \in {"Connected", "Disconnected"}
  /\ present \in BOOLEAN /\ running \in BOOLEAN /\ joined \in BOOLEAN
  /\ mixerMode \in {"Single", "Dual"}
  /\ asked \in Values
  /\ at \in Places
  /\ next \in 1 .. 7
  /\ snapshot \in [Registers -> Values \cup {NotValid}]
  /\ faults \in 0 .. MaxFaults
  /\ unplugs \in 0 .. MaxUnplugs
  /\ sets \in 0 .. MaxSets
  /\ before \in [Registers -> Values]
  /\ wanted \in [Registers -> Values]
  /\ lost \in SUBSET Registers
  /\ late \in SUBSET Settable

Unread == [r \in Registers |-> NotValid]

\* The deck as the user left it, Dual or Single, on either mix.
UsersOwn(led, mix) ==
  [r \in Registers |-> CASE r = "KnobLedSelect" -> led
                         [] r = "SelectedMix"   -> mix
                         [] OTHER               -> "own"]

\* start() has been called.
SessionInit ==
  /\ \E mix \in Mixes : \E led \in {mix, "Dual"} : prop = UsersOwn(led, mix)
  /\ present \in BOOLEAN
  /\ handle = "none"
  /\ state = "Disconnected"
  /\ running = TRUE
  /\ joined = FALSE
  /\ mixerMode = "Single" /\ asked = "Creator"
  /\ at = "loop"
  /\ next = 1
  /\ snapshot = Unread
  /\ faults = 0 /\ unplugs = 0 /\ sets = 0
  /\ before = prop /\ wanted = prop
  /\ lost = {} /\ late = {}

To(place) == at' = place /\ next' = 1
Onward == next' = next + 1 /\ UNCHANGED at

Lands == handle = "live" /\ UNCHANGED bounds

\* A transfer fails: the handle is stale, or the deck does not take it.
Fails ==
  \/ handle = "stale" /\ UNCHANGED bounds
  \/ /\ handle = "live"
     /\ faults < MaxFaults
     /\ faults' = faults + 1
     /\ UNCHANGED <<unplugs, sets>>

\* The register takes the value, and the deck runs over what it may.
Written(r, v) ==
  \E spoiled \in SUBSET RunsOver(r, v) :
    prop' = [q \in Registers |-> CASE q = r          -> v
                                   [] q \in spoiled  -> "spoiled"
                                   [] OTHER          -> prop[q]]

-----------------------------------------------------------------------------
(* DeviceBridge::run                                                       *)

Loop ==
  /\ at = "loop"
  /\ To(IF ~running THEN "ended"
        ELSE IF state = "Connected" THEN "poll" ELSE "open")
  /\ UNCHANGED <<deck, driver, snapshot, bounds, marks>>

PollAnswers ==
  /\ at = "poll"
  /\ Lands
  /\ To("loop")
  /\ UNCHANGED <<deck, driver, snapshot, marks>>

\* Mutant: a read that fails is tried again.
PollAgain ==
  /\ at = "poll"
  /\ Fails
  /\ To("loop")
  /\ UNCHANGED <<deck, driver, snapshot, marks>>

\* A read that fails is what tells the bridge that the deck has gone.
PollFails ==
  /\ at = "poll"
  /\ Fails
  /\ To("shutdown")
  /\ UNCHANGED <<deck, driver, snapshot, marks>>

\* Mutant: the retry does not look whether it is still wanted.
SleepAndOpen ==
  /\ at = "sleep"
  /\ To("open")
  /\ UNCHANGED <<deck, driver, snapshot, bounds, marks>>

\* ReconnectInterval
Sleep ==
  /\ at = "sleep"
  /\ To("loop")
  /\ UNCHANGED <<deck, driver, snapshot, bounds, marks>>

-----------------------------------------------------------------------------
(* Device::connect                                                         *)

Open ==
  /\ at = "open"
  /\ present
  /\ handle' = "live"
  /\ snapshot' = Unread
  /\ before' = prop
  /\ lost' = {}
  /\ late' = {}
  /\ To("snapshot")
  /\ UNCHANGED <<deck, state, running, joined, adopted, bounds, wanted>>

\* The bus is empty, or the interface will not open.
OpenFails ==
  /\ at = "open"
  /\ \/ ~present /\ UNCHANGED faults
     \/ present /\ faults < MaxFaults /\ faults' = faults + 1
  /\ To("sleep")
  /\ UNCHANGED <<deck, driver, snapshot, unplugs, sets, marks>>

\* snapshotProperties: a register that answers is valid.
ReadRegister ==
  /\ at = "snapshot"
  /\ next <= Len(PreservedAddresses)
  /\ LET r == PreservedAddresses[next] IN
       \/ /\ Lands
          /\ snapshot' = [snapshot EXCEPT ![r] = prop[r]]
          /\ UNCHANGED lost
       \/ /\ Fails
          /\ lost' = lost \cup {r}
          /\ UNCHANGED snapshot
  /\ Onward
  /\ UNCHANGED <<deck, driver, before, wanted, late>>

EndSnapshot ==
  /\ at = "snapshot"
  /\ next > Len(PreservedAddresses)
  /\ To("handshake")
  /\ UNCHANGED <<deck, driver, snapshot, bounds, marks>>

\* sendSequence(InitPayloads): the first payload that fails ends it.
SendInit ==
  /\ at = "handshake"
  /\ next <= Len(InitPayloads)
  /\ LET r == InitPayloads[next] IN
       \/ Lands /\ Onward /\ IF r = "Other" THEN UNCHANGED prop
                                            ELSE Written(r, Captured(r))
       \/ Fails /\ To("botched") /\ UNCHANGED prop
  /\ UNCHANGED <<present, driver, snapshot, marks>>

\* The one close that a connect makes, without _writeMutex.
CloseBotched ==
  /\ at = "botched"
  /\ handle' = "none"
  /\ To("sleep")
  /\ UNCHANGED <<deck, state, running, joined, adopted, snapshot, bounds,
                 marks>>

EndHandshake ==
  /\ at = "handshake"
  /\ next > Len(InitPayloads)
  /\ To("restore")
  /\ UNCHANGED <<deck, driver, snapshot, bounds, marks>>

\* PropertySnapshot::isValid
IsValid(r) == snapshot[r] # NotValid

\* restoreProperties: what was read goes back, and one that fails does not
\* keep the others from it.
WriteBack ==
  /\ at = "restore"
  /\ next <= Len(PreservedAddresses)
  /\ LET r == PreservedAddresses[next] IN
       \/ ~IsValid(r) /\ UNCHANGED <<prop, bounds, lost>>
       \/ /\ IsValid(r)
          /\ Lands
          /\ Written(r, snapshot[r])
          /\ UNCHANGED lost
       \/ /\ IsValid(r)
          /\ Fails
          /\ lost' = lost \cup {r}
          /\ UNCHANGED prop
  /\ Onward
  /\ UNCHANGED <<present, driver, snapshot, before, wanted, late>>

EndRestore ==
  /\ at = "restore"
  /\ next > Len(PreservedAddresses)
  /\ To(IF "KnobLedSelect" \in Registers THEN "adoptMode" ELSE "select")
  /\ UNCHANGED <<deck, driver, snapshot, bounds, marks>>

\* adoptTheDecksOwnState asks for the mode first.  One that cannot be read
\* leaves _mixerMode what the last connect made of it, or Single.
AdoptMode ==
  /\ at = "adoptMode"
  /\ \/ Lands /\ mixerMode' = ModeOf(prop["KnobLedSelect"]) /\ UNCHANGED lost
     \/ Fails /\ lost' = lost \cup {"KnobLedSelect"} /\ UNCHANGED mixerMode
  /\ To("adoptMix")
  /\ UNCHANGED <<deck, handle, state, running, joined, asked, snapshot, before,
                 wanted, late>>

\* And then for the mix: asked.value_or(MixId::Creator).
AdoptMix ==
  /\ at = "adoptMix"
  /\ \/ Lands /\ asked' = prop["SelectedMix"] /\ UNCHANGED lost
     \/ Fails /\ asked' = "Creator" /\ lost' = lost \cup {"SelectedMix"}
  /\ To("select")
  /\ UNCHANGED <<deck, handle, state, running, joined, mixerMode, snapshot,
                 before, wanted, late>>

\* Mutant: the mix is written bare, and a Dual deck is put back into Single.
SelectsBare(r) == asked

\* selectMix: KnobLedSelect is knobLedSelectFor(_mixerMode, mix).
Selects(r) ==
  IF r = "KnobLedSelect" /\ mixerMode = "Dual" THEN "Dual" ELSE asked

\* The first write that fails ends the selection, and not the connect.
SelectMix ==
  /\ at = "select"
  /\ next <= Len(SelectPayloads)
  /\ LET r == SelectPayloads[next] IN
       \/ Lands /\ Onward /\ IF r = "Other" THEN UNCHANGED prop
                                            ELSE Written(r, Selects(r))
       \/ Fails /\ To("publish") /\ UNCHANGED prop
  /\ UNCHANGED <<present, driver, snapshot, marks>>

EndSelect ==
  /\ at = "select"
  /\ next > Len(SelectPayloads)
  /\ To("publish")
  /\ UNCHANGED <<deck, driver, snapshot, bounds, marks>>

\* Nothing else that connect() does can fail it, or writes a register.
Publish ==
  /\ at = "publish"
  /\ state' = "Connected"
  /\ asked' = "Creator"
  /\ To("loop")
  /\ UNCHANGED <<deck, handle, running, joined, mixerMode, snapshot, bounds,
                 marks>>

-----------------------------------------------------------------------------
(* Device::disconnect of a connected deck                                  *)

SendShutdown ==
  /\ at = "shutdown"
  /\ next <= Len(ShutdownPayloads)
  /\ LET r == ShutdownPayloads[next] IN
       \/ Lands /\ Onward /\ IF r = "Other" THEN UNCHANGED prop
                                            ELSE Written(r, "dimmed")
       \/ Fails /\ To("close") /\ UNCHANGED prop
  /\ UNCHANGED <<present, driver, snapshot, marks>>

EndShutdown ==
  /\ at = "shutdown"
  /\ next > Len(ShutdownPayloads)
  /\ To("close")
  /\ UNCHANGED <<deck, driver, snapshot, bounds, marks>>

\* Under _writeMutex.
Close ==
  /\ at = "close"
  /\ state' = "Disconnected"
  /\ handle' = "none"
  /\ To(IF joined THEN "gone" ELSE "loop")
  /\ UNCHANGED <<deck, running, joined, adopted, snapshot, bounds, marks>>

-----------------------------------------------------------------------------
(* DeviceBridge::stop, on the interface's thread                           *)

Stop ==
  /\ running
  /\ running' = FALSE
  /\ UNCHANGED <<deck, handle, state, joined, adopted, where, snapshot, bounds,
                 marks>>

\* Mutant: the deck is taken to be gone with the worker.
JoinOnly ==
  /\ at = "ended"
  /\ joined' = TRUE
  /\ To("gone")
  /\ UNCHANGED <<deck, handle, state, running, adopted, snapshot, bounds,
                 marks>>

\* The worker has ended; disconnect() of a deck that is not connected closes
\* what may be open and does nothing else.
Join ==
  /\ at = "ended"
  /\ joined' = TRUE
  /\ IF state = "Connected" THEN To("shutdown") /\ UNCHANGED handle
                            ELSE To("gone") /\ handle' = "none"
  /\ UNCHANGED <<deck, state, running, adopted, snapshot, bounds, marks>>

-----------------------------------------------------------------------------
(* The cable, and the user.                                                *)

Unplug ==
  /\ present
  /\ unplugs < MaxUnplugs
  /\ unplugs' = unplugs + 1
  /\ present' = FALSE
  /\ handle' = IF handle = "live" THEN "stale" ELSE handle
  /\ UNCHANGED <<prop, state, running, joined, adopted, where, snapshot,
                 faults, sets, marks>>

Plug ==
  /\ ~present
  /\ present' = TRUE
  /\ UNCHANGED <<prop, driver, where, snapshot, bounds, marks>>

\* What was read of the register is still to be written over it.
StillToGoBack(r) ==
  /\ IsValid(r)
  /\ \/ at \in {"snapshot", "handshake"}
     \/ at = "restore" /\ r \in {PreservedAddresses[i] :
                                   i \in next .. Len(PreservedAddresses)}

\* A setting made from the interface, in one transfer: every setter looks at
\* whether the deck is open, and none at whether it is connected.
UserSets(r) ==
  /\ r \in Settable
  /\ handle = "live"
  /\ sets < MaxSets
  /\ sets' = sets + 1
  /\ prop' = [prop EXCEPT ![r] = "set"]
  /\ wanted' = [wanted EXCEPT ![r] = "set"]
  /\ before' = [before EXCEPT ![r] = "set"]
  /\ late' = IF StillToGoBack(r) THEN late \cup {r} ELSE late
  /\ UNCHANGED <<present, driver, where, snapshot, faults, unplugs, lost>>

-----------------------------------------------------------------------------

ConnectStep ==
  \/ Open \/ OpenFails \/ ReadRegister \/ EndSnapshot \/ SendInit
  \/ CloseBotched \/ EndHandshake \/ WriteBack \/ EndRestore
  \/ AdoptMode \/ AdoptMix \/ SelectMix \/ EndSelect \/ Publish

DisconnectStep == SendShutdown \/ EndShutdown \/ Close

DriveStep ==
  Loop \/ PollAnswers \/ PollFails \/ Sleep \/ ConnectStep \/ DisconnectStep
    \/ Join

Outside == Stop \/ Unplug \/ Plug \/ \E r \in Registers : UserSets(r)

SessionNext == DriveStep \/ Outside

SessionSpec == SessionInit /\ [][SessionNext]_sessionVars

\* The thread that drives the session goes on.  Nobody has to stop it, to set
\* anything or to touch the cable.
SessionFairSpec == SessionSpec /\ WF_sessionVars(DriveStep)

-----------------------------------------------------------------------------
(* Properties.                                                             *)

\* Connected, and no shutdown begun.
InSession == state = "Connected" /\ at \in {"loop", "poll"}

\* What the selection that ends a connect may change of what has gone back.
\* A deck that keeps two mixes keeps everything.  On a Single deck the monitored
\* mix's playback tracks are copied over the other block, and KnobLedSelect
\* comes to name the monitored mix should it not have done so.  Nothing of this
\* is known of a deck whose mode the connect could not read or write back, or a
\* Single one whose mix it could not.
SelectionMayChange ==
  IF "KnobLedSelect" \notin Registers THEN {}
  ELSE LET led   == before["KnobLedSelect"]
           mix   == before["SelectedMix"]
           anyOf == {"KnobLedSelect"} \cup Blocks
       IN IF "KnobLedSelect" \in lost             THEN anyOf
          ELSE IF led = "Dual"                    THEN {}
          ELSE IF "SelectedMix" \in lost \/ led # mix THEN anyOf
          ELSE RunsOver("KnobLedSelect", mix)

\* What connect() promises of each register on its own: a register it could
\* read and could write back, and that its selection leaves alone, holds what
\* this connect found in it or what the user has set since, whatever became of
\* the others -- but for a setting made between the reading and the writing
\* back, which is undone.
SettingsComeBack ==
  InSession =>
    \A r \in Registers \ (lost \cup late \cup SelectionMayChange) :
      prop[r] = before[r]

\* "connect puts back the settings the handshake overwrites"
\* (Device_test.cpp:1140): through any number of connects, each level block the
\* last one could read and write back, and did not copy over, is the user's.
LevelsAreTheUsers ==
  InSession =>
    \A r \in Blocks \ (lost \cup late \cup SelectionMayChange) :
      prop[r] = wanted[r]

\* "disconnect() is what sends the shutdown sequence and puts back the settings
\* the handshake overwrote" (main.cpp:231): once the program has gone, with no
\* transfer lost, the settings are the user's but for what a Single deck copies.
StopPutsBack ==
  at = "gone" /\ faults = 0 /\ unplugs = 0 =>
    \A r \in Registers \ (late \cup SelectionMayChange) : prop[r] = wanted[r]

\* The handle and the state.  A deck is called connected only while a handle
\* is held, and once stop() is through nothing is open, nothing is connected
\* and the worker is not running -- wherever in a connect it was told to stop.
HandleFollowsState ==
  /\ state = "Connected" => handle # "none"
  /\ at = "gone" => handle = "none" /\ state = "Disconnected" /\ ~running

\* Between open() and the end of the connect, whatever end that is.
Connecting ==
  at \in {"snapshot", "handshake", "botched", "restore", "adoptMode",
          "adoptMix", "select", "publish"}

\* A handle is held exactly while a connect is under way or has come through:
\* none is left open by a connect that failed, none is used that was closed.
HandleIsOwned == handle # "none" <=> state = "Connected" \/ Connecting

\* The state agrees with the part of the code that is run.
StateFollowsPlace ==
  /\ at \in {"poll", "shutdown", "close"} => state = "Connected"
  /\ Connecting \/ at \in {"open", "sleep", "gone"} => state = "Disconnected"

\* Who drives: the worker until it has ended, stop() from then on.
StopFollowsWorker ==
  /\ joined => ~running /\ at \in {"shutdown", "close", "gone"}
  /\ at = "ended" => ~running /\ ~joined
  /\ at = "gone" => joined

\* No loop runs past its table by more than the step that ends it, and nothing
\* is read that the instance leaves out.
InTable ==
  /\ at \in {"snapshot", "restore"} => next <= Len(PreservedAddresses) + 1
  /\ at = "handshake" => next <= Len(InitPayloads) + 1
  /\ at \in {"adoptMode", "adoptMix"} => "KnobLedSelect" \in Registers
  /\ at = "select" => next <= Len(SelectPayloads) + 1
  /\ at = "shutdown" => next <= Len(ShutdownPayloads) + 1

\* What holds of the session's control in every state.
SessionControl ==
  /\ SessionTypeOK
  /\ HandleFollowsState
  /\ HandleIsOwned
  /\ StateFollowsPlace
  /\ StopFollowsWorker
  /\ InTable

Kept(r) == snapshot[r] = before[r] \/ r \in lost \cup late
Back(r) == prop[r] = before[r] \/ r \in lost \cup late

\* What the adoption has learned is what the connect found, of all it read.
ModeHolds ==
  "KnobLedSelect" \in Registers \ lost =>
    mixerMode = ModeOf(before["KnobLedSelect"])
MixHolds == "SelectedMix" \in Registers \ lost => asked = before["SelectedMix"]

\* How a connect keeps its promise: what it has read is what the register
\* held; then, element by element, what has gone back is back to stay, and what
\* is still to go is still in hand; and the selection after it writes the mode
\* and the mix the connect found, so that it changes no more than it may.
OnTheWayBack ==
  LET Address == PreservedAddresses
      Upto    == {i \in 1 .. Len(Address) : i < next}
      Onwards == {i \in 1 .. Len(Address) : i >= next}
  IN /\ at = "snapshot"  => /\ \A r \in Registers : prop[r] = before[r]
                            /\ \A i \in Upto : Kept(Address[i])
     /\ at = "handshake" => \A r \in Registers : Kept(r)
     /\ at = "restore"   => /\ \A i \in Upto    : Back(Address[i])
                            /\ \A i \in Onwards : Kept(Address[i])
     /\ at \in {"adoptMode", "adoptMix"} => \A r \in Registers : Back(r)
     /\ at \in {"adoptMix", "select"}    => ModeHolds
     /\ at = "select"                    => MixHolds
     /\ at \in {"select", "publish"} =>
          \A r \in Registers \ SelectionMayChange : Back(r)

\* What holds in every state of the session.
SessionInv == SessionControl /\ OnTheWayBack

\* The bridge gets the deck back by itself: while it is told to run and the
\* deck stays on the bus, it comes to be connected through a live handle.
Reconnects ==
  running /\ present
    ~> (state = "Connected" /\ handle = "live") \/ ~running \/ ~present

\* stop() comes to an end, whatever the worker is in the middle of.
StopEnds == ~running ~> at = "gone"

=============================================================================
