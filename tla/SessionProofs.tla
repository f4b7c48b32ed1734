--------------------------- MODULE SessionProofs ---------------------------
(***************************************************************************)
(* A session with the deck, for any bounds on the faults, the pulled       *)
(* cables and the settings made, and whichever of the registers there are: *)
(* who holds the handle and when, and that the settings come back.         *)
(***************************************************************************)
EXTENDS Session, TLAPS

-----------------------------------------------------------------------------
(* The tables.                                                             *)

LEMMA PreservedTable ==
  /\ Len(PreservedAddresses) \in 0 .. 5
  /\ \A i \in 1 .. Len(PreservedAddresses) : PreservedAddresses[i] \in Registers
  BY DEF PreservedAddresses, Only

LEMMA InitTable ==
  /\ Len(InitPayloads) \in 0 .. 6
  /\ \A i \in 1 .. Len(InitPayloads) :
       InitPayloads[i] \in Registers \cup {"Other"}
  BY DEF InitPayloads, Only

LEMMA SelectTable ==
  /\ Len(SelectPayloads) \in 0 .. 5
  /\ \A i \in 1 .. Len(SelectPayloads) :
       SelectPayloads[i] \in
         (Registers \cap {"KnobLedSelect", "SelectedMix"}) \cup {"Other"}
  BY DEF SelectPayloads, Only

LEMMA ShutdownTable ==
  /\ Len(ShutdownPayloads) \in 0 .. 5
  /\ \A i \in 1 .. Len(ShutdownPayloads) :
       ShutdownPayloads[i] \in Registers \cup {"Other"}
  BY DEF ShutdownPayloads, Only

\* Every register there is has its place in the table.
LEMMA EveryRegisterIsPreserved ==
  \A r \in Registers :
    \E i \in 1 .. Len(PreservedAddresses) : PreservedAddresses[i] = r
<1> DEFINE IsThere(r) ==
       \E i \in 1 .. Len(PreservedAddresses) : PreservedAddresses[i] = r
<1>1. "SelectedMix" \in Registers => IsThere("SelectedMix")
  BY DEF PreservedAddresses, Only
<1>2. "KnobLedBrightness" \in Registers => IsThere("KnobLedBrightness")
  BY DEF PreservedAddresses, Only
<1>3. "KnobLedSelect" \in Registers => IsThere("KnobLedSelect")
  BY DEF PreservedAddresses, Only
<1>4. "CreatorMixLevels" \in Registers => IsThere("CreatorMixLevels")
  BY DEF PreservedAddresses, Only
<1>5. "AudienceMixLevels" \in Registers => IsThere("AudienceMixLevels")
  <2> SUFFICES ASSUME "AudienceMixLevels" \in Registers
               PROVE  IsThere("AudienceMixLevels")
    OBVIOUS
  <2>1. Len(PreservedAddresses) \in 1 .. 5
    BY DEF PreservedAddresses, Only
  <2>2. PreservedAddresses[Len(PreservedAddresses)] = "AudienceMixLevels"
    BY DEF PreservedAddresses, Only
  <2>3. QED
    BY <2>1, <2>2
<1>6. QED
  BY <1>1, <1>2, <1>3, <1>4, <1>5, SessionAssumption DEF AllRegisters

\* What a write runs over comes later in the table, and is written again.
LEMMA RunsOverComesLater ==
  \A i, j \in 1 .. Len(PreservedAddresses), v \in Values :
    i < j => PreservedAddresses[i] \notin RunsOver(PreservedAddresses[j], v)
  BY DEF PreservedAddresses, Only, RunsOver

LEMMA RunsOverRegisters == \A r, v : RunsOver(r, v) \subseteq Registers
  BY DEF RunsOver

\* A selection runs over nothing but the level blocks, and on a deck that keeps
\* two mixes over nothing at all.
LEMMA SelectionRunsOver ==
  /\ \A v : RunsOver("KnobLedSelect", v) \subseteq Blocks
  /\ RunsOver("KnobLedSelect", "Dual") = {}
  /\ \A v : RunsOver("SelectedMix", v) = {}
  BY DEF RunsOver, Blocks

-----------------------------------------------------------------------------
(* The control: the handle, the state and the place.                       *)

\* The tests of the session are facts or not.
LEMMA WrittenIsTyped ==
  ASSUME NEW r, NEW v \in Values, prop \in [Registers -> Values], Written(r, v)
  PROVE  prop' \in [Registers -> Values]
  BY DEF Written, Values

LEMMA FailsIsTyped ==
  ASSUME SessionTypeOK, Fails
  PROVE  /\ handle \in {"live", "stale"}
         /\ faults' \in 0 .. MaxFaults
         /\ unplugs' = unplugs /\ sets' = sets
  BY SessionAssumption DEF SessionTypeOK, Fails, bounds

LEMMA InitControl == SessionInit => SessionControl
<1> SUFFICES ASSUME SessionInit PROVE SessionControl
  OBVIOUS
<1> USE SessionAssumption DEF SessionInit
<1>1. SessionTypeOK
  <2>1. prop \in [Registers -> Values] /\ snapshot \in [Registers -> Values \cup {NotValid}]
    BY DEF Values, Unread, UsersOwn, Mixes
  <2>2. present \in BOOLEAN /\ running \in BOOLEAN /\ joined \in BOOLEAN
    OBVIOUS
  <2>3. QED
    BY <2>1, <2>2 DEF SessionTypeOK, Places, Values, Mixes
<1>2. /\ HandleFollowsState /\ HandleIsOwned /\ StateFollowsPlace
      /\ StopFollowsWorker /\ InTable
  BY DEF HandleFollowsState, HandleIsOwned, Connecting, StateFollowsPlace,
         StopFollowsWorker, InTable
<1>3. QED
  BY <1>1, <1>2 DEF SessionControl

\* run(): the loop, a poll and a sleep.
LEMMA BridgeControl ==
  ASSUME SessionControl, Loop \/ PollAnswers \/ PollFails \/ Sleep
  PROVE  SessionControl'
<1> USE DEF deck, driver, adopted, bounds, marks, To
<1>1. UNCHANGED <<handle, state, running, joined, prop, present, snapshot,
                  mixerMode, asked,
                  before, wanted, lost, late>>
      /\ next' = 1
  BY DEF Loop, PollAnswers, PollFails, Sleep
<1>2. \/ at = "loop" /\ ~running /\ at' = "ended"
      \/ at = "loop" /\ running /\ state = "Connected" /\ at' = "poll"
      \/ at = "loop" /\ running /\ state = "Disconnected" /\ at' = "open"
      \/ at = "poll" /\ at' \in {"loop", "shutdown"}
      \/ at = "sleep" /\ at' = "loop"
  <2>1. state \in {"Connected", "Disconnected"}
    BY DEF SessionControl, SessionTypeOK
  <2>2. QED
    BY <2>1 DEF Loop, PollAnswers, PollFails, Sleep
<1>3. SessionTypeOK'
  <2>1. faults' \in 0 .. MaxFaults /\ unplugs' = unplugs /\ sets' = sets
    BY FailsIsTyped DEF Loop, PollAnswers, PollFails, Sleep, Lands,
       SessionControl, SessionTypeOK
  <2>2. QED
    BY <1>1, <1>2, <2>1 DEF SessionControl, SessionTypeOK, Places
<1>4. /\ HandleFollowsState' /\ HandleIsOwned' /\ StateFollowsPlace'
      /\ StopFollowsWorker' /\ InTable'
  BY <1>1, <1>2, PreservedTable DEF SessionControl, HandleFollowsState,
     HandleIsOwned, Connecting, StateFollowsPlace, StopFollowsWorker, InTable
<1>5. QED
  BY <1>3, <1>4 DEF SessionControl

\* connect(): opening, the tables played and the publishing.
LEMMA ConnectControl ==
  ASSUME SessionControl, ConnectStep
  PROVE  SessionControl'
<1> DEFINE Moves ==
      \/ at = "open" /\ handle' = "live" /\ at' = "snapshot" /\ next' = 1
      \/ at = "open" /\ handle' = handle /\ at' = "sleep" /\ next' = 1
      \/ at = "snapshot" /\ handle' = handle /\ at' = at /\ next' = next + 1
           /\ next <= Len(PreservedAddresses)
      \/ at = "snapshot" /\ handle' = handle /\ at' = "handshake" /\ next' = 1
      \/ at = "handshake" /\ handle' = handle /\ at' = at /\ next' = next + 1
           /\ next <= Len(InitPayloads)
      \/ at = "handshake" /\ handle' = handle /\ at' \in {"botched", "restore"}
           /\ next' = 1
      \/ at = "botched" /\ handle' = "none" /\ at' = "sleep" /\ next' = 1
      \/ at = "restore" /\ handle' = handle /\ at' = at /\ next' = next + 1
           /\ next <= Len(PreservedAddresses)
      \/ at = "restore" /\ handle' = handle /\ at' = "select" /\ next' = 1
      \/ at = "restore" /\ handle' = handle /\ at' = "adoptMode" /\ next' = 1
           /\ "KnobLedSelect" \in Registers
      \/ at = "adoptMode" /\ handle' = handle /\ at' = "adoptMix" /\ next' = 1
      \/ at = "adoptMix" /\ handle' = handle /\ at' = "select" /\ next' = 1
      \/ at = "select" /\ handle' = handle /\ at' = at /\ next' = next + 1
           /\ next <= Len(SelectPayloads)
      \/ at = "select" /\ handle' = handle /\ at' = "publish" /\ next' = 1
<1> USE SessionAssumption DEF SessionControl, SessionTypeOK, deck, driver,
     adopted, where, bounds, marks, To, Onward, Moves
<1>1. \/ Moves /\ state' = state
      \/ /\ at = "publish" /\ handle' = handle /\ at' = "loop" /\ next' = 1
         /\ state' = "Connected"
  <2>1. CASE Open \/ OpenFails \/ CloseBotched \/ Publish
    BY <2>1 DEF Open, OpenFails, CloseBotched, Publish
  <2>2. CASE ReadRegister
    BY <2>2 DEF ReadRegister
  <2>3. CASE SendInit
    BY <2>3 DEF SendInit
  <2>4. CASE WriteBack
    BY <2>4 DEF WriteBack
  <2>5. CASE EndSnapshot \/ EndHandshake \/ EndRestore \/ EndSelect
    BY <2>5 DEF EndSnapshot, EndHandshake, EndRestore, EndSelect
  <2>6. CASE AdoptMode \/ AdoptMix
    BY <2>6 DEF AdoptMode, AdoptMix
  <2>7. CASE SelectMix
    BY <2>7 DEF SelectMix
  <2>8. QED
    BY <2>1, <2>2, <2>3, <2>4, <2>5, <2>6, <2>7 DEF ConnectStep
<1>2. running' = running /\ joined' = joined /\ present' = present
  BY DEF ConnectStep, Open, OpenFails, ReadRegister, EndSnapshot, SendInit,
     CloseBotched, EndHandshake, WriteBack, EndRestore, AdoptMode, AdoptMix, SelectMix,
     EndSelect, Publish
<1>3. faults' \in 0 .. MaxFaults /\ unplugs' = unplugs /\ sets' = sets
  BY DEF Fails, Lands, ConnectStep, Open, OpenFails, ReadRegister,
     EndSnapshot, SendInit, CloseBotched, EndHandshake, WriteBack, EndRestore,
     AdoptMode, AdoptMix, SelectMix, EndSelect, Publish
<1>4. prop' \in [Registers -> Values]
  <2>1. CASE SendInit
    BY <2>1, WrittenIsTyped DEF SendInit, Captured, Values, Mixes
  <2>2. CASE WriteBack
    BY <2>2, WrittenIsTyped, PreservedTable DEF WriteBack, IsValid
  <2>3. CASE SelectMix
    BY <2>3, WrittenIsTyped DEF SelectMix, Selects, Values
  <2>4. CASE ~(SendInit \/ WriteBack \/ SelectMix)
    BY <2>4 DEF ConnectStep, Open, OpenFails, ReadRegister, EndSnapshot,
       CloseBotched, EndHandshake, EndRestore, AdoptMode, AdoptMix, EndSelect,
       Publish
  <2>5. QED
    BY <2>1, <2>2, <2>3, <2>4
<1>5. snapshot' \in [Registers -> Values \cup {NotValid}]
  BY PreservedTable DEF ConnectStep, Open, OpenFails, ReadRegister, Unread,
     EndSnapshot, SendInit, CloseBotched, EndHandshake, WriteBack, EndRestore,
     AdoptMode, AdoptMix, SelectMix, EndSelect, Publish
<1>6. /\ before' \in [Registers -> Values] /\ wanted' \in [Registers -> Values]
      /\ lost' \in SUBSET Registers /\ late' \in SUBSET Settable
  <2>1. CASE ReadRegister \/ WriteBack
    BY <2>1, PreservedTable DEF ReadRegister, WriteBack
  <2>2. CASE AdoptMode \/ AdoptMix
    <3>1. {"KnobLedSelect", "SelectedMix"} \subseteq Registers
      BY <2>2 DEF AdoptMode, AdoptMix, InTable
    <3>2. QED
      BY <2>2, <3>1 DEF AdoptMode, AdoptMix
  <2>3. CASE ~(ReadRegister \/ WriteBack \/ AdoptMode \/ AdoptMix)
    BY <2>3 DEF ConnectStep, Open, OpenFails, EndSnapshot, SendInit,
       CloseBotched, EndHandshake, EndRestore, SelectMix, EndSelect, Publish
  <2>4. QED
    BY <2>1, <2>2, <2>3
<1>7. mixerMode' \in {"Single", "Dual"} /\ asked' \in Values
  <2>1. CASE AdoptMode
    BY <2>1 DEF AdoptMode, ModeOf
  <2>2. CASE AdoptMix
    <3>1. "SelectedMix" \in Registers
      BY <2>2 DEF AdoptMix, InTable
    <3>2. QED
      BY <2>2, <3>1 DEF AdoptMix, Values, Mixes
  <2>3. CASE Publish
    BY <2>3 DEF Publish, Values, Mixes
  <2>4. CASE ~(AdoptMode \/ AdoptMix \/ Publish)
    BY <2>4 DEF ConnectStep, Open, OpenFails, ReadRegister, EndSnapshot,
       SendInit, CloseBotched, EndHandshake, WriteBack, EndRestore, SelectMix,
       EndSelect
  <2>5. QED
    BY <2>1, <2>2, <2>3, <2>4
<1>8. next' \in 1 .. 7
  BY <1>1, PreservedTable, InitTable, SelectTable
<1>9. /\ at' \in Places
      /\ handle' \in {"none", "live", "stale"}
      /\ state' \in {"Connected", "Disconnected"}
  BY <1>1 DEF Places
<1>10. SessionTypeOK'
  BY <1>2, <1>3, <1>4, <1>5, <1>6, <1>7, <1>8, <1>9
<1>11. /\ HandleFollowsState' /\ HandleIsOwned' /\ StateFollowsPlace'
       /\ StopFollowsWorker' /\ InTable'
  BY <1>1, <1>2, PreservedTable, InitTable, SelectTable
     DEF HandleFollowsState, HandleIsOwned, Connecting, StateFollowsPlace,
     StopFollowsWorker, InTable
<1>12. QED
  BY <1>10, <1>11

\* disconnect() and the part of stop() that waits for the worker.
LEMMA DisconnectControl ==
  ASSUME SessionControl, DisconnectStep \/ Join
  PROVE  SessionControl'
<1> USE SessionAssumption DEF SessionControl, SessionTypeOK, deck, driver,
     adopted, where, bounds, marks, To, Onward
<1>1. \/ /\ at = "shutdown" /\ handle' = handle /\ state' = state
         /\ \/ at' = at /\ next' = next + 1 /\ next <= Len(ShutdownPayloads)
            \/ at' = "close" /\ next' = 1
         /\ joined' = joined
      \/ /\ at = "close" /\ handle' = "none" /\ state' = "Disconnected"
         /\ at' = (IF joined THEN "gone" ELSE "loop") /\ next' = 1
         /\ joined' = joined
      \/ /\ at = "ended" /\ state' = state /\ next' = 1 /\ joined' = TRUE
         /\ \/ state = "Connected" /\ at' = "shutdown" /\ handle' = handle
            \/ state = "Disconnected" /\ at' = "gone" /\ handle' = "none"
  <2>1. CASE SendShutdown
    BY <2>1 DEF SendShutdown
  <2>2. CASE EndShutdown \/ Close
    BY <2>2 DEF EndShutdown, Close
  <2>3. CASE Join
    BY <2>3 DEF Join
  <2>4. QED
    BY <2>1, <2>2, <2>3 DEF DisconnectStep
<1>2. UNCHANGED <<running, present, mixerMode, asked, snapshot, marks>>
  BY DEF DisconnectStep, SendShutdown, EndShutdown, Close, Join
<1>3. faults' \in 0 .. MaxFaults /\ unplugs' = unplugs /\ sets' = sets
  BY DEF Fails, Lands, DisconnectStep, SendShutdown, EndShutdown, Close, Join
<1>4. prop' \in [Registers -> Values]
  BY DEF DisconnectStep, SendShutdown, EndShutdown, Close, Join, Written,
     Values
<1>5. SessionTypeOK'
  <2>1. next' \in 1 .. 7 /\ at' \in Places
    BY <1>1, ShutdownTable DEF Places
  <2>2. handle' \in {"none", "live", "stale"}
        /\ state' \in {"Connected", "Disconnected"}
        /\ joined' \in BOOLEAN
    BY <1>1
  <2>3. QED
    BY <1>2, <1>3, <1>4, <2>1, <2>2
<1>6. /\ HandleFollowsState' /\ HandleIsOwned' /\ StateFollowsPlace'
      /\ StopFollowsWorker' /\ InTable'
  BY <1>1, <1>2, ShutdownTable
     DEF HandleFollowsState, HandleIsOwned, Connecting, StateFollowsPlace,
     StopFollowsWorker, InTable
<1>7. QED
  BY <1>5, <1>6

\* Whatever else happens leaves the thread that drives where it is.
LEMMA OutsideControl ==
  ASSUME SessionControl, Outside
  PROVE  SessionControl'
<1> USE SessionAssumption DEF SessionControl, SessionTypeOK, deck, driver,
     adopted, where, bounds, marks
<1>1. CASE Stop
  <2>1. SessionTypeOK'
    BY <1>1 DEF Stop
  <2>2. QED
    BY <1>1, <2>1 DEF Stop, HandleFollowsState, HandleIsOwned, Connecting,
       StateFollowsPlace, StopFollowsWorker, InTable
<1>2. CASE Unplug \/ Plug
  <2>1. /\ UNCHANGED <<state, running, joined, mixerMode, asked, at, next, prop,
                       snapshot, before, wanted, lost, late, faults, sets>>
        /\ present' \in BOOLEAN
        /\ unplugs' \in 0 .. MaxUnplugs
        /\ handle' \in {"none", "live", "stale"}
        /\ handle' = "none" <=> handle = "none"
    <3>1. CASE Unplug
      <4>1. handle' = handle \/ (handle = "live" /\ handle' = "stale")
        BY <3>1 DEF Unplug
      <4>2. UNCHANGED <<state, running, joined, mixerMode, asked, at, next, prop,
                        snapshot, before, wanted, lost, late, faults, sets>>
        BY <3>1 DEF Unplug
      <4>3. present' = FALSE /\ unplugs' = unplugs + 1 /\ unplugs < MaxUnplugs
        BY <3>1 DEF Unplug
      <4>4. unplugs' \in 0 .. MaxUnplugs
        <5>1. unplugs \in 0 .. MaxUnplugs /\ MaxUnplugs \in Nat
          OBVIOUS
        <5>2. QED
          BY <4>3, <5>1
      <4>5. present' \in BOOLEAN
        BY <4>3
      <4>6. /\ handle' \in {"none", "live", "stale"}
            /\ handle' = "none" <=> handle = "none"
        BY <4>1
      <4>7. QED
        BY <4>2, <4>4, <4>5, <4>6
    <3>2. CASE Plug
      BY <3>2 DEF Plug
    <3>3. QED
      BY <1>2, <3>1, <3>2
  <2>2. SessionTypeOK'
    BY <2>1
  <2>3. QED
    BY <2>1, <2>2 DEF HandleFollowsState, HandleIsOwned, Connecting,
       StateFollowsPlace, StopFollowsWorker, InTable
<1>3. ASSUME NEW r \in Registers, UserSets(r) PROVE SessionControl'
  <2>1. SessionTypeOK'
    BY <1>3 DEF UserSets, Values
  <2>2. QED
    BY <1>3, <2>1 DEF UserSets, HandleFollowsState, HandleIsOwned, Connecting,
       StateFollowsPlace, StopFollowsWorker, InTable
<1>4. QED
  BY <1>1, <1>2, <1>3 DEF Outside

LEMMA NextControl ==
  SessionControl /\ [SessionNext]_sessionVars => SessionControl'
<1> SUFFICES ASSUME SessionControl, [SessionNext]_sessionVars
             PROVE  SessionControl'
  OBVIOUS
<1>1. CASE DriveStep
  BY <1>1, BridgeControl, ConnectControl, DisconnectControl DEF DriveStep
<1>2. CASE Outside
  BY <1>2, OutsideControl
<1>3. CASE UNCHANGED sessionVars
  BY <1>3 DEF sessionVars, deck, driver, adopted, where, bounds, marks, SessionControl,
     SessionTypeOK, HandleFollowsState, HandleIsOwned, Connecting,
     StateFollowsPlace, StopFollowsWorker, InTable
<1>4. QED
  BY <1>1, <1>2, <1>3 DEF SessionNext

\* However the program is stopped, the cable pulled and a transfer lost: a
\* deck called connected has a handle, a handle is held only by a connect or a
\* connected deck, and when stop() is through nothing is open.
THEOREM ControlInvariant == SessionSpec => []SessionControl
<1>1. QED
  BY InitControl, NextControl, PTL DEF SessionSpec

-----------------------------------------------------------------------------
(* The settings.                                                           *)

\* What a connect has still to keep, and what it has kept.
Promise == OnTheWayBack /\ SettingsComeBack

\* A write sets its register, and touches no other but those it runs over.
LEMMA WrittenTouches ==
  ASSUME NEW r \in Registers, NEW v, Written(r, v)
  PROVE  /\ prop'[r] = v
         /\ \A q \in Registers \ RunsOver(r, v) : q # r => prop'[q] = prop[q]
<1>1. PICK spoiled \in SUBSET RunsOver(r, v) :
        prop' = [q \in Registers |-> CASE q = r         -> v
                                       [] q \in spoiled -> "spoiled"
                                       [] OTHER         -> prop[q]]
  BY DEF Written
<1>2. r \notin spoiled
  BY DEF RunsOver
<1>3. prop'[r] = v
  BY <1>1, <1>2
<1>4. ASSUME NEW q \in Registers, q \notin spoiled, q # r
      PROVE  prop'[q] = prop[q]
  BY <1>1, <1>4
<1>5. QED
  BY <1>3, <1>4

\* Away from a connect, and with the deck not connected, nothing is promised.
LEMMA NothingPromised ==
  ASSUME ~Connecting', state' = "Disconnected"
  PROVE  Promise'
  BY DEF Promise, Connecting, OnTheWayBack, SettingsComeBack, InSession

LEMMA NotInSession ==
  ASSUME at' \notin {"loop", "poll"}
  PROVE  SettingsComeBack'
  BY DEF SettingsComeBack, InSession

LEMMA InitPromise == SessionInit => Promise
  BY DEF SessionInit, Promise, OnTheWayBack, SettingsComeBack, InSession

\* Opening a deck takes its settings as they are; nothing has been read yet.
LEMMA OpenPromise ==
  ASSUME SessionControl, Open
  PROVE  Promise'
<1>1. at' = "snapshot" /\ next' = 1 /\ prop' = prop /\ before' = prop
  BY DEF Open, To, deck
<1>2. OnTheWayBack'
  BY <1>1, PreservedTable DEF OnTheWayBack
<1>3. QED
  BY <1>1, <1>2, NotInSession DEF Promise

\* A register that answers is kept, and one that does not is lost.
LEMMA ReadRegisterPromise ==
  ASSUME SessionControl, Promise, ReadRegister
  PROVE  Promise'
<1> USE DEF ReadRegister, deck, driver, Onward
<1>1. /\ at = "snapshot" /\ at' = at /\ next' = next + 1
      /\ next \in 1 .. Len(PreservedAddresses)
      /\ UNCHANGED <<prop, before, late>>
  BY PreservedTable DEF SessionControl, SessionTypeOK
<1>2. PICK r \in Registers : r = PreservedAddresses[next]
  BY <1>1, PreservedTable
<1>3. \A q \in Registers : prop[q] = before[q]
  BY <1>1 DEF Promise, OnTheWayBack
<1>4. /\ lost \subseteq lost'
      /\ \A q \in Registers : q # r => snapshot'[q] = snapshot[q]
      /\ r \in lost' \/ snapshot'[r] = prop[r]
  BY <1>2 DEF SessionControl, SessionTypeOK
<1>5. Kept(r)'
  BY <1>1, <1>2, <1>3, <1>4 DEF Kept
<1>6. \A q \in Registers : Kept(q) => Kept(q)'
  BY <1>1, <1>3, <1>4 DEF Kept
<1>7. \A i \in 1 .. Len(PreservedAddresses) :
        i < next' => Kept(PreservedAddresses[i])'
  <2> SUFFICES ASSUME NEW i \in 1 .. Len(PreservedAddresses), i < next'
               PROVE  Kept(PreservedAddresses[i])'
    OBVIOUS
  <2>1. CASE i = next
    BY <1>2, <1>5, <2>1
  <2>2. CASE i < next
    BY <1>1, <1>6, <2>2, PreservedTable DEF Promise, OnTheWayBack
  <2>3. QED
    BY <1>1, <2>1, <2>2, PreservedTable
<1>8. OnTheWayBack'
  BY <1>1, <1>3, <1>7 DEF OnTheWayBack
<1>9. QED
  BY <1>1, <1>8, NotInSession DEF Promise

\* The handshake spoils the registers and not what has been read of them.
LEMMA HandshakePromise ==
  ASSUME SessionControl, Promise, EndSnapshot \/ SendInit \/ EndHandshake
  PROVE  Promise'
<1> USE DEF To, Onward, deck, driver, marks, bounds
<1>1. UNCHANGED <<snapshot, before, lost, late, state>>
  BY DEF EndSnapshot, SendInit, EndHandshake
<1>2. state = "Disconnected"
  BY DEF EndSnapshot, SendInit, EndHandshake, SessionControl,
     StateFollowsPlace, Connecting
<1>3. \A r \in Registers : Kept(r)
  <2>1. CASE EndSnapshot
    <3>1. \A i \in 1 .. Len(PreservedAddresses) : Kept(PreservedAddresses[i])
      BY <2>1, PreservedTable
         DEF EndSnapshot, Promise, OnTheWayBack, SessionControl, SessionTypeOK
    <3>2. QED
      BY <3>1, EveryRegisterIsPreserved
  <2>2. CASE SendInit \/ EndHandshake
    BY <2>2 DEF SendInit, EndHandshake, Promise, OnTheWayBack
  <2>3. QED
    BY <2>1, <2>2
<1>4. \A r \in Registers : Kept(r)'
  BY <1>1, <1>3 DEF Kept
<1>5. at' \in {"handshake", "botched"} \/ (at' = "restore" /\ next' = 1)
  BY DEF EndSnapshot, SendInit, EndHandshake
<1>6. OnTheWayBack'
  BY <1>4, <1>5, PreservedTable DEF OnTheWayBack
<1>7. QED
  BY <1>5, <1>6, NotInSession DEF Promise

\* What was kept goes back, and nothing that is back already is run over.
LEMMA WriteBackPromise ==
  ASSUME SessionControl, Promise, WriteBack
  PROVE  Promise'
<1> USE DEF WriteBack, driver, Onward
<1>1. /\ at = "restore" /\ at' = at /\ next' = next + 1
      /\ next \in 1 .. Len(PreservedAddresses)
      /\ UNCHANGED <<snapshot, before, late>>
  BY PreservedTable DEF SessionControl, SessionTypeOK
<1>2. PICK r \in Registers : r = PreservedAddresses[next]
  BY <1>1, PreservedTable
<1>3. Kept(r)
  BY <1>1, <1>2 DEF Promise, OnTheWayBack
<1>4. lost \subseteq lost'
  OBVIOUS
<1>5. Back(r)'
  <2>1. CASE ~IsValid(r)
    BY <1>1, <1>3, <1>4, <2>1 DEF IsValid, Kept, Back, SessionControl,
       SessionTypeOK, Values, Mixes, NotValid
  <2>2. CASE IsValid(r) /\ Written(r, snapshot[r])
    BY <1>1, <1>3, <1>4, <2>2, WrittenTouches DEF Kept, Back
  <2>3. CASE r \in lost'
    BY <2>3 DEF Back
  <2>4. QED
    BY <1>2, <2>1, <2>2, <2>3
<1>6. \A q \in Registers \ RunsOver(r, snapshot[r]) :
        q # r /\ Back(q) => Back(q)'
  <2> SUFFICES ASSUME NEW q \in Registers \ RunsOver(r, snapshot[r]), q # r,
                      Back(q)
               PROVE  Back(q)'
    OBVIOUS
  <2>1. CASE Written(r, snapshot[r])
    BY <1>1, <1>4, <2>1, WrittenTouches DEF Back
  <2>2. CASE prop' = prop
    BY <1>1, <1>4, <2>2 DEF Back
  <2>3. QED
    BY <1>2, <2>1, <2>2
<1>7. \A q \in Registers : Kept(q) => Kept(q)'
  BY <1>1, <1>4 DEF Kept
<1>8. \A i \in 1 .. Len(PreservedAddresses) :
        i < next' => Back(PreservedAddresses[i])'
  <2> SUFFICES ASSUME NEW i \in 1 .. Len(PreservedAddresses), i < next'
               PROVE  Back(PreservedAddresses[i])'
    OBVIOUS
  <2>1. CASE PreservedAddresses[i] = r
    BY <1>5, <2>1
  <2>2. CASE PreservedAddresses[i] # r
    <3>1. i < next
      BY <1>1, <1>2, <2>2, PreservedTable
    <3>2. IsValid(r) => PreservedAddresses[i] \notin RunsOver(r, snapshot[r])
      BY <1>1, <1>2, <3>1, RunsOverComesLater
         DEF IsValid, SessionControl, SessionTypeOK
    <3>3. Back(PreservedAddresses[i])
      BY <1>1, <3>1 DEF Promise, OnTheWayBack
    <3>4. CASE IsValid(r)
      BY <1>6, <2>2, <3>2, <3>3, <3>4, PreservedTable
    <3>5. CASE ~IsValid(r)
      BY <1>1, <1>2, <1>4, <3>3, <3>5 DEF Back
    <3>6. QED
      BY <3>4, <3>5
  <2>3. QED
    BY <2>1, <2>2
<1>9. \A i \in 1 .. Len(PreservedAddresses) :
        i >= next' => Kept(PreservedAddresses[i])'
  BY <1>1, <1>7, PreservedTable DEF Promise, OnTheWayBack
<1>10. OnTheWayBack'
  BY <1>1, <1>8, <1>9 DEF OnTheWayBack
<1>11. QED
  BY <1>1, <1>10, NotInSession DEF Promise

\* With everything back, the adoption asks for the mode and the mix the deck
\* came back on; what does not answer is no longer promised.
LEMMA EverythingIsBack ==
  ASSUME SessionControl, Promise, EndRestore
  PROVE  \A r \in Registers : Back(r)
<1>1. \A i \in 1 .. Len(PreservedAddresses) : Back(PreservedAddresses[i])
  BY PreservedTable
     DEF EndRestore, Promise, OnTheWayBack, SessionControl, SessionTypeOK
<1>2. QED
  BY <1>1, EveryRegisterIsPreserved

LEMMA AdoptPromise ==
  ASSUME SessionControl, Promise, EndRestore \/ AdoptMode \/ AdoptMix
  PROVE  Promise'
<1> USE DEF To, deck, driver, adopted, marks, bounds
<1>1. \A r \in Registers : Back(r)
  BY EverythingIsBack DEF AdoptMode, AdoptMix, Promise, OnTheWayBack
<1>2. /\ prop' = prop /\ before' = before /\ late' = late
      /\ lost \subseteq lost'
  BY DEF EndRestore, AdoptMode, AdoptMix
<1>3. \A r \in Registers : Back(r)'
  BY <1>1, <1>2 DEF Back
<1>4. ASSUME AdoptMode PROVE ModeHolds'
  BY <1>1, <1>2, <1>4 DEF AdoptMode, ModeHolds, Back, SessionControl,
     SessionTypeOK, Settable
<1>5. ASSUME AdoptMix PROVE ModeHolds' /\ MixHolds'
  <2>1. ModeHolds
    BY <1>5 DEF AdoptMix, Promise, OnTheWayBack
  <2>2. ModeHolds'
    BY <1>2, <1>5, <2>1 DEF AdoptMix, ModeHolds
  <2>3. MixHolds'
    BY <1>1, <1>2, <1>5 DEF AdoptMix, MixHolds, Back, SessionControl,
       SessionTypeOK, Settable
  <2>4. QED
    BY <2>2, <2>3
<1>6. ASSUME EndRestore, at' = "select" PROVE ModeHolds' /\ MixHolds'
  BY <1>6, SessionAssumption DEF EndRestore, ModeHolds, MixHolds
<1>7. /\ EndRestore => at' \in {"adoptMode", "select"}
      /\ AdoptMode => at' = "adoptMix"
      /\ AdoptMix => at' = "select"
  BY DEF EndRestore, AdoptMode, AdoptMix
<1>8. OnTheWayBack'
  BY <1>3, <1>4, <1>5, <1>6, <1>7 DEF OnTheWayBack
<1>9. QED
  BY <1>7, <1>8, NotInSession DEF Promise

\* What a selection writes and runs over is no more than it may change.
LEMMA SelectMixTouches ==
  ASSUME SessionControl, ModeHolds, MixHolds, SelectMix
  PROVE  \A q \in Registers \ SelectionMayChange : Back(q) => Back(q)'
<1> USE DEF SelectMix, driver, marks
<1>1. UNCHANGED <<before, lost, late>>
  OBVIOUS
<1>2. CASE prop' = prop
  BY <1>1, <1>2 DEF Back
<1>3. CASE prop' # prop
  <2>1. next \in 1 .. Len(SelectPayloads)
    BY SelectTable DEF SessionControl, SessionTypeOK
  <2>2. PICK r \in Registers \cap {"KnobLedSelect", "SelectedMix"} :
          r = SelectPayloads[next] /\ Written(r, Selects(r))
    BY <1>3, <2>1, SelectTable
  <2>3. {"KnobLedSelect", "SelectedMix"} \subseteq Registers
    BY <2>2, SessionAssumption
  <2>4. CASE r = "SelectedMix"
    <3>1. \A q \in Registers : q # "SelectedMix" => prop'[q] = prop[q]
      BY <2>2, <2>4, WrittenTouches, SelectionRunsOver
    <3>2. prop'["SelectedMix"] = asked
      BY <2>2, <2>4, WrittenTouches DEF Selects
    <3>3. Back("SelectedMix")'
      BY <1>1, <2>3, <3>2 DEF Back, MixHolds
    <3>4. QED
      BY <1>1, <3>1, <3>3 DEF Back
  <2>5. CASE r = "KnobLedSelect"
    <3> DEFINE v == Selects("KnobLedSelect")
    <3>1. /\ prop'["KnobLedSelect"] = v
          /\ \A q \in Registers \ RunsOver("KnobLedSelect", v) :
               q # "KnobLedSelect" => prop'[q] = prop[q]
      BY <2>2, <2>5, WrittenTouches
    <3>2. RunsOver("KnobLedSelect", v) \subseteq Blocks
      BY SelectionRunsOver
    <3>3. CASE {"KnobLedSelect"} \cup Blocks \subseteq SelectionMayChange
      BY <1>1, <3>1, <3>2, <3>3 DEF Back
    <3>4. CASE ~({"KnobLedSelect"} \cup Blocks \subseteq SelectionMayChange)
      <4>1. "KnobLedSelect" \notin lost
        BY <2>3, <3>4 DEF SelectionMayChange
      <4>2. mixerMode = ModeOf(before["KnobLedSelect"])
        BY <2>3, <4>1 DEF ModeHolds
      <4>3. CASE before["KnobLedSelect"] = "Dual"
        <5>1. v = "Dual"
          BY <4>2, <4>3 DEF ModeOf, Selects
        <5>2. RunsOver("KnobLedSelect", v) = {}
          BY <5>1, SelectionRunsOver
        <5>3. QED
          BY <1>1, <3>1, <4>3, <5>1, <5>2 DEF Back
      <4>4. CASE before["KnobLedSelect"] # "Dual"
        <5>1. /\ "SelectedMix" \notin lost
              /\ before["KnobLedSelect"] = before["SelectedMix"]
              /\ SelectionMayChange =
                   RunsOver("KnobLedSelect", before["SelectedMix"])
          BY <2>3, <3>4, <4>1, <4>4 DEF SelectionMayChange
        <5>2. v = before["SelectedMix"]
          BY <2>3, <4>2, <4>4, <5>1 DEF ModeOf, Selects, MixHolds
        <5>3. QED
          BY <1>1, <3>1, <5>1, <5>2 DEF Back
      <4>5. QED
        BY <4>3, <4>4
    <3>5. QED
      BY <3>3, <3>4
  <2>6. QED
    BY <2>2, <2>4, <2>5
<1>4. QED
  BY <1>2, <1>3

\* So that the connect ends with everything else as it went back.
LEMMA PublishPromise ==
  ASSUME SessionControl, Promise, SelectMix \/ EndSelect \/ Publish
  PROVE  Promise'
<1> USE DEF To, Onward, deck, driver, adopted, marks, bounds
<1>1. UNCHANGED <<before, lost, late, mixerMode>>
  BY DEF SelectMix, EndSelect, Publish
<1>2. \A r \in Registers \ SelectionMayChange : Back(r)
  BY DEF SelectMix, EndSelect, Publish, Promise, OnTheWayBack
<1>3. SelectionMayChange' = SelectionMayChange
  BY <1>1 DEF SelectionMayChange
<1>4. CASE SelectMix
  <2>1. ModeHolds /\ MixHolds
    BY <1>4 DEF SelectMix, Promise, OnTheWayBack
  <2>2. \A r \in Registers \ SelectionMayChange : Back(r)'
    BY <1>2, <1>4, <2>1, SelectMixTouches
  <2>3. ModeHolds' /\ MixHolds'
    BY <1>1, <1>4, <2>1 DEF SelectMix, ModeHolds, MixHolds
  <2>4. at' \in {"select", "publish"}
    BY <1>4 DEF SelectMix
  <2>5. OnTheWayBack'
    BY <1>3, <2>2, <2>3, <2>4 DEF OnTheWayBack
  <2>6. QED
    BY <2>4, <2>5, NotInSession DEF Promise
<1>5. CASE EndSelect \/ Publish
  <2>1. prop' = prop /\ at' \in {"publish", "loop"}
    BY <1>5 DEF EndSelect, Publish
  <2>2. \A r \in Registers \ SelectionMayChange' : Back(r)'
    BY <1>1, <1>2, <1>3, <2>1 DEF Back
  <2>3. OnTheWayBack'
    BY <2>1, <2>2 DEF OnTheWayBack
  <2>4. SettingsComeBack'
    BY <2>2 DEF SettingsComeBack, Back
  <2>5. QED
    BY <2>3, <2>4 DEF Promise
<1>6. QED
  BY <1>4, <1>5

\* run() leaves a connected deck's settings alone.
LEMMA BridgePromise ==
  ASSUME SessionControl, Promise, Loop \/ PollAnswers \/ PollFails \/ Sleep
  PROVE  Promise'
<1> USE DEF To, deck, driver, marks, bounds
<1>1. /\ UNCHANGED <<prop, before, lost, late, state>>
      /\ at \in {"loop", "poll", "sleep"}
      /\ at' \in {"loop", "poll", "ended", "open", "shutdown"}
      /\ SelectionMayChange' = SelectionMayChange
  BY DEF SelectionMayChange, Loop, PollAnswers, PollFails, Sleep
<1>2. OnTheWayBack'
  BY <1>1 DEF OnTheWayBack
<1>3. CASE at = "sleep"
  BY <1>1, <1>3, NothingPromised
     DEF SessionControl, StateFollowsPlace, Connecting
<1>4. CASE at # "sleep"
  BY <1>1, <1>2, <1>4 DEF Promise, SettingsComeBack, InSession
<1>5. QED
  BY <1>3, <1>4

\* A deck that is being closed, or could not be opened, is promised nothing.
LEMMA ClosePromise ==
  ASSUME SessionControl,
         OpenFails \/ CloseBotched \/ DisconnectStep \/ Join
  PROVE  Promise'
<1> USE DEF To, Onward, deck, driver, marks, bounds
<1>1. CASE OpenFails \/ CloseBotched
  BY <1>1, NothingPromised DEF OpenFails, CloseBotched, SessionControl,
     StateFollowsPlace, Connecting
<1>2. CASE Close
  BY <1>2, NothingPromised DEF Close, Connecting
<1>3. CASE SendShutdown \/ EndShutdown \/ Join
  <2>1. at' \in {"shutdown", "close", "gone"}
    BY <1>3 DEF SendShutdown, EndShutdown, Join
  <2>2. OnTheWayBack'
    BY <2>1 DEF OnTheWayBack
  <2>3. QED
    BY <2>1, <2>2, NotInSession DEF Promise
<1>4. QED
  BY <1>1, <1>2, <1>3 DEF DisconnectStep

\* What is unchanged keeps its promise.
LEMMA UnchangedPromise ==
  ASSUME Promise,
         UNCHANGED <<prop, at, next, state, snapshot, before, lost, late,
                     adopted>>
  PROVE  Promise'
<1>1. SelectionMayChange' = SelectionMayChange
  BY DEF SelectionMayChange
<1>2. QED
  BY <1>1 DEF Promise, OnTheWayBack, Kept, Back, SettingsComeBack, InSession,
     adopted, ModeHolds, MixHolds

\* A setting made meanwhile is a new value to keep, or comes too late to be
\* kept and is marked so.
LEMMA UserSetsPromise ==
  ASSUME SessionControl, Promise, NEW r \in Registers, UserSets(r)
  PROVE  Promise'
<1> USE DEF SessionControl, SessionTypeOK
<1>1. /\ UNCHANGED <<at, next, state, snapshot, lost, mixerMode, asked>>
      /\ r \in Settable
      /\ prop'[r] = before'[r]
      /\ \A q \in Registers : q # r => prop'[q] = prop[q] /\ before'[q] = before[q]
      /\ late \subseteq late'
      /\ StillToGoBack(r) => r \in late'
  BY DEF UserSets, driver, adopted, where
<1>2. SelectionMayChange' = SelectionMayChange
  BY <1>1, SessionAssumption DEF SelectionMayChange, Settable
<1>3. /\ ModeHolds => ModeHolds'
      /\ MixHolds => MixHolds'
  BY <1>1, SessionAssumption DEF ModeHolds, MixHolds, Settable
<1>4. Back(r)'
  BY <1>1 DEF Back
<1>5. \A q \in Registers : Back(q) => Back(q)'
  BY <1>1, <1>4 DEF Back
<1>6. ASSUME Kept(r), ~IsValid(r) PROVE r \in lost \cup late
  BY <1>6 DEF Kept, IsValid, Values, Mixes, NotValid
<1>7. ASSUME NEW q \in Registers, Kept(q), q = r => StillToGoBack(r) \/ ~IsValid(r)
      PROVE  Kept(q)'
  BY <1>1, <1>6, <1>7 DEF Kept
<1>8. CASE at \in {"snapshot", "handshake"}
  <2>1. \A q \in Registers : Kept(q) => Kept(q)'
    BY <1>7, <1>8 DEF StillToGoBack
  <2>2. at = "snapshot" => \A q \in Registers : prop'[q] = before'[q]
    BY <1>1 DEF Promise, OnTheWayBack
  <2>3. OnTheWayBack'
    BY <1>1, <1>8, <2>1, <2>2, PreservedTable DEF Promise, OnTheWayBack
  <2>4. QED
    BY <1>1, <1>8, <2>3, NotInSession DEF Promise
<1>9. CASE at = "restore"
  <2>1. \A i \in 1 .. Len(PreservedAddresses) :
          i < next => Back(PreservedAddresses[i])'
    BY <1>5, <1>9, PreservedTable DEF Promise, OnTheWayBack
  <2>2. ASSUME NEW i \in 1 .. Len(PreservedAddresses), i >= next
        PROVE  Kept(PreservedAddresses[i])'
    <3>1. Kept(PreservedAddresses[i])
      BY <1>9, <2>2 DEF Promise, OnTheWayBack
    <3>2. i \in next .. Len(PreservedAddresses)
      BY <2>2, PreservedTable
    <3>3. PreservedAddresses[i] = r => StillToGoBack(r) \/ ~IsValid(r)
      BY <1>9, <3>2 DEF StillToGoBack
    <3>4. QED
      BY <1>7, <3>1, <3>3, PreservedTable
  <2>3. OnTheWayBack'
    BY <1>1, <1>9, <2>1, <2>2 DEF OnTheWayBack
  <2>4. QED
    BY <1>1, <1>9, <2>3, NotInSession DEF Promise
<1>10. CASE at \notin {"snapshot", "handshake", "restore"}
  <2>1. OnTheWayBack'
    BY <1>1, <1>2, <1>3, <1>5, <1>10 DEF Promise, OnTheWayBack
  <2>2. SettingsComeBack'
    BY <1>1, <1>2, <1>5 DEF Promise, SettingsComeBack, InSession, Back
  <2>3. QED
    BY <2>1, <2>2 DEF Promise
<1>11. QED
  BY <1>8, <1>9, <1>10

LEMMA NextPromise ==
  SessionControl /\ Promise /\ [SessionNext]_sessionVars => Promise'
<1> SUFFICES ASSUME SessionControl, Promise, [SessionNext]_sessionVars
             PROVE  Promise'
  OBVIOUS
<1>1. CASE ConnectStep
  BY <1>1, OpenPromise, ReadRegisterPromise, HandshakePromise,
     WriteBackPromise, AdoptPromise, PublishPromise, ClosePromise
     DEF ConnectStep
<1>2. CASE Loop \/ PollAnswers \/ PollFails \/ Sleep
  BY <1>2, BridgePromise
<1>3. CASE DisconnectStep \/ Join
  BY <1>3, ClosePromise
<1>4. CASE Stop \/ Unplug \/ Plug \/ UNCHANGED sessionVars
  BY <1>4, UnchangedPromise DEF Stop, Unplug, Plug, sessionVars, deck, driver, adopted,
     where, marks, bounds
<1>5. ASSUME NEW r \in Registers, UserSets(r) PROVE Promise'
  BY <1>5, UserSetsPromise
<1>6. QED
  BY <1>1, <1>2, <1>3, <1>4, <1>5 DEF SessionNext, DriveStep, Outside

\* What holds in every state of the session, the handle and what a connect has
\* in hand to put back, whatever is unplugged, set and lost on the way.
THEOREM SessionInvariant == SessionSpec => []SessionInv
<1>1. SessionInit => SessionControl /\ Promise
  BY InitControl, InitPromise
<1>2. SessionControl /\ Promise /\ [SessionNext]_sessionVars
        => SessionControl' /\ Promise'
  BY NextControl, NextPromise
<1>3. SessionControl /\ Promise => SessionInv
  BY DEF Promise, SessionInv
<1>4. QED
  BY <1>1, <1>2, <1>3, PTL DEF SessionSpec

\* Each register on its own: what a connect could read and write back holds
\* what the connect found in it, or what the user has set since.
THEOREM SettingsAreBack == SessionSpec => []SettingsComeBack
<1>1. SessionInit => SessionControl /\ Promise
  BY InitControl, InitPromise
<1>2. SessionControl /\ Promise /\ [SessionNext]_sessionVars
        => SessionControl' /\ Promise'
  BY NextControl, NextPromise
<1>3. SessionControl /\ Promise => SettingsComeBack
  BY DEF Promise
<1>4. QED
  BY <1>1, <1>2, <1>3, PTL DEF SessionSpec
=============================================================================
