---------------------------- MODULE ReportsProofs ----------------------------
(***************************************************************************)
(* For any buttons and knobs, any width of counter and any number of       *)
(* sessions: no press is told that was not made, and none is told twice;   *)
(* a contact is told in order; a level moves as far as its knob has; and   *)
(* the listener's reading of the meters is the driver's.                   *)
(***************************************************************************)
EXTENDS Reports, TLAPS

\* A counter stays in its width whichever way it goes.
LEMMA CounterInWidth ==
  ASSUME NEW n \in Int
  PROVE  n % Wrap \in 0 .. Wrap - 1
<1>1. Wrap \in Nat /\ Wrap > 0
  BY ReportsAssumption DEF Half
<1>2. QED
  BY <1>1

\* What Level::fromPercent returns is a level.
LEMMA ClampedIsALevel ==
  ASSUME NEW n \in Int
  PROVE  Clamped(n) \in Levels
  BY ReportsAssumption DEF Clamped, Levels

LEMMA DeltaIsAnInt ==
  ASSUME NEW now \in 0 .. Wrap - 1, NEW was \in 0 .. Wrap - 1
  PROVE  Delta(now, was) \in Int
<1>1. (now - was) % Wrap \in 0 .. Wrap - 1
  BY CounterInWidth, ReportsAssumption
<1>2. QED
  BY <1>1, ReportsAssumption DEF Delta, Half

LEMMA InitPressInv == ReportsInit => PressInv
<1> SUFFICES ASSUME ReportsInit PROVE PressInv
  OBVIOUS
<1>1. counter \in [Knobs -> 0 .. Wrap - 1] /\ Wrap - 1 \in 0 .. Wrap - 1
  BY ReportsAssumption DEF ReportsInit, Half
<1>2. 0 \in 1 - Half .. Half - 1
  BY ReportsAssumption DEF Half
<1>3. QED
  BY <1>1, <1>2 DEF ReportsInit, PressInv, ReportsTypeOK, Unknown

\* A press is to be told from when it is made; nothing else the hands do
\* changes what is.
LEMMA HandsPressInv ==
  ASSUME PressInv, Hands
  PROVE  PressInv'
<1> USE DEF PressInv, ReportsTypeOK, Hands, driver, listener, ghosts, Controls
<1>1. CASE Finger
  BY <1>1 DEF Finger
<1>2. ASSUME NEW b \in Buttons, Press(b) PROVE PressInv'
  BY <1>2, ReportsAssumption DEF Press
<1>3. ASSUME NEW b \in Buttons, LetGo(b) PROVE PressInv'
  BY <1>3 DEF LetGo
<1>4. ASSUME NEW k \in Knobs, Push(k) PROVE PressInv'
  BY <1>4, ReportsAssumption DEF Push
<1>5. ASSUME NEW k \in Knobs, Spring(k) PROVE PressInv'
  BY <1>5 DEF Spring
<1>6. ASSUME NEW k \in Knobs, NEW step \in {-1, 1}, Turn(k, step)
      PROVE  PressInv'
  <2>1. counter[k] + step \in Int
    BY ReportsAssumption DEF Half
  <2>2. counter' \in [Knobs -> 0 .. Wrap - 1]
    BY <1>6, <2>1, CounterInWidth DEF Turn
  <2>3. moved' \in [Knobs -> 1 - Half .. Half - 1]
    BY <1>6 DEF Turn
  <2>4. QED
    BY <1>6, <2>2, <2>3 DEF Turn
<1>7. QED
  BY <1>1, <1>2, <1>3, <1>4, <1>5, <1>6

\* What is told was to be told, and what the report shows is told after it.
LEMMA TakePressInv ==
  ASSUME PressInv, NEW touched \in SUBSET Knobs, NEW reading \in Readings,
         NEW isScreenTouch \in BOOLEAN, isScreenTouch => finger # Nowhere,
         Take(Report(isScreenTouch, touched, reading))
  PROVE  PressInv'
<1> DEFINE r == Report(isScreenTouch, touched, reading)
           base == Seeded(r)
           told_ == ButtonsPressed(r) \cup KnobsPushed(r, base)
<1>1. /\ r.isScreenTouch = isScreenTouch
      /\ r.touch = finger
      /\ r.buttons = IF isScreenTouch THEN {} ELSE down
      /\ r.knobPush = pushed
      /\ r.knobTouch = touched
      /\ r.knobValues = counter
      /\ r.audioMeters = reading
  BY DEF Report
<1>2. /\ base.knobPush = IF isSeeded THEN last.knobPush ELSE pushed
      /\ base.knobValues \in [Knobs -> 0 .. Wrap - 1]
  BY <1>1 DEF Seeded, PressInv, ReportsTypeOK
<1>3. /\ isSeeded' = TRUE
      /\ last'.buttons = IF isScreenTouch THEN last.buttons ELSE down
      /\ last'.knobPush = pushed
      /\ UNCHANGED <<deck, connected>>
  BY <1>1 DEF Take
<1>4. \A c \in told_ : c \in Controls /\ untold[c] = 1
  BY <1>1, <1>2 DEF ButtonsPressed, KnobsPushed, PressInv, ReportsTypeOK, Controls
<1>5. /\ untold' = [c \in Controls |-> untold[c] - IF c \in told_ THEN 1 ELSE 0]
  BY DEF Take, Tell
<1>6. untold' \in [Controls -> {0, 1}]
  BY <1>4, <1>5 DEF PressInv, ReportsTypeOK
<1>7. level' \in [Knobs -> Levels \cup {Unknown}]
  <2> SUFFICES ASSUME NEW k \in Knobs, level[k] # Unknown
               PROVE  Clamped(level[k] + Delta(counter[k], base.knobValues[k]))
                        \in Levels
    BY <1>1 DEF Take, DispatchKnobValues, PressInv, ReportsTypeOK
  <2>1. Delta(counter[k], base.knobValues[k]) \in Int
    BY <1>2, DeltaIsAnInt DEF PressInv, ReportsTypeOK
  <2>2. level[k] \in Int
    BY ReportsAssumption DEF PressInv, ReportsTypeOK, Levels
  <2>3. QED
    BY <2>1, <2>2, ClampedIsALevel
<1>8. ReportsTypeOK'
  <2>1. /\ last' \in [buttons : SUBSET Buttons, knobPush : SUBSET Knobs,
                      knobTouch : SUBSET Knobs,
                      knobValues : [Knobs -> 0 .. Wrap - 1]]
    BY <1>1 DEF Take, PressInv, ReportsTypeOK
  <2>2. /\ isTouchDown' \in BOOLEAN
        /\ touchAt' \in Spots \cup {Nowhere}
        /\ told' \in [phase : {"Pressed", "Moved", "Released"},
                      at : Spots \cup {Nowhere}]
    <3>1. finger \in Spots \cup {Nowhere} /\ touchAt \in Spots \cup {Nowhere}
      BY DEF PressInv, ReportsTypeOK
    <3>2. DispatchTouch(r)
      BY DEF Take
    <3>3. CASE isScreenTouch
      <4>1. /\ isTouchDown' = TRUE
            /\ touchAt' = finger
            /\ \/ told' = told
               \/ told' = [phase |-> "Moved", at |-> finger]
               \/ told' = [phase |-> "Pressed", at |-> finger]
        BY <1>1, <3>2, <3>3 DEF DispatchTouch
      <4>2. QED
        BY <3>1, <4>1 DEF PressInv, ReportsTypeOK
    <3>4. CASE ~isScreenTouch
      <4>1. /\ isTouchDown' = FALSE
            /\ touchAt' = touchAt
            /\ \/ told' = told
               \/ told' = [phase |-> "Released", at |-> touchAt]
        BY <1>1, <3>2, <3>4 DEF DispatchTouch
      <4>2. QED
        <5>1. /\ told \in [phase : {"Pressed", "Moved", "Released"},
                           at : Spots \cup {Nowhere}]
              /\ touchAt' \in Spots \cup {Nowhere}
          BY <3>1, <4>1 DEF PressInv, ReportsTypeOK
        <5>2. [phase |-> "Released", at |-> touchAt]
                \in [phase : {"Pressed", "Moved", "Released"},
                     at : Spots \cup {Nowhere}]
          BY <3>1
        <5>3. QED
          BY <4>1, <5>1, <5>2
    <3>5. QED
      BY <3>3, <3>4
  <2>3. /\ audioMeters' \in Readings \cup {NoReading}
        /\ metersTold' \in Readings \cup {NoReading}
    BY <1>1 DEF Take, DispatchAudioMeters, PressInv, ReportsTypeOK
  <2>4. moved' \in [Knobs -> 1 - Half .. Half - 1]
    BY ReportsAssumption DEF Take, Half
  <2>5. QED
    BY <1>3, <1>6, <1>7, <2>1, <2>2, <2>3, <2>4
       DEF PressInv, ReportsTypeOK, deck
<1>9. \A b \in down \ last'.buttons : untold'[b] = 1
  <2>1. CASE isScreenTouch
    <3>1. told_ \subseteq Knobs
      BY <1>1, <2>1 DEF ButtonsPressed, KnobsPushed, PressInv, ReportsTypeOK
    <3>2. \A b \in Buttons : b \notin told_
      BY <3>1, ReportsAssumption
    <3>3. ASSUME NEW b \in Buttons
          PROVE  untold'[b] = untold[b]
      <4>1. b \in Controls /\ b \notin told_ /\ untold[b] \in {0, 1}
        BY <3>2 DEF PressInv, ReportsTypeOK, Controls
      <4> HIDE DEF told_
      <4>2. untold'[b] = untold[b] - 0
        BY <1>5, <4>1
      <4>3. QED
        BY <4>1, <4>2
    <3>4. last'.buttons = last.buttons /\ down \subseteq Buttons
      BY <1>3, <2>1 DEF PressInv, ReportsTypeOK
    <3>5. QED
      BY <1>3, <3>3, <3>4 DEF PressInv, deck
  <2>2. CASE ~isScreenTouch
    BY <1>3, <2>2
  <2>3. QED
    BY <2>1, <2>2
<1>10. QED
  BY <1>3, <1>8, <1>9 DEF PressInv, deck

LEMMA PollPressInv ==
  ASSUME PressInv, Poll
  PROVE  PressInv'
<1>1. CASE PollOrdinary
  BY <1>1, TakePressInv DEF PollOrdinary
<1>2. CASE PollTouch
  BY <1>2, TakePressInv DEF PollTouch
<1>3. CASE PollNothing
  BY <1>3 DEF PollNothing, reportVars, deck, driver, listener, ghosts, PressInv,
              ReportsTypeOK
<1>4. QED
  BY <1>1, <1>2, <1>3 DEF Poll

\* A new session asks of the pushes nothing until its first report.
LEMMA SessionPressInv ==
  ASSUME PressInv, Connect \/ Disconnect
  PROVE  PressInv'
<1> USE DEF PressInv, ReportsTypeOK, deck
<1>1. [k \in Knobs |-> 0] \in [Knobs -> 1 - Half .. Half - 1]
  BY ReportsAssumption DEF Half
<1>2. CASE Connect
  BY <1>1, <1>2 DEF Connect, MetersRearmed, TouchKept
<1>3. CASE Disconnect
  BY <1>1, <1>3 DEF Disconnect, driver, listener
<1>4. QED
  BY <1>2, <1>3

\* What is still to be told is known in every reachable state.
THEOREM PressesAreCounted == ReportsSpec => []PressInv
<1>1. PressInv /\ [ReportsNext]_reportVars => PressInv'
  <2> SUFFICES ASSUME PressInv, [ReportsNext]_reportVars PROVE PressInv'
    OBVIOUS
  <2>1. CASE UNCHANGED reportVars
    BY <2>1 DEF reportVars, deck, driver, listener, ghosts, PressInv,
                ReportsTypeOK
  <2>2. QED
    BY <2>1, HandsPressInv, PollPressInv, SessionPressInv DEF ReportsNext
<1>2. QED
  BY <1>1, InitPressInv, PTL DEF ReportsSpec

\* Each press of a button and each push of a knob is told at most once, over
\* any number of sessions.
THEOREM PressesOnce == ReportsSpec => []NoPhantomPress
<1>1. PressInv => NoPhantomPress
  BY DEF PressInv, ReportsTypeOK, NoPhantomPress
<1>2. QED
  BY <1>1, PressesAreCounted, PTL

-----------------------------------------------------------------------------
(* The contact and the meters.                                             *)

LEMMA PollIsATake ==
  ASSUME Poll
  PROVE  \/ UNCHANGED reportVars
         \/ \E touched \in SUBSET Knobs, reading \in Readings,
               isScreenTouch \in BOOLEAN :
              /\ isScreenTouch => finger # Nowhere
              /\ Take(Report(isScreenTouch, touched, reading))
  BY DEF Poll, PollOrdinary, PollTouch, PollNothing

LEMMA NextContact ==
  ASSUME ContactIsTold, [ReportsNext]_reportVars
  PROVE  ContactIsTold'
<1> USE DEF ContactIsTold, driver, listener
<1>1. ASSUME NEW r, Take(r) PROVE ContactIsTold'
  BY <1>1 DEF Take, DispatchTouch
<1>2. CASE \/ Hands \/ Connect \/ Disconnect \/ UNCHANGED reportVars
  BY <1>2 DEF Hands, Connect, Disconnect, reportVars, TouchKept
<1>3. CASE Poll
  BY <1>1, <1>2, <1>3, PollIsATake
<1>4. QED
  BY <1>2, <1>3 DEF ReportsNext

LEMMA NextReading ==
  ASSUME ReadingIsTold, [ReportsNext]_reportVars
  PROVE  ReadingIsTold'
<1> USE DEF ReadingIsTold, driver, listener
<1>1. ASSUME NEW r, Take(r) PROVE ReadingIsTold'
  <2>1. metersTold' = r.audioMeters \/ r.audioMeters = audioMeters
    BY <1>1 DEF Take, DispatchAudioMeters
  <2>2. connected' = connected /\ audioMeters' = r.audioMeters
    BY <1>1 DEF Take, DispatchAudioMeters
  <2>3. metersTold' = metersTold \/ metersTold' = r.audioMeters
    BY <1>1 DEF Take, DispatchAudioMeters
  <2>4. QED
    BY <2>1, <2>2, <2>3
<1>2. CASE \/ Hands \/ Connect \/ Disconnect \/ UNCHANGED reportVars
  BY <1>2 DEF Hands, Connect, Disconnect, reportVars, MetersRearmed
<1>3. CASE Poll
  BY <1>1, <1>2, <1>3, PollIsATake
<1>4. QED
  BY <1>2, <1>3 DEF ReportsNext

-----------------------------------------------------------------------------
(* The knobs' counters.                                                    *)

\* A number that is less than once out of the counter's width.
LEMMA WrappedOnce ==
  ASSUME NEW n \in Int, -Wrap <= n, n < 2 * Wrap
  PROVE  n % Wrap = IF n < 0 THEN n + Wrap
                    ELSE IF n < Wrap THEN n ELSE n - Wrap
<1>1. Wrap \in Nat /\ Wrap > 0
  BY ReportsAssumption DEF Half
<1>2. CASE n < 0
  BY <1>1, <1>2
<1>3. CASE 0 <= n /\ n < Wrap
  BY <1>1, <1>3
<1>4. CASE n >= Wrap
  BY <1>1, <1>4
<1>5. QED
  BY <1>1, <1>2, <1>3, <1>4

\* The signed difference of two counters is how far the knob has turned, if
\* that is less than half round.
LEMMA DeltaIsTheTurn ==
  ASSUME NEW now \in 0 .. Wrap - 1, NEW was \in 0 .. Wrap - 1,
         NEW m \in 1 - Half .. Half - 1, now - was - m \in {-Wrap, 0, Wrap}
  PROVE  Delta(now, was) = m
<1>1. Wrap \in Nat /\ Half \in Nat /\ Wrap = 2 * Half /\ Half > 0
  BY ReportsAssumption DEF Half
<1> HIDE DEF Half
<1>2. (now - was) % Wrap = IF now - was < 0 THEN now - was + Wrap ELSE now - was
  <2>1. PICK n \in Int : n = now - was
    BY <1>1
  <2>2. -Wrap <= n /\ n < 2 * Wrap /\ n < Wrap
    BY <1>1, <2>1
  <2>3. n % Wrap = IF n < 0 THEN n + Wrap ELSE n
    BY <2>2, WrappedOnce
  <2>4. QED
    BY <2>1, <2>3
<1>3. QED
  BY <1>1, <1>2 DEF Delta

LEMMA TurnFollows ==
  ASSUME PressInv, CountersFollow, NEW x \in Knobs, NEW step \in {-1, 1},
         Turn(x, step), UNCHANGED <<connected, driver>>
  PROVE  CountersFollow'
<1> SUFFICES ASSUME InStream, NEW k \in Knobs
             PROVE  counter'[k] - last.knobValues[k] - moved'[k]
                      \in {-Wrap, 0, Wrap}
  BY DEF CountersFollow, InStream, driver
<1>1. /\ Wrap \in Nat /\ Half \in Nat /\ Wrap = 2 * Half /\ Half > 0
      /\ counter[k] \in 0 .. Wrap - 1 /\ last.knobValues[k] \in 0 .. Wrap - 1
      /\ moved[k] \in 1 - Half .. Half - 1
  BY ReportsAssumption DEF Half, PressInv, ReportsTypeOK
<1>2. counter[k] - last.knobValues[k] - moved[k] \in {-Wrap, 0, Wrap}
  BY DEF CountersFollow
<1>3. CASE k # x
  BY <1>2, <1>3 DEF Turn, PressInv, ReportsTypeOK
<1>4. CASE k = x
  <2>1. /\ counter'[k] = (counter[k] + step) % Wrap
        /\ moved'[k] = moved[k] + step
        /\ moved[k] + step \in 1 - Half .. Half - 1
    BY <1>4 DEF Turn, PressInv, ReportsTypeOK
  <2>2. PICK n \in Int : n = counter[k] + step /\ counter'[k] = n % Wrap
    BY <1>1, <2>1
  <2>3. PICK c \in Int, c1 \in Int, l \in Int, m \in Int :
          /\ c = counter[k] /\ c1 = counter'[k]
          /\ l = last.knobValues[k] /\ m = moved[k]
          /\ 0 <= c1 /\ c1 < Wrap
          /\ 2 * (m + step) < Wrap /\ -Wrap < 2 * (m + step)
          /\ 0 <= l /\ l < Wrap /\ 0 <= c /\ c < Wrap
    <3>1. counter'[k] \in 0 .. Wrap - 1
      BY <1>1, <2>1, CounterInWidth
    <3> HIDE DEF Half
    <3>2. QED
      BY <1>1, <2>1, <3>1
  <2>4. c - l - m \in {-Wrap, 0, Wrap}
    BY <1>2, <2>3
  <2>5. c1 = c + step \/ c1 = c + step + Wrap \/ c1 = c + step - Wrap
    <3>1. -Wrap <= n /\ n < 2 * Wrap
      BY <1>1, <2>2
    <3>2. n % Wrap = IF n < 0 THEN n + Wrap
                     ELSE IF n < Wrap THEN n ELSE n - Wrap
      BY <3>1, WrappedOnce
    <3>3. c1 = n \/ c1 = n + Wrap \/ c1 = n - Wrap
      BY <2>2, <2>3, <3>2
    <3>4. n = c + step
      BY <2>2, <2>3
    <3>5. QED
      BY <1>1, <3>3, <3>4
  <2>6. c1 - l - (m + step) \in {-Wrap, 0, Wrap}
    <3> HIDE DEF Half
    <3>1. PICK d \in Int : d = c1 - l - (m + step)
      BY <2>3
    <3>2. d < 2 * Wrap /\ -(2 * Wrap) < d
      BY <1>1, <2>3, <3>1
    <3>3. CASE c1 = c + step
      BY <2>3, <2>4, <3>3
    <3>4. CASE c1 = c + step + Wrap
      <4>1. d = (c - l - m) + Wrap
        BY <1>1, <2>3, <3>1, <3>4
      <4>2. QED
        BY <1>1, <2>3, <2>4, <3>1, <3>2, <4>1
    <3>5. CASE c1 = c + step - Wrap
      <4>1. d = (c - l - m) - Wrap
        BY <1>1, <2>3, <3>1, <3>5
      <4>2. QED
        BY <1>1, <2>3, <2>4, <3>1, <3>2, <4>1
    <3>6. QED
      BY <2>5, <3>3, <3>4, <3>5
  <2>7. QED
    BY <1>4, <2>1, <2>3, <2>6
<1>5. QED
  BY <1>3, <1>4

LEMMA TakeCounts ==
  ASSUME PressInv, NEW touched, NEW reading, NEW isScreenTouch \in BOOLEAN,
         Take(Report(isScreenTouch, touched, reading))
  PROVE  CountersFollow'
<1>1. /\ last'.knobValues = counter /\ counter' = counter
      /\ moved' = [k \in Knobs |-> 0]
  BY DEF Take, Report, deck
<1>2. \A k \in Knobs : counter[k] \in Int
  BY ReportsAssumption DEF PressInv, ReportsTypeOK
<1>3. ASSUME NEW k \in Knobs
      PROVE  counter'[k] - last'.knobValues[k] - moved'[k] = 0
  BY <1>1, <1>2, <1>3
<1>4. QED
  BY <1>3 DEF CountersFollow

LEMMA NextCounters ==
  ASSUME PressInv, CountersFollow, [ReportsNext]_reportVars
  PROVE  CountersFollow'
<1>1. CASE Hands
  <2>1. UNCHANGED <<connected, driver>>
    BY <1>1 DEF Hands
  <2>2. \/ UNCHANGED <<counter, moved>>
        \/ \E k \in Knobs, step \in {-1, 1} : Turn(k, step)
    BY <1>1 DEF Hands, Finger, Press, LetGo, Push, Spring, ghosts
  <2>3. CASE UNCHANGED <<counter, moved>>
    BY <2>1, <2>3 DEF CountersFollow, InStream, driver
  <2>4. QED
    BY <2>1, <2>2, <2>3, TurnFollows
<1>2. CASE UNCHANGED reportVars
  BY <1>2 DEF reportVars, deck, driver, ghosts, CountersFollow, InStream
<1>3. CASE Poll
  BY <1>2, <1>3, TakeCounts, PollIsATake
<1>4. CASE Connect \/ Disconnect
  BY <1>4 DEF Connect, Disconnect, CountersFollow, InStream
<1>5. QED
  BY <1>1, <1>2, <1>3, <1>4 DEF ReportsNext

-----------------------------------------------------------------------------

\* What the driver and the listener have made of the reports agrees, in every
\* state and over any number of sessions.
THEOREM ReportsInvariant == ReportsSpec => []ReportsInv
<1>1. ReportsInit => ContactIsTold /\ ReadingIsTold /\ CountersFollow
  BY DEF ReportsInit, ContactIsTold, ReadingIsTold, CountersFollow, InStream
<1>2. ContactIsTold /\ ReadingIsTold /\ PressInv /\ CountersFollow
        /\ [ReportsNext]_reportVars
        => (ContactIsTold /\ ReadingIsTold /\ CountersFollow)'
  <2>1. ContactIsTold /\ [ReportsNext]_reportVars => ContactIsTold'
    BY NextContact
  <2>2. ReadingIsTold /\ [ReportsNext]_reportVars => ReadingIsTold'
    BY NextReading
  <2>3. PressInv /\ CountersFollow /\ [ReportsNext]_reportVars
          => CountersFollow'
    BY NextCounters
  <2>4. QED
    BY <2>1, <2>2, <2>3
<1>3. ReportsSpec => [](ContactIsTold /\ ReadingIsTold /\ CountersFollow)
  BY <1>1, <1>2, PressesAreCounted, PTL DEF ReportsSpec
<1>4. PressInv /\ ContactIsTold /\ ReadingIsTold /\ CountersFollow => ReportsInv
  BY DEF ReportsInv
<1>5. QED
  BY <1>3, <1>4, PressesAreCounted, PTL

\* Once a report has been taken, the listener has this session's reading of the
\* meters.
THEOREM MetersTold == ReportsSpec => []MetersAreTold
<1>1. ReportsInv => MetersAreTold
  BY DEF ReportsInv, ReadingIsTold, MetersAreTold, InStream
<1>2. QED
  BY <1>1, ReportsInvariant, PTL

\* A contact is told as press, moves and release, the release where the finger
\* last was, also when the connection came and went under the finger.
THEOREM ContactsAreTold == ReportsSpec => ContactsInOrder
<1> DEFINE InOrder ==
             \/ told.phase = "Released" /\ told'.phase = "Pressed"
             \/ told.phase # "Released" /\ told'.phase = "Moved" /\ told'.at # told.at
             \/ told.phase # "Released" /\ told' = [told EXCEPT !.phase = "Released"]
<1>1. ASSUME ReportsInv, [ReportsNext]_reportVars
      PROVE  [InOrder]_told
  <2>1. ASSUME NEW r, Take(r) PROVE [InOrder]_told
    <3>1. told \in [phase : {"Pressed", "Moved", "Released"},
                    at : Spots \cup {Nowhere}]
      BY <1>1 DEF ReportsInv, PressInv, ReportsTypeOK
    <3>2. ContactIsTold /\ DispatchTouch(r)
      BY <1>1, <2>1 DEF ReportsInv, Take
    <3>3. CASE r.isScreenTouch
      BY <3>2, <3>3 DEF ContactIsTold, DispatchTouch
    <3>4. CASE ~r.isScreenTouch
      <4>1. \/ told' = told
            \/ isTouchDown /\ told' = [phase |-> "Released", at |-> touchAt]
        BY <3>2, <3>4 DEF DispatchTouch
      <4>2. isTouchDown => [phase |-> "Released", at |-> touchAt]
                             = [told EXCEPT !.phase = "Released"]
        BY <3>1, <3>2 DEF ContactIsTold
      <4>3. QED
        BY <3>2, <4>1, <4>2 DEF ContactIsTold
    <3>5. QED
      BY <3>3, <3>4
  <2>2. CASE \/ Hands \/ Connect \/ Disconnect \/ UNCHANGED reportVars
    BY <2>2 DEF Hands, Connect, Disconnect, reportVars, listener
  <2>3. CASE Poll
    BY <2>1, <2>2, <2>3, PollIsATake
  <2>4. QED
    BY <1>1, <2>2, <2>3 DEF ReportsNext
<1>2. QED
  BY <1>1, ReportsInvariant, PTL DEF ReportsSpec, ContactsInOrder

\* A level moves when its knob is touched, by what the knob has turned since
\* the session's last report, whichever way the counter wrapped.
THEOREM LevelsFollow == ReportsSpec => LevelsFollowKnobs
<1> DEFINE Follows ==
             connected' = connected =>
               \A k \in Knobs :
                 level'[k] # level[k] =>
                   /\ k \in last'.knobTouch
                   /\ level'[k] = Clamped(level[k] + moved[k])
<1>1. ASSUME ReportsInv, [ReportsNext]_reportVars
      PROVE  [Follows]_level
  <2>1. ASSUME NEW touched \in SUBSET Knobs, NEW reading \in Readings,
               NEW isScreenTouch \in BOOLEAN, connected,
               Take(Report(isScreenTouch, touched, reading))
        PROVE  Follows
    <3> SUFFICES ASSUME NEW k \in Knobs, level'[k] # level[k]
                 PROVE  /\ k \in last'.knobTouch
                        /\ level'[k] = Clamped(level[k] + moved[k])
      OBVIOUS
    <3>1. /\ level[k] \in Levels \cup {Unknown}
          /\ counter[k] \in 0 .. Wrap - 1
          /\ last.knobValues \in [Knobs -> 0 .. Wrap - 1]
          /\ last.knobValues[k] \in 0 .. Wrap - 1
          /\ moved[k] \in 1 - Half .. Half - 1
      BY <1>1 DEF ReportsInv, PressInv, ReportsTypeOK
    <3>2. PICK was : was = Seeded(Report(isScreenTouch, touched, reading)).knobValues[k]
      OBVIOUS
    <3>3. was = IF isSeeded THEN last.knobValues[k] ELSE counter[k]
      BY <1>1, <3>2 DEF Seeded, Report, ReportsInv, PressInv, ReportsTypeOK
    <3>4. /\ level[k] # Unknown /\ k \in touched
          /\ level'[k] = Clamped(level[k] + Delta(counter[k], was))
      BY <2>1, <3>2 DEF Take, DispatchKnobValues, Report
    <3>5. last'.knobTouch = touched
      BY <2>1 DEF Take, Report
    <3>6. CASE isSeeded
      <4>1. Delta(counter[k], was) = moved[k]
        BY <1>1, <2>1, <3>1, <3>3, <3>6, DeltaIsTheTurn
           DEF ReportsInv, CountersFollow, InStream
      <4>2. QED
        BY <3>4, <3>5, <4>1
    <3>7. CASE ~isSeeded
      <4>1. Delta(counter[k], was) = 0
        <5>1. 0 \in 1 - Half .. Half - 1 /\ counter[k] - counter[k] - 0 = 0
          BY <3>1, ReportsAssumption DEF Half
        <5>2. QED
          BY <3>1, <3>3, <3>7, <5>1, DeltaIsTheTurn
      <4>2. level[k] \in Levels /\ level[k] + 0 = level[k]
        BY <3>1, <3>4, ReportsAssumption DEF Levels
      <4>3. Clamped(level[k]) = level[k]
        BY <4>2, ReportsAssumption DEF Clamped, Levels
      <4>4. QED
        BY <3>4, <4>1, <4>2, <4>3
    <3>8. QED
      BY <3>6, <3>7
  <2>2. CASE \/ Hands \/ Connect \/ Disconnect \/ UNCHANGED reportVars
    BY <2>2 DEF Hands, Connect, Disconnect, reportVars, driver
  <2>3. CASE Poll
    <3>1. connected
      BY <2>3 DEF Poll, PollOrdinary, PollTouch, PollNothing
    <3>2. QED
      BY <2>1, <2>2, <2>3, <3>1, PollIsATake
  <2>4. QED
    BY <1>1, <2>2, <2>3 DEF ReportsNext
<1>2. QED
  BY <1>1, ReportsInvariant, PTL DEF ReportsSpec, LevelsFollowKnobs

=============================================================================
