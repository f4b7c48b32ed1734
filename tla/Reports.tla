------------------------------ MODULE Reports ------------------------------
(***************************************************************************)
(* What the deck reports of the hands on it, and what the listener is told *)
(* of that: Device::poll and the four dispatch functions it calls.         *)
(*                                                                         *)
(* A report is a sample.  It says where things are, and the driver tells   *)
(* the listener what has happened from two of them, over a stream that     *)
(* carries reports of two types and others that are not to be decoded, and *)
(* over connections that come and go while hands stay where they are.      *)
(***************************************************************************)
EXTENDS Integers

CONSTANTS
  Buttons,   \* the physical buttons
  Knobs,     \* the knobs; the names differ from the buttons'
  Spots,     \* the places on the glass a finger can be at
  Readings,  \* the readings the audio meters can give
  Wrap,      \* what a knob's counter counts to: 256, here any even number
  TopLevel   \* the level's highest step

Nowhere   == "nowhere"     \* no finger is down
NoReading == "no reading"  \* NoAudioMeterYet
Unknown   == -1            \* a level the deck has not said

Half == Wrap \div 2

ASSUME ReportsAssumption ==
  /\ Buttons \cap Knobs = {}
  /\ Nowhere \notin Spots
  /\ NoReading \notin Readings
  /\ Readings # {}
  /\ Wrap \in Nat /\ Half > 0 /\ Wrap = 2 * Half
  /\ TopLevel \in Nat

VARIABLES
  finger, down, pushed, counter,   \* the deck, as it is
  connected,    \* Device::_state
  isSeeded,     \* Device::_isSeeded
  last,         \* Device::_last
  isTouchDown,  \* Device::_isTouchDown
  touchAt,      \* Device::_touchX and _touchY
  audioMeters,  \* Device::_audioMeters
  level,        \* the row of Device::_levels that the knobs are turning
  told,         \* the listener: the last ScreenTouched
  metersTold,   \* the listener: the last AudioMetersChanged of this session
  untold,       \* 1 for a control pressed since the listener last heard it was,
                \* and less than 0 for one heard more often than pressed
  moved         \* how far each knob has turned since this session's last report

deck     == <<finger, down, pushed, counter>>
driver   == <<isSeeded, last, isTouchDown, touchAt, audioMeters, level>>
listener == <<told, metersTold>>
ghosts   == <<untold, moved>>
reportVars == <<deck, connected, driver, listener, ghosts>>

Controls == Buttons \cup Knobs
Levels   == 0 .. TopLevel

ReportsTypeOK ==
  /\ finger \in Spots \cup {Nowhere}
  /\ down \in SUBSET Buttons
  /\ pushed \in SUBSET Knobs
  /\ counter \in [Knobs -> 0 .. Wrap - 1]
  /\ connected \in BOOLEAN
  /\ isSeeded \in BOOLEAN
  /\ last \in [buttons : SUBSET Buttons, knobPush : SUBSET Knobs,
               knobTouch : SUBSET Knobs, knobValues : [Knobs -> 0 .. Wrap - 1]]
  /\ isTouchDown \in BOOLEAN
  /\ touchAt \in Spots \cup {Nowhere}
  /\ audioMeters \in Readings \cup {NoReading}
  /\ level \in [Knobs -> Levels \cup {Unknown}]
  /\ told \in [phase : {"Pressed", "Moved", "Released"},
               at : Spots \cup {Nowhere}]
  /\ metersTold \in Readings \cup {NoReading}
  /\ untold \in [Controls -> {0, 1}]
  /\ moved \in [Knobs -> 1 - Half .. Half - 1]

\* Nothing has been seen yet, and nobody has touched the deck.
ReportsInit ==
  /\ finger = Nowhere /\ down = {} /\ pushed = {}
  /\ counter \in [Knobs -> {0, Wrap - 1}]
  /\ connected = FALSE
  /\ isSeeded = FALSE
  /\ last = [buttons |-> {}, knobPush |-> {}, knobTouch |-> {},
             knobValues |-> [k \in Knobs |-> Wrap - 1]]
  /\ isTouchDown = FALSE /\ touchAt = Nowhere
  /\ audioMeters = NoReading
  /\ level = [k \in Knobs |-> Unknown]
  /\ told = [phase |-> "Released", at |-> Nowhere]
  /\ metersTold = NoReading
  /\ untold = [c \in Controls |-> 0] /\ moved = [k \in Knobs |-> 0]

-----------------------------------------------------------------------------
(* The hands on the deck.  Which knobs a hand rests on and what the meters *)
(* read may be anything at any report.                                     *)

Finger ==
  /\ finger' \in (Spots \cup {Nowhere}) \ {finger}
  /\ UNCHANGED <<down, pushed, counter, ghosts>>

Press(b) ==
  /\ b \notin down
  /\ down' = down \cup {b}
  /\ untold' = [untold EXCEPT ![b] = 1]
  /\ UNCHANGED <<finger, pushed, counter, moved>>

LetGo(b) ==
  /\ b \in down
  /\ down' = down \ {b}
  /\ UNCHANGED <<finger, pushed, counter, ghosts>>

Push(k) ==
  /\ k \notin pushed
  /\ pushed' = pushed \cup {k}
  /\ untold' = [untold EXCEPT ![k] = 1]
  /\ UNCHANGED <<finger, down, counter, moved>>

Spring(k) ==
  /\ k \in pushed
  /\ pushed' = pushed \ {k}
  /\ UNCHANGED <<finger, down, counter, ghosts>>

\* A session has taken its first report.
InStream == connected /\ isSeeded

\* The counter moves when the knob is turned, and has been seen to move when it
\* is not touched.  Bound: no knob goes half round between two reports.
Turn(k, step) ==
  /\ InStream => moved[k] + step \in 1 - Half .. Half - 1
  /\ counter' = [counter EXCEPT ![k] = (counter[k] + step) % Wrap]
  /\ moved' = IF InStream THEN [moved EXCEPT ![k] = moved[k] + step] ELSE moved
  /\ UNCHANGED <<finger, down, pushed, untold>>

Hands ==
  /\ \/ Finger
     \/ \E b \in Buttons : Press(b) \/ LetGo(b)
     \/ \E k \in Knobs : \/ Push(k) \/ Spring(k)
                         \/ \E step \in {-1, 1} : Turn(k, step)
  /\ UNCHANGED <<connected, driver, listener>>

-----------------------------------------------------------------------------
(* Device::poll                                                            *)

\* A report as decodeReport reads it.  The deck sends one of the touch type
\* while a finger is down, and now and then an ordinary one.
Report(isScreenTouch, touched, reading) ==
  [isScreenTouch |-> isScreenTouch, touch |-> finger,
   buttons |-> IF isScreenTouch THEN {} ELSE down,
   knobPush |-> pushed, knobTouch |-> touched, knobValues |-> counter,
   audioMeters |-> reading]

\* Mutant: the first report of a session is compared with the last of another.
NotSeeded(r) == last

\* The first report of a session is adopted, but for its buttons.
Seeded(r) ==
  IF isSeeded THEN last
  ELSE [last EXCEPT !.knobPush = r.knobPush, !.knobTouch = r.knobTouch,
                    !.knobValues = r.knobValues]

\* Mutant: a finger that moves leaves the driver where it was pressed.
KeepsFirstSpot(r) ==
  IF r.isScreenTouch
  THEN /\ isTouchDown' = TRUE
       /\ touchAt' = IF isTouchDown THEN touchAt ELSE r.touch
       /\ told' = IF isTouchDown /\ r.touch = told.at THEN told
                  ELSE [phase |-> IF isTouchDown THEN "Moved" ELSE "Pressed",
                        at |-> r.touch]
  ELSE /\ isTouchDown' = FALSE
       /\ touchAt' = touchAt
       /\ told' = IF isTouchDown THEN [phase |-> "Released", at |-> touchAt]
                  ELSE told

\* dispatchEvent, of the screen: a finger held still is not told again, and the
\* first report of the other type is the lift.
DispatchTouch(r) ==
  \/ /\ r.isScreenTouch
     /\ isTouchDown' = TRUE
     /\ touchAt' = r.touch
     /\ told' = IF isTouchDown /\ r.touch = touchAt THEN told
                ELSE [phase |-> IF isTouchDown THEN "Moved" ELSE "Pressed",
                      at |-> r.touch]
  \/ /\ ~r.isScreenTouch
     /\ isTouchDown' = FALSE
     /\ touchAt' = touchAt
     /\ told' = IF isTouchDown THEN [phase |-> "Released", at |-> touchAt]
                ELSE told

\* dispatchEvent, of the buttons: a report of a touch says nothing of them.
ButtonsPressed(r) == IF r.isScreenTouch THEN {} ELSE r.buttons \ last.buttons

\* dispatchKnobBitmasks, of the pushes: on the rising edge only.
KnobsPushed(r, base) == r.knobPush \ base.knobPush

\* ButtonPressed and KnobPushed
Tell(controls) ==
  untold' = [c \in Controls |-> untold[c] - IF c \in controls THEN 1 ELSE 0]

Clamped(n) == IF n < 0 THEN 0 ELSE IF n > TopLevel THEN TopLevel ELSE n

\* The counter wraps, and the difference is read as signed.
Delta(now, was) ==
  LET difference == (now - was) % Wrap
  IN  IF difference < Half THEN difference ELSE difference - Wrap

\* dispatchKnobValues: a touched knob that has turned moves its level, if the
\* deck has said what it is and takes the new one.
DispatchKnobValues(r, base) ==
  \E fails \in SUBSET Knobs :
    level' = [k \in Knobs |->
                IF k \in r.knobTouch \ fails /\ level[k] # Unknown
                THEN Clamped(level[k]
                               + Delta(r.knobValues[k], base.knobValues[k]))
                ELSE level[k]]

\* dispatchAudioMeters
DispatchAudioMeters(r) ==
  /\ audioMeters' = r.audioMeters
  /\ metersTold' = IF r.audioMeters = audioMeters THEN metersTold
                   ELSE r.audioMeters

\* poll, from the decoded report on.
Take(r) ==
  LET base == Seeded(r) IN
  /\ isSeeded' = TRUE
  /\ last' = [buttons |-> IF r.isScreenTouch THEN last.buttons ELSE r.buttons,
              knobPush |-> r.knobPush, knobTouch |-> r.knobTouch,
              knobValues |-> r.knobValues]
  /\ Tell(ButtonsPressed(r) \cup KnobsPushed(r, base))
  /\ DispatchTouch(r)
  /\ DispatchKnobValues(r, base)
  /\ DispatchAudioMeters(r)
  /\ moved' = [k \in Knobs |-> 0]
  /\ UNCHANGED <<deck, connected>>

PollOrdinary ==
  /\ connected
  /\ \E touched \in SUBSET Knobs, reading \in Readings :
       Take(Report(FALSE, touched, reading))

PollTouch ==
  /\ connected
  /\ finger # Nowhere
  /\ \E touched \in SUBSET Knobs, reading \in Readings :
       Take(Report(TRUE, touched, reading))

\* Mutant: the all-zero report is decoded.
DecodeFiller ==
  /\ connected
  /\ \E reading \in Readings :
       Take([Report(FALSE, {}, reading) EXCEPT !.buttons = {}, !.knobPush = {}])

\* The all-zero report between real ones, one of a size that is none of the
\* deck's, one whose checksum is wrong, and the timeout of an idle deck.
PollNothing == connected /\ UNCHANGED reportVars

-----------------------------------------------------------------------------
(* Session, as far as the reports can tell.                                *)

\* Mutant: a meter reading is inherited from the session before.
MetersKept == audioMeters

MetersRearmed == NoReading

\* Mutant: a new session begins with no finger on the glass.
TouchForgotten == FALSE

TouchKept == isTouchDown

\* connect(): the seed and the meters are re-armed, and nothing else of what
\* reports leave behind.  The deck says what its levels are, or does not.
Connect ==
  /\ ~connected
  /\ connected' = TRUE
  /\ isSeeded' = FALSE
  /\ audioMeters' = MetersRearmed
  /\ isTouchDown' = TouchKept
  /\ level' \in [Knobs -> Levels \cup {Unknown}]
  /\ metersTold' = NoReading
  /\ moved' = [k \in Knobs |-> 0]
  /\ UNCHANGED <<deck, last, touchAt, told, untold>>

Disconnect ==
  /\ connected
  /\ connected' = FALSE
  /\ moved' = [k \in Knobs |-> 0]
  /\ UNCHANGED <<deck, driver, listener, untold>>

Poll == PollOrdinary \/ PollTouch \/ PollNothing

ReportsNext == Hands \/ Poll \/ Connect \/ Disconnect

ReportsSpec == ReportsInit /\ [][ReportsNext]_reportVars

-----------------------------------------------------------------------------
(* Properties.                                                             *)

\* "Press, then moves, then release -- the sequence Qt expects" (main.cpp:383),
\* with the release where the finger last was, over any number of sessions.
ContactsInOrder ==
  [][ \/ told.phase = "Released" /\ told'.phase = "Pressed"
      \/ told.phase # "Released" /\ told'.phase = "Moved" /\ told'.at # told.at
      \/ told.phase # "Released" /\ told' = [told EXCEPT !.phase = "Released"]
    ]_told

\* A finger that has left the glass is told to have left, also one that left
\* while the deck was not connected.
LiftIsTold ==
  connected /\ finger = Nowhere /\ told.phase # "Released"
    ~> told.phase = "Released" \/ finger # Nowhere \/ ~connected

\* Each press of a button and each push of a knob is told at most once: not
\* again after the all-zero report (Device.cpp:1029), a touch of the screen or
\* a new session, and the push of the microphone's knob toggles what it toggles
\* once.
NoPhantomPress == \A c \in Controls : untold[c] >= 0

\* A level moves only when its knob is touched, and by what the knob has turned
\* since the session's last report, clamped: not by what it turned untouched
\* before that or before the session, and a counter that wraps is a step.
LevelsFollowKnobs ==
  [][connected' = connected =>
       \A k \in Knobs :
         level'[k] # level[k] =>
           /\ k \in last'.knobTouch
           /\ level'[k] = Clamped(level[k] + moved[k])
    ]_level

\* "So this session publishes a meter reading of its own" (Device.cpp:241): once a
\* report has been taken the listener has been told, in this session, what it
\* says of the meters.
MetersAreTold == InStream => metersTold = audioMeters

-----------------------------------------------------------------------------
(* The inductive invariant behind NoPhantomPress.                          *)

\* A button that is down and was not in the last report, and a knob that is
\* pushed and was not in the session's last, has still to be told.
PressInv ==
  /\ ReportsTypeOK
  /\ \A b \in down \ last.buttons : untold[b] = 1
  /\ isSeeded => \A k \in pushed \ last.knobPush : untold[k] = 1

-----------------------------------------------------------------------------
(* The inductive invariant behind the others.                              *)

\* The driver's contact is the one the listener was told of, and where.
ContactIsTold ==
  /\ isTouchDown <=> told.phase # "Released"
  /\ isTouchDown => told.at = touchAt

\* In a session the listener's reading of the meters is the driver's, which has
\* none before the first report.
ReadingIsTold == connected => metersTold = audioMeters

\* A knob's counter is where the last report had it, turned since, and wrapped
\* once at most.
CountersFollow ==
  InStream => \A k \in Knobs :
    counter[k] - last.knobValues[k] - moved[k] \in {-Wrap, 0, Wrap}

\* What holds in every state of the reports.
ReportsInv ==
  /\ PressInv
  /\ ContactIsTold
  /\ ReadingIsTold
  /\ CountersFollow

=============================================================================
