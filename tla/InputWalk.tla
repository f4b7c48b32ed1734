----------------------------- MODULE InputWalk -----------------------------
(***************************************************************************)
(* ax310_probe --inputs (Probe.cpp): the walk that measures which bit of a *)
(* report is which button and which knob.                                  *)
(*                                                                         *)
(* The walk lights one button at a time and takes down the bits of the     *)
(* next report that has any; then it asks, with all four dark, for two     *)
(* buttons together, and with all four lit for every knob, left to right.  *)
(* The person at the deck goes by the lights and not by the walk's         *)
(* deadlines: an answer may come late, twice, or never.  Whether the bits  *)
(* taken down can be read as a table at all is decided at the end.         *)
(***************************************************************************)
EXTENDS Naturals, FiniteSets, SequencesExt

CONSTANTS
  ButtonCount, KnobCount,
  PressAttempts,  \* how often a button is asked for
  MaxUnlit        \* bound on the light writes that fail

ASSUME WalkAssumption ==
  /\ {ButtonCount, KnobCount, PressAttempts} \subseteq Nat \ {0}
  /\ MaxUnlit \in Nat

Button == 1 .. ButtonCount
Knob   == 1 .. KnobCount

\* Byte 0 of a screen touch, the event type, read as buttons.
TouchBits == {ButtonCount + 1}

VARIABLES
  step,            \* what the walk waits for once `todo` is done
  round, attempt,
  todo,            \* the light writes still to make
  buttons,         \* what was down in the answer to each round, nothing as yet
  buttonsComplete,
  pushes,          \* the knobs that were down, in the order the values arrived
  lights,          \* the buttons that are lit
  lightsLost, unlit,  \* light writes lost; one of them was of the button asked for
  lighting,        \* how many buttons another program has lit, of all four
  knobsDown,       \* the knobs that are down
  cues,            \* the buttons the lights have asked somebody to press
  nextKnob         \* the knob to push next, left to right

walkVars  == <<step, round, attempt, todo, buttons, buttonsComplete, pushes>>
lightVars == <<lights, lightsLost, unlit, lighting, cues>>
handVars  == <<knobsDown, nextKnob>>
inputWalkVars == <<walkVars, lightVars, handVars>>

Steps == {"wake", "press", "release", "together", "drain", "knobs", "over", "failed"}

WalkInit ==
  /\ step = "wake" /\ round = 1 /\ attempt = 0 /\ todo = <<>>
  /\ buttons = [b \in Button |-> {}]
  /\ buttonsComplete = TRUE
  /\ pushes = <<>>
  /\ lights \in {{}, Button}
  /\ lightsLost = 0 /\ unlit = FALSE /\ lighting = 0
  /\ knobsDown = {} /\ nextKnob = 1
  /\ cues = {}

-----------------------------------------------------------------------------
(* The person, the deck and the other program.                             *)

Walking == step \notin {"over", "failed"}

\* What the lights ask for, as the walk explains them: a button that is alone
\* lit, or, with all of them dark, any.
Asked(lit) ==
  CASE Cardinality(lit) = 1 -> lit
    [] lit = {}             -> Button
    [] OTHER                -> {}

LightsTurn(lit) ==
  /\ lights' = lit
  /\ cues' = IF step = "wake" THEN cues ELSE cues \cup Asked(lit)

\* With all four lit the knobs are pushed from left to right; one that was
\* pushed may be pushed again before the next.
PushKnob ==
  /\ step # "wake" /\ lights = Button
  /\ \E k \in {nextKnob - 1, nextKnob} \cap Knob :
       /\ knobsDown' = knobsDown \cup {k}
       /\ nextKnob' = k + 1

ComeBack(k) == k \in knobsDown /\ knobsDown' = knobsDown \ {k} /\ UNCHANGED nextKnob

Person ==
  /\ Walking
  /\ PushKnob \/ \E k \in Knob : ComeBack(k)
  /\ UNCHANGED <<walkVars, lightVars>>

Shown(kind, bits, knobBits) == [kind |-> kind, buttons |-> bits, knobs |-> knobBits]

\* What may be down: any of the buttons that have been asked for, however long
\* ago.  Once a cue was lost nothing is claimed of the buttons, and their answers
\* are not told apart.
Down == IF unlit THEN {{}, cues} ELSE SUBSET cues

\* What may be read next; a report that has waited to be read is no different
\* from somebody's who is late.  A screen touch and the filler come at any time.
Arriving ==
  {Shown("state", down, knobsDown) : down \in Down}
  \cup {Shown("touch", TouchBits, {}), Shown("filler", {}, {})}

\* A driver that finishes its connect lights all four, one after the other.
OthersLight ==
  /\ Walking
  /\ lighting < ButtonCount
  /\ lighting' = lighting + 1
  /\ LightsTurn(lights \cup {lighting + 1})
  /\ UNCHANGED <<walkVars, handVars, lightsLost, unlit>>

-----------------------------------------------------------------------------
(* The lights.                                                             *)

Write(b, lit) == [button |-> b, lit |-> lit]
Darken(only) == [i \in 1 .. ButtonCount - 1 |-> Write(IF i < only THEN i ELSE i + 1, FALSE)]

\* Mutant: the dark ones first.
DarkThenLit(only) == Darken(only) \o <<Write(only, TRUE)>>

\* lightOnly(button): the lit one goes first and the dark ones after.
LightOnly(only) == <<Write(only, TRUE)>> \o Darken(only)

LightNone     == [i \in Button |-> Write(i, FALSE)]
LightDefaults == [i \in Button |-> Write(i, TRUE)]

\* One write of lightOnly or lightDefaults.  One that fails is only reported.
WriteLight ==
  /\ todo # <<>>
  /\ todo' = Tail(todo)
  /\ LET w == Head(todo) IN
       \/ /\ LightsTurn(IF w.lit THEN lights \cup {w.button} ELSE lights \ {w.button})
          /\ UNCHANGED <<lightsLost, unlit>>
       \/ /\ lightsLost < MaxUnlit
          /\ lightsLost' = lightsLost + 1
          /\ unlit' = (unlit \/ (step = "press" /\ w.lit))
          /\ UNCHANGED <<lights, cues>>
  /\ UNCHANGED <<step, round, attempt, buttons, buttonsComplete, pushes, lighting>>
  /\ UNCHANGED <<handVars>>

-----------------------------------------------------------------------------
(* awaitByte: waiting for a report.                                        *)

Waiting == todo = <<>> /\ Walking

\* Reports that say nothing of the buttons: a touch, and the all-zero filler.
Skipped(r) == r.kind \in {"touch", "filler"}

Wanted(r) ==
  CASE step = "wake"     -> TRUE
    [] step = "press"    -> r.buttons # {}
    [] step \in {"release", "drain"} -> r.buttons = {}
    [] step = "together" -> Cardinality(r.buttons) >= 2
    [] step = "knobs"    -> r.knobs # {} /\ r.knobs \notin Range(pushes)
    [] OTHER             -> FALSE

Goes(to, writes) == step' = to /\ todo' = writes

NextRound ==
  IF round < ButtonCount
    THEN Goes("press", LightOnly(round + 1)) /\ round' = round + 1 /\ attempt' = 0
    ELSE Goes("together", LightNone) /\ UNCHANGED <<round, attempt>>

\* The report that was waited for has come.
Came(r) ==
  \/ /\ step = "wake"
     /\ Goes("press", LightOnly(1))
     /\ UNCHANGED <<round, attempt, buttons, pushes>>
  \/ /\ step = "press"
     /\ buttons' = [buttons EXCEPT ![round] = r.buttons]
     /\ Goes("release", <<>>)
     /\ UNCHANGED <<round, attempt, pushes>>
  \/ /\ step = "release" /\ NextRound
     /\ UNCHANGED <<buttons, pushes>>
  \/ /\ step = "together" /\ Goes("drain", <<>>)
     /\ UNCHANGED <<round, attempt, buttons, pushes>>
  \/ /\ step = "drain" /\ Goes("knobs", LightDefaults)
     /\ UNCHANGED <<round, attempt, buttons, pushes>>
  \/ /\ step = "knobs"
     /\ pushes' = Append(pushes, r.knobs)
     /\ IF Len(pushes') = KnobCount THEN Goes("over", LightDefaults)
                                    ELSE UNCHANGED <<step, todo>>
     /\ UNCHANGED <<round, attempt, buttons>>

Read ==
  /\ Waiting
  /\ \E r \in Arriving :
       /\ ~Skipped(r) /\ Wanted(r)
       /\ Came(r)
  /\ UNCHANGED <<buttonsComplete, lightVars, handVars>>

\* The deadline passes, or the deck cannot be read.
Expire ==
  /\ Waiting
  /\ \/ /\ step = "wake" /\ Goes("failed", <<>>)
        /\ UNCHANGED <<round, attempt, buttonsComplete>>
     \/ /\ step = "press"
        /\ attempt' = attempt + 1
        /\ IF attempt' < PressAttempts
             THEN Goes("press", LightOnly(round)) /\ UNCHANGED buttonsComplete
             ELSE Goes("together", LightNone) /\ buttonsComplete' = FALSE
        /\ UNCHANGED round
     \/ /\ step = "release" /\ NextRound
        /\ UNCHANGED buttonsComplete
     \/ /\ step = "together" /\ Goes("drain", <<>>)
        /\ UNCHANGED <<round, attempt, buttonsComplete>>
     \/ /\ step = "drain" /\ Goes("knobs", LightDefaults)
        /\ UNCHANGED <<round, attempt, buttonsComplete>>
     \/ /\ step = "knobs" /\ Goes("over", LightDefaults)
        /\ UNCHANGED <<round, attempt, buttonsComplete>>
  /\ UNCHANGED <<buttons, pushes, lightVars, handVars>>

WalkStep == WriteLight \/ Read \/ Expire

WalkNext == WalkStep \/ Person \/ OthersLight

WalkSpec == WalkInit /\ [][WalkNext]_inputWalkVars

-----------------------------------------------------------------------------
(* reportInputWalk: what is made of it.                                    *)

\* Mutant: a bit that was seen before is taken as a finding.
EveryRoundIsABit(seen) == \A i \in DOMAIN seen : Cardinality(seen[i]) = 1

\* everyRoundIsADistinctBit
EveryRoundIsADistinctBit(seen) ==
  /\ \A i \in DOMAIN seen : Cardinality(seen[i]) = 1
  /\ \A i, j \in DOMAIN seen : seen[i] = seen[j] => i = j

ButtonsUsable == buttonsComplete /\ EveryRoundIsADistinctBit(buttons)
KnobsUsable   == Len(pushes) = KnobCount /\ EveryRoundIsADistinctBit(pushes)

\* The bits of a report in which these are down, on a deck wired this way.
Raw(wiring, down) == {wiring[x] : x \in down}

\* ButtonBits and KnobBits, a bit being named by its row: the verdict on them.
TableVerdict(usable, seen, wiring) ==
  IF ~usable THEN "was not measured"
  ELSE IF \A i \in DOMAIN seen : Raw(wiring, seen[i]) = {i} THEN "agrees"
  ELSE "DISAGREES"

-----------------------------------------------------------------------------
(* Properties.                                                             *)

\* The tables a deck might have, the touch's bit being the touch's.
Wirings(controls) ==
  {w \in [controls \cup TouchBits -> controls \cup TouchBits] :
     IsInjective(w) /\ \A t \in TouchBits : w[t] = t}

\* A verdict, if there is one, is right of whatever deck this is, and so is the
\* row that is printed to be pasted.
IsTrueOf(controls, usable, seen) ==
  \A wiring \in Wirings(controls) :
    LET verdict == TableVerdict(usable, seen, wiring)
        right == \A x \in controls : wiring[x] = x
    IN usable => /\ verdict = IF right THEN "agrees" ELSE "DISAGREES"
                 /\ \A x \in controls : Raw(wiring, seen[x]) = {wiring[x]}

\* "Telling those two apart is the difference between a measurement and a
\* mis-press" (Probe.cpp:1184): what the walk says of a table is right whenever
\* it says anything, and a row to paste is the deck's, however late, early,
\* long or often somebody who goes by the lights has pressed; unless a write
\* that was to light the button asked for was lost.
VerdictsAreTrue ==
  step = "over" =>
    /\ unlit \/ IsTrueOf(Button, ButtonsUsable, buttons)
    /\ IsTrueOf(Knob, KnobsUsable, pushes)

-----------------------------------------------------------------------------
(* The inductive invariant behind it.                                      *)

WalkTypeOK ==
  /\ step \in Steps /\ round \in Button /\ attempt \in 0 .. PressAttempts
  /\ todo \in Seq([button : Button, lit : BOOLEAN])
  /\ buttons \in [Button -> SUBSET (Button \cup TouchBits)]
  /\ pushes \in Seq(SUBSET Knob)
  /\ lights \subseteq Button /\ cues \subseteq Button
  /\ knobsDown \subseteq Knob /\ nextKnob \in 1 .. KnobCount + 1
  /\ lightsLost \in 0 .. MaxUnlit /\ lighting \in 0 .. ButtonCount
  /\ unlit \in BOOLEAN /\ buttonsComplete \in BOOLEAN

\* Where the walk is, of its rounds, its attempts and its knobs.
InItsPlace ==
  /\ step = "wake" => round = 1 /\ attempt = 0 /\ cues = {} /\ todo = <<>>
  /\ step = "press" => attempt < PressAttempts
  /\ step = "release" => todo = <<>>
  /\ step \in {"wake", "press", "release", "together", "drain"} => pushes = <<>>
  /\ step = "knobs" => Len(pushes) < KnobCount
  /\ Len(pushes) <= KnobCount

\* Before the walk has written a light: all lit, or as far as a driver has come.
LightsFound == lights \in {Button, 1 .. lighting}

\* The button asked for is lit first, over the one of the round before, and
\* stays lit while the others are darkened.
LitForTheRound ==
  \/ /\ todo = LightOnly(round)
     /\ \/ round \in lights
        \/ round - 1 \in lights
        \/ round = 1 /\ LightsFound
  \/ /\ round \in lights
     /\ \A i \in 1 .. Len(todo) : ~todo[i].lit /\ todo[i].button # round

LightsInOrder ==
  /\ step = "wake" => LightsFound
  /\ step \in {"press", "release"} /\ ~unlit => LitForTheRound

\* "somebody watching the deck sees that flash between rounds and answers the
\* wrong question" (Probe.cpp:1354): on the way from round to round, and with
\* another program lighting the buttons as well, the lights never ask for a
\* button the walk has not asked for yet, unless such a write was lost.
CuesInOrder == step \in {"press", "release"} /\ ~unlit => cues \subseteq 1 .. round

\* What was taken down in a round are buttons of that round or before.
TakenInOrder == ~unlit => \A b \in Button : buttons[b] \subseteq 1 .. b

\* A knob that was taken down alone was pushed, and none before it is down any
\* more; so those that were alone go from left to right.
PushedInOrder ==
  /\ \A k \in knobsDown : k < nextKnob
  /\ \A i \in 1 .. Len(pushes) : \A a \in Knob :
       pushes[i] = {a} => a < nextKnob /\ \A k \in knobsDown : a <= k
  /\ \A i, j \in 1 .. Len(pushes) : \A a, b \in Knob :
       i < j /\ pushes[i] = {a} /\ pushes[j] = {b} => a < b

\* What holds throughout the walk.
WalkInv ==
  /\ WalkTypeOK
  /\ InItsPlace
  /\ LightsInOrder
  /\ CuesInOrder
  /\ TakenInOrder
  /\ PushedInOrder

=============================================================================
