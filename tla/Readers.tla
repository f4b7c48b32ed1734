------------------------------ MODULE Readers ------------------------------
(***************************************************************************)
(* What is read from the deck, by the program that reads it: the driver    *)
(* that decodes the reports (Reports), the probe's walk over the inputs    *)
(* (InputWalk) and the registers and their trial (Answers).  They meet in  *)
(* the deck only, and what each makes of it is its own; a behaviour is     *)
(* that of one of them.                                                    *)
(***************************************************************************)
EXTENDS Reports, InputWalk, Answers

VARIABLE reader

readersVars == <<reportVars, inputWalkVars, answersVars, reader>>

ReadersInit ==
  /\ reader \in {"driver", "walk", "registers"}
  /\ ReportsInit /\ WalkInit /\ AnswersInit
  /\ reader # "driver" => counter = [k \in Knobs |-> 0]
  /\ reader # "walk" => lights = {}
  /\ reader # "registers" => reg = [a \in Address |-> 0] /\ cold

Decode ==
  /\ reader = "driver" /\ ReportsNext
  /\ UNCHANGED <<inputWalkVars, answersVars, reader>>

\* main() of the probe: --inputs.
WalkInputs ==
  /\ reader = "walk" /\ WalkNext
  /\ UNCHANGED <<reportVars, answersVars, reader>>

\* --read, --dump, --identify and --try, beside the driver's own reads.
ReadRegisters ==
  /\ reader = "registers" /\ AnswersNext
  /\ UNCHANGED <<reportVars, inputWalkVars, reader>>

ReadersNext == Decode \/ WalkInputs \/ ReadRegisters

\* "idle it reports 10 to 15 times a second" (Protocol.hpp:1833), and the
\* worker polls while it is connected.  Nobody at the probe has to do anything.
ReadersSpec ==
  /\ ReadersInit /\ [][ReadersNext]_readersVars
  /\ WF_reportVars(reader = "driver" /\ PollOrdinary /\ finger = Nowhere
                     /\ UNCHANGED <<inputWalkVars, answersVars, reader>>)

=============================================================================
