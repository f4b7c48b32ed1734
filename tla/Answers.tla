------------------------------ MODULE Answers ------------------------------
(***************************************************************************)
(* Reading a register: the question, the reply buffer and the answer.      *)
(*                                                                         *)
(* A read is two transfers, and the deck keeps one reply buffer that it    *)
(* does not clear.  Inside the driver _writeMutex holds the two together   *)
(* (Device::readProperty); nothing does between programs, and the probe    *)
(* runs beside the driver (readRegister, ask in Probe.cpp).  What tells an *)
(* answer from the remains of another is the echo in front of it.          *)
(*                                                                         *)
(* On top of it, ax310_probe --try: write a register, let somebody look,   *)
(* and put it back.                                                        *)
(***************************************************************************)
EXTENDS Naturals, FiniteSets, Sequences

CONSTANTS
  Cells,      \* how many registers there are, one byte each
  Values,     \* what a register may hold
  MaxLength,  \* bound on the bytes one question asks for
  Driver, Probe,  \* the two programs
  Fence,      \* the settings transaction
  Dangerous,  \* the registers --try refuses
  MaxChanges, \* bound on the writes of others
  MaxLostWrites     \* bound on the transfers of --try that fail

Programs == {Driver, Probe}
Address  == 1 .. Cells
Length   == 1 .. MaxLength

ASSUME AnswersAssumption ==
  /\ Cells \in Nat \ {0} /\ MaxLength \in Nat \ {0}
  /\ {0, 1} \subseteq Values
  /\ Driver # Probe
  /\ Fence \in Address
  /\ Dangerous \subseteq Address \ {Fence}
  /\ MaxChanges \in Nat /\ MaxLostWrites \in Nat

VARIABLES
  reg,      \* the deck's registers
  cold,     \* a deck that nobody has initialised answers nothing
  reply,    \* its reply buffer
  asked,    \* what each program has asked and not collected
  seen,     \* what the registers asked for have held since the question
  trial,    \* how far --try has come
  writesLost, changes

deckVars    == <<reg, cold, reply>>
askVars     == <<asked, seen>>
answersVars == <<deckVars, askVars, trial, writesLost, changes>>

\* A block of registers, and the version the deck tells of itself.
Blocks    == {[group |-> "property", address |-> a, length |-> n] : a \in Address, n \in Length}
InRange(q) == q.address + q.length <= Cells + 1
Identity  == [group |-> "identity", address |-> 1, length |-> 1]
Nothing   == [group |-> "none", address |-> 1, length |-> 1]
Questions == {q \in Blocks : InRange(q)} \cup {Identity}

NoAnswer == [i \in {} |-> 0]

\* What the registers asked for hold now.
Held(r, q) == [i \in 1 .. q.length |-> r[q.address + i - 1]]

\* The trial at rest, and what is kept while it runs.  Two of it are ghosts:
\* what the register held when the trial began (`found`), and whether somebody
\* else has written it since (`disturbed`).
NoTrial == [at |-> "none", address |-> 1, value |-> 0, original |-> 0,
            fenced |-> FALSE, found |-> 0, disturbed |-> FALSE]

AnswersInit ==
  /\ reg \in [Address -> Values]
  /\ cold \in BOOLEAN
  /\ reply = [to |-> Nothing, bytes |-> [i \in Length |-> 0]]
  /\ asked = [p \in Programs |-> Nothing]
  /\ seen = [p \in Programs |-> {}]
  /\ trial = NoTrial
  /\ writesLost = 0 /\ changes = 0

Outcomes == {"nothing to put back", "could not open", "the write failed",
             "could not put back", "put back", "does not read as"}

-----------------------------------------------------------------------------
(* The deck.                                                               *)

\* An answer overwrites the echo and as many bytes as were asked for.  The
\* version has no echo of address and length: data stand where they would.
Answered(q) ==
  IF q.group = "identity"
    THEN [to : [group : {"identity"}, address : Address, length : Length],
          bytes : {reply.bytes}]
    ELSE {[to |-> q, bytes |-> [i \in Length |->
             IF i <= q.length THEN reg[q.address + i - 1] ELSE reply.bytes[i]]]}

\* A write, by whichever program.
Set(a, v) ==
  /\ reg' = [reg EXCEPT ![a] = v]
  /\ seen' = [p \in Programs |->
       IF asked[p].group = "property" THEN seen[p] \cup {Held(reg', asked[p])} ELSE seen[p]]

\* The driver's handshake.
WarmUp ==
  /\ cold /\ cold' = FALSE
  /\ UNCHANGED <<reg, reply, askVars, trial, writesLost, changes>>

\* The driver, or another command of the probe, changes a register.
Change ==
  /\ changes < MaxChanges /\ changes' = changes + 1
  /\ \E a \in Address, v \in Values :
       /\ Set(a, v)
       /\ trial' = [trial EXCEPT !.disturbed = @ \/ (trial.at # "none" /\ a = trial.address)]
  /\ UNCHANGED <<cold, reply, asked, writesLost>>

-----------------------------------------------------------------------------
(* A question and its answer.                                              *)

Ask(p, q) ==
  /\ asked[p] = Nothing
  /\ IF cold THEN UNCHANGED reply ELSE reply' \in Answered(q)
  /\ asked' = [asked EXCEPT ![p] = q]
  /\ seen' = [seen EXCEPT ![p] = IF q.group = "property" THEN {Held(reg, q)} ELSE {}]
  /\ UNCHANGED <<reg, cold>>

\* Mutant: the length in the echo is not looked at.
AnyLength(q) == reply.to.group = q.group /\ reply.to.address = q.address

\* propertyReplyValues, and the length readRegister and readProperty ask for.
\* The version is told by its group.
IsAnswer(q) ==
  /\ reply.to.group = q.group
  /\ q.group = "property" =>
       reply.to.address = q.address /\ reply.to.length >= q.length

\* What p is given if it collects now.
Result(p) ==
  IF IsAnswer(asked[p]) THEN [i \in 1 .. asked[p].length |-> reply.bytes[i]] ELSE NoAnswer

Collect(p) ==
  /\ asked[p] # Nothing
  /\ asked' = [asked EXCEPT ![p] = Nothing]
  /\ seen' = [seen EXCEPT ![p] = {}]
  /\ UNCHANGED deckVars

\* The driver, and the probe's other commands, read what they like.
Reads(p) ==
  /\ p = Probe => trial.at = "none"
  /\ (\E q \in Questions : Ask(p, q)) \/ Collect(p)
  /\ UNCHANGED <<trial, writesLost, changes>>

-----------------------------------------------------------------------------
(* tryRegister.                                                            *)

TrialGoes(from, to) == trial.at = from /\ trial' = [trial EXCEPT !.at = to]

\* Addresses on the list are refused; the old value is asked for.
Try ==
  /\ trial.at = "none"
  /\ \E a \in Address \ Dangerous, v \in Values, f \in BOOLEAN :
       /\ Ask(Probe, [group |-> "property", address |-> a, length |-> 1])
       /\ trial' = [NoTrial EXCEPT !.at = "before", !.address = a, !.value = v, !.fenced = f,
                                   !.found = reg[a]]
  /\ UNCHANGED <<writesLost, changes>>

\* Mutant: no answer is taken for a zero.
NoAnswerIsZero == [trial EXCEPT !.at = "open", !.original = 0]

\* A register that does not answer, or a read that fails: it is left alone.
WithoutAnswer == [trial EXCEPT !.at = "nothing to put back"]

TakeOriginal ==
  /\ trial.at = "before"
  /\ \/ /\ Result(Probe) # NoAnswer
        /\ trial' = [trial EXCEPT !.at = "open", !.original = Result(Probe)[1]]
     \/ trial' = WithoutAnswer
  /\ Collect(Probe)
  /\ UNCHANGED <<writesLost, changes>>

\* One write of the trial, which lands or is lost.
Writes(a, v, landed, failed) ==
  \/ Set(a, v) /\ trial' = [trial EXCEPT !.at = landed] /\ UNCHANGED writesLost
  \/ /\ writesLost < MaxLostWrites /\ writesLost' = writesLost + 1
     /\ trial' = [trial EXCEPT !.at = failed]
     /\ UNCHANGED <<reg, seen>>

FenceWrites(v, landed, failed) ==
  IF trial.fenced THEN Writes(Fence, v, landed, failed)
  ELSE trial' = [trial EXCEPT !.at = landed] /\ UNCHANGED <<reg, seen, writesLost>>

\* The writes in their order, each with where it leads when it lands and when
\* it does not.  What comes of opening the fence a second time, and of closing
\* it, is not looked at.
TrialWrites ==
  /\ \/ trial.at = "open"    /\ FenceWrites(1, "write", "could not open")
     \/ trial.at = "write"   /\ Writes(trial.address, trial.value, "close", "give up")
     \/ trial.at = "give up" /\ FenceWrites(0, "the write failed", "the write failed")
     \/ trial.at = "close"   /\ FenceWrites(0, "look", "look")
     \/ trial.at = "look"    /\ FenceWrites(1, "restore", "restore")
     \/ trial.at = "restore" /\ Writes(trial.address, trial.original, "reclose", "botched")
     \/ trial.at = "reclose" /\ FenceWrites(0, "read back", "read back")
     \/ trial.at = "botched" /\ FenceWrites(0, "could not put back", "could not put back")
  /\ UNCHANGED <<cold, reply, asked, changes>>

\* The restore is read back.
ReadBack ==
  \/ /\ Ask(Probe, [group |-> "property", address |-> trial.address, length |-> 1])
     /\ TrialGoes("read back", "after")
     /\ UNCHANGED <<writesLost, changes>>
  \/ /\ \/ Result(Probe) = <<trial.original>> /\ TrialGoes("after", "put back")
        \/ TrialGoes("after", "does not read as")
     /\ Collect(Probe)
     /\ UNCHANGED <<writesLost, changes>>

TrialStep == Try \/ TakeOriginal \/ TrialWrites \/ ReadBack

AnswersNext ==
  \/ WarmUp \/ Change
  \/ \E p \in Programs : Reads(p)
  \/ TrialStep

AnswersSpec == AnswersInit /\ [][AnswersNext]_answersVars

-----------------------------------------------------------------------------
(* Properties.                                                             *)

\* "it is the only thing separating an answer from stale rubbish"
\* (Protocol.hpp:990): what a program is given for a block of registers is
\* what all of them held at one moment since it asked, whatever another
\* program asks between its two transfers, and however the deck is woken.
AnswersAreTheirs ==
  \A p \in Programs :
    asked[p].group = "property" => Result(p) \in seen[p] \cup {NoAnswer}

\* "the old value is read first and restored afterwards whatever happens"
\* (Probe.cpp:578): however --try ends, the register holds what it held when it
\* began, or the probe has said that it could not put it back, or somebody else
\* has written it meanwhile, or it was the fence itself that was tried inside
\* the fence.
TrialIsUndone ==
  \/ trial.at \notin Outcomes \ {"could not put back"}
  \/ reg[trial.address] = trial.found
  \/ trial.disturbed
  \/ trial.fenced /\ trial.address = Fence

=============================================================================
