---------------------------- MODULE ProbeProofs ----------------------------
(***************************************************************************)
(* What the probe promises.  First of the registers: reading them beside   *)
(* another program, and --try on top of it, for any number of registers,   *)
(* values and lengths of question.  Then of its walk over the inputs, for  *)
(* any number of buttons, knobs and attempts.  Last, that each of the      *)
(* readers of the deck behaves as it does by itself.                       *)
(***************************************************************************)
EXTENDS Readers, FiniteSetTheorems, SequenceTheorems, TLAPS

-----------------------------------------------------------------------------
(* The registers: the theorems of Answers.                                 *)

\* How far a trial may be.
Places == {"none", "before", "open", "write", "give up", "close", "look", "restore",
           "reclose", "botched", "read back", "after"} \cup Outcomes

DeckTypeOK ==
  /\ reg \in [Address -> Values]
  /\ reply \in [to : [group : {"property", "identity", "none"}, address : Address,
                      length : Length],
                bytes : [Length -> Values]]
  /\ asked \in [Programs -> Questions \cup {Nothing}]
  /\ seen = [p \in Programs |-> seen[p]]

TrialTypeOK ==
  trial \in [at : Places, address : Address, value : Values, original : Values,
             fenced : BOOLEAN, found : Values, disturbed : BOOLEAN]

\* The deck has answered nobody before it is woken.
ColdIsSilent == cold => reply.to.group = "none"

\* What the registers asked for hold now is among what they have held.
SeenIsNow ==
  \A p \in Programs :
    asked[p].group = "property" => Held(reg, asked[p]) \in seen[p]

ReadInv == DeckTypeOK /\ ColdIsSilent /\ SeenIsNow /\ AnswersAreTheirs

\* A question for a register or more is about registers the deck has.
LEMMA QuestionsAreInRange ==
  ASSUME NEW q \in Questions \cup {Nothing}
  PROVE  /\ q.address \in Address /\ q.length \in Length
         /\ q.group \in {"property", "identity", "none"}
         /\ q.group = "property" =>
              \A i \in 1 .. q.length : i \in Length /\ q.address + i - 1 \in Address
         /\ q.group = "none" <=> q = Nothing
BY AnswersAssumption
   DEF Questions, Blocks, InRange, Identity, Nothing, Address, Length

\* The one register a trial asks for.
OneByte(a) == [group |-> "property", address |-> a, length |-> 1]

LEMMA OneByteIsAQuestion == \A a \in Address : OneByte(a) \in Questions
BY AnswersAssumption DEF OneByte, Questions, Blocks, InRange, Address, Length

LEMMA InitReadInv == AnswersInit => ReadInv /\ TrialTypeOK
<1> SUFFICES ASSUME AnswersInit PROVE ReadInv /\ TrialTypeOK
  OBVIOUS
<1>1. Nothing \in [group : {"property", "identity", "none"}, address : Address,
                   length : Length]
  BY AnswersAssumption DEF Nothing, Address, Length
<1>2. DeckTypeOK /\ TrialTypeOK
  BY <1>1, AnswersAssumption
     DEF AnswersInit, DeckTypeOK, TrialTypeOK, NoTrial, Places, Programs, Address, Length
<1>3. ColdIsSilent /\ SeenIsNow /\ AnswersAreTheirs
  BY DEF AnswersInit, ColdIsSilent, SeenIsNow, AnswersAreTheirs, Nothing
<1>4. QED
  BY <1>2, <1>3 DEF ReadInv

-----------------------------------------------------------------------------
(* The steps a program's reading is made of.                               *)

\* What an answer to q leaves in the buffer.
LEMMA AnsweredBuffer ==
  ASSUME DeckTypeOK, NEW q \in Questions, NEW r \in Answered(q)
  PROVE  /\ r \in [to : [group : {"property", "identity", "none"}, address : Address,
                         length : Length],
                   bytes : [Length -> Values]]
         /\ r.to.group = q.group
         /\ q.group = "property" =>
              /\ r.to = q
              /\ \A i \in 1 .. q.length : r.bytes[i] = reg[q.address + i - 1]
<1>1. /\ q.address \in Address /\ q.length \in Length
      /\ q.group \in {"property", "identity"}
      /\ q.group = "property" =>
           \A i \in 1 .. q.length : i \in Length /\ q.address + i - 1 \in Address
  BY QuestionsAreInRange DEF Questions, Blocks, Identity
<1>2. q = [group |-> q.group, address |-> q.address, length |-> q.length]
  BY DEF Questions, Blocks, Identity
<1>3. CASE q.group = "identity"
  <2>1. r \in [to : [group : {"identity"}, address : Address, length : Length],
                bytes : {reply.bytes}]
    BY <1>3 DEF Answered
  <2>2. QED
    BY <1>3, <2>1 DEF DeckTypeOK
<1>4. CASE q.group = "property"
  <2>1. r = [to |-> q, bytes |-> [i \in Length |->
               IF i <= q.length THEN reg[q.address + i - 1] ELSE reply.bytes[i]]]
    BY <1>4 DEF Answered
  <2>2. \A i \in Length : i <= q.length => i \in 1 .. q.length
    BY <1>1 DEF Length
  <2>3. r.bytes \in [Length -> Values]
    BY <1>1, <1>4, <2>1, <2>2 DEF DeckTypeOK
  <2>4. \A i \in 1 .. q.length : i <= q.length /\ i \in Length
    BY <1>1, <1>4
  <2>5. r.to = q /\ \A i \in 1 .. q.length : r.bytes[i] = reg[q.address + i - 1]
    BY <2>1, <2>4
  <2>6. q \in [group : {"property", "identity", "none"}, address : Address,
               length : Length]
    BY <1>1, <1>2
  <2>7. QED
    BY <1>4, <2>1, <2>3, <2>5, <2>6
<1>5. QED
  BY <1>1, <1>3, <1>4

\* An answer to one program's question is, as far as another program takes it
\* for its own, what its registers hold.
LEMMA AskReadInv ==
  ASSUME ReadInv, NEW p \in Programs, NEW q \in Questions, Ask(p, q)
  PROVE  ReadInv'
<1> USE DEF ReadInv
<1>1. /\ reg' = reg /\ cold' = cold
      /\ asked' = [asked EXCEPT ![p] = q]
      /\ seen' = [seen EXCEPT ![p] = IF q.group = "property" THEN {Held(reg, q)} ELSE {}]
  BY DEF Ask
<1>2. asked'[p] = q /\ seen'[p] = IF q.group = "property" THEN {Held(reg, q)} ELSE {}
  BY <1>1 DEF DeckTypeOK
<1>3. \A r \in Programs \ {p} : asked'[r] = asked[r] /\ seen'[r] = seen[r]
  BY <1>1 DEF DeckTypeOK
<1>4. SeenIsNow'
  BY <1>1, <1>2, <1>3 DEF SeenIsNow, Held
<1>5. CASE cold
  <2>1. reply' = reply /\ reply.to.group = "none"
    BY <1>5 DEF Ask, ColdIsSilent
  <2>2. DeckTypeOK' /\ ColdIsSilent'
    BY <1>1, <2>1 DEF DeckTypeOK, ColdIsSilent
  <2>3. ASSUME NEW r \in Programs, asked'[r].group = "property"
        PROVE  Result(r)' = NoAnswer
    BY <2>1, <2>3 DEF Result, IsAnswer, NoAnswer
  <2>4. QED
    BY <1>4, <2>2, <2>3 DEF AnswersAreTheirs
<1>6. CASE ~cold
  <2>1. reply' \in Answered(q)
    BY <1>6 DEF Ask
  <2>2. DeckTypeOK' /\ ColdIsSilent'
    BY <1>1, <1>6, <2>1, AnsweredBuffer DEF DeckTypeOK, ColdIsSilent
  <2>3. ASSUME NEW r \in Programs, asked'[r].group = "property"
        PROVE  Result(r)' \in seen'[r] \cup {NoAnswer'}
    <3>1. CASE ~IsAnswer(asked[r])'
      BY <3>1 DEF Result
    <3>2. CASE IsAnswer(asked[r])'
      <4>1. /\ reply'.to.group = "property"
            /\ reply'.to.address = asked'[r].address
            /\ reply'.to.length >= asked'[r].length
        BY <2>3, <3>2 DEF IsAnswer
      <4>2. /\ reply'.to = q
            /\ \A i \in 1 .. q.length : reply'.bytes[i] = reg[q.address + i - 1]
        BY <2>1, <4>1, AnsweredBuffer
      <4>3. q.length \in Nat /\ asked'[r].length \in Nat
        <5>1. asked'[r] \in Questions \cup {Nothing}
          BY <2>2 DEF DeckTypeOK
        <5>2. QED
          BY <5>1, QuestionsAreInRange DEF Length
      <4>4. \A i \in 1 .. asked'[r].length :
              reply'.bytes[i] = reg'[asked'[r].address + i - 1]
        BY <1>1, <4>1, <4>2, <4>3
      <4>5. Result(r)' = Held(reg', asked'[r])
        BY <3>2, <4>4 DEF Result, Held
      <4>6. QED
        BY <1>4, <2>3, <4>5 DEF SeenIsNow
    <3>3. QED
      BY <3>1, <3>2
  <2>4. QED
    BY <1>4, <2>2, <2>3 DEF AnswersAreTheirs
<1>7. QED
  BY <1>5, <1>6

LEMMA CollectReadInv ==
  ASSUME ReadInv, NEW p \in Programs, Collect(p)
  PROVE  ReadInv'
<1> USE DEF ReadInv
<1>1. /\ reg' = reg /\ cold' = cold /\ reply' = reply
      /\ asked' = [asked EXCEPT ![p] = Nothing]
      /\ seen' = [seen EXCEPT ![p] = {}]
  BY DEF Collect, deckVars
<1>2. DeckTypeOK' /\ ColdIsSilent'
  BY <1>1 DEF DeckTypeOK, ColdIsSilent
<1>3. asked'[p].group # "property"
  BY <1>1 DEF DeckTypeOK, Nothing
<1>4. \A r \in Programs \ {p} : asked'[r] = asked[r] /\ seen'[r] = seen[r]
  BY <1>1 DEF DeckTypeOK
<1>5. SeenIsNow'
  BY <1>1, <1>3, <1>4 DEF SeenIsNow, Held
<1>6. AnswersAreTheirs'
  BY <1>1, <1>3, <1>4 DEF AnswersAreTheirs, Result, IsAnswer, NoAnswer
<1>7. QED
  BY <1>2, <1>5, <1>6

\* A write adds to what has been seen, and answers nobody.
LEMMA SetReadInv ==
  ASSUME ReadInv, NEW a \in Address, NEW v \in Values, Set(a, v),
         UNCHANGED <<cold, reply, asked>>
  PROVE  ReadInv'
<1> USE DEF ReadInv
<1>1. /\ reg' = [reg EXCEPT ![a] = v]
      /\ seen' = [p \in Programs |->
           IF asked[p].group = "property" THEN seen[p] \cup {Held(reg', asked[p])}
                                          ELSE seen[p]]
  BY DEF Set
<1>2. DeckTypeOK' /\ ColdIsSilent'
  BY <1>1 DEF DeckTypeOK, ColdIsSilent
<1>3. \A p \in Programs : asked[p].group = "property" =>
        seen[p] \subseteq seen'[p] /\ Held(reg', asked[p]) \in seen'[p]
  BY <1>1
<1>4. SeenIsNow'
  BY <1>3 DEF SeenIsNow
<1>5. \A p \in Programs : Result(p)' = Result(p) /\ NoAnswer' = NoAnswer
  BY DEF Result, IsAnswer, NoAnswer
<1>6. AnswersAreTheirs'
  BY <1>3, <1>5 DEF AnswersAreTheirs
<1>7. QED
  BY <1>2, <1>4, <1>6

\* The handshake wakes the deck: its buffer has answered nobody yet.
LEMMA SameReadInv ==
  ASSUME ReadInv, UNCHANGED <<reg, reply, askVars>>, cold' => cold
  PROVE  ReadInv'
<1>1. DeckTypeOK' /\ ColdIsSilent'
  BY DEF ReadInv, askVars, DeckTypeOK, ColdIsSilent
<1>2. SeenIsNow' /\ AnswersAreTheirs'
  BY DEF ReadInv, askVars, SeenIsNow, AnswersAreTheirs, Held, Result, IsAnswer, NoAnswer
<1>3. QED
  BY <1>1, <1>2 DEF ReadInv

-----------------------------------------------------------------------------
(* The trial.                                                              *)

\* What excuses a register that is not as it was.
Excused == trial.disturbed \/ (trial.fenced /\ trial.address = Fence)

\* Where the trial has not written its register, or has put it back.
Restored == {"before", "nothing to put back", "open", "write", "give up",
             "could not open", "the write failed", "reclose", "read back", "after",
             "put back", "does not read as"}

\* Where the old value has been taken.
Taken == Places \ {"none", "before", "nothing to put back"}

TrialAsks ==
  trial.at \in {"before", "after"} => asked[Probe] = OneByte(trial.address)

\* Until the old value is taken, the register has held one value or somebody
\* has written it.
BeforeIsSteady ==
  trial.at = "before" =>
    trial.disturbed \/ seen[Probe] = {Held(reg, OneByte(trial.address))}

RegisterIsBack ==
  trial.at \in Restored => reg[trial.address] = trial.found \/ Excused

OriginalIsFound ==
  trial.at \in Taken => trial.original = trial.found \/ Excused

TrialInv ==
  TrialTypeOK /\ TrialAsks /\ BeforeIsSteady /\ RegisterIsBack /\ OriginalIsFound

AnswersInv == ReadInv /\ TrialInv

LEMMA InitAnswersInv == AnswersInit => AnswersInv
<1> SUFFICES ASSUME AnswersInit PROVE AnswersInv
  OBVIOUS
<1>1. ReadInv /\ TrialTypeOK
  BY InitReadInv
<1>2. TrialAsks /\ BeforeIsSteady /\ RegisterIsBack /\ OriginalIsFound
  BY DEF AnswersInit, NoTrial, TrialAsks, BeforeIsSteady, RegisterIsBack, Restored,
         OriginalIsFound, Taken
<1>3. QED
  BY <1>1, <1>2 DEF AnswersInv, TrialInv

\* The trial goes on to a place where it has asked for nothing.
LEMMA TrialMoves ==
  ASSUME TrialTypeOK, OriginalIsFound, NEW to \in Places \ {"before", "after"},
         trial' = [trial EXCEPT !.at = to],
         to \in Taken => trial.at \in Taken,
         to \in Restored => reg'[trial.address] = trial.found \/ Excused
  PROVE  TrialInv'
<1>1. trial'.at = to /\ TrialTypeOK'
  BY DEF TrialTypeOK
<1>2. /\ trial'.address = trial.address /\ trial'.original = trial.original
      /\ trial'.fenced = trial.fenced /\ trial'.disturbed = trial.disturbed
      /\ trial'.found = trial.found
  BY DEF TrialTypeOK
<1>3. TrialAsks' /\ BeforeIsSteady'
  BY <1>1 DEF TrialAsks, BeforeIsSteady
<1>4. RegisterIsBack' /\ OriginalIsFound'
  BY <1>1, <1>2 DEF RegisterIsBack, OriginalIsFound, Excused
<1>5. QED
  BY <1>1, <1>3, <1>4 DEF TrialInv

\* One write of the trial: it lands and the register has the value, or neither.
LEMMA WritesOrNot ==
  ASSUME ReadInv, NEW a \in Address, NEW v \in Values, NEW landed, NEW failed,
         Writes(a, v, landed, failed), UNCHANGED <<cold, reply, asked>>
  PROVE  /\ ReadInv'
         /\ \/ /\ trial' = [trial EXCEPT !.at = landed]
               /\ reg' = [reg EXCEPT ![a] = v]
            \/ /\ trial' = [trial EXCEPT !.at = failed]
               /\ reg' = reg
<1>1. CASE Set(a, v) /\ trial' = [trial EXCEPT !.at = landed]
  BY <1>1, SetReadInv DEF Set
<1>2. CASE trial' = [trial EXCEPT !.at = failed] /\ UNCHANGED <<reg, seen>>
  BY <1>2, SameReadInv DEF askVars
<1>3. QED
  BY <1>1, <1>2 DEF Writes

\* A write of the fence leaves the register tried as it is, unless it is the
\* fence that is tried.
LEMMA FenceIsAnother ==
  ASSUME ReadInv, TrialTypeOK, NEW v \in {0, 1}, NEW landed, NEW failed,
         FenceWrites(v, landed, failed), UNCHANGED <<cold, reply, asked>>
  PROVE  /\ ReadInv'
         /\ \/ trial' = [trial EXCEPT !.at = landed]
            \/ trial' = [trial EXCEPT !.at = failed]
         /\ reg'[trial.address] = reg[trial.address] \/ Excused
<1>1. CASE ~trial.fenced
  <2>1. trial' = [trial EXCEPT !.at = landed] /\ UNCHANGED <<reg, seen>>
    BY <1>1 DEF FenceWrites
  <2>2. QED
    BY <2>1, SameReadInv DEF askVars
<1>2. CASE trial.fenced
  <2>1. Writes(Fence, v, landed, failed)
    BY <1>2 DEF FenceWrites
  <2>2. Fence \in Address /\ v \in Values
    BY AnswersAssumption
  <2>3. /\ ReadInv'
        /\ \/ /\ trial' = [trial EXCEPT !.at = landed]
              /\ reg' = [reg EXCEPT ![Fence] = v]
           \/ /\ trial' = [trial EXCEPT !.at = failed]
              /\ reg' = reg
    BY <2>1, <2>2, WritesOrNot
  <2>4. reg'[trial.address] = reg[trial.address] \/ trial.address = Fence
    BY <2>3 DEF ReadInv, DeckTypeOK, TrialTypeOK
  <2>5. QED
    BY <1>2, <2>3, <2>4 DEF Excused
<1>3. QED
  BY <1>1, <1>2

LEMMA TryAnswersInv ==
  ASSUME AnswersInv, Try
  PROVE  AnswersInv'
<1>1. PICK a \in Address \ Dangerous, v \in Values, f \in BOOLEAN :
        /\ Ask(Probe, OneByte(a))
        /\ trial' = [NoTrial EXCEPT !.at = "before", !.address = a, !.value = v, !.fenced = f,
                                    !.found = reg[a]]
  BY DEF Try, OneByte
<1>2. ReadInv'
  BY <1>1, AskReadInv, OneByteIsAQuestion DEF AnswersInv, Programs
<1>3. trial' = [at |-> "before", address |-> a, value |-> v, original |-> 0,
                fenced |-> f, found |-> reg[a], disturbed |-> FALSE]
  BY <1>1 DEF NoTrial
<1>4. TrialTypeOK'
  BY <1>3, AnswersAssumption DEF TrialTypeOK, Places, AnswersInv, ReadInv, DeckTypeOK
<1>5. /\ asked'[Probe] = OneByte(a) /\ reg' = reg
      /\ seen'[Probe] = {Held(reg, OneByte(a))}
  BY <1>1 DEF Ask, AnswersInv, ReadInv, DeckTypeOK, Programs, OneByte
<1>6. TrialAsks' /\ BeforeIsSteady' /\ RegisterIsBack' /\ OriginalIsFound'
  BY <1>3, <1>5 DEF TrialAsks, BeforeIsSteady, RegisterIsBack, Restored, OriginalIsFound,
                    Taken, Held, OneByte
<1>7. QED
  BY <1>2, <1>4, <1>6 DEF AnswersInv, TrialInv

\* What is taken for the old value is what the register holds, unless somebody
\* has written it while it was asked for.
LEMMA TakeOriginalAnswersInv ==
  ASSUME AnswersInv, TakeOriginal
  PROVE  AnswersInv'
<1> USE DEF AnswersInv, TrialInv
<1>1. trial.at = "before" /\ Collect(Probe) /\ reg' = reg
  BY DEF TakeOriginal, Collect, deckVars
<1>2. ReadInv'
  BY <1>1, CollectReadInv DEF Programs
<1>3. CASE trial' = WithoutAnswer
  BY <1>1, <1>2, <1>3, TrialMoves DEF WithoutAnswer, Places, Outcomes, Restored, Taken,
     RegisterIsBack
<1>4. CASE /\ Result(Probe) # NoAnswer
           /\ trial' = [trial EXCEPT !.at = "open", !.original = Result(Probe)[1]]
  <2>1. asked[Probe] = OneByte(trial.address) /\ trial.address \in Address
    BY <1>1 DEF TrialAsks, TrialTypeOK
  <2>2. Result(Probe) = [i \in 1 .. 1 |-> reply.bytes[i]]
    BY <1>4, <2>1 DEF Result, OneByte
  <2>3. Result(Probe)[1] = reply.bytes[1] /\ reply.bytes[1] \in Values
    BY <2>2, AnswersAssumption DEF ReadInv, DeckTypeOK, Length
  <2>4. Result(Probe) \in seen[Probe]
    BY <1>4, <2>1 DEF ReadInv, AnswersAreTheirs, Programs, OneByte
  <2>5. trial.disturbed \/ Result(Probe) = Held(reg, OneByte(trial.address))
    BY <1>1, <2>4 DEF BeforeIsSteady
  <2>6. Held(reg, OneByte(trial.address))[1] = reg[trial.address]
    BY <2>1, AnswersAssumption DEF Held, OneByte, Address
  <2>7. trial.disturbed \/ reg[trial.address] = Result(Probe)[1]
    BY <2>5, <2>6
  <2>8. /\ TrialTypeOK' /\ trial'.at = "open" /\ trial'.address = trial.address
        /\ trial'.original = Result(Probe)[1] /\ trial'.disturbed = trial.disturbed
        /\ trial'.found = trial.found /\ trial'.fenced = trial.fenced
    BY <1>4, <2>3 DEF TrialTypeOK, Places
  <2>9. TrialAsks' /\ BeforeIsSteady' /\ RegisterIsBack' /\ OriginalIsFound'
    BY <1>1, <2>7, <2>8 DEF TrialAsks, BeforeIsSteady, RegisterIsBack, OriginalIsFound,
                            Restored, Excused
  <2>10. QED
    BY <1>2, <2>8, <2>9
<1>5. QED
  BY <1>3, <1>4 DEF TakeOriginal

LEMMA TrialWritesAnswersInv ==
  ASSUME AnswersInv, TrialWrites
  PROVE  AnswersInv'
<1> USE DEF AnswersInv, TrialInv
<1>1. UNCHANGED <<cold, reply, asked>>
  BY DEF TrialWrites
<1>2. trial.address \in Address /\ trial.value \in Values /\ trial.original \in Values
  BY DEF TrialTypeOK
<1>3. ASSUME NEW v \in {0, 1}, NEW landed \in Places \ {"before", "after"},
             NEW failed \in Places \ {"before", "after"},
             FenceWrites(v, landed, failed),
             trial.at \in Taken,
             {landed, failed} \cap Restored # {} => trial.at \in Restored
      PROVE  AnswersInv'
  <2>1. /\ ReadInv'
        /\ \/ trial' = [trial EXCEPT !.at = landed]
           \/ trial' = [trial EXCEPT !.at = failed]
        /\ reg'[trial.address] = reg[trial.address] \/ Excused
    BY <1>1, <1>3, FenceIsAnother
  <2>2. trial.at \in Restored => reg'[trial.address] = trial.found \/ Excused
    BY <2>1 DEF RegisterIsBack
  <2>3. TrialInv'
    BY <1>3, <2>1, <2>2, TrialMoves
  <2>4. QED
    BY <2>1, <2>3
<1>4. CASE trial.at = "write" /\ Writes(trial.address, trial.value, "close", "give up")
  <2>1. /\ ReadInv'
        /\ \/ trial' = [trial EXCEPT !.at = "close"]
           \/ trial' = [trial EXCEPT !.at = "give up"] /\ reg' = reg
    BY <1>1, <1>2, <1>4, WritesOrNot
  <2>2. reg[trial.address] = trial.found \/ Excused
    BY <1>4 DEF RegisterIsBack, Restored
  <2>3. TrialInv'
    BY <1>4, <2>1, <2>2, TrialMoves DEF Places, Restored, Taken
  <2>4. QED
    BY <2>1, <2>3
<1>5. CASE trial.at = "restore" /\ Writes(trial.address, trial.original, "reclose", "botched")
  <2>1. /\ ReadInv'
        /\ \/ /\ trial' = [trial EXCEPT !.at = "reclose"]
              /\ reg' = [reg EXCEPT ![trial.address] = trial.original]
           \/ trial' = [trial EXCEPT !.at = "botched"]
    BY <1>1, <1>2, <1>5, WritesOrNot
  <2>2. trial' = [trial EXCEPT !.at = "reclose"] => reg'[trial.address] = trial.original
    BY <1>2, <2>1 DEF ReadInv, DeckTypeOK, TrialTypeOK
  <2>3. trial.original = trial.found \/ Excused
    BY <1>5 DEF OriginalIsFound, Taken, Places
  <2>4. TrialInv'
    BY <1>5, <2>1, <2>2, <2>3, TrialMoves DEF Places, Restored, Taken
  <2>5. QED
    BY <2>1, <2>4
<1>6. QED
  BY <1>3, <1>4, <1>5 DEF TrialWrites, Places, Outcomes, Restored, Taken

LEMMA ReadBackAnswersInv ==
  ASSUME AnswersInv, ReadBack
  PROVE  AnswersInv'
<1> USE DEF AnswersInv, TrialInv
<1>1. trial.address \in Address
  BY DEF TrialTypeOK
<1>2. CASE /\ Ask(Probe, OneByte(trial.address))
           /\ TrialGoes("read back", "after")
  <2>1. ReadInv'
    BY <1>1, <1>2, AskReadInv, OneByteIsAQuestion DEF Programs
  <2>2. asked'[Probe] = OneByte(trial.address) /\ reg' = reg
    BY <1>2 DEF Ask, ReadInv, DeckTypeOK, Programs
  <2>3. /\ trial.at = "read back" /\ trial' = [trial EXCEPT !.at = "after"]
        /\ TrialTypeOK'
    BY <1>2 DEF TrialGoes, TrialTypeOK, Places
  <2>4. /\ trial'.at = "after" /\ trial'.address = trial.address
        /\ trial'.original = trial.original /\ trial'.fenced = trial.fenced
        /\ trial'.disturbed = trial.disturbed /\ trial'.found = trial.found
    BY <2>3 DEF TrialTypeOK
  <2>5. TrialAsks' /\ BeforeIsSteady'
    BY <2>2, <2>4 DEF TrialAsks, BeforeIsSteady, OneByte
  <2>6. RegisterIsBack' /\ OriginalIsFound'
    BY <2>2, <2>3, <2>4 DEF RegisterIsBack, OriginalIsFound, Restored, Taken, Places, Excused
  <2>7. QED
    BY <2>1, <2>3, <2>5, <2>6
<1>3. CASE /\ TrialGoes("after", "put back") \/ TrialGoes("after", "does not read as")
           /\ Collect(Probe)
  <2>1. ReadInv' /\ reg' = reg
    BY <1>3, CollectReadInv DEF Programs, Collect, deckVars
  <2>2. reg[trial.address] = trial.found \/ Excused
    BY <1>3 DEF TrialGoes, RegisterIsBack, Restored
  <2>3. TrialInv'
    BY <1>3, <2>1, <2>2, TrialMoves DEF TrialGoes, Places, Outcomes, Taken
  <2>4. QED
    BY <2>1, <2>3
<1>4. QED
  BY <1>2, <1>3 DEF ReadBack, OneByte

-----------------------------------------------------------------------------
(* The others.                                                             *)

LEMMA ReadsAnswersInv ==
  ASSUME AnswersInv, NEW p \in Programs, Reads(p)
  PROVE  AnswersInv'
<1> USE DEF AnswersInv, TrialInv
<1>1. ReadInv' /\ reg' = reg /\ trial' = trial
  <2>1. CASE \E q \in Questions : Ask(p, q)
    BY <2>1, AskReadInv DEF Ask, Reads
  <2>2. CASE Collect(p)
    BY <2>2, CollectReadInv DEF Collect, deckVars, Reads
  <2>3. QED
    BY <2>1, <2>2 DEF Reads
<1>2. CASE p = Probe
  BY <1>1, <1>2 DEF Reads, TrialTypeOK, TrialAsks, BeforeIsSteady, RegisterIsBack,
                    OriginalIsFound, Restored, Taken, Excused
<1>3. CASE p # Probe
  <2>1. asked'[Probe] = asked[Probe] /\ seen'[Probe] = seen[Probe]
    BY <1>3 DEF Reads, Ask, Collect, ReadInv, DeckTypeOK, Programs
  <2>2. QED
    BY <1>1, <2>1 DEF TrialTypeOK, TrialAsks, BeforeIsSteady, RegisterIsBack,
                      OriginalIsFound, Restored, Excused, Held, OneByte
<1>4. QED
  BY <1>2, <1>3

\* Somebody else's write disturbs the trial if it is of the register tried, and
\* leaves that register alone if it is not.
LEMMA ChangeAnswersInv ==
  ASSUME AnswersInv, Change
  PROVE  AnswersInv'
<1> USE DEF AnswersInv, TrialInv
<1>1. PICK a \in Address, v \in Values :
        /\ Set(a, v)
        /\ trial' = [trial EXCEPT !.disturbed =
                       @ \/ (trial.at # "none" /\ a = trial.address)]
  BY DEF Change
<1>2. UNCHANGED <<cold, reply, asked>>
  BY DEF Change
<1>3. ReadInv'
  BY <1>1, <1>2, SetReadInv
<1>4. /\ trial'.at = trial.at /\ trial'.address = trial.address
      /\ trial'.original = trial.original /\ trial'.fenced = trial.fenced
      /\ trial'.found = trial.found
      /\ trial.disturbed => trial'.disturbed
      /\ trial.at # "none" /\ a = trial.address => trial'.disturbed
  BY <1>1 DEF TrialTypeOK
<1>5. TrialTypeOK'
  BY <1>1 DEF TrialTypeOK
<1>6. TrialAsks'
  BY <1>2, <1>4 DEF TrialAsks
<1>7. reg'[trial.address] = reg[trial.address] \/ a = trial.address
  BY <1>1 DEF Set, ReadInv, DeckTypeOK, TrialTypeOK
<1>8. BeforeIsSteady'
  <2>1. SUFFICES ASSUME trial.at = "before", ~trial'.disturbed
                 PROVE  seen'[Probe] = {Held(reg', OneByte(trial.address))}
    BY <1>4 DEF BeforeIsSteady, Held, OneByte
  <2>2. reg'[trial.address] = reg[trial.address]
    BY <1>4, <1>7, <2>1
  <2>3. Held(reg', OneByte(trial.address)) = Held(reg, OneByte(trial.address))
    <3>1. \A i \in 1 .. 1 : trial.address + i - 1 = trial.address
      BY DEF TrialTypeOK, Address
    <3>2. QED
      BY <2>2, <3>1 DEF Held, OneByte
  <2>4. asked[Probe] = OneByte(trial.address)
    BY <2>1 DEF TrialAsks
  <2>5. seen'[Probe] = seen[Probe] \cup {Held(reg', asked[Probe])}
    BY <1>1, <2>4 DEF Set, Programs, OneByte
  <2>6. seen[Probe] = {Held(reg, OneByte(trial.address))}
    BY <1>4, <2>1 DEF BeforeIsSteady
  <2>7. QED
    BY <2>3, <2>4, <2>5, <2>6
<1>9. RegisterIsBack' /\ OriginalIsFound'
  BY <1>4, <1>7 DEF RegisterIsBack, OriginalIsFound, Restored, Taken, Excused
<1>10. QED
  BY <1>3, <1>5, <1>6, <1>8, <1>9

LEMMA NextAnswersInv == AnswersInv /\ [AnswersNext]_answersVars => AnswersInv'
<1> SUFFICES ASSUME AnswersInv, [AnswersNext]_answersVars PROVE AnswersInv'
  OBVIOUS
<1>1. CASE WarmUp \/ UNCHANGED answersVars
  <2>1. UNCHANGED <<reg, reply, askVars, trial>> /\ (cold' => cold)
    BY <1>1 DEF WarmUp, answersVars, deckVars
  <2>2. ReadInv'
    BY <2>1, SameReadInv DEF AnswersInv
  <2>3. TrialInv'
    BY <2>1 DEF AnswersInv, TrialInv, askVars, TrialTypeOK, TrialAsks, BeforeIsSteady,
                RegisterIsBack, OriginalIsFound, Restored, Excused, Held, OneByte
  <2>4. QED
    BY <2>2, <2>3 DEF AnswersInv
<1>2. CASE Change
  BY <1>2, ChangeAnswersInv
<1>3. ASSUME NEW p \in Programs, Reads(p) PROVE AnswersInv'
  BY <1>3, ReadsAnswersInv
<1>4. CASE TrialStep
  BY <1>4, TryAnswersInv, TakeOriginalAnswersInv, TrialWritesAnswersInv,
     ReadBackAnswersInv DEF TrialStep
<1>5. QED
  BY <1>1, <1>2, <1>3, <1>4 DEF AnswersNext

LEMMA Invariance == AnswersSpec => []AnswersInv
<1>1. QED
  BY InitAnswersInv, NextAnswersInv, PTL DEF AnswersSpec

\* The echo is enough: whatever two programs ask of the deck's one buffer, and
\* in whatever order they collect, neither is given what its registers have not
\* held together since it asked.
THEOREM EchoIsEnough == AnswersSpec => []AnswersAreTheirs
<1>1. AnswersInv => AnswersAreTheirs
  BY DEF AnswersInv, ReadInv
<1>2. QED
  BY <1>1, Invariance, PTL

\* "the old value is read first and restored afterwards whatever happens":
\* --try undoes itself or says that it could not, whichever transfer is lost.
THEOREM TryUndoesItself == AnswersSpec => []TrialIsUndone
<1>1. AnswersInv => TrialIsUndone
  BY DEF AnswersInv, TrialInv, RegisterIsBack, Restored, Excused, TrialIsUndone, Outcomes
<1>2. QED
  BY <1>1, Invariance, PTL

-----------------------------------------------------------------------------
(* The walk: its steps.                                                    *)

LightWrites == [button : Button, lit : BOOLEAN]

LEMMA WalkNumbers ==
  /\ ButtonCount \in Nat \ {0} /\ KnobCount \in Nat \ {0} /\ PressAttempts \in Nat \ {0}
  /\ MaxUnlit \in Nat /\ 1 \in Button /\ 1 \in Knob
  BY WalkAssumption DEF Button, Knob

\* What a turn of the lights is made of.
LEMMA SetsOfWrites ==
  /\ LightNone \in Seq(LightWrites) /\ LightDefaults \in Seq(LightWrites)
  /\ \A only \in Button : Darken(only) \in Seq(LightWrites)
<1> USE WalkNumbers
<1>1. ASSUME NEW only \in Button PROVE Darken(only) \in [1 .. ButtonCount - 1 -> LightWrites]
  <2>1. \A i \in 1 .. ButtonCount - 1 : (IF i < only THEN i ELSE i + 1) \in Button
    BY DEF Button
  <2>2. QED
    BY <2>1 DEF Darken, Write, LightWrites
<1>2. ButtonCount - 1 \in Nat
  OBVIOUS
<1>3. LightNone \in [1 .. ButtonCount -> LightWrites] /\ LightDefaults \in [1 .. ButtonCount -> LightWrites]
  BY DEF LightNone, LightDefaults, Write, LightWrites, Button
<1>4. \A n \in Nat : \A f \in [1 .. n -> LightWrites] : f \in Seq(LightWrites)
  BY SeqDef
<1>5. QED
  BY <1>1, <1>2, <1>3, <1>4

LEMMA HeadIsFirst ==
  ASSUME NEW S, NEW q \in Seq(S), q # <<>>
  PROVE  Head(q) = q[1]
<1>1. 1 \in DOMAIN q
  OBVIOUS
<1>2. QED
  BY <1>1

\* lightOnly lights its button and then darkens the others.
LEMMA LightOnlyWrites ==
  ASSUME NEW only \in Button
  PROVE  /\ LightOnly(only) \in Seq(LightWrites) /\ LightOnly(only) # <<>>
         /\ Head(LightOnly(only)) = Write(only, TRUE)
         /\ \A i \in 1 .. Len(Tail(LightOnly(only))) :
              ~Tail(LightOnly(only))[i].lit /\ Tail(LightOnly(only))[i].button # only
<1> USE WalkNumbers
<1> DEFINE w == <<Write(only, TRUE)>>  d == Darken(only)  s == LightOnly(only)
<1>1. w \in Seq(LightWrites) /\ Len(w) = 1 /\ w[1] = Write(only, TRUE)
  BY DEF Write, LightWrites
<1>2. d \in Seq(LightWrites) /\ Len(d) = ButtonCount - 1
  <2>1. d \in Seq(LightWrites) /\ DOMAIN d = 1 .. ButtonCount - 1
    BY SetsOfWrites DEF Darken
  <2>2. Len(d) \in Nat /\ DOMAIN d = 1 .. Len(d)
    BY <2>1, LenProperties
  <2>3. QED
    BY <2>1, <2>2
<1>3. s = w \o d
  BY DEF LightOnly
<1> HIDE DEF w, d, s
<1>4. /\ s \in Seq(LightWrites) /\ Len(s) = ButtonCount
      /\ s[1] = Write(only, TRUE)
      /\ \A i \in 1 .. ButtonCount - 1 : s[i + 1] = d[i]
  <2>1. /\ s \in Seq(LightWrites) /\ Len(s) = Len(w) + Len(d)
        /\ \A i \in 1 .. Len(w) + Len(d) : s[i] = IF i <= Len(w) THEN w[i] ELSE d[i - Len(w)]
    BY <1>1, <1>2, <1>3, ConcatProperties
  <2>2. Len(s) = ButtonCount
    BY <1>1, <1>2, <2>1
  <2>3. s[1] = w[1]
    <3>1. 1 \in 1 .. Len(w) + Len(d) /\ 1 <= Len(w)
      BY <1>1, <1>2
    <3>2. QED
      BY <2>1, <3>1
  <2>4. ASSUME NEW i \in 1 .. ButtonCount - 1 PROVE s[i + 1] = d[i]
    <3>1. i + 1 \in 1 .. Len(w) + Len(d) /\ ~(i + 1 <= Len(w)) /\ (i + 1) - Len(w) = i
      BY <1>1, <1>2
    <3>2. s[i + 1] = d[(i + 1) - Len(w)]
      BY <2>1, <3>1
    <3>3. QED
      BY <3>1, <3>2
  <2>5. QED
    BY <1>1, <2>1, <2>2, <2>3, <2>4
<1>5. s # <<>>
  BY <1>4, EmptySeq
<1>6. Head(s) = s[1]
  BY <1>4, <1>5, HeadIsFirst
<1>7. /\ Len(Tail(s)) = ButtonCount - 1
      /\ \A i \in 1 .. Len(Tail(s)) : Tail(s)[i] = d[i]
  <2>1. Len(Tail(s)) = ButtonCount - 1 /\ \A i \in 1 .. Len(Tail(s)) : Tail(s)[i] = s[i + 1]
    BY <1>4, <1>5, HeadTailProperties
  <2>2. QED
    BY <1>4, <2>1
<1>8. \A i \in 1 .. ButtonCount - 1 : ~d[i].lit /\ d[i].button # only
  BY DEF d, Darken, Write, Button
<1>9. QED
  BY <1>4, <1>5, <1>6, <1>7, <1>8 DEF s

\* What is read and not skipped says which buttons are down, all of them
\* asked for before, and which knobs.
LEMMA ReadIsOfTheHands ==
  ASSUME WalkTypeOK, Read
  PROVE  /\ \E bits \in SUBSET cues :
              /\ Wanted(Shown("state", bits, knobsDown))
              /\ Came(Shown("state", bits, knobsDown))
         /\ Waiting /\ UNCHANGED <<buttonsComplete, lightVars, handVars>>
<1>1. PICK r \in Arriving : ~Skipped(r) /\ Wanted(r) /\ Came(r)
  BY DEF Read
<1>2. PICK bits \in Down : r = Shown("state", bits, knobsDown)
  BY <1>1 DEF Arriving, Skipped, Shown
<1>3. bits \in SUBSET cues
  BY DEF Down
<1>4. QED
  BY <1>1, <1>2, <1>3 DEF Read

\* The walk goes on when a report comes or a deadline passes.
Moves(bits) ==
  \/ /\ step = "wake" /\ Goes("press", LightOnly(1))
     /\ UNCHANGED <<round, attempt, buttons, pushes>>
  \/ /\ step = "press" /\ Goes("release", <<>>)
     /\ buttons' = [buttons EXCEPT ![round] = bits]
     /\ UNCHANGED <<round, attempt, pushes>>
  \/ /\ step = "press" /\ Goes("press", LightOnly(round))
     /\ attempt' = attempt + 1 /\ attempt' < PressAttempts
     /\ UNCHANGED <<round, buttons, pushes>>
  \/ /\ step = "release" /\ round < ButtonCount /\ Goes("press", LightOnly(round + 1))
     /\ round' = round + 1 /\ attempt' = 0 /\ UNCHANGED <<buttons, pushes>>
  \/ /\ step = "knobs" /\ knobsDown \notin Range(pushes)
     /\ pushes' = Append(pushes, knobsDown)
     /\ IF Len(pushes') = KnobCount THEN Goes("over", LightDefaults)
                                    ELSE UNCHANGED <<step, todo>>
     /\ UNCHANGED <<round, attempt, buttons>>
  \/ /\ Goes("together", LightNone) /\ step \in {"press", "release"}
     /\ attempt' \in {attempt, IF step = "press" THEN attempt + 1 ELSE attempt}
     /\ UNCHANGED <<round, buttons, pushes>>
  \/ /\ step = "together" /\ Goes("drain", <<>>)
     /\ UNCHANGED <<round, attempt, buttons, pushes>>
  \/ /\ step = "drain" /\ Goes("knobs", LightDefaults)
     /\ UNCHANGED <<round, attempt, buttons, pushes>>
  \/ /\ step = "knobs" /\ Goes("over", LightDefaults)
     /\ UNCHANGED <<round, attempt, buttons, pushes>>
  \/ /\ step = "wake" /\ Goes("failed", <<>>)
     /\ UNCHANGED <<round, attempt, buttons, pushes>>

LEMMA WalkMoves ==
  ASSUME WalkTypeOK, Read \/ Expire
  PROVE  /\ \E bits \in SUBSET cues : Moves(bits)
         /\ todo = <<>> /\ Walking /\ UNCHANGED <<lightVars, handVars>>
         /\ buttonsComplete' \in BOOLEAN
<1>1. CASE Read
  <2>1. PICK bits \in SUBSET cues : /\ Wanted(Shown("state", bits, knobsDown))
                                    /\ Came(Shown("state", bits, knobsDown))
    BY <1>1, ReadIsOfTheHands
  <2>2. step = "knobs" => knobsDown \notin Range(pushes)
    BY <2>1 DEF Wanted, Shown
  <2>3. Moves(bits)
    BY <2>1, <2>2 DEF Came, Shown, NextRound, Moves, WalkTypeOK
  <2>4. QED
    BY <1>1, <2>3, ReadIsOfTheHands DEF Waiting, WalkTypeOK
<1>2. CASE Expire
  <2>1. Moves({}) /\ UNCHANGED <<lightVars, handVars>> /\ todo = <<>> /\ Walking
    BY <1>2 DEF Expire, NextRound, Moves, Waiting
  <2>2. buttonsComplete' \in BOOLEAN
    BY <1>2 DEF Expire, WalkTypeOK
  <2>3. QED
    BY <2>1, <2>2
<1>3. QED
  BY <1>1, <1>2

-----------------------------------------------------------------------------
(* The walk: its invariant.                                                *)

\* A turn of the lights takes the light writes one by one.
LEMMA WriteLightTodo ==
  ASSUME WalkTypeOK, WriteLight
  PROVE  /\ todo # <<>> /\ Head(todo) \in LightWrites /\ Head(todo) = todo[1]
         /\ todo' \in Seq(LightWrites) /\ todo' = Tail(todo)
         /\ \A i \in 1 .. Len(todo') : todo'[i] = todo[i + 1] /\ i + 1 \in 1 .. Len(todo)
<1>1. todo \in Seq(LightWrites) /\ todo # <<>> /\ todo' = Tail(todo)
  BY DEF WriteLight, WalkTypeOK, LightWrites
<1>2. Len(todo) \in Nat
  BY <1>1, LenProperties
<1>3. /\ Head(todo) \in LightWrites /\ todo' \in Seq(LightWrites) /\ Len(todo') = Len(todo) - 1
      /\ \A i \in 1 .. Len(todo') : todo'[i] = todo[i + 1]
  BY <1>1, HeadTailProperties
<1>4. \A i \in 1 .. Len(todo') : i + 1 \in 1 .. Len(todo)
  BY <1>2, <1>3
<1>5. QED
  BY <1>1, <1>3, <1>4, HeadIsFirst

LEMMA LightTypeOK ==
  ASSUME WalkTypeOK, WriteLight
  PROVE  WalkTypeOK'
<1> USE WalkNumbers
<1> DEFINE w == Head(todo)
<1>1. w \in LightWrites /\ todo' \in Seq(LightWrites)
  BY WriteLightTodo
<1>2. UNCHANGED <<step, round, attempt, buttons, buttonsComplete, pushes, lighting, handVars>>
  BY DEF WriteLight
<1>3. \A lit \in SUBSET Button : Asked(lit) \subseteq Button
  BY DEF Asked
<1>4. /\ lights' \subseteq Button /\ cues' \subseteq Button
  <2>1. CASE LightsTurn(IF w.lit THEN lights \cup {w.button} ELSE lights \ {w.button})
    BY <1>1, <1>3, <2>1 DEF LightsTurn, WalkTypeOK, LightWrites
  <2>2. CASE UNCHANGED <<lights, cues>>
    BY <2>2 DEF WalkTypeOK
  <2>3. QED
    BY <2>1, <2>2 DEF WriteLight
<1>5. lightsLost' \in 0 .. MaxUnlit
  BY DEF WriteLight, WalkTypeOK
<1>6. unlit' \in BOOLEAN
  BY DEF WriteLight, WalkTypeOK
<1>7. QED
  BY <1>1, <1>2, <1>4, <1>5, <1>6 DEF WalkTypeOK, LightWrites, handVars

LEMMA MovesTypeOK ==
  ASSUME WalkTypeOK, InItsPlace, NEW bits \in SUBSET cues, Moves(bits),
         UNCHANGED <<lightVars, handVars>>, buttonsComplete' \in BOOLEAN
  PROVE  WalkTypeOK'
<1> USE WalkNumbers
<1>1. round' \in Button
  BY DEF Moves, WalkTypeOK, Button
<1>2. attempt' \in 0 .. PressAttempts
  BY DEF Moves, WalkTypeOK, InItsPlace
<1>3. todo' \in Seq(LightWrites)
  <2>1. \A b \in Button : LightOnly(b) \in Seq(LightWrites)
    BY LightOnlyWrites
  <2>2. <<>> \in Seq(LightWrites)
    BY EmptySeq
  <2>3. todo \in Seq(LightWrites)
    BY DEF WalkTypeOK, LightWrites
  <2>4. round < ButtonCount => round + 1 \in Button
    BY DEF WalkTypeOK, Button
  <2>5. round \in Button
    BY DEF WalkTypeOK
  <2>6. QED
    BY <2>1, <2>2, <2>3, <2>4, <2>5, SetsOfWrites DEF Moves, Goes
<1>4. step' \in Steps
  BY DEF Moves, Goes, Steps, WalkTypeOK
<1>5. buttons' \in [Button -> SUBSET (Button \cup TouchBits)]
  BY DEF Moves, WalkTypeOK
<1>6. pushes' \in Seq(SUBSET Knob)
  BY DEF Moves, WalkTypeOK
<1>7. UNCHANGED <<lights, cues, knobsDown, nextKnob, lightsLost, lighting, unlit>>
  BY DEF lightVars, handVars
<1>8. QED
  BY <1>1, <1>2, <1>3, <1>4, <1>5, <1>6, <1>7 DEF WalkTypeOK, LightWrites

LEMMA HandsTypeOK ==
  ASSUME WalkTypeOK, Person \/ OthersLight
  PROVE  WalkTypeOK'
<1> USE WalkNumbers
<1>1. CASE Person
  <2>1. knobsDown' \subseteq Knob /\ nextKnob' \in 1 .. KnobCount + 1
    <3>1. CASE PushKnob
      <4>1. PICK k \in {nextKnob - 1, nextKnob} \cap Knob :
              knobsDown' = knobsDown \cup {k} /\ nextKnob' = k + 1
        BY <3>1 DEF PushKnob
      <4>2. QED
        BY <4>1 DEF WalkTypeOK, Knob
    <3>2. CASE \E k \in Knob : ComeBack(k)
      BY <3>2 DEF ComeBack, WalkTypeOK
    <3>3. QED
      BY <1>1, <3>1, <3>2 DEF Person
  <2>2. QED
    BY <1>1, <2>1 DEF Person, WalkTypeOK, walkVars, lightVars
<1>2. CASE OthersLight
  <2>1. lighting' \in 0 .. ButtonCount /\ lighting + 1 \in Button
    BY <1>2 DEF OthersLight, WalkTypeOK, Button
  <2>2. \A lit \in SUBSET Button : Asked(lit) \subseteq Button
    BY DEF Asked
  <2>3. lights' \subseteq Button /\ cues' \subseteq Button
    BY <1>2, <2>1, <2>2 DEF OthersLight, LightsTurn, WalkTypeOK
  <2>4. QED
    BY <1>2, <2>1, <2>3 DEF OthersLight, WalkTypeOK, walkVars, handVars
<1>3. QED
  BY <1>1, <1>2

LEMMA NextWalkTypeOK ==
  ASSUME WalkTypeOK, InItsPlace, [WalkNext]_inputWalkVars
  PROVE  WalkTypeOK'
<1>1. CASE UNCHANGED inputWalkVars
  BY <1>1 DEF inputWalkVars, walkVars, lightVars, handVars, WalkTypeOK
<1>2. QED
  BY <1>1, LightTypeOK, WalkMoves, MovesTypeOK, HandsTypeOK DEF WalkNext, WalkStep

\* The rounds, the attempts and the knobs keep to their numbers.
LEMMA NextInItsPlace ==
  ASSUME WalkTypeOK, InItsPlace, [WalkNext]_inputWalkVars
  PROVE  InItsPlace'
<1> USE WalkNumbers
<1>1. CASE Read \/ Expire
  <2>1. PICK bits \in SUBSET cues : Moves(bits)
    BY <1>1, WalkMoves
  <2>2. UNCHANGED cues
    BY <1>1, WalkMoves DEF lightVars
  <2>3. Len(<<>>) = 0
    OBVIOUS
  <2>4. Len(pushes) \in Nat /\ Len(Append(pushes, knobsDown)) = Len(pushes) + 1
    BY DEF WalkTypeOK
  <2>5. CASE UNCHANGED pushes
    BY <2>1, <2>2, <2>3, <2>4, <2>5 DEF Moves, Goes, InItsPlace, WalkTypeOK
  <2>6. CASE step = "knobs" /\ pushes' = Append(pushes, knobsDown)
    BY <2>1, <2>2, <2>4, <2>6 DEF Moves, Goes, InItsPlace
  <2>7. QED
    BY <2>1, <2>5, <2>6 DEF Moves
<1>2. CASE WriteLight
  <2>1. todo # <<>> /\ UNCHANGED <<step, round, attempt, pushes>>
    BY <1>2 DEF WriteLight
  <2>2. QED
    BY <2>1 DEF InItsPlace
<1>3. CASE Person \/ OthersLight \/ UNCHANGED inputWalkVars
  <2>1. UNCHANGED <<step, round, attempt, pushes, todo>> /\ (step' = "wake" => UNCHANGED cues)
    BY <1>3 DEF Person, OthersLight, LightsTurn, inputWalkVars, walkVars, lightVars
  <2>2. QED
    BY <2>1 DEF InItsPlace
<1>4. QED
  BY <1>1, <1>2, <1>3 DEF WalkNext, WalkStep

\* A light that is on answers for what the lights ask: nothing else.
LEMMA AskedOfLit ==
  ASSUME NEW lit \in SUBSET Button, NEW x \in lit
  PROVE  Asked(lit) \subseteq {x}
<1> USE WalkNumbers
<1>1. IsFiniteSet(lit)
  <2>1. IsFiniteSet(Button)
    BY FS_Interval DEF Button
  <2>2. QED
    BY <2>1, FS_Subset
<1>2. CASE Cardinality(lit) = 1
  <2>1. PICK y : lit = {y}
    BY <1>1, <1>2, FS_Singleton
  <2>2. QED
    BY <1>2, <2>1 DEF Asked
<1>3. CASE Cardinality(lit) # 1
  BY <1>3 DEF Asked
<1>4. QED
  BY <1>2, <1>3

InOrder == LightsInOrder /\ CuesInOrder /\ TakenInOrder

\* A light write of a round keeps the button that is asked for lit.
LEMMA LightInOrder ==
  ASSUME WalkTypeOK, InItsPlace, InOrder, WriteLight
  PROVE  InOrder'
<1> USE WalkNumbers
<1> DEFINE w == Head(todo)
           lit == IF w.lit THEN lights \cup {w.button} ELSE lights \ {w.button}
<1>1. /\ todo # <<>> /\ w \in LightWrites /\ w = todo[1] /\ todo' = Tail(todo)
      /\ \A i \in 1 .. Len(todo') : todo'[i] = todo[i + 1] /\ i + 1 \in 1 .. Len(todo)
  BY WriteLightTodo
<1>2. /\ UNCHANGED <<step, round, buttons, lighting>>
      /\ \/ LightsTurn(lit) /\ UNCHANGED unlit
         \/ /\ UNCHANGED <<lights, cues>>
            /\ unlit' = (unlit \/ (step = "press" /\ w.lit))
  BY DEF WriteLight
<1>3. TakenInOrder'
  BY <1>2 DEF InOrder, TakenInOrder
<1>4. step \notin {"wake", "release"}
  BY <1>1 DEF InItsPlace
<1>5. ASSUME step = "press", ~unlit'
      PROVE  /\ round \in lights'
             /\ \A i \in 1 .. Len(todo') : ~todo'[i].lit /\ todo'[i].button # round
             /\ cues' \subseteq 1 .. round
  <2>1. ~unlit
    BY <1>2, <1>5
  <2>2. LitForTheRound /\ cues \subseteq 1 .. round
    BY <1>5, <2>1 DEF InOrder, LightsInOrder, CuesInOrder
  <2>3. /\ \A i \in 1 .. Len(todo') : ~todo'[i].lit /\ todo'[i].button # round
        /\ round \in lit
        /\ ~w.lit => round \in lights
    <3>1. CASE todo = LightOnly(round)
      <4>1. w = Write(round, TRUE)
        BY <3>1, LightOnlyWrites DEF WalkTypeOK
      <4>2. QED
        BY <1>1, <3>1, <4>1, LightOnlyWrites DEF Write, WalkTypeOK
    <3>2. CASE /\ round \in lights
               /\ \A i \in 1 .. Len(todo) : ~todo[i].lit /\ todo[i].button # round
      <4>1. 1 \in 1 .. Len(todo)
        <5>1. todo \in Seq(LightWrites)
          BY DEF WalkTypeOK, LightWrites
        <5>2. QED
          BY <1>1, <5>1, EmptySeq
      <4>2. QED
        BY <1>1, <3>2, <4>1
    <3>3. QED
      BY <2>2, <3>1, <3>2 DEF LitForTheRound
  <2>4. round \in lights'
    BY <1>2, <1>5, <2>3 DEF LightsTurn
  <2>5. cues' \subseteq 1 .. round
    <3>1. CASE UNCHANGED cues
      BY <2>2, <3>1
    <3>2. CASE LightsTurn(lit)
      <4>1. lit \in SUBSET Button
        BY <1>1 DEF WalkTypeOK, LightWrites
      <4>2. Asked(lit) \subseteq {round}
        BY <2>3, <4>1, AskedOfLit
      <4>3. round \in 1 .. round
        BY DEF WalkTypeOK, Button
      <4>4. QED
        BY <2>2, <3>2, <4>2, <4>3 DEF LightsTurn
    <3>3. QED
      BY <1>2, <3>1, <3>2
  <2>6. QED
    BY <2>3, <2>4, <2>5
<1>6. LightsInOrder' /\ CuesInOrder'
  BY <1>2, <1>4, <1>5 DEF LightsInOrder, LitForTheRound, CuesInOrder
<1>7. QED
  BY <1>3, <1>6 DEF InOrder

\* From a round to the next the button before it is still lit.
LEMMA MovesInOrder ==
  ASSUME WalkTypeOK, InItsPlace, InOrder, NEW bits \in SUBSET cues, Moves(bits),
         todo = <<>>, UNCHANGED <<lightVars, handVars>>
  PROVE  InOrder'
<1> USE WalkNumbers
<1>1. UNCHANGED <<lights, cues, unlit, lighting>>
  BY DEF lightVars
<1>2. step \in {"press", "release"} /\ ~unlit => round \in lights /\ cues \subseteq 1 .. round
  BY LightOnlyWrites DEF InOrder, LightsInOrder, LitForTheRound, CuesInOrder, WalkTypeOK
<1>3. TakenInOrder'
  <2>1. CASE UNCHANGED buttons
    BY <1>1, <2>1 DEF InOrder, TakenInOrder
  <2>2. CASE step = "press" /\ buttons' = [buttons EXCEPT ![round] = bits]
    BY <1>1, <1>2, <2>2 DEF InOrder, TakenInOrder, WalkTypeOK
  <2>3. QED
    BY <2>1, <2>2 DEF Moves
<1>4. CuesInOrder'
  <2>1. CASE step = "wake"
    BY <1>1, <2>1 DEF CuesInOrder, InItsPlace, Moves, Goes
  <2>2. CASE step # "wake"
    <3>1. step' \in {"press", "release"} =>
            step \in {"press", "release"} /\ round' \in {round, round + 1}
      BY <2>2 DEF Moves, Goes
    <3>2. 1 .. round \subseteq 1 .. round + 1
      BY DEF WalkTypeOK, Button
    <3>3. QED
      BY <1>1, <1>2, <3>1, <3>2 DEF CuesInOrder
  <2>3. QED
    BY <2>1, <2>2
<1>5. LightsInOrder'
  <2>1. step' # "wake"
    BY DEF Moves, Goes
  <2>2. ASSUME step' \in {"press", "release"}, ~unlit'
        PROVE  LitForTheRound'
    <3>1. CASE step = "wake"
      BY <1>1, <2>2, <3>1 DEF Moves, Goes, InItsPlace, InOrder, LightsInOrder, LitForTheRound,
         LightsFound, LightOnly, Darken
    <3>2. CASE step = "press"
      <4>1. CASE Goes("release", <<>>) /\ UNCHANGED round
        BY <1>1, <1>2, <2>2, <3>2, <4>1 DEF Goes, LitForTheRound
      <4>2. CASE Goes("press", LightOnly(round)) /\ UNCHANGED round
        BY <1>1, <1>2, <2>2, <3>2, <4>2 DEF Goes, LitForTheRound, LightOnly, Darken
      <4>3. QED
        BY <2>2, <3>2, <4>1, <4>2 DEF Moves, Goes
    <3>3. CASE step = "release"
      <4>1. todo' = LightOnly(round + 1) /\ round' = round + 1
        BY <2>2, <3>3 DEF Moves, Goes
      <4>2. round' - 1 = round
        BY <4>1 DEF WalkTypeOK, Button
      <4>3. round' - 1 \in lights'
        BY <1>1, <1>2, <2>2, <3>3, <4>2
      <4>4. todo' = LightOnly(round')
        BY <4>1
      <4>5. QED
        BY <4>3, <4>4 DEF LitForTheRound, LightOnly, Darken
    <3>4. QED
      BY <2>2, <3>1, <3>2, <3>3 DEF Moves, Goes
  <2>3. QED
    BY <2>1, <2>2 DEF LightsInOrder
<1>6. QED
  BY <1>3, <1>4, <1>5 DEF InOrder

\* Another program lights what is lit already, or asks for what was asked for.
LEMMA OthersInOrder ==
  ASSUME WalkTypeOK, InItsPlace, InOrder, OthersLight
  PROVE  InOrder'
<1> USE WalkNumbers
<1> DEFINE lit == lights \cup {lighting + 1}
<1>1. /\ UNCHANGED <<step, round, todo, buttons, unlit>> /\ lighting' = lighting + 1
      /\ lights' = lit
      /\ cues' = IF step = "wake" THEN cues ELSE cues \cup Asked(lit)
  BY DEF OthersLight, LightsTurn, walkVars
<1>2. lit \in SUBSET Button
  BY DEF OthersLight, WalkTypeOK, Button
<1>3. LightsFound => LightsFound' /\ 1 \in lit
  <2>1. CASE lights = Button
    BY <1>1, <1>2, <2>1 DEF LightsFound
  <2>2. CASE lights = 1 .. lighting
    <3>1. lit = 1 .. lighting + 1
      BY <2>2 DEF WalkTypeOK
    <3>2. 1 \in 1 .. lighting + 1
      BY DEF WalkTypeOK
    <3>3. QED
      BY <1>1, <3>1, <3>2 DEF LightsFound
  <2>3. QED
    BY <2>1, <2>2 DEF LightsFound
<1>4. TakenInOrder'
  BY <1>1 DEF InOrder, TakenInOrder
<1>5. LitForTheRound => LitForTheRound'
  BY <1>1, <1>3 DEF LitForTheRound, LightOnly, Darken
<1>6. LightsInOrder'
  BY <1>1, <1>3, <1>5 DEF InOrder, LightsInOrder
<1>7. CuesInOrder'
  <2>1. SUFFICES ASSUME step \in {"press", "release"}, ~unlit
                 PROVE  Asked(lit) \subseteq 1 .. round
    BY <1>1 DEF InOrder, CuesInOrder
  <2>2. PICK x \in lit : x \in 1 .. round
    <3>1. round \in Nat \ {0} /\ round - 1 \in lights => round - 1 \in 1 .. round
      BY DEF WalkTypeOK, Button
    <3>2. round \in 1 .. round /\ 1 \in 1 .. round
      BY DEF WalkTypeOK, Button
    <3>3. round \in lights \/ round - 1 \in lights \/ LightsFound
      BY <2>1 DEF InOrder, LightsInOrder, LitForTheRound
    <3>4. QED
      BY <1>3, <3>1, <3>2, <3>3 DEF WalkTypeOK, Button
  <2>3. QED
    BY <1>2, <2>2, AskedOfLit
<1>8. QED
  BY <1>4, <1>6, <1>7 DEF InOrder

LEMMA NextInOrder ==
  ASSUME WalkTypeOK, InItsPlace, InOrder, [WalkNext]_inputWalkVars
  PROVE  InOrder'
<1>1. CASE Read \/ Expire
  BY <1>1, WalkMoves, MovesInOrder
<1>2. CASE UNCHANGED <<walkVars, lightVars>>
  BY <1>2 DEF walkVars, lightVars, InOrder, LightsInOrder, LightsFound, LitForTheRound,
     CuesInOrder, TakenInOrder, LightOnly, Darken
<1>3. QED
  BY <1>1, <1>2, LightInOrder, OthersInOrder DEF WalkNext, WalkStep, Person, inputWalkVars

\* The knobs are pushed from left to right, and so are taken down.
LEMMA NextPushedInOrder ==
  ASSUME WalkTypeOK, InItsPlace, PushedInOrder, [WalkNext]_inputWalkVars
  PROVE  PushedInOrder'
<1> USE WalkNumbers
<1>1. CASE Person
  <2>1. UNCHANGED pushes
    BY <1>1 DEF Person, walkVars
  <2>2. CASE PushKnob
    <3>1. PICK p \in {nextKnob - 1, nextKnob} \cap Knob :
            knobsDown' = knobsDown \cup {p} /\ nextKnob' = p + 1
      BY <2>2 DEF PushKnob
    <3>2. \A k \in knobsDown' : k < nextKnob'
      BY <3>1 DEF PushedInOrder, WalkTypeOK, Knob
    <3>3. \A i \in 1 .. Len(pushes) : \A a \in Knob :
            pushes[i] = {a} => a < nextKnob' /\ \A k \in knobsDown' : a <= k
      BY <3>1 DEF PushedInOrder, WalkTypeOK, Knob
    <3>4. QED
      BY <2>1, <3>2, <3>3 DEF PushedInOrder
  <2>3. CASE \E k \in Knob : ComeBack(k)
    <3>1. knobsDown' \subseteq knobsDown /\ UNCHANGED nextKnob
      BY <2>3 DEF ComeBack
    <3>2. QED
      BY <2>1, <3>1 DEF PushedInOrder
  <2>4. QED
    BY <1>1, <2>2, <2>3 DEF Person
<1>2. CASE UNCHANGED <<pushes, knobsDown, nextKnob>>
  BY <1>2 DEF PushedInOrder
<1>3. CASE pushes' = Append(pushes, knobsDown) /\ knobsDown \notin Range(pushes)
           /\ UNCHANGED <<knobsDown, nextKnob>>
  <2>1. PICK n \in Nat : n = Len(pushes) /\ DOMAIN pushes = 1 .. n
    BY LenProperties DEF WalkTypeOK
  <2>2. /\ Len(pushes') = n + 1 /\ pushes'[n + 1] = knobsDown
        /\ \A i \in 1 .. n : pushes'[i] = pushes[i]
    BY <1>3, <2>1 DEF WalkTypeOK
  <2>3. \A i \in 1 .. n : pushes[i] # knobsDown
    BY <1>3, <2>1 DEF Range
  <2>4. ASSUME NEW i \in 1 .. n + 1, NEW a \in Knob, pushes'[i] = {a}
        PROVE  a < nextKnob /\ \A k \in knobsDown : a <= k
    <3>1. CASE i = n + 1
      BY <2>2, <2>4, <3>1 DEF PushedInOrder, WalkTypeOK, Knob
    <3>2. CASE i # n + 1
      BY <2>1, <2>2, <2>4, <3>2 DEF PushedInOrder
    <3>3. QED
      BY <3>1, <3>2
  <2>5. ASSUME NEW i \in 1 .. n + 1, NEW j \in 1 .. n + 1, NEW a \in Knob, NEW b \in Knob,
               i < j, pushes'[i] = {a}, pushes'[j] = {b}
        PROVE  a < b
    <3>1. i \in 1 .. n /\ pushes[i] = {a}
      BY <2>2, <2>5
    <3>2. CASE j = n + 1
      <4>1. knobsDown = {b} /\ a <= b /\ a # b
        BY <2>1, <2>2, <2>3, <2>5, <3>1, <3>2 DEF PushedInOrder
      <4>2. QED
        BY <4>1 DEF Knob
    <3>3. CASE j # n + 1
      <4>1. j \in 1 .. n /\ pushes[j] = {b}
        BY <2>2, <2>5, <3>3
      <4>2. QED
        BY <2>1, <2>5, <3>1, <4>1 DEF PushedInOrder
    <3>4. QED
      BY <3>2, <3>3
  <2>6. QED
    BY <1>3, <2>2, <2>4, <2>5 DEF PushedInOrder
<1>4. CASE Read \/ Expire
  <2>1. PICK bits \in SUBSET cues : Moves(bits)
    BY <1>4, WalkMoves
  <2>2. UNCHANGED <<knobsDown, nextKnob>>
    BY <1>4, WalkMoves DEF handVars
  <2>3. QED
    BY <1>2, <1>3, <2>1, <2>2 DEF Moves
<1>5. QED
  BY <1>1, <1>2, <1>4 DEF WalkNext, WalkStep, WriteLight, OthersLight, inputWalkVars,
     walkVars, handVars

LEMMA InitWalkInv == WalkInit => WalkInv
<1> SUFFICES ASSUME WalkInit PROVE WalkInv
  OBVIOUS
<1> USE WalkNumbers DEF WalkInit
<1>1. WalkTypeOK
  <2>1. todo \in Seq([button : Button, lit : BOOLEAN]) /\ pushes \in Seq(SUBSET Knob)
    BY EmptySeq
  <2>2. unlit \in BOOLEAN /\ buttonsComplete \in BOOLEAN
    OBVIOUS
  <2>3. nextKnob \in 1 .. KnobCount + 1 /\ lighting \in 0 .. ButtonCount
    OBVIOUS
  <2>4. QED
    BY <2>1, <2>2, <2>3 DEF WalkTypeOK, Steps
<1>2. InItsPlace
  BY DEF InItsPlace
<1>3. LightsFound
  BY DEF LightsFound
<1>4. LightsInOrder /\ CuesInOrder /\ TakenInOrder
  BY <1>3 DEF LightsInOrder, CuesInOrder, TakenInOrder
<1>5. PushedInOrder
  BY DEF PushedInOrder
<1>6. QED
  BY <1>1, <1>2, <1>4, <1>5 DEF WalkInv

\* The invariant of the walk: whatever is pressed, lit beside it or lost, the
\* lights ask for the buttons in order and what is taken down is of them.
THEOREM WalkInvariant == WalkSpec => []WalkInv
<1>1. WalkInit => WalkInv
  BY InitWalkInv
<1>2. WalkInv /\ [WalkNext]_inputWalkVars => WalkInv'
  BY NextWalkTypeOK, NextInItsPlace, NextInOrder, NextPushedInOrder DEF WalkInv, InOrder
<1>3. QED
  BY <1>1, <1>2, PTL DEF WalkSpec

-----------------------------------------------------------------------------
(* The walk: what is made of it.                                           *)

\* There is no room for m + 1 in m places.
LEMMA NoRoom ==
  ASSUME NEW m \in Nat, NEW g \in [1 .. (m + 1) -> 1 .. m]
  PROVE  \E x, y \in 1 .. (m + 1) : x # y /\ g[x] = g[y]
<1>1. IsFiniteSet(1 .. m) /\ Cardinality(1 .. m) = IF 1 > m THEN 0 ELSE m - 1 + 1
  BY FS_Interval
<1>2. /\ IsFiniteSet(1 .. (m + 1))
      /\ Cardinality(1 .. (m + 1)) = IF 1 > m + 1 THEN 0 ELSE (m + 1) - 1 + 1
  BY FS_Interval
<1>3. Cardinality(1 .. m) < Cardinality(1 .. (m + 1))
  BY <1>1, <1>2
<1>4. QED
  BY <1>1, <1>2, <1>3, FS_PigeonHole

\* Different numbers, none beyond its place, are each in its own.
LEMMA NoneBeyondItsPlace ==
  ASSUME NEW n \in Nat, NEW f \in [1 .. n -> Nat \ {0}],
         \A i, j \in 1 .. n : f[i] = f[j] => i = j,
         \A i \in 1 .. n : f[i] <= i
  PROVE  \A i \in 1 .. n : f[i] = i
<1> SUFFICES ASSUME NEW m \in Nat, m + 1 \in 1 .. n, f[m + 1] # m + 1 PROVE FALSE
  <2>1. \A i \in 1 .. n : i - 1 \in Nat /\ i = (i - 1) + 1
    OBVIOUS
  <2>2. QED
    BY <2>1
<1> DEFINE g == [j \in 1 .. (m + 1) |-> f[j]]
<1>1. ASSUME NEW j \in 1 .. (m + 1) PROVE f[j] \in 1 .. m
  <2>1. f[j] \in Nat \ {0} /\ f[j] <= j /\ j <= m + 1
    OBVIOUS
  <2>2. CASE j = m + 1
    BY <2>1, <2>2
  <2>3. CASE j # m + 1
    BY <2>1, <2>3
  <2>4. QED
    BY <2>2, <2>3
<1>2. g \in [1 .. (m + 1) -> 1 .. m]
  BY <1>1
<1>3. PICK x, y \in 1 .. (m + 1) : x # y /\ g[x] = g[y]
  <2> HIDE DEF g
  <2> QED
    BY <1>2, NoRoom
<1>4. QED
  BY <1>3

\* As many numbers as there are places, in order, are each in its own.
LEMMA InOrderAreInPlace ==
  ASSUME NEW n \in Nat, NEW f \in [1 .. n -> 1 .. n],
         \A i, j \in 1 .. n : i < j => f[i] < f[j]
  PROVE  \A i \in 1 .. n : f[i] = i
<1>1. ASSUME NEW i \in 1 .. n, NEW j \in 1 .. n, f[i] = f[j] PROVE i = j
  BY <1>1
<1>2. ASSUME NEW i \in 1 .. n, f[i] > i PROVE FALSE
  <2> DEFINE g == [j \in i .. n |-> f[j]]
  <2>1. ASSUME NEW j \in i .. n PROVE f[j] \in i + 1 .. n
    <3>1. j \in 1 .. n /\ f[j] \in 1 .. n /\ f[i] \in 1 .. n
      OBVIOUS
    <3>2. f[i] <= f[j]
      BY <3>1
    <3>3. QED
      BY <1>2, <3>1, <3>2
  <2>2. g \in [i .. n -> i + 1 .. n]
    BY <2>1
  <2>3. /\ IsFiniteSet(i .. n) /\ IsFiniteSet(i + 1 .. n)
        /\ Cardinality(i + 1 .. n) < Cardinality(i .. n)
    <3>1. IsFiniteSet(i .. n) /\ Cardinality(i .. n) = IF i > n THEN 0 ELSE n - i + 1
      BY FS_Interval
    <3>2. /\ IsFiniteSet((i + 1) .. n)
          /\ Cardinality((i + 1) .. n) = IF i + 1 > n THEN 0 ELSE n - (i + 1) + 1
      BY FS_Interval
    <3>3. QED
      BY <3>1, <3>2
  <2>4. PICK x, y \in i .. n : x # y /\ g[x] = g[y]
    <3> HIDE DEF g
    <3> QED
      BY <2>2, <2>3, FS_PigeonHole
  <2>5. x \in 1 .. n /\ y \in 1 .. n /\ f[x] = f[y]
    BY <2>4
  <2>6. QED
    BY <1>1, <2>4, <2>5
<1>3. \A i \in 1 .. n : f[i] <= i
  BY <1>2
<1>4. f \in [1 .. n -> Nat \ {0}]
  OBVIOUS
<1>5. QED
  BY <1>1, <1>3, <1>4, NoneBeyondItsPlace

\* A verdict on rounds that show each its own control is right of any deck.
LEMMA OwnRoundsAreTrue ==
  ASSUME NEW controls, NEW usable \in BOOLEAN, NEW found, DOMAIN found = controls,
         usable => \A x \in controls : found[x] = {x}
  PROVE  IsTrueOf(controls, usable, found)
<1> SUFFICES ASSUME usable, NEW wiring \in Wirings(controls)
             PROVE  /\ TableVerdict(usable, found, wiring)
                         = IF \A x \in controls : wiring[x] = x THEN "agrees" ELSE "DISAGREES"
                    /\ \A x \in controls : Raw(wiring, found[x]) = {wiring[x]}
  BY Zenon DEF IsTrueOf
<1>1. ASSUME NEW x \in controls PROVE Raw(wiring, found[x]) = {wiring[x]}
  BY <1>1 DEF Raw
<1>2. (\A i \in DOMAIN found : Raw(wiring, found[i]) = {i}) <=> \A x \in controls : wiring[x] = x
  BY <1>1
<1>3. QED
  BY <1>1, <1>2 DEF TableVerdict

\* One bit in every round: one control.
LEMMA OneBit ==
  ASSUME NEW S, IsFiniteSet(S), Cardinality(S) = 1
  PROVE  \E x \in S : S = {x}
<1>1. PICK x : S = {x}
  BY FS_Singleton
<1>2. QED
  BY <1>1

\* A distinct button in every round, none beyond its round: its own.
LEMMA ButtonsAreTheirs ==
  ASSUME WalkInv, ~unlit, ButtonsUsable
  PROVE  \A b \in Button : buttons[b] = {b}
<1> USE WalkNumbers
<1>1. /\ DOMAIN buttons = Button
      /\ \A b \in Button : buttons[b] \subseteq 1 .. b
  BY DEF WalkInv, WalkTypeOK, TakenInOrder
<1>2. ASSUME NEW b \in Button PROVE \E x \in buttons[b] : buttons[b] = {x}
  <2>1. IsFiniteSet(1 .. b)
    BY FS_Interval DEF Button
  <2>2. IsFiniteSet(buttons[b])
    BY <1>1, <2>1, FS_Subset
  <2>3. Cardinality(buttons[b]) = 1
    BY <1>1 DEF ButtonsUsable, EveryRoundIsADistinctBit
  <2>4. QED
    BY <2>2, <2>3, OneBit
<1> DEFINE f == [b \in 1 .. ButtonCount |-> CHOOSE x \in buttons[b] : buttons[b] = {x}]
<1>3. ASSUME NEW b \in Button PROVE f[b] \in 1 .. b /\ buttons[b] = {f[b]}
  BY <1>1, <1>2 DEF Button
<1>4. f \in [1 .. ButtonCount -> Nat \ {0}] /\ \A b \in 1 .. ButtonCount : f[b] <= b
  <2>1. \A b \in 1 .. ButtonCount : f[b] \in Nat \ {0} /\ f[b] <= b
    <3> HIDE DEF f
    <3> QED
      BY <1>3 DEF Button
  <2>2. QED
    BY <2>1
<1>5. ASSUME NEW i \in 1 .. ButtonCount, NEW j \in 1 .. ButtonCount, f[i] = f[j] PROVE i = j
  <2>1. buttons[i] = buttons[j]
    BY <1>3, <1>5 DEF Button
  <2>2. QED
    BY <1>1, <2>1 DEF ButtonsUsable, EveryRoundIsADistinctBit, Button
<1>6. \A b \in 1 .. ButtonCount : f[b] = b
  <2> HIDE DEF f
  <2> QED
    BY <1>4, <1>5, NoneBeyondItsPlace
<1>7. QED
  BY <1>3, <1>6 DEF Button

\* As many knobs as there are, each alone, from left to right: each its own.
LEMMA KnobsAreTheirs ==
  ASSUME WalkInv, KnobsUsable
  PROVE  DOMAIN pushes = Knob /\ \A k \in Knob : pushes[k] = {k}
<1> USE WalkNumbers
<1>1. DOMAIN pushes = Knob /\ \A k \in Knob : pushes[k] \subseteq Knob
  BY DEF WalkInv, WalkTypeOK, KnobsUsable, Knob
<1>2. ASSUME NEW k \in Knob PROVE \E x \in pushes[k] : pushes[k] = {x}
  <2>1. IsFiniteSet(Knob)
    BY FS_Interval DEF Knob
  <2>2. IsFiniteSet(pushes[k])
    BY <1>1, <2>1, FS_Subset
  <2>3. Cardinality(pushes[k]) = 1
    BY <1>1 DEF KnobsUsable, EveryRoundIsADistinctBit
  <2>4. QED
    BY <2>2, <2>3, OneBit
<1> DEFINE f == [k \in 1 .. KnobCount |-> CHOOSE x \in pushes[k] : pushes[k] = {x}]
<1>3. ASSUME NEW k \in Knob PROVE f[k] \in Knob /\ pushes[k] = {f[k]}
  BY <1>1, <1>2 DEF Knob
<1>4. f \in [1 .. KnobCount -> 1 .. KnobCount]
  BY <1>3 DEF Knob
<1>5. ASSUME NEW i \in 1 .. KnobCount, NEW j \in 1 .. KnobCount, i < j PROVE f[i] < f[j]
  <2> HIDE DEF f
  <2>1. i \in 1 .. Len(pushes) /\ j \in 1 .. Len(pushes)
    BY DEF KnobsUsable
  <2>2. /\ f[i] \in Knob /\ pushes[i] = {f[i]}
        /\ f[j] \in Knob /\ pushes[j] = {f[j]}
    BY <1>3 DEF Knob
  <2>3. QED
    BY <1>5, <2>1, <2>2 DEF WalkInv, PushedInOrder
<1>6. \A k \in 1 .. KnobCount : f[k] = k
  <2> HIDE DEF f
  <2> QED
    BY <1>4, <1>5, InOrderAreInPlace
<1>7. QED
  BY <1>1, <1>3, <1>6 DEF Knob

\* Whatever the walk says of a table is right of the deck it was taken from,
\* for every number of buttons, of knobs, of attempts and of lost writes.
THEOREM VerdictsTrue == WalkSpec => []VerdictsAreTrue
<1>1. ASSUME WalkInv PROVE VerdictsAreTrue
  <2>1. ASSUME ~unlit PROVE IsTrueOf(Button, ButtonsUsable, buttons)
    <3>1. ButtonsUsable \in BOOLEAN /\ DOMAIN buttons = Button
      BY <1>1 DEF WalkInv, WalkTypeOK, ButtonsUsable, EveryRoundIsADistinctBit
    <3>2. ButtonsUsable => \A b \in Button : buttons[b] = {b}
      BY <1>1, <2>1, ButtonsAreTheirs
    <3>3. QED
      BY <3>1, <3>2, OwnRoundsAreTrue
  <2>2. CASE KnobsUsable
    <3>1. DOMAIN pushes = Knob /\ \A k \in Knob : pushes[k] = {k}
      BY <1>1, <2>2, KnobsAreTheirs
    <3>2. KnobsUsable \in BOOLEAN
      BY <2>2 DEF KnobsUsable, EveryRoundIsADistinctBit
    <3>3. IsTrueOf(Knob, KnobsUsable, pushes)
      BY <3>1, <3>2, OwnRoundsAreTrue
    <3>4. QED
      BY <2>1, <3>3 DEF VerdictsAreTrue
  <2>3. CASE ~KnobsUsable
    <3>1. IsTrueOf(Knob, KnobsUsable, pushes)
      BY <2>3, Zenon DEF IsTrueOf
    <3>2. QED
      BY <2>1, <3>1 DEF VerdictsAreTrue
  <2>4. QED
    BY <2>2, <2>3
<1>2. QED
  BY <1>1, WalkInvariant, PTL

-----------------------------------------------------------------------------
(* The readers together.                                                   *)

\* What is proved of the driver's reports, of the walk and of the registers
\* holds of them in Readers: a behaviour of Readers is one of each.
THEOREM ReadersAreThemselves == ReadersSpec => ReportsSpec /\ WalkSpec /\ AnswersSpec
<1>1. ReadersInit => ReportsInit /\ WalkInit /\ AnswersInit
  BY DEF ReadersInit
<1>2. [ReadersNext]_readersVars => [ReportsNext]_reportVars
  BY DEF ReadersNext, Decode, WalkInputs, ReadRegisters, readersVars
<1>3. [ReadersNext]_readersVars => [WalkNext]_inputWalkVars
  BY DEF ReadersNext, Decode, WalkInputs, ReadRegisters, readersVars
<1>4. [ReadersNext]_readersVars => [AnswersNext]_answersVars
  BY DEF ReadersNext, Decode, WalkInputs, ReadRegisters, readersVars
<1>5. QED
  BY <1>1, <1>2, <1>3, <1>4, PTL DEF ReadersSpec, ReportsSpec, WalkSpec, AnswersSpec

=============================================================================
