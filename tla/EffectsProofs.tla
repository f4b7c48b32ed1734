--------------------------- MODULE EffectsProofs ---------------------------
(***************************************************************************)
(* For any parameters, effects and ranges, any number of changes and runs  *)
(* of the program: what is held is in range, no body reaches the deck      *)
(* unless somebody has chosen a parameter in it, the deck has the body the *)
(* cache has, the enables have the final word, and the next run starts     *)
(* where the last one ended.                                               *)
(***************************************************************************)
EXTENDS Effects, TLAPS

\* A value that was asked for is in range once clamped.
LEMMA ClampedIsAValue ==
  ASSUME NEW v \in Int
  PROVE  Clamped(v) \in Values
  BY EffectsAssumption DEF Clamped, Values

LEMMA Names ==
  /\ AnyParam \in AllParams
  /\ AnyEffect \in AllEffects
  /\ 0 \in Values
  /\ Unset \notin Values
  /\ Values \subseteq Int
  /\ Params \subseteq AllParams
  /\ Effects \subseteq AllEffects
  /\ Default \in Values
  /\ Params \cap Effects = {}
  BY EffectsAssumption DEF AnyParam, AnyEffect, AllParams, AllEffects, Values,
     Unset

LEMMA CommandOfIsACommand ==
  ASSUME NEW p
  PROVE  CommandOf(p) \in Commands
  BY DEF CommandOf, Commands

LEMMA InitChosen == EffectsInit => ChosenInv
<1> SUFFICES ASSUME EffectsInit PROVE ChosenInv
  OBVIOUS
<1> USE Names DEF EffectsInit, Fresh
<1>1. EffectsTypeOK
  <2>1. /\ store.params \in [Params -> Choices]
        /\ store.enabled \in [Effects -> BOOLEAN]
    OBVIOUS
  <2>2. pc \in [Threads -> Pcs["worker"] \cup Pcs["interface"]]
    BY DEF Pcs, Threads
  <2>3. runs \in 0 .. MaxRuns /\ sets \in 0 .. MaxSets
    BY EffectsAssumption
  <2>4. copy \in [Threads -> [Params -> Choices]]
    BY DEF NoCopy, Choices
  <2>5. QED
    BY <2>1, <2>2, <2>3, <2>4 DEF EffectsTypeOK
<1>2. StoredWasChosen /\ MarkedWasChosen /\ NoStrangersChain
  BY DEF StoredWasChosen, MarkedWasChosen, NoStrangersChain
<1>3. SentWasChosen
  BY DEF SentWasChosen, Threads, ParamPc, EnablePc
<1>4. QED
  BY <1>1, <1>2, <1>3 DEF ChosenInv

-----------------------------------------------------------------------------
(* setParameter.                                                           *)

LEMMA SetParameterKeepsChosen ==
  ASSUME ChosenInv, NEW t \in Threads, SetParameterStep(t)
  PROVE  ChosenInv'
<1> USE Names DEF ChosenInv, EffectsTypeOK, StoredWasChosen, MarkedWasChosen,
     SentWasChosen, NoStrangersChain, Chosen, Threads, ParamPc, EnablePc, Pcs, deckVars,
     progVars, outVars, ghostVars
<1>1. CASE Mark(t)
  BY <1>1 DEF Mark
<1>2. CASE Edit(t)
  BY <1>2 DEF Edit
<1>3. ASSUME NEW q \in Params, CopyByte(t, q) PROVE ChosenInv'
  BY <1>3 DEF CopyByte, Choices
<1>4. CASE SendBody(t)
  <2> DEFINE c == CommandOf(param[t])
  <2>1. param[t] \in Body(c) /\ Chosen(param[t])
    BY <1>4 DEF SendBody, Copied, Body
  <2>2. \A q \in Body(c) : copy[t][q] \in Values
    BY <1>4 DEF SendBody, Copied, Choices, Body
  <2>3. chain' \in [Params -> Values] /\ on' \in [Effects -> BOOLEAN]
    BY <1>4, <2>2 DEF SendBody
  <2>4. c \in Commands
    BY CommandOfIsACommand
  <2>5. EffectsTypeOK'
    BY <1>4, <2>3, <2>4 DEF SendBody, ReturnFromSetParameter, Returned, NoCopy,
       Choices
  <2>6. SentWasChosen' /\ StoredWasChosen' /\ MarkedWasChosen'
    BY <1>4 DEF SendBody, Copied, ReturnFromSetParameter, Returned
  <2>7. NoStrangersChain'
    BY <1>4, <2>1 DEF SendBody
  <2>8. QED
    BY <2>5, <2>6, <2>7
<1>5. CASE LoseBody(t)
  BY <1>5 DEF LoseBody, Copied, ReturnFromSetParameter, Returned, NoCopy,
     Choices
<1>6. QED
  BY <1>1, <1>2, <1>3, <1>4, <1>5 DEF SetParameterStep

-----------------------------------------------------------------------------
(* Enables.                                                                *)

\* An enable changes nothing that has to do with bodies.
LEMMA EnableKeepsChosen ==
  ASSUME ChosenInv, NEW t \in Threads, EnableStep(t)
  PROVE  ChosenInv'
<1> USE Names DEF ChosenInv, EffectsTypeOK, StoredWasChosen, MarkedWasChosen,
     SentWasChosen, NoStrangersChain, Chosen, Threads, ParamPc, EnablePc, Pcs, deckVars,
     progVars, outVars, ghostVars, ReturnFromEnable, Returned
<1>1. CASE SendEnable(t)
  <2>1. on' \in [Effects -> BOOLEAN] /\ waived' \in SUBSET Effects
    BY <1>1 DEF SendEnable
  <2>2. CASE t = "worker"
    <3>1. EffectsTypeOK'
      <4>1. pc' \in [Threads -> Pcs["worker"] \cup Pcs["interface"]]
        BY <1>1, <2>2 DEF SendEnable
      <4>2. effect' \in [Threads -> AllEffects]
        BY <1>1, <2>2 DEF SendEnable
      <4>3. flag' = [flag EXCEPT ![t] = FALSE]
        BY <1>1, <2>2 DEF SendEnable
      <4>4. flag' \in [Threads -> BOOLEAN]
        BY <4>3
      <4>5. UNCHANGED <<chain, isOpen, progVars, param, value, copy, toApply,
                        outVars, touched, kept, imposed, crowded, sure>>
        BY <1>1 DEF SendEnable
      <4>6. QED
        BY <2>1, <4>1, <4>2, <4>4, <4>5
    <3>2. StoredWasChosen' /\ MarkedWasChosen' /\ NoStrangersChain'
      BY <1>1, <2>2 DEF SendEnable
    <3>3. SentWasChosen'
      BY <1>1, <2>2 DEF SendEnable
    <3>4. QED
      BY <3>1, <3>2, <3>3
  <2>3. CASE t = "interface"
    BY <1>1, <2>1, <2>3 DEF SendEnable
  <2>4. QED
    BY <2>2, <2>3
<1>2. CASE LoseEnable(t)
  BY <1>2 DEF LoseEnable
<1>3. CASE Remember(t)
  BY <1>3 DEF Remember
<1>4. QED
  BY <1>1, <1>2, <1>3 DEF EnableStep

-----------------------------------------------------------------------------
(* The worker, the user, the program's life.                               *)

\* What a connect applies was stored, and what was stored was chosen.
LEMMA WorkerKeepsChosen ==
  ASSUME ChosenInv, Worker
  PROVE  ChosenInv'
<1> USE Names DEF ChosenInv, EffectsTypeOK, StoredWasChosen, MarkedWasChosen,
     SentWasChosen, NoStrangersChain, Chosen, Threads, ParamPc, EnablePc, Pcs, deckVars,
     progVars, outVars, ghostVars
<1>1. CASE Open
  BY <1>1 DEF Open
<1>2. CASE BeginApply
  BY <1>2 DEF BeginApply
<1>3. ASSUME NEW p \in Params, ApplyParameter(p) PROVE ChosenInv'
  <2>1. Clamped(wanted[p]) \in Values
    BY <1>3, ClampedIsAValue DEF ApplyParameter, Choices
  <2>2. kept[p] # Unset
    BY <1>3 DEF ApplyParameter
  <2>3. CommandOf(p) \in Commands
    BY CommandOfIsACommand
  <2>4. EffectsTypeOK'
    BY <1>3, <2>1, <2>3 DEF ApplyParameter, CallSetParameter, Enters
  <2>5. SentWasChosen'
    BY <1>3, <2>2 DEF ApplyParameter, CallSetParameter
  <2>6. StoredWasChosen' /\ MarkedWasChosen' /\ NoStrangersChain'
    BY <1>3 DEF ApplyParameter, CallSetParameter
  <2>7. QED
    BY <2>4, <2>5, <2>6
<1>4. ASSUME NEW e \in Effects, ApplyEnable(e) PROVE ChosenInv'
  BY <1>4 DEF ApplyEnable, CallEnable, Enters
<1>5. CASE EndApply
  BY <1>5 DEF EndApply
<1>6. CASE Close
  BY <1>6 DEF Close
<1>7. QED
  BY <1>1, <1>2, <1>3, <1>4, <1>5, <1>6 DEF Worker

\* A program starts with what the file holds and nothing on its way.
LEMMA StartKeepsChosen ==
  ASSUME ChosenInv, Start
  PROVE  ChosenInv'
<1> USE Names DEF Start, FreshNext, ChosenInv
<1>1. EffectsTypeOK'
  <2> USE DEF EffectsTypeOK
  <2>1. /\ store.params \in [Params -> Choices]
        /\ store.enabled \in [Effects -> BOOLEAN]
    OBVIOUS
  <2>2. pc' \in [Threads -> Pcs["worker"] \cup Pcs["interface"]]
    BY DEF Pcs, Threads
  <2>3. runs' \in 0 .. MaxRuns /\ sets' \in 0 .. MaxSets
    BY EffectsAssumption
  <2>4. copy' \in [Threads -> [Params -> Choices]]
    BY DEF NoCopy, Choices
  <2>5. QED
    BY <2>1, <2>2, <2>3, <2>4
<1>2. StoredWasChosen' /\ MarkedWasChosen' /\ NoStrangersChain'
  BY DEF StoredWasChosen, MarkedWasChosen, NoStrangersChain
<1>3. SentWasChosen'
  BY DEF SentWasChosen, Threads, ParamPc, EnablePc
<1>4. QED
  BY <1>1, <1>2, <1>3

\* What is stored when the program is left was chosen, and is kept.
LEMMA UserKeepsChosen ==
  ASSUME ChosenInv, User
  PROVE  ChosenInv'
<1> USE Names DEF ChosenInv, EffectsTypeOK, StoredWasChosen, MarkedWasChosen,
     SentWasChosen, NoStrangersChain, Chosen, Threads, ParamPc, EnablePc, Pcs, deckVars,
     progVars, outVars, ghostVars
<1>1. CASE OpenPage
  BY <1>1 DEF OpenPage
<1>2. ASSUME NEW p \in Params, NEW v \in Values \cup {-1, MaxValue + 1},
             SetParameter(p, v)
      PROVE  ChosenInv'
  <2>1. Clamped(v) \in Values
    BY ClampedIsAValue, EffectsAssumption
  <2>2. CommandOf(p) \in Commands
    BY CommandOfIsACommand
  <2>3. sets' \in 0 .. MaxSets
    BY <1>2, EffectsAssumption DEF SetParameter
  <2>4. EffectsTypeOK'
    BY <1>2, <2>1, <2>2, <2>3 DEF SetParameter, CallSetParameter, Enters
  <2>5. SentWasChosen' /\ StoredWasChosen' /\ MarkedWasChosen' /\ NoStrangersChain'
    BY <1>2 DEF SetParameter, CallSetParameter
  <2>6. QED
    BY <2>4, <2>5
<1>3. ASSUME NEW e \in Effects, NEW b \in BOOLEAN, SetEffectEnabled(e, b)
      PROVE  ChosenInv'
  <2>1. sets' \in 0 .. MaxSets
    BY <1>3, EffectsAssumption DEF SetEffectEnabled
  <2>2. QED
    BY <1>3, <2>1 DEF SetEffectEnabled, CallEnable, Enters
<1>4. CASE Leave
  <2>1. \A p \in Params : EffectState[p] = IF p \in chosen THEN bodies[p]
                                                          ELSE Unset
    BY DEF EffectState
  <2>2. store' \in [params : [Params -> Choices],
                    enabled : [Effects -> BOOLEAN]]
    BY <1>4, <2>1 DEF Leave, Choices
  <2>3. kept' \in [Params -> Choices]
    BY <1>4 DEF Leave, Choices
  <2>4. \A p \in Params : kept[p] # Unset => kept'[p] # Unset
    BY <1>4 DEF Leave
  <2>5. \A p \in Params : store'.params[p] # Unset => kept'[p] # Unset
    <3>1. \A p \in chosen : kept'[p] # Unset
      BY <1>4 DEF Leave
    <3>2. QED
      BY <1>4, <2>1, <2>4, <3>1 DEF Leave
  <2>6. EffectsTypeOK'
    BY <1>4, <2>2, <2>3 DEF Leave
  <2>7. /\ StoredWasChosen' /\ SentWasChosen'
        /\ MarkedWasChosen' /\ NoStrangersChain'
    BY <1>4, <2>4, <2>5 DEF Leave, Body
  <2>8. QED
    BY <2>6, <2>7
<1>5. CASE Restart \/ Kill
  BY <1>5, StartKeepsChosen DEF Restart, Kill
<1>6. QED
  BY <1>1, <1>2, <1>3, <1>4, <1>5 DEF User

LEMMA StepKeepsChosen == ChosenInv /\ [EffectsNext]_effectVars => ChosenInv'
<1> SUFFICES ASSUME ChosenInv, [EffectsNext]_effectVars PROVE ChosenInv'
  OBVIOUS
<1>1. ASSUME NEW t \in Threads, SetParameterStep(t) \/ EnableStep(t)
      PROVE  ChosenInv'
  BY <1>1, SetParameterKeepsChosen, EnableKeepsChosen
<1>2. CASE Worker
  BY <1>2, WorkerKeepsChosen
<1>3. CASE User
  BY <1>3, UserKeepsChosen
<1>4. CASE Elsewhere
  BY <1>4 DEF Elsewhere, ChosenInv, EffectsTypeOK, StoredWasChosen,
     MarkedWasChosen, SentWasChosen, NoStrangersChain, Chosen, progVars, callVars, outVars
<1>5. CASE UNCHANGED effectVars
  BY <1>5 DEF effectVars, deckVars, progVars, callVars, outVars, ghostVars,
     ChosenInv, EffectsTypeOK, StoredWasChosen, MarkedWasChosen, SentWasChosen,
     NoStrangersChain, Chosen
<1>6. QED
  BY <1>1, <1>2, <1>3, <1>4, <1>5 DEF EffectsNext

-----------------------------------------------------------------------------

\* Whatever the threads do to the cache under one another's hands, the cache,
\* the file and the deck hold values in range.
THEOREM TypesHold == EffectsSpec => []EffectsTypeOK
<1>1. ChosenInv => EffectsTypeOK
  BY DEF ChosenInv
<1>2. QED
  BY <1>1, InitChosen, StepKeepsChosen, PTL DEF EffectsSpec

\* No body reaches the deck unless somebody chose a parameter in it, in this
\* run of the program or in one that stored the choice: applyEffectState never
\* puts the captured chain back on its own account.
THEOREM StrangersStayOut == EffectsSpec => []NoStrangersChain
<1>1. ChosenInv => NoStrangersChain
  BY DEF ChosenInv
<1>2. QED
  BY <1>1, InitChosen, StepKeepsChosen, PTL DEF EffectsSpec

-----------------------------------------------------------------------------
(* The threads' places, for the rest.                                      *)

LEMMA CommandsAreNoEffects == Commands \cap AllEffects = {}
  BY DEF Commands, AllEffects

LEMMA InitPlaced == EffectsInit => Placed
  BY DEF EffectsInit, Fresh, Placed, Pcs, Threads

LEMMA StartPlaced ==
  ASSUME Start
  PROVE  Placed'
  BY DEF Start, FreshNext, Placed, Pcs, Threads

LEMMA NextPlaced ==
  ASSUME ChosenInv, Placed, [EffectsNext]_effectVars
  PROVE  Placed'
<1> USE DEF ChosenInv, EffectsTypeOK, Placed, Pcs, Threads, ParamPc, EnablePc,
     NoCopy
<1>1. ASSUME NEW t \in Threads, SetParameterStep(t) PROVE Placed'
  BY <1>1 DEF SetParameterStep, Mark, Edit, CopyByte, SendBody, LoseBody,
     ReturnFromSetParameter, Returned, Copied
<1>2. ASSUME NEW t \in Threads, EnableStep(t) PROVE Placed'
  BY <1>2 DEF EnableStep, SendEnable, LoseEnable, Remember, ReturnFromEnable,
     Returned
<1>3. CASE Worker
  BY <1>3 DEF Worker, Open, BeginApply, ApplyParameter, ApplyEnable, EndApply,
     Close, CallSetParameter, CallEnable
<1>4. CASE OpenPage \/ Leave
  BY <1>4 DEF OpenPage, Leave
<1>5. ASSUME NEW p \in Params, NEW v \in Values \cup {-1, MaxValue + 1},
             SetParameter(p, v)
      PROVE  Placed'
  BY <1>5 DEF SetParameter, CallSetParameter
<1>6. ASSUME NEW e \in Effects, NEW b \in BOOLEAN, SetEffectEnabled(e, b)
      PROVE  Placed'
  BY <1>6 DEF SetEffectEnabled, CallEnable
<1>7. CASE Start
  BY <1>7, StartPlaced
<1>8. CASE Elsewhere \/ UNCHANGED effectVars
  BY <1>8 DEF Elsewhere, effectVars, callVars
<1>9. QED
  BY <1>1, <1>2, <1>3, <1>4, <1>5, <1>6, <1>7, <1>8
     DEF EffectsNext, User, Restart, Kill

LEMMA NextHeldOpen ==
  ASSUME ChosenInv, HeldOpen, [EffectsNext]_effectVars
  PROVE  HeldOpen'
<1> USE DEF ChosenInv, EffectsTypeOK, HeldOpen, Threads, deckVars
<1>1. ASSUME NEW t \in Threads, SetParameterStep(t) \/ EnableStep(t)
      PROVE  HeldOpen'
  <2>1. isOpen' = isOpen
    BY <1>1 DEF SetParameterStep, Mark, Edit, CopyByte, SendBody, LoseBody,
       EnableStep, SendEnable, LoseEnable, Remember
  <2>2. pc["worker"] = "down" => pc'["worker"] = "down"
    BY <1>1 DEF SetParameterStep, Mark, Edit, CopyByte, SendBody, LoseBody,
       Copied, ReturnFromSetParameter, EnableStep, SendEnable, LoseEnable,
       Remember, ReturnFromEnable
  <2>3. QED
    BY <2>1, <2>2
<1>2. CASE Open \/ Close \/ Start
  BY <1>2 DEF Open, Close, Start, FreshNext
<1>3. CASE \/ BeginApply \/ EndApply \/ OpenPage \/ Leave
           \/ Elsewhere \/ UNCHANGED effectVars
  BY <1>3 DEF BeginApply, EndApply, OpenPage, Leave, Elsewhere, effectVars,
     callVars
<1>4. CASE \/ \E p \in Params : ApplyParameter(p)
           \/ \E e \in Effects : ApplyEnable(e)
  BY <1>4 DEF ApplyParameter, ApplyEnable, CallSetParameter, CallEnable
<1>5. ASSUME NEW p \in Params, NEW v \in Values \cup {-1, MaxValue + 1},
             SetParameter(p, v)
      PROVE  HeldOpen'
  BY <1>5 DEF SetParameter, CallSetParameter
<1>6. ASSUME NEW e \in Effects, NEW b \in BOOLEAN, SetEffectEnabled(e, b)
      PROVE  HeldOpen'
  BY <1>6 DEF SetEffectEnabled, CallEnable
<1>7. QED
  BY <1>1, <1>2, <1>3, <1>4, <1>5, <1>6
     DEF EffectsNext, Worker, User, Restart, Kill

-----------------------------------------------------------------------------
(* Who is in a call with whom.                                             *)

\* Between two calls nobody comes to be in one.
Stays ==
  /\ crowded' = crowded
  /\ \A t \in Threads, x \in Commands \cup Effects : Busy(t, x)' => Busy(t, x)

\* t begins a call that sends x.
Begins(t, x) ==
  /\ Enters(t, x)
  /\ \A y \in Commands \cup Effects : Busy(t, y)' => y = x
  /\ \A u \in Threads \ {t}, y \in Commands \cup Effects :
       Busy(u, y)' <=> Busy(u, y)

LEMMA CallSetParameterBegins ==
  ASSUME ChosenInv, NEW t \in Threads, NEW p \in Params, NEW v,
         CallSetParameter(t, p, v)
  PROVE  Begins(t, CommandOf(p))
<1> USE DEF ChosenInv, EffectsTypeOK
<1>1. /\ Enters(t, CommandOf(p))
      /\ pc'[t] = "mark" /\ param'[t] = p
      /\ effect' = effect
      /\ \A u \in Threads \ {t} : pc'[u] = pc[u] /\ param'[u] = param[u]
  BY Names DEF CallSetParameter
<1>2. QED
  BY <1>1 DEF Begins, Busy, ParamPc, EnablePc

LEMMA CallEnableBegins ==
  ASSUME ChosenInv, NEW t \in Threads, NEW e \in Effects, NEW b,
         CallEnable(t, e, b)
  PROVE  Begins(t, e)
<1> USE DEF ChosenInv, EffectsTypeOK
<1>1. /\ Enters(t, e)
      /\ pc'[t] = "sendEnable" /\ effect'[t] = e
      /\ param' = param
      /\ \A u \in Threads \ {t} : pc'[u] = pc[u] /\ effect'[u] = effect[u]
  BY Names DEF CallEnable
<1>2. QED
  BY <1>1 DEF Begins, Busy, ParamPc, EnablePc

\* A thread that goes on with its call, or comes out of it.
LEMMA ThreadStays ==
  ASSUME ChosenInv, NEW t \in Threads, SetParameterStep(t) \/ EnableStep(t)
  PROVE  Stays
<1> USE Names DEF ChosenInv, EffectsTypeOK, ghostVars
<1>1. crowded' = crowded
  BY DEF SetParameterStep, Mark, Edit, CopyByte, SendBody, LoseBody,
     EnableStep, SendEnable, LoseEnable, Remember
<1>2. \A u \in Threads \ {t} :
        pc'[u] = pc[u] /\ param'[u] = param[u] /\ effect'[u] = effect[u]
  BY DEF SetParameterStep, Mark, Edit, CopyByte, SendBody, LoseBody,
     ReturnFromSetParameter, EnableStep, SendEnable, LoseEnable, Remember,
     ReturnFromEnable
<1>3. \/ /\ pc[t] \in ParamPc /\ pc'[t] \in ParamPc
         /\ param'[t] = param[t]
      \/ /\ pc[t] \in EnablePc /\ pc'[t] \in EnablePc
         /\ effect'[t] = effect[t]
      \/ pc'[t] \notin ParamPc \cup EnablePc
  BY DEF SetParameterStep, Mark, Edit, CopyByte, SendBody, LoseBody,
     ReturnFromSetParameter, EnableStep, SendEnable, LoseEnable, Remember,
     ReturnFromEnable, Returned, ParamPc, EnablePc
<1>4. ParamPc \cap EnablePc = {}
  BY DEF ParamPc, EnablePc
<1>5. QED
  BY <1>1, <1>2, <1>3, <1>4 DEF Stays, Busy

\* A thread whose place changes and is in no call afterwards is in none.
LEMMA AsideStays ==
  ASSUME ChosenInv,
         Open \/ BeginApply \/ EndApply \/ Close \/ OpenPage \/ Leave
           \/ Elsewhere \/ UNCHANGED effectVars
  PROVE  Stays
<1> USE DEF ChosenInv, EffectsTypeOK, ghostVars, effectVars, callVars
<1>1. crowded' = crowded /\ param' = param /\ effect' = effect
  BY DEF Open, BeginApply, EndApply, Close, OpenPage, Leave, Elsewhere
<1>2. \A t \in Threads : pc'[t] = pc[t] \/ pc'[t] \notin ParamPc \cup EnablePc
  BY DEF Open, BeginApply, EndApply, Close, OpenPage, Leave, Elsewhere,
     ParamPc, EnablePc, Threads
<1>3. QED
  BY <1>1, <1>2 DEF Stays, Busy

\* Every step but a start of the program.
LEMMA StaysOrBegins ==
  ASSUME ChosenInv, [EffectsNext]_effectVars, ~Start
  PROVE  Stays \/ \E t \in Threads, x \in Commands \cup Effects : Begins(t, x)
<1>1. ASSUME NEW p \in Params, ApplyParameter(p)
      PROVE  \E t \in Threads, x \in Commands \cup Effects : Begins(t, x)
  <2>1. Begins("worker", CommandOf(p))
    BY <1>1, CallSetParameterBegins DEF ApplyParameter, Threads
  <2>2. QED
    BY <2>1, CommandOfIsACommand DEF Threads
<1>2. ASSUME NEW p \in Params, NEW v \in Values \cup {-1, MaxValue + 1},
             SetParameter(p, v)
      PROVE  \E t \in Threads, x \in Commands \cup Effects : Begins(t, x)
  <2>1. Begins("interface", CommandOf(p))
    BY <1>2, CallSetParameterBegins DEF SetParameter, Threads
  <2>2. QED
    BY <2>1, CommandOfIsACommand DEF Threads
<1>3. ASSUME NEW e \in Effects, ApplyEnable(e)
      PROVE  \E t \in Threads, x \in Commands \cup Effects : Begins(t, x)
  BY <1>3, CallEnableBegins DEF ApplyEnable, Threads
<1>4. ASSUME NEW e \in Effects, NEW b \in BOOLEAN, SetEffectEnabled(e, b)
      PROVE  \E t \in Threads, x \in Commands \cup Effects : Begins(t, x)
  BY <1>4, CallEnableBegins DEF SetEffectEnabled, Threads
<1>5. QED
  BY <1>1, <1>2, <1>3, <1>4, ThreadStays, AsideStays
     DEF EffectsNext, Worker, User, Restart, Kill

LEMMA NobodyIsBusyAtStart ==
  ASSUME Start
  PROVE  \A t \in Threads : \A x : ~Busy(t, x)'
  BY DEF Start, FreshNext, Busy, ParamPc, EnablePc, Threads

LEMMA NextMeetings ==
  ASSUME ChosenInv, MeetingsAreMarked, [EffectsNext]_effectVars
  PROVE  MeetingsAreMarked'
<1>1. CASE Start
  BY <1>1, NobodyIsBusyAtStart DEF MeetingsAreMarked, Threads
<1>2. CASE Stays
  BY <1>2 DEF Stays, MeetingsAreMarked, Threads
<1>3. ASSUME NEW t \in Threads, NEW x \in Commands \cup Effects, Begins(t, x)
      PROVE  MeetingsAreMarked'
  <2> SUFFICES ASSUME NEW y \in Commands \cup Effects,
                      Busy("worker", y)', Busy("interface", y)'
               PROVE  y \in crowded'
    BY DEF MeetingsAreMarked
  <2>1. y = x
    BY <1>3 DEF Begins, Threads
  <2>2. \E u \in Threads \ {t} : Busy(u, x)
    BY <1>3, <2>1 DEF Begins, Threads
  <2>3. QED
    BY <1>3, <2>1, <2>2 DEF Begins, Enters
<1>4. QED
  BY <1>1, <1>2, <1>3, StaysOrBegins

-----------------------------------------------------------------------------
(* The bodies: what is copied, and what is on the deck.                    *)

LEMMA EditCopies ==
  ASSUME ChosenInv, Placed, MeetingsAreMarked, CopiesAreTrue,
         NEW t \in Threads, Edit(t)
  PROVE  CopiesAreTrue'
<1> USE Names DEF ChosenInv, EffectsTypeOK
<1>1. /\ pc[t] = "edit" /\ crowded' = crowded /\ copy' = copy /\ param' = param
      /\ bodies' = [bodies EXCEPT ![param[t]] = value[t]]
      /\ pc' = [pc EXCEPT ![t] = "copy"]
  BY DEF Edit
<1> SUFFICES ASSUME NEW u \in Threads, pc'[u] = "copy",
                    CommandOf(param[u]) \notin crowded,
                    NEW q \in Body(CommandOf(param[u]))
             PROVE  copy[u][q] \in {Unset, bodies'[q]}
  BY <1>1 DEF CopiesAreTrue
<1>2. CASE u = t
  BY <1>1, <1>2 DEF Placed, NoCopy, Body
<1>3. CASE u # t
  <2>1. pc[u] = "copy"
    BY <1>1, <1>3
  <2>2. Busy(u, CommandOf(param[u]))
    BY <2>1 DEF Busy, ParamPc
  <2>3. ~Busy(t, CommandOf(param[u]))
    BY <1>3, <2>2, CommandOfIsACommand DEF MeetingsAreMarked, Threads
  <2>4. q # param[t]
    BY <1>1, <2>3 DEF Busy, ParamPc, Body
  <2>5. bodies'[q] = bodies[q]
    BY <1>1, <2>4 DEF Body
  <2>6. QED
    BY <2>1, <2>5 DEF CopiesAreTrue
<1>4. QED
  BY <1>2, <1>3

\* Everybody else leaves the cache alone, and copies from it.
LEMMA ThreadCopies ==
  ASSUME ChosenInv, CopiesAreTrue, NEW t \in Threads,
         SetParameterStep(t) \/ EnableStep(t), ~Edit(t)
  PROVE  CopiesAreTrue'
<1> USE Names DEF ChosenInv, EffectsTypeOK, progVars, ghostVars
<1>1. crowded' = crowded /\ bodies' = bodies
  BY DEF SetParameterStep, Mark, CopyByte, SendBody, LoseBody, EnableStep,
     SendEnable, LoseEnable, Remember
<1>2. \A u \in Threads : pc'[u] = "copy" =>
        /\ pc[u] = "copy" /\ param'[u] = param[u]
        /\ \A q \in Body(CommandOf(param[u])) : copy'[u][q] \in {copy[u][q], bodies[q]}
  <2>1. CASE \E q \in Params : CopyByte(t, q)
    BY <2>1 DEF CopyByte, Body
  <2>2. CASE Mark(t)
    BY <2>2 DEF Mark
  <2>3. CASE SendBody(t) \/ LoseBody(t)
    BY <2>3 DEF SendBody, LoseBody, ReturnFromSetParameter, Returned
  <2>4. CASE EnableStep(t)
    BY <2>4 DEF EnableStep, SendEnable, LoseEnable, Remember,
       ReturnFromEnable, Returned
  <2>5. QED
    BY <2>1, <2>2, <2>3, <2>4 DEF SetParameterStep
<1>3. QED
  BY <1>1, <1>2 DEF CopiesAreTrue

LEMMA BeginsCopies ==
  ASSUME CopiesAreTrue, NEW t \in Threads, NEW x, Begins(t, x),
         UNCHANGED <<bodies, copy>>, pc'[t] # "copy",
         \A u \in Threads \ {t} : pc'[u] = pc[u] /\ param'[u] = param[u]
  PROVE  CopiesAreTrue'
<1> SUFFICES ASSUME NEW u \in Threads, pc'[u] = "copy",
                    CommandOf(param'[u]) \notin crowded',
                    NEW q \in Body(CommandOf(param'[u]))
             PROVE  copy[u][q] \in {Unset, bodies[q]}
  BY DEF CopiesAreTrue
<1>1. u # t /\ pc[u] = "copy" /\ param'[u] = param[u]
  OBVIOUS
<1>2. Busy(u, CommandOf(param[u]))
  BY <1>1 DEF Busy, ParamPc
<1>3. CommandOf(param[u]) \notin crowded
  BY <1>1, <1>2 DEF Begins, Enters
<1>4. QED
  BY <1>1, <1>3 DEF CopiesAreTrue

LEMMA AsideCopies ==
  ASSUME CopiesAreTrue, UNCHANGED <<bodies, copy, crowded, param>>,
         \A t \in Threads : pc'[t] = "copy" => pc[t] = "copy"
  PROVE  CopiesAreTrue'
  BY DEF CopiesAreTrue

LEMMA NextCopies ==
  ASSUME ChosenInv, Placed, MeetingsAreMarked, CopiesAreTrue,
         [EffectsNext]_effectVars
  PROVE  CopiesAreTrue'
<1> USE Names DEF progVars, ghostVars
<1>1. ASSUME NEW t \in Threads, SetParameterStep(t) \/ EnableStep(t)
      PROVE  CopiesAreTrue'
  BY <1>1, EditCopies, ThreadCopies
<1>2. ASSUME NEW p \in Params, ApplyParameter(p) PROVE CopiesAreTrue'
  <2>1. Begins("worker", CommandOf(p))
    BY <1>2, CallSetParameterBegins DEF ApplyParameter, Threads
  <2>2. QED
    BY <1>2, <2>1, BeginsCopies DEF ApplyParameter, CallSetParameter, Threads,
       ChosenInv, EffectsTypeOK
<1>3. ASSUME NEW e \in Effects, ApplyEnable(e) PROVE CopiesAreTrue'
  <2>1. Begins("worker", e)
    BY <1>3, CallEnableBegins DEF ApplyEnable, Threads
  <2>2. QED
    BY <1>3, <2>1, BeginsCopies DEF ApplyEnable, CallEnable, Threads,
       ChosenInv, EffectsTypeOK
<1>4. ASSUME NEW p \in Params, NEW v \in Values \cup {-1, MaxValue + 1},
             SetParameter(p, v)
      PROVE  CopiesAreTrue'
  <2>1. Begins("interface", CommandOf(p))
    BY <1>4, CallSetParameterBegins DEF SetParameter, Threads
  <2>2. QED
    BY <1>4, <2>1, BeginsCopies DEF SetParameter, CallSetParameter, Threads,
       ChosenInv, EffectsTypeOK
<1>5. ASSUME NEW e \in Effects, NEW b \in BOOLEAN, SetEffectEnabled(e, b)
      PROVE  CopiesAreTrue'
  <2>1. Begins("interface", e)
    BY <1>5, CallEnableBegins DEF SetEffectEnabled, Threads
  <2>2. QED
    BY <1>5, <2>1, BeginsCopies DEF SetEffectEnabled, CallEnable, Threads,
       ChosenInv, EffectsTypeOK
<1>6. CASE Open \/ BeginApply \/ EndApply \/ Close \/ OpenPage \/ Leave
             \/ Elsewhere \/ UNCHANGED effectVars
  BY <1>6, AsideCopies DEF Open, BeginApply, EndApply, Close, OpenPage, Leave,
     Elsewhere, effectVars, callVars, Threads, ChosenInv, EffectsTypeOK
<1>7. CASE Start
  BY <1>7 DEF Start, FreshNext, CopiesAreTrue, Threads
<1>8. QED
  BY <1>1, <1>2, <1>3, <1>4, <1>5, <1>6, <1>7
     DEF EffectsNext, Worker, User, Restart, Kill

\* A body nobody touches is as much on the deck as it was.
LEMMA KeptOnTheDeck ==
  ASSUME BodyIsOnTheDeck, sure' \subseteq sure, UNCHANGED <<chain, bodies>>,
         \A t \in Threads, c \in sure : Busy(t, c) => Busy(t, c)'
  PROVE  BodyIsOnTheDeck'
  BY DEF BodyIsOnTheDeck

\* A call that begins, goes on or has to do with an enable.
LEMMA GoesOnBusy ==
  ASSUME ChosenInv, NEW t \in Threads, NEW c \in Commands, Busy(t, c),
         \/ Mark(t) \/ EnableStep(t) \/ (\E q \in Params : CopyByte(t, q))
  PROVE  Busy(t, c)'
<1> USE Names, CommandsAreNoEffects DEF ChosenInv, EffectsTypeOK
<1>1. effect[t] # c
  OBVIOUS
<1>2. pc[t] \in ParamPc /\ CommandOf(param[t]) = c
  BY <1>1 DEF Busy
<1>3. pc'[t] \in ParamPc /\ param'[t] = param[t]
  BY <1>2 DEF Mark, CopyByte, EnableStep, SendEnable, LoseEnable, Remember,
     ParamPc
<1>4. QED
  BY <1>2, <1>3 DEF Busy

LEMMA OthersStayBusy ==
  ASSUME ChosenInv, NEW t \in Threads, SetParameterStep(t) \/ EnableStep(t),
         NEW u \in Threads \ {t}, NEW c
  PROVE  Busy(u, c)' <=> Busy(u, c)
<1> USE Names DEF ChosenInv, EffectsTypeOK
<1>1. pc'[u] = pc[u] /\ param'[u] = param[u] /\ effect'[u] = effect[u]
  BY DEF SetParameterStep, Mark, Edit, CopyByte, SendBody, LoseBody,
     ReturnFromSetParameter, EnableStep, SendEnable, LoseEnable, Remember,
     ReturnFromEnable
<1>2. QED
  BY <1>1 DEF Busy

LEMMA EditOnTheDeck ==
  ASSUME ChosenInv, BodyIsOnTheDeck, NEW t \in Threads, Edit(t)
  PROVE  BodyIsOnTheDeck'
<1> USE Names DEF ChosenInv, EffectsTypeOK
<1>1. /\ pc[t] = "edit" /\ pc'[t] = "copy" /\ param' = param
      /\ bodies' = [bodies EXCEPT ![param[t]] = value[t]]
      /\ chain' = chain /\ sure' = sure
  BY DEF Edit, deckVars
<1> SUFFICES ASSUME NEW c \in sure, \A u \in Threads : ~Busy(u, c)',
                    NEW p \in Body(c)
             PROVE  chain[p] = bodies'[p]
  BY <1>1 DEF BodyIsOnTheDeck
<1>2. CommandOf(param[t]) # c
  BY <1>1 DEF Busy, ParamPc
<1>3. bodies'[p] = bodies[p]
  BY <1>1, <1>2 DEF Body
<1>4. ~Busy(t, c)
  BY <1>1, <1>2 DEF Busy, ParamPc, EnablePc
<1>5. \A u \in Threads \ {t} : ~Busy(u, c)
  BY OthersStayBusy DEF SetParameterStep
<1>6. QED
  BY <1>3, <1>4, <1>5 DEF BodyIsOnTheDeck

\* The body that lands is what is held, unless another call was at it.
LEMMA SendOnTheDeck ==
  ASSUME ChosenInv, CopiesAreTrue, BodyIsOnTheDeck, NEW t \in Threads,
         SendBody(t) \/ LoseBody(t)
  PROVE  BodyIsOnTheDeck'
<1> USE Names DEF ChosenInv, EffectsTypeOK
<1>1. PICK x : x = CommandOf(param[t])
  OBVIOUS
<1>2. /\ pc[t] = "copy" /\ bodies' = bodies
      /\ \A q \in Body(x) : copy[t][q] # Unset
      /\ \A q \in Params \ Body(x) : chain'[q] = chain[q]
      /\ x \in sure' => /\ x \notin crowded
                        /\ \A q \in Body(x) : chain'[q] = copy[t][q]
      /\ sure' \subseteq sure \cup {x}
  BY <1>1 DEF SendBody, LoseBody, Copied, progVars, deckVars, Body
<1> SUFFICES ASSUME NEW c \in sure', \A u \in Threads : ~Busy(u, c)',
                    NEW p \in Body(c)
             PROVE  chain'[p] = bodies[p]
  BY <1>2 DEF BodyIsOnTheDeck
<1>3. CASE c = x
  <2>1. copy[t][p] = bodies[p]
    BY <1>1, <1>2, <1>3 DEF CopiesAreTrue
  <2>2. QED
    BY <1>2, <1>3, <2>1
<1>4. CASE c # x
  <2>1. ~Busy(t, c)
    BY <1>1, <1>2, <1>4 DEF Busy, EnablePc
  <2>2. \A u \in Threads \ {t} : ~Busy(u, c)
    BY OthersStayBusy DEF SetParameterStep
  <2>3. p \in Params \ Body(x)
    BY <1>4 DEF Body
  <2>4. QED
    BY <1>2, <1>4, <2>1, <2>2, <2>3 DEF BodyIsOnTheDeck
<1>5. QED
  BY <1>3, <1>4

LEMMA BeginsOnTheDeck ==
  ASSUME ChosenInv, BodyIsOnTheDeck, UNCHANGED <<chain, bodies, sure>>,
         NEW t \in Threads, pc[t] \notin ParamPc \cup EnablePc, NEW x,
         Begins(t, x)
  PROVE  BodyIsOnTheDeck'
<1>1. \A c \in sure : ~Busy(t, c)
  BY DEF Busy
<1>2. \A u \in Threads, c \in sure : Busy(u, c) => Busy(u, c)'
  BY <1>1 DEF Begins, ChosenInv, EffectsTypeOK
<1>3. QED
  BY <1>2, KeptOnTheDeck

LEMMA AsideOnTheDeck ==
  ASSUME ChosenInv, BodyIsOnTheDeck,
         \/ Open \/ BeginApply \/ EndApply \/ Close \/ OpenPage \/ Leave
         \/ UNCHANGED effectVars
  PROVE  BodyIsOnTheDeck'
<1> USE DEF ChosenInv, EffectsTypeOK, ghostVars, effectVars, callVars, progVars,
     deckVars
<1>1. UNCHANGED <<chain, bodies, sure, param, effect>>
  BY DEF Open, BeginApply, EndApply, Close, OpenPage, Leave
<1>2. \A t \in Threads : pc'[t] = pc[t] \/ pc[t] \notin ParamPc \cup EnablePc
  BY DEF Open, BeginApply, EndApply, Close, OpenPage, Leave, ParamPc, EnablePc,
     Threads
<1>3. \A t \in Threads, c \in sure : Busy(t, c) => Busy(t, c)'
  BY <1>1, <1>2 DEF Busy
<1>4. QED
  BY <1>1, <1>3, KeptOnTheDeck

LEMMA NextOnTheDeck ==
  ASSUME ChosenInv, CopiesAreTrue, BodyIsOnTheDeck, [EffectsNext]_effectVars
  PROVE  BodyIsOnTheDeck'
<1> USE Names DEF progVars, ghostVars, deckVars
<1>1. ASSUME NEW t \in Threads,
             \/ Mark(t) \/ EnableStep(t) \/ (\E q \in Params : CopyByte(t, q))
      PROVE  BodyIsOnTheDeck'
  <2>1. UNCHANGED <<chain, bodies, sure>>
    BY <1>1 DEF Mark, CopyByte, EnableStep, SendEnable, LoseEnable, Remember
  <2>2. \A u \in Threads, c \in sure : Busy(u, c) => Busy(u, c)'
    <3>1. sure \subseteq Commands
      BY DEF ChosenInv, EffectsTypeOK
    <3>2. \A c \in sure : Busy(t, c) => Busy(t, c)'
      BY <1>1, <3>1, GoesOnBusy
    <3>3. SetParameterStep(t) \/ EnableStep(t)
      BY <1>1 DEF SetParameterStep
    <3>4. \A u \in Threads \ {t}, c \in sure : Busy(u, c) => Busy(u, c)'
      BY <3>3, OthersStayBusy
    <3>5. QED
      BY <3>2, <3>4
  <2>3. QED
    BY <2>1, <2>2, KeptOnTheDeck
<1>2. ASSUME NEW t \in Threads, Edit(t) \/ SendBody(t) \/ LoseBody(t)
      PROVE  BodyIsOnTheDeck'
  BY <1>2, EditOnTheDeck, SendOnTheDeck
<1>3. ASSUME NEW p \in Params, ApplyParameter(p) PROVE BodyIsOnTheDeck'
  <2>1. Begins("worker", CommandOf(p))
    BY <1>3, CallSetParameterBegins DEF ApplyParameter, Threads
  <2>2. QED
    BY <1>3, <2>1, BeginsOnTheDeck
       DEF ApplyParameter, Threads, ParamPc, EnablePc
<1>4. ASSUME NEW e \in Effects, ApplyEnable(e) PROVE BodyIsOnTheDeck'
  <2>1. Begins("worker", e)
    BY <1>4, CallEnableBegins DEF ApplyEnable, Threads
  <2>2. QED
    BY <1>4, <2>1, BeginsOnTheDeck
       DEF ApplyEnable, Threads, ParamPc, EnablePc
<1>5. ASSUME NEW p \in Params, NEW v \in Values \cup {-1, MaxValue + 1},
             SetParameter(p, v)
      PROVE  BodyIsOnTheDeck'
  <2>1. Begins("interface", CommandOf(p))
    BY <1>5, CallSetParameterBegins DEF SetParameter, Threads
  <2>2. QED
    BY <1>5, <2>1, BeginsOnTheDeck
       DEF SetParameter, Threads, ParamPc, EnablePc
<1>6. ASSUME NEW e \in Effects, NEW b \in BOOLEAN, SetEffectEnabled(e, b)
      PROVE  BodyIsOnTheDeck'
  <2>1. Begins("interface", e)
    BY <1>6, CallEnableBegins DEF SetEffectEnabled, Threads
  <2>2. QED
    BY <1>6, <2>1, BeginsOnTheDeck
       DEF SetEffectEnabled, Threads, ParamPc, EnablePc
<1>7. CASE Open \/ BeginApply \/ EndApply \/ Close \/ OpenPage \/ Leave
             \/ UNCHANGED effectVars
  BY <1>7, AsideOnTheDeck
<1>8. CASE Elsewhere \/ Start
  BY <1>8 DEF Elsewhere, Start, FreshNext, BodyIsOnTheDeck
<1>9. QED
  BY <1>1, <1>2, <1>3, <1>4, <1>5, <1>6, <1>7, <1>8
     DEF EffectsNext, SetParameterStep, Worker, User, Restart, Kill

-----------------------------------------------------------------------------
(* The enables come after the parameters, and have the final word.         *)

LEMMA NextEnablesComeLast ==
  ASSUME ChosenInv, Placed, EnablesComeLast, [EffectsNext]_effectVars
  PROVE  EnablesComeLast'
<1> USE Names DEF ChosenInv, EffectsTypeOK, EnablesComeLast, Applied, ParamPc,
     EnablePc, Threads
<1>1. ASSUME NEW t \in Threads, SetParameterStep(t) PROVE EnablesComeLast'
  BY <1>1 DEF SetParameterStep, Mark, Edit, CopyByte, SendBody, LoseBody,
     ReturnFromSetParameter, Returned, Copied, Placed, Pcs
<1>2. ASSUME NEW t \in Threads, EnableStep(t) PROVE EnablesComeLast'
  BY <1>2 DEF EnableStep, SendEnable, LoseEnable, Remember, ReturnFromEnable,
     Returned, Placed, Pcs
<1>3. CASE Worker
  BY <1>3 DEF Worker, Open, BeginApply, ApplyParameter, ApplyEnable, EndApply,
     Close, CallSetParameter, CallEnable, ParametersAreDone
<1>4. CASE OpenPage \/ Leave
  BY <1>4 DEF OpenPage, Leave
<1>5. ASSUME NEW p \in Params, NEW v \in Values \cup {-1, MaxValue + 1},
             SetParameter(p, v)
      PROVE  EnablesComeLast'
  BY <1>5 DEF SetParameter, CallSetParameter
<1>6. ASSUME NEW e \in Effects, NEW b \in BOOLEAN, SetEffectEnabled(e, b)
      PROVE  EnablesComeLast'
  BY <1>6 DEF SetEffectEnabled, CallEnable
<1>7. CASE Start
  BY <1>7 DEF Start, FreshNext
<1>8. CASE Elsewhere \/ UNCHANGED effectVars
  BY <1>8 DEF Elsewhere, effectVars, callVars
<1>9. QED
  BY <1>1, <1>2, <1>3, <1>4, <1>5, <1>6, <1>7, <1>8
     DEF EffectsNext, User, Restart, Kill

\* What is left as it is, is as true as it was.
LEMMA LeftTrue ==
  ASSUME EnablesAreTrue, UNCHANGED <<enabled, flag, effect>>,
         toApply \cap Effects \subseteq toApply', waived \subseteq waived',
         \A e \in Effects : on'[e] = on[e] \/ e \in toApply' \cup waived',
         pc["worker"] = "sendEnable" <=> pc'["worker"] = "sendEnable",
         pc["interface"] = "remember" <=> pc'["interface"] = "remember",
         Applied' => Applied,
         \A e \in Effects : Sending(e) /\ e \in crowded => e \in crowded'
  PROVE  EnablesAreTrue'
<1>1. \A e \in Effects : /\ Sending(e)' <=> Sending(e)
                         /\ Remembering(e)' <=> Remembering(e)
  BY DEF Sending, Remembering
<1>2. ASSUME NEW e \in Effects, Sending(e)', e \notin crowded'
      PROVE  flag'["worker"] = enabled'[e]
  BY <1>1, <1>2 DEF EnablesAreTrue
<1>3. ASSUME NEW e \in Effects, Applied'
      PROVE  \/ e \in toApply' \cup waived'
             \/ Sending(e)'
             \/ Remembering(e)' /\ on'[e] = flag'["interface"]
             \/ ~Remembering(e)' /\ on'[e] = enabled'[e]
  BY <1>1, <1>3 DEF EnablesAreTrue
<1>4. QED
  BY <1>2, <1>3 DEF EnablesAreTrue

\* A body may switch the delay effect on: the connect's before the enables are
\* sent, the interface's at its own risk.
LEMMA SetParameterLeavesTrue ==
  ASSUME ChosenInv, Placed, EnablesComeLast, EnablesAreTrue,
         NEW t \in Threads, SetParameterStep(t)
  PROVE  EnablesAreTrue'
<1> USE DEF ChosenInv, EffectsTypeOK, progVars, deckVars, ghostVars
<1>1. /\ UNCHANGED <<enabled, flag, effect, toApply, crowded>>
      /\ waived \subseteq waived'
  BY DEF SetParameterStep, Mark, Edit, CopyByte, SendBody, LoseBody,
     ReturnFromSetParameter
<1>2. \A u \in Threads \ {t} : pc'[u] = pc[u]
  BY DEF SetParameterStep, Mark, Edit, CopyByte, SendBody, LoseBody,
     ReturnFromSetParameter
<1>3. pc[t] \in ParamPc /\ pc'[t] \in ParamPc \cup {Returned(t)}
  BY DEF SetParameterStep, Mark, Edit, CopyByte, SendBody, LoseBody, Copied,
     ReturnFromSetParameter, ParamPc
<1>4. /\ pc["worker"] = "sendEnable" <=> pc'["worker"] = "sendEnable"
      /\ pc["interface"] = "remember" <=> pc'["interface"] = "remember"
      /\ Applied' => Applied
  BY <1>2, <1>3 DEF Applied, ParamPc, EnablePc, Returned, Threads
<1>5. ASSUME NEW e \in Effects, on'[e] # on[e]
      PROVE  e \in toApply' \cup waived'
  <2>1. SendBody(t)
    BY <1>5 DEF SetParameterStep, Mark, Edit, CopyByte, LoseBody
  <2>2. CASE t = "worker"
    BY <1>1, <1>3, <2>2 DEF EnablesComeLast
  <2>3. CASE t = "interface"
    BY <1>5, <2>1, <2>3 DEF SendBody
  <2>4. QED
    BY <2>2, <2>3 DEF Threads
<1>6. QED
  BY <1>1, <1>4, <1>5, LeftTrue

LEMMA SendEnableLeavesTrue ==
  ASSUME ChosenInv, Placed, MeetingsAreMarked, EnablesAreTrue,
         NEW t \in Threads, SendEnable(t)
  PROVE  EnablesAreTrue'
<1> USE Names DEF ChosenInv, EffectsTypeOK, progVars, Threads, EnablePc, ParamPc
<1>1. effect[t] \in Effects
  BY DEF SendEnable, SentWasChosen
<1>2. /\ pc[t] = "sendEnable" /\ toApply' = toApply /\ enabled' = enabled
      /\ on' = [on EXCEPT ![effect[t]] = flag[t]] /\ crowded' = crowded
      /\ waived' = IF effect[t] \in crowded THEN waived \cup {effect[t]}
                                           ELSE waived \ {effect[t]}
  BY DEF SendEnable
<1>3. CASE t = "worker"
  <2>1. /\ pc'["worker"] = "apply" /\ pc'["interface"] = pc["interface"]
        /\ effect'["interface"] = effect["interface"]
        /\ flag'["interface"] = flag["interface"]
    BY <1>3 DEF SendEnable, ReturnFromEnable, Returned
  <2>2. /\ Applied
        /\ \A e \in Effects : Sending(e) <=> e = effect["worker"]
        /\ \A e \in Effects : ~Sending(e)'
        /\ \A e \in Effects : Remembering(e)' <=> Remembering(e)
    BY <1>2, <1>3, <2>1 DEF Applied, Sending, Remembering
  <2>3. ASSUME NEW e \in Effects, e = effect["worker"], e \notin crowded
        PROVE  ~Remembering(e) /\ on'[e] = enabled[e]
    <3>1. ~Remembering(e)
      BY <1>2, <1>3, <2>3 DEF MeetingsAreMarked, Busy, Remembering
    <3>2. flag["worker"] = enabled[e]
      BY <2>2, <2>3 DEF EnablesAreTrue
    <3>3. QED
      BY <1>2, <1>3, <2>3, <3>1, <3>2
  <2>4. ASSUME NEW e \in Effects
        PROVE  \/ e \in toApply' \cup waived'
               \/ Remembering(e)' /\ on'[e] = flag'["interface"]
               \/ ~Remembering(e)' /\ on'[e] = enabled'[e]
    <3>1. CASE e = effect["worker"]
      BY <1>2, <1>3, <2>2, <2>3, <3>1
    <3>2. CASE e # effect["worker"]
      <4>1. on'[e] = on[e] /\ (e \in waived => e \in waived')
        BY <1>2, <1>3, <3>2
      <4>2. \/ e \in toApply \cup waived
            \/ Remembering(e) /\ on[e] = flag["interface"]
            \/ ~Remembering(e) /\ on[e] = enabled[e]
        BY <2>2, <3>2 DEF EnablesAreTrue
      <4>3. QED
        BY <1>2, <2>1, <2>2, <4>1, <4>2
    <3>3. QED
      BY <3>1, <3>2
  <2>5. QED
    BY <2>2, <2>4 DEF EnablesAreTrue
<1>4. CASE t = "interface"
  <2>1. /\ pc'["worker"] = pc["worker"] /\ pc'["interface"] = "remember"
        /\ effect' = effect /\ flag' = flag
    BY <1>4 DEF SendEnable
  <2>2. /\ Applied' <=> Applied
        /\ \A e \in Effects : Sending(e)' <=> Sending(e)
        /\ \A e \in Effects : ~Remembering(e)
        /\ \A e \in Effects : Remembering(e)' <=> e = effect["interface"]
    BY <1>2, <1>4, <2>1 DEF Applied, Sending, Remembering
  <2>3. ASSUME NEW e \in Effects, Applied
        PROVE  \/ e \in toApply' \cup waived'
               \/ Sending(e)'
               \/ Remembering(e)' /\ on'[e] = flag'["interface"]
               \/ ~Remembering(e)' /\ on'[e] = enabled'[e]
    <3>1. CASE e = effect["interface"]
      BY <1>2, <1>4, <2>1, <2>2, <3>1
    <3>2. CASE e # effect["interface"]
      <4>1. on'[e] = on[e] /\ (e \in waived => e \in waived')
        BY <1>2, <1>4, <3>2
      <4>2. \/ e \in toApply \cup waived
            \/ Sending(e)
            \/ on[e] = enabled[e]
        BY <2>2, <2>3 DEF EnablesAreTrue
      <4>3. QED
        BY <1>2, <2>2, <3>2, <4>1, <4>2
    <3>3. QED
      BY <3>1, <3>2
  <2>4. \A e \in Effects :
          Sending(e)' /\ e \notin crowded' => flag'["worker"] = enabled'[e]
    BY <1>2, <2>1, <2>2 DEF EnablesAreTrue
  <2>5. QED
    BY <2>2, <2>3, <2>4 DEF EnablesAreTrue
<1>5. QED
  BY <1>3, <1>4

LEMMA LoseEnableLeavesTrue ==
  ASSUME ChosenInv, EnablesAreTrue, NEW t \in Threads, LoseEnable(t)
  PROVE  EnablesAreTrue'
<1> USE Names DEF ChosenInv, EffectsTypeOK, progVars, deckVars, Threads
<1>1. /\ pc[t] = "sendEnable" /\ pc'[t] = Returned(t)
      /\ UNCHANGED <<on, enabled, toApply, crowded>>
      /\ waived' = IF t = "worker" THEN waived \cup {effect[t]} ELSE waived
      /\ \A u \in Threads \ {t} :
           pc'[u] = pc[u] /\ effect'[u] = effect[u] /\ flag'[u] = flag[u]
  BY DEF LoseEnable, ReturnFromEnable
<1>2. CASE t = "worker"
  <2>1. /\ Applied
        /\ \A e \in Effects : ~Sending(e)'
        /\ \A e \in Effects : Remembering(e)' <=> Remembering(e)
        /\ \A e \in Effects : Sending(e) => e \in waived'
        /\ flag'["interface"] = flag["interface"]
    BY <1>1, <1>2 DEF Applied, Sending, Remembering, Returned, EnablePc
  <2>2. QED
    BY <1>1, <1>2, <2>1 DEF EnablesAreTrue
<1>3. CASE t = "interface"
  <2>1. /\ Applied' <=> Applied
        /\ \A e \in Effects : Sending(e)' <=> Sending(e)
        /\ \A e \in Effects : ~Remembering(e) /\ ~Remembering(e)'
        /\ flag'["worker"] = flag["worker"]
    BY <1>1, <1>3 DEF Applied, Sending, Remembering, Returned
  <2>2. QED
    BY <1>1, <1>3, <2>1 DEF EnablesAreTrue
<1>4. QED
  BY <1>2, <1>3

\* What is remembered last is what was sent, whether the connect sends the
\* same effect meanwhile or not: then the two met.
LEMMA RememberLeavesTrue ==
  ASSUME ChosenInv, Placed, MeetingsAreMarked, EnablesAreTrue,
         NEW t \in Threads, Remember(t)
  PROVE  EnablesAreTrue'
<1> USE Names DEF ChosenInv, EffectsTypeOK, progVars, deckVars, ghostVars,
     Threads
<1>1. t = "interface"
  BY DEF Remember, Placed
<1>2. /\ pc["interface"] = "remember" /\ pc'["interface"] = "idle"
      /\ pc'["worker"] = pc["worker"]
      /\ effect'["worker"] = effect["worker"]
      /\ flag'["worker"] = flag["worker"]
      /\ UNCHANGED <<on, toApply, crowded, waived>>
      /\ enabled' = [enabled EXCEPT ![effect["interface"]] = flag["interface"]]
  BY <1>1 DEF Remember, ReturnFromEnable, Returned
<1>3. /\ Applied' <=> Applied
      /\ \A e \in Effects : Sending(e)' <=> Sending(e)
      /\ \A e \in Effects : ~Remembering(e)'
      /\ \A e \in Effects : Remembering(e) <=> e = effect["interface"]
  BY <1>2 DEF Applied, Sending, Remembering
<1>4. ASSUME NEW e \in Effects, Sending(e), e \notin crowded
      PROVE  flag["worker"] = enabled'[e]
  <2>1. e # effect["interface"]
    BY <1>2, <1>4 DEF MeetingsAreMarked, Busy, Sending, EnablePc
  <2>2. QED
    BY <1>2, <1>4, <2>1 DEF EnablesAreTrue
<1>5. ASSUME NEW e \in Effects, Applied
      PROVE  e \in toApply \cup waived \/ Sending(e) \/ on[e] = enabled'[e]
  BY <1>2, <1>3, <1>5 DEF EnablesAreTrue
<1>6. QED
  BY <1>2, <1>3, <1>4, <1>5 DEF EnablesAreTrue

LEMMA ApplyEnableLeavesTrue ==
  ASSUME ChosenInv, EnablesAreTrue, NEW x \in Effects, ApplyEnable(x)
  PROVE  EnablesAreTrue'
<1> USE Names DEF ChosenInv, EffectsTypeOK, progVars, deckVars, Threads
<1>1. /\ pc["worker"] = "apply" /\ pc'["worker"] = "sendEnable"
      /\ pc'["interface"] = pc["interface"]
      /\ effect'["worker"] = x /\ effect'["interface"] = effect["interface"]
      /\ flag'["worker"] = enabled[x] /\ flag'["interface"] = flag["interface"]
      /\ UNCHANGED <<on, enabled, waived>>
      /\ toApply' = toApply \ {x}
  BY DEF ApplyEnable, CallEnable
<1>2. /\ Applied
      /\ \A e \in Effects : ~Sending(e) /\ (Sending(e)' <=> e = x)
      /\ \A e \in Effects : Remembering(e)' <=> Remembering(e)
  BY <1>1 DEF Applied, Sending, Remembering
<1>3. QED
  BY <1>1, <1>2 DEF EnablesAreTrue

LEMMA SetEffectEnabledLeavesTrue ==
  ASSUME ChosenInv, EnablesAreTrue, NEW x \in Effects, NEW b \in BOOLEAN,
         SetEffectEnabled(x, b)
  PROVE  EnablesAreTrue'
<1> USE Names DEF ChosenInv, EffectsTypeOK, deckVars, Threads
<1>1. /\ pc["interface"] = "idle" /\ pc'["interface"] = "sendEnable"
      /\ pc'["worker"] = pc["worker"]
      /\ effect'["worker"] = effect["worker"]
      /\ flag'["worker"] = flag["worker"]
      /\ UNCHANGED <<on, enabled, waived, toApply>>
      /\ Enters("interface", x)
  BY DEF SetEffectEnabled, CallEnable
<1>2. /\ Applied' <=> Applied
      /\ \A e \in Effects : Sending(e)' <=> Sending(e)
      /\ \A e \in Effects : ~Remembering(e) /\ ~Remembering(e)'
  BY <1>1 DEF Applied, Sending, Remembering
<1>3. \A e \in Effects : Sending(e) /\ e \in crowded => e \in crowded'
  BY <1>1 DEF Enters, Sending, Busy, EnablePc
<1>4. QED
  BY <1>1, <1>2, <1>3 DEF EnablesAreTrue

LEMMA NextEnablesAreTrue ==
  ASSUME ChosenInv, Placed, HeldOpen, MeetingsAreMarked, EnablesComeLast,
         EnablesAreTrue, [EffectsNext]_effectVars
  PROVE  EnablesAreTrue'
<1>1. ASSUME NEW t \in Threads, SetParameterStep(t) PROVE EnablesAreTrue'
  BY <1>1, SetParameterLeavesTrue
<1>2. ASSUME NEW t \in Threads, EnableStep(t) PROVE EnablesAreTrue'
  BY <1>2, SendEnableLeavesTrue, LoseEnableLeavesTrue, RememberLeavesTrue
     DEF EnableStep
<1>3. ASSUME NEW e \in Effects, ApplyEnable(e) PROVE EnablesAreTrue'
  BY <1>3, ApplyEnableLeavesTrue
<1>4. ASSUME NEW e \in Effects, NEW b \in BOOLEAN, SetEffectEnabled(e, b)
      PROVE  EnablesAreTrue'
  BY <1>4, SetEffectEnabledLeavesTrue
<1> USE DEF progVars, deckVars, ghostVars, ChosenInv, EffectsTypeOK, Threads
<1>5. ASSUME NEW p \in Params, ApplyParameter(p) PROVE EnablesAreTrue'
  <2>1. /\ UNCHANGED <<on, enabled, flag, effect, waived>>
        /\ toApply' = toApply \ {p} /\ p \notin Effects
        /\ pc["worker"] = "apply" /\ pc'["worker"] = "mark"
        /\ pc'["interface"] = pc["interface"]
    BY <1>5, Names DEF ApplyParameter, CallSetParameter
  <2>2. QED
    BY <2>1, LeftTrue DEF Applied, Sending
<1>6. ASSUME NEW p \in Params, NEW v \in Values \cup {-1, MaxValue + 1},
             SetParameter(p, v)
      PROVE  EnablesAreTrue'
  <2>1. /\ UNCHANGED <<on, enabled, flag, effect, waived, toApply>>
        /\ pc["interface"] = "idle" /\ pc'["interface"] = "mark"
        /\ pc'["worker"] = pc["worker"]
        /\ Enters("interface", CommandOf(p))
    BY <1>6 DEF SetParameter, CallSetParameter
  <2>2. \A e \in Effects : e \in crowded => e \in crowded'
    BY <2>1, CommandOfIsACommand, CommandsAreNoEffects, Names DEF Enters
  <2>3. QED
    BY <2>1, <2>2, LeftTrue DEF Applied
<1>7. CASE \/ EndApply \/ Close \/ OpenPage \/ Leave \/ UNCHANGED effectVars
  <2>1. UNCHANGED <<on, enabled, flag, effect, toApply, waived, crowded>>
    BY <1>7 DEF EndApply, Close, OpenPage, Leave, effectVars, callVars
  <2>2. /\ pc["worker"] = "sendEnable" <=> pc'["worker"] = "sendEnable"
        /\ pc["interface"] = "remember" <=> pc'["interface"] = "remember"
        /\ Applied' => Applied
    BY <1>7 DEF EndApply, Close, OpenPage, Leave, effectVars, callVars, Applied,
       ParamPc, EnablePc
  <2>3. QED
    BY <2>1, <2>2, LeftTrue
<1>8. CASE BeginApply
  BY <1>8 DEF BeginApply, EnablesAreTrue, Sending
<1>9. CASE Open \/ Start
  BY <1>9 DEF Open, Start, FreshNext, EnablesAreTrue, Sending, Applied, ParamPc,
     EnablePc
<1>10. CASE Elsewhere
  <2>1. /\ UNCHANGED <<enabled, flag, effect, toApply, crowded, pc>>
        /\ waived' = Effects
    BY <1>10 DEF Elsewhere, callVars
  <2>2. QED
    BY <2>1 DEF EnablesAreTrue, Sending
<1>11. QED
  BY <1>1, <1>2, <1>3, <1>4, <1>5, <1>6, <1>7, <1>8, <1>9, <1>10
     DEF EffectsNext, Worker, User, Restart, Kill

-----------------------------------------------------------------------------
(* What the file holds is what the next run starts from.                   *)

LEMMA NextFileIsKept ==
  ASSUME ChosenInv, FileIsKept, MarkedIsHeld, [EffectsNext]_effectVars
  PROVE  FileIsKept'
<1> USE DEF ChosenInv, EffectsTypeOK, FileIsKept, Threads
<1>1. CASE Leave
  <2>1. kept' = [p \in Params |-> IF p \in touched \/ CutOff(p) THEN bodies[p]
                                                                ELSE kept[p]]
    BY <1>1 DEF Leave
  <2>2. store'.params = [p \in Params |-> IF EffectState[p] # Unset
                                            THEN EffectState[p]
                                            ELSE store.params[p]]
    BY <1>1 DEF Leave
  <2>3. ASSUME NEW p \in Params
        PROVE  (IF EffectState[p] # Unset THEN EffectState[p]
                                          ELSE store.params[p])
                 = IF p \in touched \/ CutOff(p) THEN bodies[p] ELSE kept[p]
    <3>1. pc["interface"] = "idle" /\ wanted = kept
      BY <1>1 DEF Leave
    <3>2. EffectState[p] = IF p \in chosen THEN bodies[p] ELSE Unset
      BY DEF EffectState
    <3>3. CutOff(p) \/ p \in touched => p \in chosen
      BY DEF CutOff, MarkedIsHeld
    <3>4. p \in chosen \ touched => bodies[p] = kept[p] \/ CutOff(p)
      BY <3>1 DEF CutOff, MarkedIsHeld
    <3>5. QED
      BY <3>2, <3>3, <3>4, Names
  <2>4. store'.params = kept'
    BY <2>1, <2>2, <2>3
  <2>5. pc'["interface"] = "leaving"
    BY <1>1 DEF Leave
  <2>6. QED
    BY <2>4, <2>5
<1>2. CASE Start
  BY <1>2 DEF Start, FreshNext
<1>3. ASSUME NEW t \in Threads, SetParameterStep(t) \/ EnableStep(t)
      PROVE  FileIsKept'
  <2>1. UNCHANGED <<store, kept, wanted>>
    BY <1>3 DEF SetParameterStep, Mark, Edit, CopyByte, SendBody, LoseBody,
       EnableStep, SendEnable, LoseEnable, Remember, progVars, outVars, ghostVars
  <2>2. pc["interface"] = "leaving" => pc'["interface"] = "leaving"
    BY <1>3 DEF SetParameterStep, Mark, Edit, CopyByte, SendBody, LoseBody,
       Copied, ReturnFromSetParameter, EnableStep, SendEnable, LoseEnable,
       Remember, ReturnFromEnable
  <2>3. QED
    BY <2>1, <2>2
<1>4. CASE Worker \/ OpenPage \/ Elsewhere \/ UNCHANGED effectVars
  <2>1. UNCHANGED <<store, kept, wanted>>
    BY <1>4 DEF Worker, Open, BeginApply, ApplyParameter, ApplyEnable, EndApply,
       Close, OpenPage, Elsewhere, effectVars, progVars, outVars, ghostVars
  <2>2. pc["interface"] = "leaving" => pc'["interface"] = "leaving"
    BY <1>4 DEF Worker, Open, BeginApply, ApplyParameter, ApplyEnable, EndApply,
       Close, OpenPage, Elsewhere, effectVars, callVars, CallSetParameter,
       CallEnable
  <2>3. QED
    BY <2>1, <2>2
<1>5. ASSUME NEW p \in Params, NEW v \in Values \cup {-1, MaxValue + 1},
             SetParameter(p, v)
      PROVE  FileIsKept'
  BY <1>5 DEF SetParameter, CallSetParameter, outVars
<1>6. ASSUME NEW e \in Effects, NEW b \in BOOLEAN, SetEffectEnabled(e, b)
      PROVE  FileIsKept'
  BY <1>6 DEF SetEffectEnabled, CallEnable, outVars
<1>7. QED
  BY <1>1, <1>2, <1>3, <1>4, <1>5, <1>6
     DEF EffectsNext, User, Restart, Kill

\* What nobody edits, and no connect begins to apply, is held as it was.
LEMMA LeftHeld ==
  ASSUME WantedIsHeld, UNCHANGED <<wanted, bodies>>,
         toApply' = toApply, touched \subseteq touched',
         pc'["worker"] = pc["worker"], param'["worker"] = param["worker"],
         value'["worker"] = value["worker"]
  PROVE  WantedIsHeld'
  BY DEF WantedIsHeld, Applied

LEMMA InterfaceLeavesHeld ==
  ASSUME ChosenInv, WantedIsHeld,
         SetParameterStep("interface") \/ EnableStep("interface")
  PROVE  WantedIsHeld'
<1> USE DEF ChosenInv, EffectsTypeOK, progVars, ghostVars, Threads
<1>1. /\ UNCHANGED <<wanted, toApply>> /\ touched \subseteq touched'
      /\ pc'["worker"] = pc["worker"] /\ param'["worker"] = param["worker"]
      /\ value'["worker"] = value["worker"]
  BY DEF SetParameterStep, Mark, Edit, CopyByte, SendBody, LoseBody,
     ReturnFromSetParameter, EnableStep, SendEnable, LoseEnable, Remember,
     ReturnFromEnable
<1>2. \A p \in Params : bodies'[p] = bodies[p] \/ p \in touched'
  BY DEF SetParameterStep, Mark, Edit, CopyByte, SendBody, LoseBody,
     EnableStep, SendEnable, LoseEnable, Remember
<1>3. QED
  BY <1>1, <1>2 DEF WantedIsHeld, Applied

LEMMA WorkerCallLeavesHeld ==
  ASSUME ChosenInv, WantedIsHeld,
         SetParameterStep("worker") \/ EnableStep("worker")
  PROVE  WantedIsHeld'
<1> USE DEF ChosenInv, EffectsTypeOK, progVars, ghostVars, Threads, ParamPc,
     EnablePc
<1>1. UNCHANGED <<wanted, toApply, touched>>
  BY DEF SetParameterStep, Mark, Edit, CopyByte, SendBody, LoseBody,
     ReturnFromSetParameter, EnableStep, SendEnable, LoseEnable, Remember
<1>2. CASE Edit("worker")
  <2>1. /\ pc["worker"] = "edit" /\ pc'["worker"] = "copy"
        /\ param' = param /\ value' = value
        /\ bodies' = [bodies EXCEPT ![param["worker"]] = value["worker"]]
    BY <1>2 DEF Edit
  <2>2. QED
    BY <1>1, <2>1 DEF WantedIsHeld, Applied
<1>3. CASE Mark("worker") \/ \E q \in Params : CopyByte("worker", q)
  <2>1. /\ UNCHANGED <<bodies, param, value>>
        /\ \/ pc["worker"] = "mark" /\ pc'["worker"] = "edit"
           \/ pc["worker"] = "copy" /\ pc'["worker"] = "copy"
    BY <1>3 DEF Mark, CopyByte
  <2>2. QED
    BY <1>1, <2>1 DEF WantedIsHeld, Applied
<1>4. CASE SendBody("worker") \/ LoseBody("worker") \/ EnableStep("worker")
  <2>1. /\ bodies' = bodies /\ Applied
        /\ pc["worker"] \notin {"mark", "edit"}
        /\ pc'["worker"] \notin ParamPc
    BY <1>4 DEF SendBody, LoseBody, Copied, ReturnFromSetParameter, Returned,
       EnableStep, SendEnable, LoseEnable, Remember, ReturnFromEnable, Applied
  <2>2. QED
    BY <1>1, <2>1 DEF WantedIsHeld
<1>5. QED
  BY <1>2, <1>3, <1>4 DEF SetParameterStep

LEMMA ApplyParameterLeavesHeld ==
  ASSUME ChosenInv, WantedIsHeld, NEW x \in Params, ApplyParameter(x)
  PROVE  WantedIsHeld'
<1> USE DEF ChosenInv, EffectsTypeOK, progVars, Threads
<1>1. /\ pc["worker"] = "apply" /\ pc'["worker"] = "mark"
      /\ param'["worker"] = x /\ value'["worker"] = Clamped(wanted[x])
      /\ UNCHANGED <<wanted, bodies, touched>>
      /\ x \in toApply /\ toApply' = toApply \ {x}
  BY DEF ApplyParameter, CallSetParameter
<1>2. wanted[x] \in Values
  BY <1>1 DEF StoredWasChosen, Choices
<1>3. Clamped(wanted[x]) = wanted[x]
  BY <1>2, EffectsAssumption DEF Clamped, Values
<1>4. QED
  BY <1>1, <1>2, <1>3, Names DEF WantedIsHeld, Applied

LEMMA NextWantedIsHeld ==
  ASSUME ChosenInv, WantedIsHeld, [EffectsNext]_effectVars
  PROVE  WantedIsHeld'
<1> USE DEF ChosenInv, EffectsTypeOK, progVars, ghostVars, Threads
<1>1. ASSUME NEW t \in Threads, SetParameterStep(t) \/ EnableStep(t)
      PROVE  WantedIsHeld'
  BY <1>1, InterfaceLeavesHeld, WorkerCallLeavesHeld
<1>2. ASSUME NEW p \in Params, ApplyParameter(p) PROVE WantedIsHeld'
  BY <1>2, ApplyParameterLeavesHeld
<1>3. ASSUME NEW e \in Effects, ApplyEnable(e) PROVE WantedIsHeld'
  <2>1. /\ UNCHANGED <<wanted, bodies, touched>>
        /\ toApply' = toApply \ {e} /\ e \notin Params
        /\ pc["worker"] = "apply" /\ pc'["worker"] = "sendEnable"
    BY <1>3, Names DEF ApplyEnable, CallEnable
  <2>2. QED
    BY <2>1 DEF WantedIsHeld, Applied, ParamPc
<1>4. CASE EndApply
  BY <1>4 DEF EndApply, WantedIsHeld, Applied, ParamPc
<1>5. CASE BeginApply
  BY <1>5 DEF BeginApply, WantedIsHeld, ParamPc
<1>6. CASE Open \/ Close \/ Start
  BY <1>6 DEF Open, Close, Start, FreshNext, WantedIsHeld, Applied, ParamPc,
     EnablePc
<1>7. CASE \/ OpenPage \/ Leave \/ Elsewhere \/ UNCHANGED effectVars
  BY <1>7, LeftHeld DEF OpenPage, Leave, Elsewhere, effectVars, callVars
<1>8. ASSUME NEW p \in Params, NEW v \in Values \cup {-1, MaxValue + 1},
             SetParameter(p, v)
      PROVE  WantedIsHeld'
  BY <1>8, LeftHeld DEF SetParameter, CallSetParameter
<1>9. ASSUME NEW e \in Effects, NEW b \in BOOLEAN, SetEffectEnabled(e, b)
      PROVE  WantedIsHeld'
  BY <1>9, LeftHeld DEF SetEffectEnabled, CallEnable
<1>10. QED
  BY <1>1, <1>2, <1>3, <1>4, <1>5, <1>6, <1>7, <1>8, <1>9
     DEF EffectsNext, Worker, User, Restart, Kill

-----------------------------------------------------------------------------
(* What is marked as chosen is in the cache.                               *)

\* What nobody marks or edits stays marked and held.
LEMMA LeftMarked ==
  ASSUME MarkedIsHeld, UNCHANGED <<chosen, bodies, wanted, touched>>,
         \A t \in Threads :
           pc[t] = "edit" \/ pc'[t] = "edit" =>
             pc'[t] = pc[t] /\ param'[t] = param[t]
  PROVE  MarkedIsHeld'
  BY DEF MarkedIsHeld

LEMMA NextMarkedIsHeld ==
  ASSUME ChosenInv, WantedIsHeld, MarkedIsHeld, [EffectsNext]_effectVars
  PROVE  MarkedIsHeld'
<1> USE DEF ChosenInv, EffectsTypeOK, progVars, ghostVars
<1>1. ASSUME NEW t \in Threads, Mark(t) PROVE MarkedIsHeld'
  <2>1. /\ chosen' = chosen \cup {param[t]} /\ pc' = [pc EXCEPT ![t] = "edit"]
        /\ UNCHANGED <<bodies, wanted, param, touched>>
        /\ pc[t] = "mark"
    BY <1>1 DEF Mark
  <2>2. QED
    BY <2>1 DEF MarkedIsHeld
<1>2. ASSUME NEW t \in Threads, Edit(t) PROVE MarkedIsHeld'
  <2>1. /\ bodies' = [bodies EXCEPT ![param[t]] = value[t]]
        /\ touched' = IF t = "interface" THEN touched \cup {param[t]} ELSE touched
        /\ pc[t] = "edit" /\ pc' = [pc EXCEPT ![t] = "copy"]
        /\ UNCHANGED <<chosen, wanted, param>>
    BY <1>2 DEF Edit
  <2>2. t # "interface" => value[t] = wanted[param[t]]
    BY <2>1 DEF WantedIsHeld, ParamPc, Threads
  <2>3. param[t] \in Params
    BY <2>1 DEF SentWasChosen, ParamPc
  <2>4. QED
    BY <2>1, <2>2, <2>3 DEF MarkedIsHeld
<1>3. ASSUME NEW t \in Threads,
             \/ \E q \in Params : CopyByte(t, q)
             \/ SendBody(t) \/ LoseBody(t) \/ EnableStep(t)
      PROVE  MarkedIsHeld'
  <2>1. UNCHANGED <<chosen, bodies, wanted, touched>>
    BY <1>3 DEF CopyByte, SendBody, LoseBody, EnableStep, SendEnable,
       LoseEnable, Remember
  <2>2. \A u \in Threads : pc[u] = "edit" \/ pc'[u] = "edit" =>
          pc'[u] = pc[u] /\ param'[u] = param[u]
    BY <1>3 DEF CopyByte, SendBody, LoseBody, Copied, ReturnFromSetParameter,
       Returned, EnableStep, SendEnable, LoseEnable, Remember, ReturnFromEnable
  <2>3. QED
    BY <2>1, <2>2, LeftMarked
<1>4. CASE Worker \/ OpenPage \/ Leave \/ Elsewhere \/ UNCHANGED effectVars
  <2>1. UNCHANGED <<chosen, bodies, wanted, touched>>
    BY <1>4 DEF Worker, Open, BeginApply, ApplyParameter, ApplyEnable, EndApply,
       Close, OpenPage, Leave, Elsewhere, effectVars
  <2>2. \A u \in Threads : pc[u] = "edit" \/ pc'[u] = "edit" =>
          pc'[u] = pc[u] /\ param'[u] = param[u]
    BY <1>4 DEF Worker, Open, BeginApply, ApplyParameter, ApplyEnable, EndApply,
       Close, OpenPage, Leave, Elsewhere, effectVars, callVars, CallSetParameter,
       CallEnable
  <2>3. QED
    BY <2>1, <2>2, LeftMarked
<1>5. ASSUME NEW p \in Params, NEW v \in Values \cup {-1, MaxValue + 1},
             SetParameter(p, v)
      PROVE  MarkedIsHeld'
  BY <1>5, LeftMarked DEF SetParameter, CallSetParameter
<1>6. ASSUME NEW e \in Effects, NEW b \in BOOLEAN, SetEffectEnabled(e, b)
      PROVE  MarkedIsHeld'
  BY <1>6, LeftMarked DEF SetEffectEnabled, CallEnable
<1>7. CASE Start
  BY <1>7 DEF Start, FreshNext, MarkedIsHeld, Threads
<1>8. QED
  BY <1>1, <1>2, <1>3, <1>4, <1>5, <1>6, <1>7
     DEF EffectsNext, SetParameterStep, User, Restart, Kill

-----------------------------------------------------------------------------

LEMMA InitEffects == EffectsInit => EffectsInv
<1> SUFFICES ASSUME EffectsInit PROVE EffectsInv
  OBVIOUS
<1>1. ChosenInv /\ Placed
  BY InitChosen, InitPlaced
<1>2. /\ pc["worker"] = "down" /\ pc["interface"] = "opening"
      /\ sure = {} /\ wanted = store.params /\ kept = store.params
      /\ chosen = {} /\ touched = {}
  BY DEF EffectsInit, Fresh
<1>3. /\ BodyIsOnTheDeck /\ HeldOpen /\ MeetingsAreMarked /\ CopiesAreTrue
      /\ FileIsKept /\ MarkedIsHeld
  BY <1>2 DEF BodyIsOnTheDeck, HeldOpen, MeetingsAreMarked, Busy, ParamPc,
     EnablePc, CopiesAreTrue, FileIsKept, MarkedIsHeld, Threads
<1>4. EnablesComeLast /\ EnablesAreTrue /\ WantedIsHeld
  BY <1>2 DEF EnablesComeLast, EnablesAreTrue, WantedIsHeld, Applied, Sending,
     ParamPc, EnablePc
<1>5. QED
  BY <1>1, <1>3, <1>4 DEF EffectsInv

LEMMA StepEffects == EffectsInv /\ [EffectsNext]_effectVars => EffectsInv'
  BY StepKeepsChosen, NextPlaced, NextHeldOpen, NextMeetings, NextCopies,
     NextOnTheDeck, NextEnablesComeLast, NextEnablesAreTrue, NextFileIsKept,
     NextWantedIsHeld, NextMarkedIsHeld DEF EffectsInv

\* In every state of the chain, whoever is in a call with whom: a copy that met
\* nobody is what the cache holds, the enables wait for the parameters, and the
\* file and the cache have what was chosen.
THEOREM EffectsInvariant == EffectsSpec => []EffectsInv
  BY InitEffects, StepEffects, PTL DEF EffectsSpec

\* However the two threads edit and copy the bodies under one another's hands:
\* the deck has all of a body whose last call was alone and landed.
THEOREM BodiesAreOnTheDeck == EffectsSpec => []BodyIsOnTheDeck
<1>1. EffectsInv => BodyIsOnTheDeck
  BY DEF EffectsInv
<1>2. QED
  BY <1>1, EffectsInvariant, PTL

\* The enables have the final word: no body a connect writes, and no order of
\* the two threads' steps, leaves an effect on that is remembered as off.
THEOREM FinalWord == EffectsSpec => []EnablesHaveTheFinalWord
<1>1. EffectsInv => EnablesHaveTheFinalWord
  <2> SUFFICES ASSUME EffectsInv, pc["worker"] = "session", NEW e \in Effects
               PROVE  on[e] = enabled[e] \/ e \in waived \/ Busy("interface", e)
    BY DEF EnablesHaveTheFinalWord
  <2>1. Applied /\ ~Sending(e) /\ e \notin toApply
    BY DEF EffectsInv, EnablesComeLast, Applied, Sending
  <2>2. Remembering(e) => Busy("interface", e)
    BY DEF Remembering, Busy, EnablePc
  <2>3. QED
    BY <2>1, <2>2 DEF EffectsInv, EnablesAreTrue
<1>2. QED
  BY <1>1, EffectsInvariant, PTL

\* The next run starts where the last one ended, through any number of runs
\* that were left or killed in between.
THEOREM NextRunStarts == EffectsSpec => []NextRunStartsWhereLastEnded
<1>1. EffectsInv => NextRunStartsWhereLastEnded
  <2> SUFFICES ASSUME EffectsInv, pc["worker"] = "session",
                      pc["interface"] # "leaving", NEW p \in Params,
                      kept[p] # Unset, p \notin touched, CommandOf(p) \in sure,
                      ~Busy("interface", CommandOf(p))
               PROVE  chain[p] = kept[p]
    BY DEF NextRunStartsWhereLastEnded
  <2>1. ~Busy("worker", CommandOf(p))
    BY DEF Busy, ParamPc, EnablePc
  <2>2. chain[p] = bodies[p]
    BY <2>1 DEF EffectsInv, BodyIsOnTheDeck, Body, Threads
  <2>3. wanted[p] = kept[p]
    BY DEF EffectsInv, FileIsKept
  <2>4. bodies[p] = wanted[p]
    BY <2>3 DEF EffectsInv, WantedIsHeld, EnablesComeLast, Applied
  <2>5. QED
    BY <2>2, <2>3, <2>4
<1>2. QED
  BY <1>1, EffectsInvariant, PTL
=============================================================================
