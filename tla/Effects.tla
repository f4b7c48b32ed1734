------------------------------ MODULE Effects ------------------------------
(***************************************************************************)
(* The effects chain of the microphone.  The deck takes framed commands    *)
(* for it and answers nothing, so the driver edits cached bodies: a        *)
(* parameter is set by editing its byte and sending the whole body it is   *)
(* in.  What somebody chose is stored when the program ends, loaded when   *)
(* it starts, and put on the deck by every connect.                        *)
(*                                                                         *)
(* The interface's thread and the worker run Device::setParameter over one *)
(* cache, and _writeMutex is held for the transfer alone.  A step is an    *)
(* access to the cache or a transfer; a body is copied byte by byte, so    *)
(* that a copy may meet an edit half-way.                                  *)
(***************************************************************************)
EXTENDS Integers, FiniteSets

CONSTANTS
  Params,    \* the parameters of this instance
  Effects,   \* the enables of this instance
  MaxValue,  \* the top of a parameter's range, whose bottom is 0
  Default,   \* what a body of FramedDefaults has where a parameter sits
  MaxSets,   \* bound: what the user changes in one run of the program
  MaxRuns    \* bound: how often the program is started

AllParams == {"ReverbLevel", "ReverbDecay", "ReverbDamp", "ReverbDiffusion",
              "ReverbRoomSize", "CompressorThreshold", "CompressorRatio"}
AllEffects == {"DelayEffect", "Compressor", "EqualiserA", "EqualiserB",
               "EqualiserC"}

Values == 0 .. MaxValue

ASSUME EffectsAssumption ==
  /\ Params \subseteq AllParams
  /\ Effects \subseteq AllEffects
  /\ MaxValue \in Nat
  /\ Default \in Values
  /\ MaxSets \in Nat
  /\ MaxRuns \in Nat \ {0}

Commands == {"DelayParameters", "CompressorParameters"}

\* ParameterInfo::command: the body a parameter is a byte of.
CommandOf(p) == IF p \in {"CompressorThreshold", "CompressorRatio"}
                  THEN "CompressorParameters" ELSE "DelayParameters"

Body(c) == {p \in Params : CommandOf(p) = c}

\* std::clamp, for a range that begins at 0.
Clamped(v) ==
  IF v < 0 THEN 0 ELSE IF v > MaxValue THEN MaxValue ELSE v

Unset    == -1      \* std::nullopt
Choices  == Values \cup {Unset}
Threads  == {"worker", "interface"}
AnyParam == CHOOSE p \in AllParams : TRUE
AnyEffect == CHOOSE e \in AllEffects : TRUE

VARIABLES
  chain,      \* the deck: the byte of each parameter
  on,         \* the deck: the effects that are on
  isOpen,     \* the transport's handle
  bodies,     \* Device::_framedBodies, where the parameters sit
  chosen,     \* Device::_parameterChosen
  enabled,    \* Device::_effectState.enabled
  wanted,     \* Device::_effectState.parameters
  store,      \* the settings file: its effects
  shown,      \* what the sliders of EffectsView stand at
  pc,         \* where each thread is
  param,      \* the parameter of each thread's setParameter
  value,      \* and its clamped value
  copy,       \* the bytes of the payload each thread has copied
  effect,     \* the enable each thread sends
  flag,       \* and its value
  toApply,    \* what applyEffectState has not come to yet
  sets,       \* what the user has changed in this run of the program
  runs        \* how often the program was started

\* What happened, for the properties.
VARIABLES
  touched,    \* the parameters set by hand in this run of the program
  kept,       \* what was chosen of each when the program was last left
  imposed,    \* the bodies this run of the program has got onto the deck
  crowded,    \* commands that two threads were in at once
  sure,       \* bodies whose last call was alone and landed
  waived      \* enables the last connect did not set, or another has set too

deckVars   == <<chain, on, isOpen>>
progVars   == <<bodies, chosen, enabled, wanted, sets, runs>>
callVars   == <<pc, param, value, copy, effect, flag, toApply>>
ghostVars  == <<touched, kept, imposed, crowded, sure, waived>>
outVars    == <<store, shown>>
effectVars == <<deckVars, progVars, callVars, outVars, ghostVars>>

ParamPc  == {"mark", "edit", "copy"}
EnablePc == {"sendEnable", "remember"}
Pcs == [worker    |-> {"down", "handshake", "apply", "session"} \cup ParamPc \cup EnablePc,
        interface |-> {"opening", "idle", "leaving"} \cup ParamPc \cup EnablePc]

NoCopy == [p \in Params |-> Unset]

\* Type correctness: what is cached, chosen or stored is in a parameter's
\* range, whatever was asked for.
EffectsTypeOK ==
  /\ chain \in [Params -> Values]
  /\ bodies \in [Params -> Values]
  /\ shown \in [Params -> Values]
  /\ on \in [Effects -> BOOLEAN]
  /\ enabled \in [Effects -> BOOLEAN]
  /\ isOpen \in BOOLEAN
  /\ chosen \in SUBSET Params
  /\ wanted \in [Params -> Choices]
  /\ store \in [params : [Params -> Choices], enabled : [Effects -> BOOLEAN]]
  /\ pc \in [Threads -> Pcs["worker"] \cup Pcs["interface"]]
  /\ param \in [Threads -> AllParams]
  /\ value \in [Threads -> Values]
  /\ copy \in [Threads -> [Params -> Choices]]
  /\ effect \in [Threads -> AllEffects]
  /\ flag \in [Threads -> BOOLEAN]
  /\ toApply \in SUBSET (Params \cup Effects)
  /\ sets \in 0 .. MaxSets
  /\ runs \in 0 .. MaxRuns
  /\ touched \in SUBSET Params
  /\ kept \in [Params -> Choices]
  /\ imposed \in SUBSET Commands
  /\ crowded \in SUBSET (Commands \cup Effects)
  /\ sure \in SUBSET Commands
  /\ waived \in SUBSET Effects

\* What a new Device starts from, and Settings::effects() hands it.
Fresh(s) ==
  /\ bodies = [p \in Params |-> Default]
  /\ chosen = {}
  /\ enabled = s.enabled
  /\ wanted = s.params
  /\ isOpen = FALSE
  /\ shown = [p \in Params |-> Default]
  /\ pc = [worker |-> "down", interface |-> "opening"]
  /\ param = [t \in Threads |-> AnyParam]
  /\ value = [t \in Threads |-> 0]
  /\ copy = [t \in Threads |-> NoCopy]
  /\ effect = [t \in Threads |-> AnyEffect]
  /\ flag = [t \in Threads |-> FALSE]
  /\ toApply = {}
  /\ sets = 0
  /\ touched = {}
  /\ imposed = {}
  /\ crowded = {}
  /\ sure = {}
  /\ waived = {}

FreshNext(s) ==
  /\ bodies' = [p \in Params |-> Default]
  /\ chosen' = {}
  /\ enabled' = s.enabled
  /\ wanted' = s.params
  /\ isOpen' = FALSE
  /\ shown' = [p \in Params |-> Default]
  /\ pc' = [worker |-> "down", interface |-> "opening"]
  /\ param' = [t \in Threads |-> AnyParam]
  /\ value' = [t \in Threads |-> 0]
  /\ copy' = [t \in Threads |-> NoCopy]
  /\ effect' = [t \in Threads |-> AnyEffect]
  /\ flag' = [t \in Threads |-> FALSE]
  /\ toApply' = {}
  /\ sets' = 0
  /\ touched' = {}
  /\ imposed' = {}
  /\ crowded' = {}
  /\ sure' = {}
  /\ waived' = {}

\* The deck's chain is whatever the last program left; the file holds what an
\* earlier run stored in it, or nothing.
EffectsInit ==
  /\ chain \in [Params -> Values]
  /\ on \in [Effects -> BOOLEAN]
  /\ store \in [params : [Params -> Choices], enabled : [Effects -> BOOLEAN]]
  /\ kept = store.params
  /\ runs = 1
  /\ Fresh(store)

-----------------------------------------------------------------------------
(* setParameter, on either thread.                                         *)

\* t is in a call that sends the command, or the enable, x.
Busy(t, x) ==
  \/ pc[t] \in ParamPc  /\ CommandOf(param[t]) = x
  \/ pc[t] \in EnablePc /\ effect[t] = x

\* t begins a call that sends x, with the other thread in one or not.
Enters(t, x) ==
  crowded' = IF \E u \in Threads \ {t} : Busy(u, x) THEN crowded \cup {x}
                                                    ELSE crowded \ {x}

CallSetParameter(t, p, v) ==
  /\ param' = [param EXCEPT ![t] = p]
  /\ value' = [value EXCEPT ![t] = Clamped(v)]
  /\ pc' = [pc EXCEPT ![t] = "mark"]
  /\ Enters(t, CommandOf(p))
  /\ UNCHANGED <<copy, effect, flag>>

\* _parameterChosen is set first, then the byte.
Mark(t) ==
  /\ pc[t] = "mark"
  /\ chosen' = chosen \cup {param[t]}
  /\ pc' = [pc EXCEPT ![t] = "edit"]
  /\ UNCHANGED <<deckVars, bodies, enabled, wanted, sets, runs, param, value,
                 copy, effect, flag, toApply, outVars, ghostVars>>

Edit(t) ==
  /\ pc[t] = "edit"
  /\ bodies' = [bodies EXCEPT ![param[t]] = value[t]]
  /\ touched' = IF t = "interface" THEN touched \cup {param[t]} ELSE touched
  /\ pc' = [pc EXCEPT ![t] = "copy"]
  /\ UNCHANGED <<deckVars, chosen, enabled, wanted, sets, runs, param, value,
                 copy, effect, flag, toApply, outVars, kept, imposed, crowded,
                 sure, waived>>

\* Mutant: every edit starts from the default body.
CopyDefault(t, q) ==
  /\ pc[t] = "copy"
  /\ q \in Body(CommandOf(param[t]))
  /\ copy[t][q] = Unset
  /\ copy' = [copy EXCEPT ![t][q] = IF q = param[t] THEN bodies[q] ELSE Default]
  /\ UNCHANGED <<deckVars, progVars, pc, param, value, effect, flag, toApply,
                 outVars, ghostVars>>

\* sendFramed copies the body into the payload, outside any lock.
CopyByte(t, q) ==
  /\ pc[t] = "copy"
  /\ q \in Body(CommandOf(param[t]))
  /\ copy[t][q] = Unset
  /\ copy' = [copy EXCEPT ![t][q] = bodies[q]]
  /\ UNCHANGED <<deckVars, progVars, pc, param, value, effect, flag, toApply,
                 outVars, ghostVars>>

Copied(t) ==
  pc[t] = "copy" /\ \A q \in Body(CommandOf(param[t])) : copy[t][q] # Unset

Returned(t) == IF t = "worker" THEN "apply" ELSE "idle"

ReturnFromSetParameter(t) ==
  /\ pc' = [pc EXCEPT ![t] = Returned(t)]
  /\ param' = [param EXCEPT ![t] = AnyParam]
  /\ value' = [value EXCEPT ![t] = 0]
  /\ copy' = [copy EXCEPT ![t] = NoCopy]
  /\ UNCHANGED <<effect, flag, toApply>>

\* The deck takes the body.  The delay effect's carries the byte that says
\* which effect runs, and that may switch it on (Device.cpp:831).  The bridge
\* tells the sliders what the driver then holds.
SendBody(t) ==
  LET c == CommandOf(param[t]) IN
  /\ Copied(t)
  /\ isOpen
  /\ chain' = [q \in Params |-> IF q \in Body(c) THEN copy[t][q] ELSE chain[q]]
  /\ \/ on' = on
     \/ /\ c = "DelayParameters"
        /\ on' = [e \in Effects |-> on[e] \/ e = "DelayEffect"]
  /\ imposed' = imposed \cup {c}
  /\ sure' = IF c \in crowded THEN sure \ {c} ELSE sure \cup {c}
  /\ waived' = IF t = "interface" /\ c = "DelayParameters"
                 THEN waived \cup ({"DelayEffect"} \cap Effects) ELSE waived
  /\ shown' = IF t = "interface"
                THEN [shown EXCEPT ![param[t]] = bodies[param[t]]] ELSE shown
  /\ ReturnFromSetParameter(t)
  /\ UNCHANGED <<isOpen, progVars, store, touched, kept, crowded>>

\* The handle is closed, or the transfer fails: the cache keeps the edit.
LoseBody(t) ==
  /\ Copied(t)
  /\ sure' = sure \ {CommandOf(param[t])}
  /\ ReturnFromSetParameter(t)
  /\ UNCHANGED <<deckVars, progVars, outVars, touched, kept, imposed, crowded,
                 waived>>

SetParameterStep(t) ==
  \/ Mark(t)
  \/ Edit(t)
  \/ \E q \in Params : CopyByte(t, q)
  \/ SendBody(t)
  \/ LoseBody(t)

-----------------------------------------------------------------------------
(* One enable: setEffectEnabled, and the last half of applyEffectState.    *)

CallEnable(t, e, b) ==
  /\ effect' = [effect EXCEPT ![t] = e]
  /\ flag' = [flag EXCEPT ![t] = b]
  /\ pc' = [pc EXCEPT ![t] = "sendEnable"]
  /\ Enters(t, e)
  /\ UNCHANGED <<param, value, copy>>

ReturnFromEnable(t) ==
  /\ pc' = [pc EXCEPT ![t] = Returned(t)]
  /\ effect' = [effect EXCEPT ![t] = AnyEffect]
  /\ flag' = [flag EXCEPT ![t] = FALSE]

\* Only setEffectEnabled has anything to remember afterwards.
SendEnable(t) ==
  /\ pc[t] = "sendEnable"
  /\ isOpen
  /\ on' = [on EXCEPT ![effect[t]] = flag[t]]
  /\ waived' = IF effect[t] \in crowded THEN waived \cup {effect[t]}
                                       ELSE waived \ {effect[t]}
  /\ IF t = "worker"
       THEN ReturnFromEnable(t)
       ELSE pc' = [pc EXCEPT ![t] = "remember"] /\ UNCHANGED <<effect, flag>>
  /\ UNCHANGED <<chain, isOpen, progVars, param, value, copy, toApply, outVars,
                 touched, kept, imposed, crowded, sure>>

\* A connect that could not set an enable leaves what the deck had.
LoseEnable(t) ==
  /\ pc[t] = "sendEnable"
  /\ waived' = IF t = "worker" THEN waived \cup {effect[t]} ELSE waived
  /\ ReturnFromEnable(t)
  /\ UNCHANGED <<deckVars, progVars, param, value, copy, toApply, outVars,
                 touched, kept, imposed, crowded, sure>>

\* _effectState.enabled takes an enable that was sent.
Remember(t) ==
  /\ pc[t] = "remember"
  /\ enabled' = [enabled EXCEPT ![effect[t]] = flag[t]]
  /\ ReturnFromEnable(t)
  /\ UNCHANGED <<deckVars, bodies, chosen, wanted, sets, runs, param, value,
                 copy, toApply, outVars, ghostVars>>

EnableStep(t) == SendEnable(t) \/ LoseEnable(t) \/ Remember(t)

-----------------------------------------------------------------------------
(* The worker: a session, as far as the chain is concerned.                *)

\* connect() opens the deck.  The handshake that follows has nothing about the
\* chain in it (Commands.hpp), but the interface may send something from now on.
Open ==
  /\ pc["worker"] = "down"
  /\ isOpen' = TRUE
  /\ pc' = [pc EXCEPT !["worker"] = "handshake"]
  /\ UNCHANGED <<chain, on, progVars, param, value, copy, effect, flag, toApply,
                 outVars, ghostVars>>

\* The handshake is over; applyEffectState begins.
BeginApply ==
  /\ pc["worker"] = "handshake"
  /\ toApply' = {p \in Params : wanted[p] # Unset} \cup Effects
  /\ pc' = [pc EXCEPT !["worker"] = "apply"]
  /\ waived' = {}
  /\ UNCHANGED <<deckVars, progVars, param, value, copy, effect, flag, outVars,
                 touched, kept, imposed, crowded, sure>>

\* Mutant: enables and parameters in any order.
AnyTime == TRUE

ParametersAreDone == toApply \cap Params = {}

ApplyParameter(p) ==
  /\ pc["worker"] = "apply"
  /\ p \in toApply \cap Params
  /\ toApply' = toApply \ {p}
  /\ CallSetParameter("worker", p, wanted[p])
  /\ UNCHANGED <<deckVars, progVars, outVars, touched, kept, imposed, sure,
                 waived>>

ApplyEnable(e) ==
  /\ pc["worker"] = "apply"
  /\ ParametersAreDone
  /\ e \in toApply \cap Effects
  /\ toApply' = toApply \ {e}
  /\ CallEnable("worker", e, enabled[e])
  /\ UNCHANGED <<deckVars, progVars, outVars, touched, kept, imposed, sure,
                 waived>>

EndApply ==
  /\ pc["worker"] = "apply"
  /\ toApply = {}
  /\ pc' = [pc EXCEPT !["worker"] = "session"]
  /\ UNCHANGED <<deckVars, progVars, param, value, copy, effect, flag, toApply,
                 outVars, ghostVars>>

\* The handshake failed, or the deck is lost or let go: it is closed.
Close ==
  /\ pc["worker"] \in {"handshake", "session"}
  /\ isOpen' = FALSE
  /\ pc' = [pc EXCEPT !["worker"] = "down"]
  /\ UNCHANGED <<chain, on, progVars, param, value, copy, effect, flag, toApply,
                 outVars, ghostVars>>

\* A power cycle, or another program, be the driver's handle open (the probe's
\* --effect, a handle gone stale) or not: the chain is not what it was, and no
\* call of the driver's so far says what it is.
Elsewhere ==
  /\ chain' \in [Params -> Values]
  /\ on' \in [Effects -> BOOLEAN]
  /\ sure' = {}
  /\ waived' = Effects
  /\ UNCHANGED <<isOpen, progVars, callVars, outVars, touched, kept, imposed,
                 crowded>>

Worker ==
  \/ Open
  \/ BeginApply
  \/ \E p \in Params : ApplyParameter(p)
  \/ \E e \in Effects : ApplyEnable(e)
  \/ EndApply
  \/ Close

-----------------------------------------------------------------------------
(* The user, and the program's life.                                       *)

\* The sliders are made: each takes parameterValue() once.  The worker has been
\* started before them (main.cpp:220).
OpenPage ==
  /\ pc["interface"] = "opening"
  /\ shown' = bodies
  /\ pc' = [pc EXCEPT !["interface"] = "idle"]
  /\ UNCHANGED <<deckVars, progVars, param, value, copy, effect, flag, toApply,
                 store, ghostVars>>

\* A slider, or a client of the driver, with values beyond the range too.
SetParameter(p, v) ==
  /\ pc["interface"] = "idle"
  /\ sets < MaxSets
  /\ sets' = sets + 1
  /\ CallSetParameter("interface", p, v)
  /\ UNCHANGED <<deckVars, bodies, chosen, enabled, wanted, runs, toApply,
                 outVars, touched, kept, imposed, sure, waived>>

\* A client of the driver: the interface has no switch for an effect yet.
SetEffectEnabled(e, b) ==
  /\ pc["interface"] = "idle"
  /\ sets < MaxSets
  /\ sets' = sets + 1
  /\ CallEnable("interface", e, b)
  /\ UNCHANGED <<deckVars, bodies, chosen, enabled, wanted, runs, toApply,
                 outVars, touched, kept, imposed, sure, waived>>

\* Mutant: every parameter is reported, its default if nobody chose it.
ReportsAll == bodies

\* Mutant: the parameters are reported as they were given.
ReportsGiven == wanted

\* effectState(): the cache's value of what was chosen.
EffectState == [p \in Params |-> IF p \in chosen THEN bodies[p] ELSE Unset]

\* The worker has marked p as chosen and not yet put the choice in the cache.
CutOff(p) == pc["worker"] = "edit" /\ param["worker"] = p

\* setEffects: a parameter that is not set leaves the file's key alone.  What
\* ought to outlive the program is what was touched, and what there was to keep
\* of the rest; but of one the worker is cut off at, the default is stored.
Leave ==
  /\ pc["interface"] = "idle"
  /\ store' = [params |-> [p \in Params |-> IF EffectState[p] # Unset
                                             THEN EffectState[p]
                                             ELSE store.params[p]],
               enabled |-> enabled]
  /\ kept' = [p \in Params |-> IF p \in touched \/ CutOff(p) THEN bodies[p]
                                                          ELSE kept[p]]
  /\ pc' = [pc EXCEPT !["interface"] = "leaving"]
  /\ UNCHANGED <<deckVars, progVars, param, value, copy, effect, flag, toApply,
                 shown, touched, imposed, crowded, sure, waived>>

\* A new run of the program begins.
Start ==
  /\ runs < MaxRuns
  /\ runs' = runs + 1
  /\ FreshNext(store)
  /\ UNCHANGED <<chain, on, store, kept>>

\* The destructor joins the worker, which finishes a connect it is in.
Restart ==
  /\ pc["interface"] = "leaving"
  /\ pc["worker"] \in {"down", "session"}
  /\ Start

\* The program dies on the spot, and stores nothing.
Kill == Start

User ==
  \/ OpenPage
  \/ \E p \in Params, v \in (Values \cup {-1, MaxValue + 1}) : SetParameter(p, v)
  \/ \E e \in Effects, b \in BOOLEAN : SetEffectEnabled(e, b)
  \/ Leave
  \/ Restart
  \/ Kill

EffectsNext ==
  \/ \E t \in Threads : SetParameterStep(t) \/ EnableStep(t)
  \/ Worker
  \/ User
  \/ Elsewhere

EffectsSpec == EffectsInit /\ [][EffectsNext]_effectVars

-----------------------------------------------------------------------------
(* Properties.                                                             *)

\* With no call under way, the deck has what the driver's cache has of every
\* body whose last call was alone and landed -- all of the body, of which the
\* call was about one byte.
BodyIsOnTheDeck ==
  \A c \in sure :
    (\A t \in Threads : ~Busy(t, c))
      => \A p \in Body(c) : chain[p] = bodies[p]

\* "The enables have the final word" (Device.cpp:833).  In a session an effect
\* is on exactly if the driver remembers it so, whatever the deck came up with
\* and whatever parameters the connect had to write, unless the connect's
\* write was lost or another has been at the effect since.
EnablesHaveTheFinalWord ==
  pc["worker"] = "session" =>
    \A e \in Effects :
      on[e] = enabled[e] \/ e \in waived \/ Busy("interface", e)

\* Somebody has chosen p, now or in a run whose choice was stored.
Chosen(p) == p \in touched \/ kept[p] # Unset

\* A body the driver starts from is a stranger's configuration (Device.hpp:47).
\* None reaches the deck unless somebody has chosen a parameter in it, in this
\* run of the program or in an earlier one that stored it.
NoStrangersChain ==
  \A c \in imposed :
    \E p \in Body(c) : Chosen(p)

\* "so the next run starts where this one ended" (main.cpp:407).  In a session
\* the deck has, of each parameter nobody has touched in this run, what it was
\* given in the last run that touched it and was left, however the runs since
\* have ended and however far their connects came; unless its body was lost or
\* the two threads met over it, or a run was left with the worker cut off at it.
NextRunStartsWhereLastEnded ==
  pc["worker"] = "session" /\ pc["interface"] # "leaving" =>
    \A p \in Params :
      \/ kept[p] = Unset
      \/ p \in touched
      \/ CommandOf(p) \notin sure
      \/ Busy("interface", CommandOf(p))
      \/ chain[p] = kept[p]

\* "Echoed from what the driver actually holds" (DeviceBridge.cpp:271), each
\* value coming "separately through parameterChanged" (DeviceBridge.hpp:110): in
\* a session nobody has touched, the sliders stand at what the driver holds.
SlidersShowTheDriver ==
  pc["worker"] = "session" /\ pc["interface"] = "idle" /\ touched = {}
    => shown = bodies

-----------------------------------------------------------------------------
(* The inductive invariant behind NoStrangersChain.                        *)

\* Nothing is stored, or waiting to be applied, that nobody has chosen.
StoredWasChosen ==
  \A p \in Params :
    /\ store.params[p] # Unset => kept[p] # Unset
    /\ wanted[p] # Unset => kept[p] # Unset
    /\ p \in toApply => wanted[p] # Unset

\* Nothing is marked as chosen that nobody has chosen, or is about to.
MarkedWasChosen ==
  \A p \in chosen :
    Chosen(p) \/ (pc["interface"] = "edit" /\ param["interface"] = p)

\* A body on its way carries a parameter somebody has chosen, once edited.
SentWasChosen ==
  \A t \in Threads :
    /\ pc[t] \in ParamPc => param[t] \in Params
    /\ pc[t] \in EnablePc => effect[t] \in Effects
    /\ pc[t] \in ParamPc /\ t = "worker" => kept[param[t]] # Unset
    /\ pc[t] = "copy" => Chosen(param[t])

ChosenInv ==
  /\ EffectsTypeOK
  /\ StoredWasChosen
  /\ MarkedWasChosen
  /\ SentWasChosen
  /\ NoStrangersChain

-----------------------------------------------------------------------------
(* The inductive invariants behind the other three.                        *)

\* Each thread is in code of its own, and only setEffectEnabled has anything to
\* remember; a payload begins empty.
Placed ==
  /\ pc["worker"] \in Pcs["worker"] \ {"remember"}
  /\ pc["interface"] \in Pcs["interface"]
  /\ \A t \in Threads : pc[t] # "copy" => copy[t] = NoCopy

\* The handle is held for all of a session.
HeldOpen == pc["worker"] # "down" => isOpen

MeetingsAreMarked ==
  \A x \in Commands \cup Effects :
    Busy("worker", x) /\ Busy("interface", x) => x \in crowded

\* What has been copied of a body that nobody else is at is what is held.
CopiesAreTrue ==
  \A t \in Threads :
    pc[t] = "copy" /\ CommandOf(param[t]) \notin crowded =>
      \A q \in Body(CommandOf(param[t])) : copy[t][q] \in {Unset, bodies[q]}

\* From the beginning of applyEffectState to the end of the session.
Applied == pc["worker"] \in {"apply", "session"} \cup ParamPc \cup EnablePc

\* The parameters come first, and a session begins with all of it done.
EnablesComeLast ==
  /\ pc["worker"] = "session" => toApply = {}
  /\ pc["worker"] \in ParamPc => Effects \subseteq toApply
  /\ Applied /\ toApply \cap Params # {} => Effects \subseteq toApply

Remembering(e) == pc["interface"] = "remember" /\ effect["interface"] = e
Sending(e)     == pc["worker"] = "sendEnable" /\ effect["worker"] = e

\* The enable a connect sends is the one remembered, and one that is through
\* is what is remembered or about to be.
EnablesAreTrue ==
  /\ \A e \in Effects : Sending(e) /\ e \notin crowded => flag["worker"] = enabled[e]
  /\ Applied =>
       \A e \in Effects :
         \/ e \in toApply \cup waived
         \/ Sending(e)
         \/ Remembering(e) /\ on[e] = flag["interface"]
         \/ ~Remembering(e) /\ on[e] = enabled[e]

\* The file has what the cache had when the program was left, and this run of
\* the program was started with it.
FileIsKept ==
  /\ store.params = kept
  /\ pc["interface"] # "leaving" => wanted = kept

\* What a connect has applied is held, unless it was touched.
WantedIsHeld ==
  /\ pc["worker"] \in ParamPc =>
       /\ wanted[param["worker"]] # Unset
       /\ value["worker"] = wanted[param["worker"]]
  /\ Applied =>
       \A p \in Params :
         \/ wanted[p] = Unset
         \/ p \in toApply \cup touched
         \/ pc["worker"] \in {"mark", "edit"} /\ param["worker"] = p
         \/ bodies[p] = wanted[p]

\* What is marked as chosen is in the cache, or a thread is about to put it there.
MarkedIsHeld ==
  /\ touched \subseteq chosen
  /\ \A t \in Threads : pc[t] = "edit" => param[t] \in chosen
  /\ \A p \in chosen \ touched :
       \/ bodies[p] = wanted[p]
       \/ \E t \in Threads : pc[t] = "edit" /\ param[t] = p

\* What holds in every state of the effects chain.
EffectsInv ==
  /\ ChosenInv
  /\ BodyIsOnTheDeck
  /\ Placed
  /\ HeldOpen
  /\ MeetingsAreMarked
  /\ CopiesAreTrue
  /\ EnablesComeLast
  /\ EnablesAreTrue
  /\ FileIsKept
  /\ WantedIsHeld
  /\ MarkedIsHeld

=============================================================================
