------------------------------- MODULE Panel -------------------------------
(***************************************************************************)
(* The application around the driver: main.cpp's render timer, the frame   *)
(* jobs it hands to the thread pool, and the way main() comes down, over   *)
(* the session (Session) and the frames (Screen) they meet in.             *)
(*                                                                         *)
(* The render timer grabs the panel's window and starts a pool job that    *)
(* encodes the grab and calls DeviceBridge::sendFrame.  A flag, busy, is   *)
(* to keep it to one frame at a time.  main() returns from the event loop  *)
(* when it is told to quit and destroys what it made in reverse order; the *)
(* pool is waited for last of all, when the application object goes.       *)
(***************************************************************************)
EXTENDS Screen

CONSTANTS
  MaxLooks,   \* bound on how often the interface is drawn anew
  MaxMishaps  \* bound on the grabs and encodings that come to nothing

ASSUME PanelAssumption ==
  /\ MaxLooks \in Nat \ {0}
  /\ MaxMishaps \in Nat

VARIABLES
  main,      \* where main() is
  quitRequested,
  busy,      \* a frame is in flight
  job,       \* what each pool thread does with the frame it was given
  carries,   \* the look that frame was grabbed of
  look,      \* how often the interface has been drawn anew
  shown,     \* the last look the deck was given a whole frame of
  whole,     \* the frame on its way has gone through one handle so far
  mishaps,   \* how many grabs and encodings have come to nothing
  strayed    \* what has been used after main() destroyed it

mainVars  == <<main, quitRequested>>
jobVars   == <<busy, job, carries>>
lookVars  == <<look, shown, whole, mishaps>>
panelVars == <<mainVars, jobVars, lookVars, strayed>>
appVars   == <<screenVars, panelVars>>

\* "elsewhere": it is another program that uses the driver, and its threads
\* send frames as they please.  The others are main()'s, in their order.
MainPlaces == {"elsewhere", "exec", "returned", "viewGone", "stopping",
               "bridgeGone", "over"}

PanelInit ==
  /\ ScreenInit
  /\ main \in {"elsewhere", "exec"}
  /\ quitRequested = FALSE
  /\ busy = FALSE
  /\ job = [s \in Senders |-> "none"]
  /\ carries = [s \in Senders |-> 0]
  /\ look = 1 /\ shown = 0
  /\ whole = FALSE
  /\ mishaps = 0
  /\ strayed = {}

Mishap == mishaps < MaxMishaps /\ mishaps' = mishaps + 1

-----------------------------------------------------------------------------
(* The event loop.                                                         *)

Redraw ==
  /\ main = "exec"
  /\ look < MaxLooks
  /\ look' = look + 1
  /\ UNCHANGED <<screenVars, mainVars, jobVars, shown, whole, mishaps, strayed>>

\* Mutant: the timer starts a frame whether or not one is on its way.
EitherWay == TRUE

\* busy->exchange(true)
NoneInFlight == ~busy

\* Mutant: a grab that failed keeps the flag.
KeptByNull == TRUE

\* What busy is after a grab that came back null.
AfterNull == FALSE

\* The pool's threads are all alike, and it does not matter which gets the job.
Idle == {s \in Senders : job[s] = "none"}
IdleThread == CHOOSE s \in Idle : TRUE

\* One shot of the render timer on a connected deck that does not find a frame
\* in flight: the window is grabbed, and a pool thread given the image.
TimerFires ==
  /\ main = "exec"
  /\ state = "Connected"
  /\ NoneInFlight
  /\ \/ /\ Mishap
        /\ busy' = AfterNull
        /\ UNCHANGED <<job, carries>>
     \/ /\ Idle # {}
        /\ job' = [job EXCEPT ![IdleThread] = "encode"]
        /\ carries' = [carries EXCEPT ![IdleThread] = look]
        /\ busy' = TRUE
        /\ UNCHANGED mishaps
  /\ UNCHANGED <<screenVars, mainVars, look, shown, whole, strayed>>

\* onTerminationSignal; one that comes later finds the program on its way out.
Signal ==
  /\ main = "exec"
  /\ quitRequested' = TRUE
  /\ UNCHANGED <<screenVars, main, jobVars, lookVars, strayed>>

MainGoes(from, to) == main = from /\ main' = to

\* Mutant: nobody looks at the flag the signal sets.
NobodyLooks == main = "exec" /\ quitRequested /\ FALSE

\* quitPoll finds the flag.
AskedToQuit == main = "exec" /\ quitRequested

QuitPoll ==
  /\ AskedToQuit
  /\ main' = "returned"
  /\ UNCHANGED <<screenVars, quitRequested, jobVars, lookVars, strayed>>

\* The last window is closed.
WindowCloses ==
  /\ MainGoes("exec", "returned")
  /\ UNCHANGED <<screenVars, quitRequested, jobVars, lookVars, strayed>>

-----------------------------------------------------------------------------
(* A frame job, on a pool thread.                                          *)

\* The image is encoded and sendFrame called.  An encoder that fails leaves an
\* empty frame; an image that could not be resized is refused by sendFrame.
Encode(s) ==
  /\ job[s] = "encode"
  /\ main # "bridgeGone"
  /\ \/ /\ Call(s)
        /\ IF size'[s] = 0 THEN Mishap ELSE UNCHANGED mishaps
        /\ job' = [job EXCEPT ![s] = "send"]
     \/ /\ Mishap
        /\ job' = [job EXCEPT ![s] = "clear"]
        /\ UNCHANGED screenVars
  /\ UNCHANGED <<mainVars, busy, carries, look, shown, whole, strayed>>

\* A step inside sendScreen.  The deck has the look once it has taken the last
\* chunk of a frame that began in the connection it ends in.
SendStep(s) ==
  /\ job[s] = "send"
  /\ main # "bridgeGone"
  /\ Send(s)
  /\ job' = [job EXCEPT ![s] = IF place'[s] = "idle" THEN "clear" ELSE @]
  /\ LET landed == sent'[s] > sent[s] IN
       /\ whole' = (whole \/ (landed /\ sent[s] = 0))
       /\ shown' = IF landed /\ whole' /\ sent'[s] = size[s]
                     THEN carries[s] ELSE shown
  /\ UNCHANGED <<mainVars, busy, carries, look, mishaps, strayed>>

\* busy->store(false), the job's last act; the flag is the job's own share.
Clear(s) ==
  /\ job[s] = "clear"
  /\ busy' = FALSE
  /\ job' = [job EXCEPT ![s] = "none"]
  /\ carries' = [carries EXCEPT ![s] = 0]
  /\ UNCHANGED <<screenVars, mainVars, lookVars, strayed>>

\* The bridge the job still has a pointer to is gone.
StrayJob(s) ==
  /\ job[s] \in {"encode", "send"}
  /\ main = "bridgeGone"
  /\ strayed' = strayed \cup {"bridge"}
  /\ job' = [job EXCEPT ![s] = "clear"]
  /\ IF place[s] = "idle"
       THEN UNCHANGED frameVars
       ELSE /\ Return(s)
            /\ cut' = (cut \/ sent[s] \in 1 .. size[s] - 1)
            /\ UNCHANGED last
  /\ UNCHANGED <<sessionVars, mainVars, busy, carries, lookVars>>

JobStep(s) == Encode(s) \/ SendStep(s) \/ Clear(s) \/ StrayJob(s)

-----------------------------------------------------------------------------
(* main() after the event loop: renderTimer and view go first, the engine, *)
(* the quit timer and the settings with them; then the bridge, whose       *)
(* destructor stops the worker; the application, and its pool, last.       *)

ViewGoes ==
  /\ MainGoes("returned", "viewGone")
  /\ UNCHANGED <<screenVars, quitRequested, jobVars, lookVars, strayed>>

BridgeStops ==
  /\ MainGoes("viewGone", "stopping")
  /\ Stop
  /\ UNCHANGED <<frameVars, quitRequested, jobVars, lookVars, strayed>>

BridgeGoes ==
  /\ MainGoes("stopping", "bridgeGone")
  /\ at = "gone"
  /\ UNCHANGED <<screenVars, quitRequested, jobVars, lookVars, strayed>>

PoolIsWaitedFor ==
  /\ MainGoes("bridgeGone", "over")
  /\ \A s \in Senders : job[s] = "none"
  /\ UNCHANGED <<screenVars, quitRequested, jobVars, lookVars, strayed>>

Unwind == ViewGoes \/ BridgeStops \/ BridgeGoes \/ PoolIsWaitedFor

-----------------------------------------------------------------------------
(* The worker and the cable, as in Screen.                                 *)

\* The worker may be told of a touch when it polls, and posts it to the view
\* from its own thread, whether or not there still is one.
Polled ==
  \/ UNCHANGED strayed
  \/ /\ at = "poll" /\ at' = "loop"
     /\ main \in {"viewGone", "stopping"}
     /\ strayed' = strayed \cup {"view"}

DriveApp ==
  /\ main # "elsewhere"
  /\ Drive
  /\ Polled
  /\ whole' = (whole /\ handle' = handle)
  /\ UNCHANGED <<mainVars, jobVars, look, shown, mishaps>>

AroundApp ==
  /\ main # "elsewhere"
  /\ Around
  /\ running' = running
  /\ whole' = (whole /\ handle' = handle)
  /\ UNCHANGED <<mainVars, jobVars, look, shown, mishaps, strayed>>

Elsewhere ==
  /\ main = "elsewhere"
  /\ ScreenNext
  /\ UNCHANGED panelVars

AppStep ==
  \/ Redraw \/ TimerFires \/ Signal \/ QuitPoll \/ WindowCloses \/ Unwind
  \/ \E s \in Senders : JobStep(s)
  \/ DriveApp \/ AroundApp

PanelNext == Elsewhere \/ AppStep

PanelSpec == PanelInit /\ [][PanelNext]_appVars

\* The event loop serves each of its timers, the pool and the worker run on,
\* and main() comes down once it has started to.  So do the threads of another
\* program.  Who gets a free mutex is not assumed.
PanelFairSpec ==
  /\ PanelSpec
  /\ WF_appVars(TimerFires)
  /\ WF_appVars(QuitPoll)
  /\ WF_appVars(Unwind)
  /\ WF_appVars(DriveApp)
  /\ WF_appVars(main = "elsewhere" /\ Drive /\ UNCHANGED panelVars)
  /\ \A s \in Senders : /\ WF_appVars(JobStep(s))
                        /\ WF_appVars(main = "elsewhere" /\ Send(s) /\ UNCHANGED panelVars)

-----------------------------------------------------------------------------
(* Properties.                                                             *)

Flying == {s \in Senders : job[s] # "none"}

\* "One frame in flight at a time" (main.cpp:319): the flag is set exactly
\* while a job has a frame, no second job is given one, and a thread is inside
\* sendScreen exactly while its job is.
PanelInv ==
  /\ FrameInv
  /\ main \in MainPlaces
  /\ job \in [Senders -> {"none", "encode", "send", "clear"}]
  /\ look \in 1 .. MaxLooks /\ shown \in 0 .. look
  /\ carries \in [Senders -> 0 .. look]
  /\ mishaps \in 0 .. MaxMishaps
  /\ strayed \subseteq {"view", "bridge"}
  /\ {quitRequested, busy, whole} \subseteq BOOLEAN
  /\ busy <=> Flying # {}
  /\ \A s, t \in Flying : s = t
  /\ \A s \in Senders : job[s] = "none" <=> carries[s] = 0
  /\ main # "elsewhere" =>
       \A s \in Senders : job[s] = "send" <=> place[s] # "idle"

\* The look on its way, if one is.
OnItsWay == IF Flying = {} THEN 0 ELSE carries[CHOOSE s \in Flying : TRUE]

view == INSTANCE LiveView WITH look <- look, frame <- OnItsWay, shown <- shown

\* The panel is a live view: one frame at a time, shown in the order grabbed,
\* and never one that another has overtaken.
ShowsALiveView == view!ViewSpec

\* The last look is not lost with the grabs that were dropped: with the deck
\* connected for good and the interface at rest, the panel comes to show it.
LastLookIsShown ==
  <>[](main = "exec" /\ state = "Connected" /\ handle = "live")
    => <>[](shown = look)

\* A signal ends the program, whatever the worker and the frame are in the
\* middle of, and nothing waits on anything for ever.
ProgramEnds == quitRequested ~> main = "over"

=============================================================================
