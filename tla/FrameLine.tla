----------------------------- MODULE FrameLine -----------------------------
(***************************************************************************)
(* What the deck is promised of the chunks it is sent: one frame at a      *)
(* time.  A chunk goes on with the frame of the chunk before it, or begins *)
(* another frame -- and begins one only after a whole frame, or after one  *)
(* that has been given up.                                                 *)
(***************************************************************************)
EXTENDS Naturals

CONSTANTS Senders, Nobody, Sizes

VARIABLES
  last,   \* the last chunk the deck took
  cut     \* its frame has been given up part-way

\* A chunk is known by its frame's sender and size, and its place in it.
Chunk(s, n, i) == [from |-> s, size |-> n, index |-> i]

\* Nothing has been sent: a frame of no chunks, and that is all of it.
NoChunk == Chunk(Nobody, 0, 0)

\* The last chunk of a frame is the one that carries the final marker.
IsFinal(c) == c.index = c.size

LineInit == last = NoChunk /\ cut = FALSE

Begin(s, n) ==
  /\ IsFinal(last) \/ cut
  /\ last' = Chunk(s, n, 1)
  /\ cut' = FALSE

GoOn ==
  /\ ~IsFinal(last)
  /\ ~cut
  /\ last' = Chunk(last.from, last.size, last.index + 1)
  /\ cut' = FALSE

GiveUp ==
  /\ ~IsFinal(last)
  /\ cut' = TRUE
  /\ last' = last

LineNext == GoOn \/ GiveUp \/ \E s \in Senders, n \in Sizes \ {0} : Begin(s, n)

LineSpec == LineInit /\ [][LineNext]_<<last, cut>>

=============================================================================
