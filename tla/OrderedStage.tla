----------------------------- MODULE OrderedStage -----------------------------
(***************************************************************************)
(* What the rest of the search pipeline relies on when it hands data to a  *)
(* stage whose work is spread over a pool of threads: the stage accepts a  *)
(* bounded number of items and hands them on one at a time, each at most   *)
(* once and in the order in which they were accepted.  The work on an item *)
(* may fail; the item is then never handed on, and behind it the order is  *)
(* no longer promised.  RfiSequencer implements it.                        *)
(***************************************************************************)
EXTENDS Naturals, Sequences

CONSTANT Capacity       \* how many accepted items may be waiting to be handed on

VARIABLES accepted,     \* number of items accepted so far; item n is the n-th
          output,       \* the items handed on, in the order in which this began
          emitting,     \* the last item of output is being handed on now
          failed        \* items the work on which failed

stageVars == <<accepted, output, emitting, failed>>

StageInit ==
    /\ accepted = 0
    /\ output = <<>>
    /\ emitting = FALSE
    /\ failed = {}

\* Items that are still in the stage's hands.
Held == {n \in 1 .. accepted : \A k \in 1 .. Len(output) : output[k] # n} \ failed

\* Accepted items minus those whose handing on is finished; a failed item keeps
\* its place.
Backlog == accepted - (IF emitting THEN Len(output) - 1 ELSE Len(output))

Accept ==
    /\ Backlog < Capacity
    /\ accepted' = accepted + 1
    /\ UNCHANGED <<output, emitting, failed>>

\* The next item in order, or any one behind an item that failed.
StartEmit(n) ==
    /\ ~emitting
    /\ n \in Held
    /\ n = Len(output) + 1 \/ \E m \in failed : m <= Len(output) + 1
    /\ output' = Append(output, n)
    /\ emitting' = TRUE
    /\ UNCHANGED <<accepted, failed>>

EndEmit ==
    /\ emitting
    /\ emitting' = FALSE
    /\ UNCHANGED <<accepted, output, failed>>

FailItem(n) ==
    /\ n \in Held
    /\ failed' = failed \cup {n}
    /\ UNCHANGED <<accepted, output, emitting>>

StageNext ==
    \/ Accept
    \/ \E n \in 1 .. accepted : StartEmit(n) \/ FailItem(n)
    \/ EndEmit

StageSpec == StageInit /\ [][StageNext]_stageVars
===============================================================================
