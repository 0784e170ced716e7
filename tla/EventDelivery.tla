---------------------------- MODULE EventDelivery ----------------------------
(***************************************************************************)
(* What Analytics promises its callers: an accepted event is passed on at  *)
(* most once, and events of one class are passed on in the order they were *)
(* accepted.  The classes are the events that came with an epoch timestamp *)
(* and those whose epoch timestamp has to be computed; the two may         *)
(* overtake each other, because the second ones wait for the system time.  *)
(***************************************************************************)
EXTENDS Naturals, Sequences

CONSTANTS
  Events,   \* events
  WithEpoch \* those that come with an epoch timestamp

VARIABLES
  pending,  \* accepted events not yet passed on, oldest first
  passedOn  \* the events passed on

SameClass(e, f) == e \in WithEpoch <=> f \in WithEpoch
Without(s, i) == SubSeq(s, 1, i - 1) \o SubSeq(s, i + 1, Len(s))

Init == pending = <<>> /\ passedOn = {}

Accept(e) ==
  /\ e \notin passedOn /\ \A i \in 1 .. Len(pending) : pending[i] # e
  /\ pending' = Append(pending, e)
  /\ UNCHANGED passedOn

\* The oldest of a class is passed on.
PassOn(i) ==
  /\ \A j \in 1 .. i - 1 : ~SameClass(pending[j], pending[i])
  /\ passedOn' = passedOn \cup {pending[i]}
  /\ pending' = Without(pending, i)

Next == (\E e \in Events : Accept(e)) \/ \E i \in 1 .. Len(pending) : PassOn(i)

Spec == Init /\ [][Next]_<<pending, passedOn>>
==============================================================================
