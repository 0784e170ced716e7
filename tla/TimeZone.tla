------------------------------- MODULE TimeZone -------------------------------
(***************************************************************************)
(* How SystemTime computes the offset of a time zone from the output of    *)
(* "zdump -v", against what the offset in force is.                        *)
(*                                                                         *)
(* For a transition at time T, zdump prints two lines: the last second     *)
(* before it, with the old offset, and T itself, with the new one.  The    *)
(* lines become a map from time to offset, in which ParseTimeZone looks up *)
(* the first entry that is not earlier than the current time.              *)
(***************************************************************************)
EXTENDS Integers, Sequences, FiniteSets, SequencesExt

CONSTANTS
  Times,    \* the time line, 1 .. n
  Year1970, \* times up to here are in 1970 or earlier
  Year2038, \* times from here on are in 2038 or later, Year1970 < Year2038
  Offsets,  \* offsets from UTC
  MaxTransitions \* bound on the transitions of a zone

NoEntries == [t \in {} |-> 0]

\* A zone's transitions are at least two seconds apart.
AllZones ==
  {z \in [first : Offsets,
          transitions : UNION {[1 .. n -> [at : Times \ {1}, offset : Offsets]] : n \in 0 .. MaxTransitions}] :
     /\ \A i, j \in DOMAIN z.transitions : i < j => z.transitions[i].at + 1 < z.transitions[j].at}

\* The offset before transition i.
Before(z, i) == IF i = 1 THEN z.first ELSE z.transitions[i - 1].offset

\* zdump's lines, in the order printed.
zdump(z) ==
  FlattenSeq([i \in DOMAIN z.transitions |->
    << [at |-> z.transitions[i].at - 1, gmtOff |-> Before(z, i)],
       [at |-> z.transitions[i].at,     gmtOff |-> z.transitions[i].offset] >>])

\* Up to 1970 the key is the year and not the time: here, two times a year.
KeyOf(t) == IF t > Year1970 THEN t ELSE (t + 1) \div 2

\* The map: a later line overwrites an earlier one with the same key, and
\* nothing from 2038 on is kept.
PopulateTimeZoneTransitionMap(z) ==
  LET lines == SelectSeq(zdump(z), LAMBDA l : l.at < Year2038)
  IN  FoldLeft(LAMBDA map, l : [t \in DOMAIN map \cup {KeyOf(l.at)} |->
                                  IF t = KeyOf(l.at) THEN l.gmtOff ELSE map[t]],
               NoEntries, lines)

\* Mutant of ParseTimeZone: upper_bound in the place of lower_bound.
ParseTimeZoneUpper(map, t) ==
  LET after == {k \in DOMAIN map : k > t}
  IN  IF after # {} THEN map[CHOOSE k \in after : \A l \in after : k <= l]
                    ELSE map[CHOOSE k \in DOMAIN map : \A l \in DOMAIN map : k >= l]

\* lower_bound, or the last entry when all of them are in the past.
ParseTimeZone(map, t) ==
  LET after == {k \in DOMAIN map : k >= t}
  IN  IF after # {} THEN map[CHOOSE k \in after : \A l \in after : k <= l]
                    ELSE map[CHOOSE k \in DOMAIN map : \A l \in DOMAIN map : k >= l]

------------------------------------------------------------------------------

\* The offset in force at time t: that of the last transition up to t.
OffsetInForce(z, t) ==
  LET past == {i \in DOMAIN z.transitions : z.transitions[i].at <= t}
  IN  IF past = {} THEN z.first ELSE z.transitions[Cardinality(past)].offset

==============================================================================
