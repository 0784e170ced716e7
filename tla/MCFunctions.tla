----------------------------- MODULE MCFunctions -----------------------------
(***************************************************************************)
(* The pure functions of Analytics against their reference definitions,    *)
(* over all inputs of a small size.  A state is an input; a step computes. *)
(***************************************************************************)
EXTENDS TimeZone, EventMapper

VARIABLES function, input, output

MCTimes == 1 .. 12

\* Entries for one or two event names, with and without the optional labels,
\* or without a required one.
Entry(name, optional, mapped) ==
  [l \in Required \cup optional |->
     CASE l = "event_name" -> name
       [] l = "event_source" -> "source"
       [] l = "mapped_event_name" -> mapped
       [] OTHER -> "1"]

Entries ==
  {Entry(n, o, m) : n \in {"a", "b"}, m \in {"m", "n"},
                    o \in SUBSET {"event_source_version", "event_version"}}
    \cup {[l \in {"event_name", "mapped_event_name"} |-> "a"]}

Versions == {"", "1", "2"}

Init ==
  /\ output = <<>>
  /\ \/ /\ function = "ParseTimeZone"
        /\ input \in AllZones \X ((Year1970 + 1) .. (Year2038 - 1))
     \/ /\ function = "MapEventNameIfNeeded"
        /\ input \in BoundedSeq(Entries, 3) \X (Versions \ {""}) \X Versions

\* The transitions are looked up only when there are some.
ComputeOffset ==
  /\ function = "ParseTimeZone" /\ output = <<>>
  /\ LET map == PopulateTimeZoneTransitionMap(input[1])
     IN  /\ map # NoEntries
         /\ output' = <<ParseTimeZone(map, input[2])>>
  /\ UNCHANGED <<function, input>>

ComputeName ==
  /\ function = "MapEventNameIfNeeded" /\ output = <<>>
  /\ output' = <<MapEventNameIfNeeded(FromString(input[1]), "a", "source", input[2], input[3])>>
  /\ UNCHANGED <<function, input>>

Next == ComputeOffset \/ ComputeName

Spec == Init /\ [][Next]_<<function, input, output>>

\* From 1971 to 2037, ParseTimeZone finds the offset in force at the current
\* time from the entry that follows it, for every zone that has an entry: on
\* the second of a transition, between two, before the first and after the
\* last, whether or not some transitions were folded into years or dropped.
OffsetIsInForce ==
  function = "ParseTimeZone" /\ output # <<>> =>
    output[1] = OffsetInForce(input[1], input[2])

\* MapEventNameIfNeeded gives an event the name that the events map file means
\* for it, whatever the order of the entries in the file, duplicates and
\* invalid entries included.
NameIsMeant ==
  function = "MapEventNameIfNeeded" /\ output # <<>> =>
    output[1] = MeantName(input[1], "a", "source", input[2], input[3])

==============================================================================
