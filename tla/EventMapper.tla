----------------------------- MODULE EventMapper -----------------------------
(***************************************************************************)
(* AnalyticsImplementation::EventMapper: the events map file renames       *)
(* events by their name, source and, optionally, the versions of either.   *)
(* A parsed entry is a function from the labels it has to strings.         *)
(***************************************************************************)
EXTENDS Naturals, Sequences, SequencesExt, TLC

Required == {"event_name", "event_source", "mapped_event_name"}

\* The key of an entry; an optional label that is missing counts as "".
EntryKey(e) ==
  LET Get(label) == IF label \in DOMAIN e THEN e[label] ELSE ""
  IN  <<Get("event_name"), Get("event_source"), Get("event_source_version"), Get("event_version")>>

\* The map: entries that lack a required label are skipped, and a later entry
\* replaces an earlier one with the same key.
FromString(array) ==
  FoldLeft(LAMBDA map, e : (EntryKey(e) :> e["mapped_event_name"]) @@ map,
           <<>>, SelectSeq(array, LAMBDA e : Required \subseteq DOMAIN e))

\* Lookups with ever fewer versions.  (The code leaves out a lookup that would
\* repeat an earlier one because the version is "" already.)
MapEventNameIfNeeded(map, name, source, sourceVersion, version) ==
  LET tries == << <<name, source, sourceVersion, version>>, <<name, source, sourceVersion, "">>,
                  <<name, source, "", version>>, <<name, source, "", "">> >>
      hits  == {i \in DOMAIN tries : tries[i] \in DOMAIN map}
  IN  IF hits = {} THEN name ELSE map[tries[Min(hits)]]

------------------------------------------------------------------------------
(***************************************************************************)
(* What the file means: of the entries that apply to an event, the most    *)
(* specific one, the source's version counting more than the event's, and  *)
(* of several with one key the last.                                       *)
(***************************************************************************)

Applies(e, name, source, sourceVersion, version) ==
  /\ Required \subseteq DOMAIN e
  /\ LET k == EntryKey(e)
     IN  /\ k[1] = name /\ k[2] = source
         /\ k[3] \in {"", sourceVersion} /\ k[4] \in {"", version}

Specificity(e) ==
  LET k == EntryKey(e)
  IN  (IF k[3] # "" THEN 2 ELSE 0) + (IF k[4] # "" THEN 1 ELSE 0)

MeantName(array, name, source, sourceVersion, version) ==
  LET those == {i \in DOMAIN array : Applies(array[i], name, source, sourceVersion, version)}
      best  == {i \in those : \A j \in those : Specificity(array[i]) >= Specificity(array[j])}
  IN  IF those = {} THEN name ELSE array[Max(best)]["mapped_event_name"]

==============================================================================
