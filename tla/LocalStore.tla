------------------------------ MODULE LocalStore ------------------------------
(***************************************************************************)
(* LocalStore keeps a backend's events in a database until they are sent.  *)
(* It is used the way the repository's backend (AnalyticsBackendMock) uses *)
(* it: every event is added, then everything that is stored is counted,    *)
(* read, removed and sent in one batch.  Any query may fail, which leaves  *)
(* the events for the batch of a later event, and the process may stop     *)
(* between any two queries and find the database again when it starts.     *)
(* Nobody looks at what the backend's Configure returns: it gets events    *)
(* without a connection, a table or a limit, too.                          *)
(***************************************************************************)
EXTENDS Naturals, Sequences, FiniteSets, SequencesExt

CONSTANTS
  TableLimit, \* TABLE_LIMIT: rows asked for
  MaxEvents,  \* bound on the events
  MaxStops    \* bound on the restarts

VARIABLES
  mDataBaseHandle, \* the connection is there
  table,     \* id |-> entry
  lastId,    \* the highest id ever given: AUTOINCREMENT
  created,   \* the database has the table
  backend,   \* the backend: the query it comes to next, or "down", "idle"
  range,     \* start and count, as GetEntriesCount returned them
  batch,     \* the entries it has read
  added,     \* number of events given to the backend
  accepted,  \* those that AddEntry stored
  taken,     \* the entries that left the table, in the order they were read
  crowded,   \* more than TableLimit entries were there when they were counted
  stops

tableVars == <<table, lastId, accepted, taken>>
vars == <<mDataBaseHandle, created, tableVars, backend, range, batch, added, crowded, stops>>

NoRange == [start |-> 0, count |-> 0]

TypeOK ==
  /\ mDataBaseHandle \in BOOLEAN /\ created \in BOOLEAN /\ crowded \in BOOLEAN
  /\ backend \in {"down", "create", "limit", "idle", "count", "get", "remove", "verify"}
  /\ backend = "down" => ~mDataBaseHandle
  /\ lastId \in Nat /\ DOMAIN table \subseteq 1 .. lastId
  /\ \A i \in DOMAIN table : table[i] \in accepted
  /\ range \in [start : Nat, count : Nat]
  /\ batch \in Seq(accepted) /\ taken \in Seq(accepted)
  /\ added \in 0 .. MaxEvents /\ accepted \subseteq 1 .. added
  /\ stops \in 0 .. MaxStops

Init ==
  /\ mDataBaseHandle = FALSE /\ created = FALSE
  /\ table = <<>> /\ lastId = 0 /\ accepted = {} /\ taken = <<>>
  /\ backend = "down" /\ range = NoRange /\ batch = <<>>
  /\ added = 0 /\ crowded = FALSE /\ stops = 0

------------------------------------------------------------------------------
(***************************************************************************)
(* The database.                                                           *)
(***************************************************************************)

IsConnected == mDataBaseHandle

\* A statement needs the handle, and may fail all the same (the file system is
\* full, an apostrophe in an entry ends the literal too early, ...).
Exec(ok) == ok => IsConnected

\* The ids a query selects, in order.
Rows(ids) ==
  CHOOSE s \in [1 .. Cardinality(ids) -> ids] : \A i, j \in DOMAIN s : i < j => s[i] < s[j]

\* A query that fails leaves the result table empty.
ExecAndGetResults(ok, ids) == IF ok /\ IsConnected THEN Rows(ids) ELSE <<>>

\* Mutant of buildGetEventsQuery: the entry at start is not selected.
buildQueryAfterStart(start, count) ==
  IF start = 0
  THEN {i \in DOMAIN table : \A j \in DOMAIN table : i + count > j}
  ELSE {i \in DOMAIN table : i > start /\ Cardinality({j \in DOMAIN table : start <= j /\ j < i}) < count}

\* With a start, up to count entries from there; without, those whose ids are
\* among the last count ids up to the highest.
buildGetEventsQuery(start, count) ==
  IF start = 0
  THEN {i \in DOMAIN table : \A j \in DOMAIN table : i + count > j}
  ELSE {i \in DOMAIN table : i >= start /\ Cardinality({j \in DOMAIN table : start <= j /\ j < i}) < count}

------------------------------------------------------------------------------
(***************************************************************************)
(* Configure of the backend.                                               *)
(***************************************************************************)

\* A new connection; the file is created if needed.  The first call that fails ends
\* Configure, and leaves the backend waiting for events all the same.
Open(ok) ==
  /\ backend = "down"
  /\ mDataBaseHandle' = ok /\ backend' = IF ok THEN "create" ELSE "idle"
  /\ UNCHANGED <<created, tableVars, range, batch, added, crowded, stops>>

\* IF NOT EXISTS: the entries of an earlier run stay.
CreateTable(ok) ==
  /\ backend = "create" /\ Exec(ok)
  /\ created' = (created \/ ok) /\ backend' = IF ok THEN "limit" ELSE "idle"
  /\ UNCHANGED <<mDataBaseHandle, tableVars, range, batch, added, crowded, stops>>

\* The limit is on the database's pages, which the model does not count: AddEntry may
\* fail.
SetLimit(ok) ==
  /\ backend = "limit" /\ Exec(ok) /\ backend' = "idle"
  /\ UNCHANGED <<mDataBaseHandle, created, tableVars, range, batch, added, crowded, stops>>

------------------------------------------------------------------------------
(***************************************************************************)
(* SendEvent of the backend.                                               *)
(***************************************************************************)

\* The event is dropped if it cannot be stored: a full database is one cause.
AddEntry(ok) ==
  /\ backend = "idle" /\ added < MaxEvents
  /\ added' = added + 1
  /\ Exec(ok) /\ (ok => created)
  /\ IF ok
     THEN /\ lastId' = lastId + 1
          /\ table' = [i \in DOMAIN table \cup {lastId + 1} |-> IF i \in DOMAIN table THEN table[i] ELSE added + 1]
          /\ accepted' = accepted \cup {added + 1}
          /\ backend' = "count"
     ELSE UNCHANGED <<table, lastId, accepted, backend>>
  /\ UNCHANGED <<mDataBaseHandle, created, taken, range, batch, crowded, stops>>

\* The id of the first row, and the number of rows; none after a failure.
GetEntriesCount(ok) ==
  /\ backend = "count"
  /\ LET rows == ExecAndGetResults(ok, buildGetEventsQuery(0, TableLimit))
     IN  range' = IF rows = <<>> THEN NoRange ELSE [start |-> rows[1], count |-> Len(rows)]
  /\ crowded' = (crowded \/ Cardinality(DOMAIN table) > TableLimit)
  /\ backend' = "get"
  /\ UNCHANGED <<mDataBaseHandle, created, tableVars, batch, added, stops>>

\* No entries, for whatever reason, end the call.
GetEntries(ok) ==
  /\ backend = "get"
  /\ LET rows == ExecAndGetResults(ok, buildGetEventsQuery(range.start, range.count))
     IN  /\ batch' = [k \in DOMAIN rows |-> table[rows[k]]]
         /\ backend' = IF rows = <<>> THEN "idle" ELSE "remove"
  /\ UNCHANGED <<mDataBaseHandle, created, tableVars, range, added, crowded, stops>>

\* The ids from 0 to one past the batch.  A failure keeps the entries, and
\* what was read is not sent.
RemoveEntries(ok) ==
  /\ backend = "remove" /\ Exec(ok)
  /\ IF ok
     THEN /\ table' = [i \in {j \in DOMAIN table : j > range.start + range.count} |-> table[i]]
          /\ taken' = taken \o batch /\ backend' = "verify"
          /\ UNCHANGED batch
     ELSE batch' = <<>> /\ backend' = "idle" /\ UNCHANGED <<table, taken>>
  /\ UNCHANGED <<mDataBaseHandle, created, lastId, accepted, range, added, crowded, stops>>

\* The count is asked for again and should be 0; then the batch is posted,
\* once, whether or not it arrives.
Verify ==
  /\ backend = "verify"
  /\ batch' = <<>> /\ range' = NoRange /\ backend' = "idle"
  /\ UNCHANGED <<mDataBaseHandle, created, tableVars, added, crowded, stops>>

\* The process stops, in good order or not: the connection and what is in
\* memory are gone.
Stop ==
  /\ backend # "down" /\ stops < MaxStops
  /\ stops' = stops + 1
  /\ backend' = "down" /\ mDataBaseHandle' = FALSE
  /\ range' = NoRange /\ batch' = <<>>
  /\ UNCHANGED <<created, tableVars, added, crowded>>

Next ==
  \/ Verify \/ Stop
  \/ \E ok \in BOOLEAN :
       \/ Open(ok) \/ CreateTable(ok) \/ SetLimit(ok) \/ AddEntry(ok)
       \/ GetEntriesCount(ok) \/ GetEntries(ok) \/ RemoveEntries(ok)

Spec == Init /\ [][Next]_vars

------------------------------------------------------------------------------
(***************************************************************************)
(* Properties.                                                             *)
(***************************************************************************)

\* Every stored event leaves the store in exactly one batch, oldest first,
\* however many queries failed and whenever the process stopped: what is
\* removed is what was read.  Stated while no more than TableLimit entries
\* pile up; the batch that is read after that has the youngest ones only, and
\* the older ones are removed with it.
TakenOnce ==
  ~crowded =>
    /\ \A i, j \in DOMAIN taken : i < j => taken[i] < taken[j]
    /\ ToSet(taken) \cap {table[i] : i \in DOMAIN table} = {}
    /\ accepted = ToSet(taken) \cup {table[i] : i \in DOMAIN table}

\* After a removal the store is empty, which the backend asks for before it
\* posts the batch: a batch is never withheld because of entries left behind.
EmptyAfterRemoval == backend = "verify" => DOMAIN table = {}

==============================================================================
