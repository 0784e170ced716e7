------------------------------ MODULE ListMethods ------------------------------
(***************************************************************************)
(* The methods of RDKShell that work through a list: key intercepts, key   *)
(* listeners, keys to generate, clients whose input is enabled, audio and  *)
(* video to block, animations, easter eggs, the calls made at startup, and *)
(* the search for the key that woke the device.  Each is a loop with a     *)
(* result; the loops differ in what they do with an entry that is          *)
(* malformed or that the compositor refuses.                               *)
(*                                                                         *)
(* A list is a sequence of entries, each for one key: "bad" is malformed,  *)
(* "gone" is for a client the compositor does not know, "refused" for one  *)
(* it knows and refuses, and anything else is a key that it accepts.  What *)
(* a loop has done is a record of the keys it has got accepted and its     *)
(* result.                                                                 *)
(***************************************************************************)
EXTENDS Naturals, Sequences, SequencesExt

CONSTANTS Keys, Retry  \* retries of getLastWakeupKey

Bad == "bad"
Gone == "gone"
Refused == "refused"
KeyEntries == Keys \cup {Bad, Gone, Refused}
Done(keys, result) == [keys |-> keys, result |-> result]

\* What the compositor makes of an entry that is well formed.
Passed(done, e) ==
  IF e \in {Gone, Refused} THEN Done(done.keys, FALSE) ELSE Done(Append(done.keys, e), TRUE)

\* Mutant of addKeyIntercepts: a malformed entry ends the loop.
addKeyInterceptsStop(entries) ==
  FoldLeft(LAMBDA done, e : IF e = Bad \/ ~done.result THEN Done(done.keys, FALSE) ELSE Passed(done, e),
           Done(<<>>, TRUE), entries)

\* Every entry is tried.  The result is overwritten by the next entry.
addKeyIntercepts(entries) ==
  FoldLeft(LAMBDA done, e : IF e = Bad THEN Done(done.keys, FALSE) ELSE Passed(done, e),
           Done(<<>>, TRUE), entries)

\* The first entry that fails ends the loop; the ones before it stay.
UntilFailure(entries) ==
  FoldLeft(LAMBDA done, e : IF ~done.result THEN done
                            ELSE IF e = Bad THEN Done(done.keys, FALSE) ELSE Passed(done, e),
           Done(<<>>, TRUE), entries)
addKeyListeners(entries) == UntilFailure(entries)
removeKeyListeners(entries) == UntilFailure(entries)

\* Names of clients, of which the one at place star (0 if none) is "*": it stands for
\* all clients and ends the list.  After a failure the compositor is asked nothing
\* more.
enableInputEvents(names, star, clients) ==
  UntilFailure(IF star \in DOMAIN names THEN SubSeq(names, 1, star - 1) \o clients ELSE names)

\* Some methods pass over malformed entries.
WellFormed(e) == e # Bad

\* After a failure nothing more is blocked, but malformed entries are no failure.
\* "Gone" has no display.
setAVBlocked(entries) == UntilFailure(SelectSeq(entries, WellFormed))

\* Nobody looks at what the compositor answers.  A number that cannot be read, in the
\* entry at place throws (0 if none), is an exception that ends the loop, and leaves
\* gRdkShellMutex locked and the call without an answer.
addAnimationList(entries, throws) ==
  LET locked == throws \in DOMAIN entries /\ WellFormed(entries[throws])
      worked == IF locked THEN SubSeq(entries, 1, throws - 1) ELSE entries
      done == FoldLeft(LAMBDA so, e : IF e = Bad THEN so ELSE Passed(so, e), Done(<<>>, TRUE), worked) IN
    [done EXCEPT !.result = TRUE] @@ [locked |-> locked]

\* Only the well formed keys become part of an easter egg's sequence.
keySequence(entries) == SelectSeq(entries, WellFormed)

\* A malformed entry, or one for a client that is gone, changes nothing.  What the
\* compositor makes of the last key it is passed counts, and it is false for none.
generateKey(entries) ==
  FoldLeft(LAMBDA done, e : IF e \in {Bad, Gone} THEN done ELSE Passed(done, e),
           Done(<<>>, FALSE), entries)

\* The methods themselves: without a list, or a client where one is needed, nothing
\* is done.
addKeyInterceptsWrapper(given, entries) == IF given THEN addKeyIntercepts(entries) ELSE Done(<<>>, FALSE)
addKeyListenersWrapper(given, entries) == IF given THEN addKeyListeners(entries) ELSE Done(<<>>, FALSE)
generateKeyWrapper(given, entries) == IF given THEN generateKey(entries) ELSE Done(<<>>, FALSE)
addKeyInterceptWrapper(given, e) == IF given THEN Passed(Done(<<>>, TRUE), e) ELSE Done(<<>>, FALSE)
removeKeyInterceptWrapper(given, e) == IF given THEN Passed(Done(<<>>, TRUE), e) ELSE Done(<<>>, FALSE)
enableInputEventsWrapper(given, names, star, clients) ==
  IF given THEN enableInputEvents(names, star, clients) ELSE Done(<<>>, FALSE)

\* These say that they succeeded if they were given nothing to do, or may do nothing.
setAVBlockedWrapper(mErmEnabled, entries) == IF mErmEnabled THEN setAVBlocked(entries) ELSE Done(<<>>, TRUE)
addAnimationWrapper(given, entries, throws) == addAnimationList(IF given THEN entries ELSE <<>>, throws)
addEasterEggsWrapper(given, entries) == IF given THEN Done(keySequence(entries), TRUE) ELSE Done(<<>>, FALSE)

\* At startup: entries of the right form are kept, and those whose RFC is set (not
\* "gone" here) are invoked in order, whether or not an earlier one failed.
loadStartupConfig(entries) ==
  FoldLeft(LAMBDA configs, e : IF e = Bad THEN configs ELSE Append(configs, e), <<>>, entries)
invokeStartupThunderApis(configs) ==
  FoldLeft(LAMBDA calls, e : IF e = Gone THEN calls ELSE Append(calls, e), <<>>, configs)

TriesLeft(retry) == retry > 0

\* The remote control is asked until it has a key, at most Retry times, with a pause
\* between two tries.  An answer is the key of the last of the remotes it lists, or
\* none.
getLastWakeupKey(answers) ==
  FoldLeft(LAMBDA loop, answer : IF loop.key = Gone /\ TriesLeft(loop.retry)
                                 THEN [key |-> answer, retry |-> loop.retry - 1] ELSE loop,
           [key |-> Gone, retry |-> Retry], answers).key

------------------------------------------------------------------------------
(***************************************************************************)
(* What a caller can conclude from a result.                               *)
(***************************************************************************)
IsKey(e) == e \in Keys
Asked(e) == e \in Keys \cup {Refused}

\* (The list that is <<Bad>> stands for one that was not given at all.)

\* A malformed or refused intercept keeps no other from being added, and a result
\* of false means that something was left out; true does not mean the opposite.
InterceptsSound(entries) ==
  LET done == addKeyInterceptsWrapper(entries # <<Bad>>, entries) IN
    /\ done.keys = SelectSeq(entries, IsKey)
    /\ ~done.result => Len(done.keys) < Len(entries)
    /\ done.result /\ entries # <<>> => Last(entries) \in Keys
    /\ Len(entries) = 1 => addKeyInterceptWrapper(entries # <<Bad>>, entries[1]) = done
    /\ \A i \in DOMAIN done.keys : removeKeyInterceptWrapper(TRUE, done.keys[i]).result

\* Listeners: the result is true just if all were added, and otherwise exactly
\* the entries before the first that failed were, so that a caller can tell what
\* there is to take back, and taking it back does not fail.
ListenersSound(entries) ==
  LET done == addKeyListenersWrapper(entries # <<Bad>>, entries) IN
    /\ IsPrefix(done.keys, entries)
    /\ done.result <=> done.keys = entries
    /\ done.result \/ entries[Len(done.keys) + 1] \notin Keys
    /\ removeKeyListeners(done.keys) = Done(done.keys, TRUE)

\* Input events: "*" reaches every client just if every name before it was reached,
\* whatever follows it, and the result says so.
InputSound(entries) ==
  LET clients == SetToSeq(Keys) IN
  \A star \in DOMAIN entries :
    LET before == SubSeq(entries, 1, star - 1)
        done == enableInputEventsWrapper(TRUE, entries, star, clients)
        alone == enableInputEventsWrapper(TRUE, before, 0, clients) IN
      /\ done.result <=> alone.result
      /\ done.result => done.keys = before \o clients
      /\ IsPrefix(alone.keys, done.keys)

\* Blocking ends at the first application without a display, or that the compositor
\* refuses, and a result of false means that there was one; a result of true does not
\* mean that anything was blocked.  Animations reach every client there is, and nobody
\* hears of the others, unless a number cannot be read: then only the clients before it
\* are reached and gRdkShellMutex stays locked, which no malformed entry brings about.
\* An easter egg may come to have fewer keys than were given, without notice.
LenientSound(entries) ==
  LET blocked == setAVBlockedWrapper(TRUE, entries) IN
    /\ IsPrefix(blocked.keys, SelectSeq(entries, IsKey))
    /\ blocked.result <=> Gone \notin Range(entries) /\ Refused \notin Range(entries)
    /\ setAVBlockedWrapper(FALSE, entries) = Done(<<>>, TRUE)
    /\ \A throws \in 0 .. Len(entries) :
         LET animated == addAnimationWrapper(entries # <<Bad>>, entries, throws)
             whole == addAnimationWrapper(TRUE, entries, 0) IN
           /\ IsPrefix(animated.keys, whole.keys) /\ (animated.locked \/ animated = whole)
           /\ blocked.result /\ ~animated.locked => animated.keys = blocked.keys
           /\ animated.locked => entries[throws] # Bad /\ Len(animated.keys) < throws
    /\ LET egg == addEasterEggsWrapper(TRUE, entries) IN
         egg.result /\ (egg.keys = entries <=> Bad \notin Range(entries))

\* Keys are generated, and calls made, in the order of the list, whatever stands
\* between them.  A result of true means that the last key the compositor was asked for
\* was generated, whatever became of the ones before.
OrderedSound(entries) ==
  LET done == generateKeyWrapper(entries # <<Bad>>, entries)
      asked == SelectSeq(entries, Asked) IN
    /\ done.keys = SelectSeq(entries, IsKey)
    /\ done.result <=> asked # <<>> /\ Last(asked) \in Keys
    /\ invokeStartupThunderApis(loadStartupConfig(entries)) = asked

\* The wake-up key is the first that one of Retry answers has; nobody waits longer.
WakeupSound(answers) ==
  LET good == {i \in DOMAIN answers : i <= Retry /\ answers[i] # Gone} IN
    IF good = {} THEN getLastWakeupKey(answers) = Gone
    ELSE \A i \in good : (\A j \in good : i <= j) => getLastWakeupKey(answers) = answers[i]
================================================================================
