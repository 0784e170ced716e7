--------------------------- MODULE HostedCodeProofs ---------------------------
(***************************************************************************)
(* Proofs about the plugins that host other code, as MCHostedCode composes *)
(* them: what Rust code in the process sends reaches the plugin it belongs *)
(* to (LocalPlugin), and what goes to a host process and comes back from   *)
(* it is whole messages and counted responses (RemotePlugin), for any      *)
(* number of plugins, threads, connections and messages.                   *)
(*                                                                         *)
(* The invariant of LocalPlugin says that ids are given once               *)
(* (IdsGivenOnce), that whatever the table holds, behind its end or        *)
(* overwritten, pairs a plugin with that plugin's own id (TableSound),     *)
(* and, as long as the table was not grown under a search or under another *)
(* growth, that every context is where a search of it has still to come by *)
(* (Listed).                                                               *)
(*                                                                         *)
(* The invariant of RemotePlugin says that, unless something was torn, one *)
(* sender at most is in the middle of a message, and only its connection's *)
(* stream is cut short, just before its next piece (StreamShape); and that *)
(* every response is submitted, half read, or waits unread (Counted).      *)
(***************************************************************************)
EXTENDS MCHostedCode, SequenceTheorems, FunctionTheorems, FiniteSetTheorems, TLAPS

IdsGivenOnce ==
  /\ \A p \in Plugins : ctx[p] < ctx_next_id
  /\ \A p, q \in Plugins : ctx[p] = ctx[q] /\ ctx[p] # 0 => p = q

TableSound ==
  /\ \A i \in DOMAIN ctx_array : ctx_array[i].id = ctx[ctx_array[i].plugin]
  /\ \A p \in Plugins : size[p] \in 0 .. Len(ctx_array)

SearchSound ==
  \A r \in RustThreads : LP!Searching(r) =>
    /\ search[r].from \in Plugins /\ search[r].at >= 1
    /\ phase[search[r].from] \in {"active", "destroyed"}

\* The context of the plugin is in the table, at a place not before this one.
Listed(p, from) == \E i \in DOMAIN ctx_array : i >= from /\ ctx_array[i].plugin = p

Pushing(p) == phase[p] = "push"

\* One growth at a time, and none under a search.
Calm ==
  /\ end = Len(ctx_array)
  /\ \A p \in Plugins : Pushing(p) => size[p] = end
  /\ \A p, q \in Plugins : Pushing(p) /\ Pushing(q) => p = q
  /\ \A p \in Plugins, r \in RustThreads : Pushing(p) => ~LP!Searching(r)
  /\ \A p \in Plugins : phase[p] \in {"create", "active", "destroyed"} => Listed(p, 1)
  /\ \A r \in RustThreads : LP!Searching(r) => Listed(search[r].from, search[r].at)

HomeInv ==
  /\ LP!TypeOK /\ IdsGivenOnce /\ TableSound /\ SearchSound
  /\ LP!MessagesGoHome /\ LP!FoundUnlessRaced
  /\ ~raced => Calm

Phases == {"none", "context", "push", "create", "active", "destroyed"}
Contexts == [id : Nat \ {0}, plugin : Plugins]

\* The parts of the type invariant, by name.
LEMMA LocalTypes ==
  ASSUME LP!TypeOK
  PROVE  /\ phase \in [Plugins -> Phases] /\ ctx_next_id \in Nat \ {0}
         /\ ctx \in [Plugins -> Nat] /\ size \in [Plugins -> Nat]
         /\ ctx_array \in Seq(Contexts) /\ Len(ctx_array) \in Nat /\ end \in 0 .. Len(ctx_array)
         /\ DOMAIN ctx_array = 1 .. Len(ctx_array)
         /\ \A i \in DOMAIN ctx_array : ctx_array[i].id \in Nat \ {0} /\ ctx_array[i].plugin \in Plugins
         /\ search \in [RustThreads -> [from : Plugins \cup {"none"}, at : Nat]]
         /\ sent \in 0 .. MaxSent /\ arrived \subseteq Plugins \X Plugins
         /\ missed \in BOOLEAN /\ raced \in BOOLEAN
         /\ \A p \in Plugins : phase[p] = "none" <=> ctx[p] = 0
  <1>1. ctx_array \in Seq(Contexts)
    BY DEF LP!TypeOK, Contexts
  <1>2. /\ DOMAIN ctx_array = 1 .. Len(ctx_array) /\ Len(ctx_array) \in Nat
        /\ \A i \in DOMAIN ctx_array : ctx_array[i] \in Contexts
    BY <1>1
  <1>3. \A i \in DOMAIN ctx_array : ctx_array[i].id \in Nat \ {0} /\ ctx_array[i].plugin \in Plugins
    BY <1>2 DEF Contexts
  <1>4. QED
    BY <1>1, <1>2, <1>3 DEF LP!TypeOK, Phases

\* A plugin goes from one phase to another and the others stay where they are.
LEMMA GotoPhase ==
  ASSUME LP!TypeOK, NEW p \in Plugins, NEW from, NEW to \in Phases, LP!Goto(p, from, to)
  PROVE  /\ phase[p] = from /\ phase'[p] = to /\ phase' \in [Plugins -> Phases]
         /\ \A q \in Plugins : q # p => phase'[q] = phase[q]
  BY LocalTypes DEF LP!Goto

\* An id that is new.
LEMMA HomeNewContext ==
  ASSUME HomeInv, NEW p \in Plugins, LP!NewContext(p)
  PROVE  HomeInv'
  <1>0. LP!TypeOK /\ IdsGivenOnce /\ TableSound /\ SearchSound
    BY DEF HomeInv
  <1> USE <1>0, LocalTypes
  <1>1. /\ ctx' = [ctx EXCEPT ![p] = ctx_next_id] /\ ctx_next_id' = ctx_next_id + 1
        /\ UNCHANGED <<ctx_array, end, size, search, sent, arrived, missed, raced>>
    BY DEF LP!NewContext
  <1>2. /\ phase[p] = "none" /\ phase'[p] = "context" /\ phase' \in [Plugins -> Phases]
        /\ \A q \in Plugins : q # p => phase'[q] = phase[q]
    BY GotoPhase DEF LP!NewContext, Phases
  <1>3. ctx[p] = 0 /\ ctx'[p] = ctx_next_id /\ \A q \in Plugins : q # p => ctx'[q] = ctx[q]
    BY <1>1, <1>2
  <1>4. LP!TypeOK'
    <2>1. ctx' \in [Plugins -> Nat] /\ ctx_next_id' \in Nat \ {0}
      BY <1>1
    <2>2. \A q \in Plugins : phase'[q] = "none" <=> ctx'[q] = 0
      BY <1>2, <1>3
    <2>3. QED
      BY <1>1, <1>2, <2>1, <2>2 DEF LP!TypeOK, Phases
  <1>5. IdsGivenOnce'
    BY <1>1, <1>3 DEF IdsGivenOnce
  <1>6. TableSound'
    <2>1. ASSUME NEW i \in DOMAIN ctx_array PROVE ctx_array[i].plugin \in Plugins /\ ctx_array[i].plugin # p
      <3>1. /\ ctx_array[i].id # 0 /\ ctx_array[i].plugin \in Plugins
            /\ ctx_array[i].id = ctx[ctx_array[i].plugin]
        BY DEF TableSound
      <3>2. QED
        BY <1>3, <3>1
    <2>2. QED
      BY <1>1, <1>3, <2>1 DEF TableSound
  <1>7. SearchSound'
    BY <1>1, <1>2 DEF SearchSound, LP!Searching
  <1>8. LP!MessagesGoHome' /\ LP!FoundUnlessRaced'
    BY <1>1 DEF HomeInv, LP!MessagesGoHome, LP!FoundUnlessRaced
  <1>9. ASSUME ~raced' PROVE Calm'
    <2>1. Calm
      BY <1>1, <1>9 DEF HomeInv
    <2>2. /\ \A q \in Plugins : Pushing(q)' <=> Pushing(q)
          /\ \A q \in Plugins : phase'[q] \in {"create", "active", "destroyed"}
                                <=> phase[q] \in {"create", "active", "destroyed"}
          /\ \A r \in RustThreads : LP!Searching(r)' <=> LP!Searching(r)
      BY <1>1, <1>2 DEF Pushing, LP!Searching
    <2>3. \A q \in Plugins : Listed(q, 1) => Listed(q, 1)'
      BY <1>1 DEF Listed
    <2>4. \A r \in RustThreads : Listed(search[r].from, search[r].at)
                                  => Listed(search[r].from, search[r].at)'
      BY <1>1 DEF Listed
    <2>5. QED
      BY <1>1, <2>1, <2>2, <2>3, <2>4 DEF Calm
  <1>10. QED
    BY <1>4, <1>5, <1>6, <1>7, <1>8, <1>9 DEF HomeInv

\* The end that is read is the end as long as no other thread is at it.
LEMMA HomePushBegin ==
  ASSUME HomeInv, NEW p \in Plugins, LP!PushBegin(p)
  PROVE  HomeInv'
  <1>0. LP!TypeOK /\ IdsGivenOnce /\ TableSound /\ SearchSound
    BY DEF HomeInv
  <1> USE <1>0, LocalTypes
  <1>1. /\ size' = [size EXCEPT ![p] = end]
        /\ UNCHANGED <<ctx_next_id, ctx, ctx_array, end, search, sent, arrived, missed>>
    BY DEF LP!PushBegin
  <1>2. /\ phase[p] = "context" /\ phase'[p] = "push" /\ phase' \in [Plugins -> Phases]
        /\ \A q \in Plugins : q # p => phase'[q] = phase[q]
    BY GotoPhase DEF LP!PushBegin, Phases
  <1>3. raced' = (raced \/ LP!InUse)
    BY DEF LP!PushBegin
  <1>4. size' \in [Plugins -> Nat] /\ size'[p] = end /\ \A q \in Plugins : q # p => size'[q] = size[q]
    BY <1>1
  <1>5. LP!TypeOK'
    <2>1. raced' \in BOOLEAN
      BY <1>3, Zenon
    <2>2. \A q \in Plugins : phase'[q] = "none" <=> ctx'[q] = 0
      BY <1>1, <1>2
    <2>3. QED
      BY <1>1, <1>2, <1>4, <2>1, <2>2 DEF LP!TypeOK, Phases
  <1>6. IdsGivenOnce'
    BY <1>1 DEF IdsGivenOnce
  <1>7. TableSound'
    BY <1>1, <1>4 DEF TableSound
  <1>8. SearchSound'
    BY <1>1, <1>2 DEF SearchSound, LP!Searching
  <1>9. LP!MessagesGoHome' /\ LP!FoundUnlessRaced'
    <2>1. raced => raced'
      BY <1>3, Zenon
    <2>2. QED
      BY <1>1, <2>1 DEF HomeInv, LP!MessagesGoHome, LP!FoundUnlessRaced
  <1>10. ASSUME ~raced' PROVE Calm'
    <2>1. ~raced /\ ~LP!InUse
      BY <1>3, <1>10, Zenon
    <2>2. Calm /\ \A q \in Plugins : ~Pushing(q)
      BY <2>1 DEF HomeInv, LP!InUse, Pushing
    <2>3. \A r \in RustThreads : ~LP!Searching(r) /\ ~LP!Searching(r)'
      BY <1>1, <2>1 DEF LP!InUse, LP!Searching
    <2>4. \A q \in Plugins : \A n : Listed(q, n)' <=> Listed(q, n)
      BY <1>1 DEF Listed
    <2>5. \A q \in Plugins : Pushing(q)' <=> q = p
      BY <1>2, <2>2 DEF Pushing
    <2>6. \A q \in Plugins : phase'[q] \in {"create", "active", "destroyed"} => Listed(q, 1)'
      BY <1>2, <2>2, <2>4 DEF Calm
    <2>7. QED
      BY <1>1, <1>4, <2>2, <2>3, <2>5, <2>6 DEF Calm
  <1>11. QED
    BY <1>5, <1>6, <1>7, <1>8, <1>9, <1>10 DEF HomeInv

\* A context is written at the end that was read.
LEMMA HomePushEnd ==
  ASSUME HomeInv, NEW p \in Plugins, LP!PushEnd(p)
  PROVE  HomeInv'
  <1>0. LP!TypeOK /\ IdsGivenOnce /\ TableSound /\ SearchSound
    BY DEF HomeInv
  <1> USE <1>0, LocalTypes
  <1> DEFINE new == [id |-> ctx[p], plugin |-> p]
             at == size[p] + 1
  <1>1. /\ end' = at
        /\ ctx_array' = IF at \in DOMAIN ctx_array THEN [ctx_array EXCEPT ![at] = new]
                        ELSE Append(ctx_array, new)
        /\ UNCHANGED <<ctx_next_id, ctx, size, search, sent, arrived, missed>>
    BY DEF LP!PushEnd
  <1>2. /\ phase[p] = "push" /\ phase'[p] = "create" /\ phase' \in [Plugins -> Phases]
        /\ \A q \in Plugins : q # p => phase'[q] = phase[q]
    BY GotoPhase DEF LP!PushEnd, Phases
  <1>3. raced' = (raced \/ (\E r \in RustThreads : LP!Searching(r)))
    BY DEF LP!PushEnd
  <1>4. new \in Contexts /\ at \in 1 .. Len(ctx_array) + 1
    BY <1>2 DEF Contexts, TableSound
  <1>n. new.id = ctx[p] /\ new.plugin = p
    OBVIOUS
  <1> HIDE DEF new
  <1>5. /\ ctx_array' \in Seq(Contexts) /\ Len(ctx_array') \in Nat
        /\ at \in 1 .. Len(ctx_array') /\ Len(ctx_array) =< Len(ctx_array')
        /\ DOMAIN ctx_array' = 1 .. Len(ctx_array')
        /\ at = Len(ctx_array) + 1 => Len(ctx_array') = at
        /\ ctx_array'[at] = new
        /\ \A i \in DOMAIN ctx_array' : i # at => i \in DOMAIN ctx_array /\ ctx_array'[i] = ctx_array[i]
        /\ \A i \in DOMAIN ctx_array : i \in DOMAIN ctx_array'
    <2>1. CASE at \in DOMAIN ctx_array
      BY <1>1, <1>4, <2>1
    <2>2. CASE at \notin DOMAIN ctx_array
      <3>1. at = Len(ctx_array) + 1 /\ ctx_array' = Append(ctx_array, new)
        BY <1>1, <1>4, <2>2
      <3>2. QED
        BY <1>4, <3>1
    <2>3. QED
      BY <2>1, <2>2
  <1> HIDE DEF at
  <1>6. LP!TypeOK'
    <2>1. raced' \in BOOLEAN
      BY <1>3, Zenon
    <2>2. \A q \in Plugins : phase'[q] = "none" <=> ctx'[q] = 0
      BY <1>1, <1>2
    <2>3. end' \in 0 .. Len(ctx_array')
      BY <1>1, <1>5
    <2>4. QED
      BY <1>1, <1>2, <1>5, <2>1, <2>2, <2>3 DEF LP!TypeOK, Phases, Contexts
  <1>7. IdsGivenOnce'
    BY <1>1 DEF IdsGivenOnce
  <1>8. TableSound'
    <2>1. \A i \in DOMAIN ctx_array' : ctx_array'[i].id = ctx[ctx_array'[i].plugin]
      BY <1>n, <1>5 DEF TableSound
    <2>2. ASSUME NEW q \in Plugins PROVE size[q] \in 0 .. Len(ctx_array')
      <3>1. size[q] \in 0 .. Len(ctx_array) /\ Len(ctx_array) \in Nat
        BY DEF TableSound
      <3>2. Len(ctx_array') \in Nat /\ Len(ctx_array) =< Len(ctx_array')
        BY <1>5, Zenon
      <3>3. \A k, m, n \in Nat : k \in 0 .. m /\ m =< n => k \in 0 .. n
        OBVIOUS
      <3>4. size[q] \in Nat
        BY <3>1
      <3>5. QED
        BY <3>1, <3>2, <3>3, <3>4, Zenon
    <2>3. QED
      BY <1>1, <2>1, <2>2 DEF TableSound
  <1>9. SearchSound'
    BY <1>1, <1>2 DEF SearchSound, LP!Searching
  <1>10. LP!MessagesGoHome' /\ LP!FoundUnlessRaced'
    <2>1. raced => raced'
      BY <1>3, Zenon
    <2>2. QED
      BY <1>1, <2>1 DEF HomeInv, LP!MessagesGoHome, LP!FoundUnlessRaced
  <1>11. ASSUME ~raced' PROVE Calm'
    <2>1. ~raced /\ \A r \in RustThreads : ~LP!Searching(r)
      BY <1>3, <1>11, Zenon
    <2>2. Calm /\ Pushing(p)
      BY <1>2, <2>1 DEF HomeInv, Pushing
    <2>3. at = Len(ctx_array) + 1 /\ end' = Len(ctx_array')
      BY <1>1, <1>5, <2>2 DEF Calm, at
    <2>4. \A q \in Plugins : ~Pushing(q)'
      BY <1>2, <2>2 DEF Calm, Pushing
    <2>5. \A r \in RustThreads : ~LP!Searching(r)'
      BY <1>1, <2>1 DEF LP!Searching
    <2>6. \A i \in DOMAIN ctx_array : ctx_array'[i] = ctx_array[i]
      BY <1>5, <2>3
    <2>7. ASSUME NEW q \in Plugins, phase'[q] \in {"create", "active", "destroyed"}
          PROVE  Listed(q, 1)'
      <3>1. CASE q = p
        <4>1. at \in DOMAIN ctx_array' /\ at >= 1 /\ ctx_array'[at].plugin = q
          <5>1. at \in DOMAIN ctx_array' /\ ctx_array'[at].plugin = q
            BY <1>n, <1>5, <3>1, Zenon
          <5>2. QED
            BY <1>5, <5>1
        <4>2. QED
          BY <4>1 DEF Listed
      <3>2. CASE q # p
        <4>1. Listed(q, 1)
          BY <1>2, <2>2, <2>7, <3>2 DEF Calm
        <4>2. QED
          <5>1. PICK i \in DOMAIN ctx_array : i >= 1 /\ ctx_array[i].plugin = q
            BY <4>1 DEF Listed
          <5>2. i \in DOMAIN ctx_array' /\ ctx_array'[i].plugin = q
            BY <1>5, <2>6, <5>1
          <5>3. QED
            BY <5>1, <5>2 DEF Listed
      <3>3. QED
        BY <3>1, <3>2
    <2>8. QED
      BY <2>3, <2>4, <2>5, <2>7 DEF Calm
  <1>12. QED
    BY <1>6, <1>7, <1>8, <1>9, <1>10, <1>11 DEF HomeInv

\* Create and Deinitialize: the table is not touched.
LEMMA HomeLives ==
  ASSUME HomeInv, NEW p \in Plugins, LP!Create(p) \/ LP!Deinitialize(p)
  PROVE  HomeInv'
  <1>0. LP!TypeOK /\ IdsGivenOnce /\ TableSound /\ SearchSound
    BY DEF HomeInv
  <1> USE <1>0, LocalTypes
  <1>1. UNCHANGED <<ctx_next_id, ctx, ctx_array, end, size, search, sent, arrived, missed, raced>>
    BY DEF LP!Create, LP!Deinitialize
  <1>2. /\ phase[p] \in {"create", "active"} /\ phase'[p] \in {"active", "destroyed"}
        /\ phase' \in [Plugins -> Phases]
        /\ \A q \in Plugins : q # p => phase'[q] = phase[q]
    BY GotoPhase DEF LP!Create, LP!Deinitialize, Phases
  <1>3. /\ \A q \in Plugins : Pushing(q)' <=> Pushing(q)
        /\ \A q \in Plugins : phase'[q] \in {"create", "active", "destroyed"}
                              <=> phase[q] \in {"create", "active", "destroyed"}
        /\ \A q \in Plugins : phase[q] \in {"active", "destroyed"} => phase'[q] \in {"active", "destroyed"}
        /\ \A q \in Plugins : phase'[q] = "none" <=> phase[q] = "none"
        /\ \A r \in RustThreads : LP!Searching(r)' <=> LP!Searching(r)
    <2>1. \/ phase[p] = "create" /\ phase'[p] = "active"
          \/ phase[p] = "active" /\ phase'[p] = "destroyed"
      BY GotoPhase DEF LP!Create, LP!Deinitialize, Phases
    <2>2. QED
      BY <1>1, <1>2, <2>1 DEF Pushing, LP!Searching
  <1>4. LP!TypeOK'
    BY <1>1, <1>2, <1>3 DEF LP!TypeOK, Phases
  <1>5. IdsGivenOnce' /\ TableSound'
    BY <1>1 DEF IdsGivenOnce, TableSound
  <1>6. SearchSound'
    BY <1>1, <1>3 DEF SearchSound
  <1>7. LP!MessagesGoHome' /\ LP!FoundUnlessRaced'
    BY <1>1 DEF HomeInv, LP!MessagesGoHome, LP!FoundUnlessRaced
  <1>8. ASSUME ~raced' PROVE Calm'
    <2>1. Calm
      BY <1>1, <1>8 DEF HomeInv
    <2>2. \A q \in Plugins : Listed(q, 1) => Listed(q, 1)'
      BY <1>1 DEF Listed
    <2>3. \A r \in RustThreads : Listed(search[r].from, search[r].at)
                                  => Listed(search[r].from, search[r].at)'
      BY <1>1 DEF Listed
    <2>4. QED
      BY <1>1, <1>3, <2>1, <2>2, <2>3 DEF Calm
  <1>9. QED
    BY <1>4, <1>5, <1>6, <1>7, <1>8 DEF HomeInv

\* A search begins at the first context.
LEMMA HomeSends ==
  ASSUME MaxSent \in Nat, HomeInv, NEW r \in RustThreads, NEW p \in Plugins, LP!RustSends(r, p)
  PROVE  HomeInv'
  <1>0. LP!TypeOK /\ IdsGivenOnce /\ TableSound /\ SearchSound
    BY DEF HomeInv
  <1> USE <1>0, LocalTypes
  <1>1. /\ ~LP!Searching(r) /\ phase[p] = "active" /\ sent < MaxSent /\ sent' = sent + 1
        /\ search' = [search EXCEPT ![r] = [from |-> p, at |-> 1]]
        /\ UNCHANGED <<phase, ctx_next_id, ctx, ctx_array, end, size, arrived, missed>>
    BY DEF LP!RustSends
  <1>2. raced' = (raced \/ (\E q \in Plugins : Pushing(q)))
    BY DEF LP!RustSends, Pushing
  <1>3. /\ search' \in [RustThreads -> [from : Plugins \cup {"none"}, at : Nat]]
        /\ search'[r] = [from |-> p, at |-> 1] /\ \A u \in RustThreads : u # r => search'[u] = search[u]
    BY <1>1
  <1>4. \A u \in RustThreads : u # r => (LP!Searching(u)' <=> LP!Searching(u))
    BY <1>3 DEF LP!Searching, LP!NoSearch
  <1>5. LP!TypeOK'
    <2>1. raced' \in BOOLEAN
      BY <1>2, Zenon
    <2>2. sent' \in 0 .. MaxSent
      BY <1>1
    <2>3. QED
      BY <1>1, <1>3, <2>1, <2>2 DEF LP!TypeOK, Phases, Contexts
  <1>6. IdsGivenOnce' /\ TableSound'
    BY <1>1 DEF IdsGivenOnce, TableSound
  <1>7. SearchSound'
    BY <1>1, <1>3, <1>4 DEF SearchSound
  <1>8. LP!MessagesGoHome' /\ LP!FoundUnlessRaced'
    <2>1. raced => raced'
      BY <1>2, Zenon
    <2>2. QED
      BY <1>1, <2>1 DEF HomeInv, LP!MessagesGoHome, LP!FoundUnlessRaced
  <1>9. ASSUME ~raced' PROVE Calm'
    <2>1. ~raced /\ \A q \in Plugins : ~Pushing(q)
      BY <1>2, <1>9, Zenon
    <2>2. Calm
      BY <2>1 DEF HomeInv
    <2>3. /\ \A q \in Plugins : ~Pushing(q)'
          /\ \A q \in Plugins : phase'[q] = phase[q]
      BY <1>1, <2>1 DEF Pushing
    <2>4. \A q \in Plugins : Listed(q, 1) => Listed(q, 1)'
      BY <1>1 DEF Listed
    <2>5. ASSUME NEW u \in RustThreads, LP!Searching(u)'
          PROVE  Listed(search[u].from, search[u].at)'
      <3>1. CASE u = r
        <4>1. Listed(p, 1) /\ search'[u].from = p /\ search'[u].at = 1
          BY <1>1, <1>3, <2>2, <3>1 DEF Calm
        <4>2. QED
          BY <1>1, <4>1 DEF Listed
      <3>2. CASE u # r
        <4>1. Listed(search[u].from, search[u].at) /\ search'[u] = search[u]
          BY <1>3, <1>4, <2>2, <2>5, <3>2 DEF Calm
        <4>2. QED
          BY <1>1, <4>1 DEF Listed
      <3>3. QED
        BY <3>1, <3>2
    <2>6. QED
      BY <1>1, <2>2, <2>3, <2>4, <2>5 DEF Calm
  <1>10. QED
    BY <1>5, <1>6, <1>7, <1>8, <1>9 DEF HomeInv

\* A search looks at one context: its own, another's, or none.
LEMMA HomeSearches ==
  ASSUME HomeInv, NEW r \in RustThreads, LP!wpe_send_to(r)
  PROVE  HomeInv'
  <1>0. LP!TypeOK /\ IdsGivenOnce /\ TableSound /\ SearchSound
    BY DEF HomeInv
  <1> USE <1>0, LocalTypes
  <1> DEFINE at == search[r].at
             from == search[r].from
  <1>1. /\ LP!Searching(r)
        /\ UNCHANGED <<phase, ctx_next_id, ctx, ctx_array, end, size, sent, raced>>
    BY DEF LP!wpe_send_to
  <1>2. from \in Plugins /\ at \in Nat /\ at >= 1 /\ phase[from] \in {"active", "destroyed"} /\ ctx[from] # 0
    BY <1>1 DEF SearchSound
  <1>3. \/ /\ at =< end /\ ctx_array[at].id = ctx[from] /\ UNCHANGED missed
           /\ search' = [search EXCEPT ![r] = LP!NoSearch]
           /\ arrived' = arrived \cup {<<from, ctx_array[at].plugin>>}
        \/ /\ at =< end /\ ctx_array[at].id # ctx[from]
           /\ search' = [search EXCEPT ![r].at = @ + 1] /\ UNCHANGED <<arrived, missed>>
        \/ /\ at > end \/ raced
           /\ search' = [search EXCEPT ![r] = LP!NoSearch] /\ missed' = TRUE /\ UNCHANGED arrived
    BY DEF LP!wpe_send_to, LP!SendTo
  <1>4. /\ search' \in [RustThreads -> [from : Plugins \cup {"none"}, at : Nat]]
        /\ \A u \in RustThreads : u # r => search'[u] = search[u]
        /\ \/ search'[r] = LP!NoSearch
           \/ /\ search'[r] = [from |-> from, at |-> at + 1] /\ at =< end
              /\ ctx_array[at].id # ctx[from]
    <2>1. CASE search' = [search EXCEPT ![r] = LP!NoSearch]
      BY <2>1 DEF LP!NoSearch
    <2>2. CASE at =< end /\ ctx_array[at].id # ctx[from] /\ search' = [search EXCEPT ![r].at = @ + 1]
      BY <1>2, <2>2
    <2>3. QED
      BY <1>3, <2>1, <2>2
  <1>5. at =< end => at \in DOMAIN ctx_array
    BY <1>2
  <1>6. ASSUME at =< end, ctx_array[at].id = ctx[from] PROVE ctx_array[at].plugin = from
    BY <1>2, <1>5, <1>6 DEF TableSound, IdsGivenOnce
  <1>7. arrived' \subseteq Plugins \X Plugins /\ LP!MessagesGoHome'
    <2>1. arrived' = arrived \/ arrived' = arrived \cup {<<from, from>>}
      BY <1>3, <1>6
    <2>2. \A m \in arrived : m[1] = m[2]
      BY DEF HomeInv, LP!MessagesGoHome
    <2>3. QED
      BY <1>2, <2>1, <2>2 DEF LP!MessagesGoHome
  <1>8. LP!TypeOK'
    <2>1. missed' \in BOOLEAN
      BY <1>3, Zenon
    <2>2. QED
      BY <1>1, <1>4, <1>7, <2>1 DEF LP!TypeOK, Phases, Contexts
  <1>9. IdsGivenOnce' /\ TableSound'
    BY <1>1 DEF IdsGivenOnce, TableSound
  <1>10. \A u \in RustThreads : u # r => (LP!Searching(u)' <=> LP!Searching(u))
    BY <1>4 DEF LP!Searching, LP!NoSearch
  <1>11. SearchSound'
    <2>1. ASSUME NEW u \in RustThreads, LP!Searching(u)'
          PROVE  /\ search'[u].from \in Plugins /\ search'[u].at >= 1
                 /\ phase'[search'[u].from] \in {"active", "destroyed"}
      <3>1. CASE u = r
        <4>1. search'[u].from = from /\ search'[u].at = at + 1
          BY <1>4, <2>1, <3>1 DEF LP!Searching, LP!NoSearch
        <4>2. QED
          BY <1>1, <1>2, <4>1
      <3>2. CASE u # r
        BY <1>1, <1>4, <1>10, <2>1, <3>2 DEF SearchSound
      <3>3. QED
        BY <3>1, <3>2
    <2>2. QED
      BY <2>1 DEF SearchSound
  <1>12. ASSUME ~raced PROVE Calm /\ at =< end
    <2>1. Calm
      BY <1>12 DEF HomeInv
    <2>2. Listed(from, at) /\ end = Len(ctx_array)
      BY <1>1, <2>1 DEF Calm
    <2>3. PICK i \in DOMAIN ctx_array : i >= at
      BY <2>2 DEF Listed
    <2>4. QED
      BY <1>2, <2>1, <2>2, <2>3
  <1>13. LP!FoundUnlessRaced'
    <2>1. CASE raced
      BY <1>1, <2>1 DEF LP!FoundUnlessRaced
    <2>2. CASE ~raced
      <3>1. ~(at > end)
        BY <1>2, <1>12, <2>2
      <3>2. UNCHANGED missed
        BY <1>3, <2>2, <3>1
      <3>3. QED
        BY <1>1, <3>2 DEF HomeInv, LP!FoundUnlessRaced
    <2>3. QED
      BY <2>1, <2>2
  <1>14. ASSUME ~raced' PROVE Calm'
    <2>1. Calm /\ ~raced
      BY <1>1, <1>12, <1>14
    <2>2. /\ \A q \in Plugins : Pushing(q)' <=> Pushing(q)
          /\ \A q \in Plugins : phase'[q] = phase[q]
          /\ \A u \in RustThreads : LP!Searching(u)' => LP!Searching(u)
      BY <1>1, <1>10 DEF Pushing
    <2>3. \A q \in Plugins : Listed(q, 1) => Listed(q, 1)'
      BY <1>1 DEF Listed
    <2>4. ASSUME NEW u \in RustThreads, LP!Searching(u)'
          PROVE  Listed(search[u].from, search[u].at)'
      <3>1. CASE u = r
        <4>1. /\ search'[u].from = from /\ search'[u].at = at + 1
              /\ at =< end /\ ctx_array[at].id # ctx[from]
          BY <1>4, <2>4, <3>1 DEF LP!Searching, LP!NoSearch
        <4>2. PICK i \in DOMAIN ctx_array : i >= at /\ ctx_array[i].plugin = from
          BY <1>1, <2>1 DEF Calm, Listed
        <4>3. i # at
          BY <4>1, <4>2 DEF TableSound
        <4>4. i >= at + 1
          BY <1>2, <4>2, <4>3
        <4>5. QED
          BY <1>1, <4>1, <4>2, <4>4 DEF Listed
      <3>2. CASE u # r
        <4>1. Listed(search[u].from, search[u].at) /\ search'[u] = search[u]
          BY <1>4, <1>10, <2>1, <2>4, <3>2 DEF Calm
        <4>2. QED
          BY <1>1, <4>1 DEF Listed
      <3>3. QED
        BY <3>1, <3>2
    <2>5. QED
      BY <1>1, <2>1, <2>2, <2>3, <2>4 DEF Calm
  <1>15. QED
    BY <1>7, <1>8, <1>9, <1>11, <1>13, <1>14 DEF HomeInv

LEMMA HomeStep ==
  ASSUME MaxSent \in Nat, HomeInv, LP!Next \/ UNCHANGED localVars
  PROVE  HomeInv'
  <1>1. CASE UNCHANGED localVars
    <2>1. UNCHANGED <<phase, ctx_next_id, ctx, ctx_array, end, size, search, sent, arrived, missed, raced>>
      BY <1>1 DEF localVars
    <2>2. LP!TypeOK'
      BY <2>1 DEF HomeInv, LP!TypeOK
    <2>3. IdsGivenOnce' /\ TableSound' /\ SearchSound'
      BY <2>1 DEF HomeInv, IdsGivenOnce, TableSound, SearchSound, LP!Searching
    <2>4. LP!MessagesGoHome' /\ LP!FoundUnlessRaced'
      BY <2>1 DEF HomeInv, LP!MessagesGoHome, LP!FoundUnlessRaced
    <2>5. ASSUME ~raced' PROVE Calm'
      <3>1. Calm
        BY <2>1, <2>5 DEF HomeInv
      <3>2. QED
        BY <2>1, <3>1 DEF Calm, Listed, Pushing, LP!Searching
    <2>6. QED
      BY <2>2, <2>3, <2>4, <2>5 DEF HomeInv
  <1>2. CASE LP!Next
    BY <1>2, HomeNewContext, HomePushBegin, HomePushEnd, HomeLives, HomeSends, HomeSearches DEF LP!Next
  <1>3. QED
    BY <1>1, <1>2

--------------------------------------------------------------------------------
(* NativeJS has its types: MessagesGoHome of MCHostedCode says that too. *)

LEMMA NativeStep ==
  ASSUME MaxJsCalls \in Nat, NJ!TypeOK, NJ!Next \/ UNCHANGED jsVars
  PROVE  NJ!TypeOK'
  <1> USE DEF NJ!TypeOK, NJ!applications, NJ!pending
  <1>1. CASE NJ!Initialize
    BY <1>1 DEF NJ!Initialize
  <1>2. CASE NJ!MakeRenderer \/ NJ!Run
    BY <1>2 DEF NJ!MakeRenderer, NJ!Run
  <1>3. CASE NJ!Reset
    BY <1>3 DEF NJ!Reset
  <1>4. CASE NJ!Deinitialize
    <2>1. /\ js = "active" /\ js' = IF NJ!mNativeJSRenderer THEN "join" ELSE "done"
          /\ UNCHANGED <<render, created, jsRunning, gPendingIdOptionsRequest, gPendingUrl, jsCalls>>
      BY <1>4 DEF NJ!Deinitialize
    <2>2. joined' = NJ!mNativeJSRenderer /\ terminated' = NJ!mNativeJSRenderer
      BY <1>4 DEF NJ!Deinitialize
    <2>3. joined' \in BOOLEAN /\ terminated' \in BOOLEAN
      <3>1. NJ!mNativeJSRenderer \in BOOLEAN
        BY DEF NJ!mNativeJSRenderer
      <3>2. QED
        BY <2>2, <3>1
    <2>4. js' = "join" => joined'
      <3>1. js' = "join" => NJ!mNativeJSRenderer
        BY <2>1
      <3>2. QED
        BY <2>2, <3>1, Zenon
    <2>5. QED
      BY <2>1, <2>3, <2>4
  <1>5. CASE NJ!Joined
    BY <1>5 DEF NJ!Joined
  <1>6. ASSUME NEW a \in Applications, NJ!CreateApplication(a) PROVE NJ!TypeOK'
    <2>1. gPendingIdOptionsRequest' = (gPendingIdOptionsRequest \/ ~NJ!mNativeJSRenderer)
      BY <1>6 DEF NJ!CreateApplication
    <2>2. gPendingIdOptionsRequest' \in BOOLEAN
      BY <2>1, Zenon
    <2>3. jsCalls' \in 0 .. MaxJsCalls
      BY <1>6 DEF NJ!CreateApplication, NJ!Call
    <2>4. created' = created \/ created' = created \cup {a}
      BY <1>6 DEF NJ!CreateApplication
    <2>5. UNCHANGED <<js, render, terminated, jsRunning, gPendingUrl, joined>>
      BY <1>6 DEF NJ!CreateApplication
    <2>6. QED
      BY <2>2, <2>3, <2>4, <2>5
  <1>7. ASSUME NEW a \in Applications, NJ!RunApplication(a) PROVE NJ!TypeOK'
    <2>1. jsCalls' \in 0 .. MaxJsCalls
      BY <1>7 DEF NJ!RunApplication, NJ!Call
    <2>2. QED
      BY <1>7, <2>1 DEF NJ!RunApplication
  <1>8. ASSUME NEW a \in Applications, NJ!TerminateApplication(a) PROVE NJ!TypeOK'
    <2>1. jsCalls' \in 0 .. MaxJsCalls
      BY <1>8 DEF NJ!TerminateApplication, NJ!Call
    <2>2. QED
      BY <1>8, <2>1 DEF NJ!TerminateApplication
  <1>9. CASE UNCHANGED jsVars
    BY <1>9 DEF jsVars
  <1>10. QED
    BY <1>1, <1>2, <1>3, <1>4, <1>5, <1>6, <1>7, <1>8, <1>9 DEF NJ!Next

--------------------------------------------------------------------------------
\* What Rust code sends is submitted by the plugin it belongs to and by no other,
\* although contexts are added to ctx_array on several threads without a lock and
\* may overwrite each other; and wpe_send_to finds the plugin unless the table was
\* grown while it was searched or grown.
THEOREM HomeComing ==
  ASSUME MaxSent \in Nat, MaxJsCalls \in Nat
  PROVE  HostedSpec => []MessagesGoHome
  <1>1. HostedInit => HomeInv /\ NJ!TypeOK
    <2> SUFFICES ASSUME HostedInit PROVE HomeInv /\ NJ!TypeOK
      OBVIOUS
    <2>1. NJ!TypeOK
      <3>1. NJ!Init
        BY DEF HostedInit
      <3>2. terminated \in BOOLEAN /\ joined \in BOOLEAN /\ gPendingIdOptionsRequest \in BOOLEAN
        BY <3>1, Zenon DEF NJ!Init
      <3>3. /\ js = "none" /\ render = "none" /\ created = {} /\ jsRunning = {} /\ gPendingUrl = {}
            /\ jsCalls \in 0 .. MaxJsCalls
        BY <3>1 DEF NJ!Init
      <3>4. QED
        BY <3>2, <3>3 DEF NJ!TypeOK
    <2>2. LP!Init
      BY DEF HostedInit
    <2>3. /\ \A p \in Plugins : phase[p] = "none" /\ ctx[p] = 0 /\ size[p] = 0
          /\ ctx_array = <<>> /\ end = 0 /\ ctx_next_id = 1 /\ sent = 0 /\ arrived = {}
          /\ \A r \in RustThreads : ~LP!Searching(r)
      BY <2>2 DEF LP!Init, LP!Searching
    <2>4. missed = FALSE /\ raced = FALSE
      BY <2>2 DEF LP!Init
    <2>5. LP!TypeOK
      <3>1. /\ phase \in [Plugins -> Phases] /\ ctx \in [Plugins -> Nat] /\ size \in [Plugins -> Nat]
            /\ search \in [RustThreads -> [from : Plugins \cup {"none"}, at : Nat]]
        BY <2>2 DEF LP!Init, LP!NoSearch, Phases
      <3>2. missed \in BOOLEAN /\ raced \in BOOLEAN
        BY <2>4, Zenon
      <3>3. ctx_array \in Seq(Contexts) /\ end \in 0 .. Len(ctx_array) /\ sent \in 0 .. MaxSent
        BY <2>3
      <3>4. QED
        BY <2>3, <3>1, <3>2, <3>3 DEF LP!TypeOK, Phases, Contexts
    <2>6. IdsGivenOnce /\ TableSound /\ SearchSound /\ Calm
      BY <2>3 DEF IdsGivenOnce, TableSound, SearchSound, Calm, Pushing
    <2>7. LP!MessagesGoHome /\ LP!FoundUnlessRaced
      BY <2>3, <2>4 DEF LP!MessagesGoHome, LP!FoundUnlessRaced
    <2>8. QED
      BY <2>1, <2>5, <2>6, <2>7 DEF HomeInv
  <1>2. HomeInv /\ NJ!TypeOK /\ [HostedNext]_hostedVars => HomeInv' /\ NJ!TypeOK'
    <2> SUFFICES ASSUME HomeInv, NJ!TypeOK, [HostedNext]_hostedVars PROVE HomeInv' /\ NJ!TypeOK'
      OBVIOUS
    <2>1. LP!Next \/ UNCHANGED localVars
      BY DEF HostedNext, hostedVars
    <2>2. NJ!Next \/ UNCHANGED jsVars
      BY DEF HostedNext, hostedVars
    <2>3. QED
      BY <2>1, <2>2, HomeStep, NativeStep
  <1>3. HomeInv /\ NJ!TypeOK => MessagesGoHome
    BY DEF HomeInv, MessagesGoHome
  <1>4. QED
    BY <1>1, <1>2, <1>3, PTL DEF HostedSpec

------------------------------------------------------------------------------
(***************************************************************************)
(* RemotePlugin: what is written to the host, and what comes back.         *)
(***************************************************************************)

SenderRecords == [msg : 0..MaxMessages, k : 0..3, n : 0..3, on : 0..MaxConnections]
Pieces == [msg : 0..MaxMessages, k : 1..3, n : 1..3]
Responses == [k : 1..2, n : 1..2]

\* The types, in the groups that change together.  A read has a socket, and a sender's
\* piece is one of its message's.
SocketTypes ==
  /\ plugin \in {"none", "active", "waiting", "closing", "done"}
  /\ serverSocket \in BOOLEAN /\ (serverSocket <=> plugin \in {"active", "waiting", "closing"})
  /\ clientSocket \in 0..MaxConnections /\ running \in BOOLEAN
  /\ reader \in {"none", "start", "set", "loop", "select", "header", "json", "ended"}
  /\ reader \in {"header", "json"} => clientSocket # 0

SenderTypes ==
  /\ sender \in [Senders -> SenderRecords] /\ messages \in 0..MaxMessages
  /\ \A s \in Senders : sender[s] # NotSending =>
       sender[s].n \in 1..3 /\ sender[s].k \in 1..sender[s].n

HostTypes ==
  /\ host \in {"none", "up", "exited"} /\ remotePid \in BOOLEAN
  /\ link \in [Connections -> {"none", "pending", "open", "left", "closed"}]

\* The last message written is not complete.
Cut(pieces) == pieces # <<>> /\ pieces[Len(pieces)].k # pieces[Len(pieces)].n

\* Unless something was torn, one sender at most is in the middle of a message, and only
\* on its connection is a message cut short, at the piece before the sender's next.
StreamShape ==
  /\ \A c \in Connections : Whole(stream[c])
  /\ \A c \in Connections : Cut(stream[c]) => \E s \in Senders : MidMessage(s) /\ sender[s].on = c
  /\ \A s, o \in Senders : MidMessage(s) /\ MidMessage(o) => s = o
  /\ \A s \in Senders : MidMessage(s) =>
       /\ sender[s].on \in Connections /\ stream[sender[s].on] # <<>>
       /\ stream[sender[s].on][Len(stream[sender[s].on])] = Piece(sender[s].msg, sender[s].k - 1, sender[s].n)

StreamTypes == stream \in [Connections -> Seq(Pieces)] /\ torn \in BOOLEAN /\ (torn \/ StreamShape)

------------------------------------------------------------------------------
SocketActions ==
  \/ \E autoExec \in BOOLEAN : Initialize(autoExec)
  \/ DeinitializeExit \/ DeinitializeWait \/ DeinitializeClose \/ Reader

LEMMA SocketChanges == Next => SocketActions \/ UNCHANGED <<plugin, serverSocket, clientSocket, running, reader>>
  <1> SUFFICES ASSUME Next PROVE SocketActions \/ UNCHANGED <<plugin, serverSocket, clientSocket, running, reader>>
    OBVIOUS
  <1>1. CASE (\E autoExec \in BOOLEAN : Initialize(autoExec)) \/ DeinitializeExit \/ Deinitialize \/ Reader
    BY <1>1 DEF SocketActions, Deinitialize
  <1>2. ASSUME NEW s \in Senders, Send(s) \/ \E n \in 1..3 : SendBegin(s, n)
        PROVE  UNCHANGED <<plugin, serverSocket, clientSocket, running, reader>>
    BY <1>2 DEF Send, SendPiece, SendFails, SendBegin, socketVars
  <1>3. ASSUME NEW c \in Connections, HostConnects(c) \/ HostContinues(c) \/ \E n \in 1..2 : HostReplies(c, n)
        PROVE  UNCHANGED <<plugin, serverSocket, clientSocket, running, reader>>
    BY <1>3 DEF HostConnects, HostContinues, HostReplies, socketVars
  <1>4. CASE HostObeys \/ HostCrashes
    BY <1>4 DEF HostObeys, HostCrashes, HostEnds, socketVars
  <1>5. QED
    BY <1>1, <1>2, <1>3, <1>4 DEF Next

LEMMA ReaderKeepsSockets == ASSUME SocketTypes, Reader PROVE SocketTypes'
  <1>0. /\ plugin \in {"none", "active", "waiting", "closing", "done"}
        /\ serverSocket \in BOOLEAN /\ (serverSocket <=> plugin \in {"active", "waiting", "closing"})
        /\ clientSocket \in 0..MaxConnections /\ running \in BOOLEAN
    BY DEF SocketTypes
  <1>1. UNCHANGED <<plugin, serverSocket>>
    BY DEF Reader, ReaderGoes, RunCheck, RunSet, RunLoop, SelectTimesOut, SelectAccepts, SelectReads,
           ReadRefused, ReadPiece, ReadEnd
  <1>2. running' \in BOOLEAN
    <2>1. CASE RunSet
      BY <2>1 DEF RunSet
    <2>2. CASE ~RunSet
      BY <1>0, <2>2 DEF Reader, ReaderGoes, RunCheck, RunLoop, SelectTimesOut, SelectAccepts, SelectReads,
                        ReadRefused, ReadPiece, ReadEnd
    <2>3. QED
      BY <2>1, <2>2
  <1>3. /\ clientSocket' \in 0..MaxConnections
        /\ reader' \in {"none", "start", "set", "loop", "select", "header", "json", "ended"}
        /\ reader' \in {"header", "json"} => clientSocket' # 0
    <2>1. CASE RunCheck \/ RunSet \/ RunLoop \/ SelectTimesOut
      BY <1>0, <2>1 DEF RunCheck, RunSet, RunLoop, SelectTimesOut, ReaderGoes
    <2>2. ASSUME NEW c \in Connections, SelectAccepts(c)
          PROVE  clientSocket' \in 0..MaxConnections /\ reader' = "loop"
      BY RemoteConstants, <2>2 DEF SelectAccepts, ReaderGoes, Connections
    <2>3. CASE SelectReads
      BY <1>0, <2>3 DEF SelectReads, ReaderGoes
    <2>4. CASE ReadRefused \/ ReadPiece
      BY <1>0, <2>4 DEF ReadRefused, ReadPiece, ReaderGoes, SocketTypes
    <2>5. CASE ReadEnd
      BY RemoteConstants, <2>5 DEF ReadEnd, ReaderGoes
    <2>6. QED
      BY <2>1, <2>2, <2>3, <2>4, <2>5 DEF Reader
  <1>4. QED
    BY <1>0, <1>1, <1>2, <1>3 DEF SocketTypes

LEMMA SocketsKeep == ASSUME SocketTypes, [Next]_vars PROVE SocketTypes'
  <1>1. CASE UNCHANGED <<plugin, serverSocket, clientSocket, running, reader>>
    BY <1>1 DEF SocketTypes
  <1>2. ASSUME NEW autoExec \in BOOLEAN, Initialize(autoExec) PROVE SocketTypes'
    BY <1>2 DEF Initialize, Open, RunThread, SocketTypes
  <1>3. CASE DeinitializeExit
    <2>1. plugin = "active" /\ plugin' = "waiting" /\ UNCHANGED <<serverSocket, clientSocket, reader>>
      BY <1>3 DEF DeinitializeExit
    <2>2. running' \in BOOLEAN
      BY <1>3 DEF DeinitializeExit, SocketTypes
    <2>3. QED
      BY <2>1, <2>2 DEF SocketTypes
  <1>4. CASE DeinitializeWait
    BY <1>4 DEF DeinitializeWait, socketVars, SocketTypes
  <1>5. CASE DeinitializeClose
    BY <1>5 DEF DeinitializeClose, SocketTypes
  <1>6. CASE Reader
    BY <1>6, ReaderKeepsSockets
  <1>7. CASE SocketActions
    BY <1>2, <1>3, <1>4, <1>5, <1>6, <1>7 DEF SocketActions
  <1>8. QED
    BY <1>1, <1>7, SocketChanges DEF vars, socketVars

------------------------------------------------------------------------------
LEMMA SenderChanges ==
  Next => \/ \E s \in Senders : SendPiece(s) \/ SendFails(s) \/ \E n \in 1..3 : SendBegin(s, n)
          \/ UNCHANGED <<sender, messages>>
  <1> SUFFICES ASSUME Next
               PROVE  \/ \E s \in Senders : SendPiece(s) \/ SendFails(s) \/ \E n \in 1..3 : SendBegin(s, n)
                      \/ UNCHANGED <<sender, messages>>
    OBVIOUS
  <1>1. CASE (\E autoExec \in BOOLEAN : Initialize(autoExec)) \/ DeinitializeExit \/ Deinitialize
    BY <1>1 DEF Initialize, DeinitializeExit, Deinitialize, DeinitializeWait, DeinitializeClose
  <1>2. CASE Reader
    BY <1>2 DEF Reader, ReaderGoes, RunCheck, RunSet, RunLoop, SelectTimesOut, SelectAccepts, SelectReads,
                ReadRefused, ReadPiece, ReadEnd
  <1>3. ASSUME NEW c \in Connections, HostConnects(c) \/ HostContinues(c) \/ \E n \in 1..2 : HostReplies(c, n)
        PROVE  UNCHANGED <<sender, messages>>
    BY <1>3 DEF HostConnects, HostContinues, HostReplies
  <1>4. CASE HostObeys \/ HostCrashes
    BY <1>4 DEF HostObeys, HostCrashes, HostEnds
  <1>5. QED
    BY <1>1, <1>2, <1>3, <1>4 DEF Next, Send

LEMMA SendersKeep == ASSUME SenderTypes, SocketTypes, [Next]_vars PROVE SenderTypes'
  <1>0. /\ sender \in [Senders -> SenderRecords] /\ messages \in 0..MaxMessages
        /\ clientSocket \in 0..MaxConnections /\ MaxMessages \in Nat /\ MaxConnections \in Nat
    BY RemoteConstants DEF SenderTypes, SocketTypes
  <1>1. CASE UNCHANGED <<sender, messages>>
    BY <1>1 DEF SenderTypes
  <1>2. ASSUME NEW s \in Senders, NEW n \in 1..3, SendBegin(s, n) PROVE SenderTypes'
    <2>1. messages' \in 0..MaxMessages
      BY <1>0, <1>2 DEF SendBegin
    <2>2. PICK new : new = [msg |-> messages', k |-> 1, n |-> n, on |-> 0]
      OBVIOUS
    <2>3. new \in SenderRecords /\ new.n = n /\ new.k = 1
      BY <1>0, <2>1, <2>2 DEF SenderRecords
    <2>4. sender' = [sender EXCEPT ![s] = new] \/ sender' = sender
      BY <1>2, <2>2 DEF SendBegin
    <2>5. QED
      BY <1>0, <2>1, <2>3, <2>4 DEF SenderTypes
  <1>3. ASSUME NEW s \in Senders, SendFails(s) PROVE SenderTypes'
    <2>1. sender' = [sender EXCEPT ![s] = NotSending] /\ messages' = messages
      BY <1>3 DEF SendFails
    <2>2. NotSending \in SenderRecords
      BY <1>0 DEF NotSending, SenderRecords
    <2>3. QED
      BY <1>0, <2>1, <2>2 DEF SenderTypes
  <1>4. ASSUME NEW s \in Senders, SendPiece(s) PROVE SenderTypes'
    <2>1. PICK p \in SenderRecords : p = sender[s]
      BY <1>0
    <2>2. PICK new : new = [p EXCEPT !.k = @ + 1, !.on = clientSocket]
      OBVIOUS
    <2>3. p # NotSending /\ p.n \in 1..3 /\ p.k \in 1..p.n
      BY <1>4, <2>1 DEF SendPiece, SenderTypes
    <2>4. p.k # p.n => new \in SenderRecords /\ new.n = p.n /\ new.k = p.k + 1
      <3> SUFFICES ASSUME p.k # p.n PROVE new \in SenderRecords /\ new.n = p.n /\ new.k = p.k + 1
        OBVIOUS
      <3>1. p.k + 1 \in 0..3 /\ clientSocket \in 0..MaxConnections
        BY <1>0, <2>3
      <3>2. p \in [msg : 0..MaxMessages, k : 0..3, n : 0..3, on : 0..MaxConnections]
        BY DEF SenderRecords
      <3>3. new \in SenderRecords
        BY <2>2, <3>1, <3>2 DEF SenderRecords
      <3>4. new.n = p.n /\ new.k = p.k + 1
        BY <2>2, <3>2
      <3>5. QED
        BY <3>3, <3>4
    <2>5. sender' = [sender EXCEPT ![s] = IF p.k = p.n THEN NotSending ELSE new] /\ messages' = messages
      BY <1>4, <2>1, <2>2 DEF SendPiece
    <2>6. NotSending \in SenderRecords
      BY <1>0 DEF NotSending, SenderRecords
    <2>7. QED
      BY <1>0, <2>3, <2>4, <2>5, <2>6 DEF SenderTypes
  <1>5. QED
    BY <1>1, <1>2, <1>3, <1>4, SenderChanges DEF vars

LEMMA HostKeeps == ASSUME HostTypes, [Next]_vars PROVE HostTypes'
  <1>0. /\ host \in {"none", "up", "exited"} /\ remotePid \in BOOLEAN
        /\ link \in [Connections -> {"none", "pending", "open", "left", "closed"}]
    BY DEF HostTypes
  <1>1. CASE UNCHANGED vars
    BY <1>1 DEF HostTypes, vars, hostVars
  <1>2. ASSUME NEW autoExec \in BOOLEAN, Initialize(autoExec) PROVE HostTypes'
    BY <1>2 DEF Initialize, LaunchRemoteProcess, HostTypes
  <1>3. CASE DeinitializeExit \/ DeinitializeWait
    BY <1>3 DEF DeinitializeExit, DeinitializeWait, hostVars, HostTypes
  <1>4. CASE DeinitializeClose
    BY <1>4 DEF DeinitializeClose, HostTypes
  <1>5. ASSUME NEW s \in Senders, Send(s) \/ \E n \in 1..3 : SendBegin(s, n) PROVE HostTypes'
    BY <1>5 DEF Send, SendPiece, SendFails, SendBegin, hostVars, HostTypes
  <1>6. CASE RunCheck \/ RunSet \/ RunLoop \/ SelectTimesOut \/ SelectReads \/ ReadRefused
    BY <1>6 DEF RunCheck, RunSet, RunLoop, SelectTimesOut, SelectReads, ReadRefused, hostVars, HostTypes
  <1>7. CASE (\E c \in Connections : SelectAccepts(c)) \/ ReadPiece \/ ReadEnd
    <2>1. ASSUME NEW c \in Connections, SelectAccepts(c) PROVE HostTypes'
      BY <2>1 DEF SelectAccepts, HostTypes
    <2>2. CASE ReadPiece
      BY <2>2 DEF ReadPiece, HostTypes
    <2>3. CASE ReadEnd
      BY <2>3 DEF ReadEnd, HostTypes
    <2>4. QED
      BY <1>7, <2>1, <2>2, <2>3
  <1>8. ASSUME NEW c \in Connections, HostConnects(c) \/ HostContinues(c) \/ \E n \in 1..2 : HostReplies(c, n)
        PROVE  HostTypes'
    BY <1>8 DEF HostConnects, HostContinues, HostReplies, HostTypes
  <1>9. CASE HostObeys \/ HostCrashes
    BY <1>9 DEF HostObeys, HostCrashes, HostEnds, HostTypes
  <1>10. QED
    BY <1>1, <1>2, <1>3, <1>4, <1>5, <1>6, <1>7, <1>8, <1>9 DEF Next, Reader, Deinitialize

LEMMA StreamChanges ==
  Next => \/ \E s \in Senders : SendPiece(s) \/ SendFails(s) \/ \E n \in 1..3 : SendBegin(s, n)
          \/ DeinitializeExit
          \/ UNCHANGED <<sender, stream, torn>>
  <1> SUFFICES ASSUME Next
               PROVE  \/ \E s \in Senders : SendPiece(s) \/ SendFails(s) \/ \E n \in 1..3 : SendBegin(s, n)
                      \/ DeinitializeExit
                      \/ UNCHANGED <<sender, stream, torn>>
    OBVIOUS
  <1>1. CASE (\E autoExec \in BOOLEAN : Initialize(autoExec)) \/ Deinitialize
    BY <1>1 DEF Initialize, Deinitialize, DeinitializeWait, DeinitializeClose
  <1>2. CASE Reader
    BY <1>2 DEF Reader, ReaderGoes, RunCheck, RunSet, RunLoop, SelectTimesOut, SelectAccepts, SelectReads,
                ReadRefused, ReadPiece, ReadEnd
  <1>3. ASSUME NEW c \in Connections, HostConnects(c) \/ HostContinues(c) \/ \E n \in 1..2 : HostReplies(c, n)
        PROVE  UNCHANGED <<sender, stream, torn>>
    BY <1>3 DEF HostConnects, HostContinues, HostReplies
  <1>4. CASE HostObeys \/ HostCrashes
    BY <1>4 DEF HostObeys, HostCrashes, HostEnds
  <1>5. QED
    BY <1>1, <1>2, <1>3, <1>4 DEF Next, Send

\* A piece that carries on where the stream ends leaves it whole.
CarriesOn(pieces, piece) ==
  IF Cut(pieces) THEN piece = [pieces[Len(pieces)] EXCEPT !.k = @ + 1] ELSE piece.k = 1

LEMMA WholeAppend ==
  ASSUME NEW pieces \in Seq(Pieces), NEW piece \in Pieces, Whole(pieces), CarriesOn(pieces, piece)
  PROVE  Whole(Append(pieces, piece))
  <1>1. PICK after : after = Append(pieces, piece)
    OBVIOUS
  <1>2. /\ after \in Seq(Pieces) /\ Len(after) = Len(pieces) + 1 /\ after[Len(pieces) + 1] = piece
        /\ \A i \in 1..Len(pieces) : after[i] = pieces[i]
    BY <1>1
  <1>3. ASSUME NEW i \in DOMAIN after
        PROVE  IF i = 1 THEN after[1].k = 1
               ELSE LET last == after[i - 1]
                    IN  IF last.k = last.n THEN after[i].k = 1 ELSE after[i] = [last EXCEPT !.k = @ + 1]
    <2>1. CASE i \in 1..Len(pieces)
      <3>1. after[i] = pieces[i] /\ i \in DOMAIN pieces /\ (i # 1 => after[i - 1] = pieces[i - 1])
        BY <1>2, <2>1
      <3>2. IF i = 1 THEN pieces[1].k = 1
            ELSE LET last == pieces[i - 1]
                 IN  IF last.k = last.n THEN pieces[i].k = 1 ELSE pieces[i] = [last EXCEPT !.k = @ + 1]
        BY <3>1 DEF Whole
      <3>3. QED
        BY <3>1, <3>2
    <2>2. CASE i = Len(pieces) + 1
      <3>1. CASE pieces = <<>>
        BY <1>2, <2>2, <3>1 DEF CarriesOn, Cut
      <3>2. CASE pieces # <<>>
        <4>1. i # 1 /\ i - 1 = Len(pieces) /\ after[i - 1] = pieces[Len(pieces)]
          BY <1>2, <2>2, <3>2
        <4>2. QED
          BY <1>2, <2>2, <3>2, <4>1 DEF CarriesOn, Cut
      <3>3. QED
        BY <3>1, <3>2
    <2>3. i \in 1..Len(pieces) + 1
      BY <1>2
    <2>4. QED
      BY <2>1, <2>2, <2>3
  <1>4. QED
    BY <1>1, <1>3 DEF Whole

\* What a piece on the client's socket does to the streams.
LEMMA WriteKeeps ==
  ASSUME NEW piece \in Pieces, stream \in [Connections -> Seq(Pieces)], clientSocket \in Connections, Write(piece)
  PROVE  /\ stream' \in [Connections -> Seq(Pieces)]
         /\ stream'[clientSocket] = Append(stream[clientSocket], piece)
         /\ \A c \in Connections \ {clientSocket} : stream'[c] = stream[c]
  <1>1. PICK on \in Connections : on = clientSocket
    OBVIOUS
  <1>2. stream' = [stream EXCEPT ![on] = Append(stream[on], piece)]
    BY <1>1 DEF Write
  <1>3. stream[on] \in Seq(Pieces)
    BY <1>1
  <1>4. Append(stream[on], piece) \in Seq(Pieces)
    BY <1>3
  <1>5. QED
    BY <1>1, <1>2, <1>4

LEMMA CutLast ==
  ASSUME NEW pieces \in Seq(Pieces), NEW piece \in Pieces
  PROVE  /\ Append(pieces, piece) # <<>>
         /\ Append(pieces, piece)[Len(Append(pieces, piece))] = piece
         /\ Cut(Append(pieces, piece)) <=> piece.k # piece.n
  BY DEF Cut

\* A sender writes the next piece of its message.
LEMMA SendPieceKeepsStreams ==
  ASSUME SenderTypes, SocketTypes, StreamTypes, NEW s \in Senders, SendPiece(s)
  PROVE  StreamTypes'
  <1>0. /\ sender \in [Senders -> SenderRecords] /\ clientSocket \in 0..MaxConnections /\ MaxConnections \in Nat
        /\ stream \in [Connections -> Seq(Pieces)] /\ torn \in BOOLEAN /\ MaxMessages \in Nat
    BY RemoteConstants DEF SenderTypes, SocketTypes, StreamTypes
  <1>1. PICK p \in SenderRecords : p = sender[s]
    BY <1>0
  <1>2. p \in [msg : 0..MaxMessages, k : 0..3, n : 0..3, on : 0..MaxConnections]
    BY DEF SenderRecords
  <1>3. p # NotSending /\ p.n \in 1..3 /\ p.k \in 1..p.n
    BY <1>1 DEF SendPiece, SenderTypes
  <1>4. PICK on \in Connections : on = clientSocket
    BY <1>0 DEF SendPiece, Writable, Connections
  <1>5. PICK piece : piece = Piece(p.msg, p.k, p.n)
    OBVIOUS
  <1>6. piece \in Pieces /\ piece.msg = p.msg /\ piece.k = p.k /\ piece.n = p.n
    BY <1>2, <1>3, <1>5 DEF Piece, Pieces
  <1>7. PICK new : new = [p EXCEPT !.k = @ + 1, !.on = on]
    OBVIOUS
  <1>8. new.msg = p.msg /\ new.k = p.k + 1 /\ new.n = p.n /\ new.on = on
    BY <1>2, <1>7
  <1>9. Write(piece) /\ sender' = [sender EXCEPT ![s] = IF p.k = p.n THEN NotSending ELSE new]
    BY <1>1, <1>4, <1>5, <1>7 DEF SendPiece
  <1>10. torn' = (torn \/ (\E o \in Senders \ {s} : MidMessage(o)) \/ (MidMessage(s) /\ p.on # clientSocket))
    BY <1>1 DEF SendPiece
  <1>11. torn' \in BOOLEAN
    BY <1>10, ZenonT(20)
  <1>12. /\ stream' \in [Connections -> Seq(Pieces)]
         /\ stream'[on] = Append(stream[on], piece)
         /\ \A c \in Connections \ {on} : stream'[c] = stream[c]
    BY <1>0, <1>4, <1>6, <1>9, WriteKeeps
  <1>13. ASSUME ~torn' PROVE StreamShape'
    <2>1. /\ ~torn /\ \A o \in Senders \ {s} : ~MidMessage(o)
          /\ ~(MidMessage(s) /\ p.on # clientSocket)
      BY <1>10, <1>13, ZenonT(20)
    <2>2. StreamShape /\ (p.k > 1 => p.on = on)
      BY <1>1, <1>4, <2>1 DEF StreamTypes, MidMessage
    <2>3. PICK pieces \in Seq(Pieces) : pieces = stream[on]
      BY <1>0
    <2>4. CarriesOn(pieces, piece)
      <3>1. CASE p.k = 1
        <4>1. \A o \in Senders : ~MidMessage(o)
          BY <1>1, <2>1, <3>1 DEF MidMessage
        <4>2. ~Cut(pieces)
          BY <2>2, <2>3, <4>1 DEF StreamShape
        <4>3. QED
          BY <1>6, <3>1, <4>2 DEF CarriesOn
      <3>2. CASE p.k # 1
        <4>1. MidMessage(s) /\ p.on = on
          BY <1>1, <1>3, <2>2, <3>2 DEF MidMessage
        <4>2. pieces # <<>> /\ pieces[Len(pieces)] = Piece(p.msg, p.k - 1, p.n)
          BY <1>1, <2>2, <2>3, <4>1 DEF StreamShape
        <4>3. Cut(pieces)
          BY <1>3, <4>2 DEF Cut, Piece
        <4>4. piece = [Piece(p.msg, p.k - 1, p.n) EXCEPT !.k = @ + 1]
          BY <1>2, <1>3, <1>5 DEF Piece
        <4>5. QED
          BY <4>2, <4>3, <4>4 DEF CarriesOn
      <3>3. QED
        BY <3>1, <3>2
    <2>5. Whole(pieces)
      BY <2>2, <2>3 DEF StreamShape
    <2>6. Whole(Append(pieces, piece))
      BY <1>6, <2>4, <2>5, WholeAppend
    <2>7. /\ Append(pieces, piece) # <<>>
          /\ Append(pieces, piece)[Len(Append(pieces, piece))] = piece
          /\ Cut(Append(pieces, piece)) <=> piece.k # piece.n
      BY <1>6, CutLast
    <2>8. PICK after : after = Append(pieces, piece)
      OBVIOUS
    <2>9. /\ stream'[on] = after /\ Whole(after) /\ after # <<>> /\ after[Len(after)] = piece
          /\ Cut(after) <=> p.k # p.n
      BY <1>6, <1>12, <2>3, <2>6, <2>7, <2>8
    <2>10. ASSUME NEW c \in Connections, c # on PROVE stream'[c] = stream[c] /\ Whole(stream[c]) /\ ~Cut(stream[c])
      <3>1. ASSUME NEW o \in Senders, MidMessage(o) PROVE sender[o].on # c
        BY <1>1, <2>1, <2>2, <2>10, <3>1 DEF MidMessage
      <3>2. QED
        BY <1>12, <2>2, <2>10, <3>1 DEF StreamShape
    <2>11. ASSUME NEW o \in Senders, sender'[o].k > 1 PROVE o = s /\ sender'[o] = new /\ p.k # p.n
      <3>1. CASE o = s
        <4>1. sender'[s] = IF p.k = p.n THEN NotSending ELSE new
          BY <1>0, <1>9
        <4>2. ~(NotSending.k > 1)
          BY DEF NotSending
        <4>3. QED
          BY <2>11, <3>1, <4>1, <4>2
      <3>2. CASE o # s
        BY <1>0, <1>9, <2>1, <2>11, <3>2 DEF MidMessage
      <3>3. QED
        BY <3>1, <3>2
    <2>12. p.k # p.n => sender'[s] = new
      BY <1>0, <1>9
    <2>13. \A c \in Connections : Whole(stream'[c])
      BY <2>9, <2>10
    <2>14. ASSUME NEW c \in Connections, Cut(stream'[c])
           PROVE  \E o \in Senders : sender'[o].k > 1 /\ sender'[o].on = c
      <3>1. c = on /\ p.k # p.n
        BY <2>9, <2>10, <2>14
      <3>2. QED
        BY <1>3, <1>8, <2>12, <3>1
    <2>15. ASSUME NEW o \in Senders, sender'[o].k > 1
           PROVE  /\ sender'[o].on \in Connections /\ stream'[sender'[o].on] # <<>>
                  /\ stream'[sender'[o].on][Len(stream'[sender'[o].on])]
                       = Piece(sender'[o].msg, sender'[o].k - 1, sender'[o].n)
      <3>1. sender'[o] = new
        BY <2>11, <2>15
      <3>2. piece = Piece(new.msg, new.k - 1, new.n)
        BY <1>3, <1>5, <1>8
      <3>3. QED
        BY <1>8, <2>9, <3>1, <3>2
    <2>16. QED
      BY <2>11, <2>13, <2>14, <2>15 DEF StreamShape, MidMessage
  <1>14. QED
    BY <1>11, <1>12, <1>13 DEF StreamTypes

\* A send that fails at the start of a message writes nothing.
LEMMA SendFailsKeepsStreams ==
  ASSUME SenderTypes, StreamTypes, NEW s \in Senders, SendFails(s) PROVE StreamTypes'
  <1>0. sender \in [Senders -> SenderRecords]
    BY DEF SenderTypes
  <1>1. /\ stream' = stream /\ sender' = [sender EXCEPT ![s] = NotSending]
        /\ stream \in [Connections -> Seq(Pieces)]
    BY DEF SendFails, StreamTypes
  <1>2. torn' = (torn \/ MidMessage(s))
    BY DEF SendFails
  <1>3. torn' \in BOOLEAN
    BY <1>2, ZenonT(20)
  <1>4. ASSUME ~torn' PROVE StreamShape'
    <2>1. ~torn /\ ~MidMessage(s)
      BY <1>2, <1>4, ZenonT(20)
    <2>2. StreamShape
      BY <2>1 DEF StreamTypes
    <2>3. ASSUME NEW o \in Senders PROVE (sender'[o].k > 1) = (sender[o].k > 1) /\ (sender[o].k > 1 => sender'[o] = sender[o])
      BY <1>0, <1>1, <2>1 DEF MidMessage, NotSending
    <2>4. ASSUME NEW c \in Connections, Cut(stream[c]) PROVE \E o \in Senders : sender'[o].k > 1 /\ sender'[o].on = c
      BY <2>2, <2>3, <2>4 DEF StreamShape, MidMessage
    <2>5. ASSUME NEW o \in Senders, sender'[o].k > 1
          PROVE  /\ sender'[o].on \in Connections /\ stream[sender'[o].on] # <<>>
                 /\ stream[sender'[o].on][Len(stream[sender'[o].on])]
                      = Piece(sender'[o].msg, sender'[o].k - 1, sender'[o].n)
      <3>1. sender'[o] = sender[o] /\ MidMessage(o)
        BY <2>3, <2>5 DEF MidMessage
      <3>2. QED
        BY <2>2, <3>1 DEF StreamShape
    <2>6. \A o, t \in Senders : sender'[o].k > 1 /\ sender'[t].k > 1 => o = t
      BY <2>2, <2>3 DEF StreamShape, MidMessage
    <2>7. QED
      BY <1>1, <2>2, <2>4, <2>5, <2>6 DEF StreamShape, MidMessage
  <1>5. QED
    BY <1>1, <1>3, <1>4 DEF StreamTypes

\* A message that begins is not in its middle.
LEMMA SendBeginKeepsStreams ==
  ASSUME SenderTypes, StreamTypes, NEW s \in Senders, NEW n \in 1..3, SendBegin(s, n) PROVE StreamTypes'
  <1>0. sender \in [Senders -> SenderRecords] /\ sender[s] = NotSending
    BY DEF SenderTypes, SendBegin
  <1>1. PICK new : new = [msg |-> messages', k |-> 1, n |-> n, on |-> 0]
    OBVIOUS
  <1>2. stream' = stream /\ torn' = torn /\ (sender' = [sender EXCEPT ![s] = new] \/ sender' = sender)
    BY <1>1 DEF SendBegin
  <1>3. ASSUME StreamShape PROVE StreamShape'
    <2>1. new.k = 1 /\ NotSending.k = 0
      BY <1>1 DEF NotSending
    <2>2. ASSUME NEW o \in Senders PROVE (sender'[o].k > 1) = (sender[o].k > 1) /\ (sender[o].k > 1 => sender'[o] = sender[o])
      BY <1>0, <1>2, <2>1
    <2>3. ASSUME NEW c \in Connections, Cut(stream[c]) PROVE \E o \in Senders : sender'[o].k > 1 /\ sender'[o].on = c
      BY <1>3, <2>2, <2>3 DEF StreamShape, MidMessage
    <2>4. ASSUME NEW o \in Senders, sender'[o].k > 1
          PROVE  /\ sender'[o].on \in Connections /\ stream[sender'[o].on] # <<>>
                 /\ stream[sender'[o].on][Len(stream[sender'[o].on])]
                      = Piece(sender'[o].msg, sender'[o].k - 1, sender'[o].n)
      <3>1. sender'[o] = sender[o] /\ MidMessage(o)
        BY <2>2, <2>4 DEF MidMessage
      <3>2. QED
        BY <1>3, <3>1 DEF StreamShape
    <2>5. \A o, t \in Senders : sender'[o].k > 1 /\ sender'[t].k > 1 => o = t
      BY <1>3, <2>2 DEF StreamShape, MidMessage
    <2>6. QED
      BY <1>2, <1>3, <2>3, <2>4, <2>5 DEF StreamShape, MidMessage
  <1>4. QED
    BY <1>2, <1>3 DEF StreamTypes

\* The message to exit is one piece.
LEMMA ExitKeepsStreams ==
  ASSUME SocketTypes, StreamTypes, DeinitializeExit PROVE StreamTypes'
  <1>0. /\ clientSocket \in 0..MaxConnections /\ MaxConnections \in Nat /\ MaxMessages \in Nat
        /\ stream \in [Connections -> Seq(Pieces)] /\ torn \in BOOLEAN
    BY RemoteConstants DEF SocketTypes, StreamTypes
  <1>1. sender' = sender
    BY DEF DeinitializeExit
  <1>2. CASE ~(serverSocket /\ Writable)
    BY <1>1, <1>2 DEF DeinitializeExit, StreamTypes, StreamShape, MidMessage
  <1>3. CASE serverSocket /\ Writable
    <2>1. PICK on \in Connections : on = clientSocket
      BY <1>0, <1>3 DEF Writable, Connections
    <2>2. PICK piece : piece = Piece(Exit, 1, 1)
      OBVIOUS
    <2>3. piece \in Pieces /\ piece.k = 1 /\ piece.n = 1
      BY <1>0, <2>2 DEF Piece, Pieces, Exit
    <2>4. Write(piece)
      BY <1>3, <2>2 DEF DeinitializeExit
    <2>5. torn' = (torn \/ \E s \in Senders : MidMessage(s))
      BY <1>3 DEF DeinitializeExit
    <2>6. torn' \in BOOLEAN
      BY <2>5, ZenonT(20)
    <2>7. /\ stream' \in [Connections -> Seq(Pieces)]
          /\ stream'[on] = Append(stream[on], piece)
          /\ \A c \in Connections \ {on} : stream'[c] = stream[c]
      BY <1>0, <2>1, <2>3, <2>4, WriteKeeps
    <2>8. ASSUME ~torn' PROVE StreamShape'
      <3>1. ~torn /\ \A s \in Senders : ~MidMessage(s)
        BY <2>5, <2>8, ZenonT(20)
      <3>2. StreamShape
        BY <3>1 DEF StreamTypes
      <3>3. \A c \in Connections : ~Cut(stream[c]) /\ Whole(stream[c])
        BY <3>1, <3>2 DEF StreamShape
      <3>4. CarriesOn(stream[on], piece)
        BY <2>3, <3>3 DEF CarriesOn
      <3>5. Whole(Append(stream[on], piece)) /\ ~Cut(Append(stream[on], piece))
        <4>1. PICK pieces \in Seq(Pieces) : pieces = stream[on]
          BY <1>0
        <4>2. Whole(pieces) /\ CarriesOn(pieces, piece)
          BY <3>3, <3>4, <4>1
        <4>3. QED
          BY <2>3, <4>1, <4>2, WholeAppend, CutLast
      <3>6. \A c \in Connections : ~Cut(stream'[c]) /\ Whole(stream'[c])
        BY <2>7, <3>3, <3>5
      <3>7. \A s \in Senders : ~(sender'[s].k > 1)
        BY <1>1, <3>1 DEF MidMessage
      <3>8. QED
        BY <3>6, <3>7 DEF StreamShape, MidMessage
    <2>9. QED
      BY <2>6, <2>7, <2>8 DEF StreamTypes
  <1>4. QED
    BY <1>2, <1>3

LEMMA StreamsKeep == ASSUME SenderTypes, SocketTypes, StreamTypes, [Next]_vars PROVE StreamTypes'
  <1>1. CASE UNCHANGED <<sender, stream, torn>>
    BY <1>1 DEF StreamTypes, StreamShape, MidMessage
  <1>2. ASSUME NEW s \in Senders, SendPiece(s) PROVE StreamTypes'
    BY <1>2, SendPieceKeepsStreams
  <1>3. ASSUME NEW s \in Senders, SendFails(s) PROVE StreamTypes'
    BY <1>3, SendFailsKeepsStreams
  <1>4. ASSUME NEW s \in Senders, NEW n \in 1..3, SendBegin(s, n) PROVE StreamTypes'
    BY <1>4, SendBeginKeepsStreams
  <1>5. CASE DeinitializeExit
    BY <1>5, ExitKeepsStreams
  <1>6. CASE UNCHANGED vars
    BY <1>1, <1>6 DEF vars
  <1>7. QED
    BY <1>1, <1>2, <1>3, <1>4, <1>5, <1>6, StreamChanges

\* A response of two pieces has its text right behind its header.
Alternates(pieces) ==
  /\ \A i \in 1..Len(pieces) : pieces[i].k = 2 => pieces[i].n = 2
  /\ \A i \in 1..Len(pieces) - 1 : pieces[i + 1].k = 2 <=> pieces[i].k = 1 /\ pieces[i].n = 2

\* The text of the last response is still to come.
TextMissing(pieces) == pieces # <<>> /\ pieces[Len(pieces)].k = 1 /\ pieces[Len(pieces)].n = 2

IncomingTypes ==
  /\ incoming \in [Connections -> Seq(Responses)]
  /\ replies \in 0..MaxReplies /\ half \in 0..MaxConnections /\ submitted \in Nat

IncomingShape ==
  \A c \in Connections :
    /\ Alternates(incoming[c])
    /\ incoming[c] # <<>> => (half = c <=> TextMissing(incoming[c]))
    /\ Len(incoming[c]) + (IF half = c THEN 1 ELSE 0) <= 2 * replies

\* The headers that wait to be read, and the connections on which a header has been read
\* and its text has not.
HeadersOf(queues) ==
  {p \in Connections \X (1..(2 * MaxReplies)) : p[2] \in DOMAIN queues[p[1]] /\ queues[p[1]][p[2]].k = 1}
MiddlesOf(queues, open) ==
  {c \in Connections : IF queues[c] = <<>> THEN open = c ELSE queues[c][1].k = 2}

\* Every response is submitted, half read or not read yet.
Counted == submitted + Cardinality(HeadersOf(incoming)) + Cardinality(MiddlesOf(incoming, half)) = replies

LEMMA CountsFinite ==
  ASSUME NEW queues, NEW open
  PROVE  /\ IsFiniteSet(HeadersOf(queues)) /\ Cardinality(HeadersOf(queues)) \in Nat
         /\ IsFiniteSet(MiddlesOf(queues, open)) /\ Cardinality(MiddlesOf(queues, open)) \in Nat
  <1>1. MaxConnections \in Nat /\ MaxReplies \in Nat /\ 2 * MaxReplies \in Nat
    BY RemoteConstants
  <1>2. IsFiniteSet(1..MaxConnections)
    BY <1>1, FS_Interval
  <1>3. IsFiniteSet(1..(2 * MaxReplies))
    BY <1>1, FS_Interval
  <1>4. IsFiniteSet(Connections \X (1..(2 * MaxReplies)))
    BY <1>2, <1>3, FS_Product DEF Connections
  <1>5. HeadersOf(queues) \subseteq Connections \X (1..(2 * MaxReplies)) /\ MiddlesOf(queues, open) \subseteq Connections
    BY DEF HeadersOf, MiddlesOf
  <1>6. IsFiniteSet(HeadersOf(queues))
    BY <1>4, <1>5, FS_Subset
  <1>7. IsFiniteSet(MiddlesOf(queues, open))
    BY <1>2, <1>5, FS_Subset DEF Connections
  <1>8. QED
    BY <1>6, <1>7, FS_CardinalityType

\* A piece behind the others adds a header if it is one.
LEMMA HeadersAppend ==
  ASSUME NEW queues \in [Connections -> Seq(Responses)], NEW c \in Connections, NEW piece \in Responses,
         Len(queues[c]) < 2 * MaxReplies
  PROVE  Cardinality(HeadersOf([queues EXCEPT ![c] = Append(queues[c], piece)])) =
           Cardinality(HeadersOf(queues)) + IF piece.k = 1 THEN 1 ELSE 0
  <1>1. PICK after : after = [queues EXCEPT ![c] = Append(queues[c], piece)]
    OBVIOUS
  <1>2. PICK rows \in Seq(Responses) : rows = queues[c]
    OBVIOUS
  <1>3. /\ after[c] = Append(rows, piece) /\ Len(rows) \in Nat /\ DOMAIN after[c] = 1..Len(rows) + 1
        /\ after[c][Len(rows) + 1] = piece /\ (\A i \in 1..Len(rows) : after[c][i] = rows[i])
        /\ DOMAIN rows = 1..Len(rows)
        /\ \A d \in Connections \ {c} : after[d] = queues[d]
    BY <1>1, <1>2
  <1>4. MaxReplies \in Nat /\ Len(rows) + 1 \in 1..(2 * MaxReplies)
    BY RemoteConstants, <1>2, <1>3
  <1>5. ASSUME NEW d \in Connections, NEW i \in 1..(2 * MaxReplies), <<d, i>> # <<c, Len(rows) + 1>>
        PROVE  (i \in DOMAIN after[d] /\ after[d][i].k = 1) <=> (i \in DOMAIN queues[d] /\ queues[d][i].k = 1)
    <2>1. CASE d = c
      <3>1. i # Len(rows) + 1
        BY <1>5, <2>1
      <3>2. i \in 1..Len(rows) + 1 <=> i \in 1..Len(rows)
        BY <1>3, <3>1
      <3>3. QED
        BY <1>2, <1>3, <2>1, <3>2
    <2>2. CASE d # c
      BY <1>3, <2>2
    <2>3. QED
      BY <2>1, <2>2
  <1>6. PICK new : new = <<c, Len(rows) + 1>>
    OBVIOUS
  <1>7. new \in Connections \X (1..(2 * MaxReplies)) /\ new[1] = c /\ new[2] = Len(rows) + 1
    BY <1>4, <1>6
  <1>8. ASSUME NEW p \in Connections \X (1..(2 * MaxReplies)), p # new
        PROVE  p \in HeadersOf(after) <=> p \in HeadersOf(queues)
    <2>1. PICK d \in Connections, i \in 1..(2 * MaxReplies) : p = <<d, i>>
      OBVIOUS
    <2>2. <<d, i>> # <<c, Len(rows) + 1>> /\ p[1] = d /\ p[2] = i
      BY <1>6, <1>8, <2>1
    <2>3. QED
      BY <1>5, <2>2 DEF HeadersOf
  <1>9. new \notin HeadersOf(queues)
    BY <1>2, <1>3, <1>7 DEF HeadersOf
  <1>10. new \in HeadersOf(after) <=> piece.k = 1
    BY <1>3, <1>7 DEF HeadersOf
  <1>11. HeadersOf(after) \subseteq Connections \X (1..(2 * MaxReplies)) /\ HeadersOf(queues) \subseteq Connections \X (1..(2 * MaxReplies))
    BY DEF HeadersOf
  <1>12. IsFiniteSet(HeadersOf(queues)) /\ Cardinality(HeadersOf(queues)) \in Nat
    BY CountsFinite
  <1>13. CASE piece.k = 1
    <2>1. HeadersOf(after) = HeadersOf(queues) \cup {new}
      BY <1>7, <1>8, <1>9, <1>10, <1>11, <1>13
    <2>2. Cardinality(HeadersOf(queues) \cup {new}) = Cardinality(HeadersOf(queues)) + 1
      BY <1>9, <1>12, FS_AddElement
    <2>3. QED
      BY <1>1, <1>13, <2>1, <2>2
  <1>14. CASE piece.k # 1
    <2>1. \A p \in Connections \X (1..(2 * MaxReplies)) : p \in HeadersOf(after) <=> p \in HeadersOf(queues)
      BY <1>8, <1>9, <1>10, <1>14
    <2>2. HeadersOf(after) = HeadersOf(queues)
      BY <1>11, <2>1, Zenon
    <2>3. QED
      BY <1>1, <1>12, <1>14, <2>2
  <1>15. QED
    BY <1>13, <1>14

\* The piece in front takes its header away, and the others move up.
LEMMA HeadersTail ==
  ASSUME NEW queues \in [Connections -> Seq(Responses)], NEW c \in Connections, queues[c] # <<>>,
         Len(queues[c]) <= 2 * MaxReplies
  PROVE  Cardinality(HeadersOf([queues EXCEPT ![c] = Tail(queues[c])])) =
           Cardinality(HeadersOf(queues)) - IF queues[c][1].k = 1 THEN 1 ELSE 0
  <1>1. PICK after : after = [queues EXCEPT ![c] = Tail(queues[c])]
    OBVIOUS
  <1>2. PICK rows \in Seq(Responses) : rows = queues[c]
    OBVIOUS
  <1>3. /\ after[c] = Tail(rows) /\ Len(rows) \in Nat \ {0} /\ DOMAIN rows = 1..Len(rows)
        /\ \A d \in Connections \ {c} : after[d] = queues[d]
    BY <1>1, <1>2
  <1>4. DOMAIN after[c] = 1..Len(rows) - 1 /\ \A i \in 1..Len(rows) - 1 : after[c][i] = rows[i + 1]
    BY <1>3
  <1>5. MaxReplies \in Nat /\ Len(rows) \in 1..(2 * MaxReplies)
    BY RemoteConstants, <1>2, <1>3
  <1>6. PICK first : first = <<c, 1>>
    OBVIOUS
  <1>7. first \in HeadersOf(queues) <=> queues[c][1].k = 1
    BY <1>2, <1>3, <1>5, <1>6 DEF HeadersOf
  <1> DEFINE Up == [p \in HeadersOf(after) |-> IF p[1] = c THEN <<c, p[2] + 1>> ELSE p]
             Rest == HeadersOf(queues) \ {first}
  <1>8. ASSUME NEW p \in HeadersOf(after)
        PROVE  /\ Up[p] \in Rest /\ Up[p][1] = p[1] /\ Up[p][2] = IF p[1] = c THEN p[2] + 1 ELSE p[2]
    <2>1. PICK d \in Connections, i \in 1..(2 * MaxReplies) : p = <<d, i>>
      BY DEF HeadersOf
    <2>2. i \in DOMAIN after[d] /\ after[d][i].k = 1 /\ p[1] = d /\ p[2] = i
      BY <2>1 DEF HeadersOf
    <2>3. CASE d = c
      <3>1. i \in 1..Len(rows) - 1 /\ rows[i + 1].k = 1
        BY <1>4, <2>2, <2>3
      <3>2. i + 1 \in 1..(2 * MaxReplies) /\ i + 1 \in DOMAIN rows /\ i + 1 # 1
        BY <1>3, <1>5, <3>1
      <3>3. Up[p] = <<c, i + 1>>
        BY <2>2, <2>3
      <3>4. <<c, i + 1>> \in HeadersOf(queues) /\ <<c, i + 1>> # first
        BY <1>2, <1>6, <3>1, <3>2 DEF HeadersOf
      <3>5. QED
        BY <2>2, <2>3, <3>3, <3>4
    <2>4. CASE d # c
      <3>1. Up[p] = p
        BY <2>2, <2>4
      <3>2. p \in HeadersOf(queues) /\ p # first
        BY <1>3, <1>6, <2>1, <2>2, <2>4 DEF HeadersOf
      <3>3. QED
        BY <2>2, <2>4, <3>1, <3>2
    <2>5. QED
      BY <2>3, <2>4
  <1>9. ASSUME NEW p \in HeadersOf(after), NEW r \in HeadersOf(after), Up[p] = Up[r] PROVE p = r
    <2>1. PICK d \in Connections, i \in 1..(2 * MaxReplies) : p = <<d, i>>
      BY DEF HeadersOf
    <2>2. PICK e \in Connections, j \in 1..(2 * MaxReplies) : r = <<e, j>>
      BY DEF HeadersOf
    <2>3. Up[p][1] = d /\ Up[p][2] = (IF d = c THEN i + 1 ELSE i) /\ Up[r][1] = e /\ Up[r][2] = (IF e = c THEN j + 1 ELSE j)
      BY <1>8, <2>1, <2>2
    <2>4. d = e /\ i = j
      BY <1>5, <1>9, <2>3
    <2>5. QED
      BY <2>1, <2>2, <2>4
  <1>10. ASSUME NEW r \in Rest PROVE \E p \in HeadersOf(after) : Up[p] = r
    <2>1. PICK d \in Connections, i \in 1..(2 * MaxReplies) : r = <<d, i>>
      BY DEF HeadersOf
    <2>2. i \in DOMAIN queues[d] /\ queues[d][i].k = 1 /\ r # first
      BY <2>1 DEF HeadersOf
    <2>3. CASE d = c
      <3>1. i \in 1..Len(rows) /\ i # 1 /\ rows[i].k = 1
        BY <1>2, <1>3, <1>6, <2>1, <2>2, <2>3
      <3>2. PICK j \in Int : j = i - 1
        BY <3>1
      <3>3. j \in 1..Len(rows) - 1 /\ j + 1 = i /\ j \in 1..(2 * MaxReplies)
        BY <1>3, <1>5, <3>1, <3>2
      <3>4. after[c][j].k = 1 /\ j \in DOMAIN after[c]
        BY <1>4, <3>1, <3>3
      <3>5. <<c, j>> \in HeadersOf(after)
        BY <3>3, <3>4 DEF HeadersOf
      <3>6. Up[<<c, j>>] = <<c, j + 1>>
        BY <3>5
      <3>7. QED
        BY <2>1, <2>3, <3>3, <3>5, <3>6
    <2>4. CASE d # c
      <3>1. r \in HeadersOf(after)
        BY <1>3, <2>1, <2>2, <2>4 DEF HeadersOf
      <3>2. Up[r] = r
        BY <2>1, <2>4, <3>1
      <3>3. QED
        BY <3>1, <3>2
    <2>5. QED
      BY <2>3, <2>4
  <1>11. Up \in Bijection(HeadersOf(after), Rest)
    <2>1. Up \in [HeadersOf(after) -> Rest]
      BY <1>8
    <2>2. Up \in Injection(HeadersOf(after), Rest)
      BY <1>9, <2>1, Fun_IsInj
    <2>3. Up \in Surjection(HeadersOf(after), Rest)
      BY <1>10, <2>1, Fun_IsSurj
    <2>4. QED
      BY <2>2, <2>3 DEF Bijection
  <1>12. ExistsBijection(HeadersOf(after), Rest)
    BY <1>11 DEF ExistsBijection
  <1>13. /\ IsFiniteSet(HeadersOf(queues)) /\ Cardinality(HeadersOf(queues)) \in Nat
         /\ IsFiniteSet(HeadersOf(after))
    BY CountsFinite
  <1>14. Cardinality(HeadersOf(after)) = Cardinality(Rest)
    <2> HIDE DEF Rest
    <2>1. QED
      BY <1>12, <1>13, FS_Bijection
  <1>15. CASE queues[c][1].k = 1
    <2>1. Cardinality(HeadersOf(queues) \ {first}) = Cardinality(HeadersOf(queues)) - 1
      BY <1>7, <1>13, <1>15, FS_RemoveElement
    <2>2. QED
      BY <1>1, <1>14, <1>15, <2>1
  <1>16. CASE queues[c][1].k # 1
    <2>1. Cardinality(HeadersOf(queues) \ {first}) = Cardinality(HeadersOf(queues))
      BY <1>7, <1>13, <1>16, FS_RemoveElement
    <2>2. QED
      BY <1>1, <1>13, <1>14, <1>16, <2>1
  <1>17. QED
    BY <1>15, <1>16

LEMMA IncomingChanges ==
  Next => \/ \E c \in Connections : HostContinues(c) \/ \E n \in 1..2 : HostReplies(c, n)
          \/ ReadPiece
          \/ UNCHANGED <<incoming, replies, half, submitted>>
  <1> SUFFICES ASSUME Next
               PROVE  \/ \E c \in Connections : HostContinues(c) \/ \E n \in 1..2 : HostReplies(c, n)
                      \/ ReadPiece
                      \/ UNCHANGED <<incoming, replies, half, submitted>>
    OBVIOUS
  <1>1. CASE (\E autoExec \in BOOLEAN : Initialize(autoExec)) \/ DeinitializeExit \/ Deinitialize
    BY <1>1 DEF Initialize, DeinitializeExit, Deinitialize, DeinitializeWait, DeinitializeClose, hostVars
  <1>2. ASSUME NEW s \in Senders, Send(s) \/ \E n \in 1..3 : SendBegin(s, n)
        PROVE  UNCHANGED <<incoming, replies, half, submitted>>
    BY <1>2 DEF Send, SendPiece, SendFails, SendBegin, hostVars
  <1>3. CASE RunCheck \/ RunSet \/ RunLoop \/ SelectTimesOut \/ SelectReads \/ ReadRefused
    BY <1>3 DEF RunCheck, RunSet, RunLoop, SelectTimesOut, SelectReads, ReadRefused, hostVars
  <1>4. CASE (\E c \in Connections : SelectAccepts(c)) \/ ReadEnd
    BY <1>4 DEF SelectAccepts, ReadEnd
  <1>5. ASSUME NEW c \in Connections, HostConnects(c) PROVE UNCHANGED <<incoming, replies, half, submitted>>
    BY <1>5 DEF HostConnects
  <1>6. CASE HostObeys \/ HostCrashes
    BY <1>6 DEF HostObeys, HostCrashes, HostEnds
  <1>7. QED
    BY <1>1, <1>2, <1>3, <1>4, <1>5, <1>6 DEF Next, Reader

\* A queue that nothing touches stays in shape.
LEMMA Untouched ==
  ASSUME IncomingTypes, IncomingShape, NEW d \in Connections, NEW h, half = d <=> h = d, NEW r \in Nat, replies <= r
  PROVE  /\ Alternates(incoming[d])
         /\ incoming[d] # <<>> => (h = d <=> TextMissing(incoming[d]))
         /\ Len(incoming[d]) + (IF h = d THEN 1 ELSE 0) <= 2 * r
  <1>1. PICK rows \in Seq(Responses) : rows = incoming[d]
    BY DEF IncomingTypes
  <1>2. /\ Alternates(rows) /\ (rows # <<>> => (half = d <=> TextMissing(rows)))
        /\ Len(rows) + (IF half = d THEN 1 ELSE 0) <= 2 * replies
    BY <1>1, Zenon DEF IncomingShape
  <1>3. Len(rows) \in Nat /\ replies \in Int
    BY <1>1, RemoteConstants DEF IncomingTypes
  <1>4. Len(rows) + (IF h = d THEN 1 ELSE 0) <= 2 * r
    BY <1>2, <1>3
  <1>5. QED
    BY <1>1, <1>2, <1>4

\* A response begins on a connection on which none is half written.
LEMMA HostRepliesKeeps ==
  ASSUME IncomingTypes, IncomingShape, Counted, NEW c \in Connections, NEW n \in 1..2, HostReplies(c, n)
  PROVE  (IncomingTypes /\ IncomingShape /\ Counted)'
  <1>0. /\ MaxReplies \in Nat /\ MaxConnections \in Nat /\ incoming \in [Connections -> Seq(Responses)]
        /\ replies \in 0..MaxReplies /\ submitted \in Nat /\ c \in Int /\ c # 0 /\ c \in 0..MaxConnections
    BY RemoteConstants DEF IncomingTypes, Connections
  <1>1. PICK piece : piece = [k |-> 1, n |-> n]
    OBVIOUS
  <1>2. piece \in Responses /\ piece.k = 1 /\ piece.n = n
    BY <1>1 DEF Responses
  <1>3. /\ half = 0 /\ replies < MaxReplies /\ replies' = replies + 1 /\ half' = (IF n = 2 THEN c ELSE 0)
        /\ incoming' = [incoming EXCEPT ![c] = Append(incoming[c], piece)] /\ submitted' = submitted
    BY <1>1 DEF HostReplies
  <1>4. PICK rows \in Seq(Responses) : rows = incoming[c]
    BY <1>0
  <1>5. /\ Alternates(rows) /\ ~TextMissing(rows) /\ Len(rows) <= 2 * replies /\ Len(rows) \in Nat
    <2>1. Alternates(rows) /\ ~TextMissing(rows) /\ Len(rows) + 0 <= 2 * replies
      BY <1>0, <1>3, <1>4 DEF IncomingShape, TextMissing
    <2>2. QED
      BY <1>0, <1>4, <2>1
  <1>6. PICK after : after = Append(rows, piece)
    OBVIOUS
  <1>7. /\ after \in Seq(Responses) /\ Len(after) = Len(rows) + 1 /\ after[Len(rows) + 1] = piece /\ after # <<>>
        /\ \A i \in 1..Len(rows) : after[i] = rows[i]
    BY <1>2, <1>6
  <1>8. incoming' = [incoming EXCEPT ![c] = after] /\ incoming'[c] = after /\ \A d \in Connections \ {c} : incoming'[d] = incoming[d]
    BY <1>0, <1>3, <1>4, <1>6
  <1>9. Alternates(after)
    <2>1. \A i \in 1..Len(after) : after[i].k = 2 => after[i].n = 2
      BY <1>2, <1>5, <1>7 DEF Alternates
    <2>2. ASSUME NEW i \in 1..Len(after) - 1 PROVE after[i + 1].k = 2 <=> after[i].k = 1 /\ after[i].n = 2
      <3>1. CASE i = Len(rows)
        <4>1. ~(rows[i].k = 1 /\ rows[i].n = 2) /\ after[i] = rows[i] /\ after[i + 1] = piece
          BY <1>5, <1>7, <2>2, <3>1 DEF TextMissing
        <4>2. QED
          BY <1>2, <4>1
      <3>2. CASE i # Len(rows)
        <4>1. i \in 1..Len(rows) - 1 /\ after[i] = rows[i] /\ after[i + 1] = rows[i + 1]
          BY <1>5, <1>7, <2>2, <3>2
        <4>2. QED
          BY <1>5, <4>1 DEF Alternates
      <3>3. QED
        BY <3>1, <3>2
    <2>3. QED
      BY <2>1, <2>2 DEF Alternates
  <1>10. TextMissing(after) <=> n = 2
    BY <1>2, <1>7 DEF TextMissing
  <1>11. IncomingTypes'
    <2>1. replies' \in 0..MaxReplies /\ half' \in 0..MaxConnections /\ submitted' \in Nat
      BY <1>0, <1>3
    <2>2. QED
      BY <1>0, <1>7, <1>8, <2>1 DEF IncomingTypes
  <1>12. IncomingShape'
    <2>1. ASSUME NEW d \in Connections
          PROVE  /\ Alternates(incoming'[d])
                 /\ incoming'[d] # <<>> => (half' = d <=> TextMissing(incoming'[d]))
                 /\ Len(incoming'[d]) + (IF half' = d THEN 1 ELSE 0) <= 2 * replies'
      <3>1. CASE d = c
        <4>1. Len(after) + (IF half' = c THEN 1 ELSE 0) <= 2 * replies'
          BY <1>0, <1>3, <1>5, <1>7
        <4>2. half' = c <=> n = 2
          BY <1>0, <1>3
        <4>3. QED
          BY <1>8, <1>9, <1>10, <3>1, <4>1, <4>2
      <3>2. CASE d # c
        <4>1. half # d /\ half' # d /\ incoming'[d] = incoming[d]
          BY <1>3, <1>8, <3>2, RemoteConstants DEF Connections
        <4>2. PICK r \in Nat : r = replies' /\ replies <= r
          BY <1>0, <1>3
        <4>3. PICK h : h = half'
          OBVIOUS
        <4>4. /\ Alternates(incoming[d])
              /\ incoming[d] # <<>> => (h = d <=> TextMissing(incoming[d]))
              /\ Len(incoming[d]) + (IF h = d THEN 1 ELSE 0) <= 2 * r
          BY <4>1, <4>2, <4>3, Untouched
        <4>5. QED
          BY <4>1, <4>2, <4>3, <4>4
      <3>3. QED
        BY <3>1, <3>2
    <2>2. QED
      BY <2>1 DEF IncomingShape
  <1>13. Counted'
    <2>1. Len(rows) < 2 * MaxReplies
      BY <1>0, <1>3, <1>5
    <2>2. Cardinality(HeadersOf([incoming EXCEPT ![c] = Append(incoming[c], piece)])) = Cardinality(HeadersOf(incoming)) + 1
      BY <1>0, <1>2, <1>4, <2>1, HeadersAppend
    <2>3. Cardinality(HeadersOf(incoming')) = Cardinality(HeadersOf(incoming)) + 1
      BY <1>3, <2>2
    <2>4. ASSUME NEW d \in Connections
          PROVE  (IF incoming'[d] = <<>> THEN half' = d ELSE incoming'[d][1].k = 2)
                   <=> (IF incoming[d] = <<>> THEN half = d ELSE incoming[d][1].k = 2)
      <3>1. CASE d # c
        BY <1>3, <1>8, <3>1, RemoteConstants DEF Connections
      <3>2. CASE d = c /\ rows = <<>>
        BY <1>0, <1>2, <1>3, <1>4, <1>7, <1>8, <3>2
      <3>3. CASE d = c /\ rows # <<>>
        <4>1. after[1] = rows[1]
          BY <1>5, <1>7, <3>3
        <4>2. QED
          BY <1>4, <1>7, <1>8, <3>3, <4>1
      <3>4. QED
        BY <3>1, <3>2, <3>3
    <2>5. MiddlesOf(incoming', half') = MiddlesOf(incoming, half)
      BY <2>4, Zenon DEF MiddlesOf
    <2>6. Cardinality(HeadersOf(incoming)) \in Nat /\ Cardinality(MiddlesOf(incoming, half)) \in Nat
      BY CountsFinite
    <2>7. submitted + (Cardinality(HeadersOf(incoming)) + 1) + Cardinality(MiddlesOf(incoming, half)) = replies + 1
      BY <1>0, <2>6 DEF Counted
    <2>8. QED
      BY <1>3, <2>3, <2>5, <2>7 DEF Counted
  <1>14. QED
    BY <1>11, <1>12, <1>13

\* The text of a response follows its header.
LEMMA HostContinuesKeeps ==
  ASSUME IncomingTypes, IncomingShape, Counted, NEW c \in Connections, HostContinues(c)
  PROVE  (IncomingTypes /\ IncomingShape /\ Counted)'
  <1>0. /\ MaxReplies \in Nat /\ MaxConnections \in Nat /\ incoming \in [Connections -> Seq(Responses)]
        /\ replies \in 0..MaxReplies /\ submitted \in Nat /\ c \in Int /\ c # 0
    BY RemoteConstants DEF IncomingTypes, Connections
  <1>1. PICK piece : piece = [k |-> 2, n |-> 2]
    OBVIOUS
  <1>2. piece \in Responses /\ piece.k = 2 /\ piece.n = 2
    BY <1>1 DEF Responses
  <1>3. /\ half = c /\ half' = 0 /\ replies' = replies /\ submitted' = submitted
        /\ incoming' = [incoming EXCEPT ![c] = Append(incoming[c], piece)]
    BY <1>1 DEF HostContinues
  <1>4. PICK rows \in Seq(Responses) : rows = incoming[c]
    BY <1>0
  <1>5. /\ Alternates(rows) /\ (rows # <<>> => TextMissing(rows)) /\ Len(rows) + 1 <= 2 * replies /\ Len(rows) \in Nat
    <2>1. Alternates(rows) /\ (rows # <<>> => TextMissing(rows)) /\ Len(rows) + 1 <= 2 * replies
      BY <1>3, <1>4 DEF IncomingShape
    <2>2. QED
      BY <1>4, <2>1
  <1>6. PICK after : after = Append(rows, piece)
    OBVIOUS
  <1>7. /\ after \in Seq(Responses) /\ Len(after) = Len(rows) + 1 /\ after[Len(rows) + 1] = piece /\ after # <<>>
        /\ \A i \in 1..Len(rows) : after[i] = rows[i]
    BY <1>2, <1>6
  <1>8. incoming' = [incoming EXCEPT ![c] = after] /\ incoming'[c] = after /\ \A d \in Connections \ {c} : incoming'[d] = incoming[d]
    BY <1>0, <1>3, <1>4, <1>6
  <1>9. Alternates(after)
    <2>1. \A i \in 1..Len(after) : after[i].k = 2 => after[i].n = 2
      BY <1>2, <1>5, <1>7 DEF Alternates
    <2>2. ASSUME NEW i \in 1..Len(after) - 1 PROVE after[i + 1].k = 2 <=> after[i].k = 1 /\ after[i].n = 2
      <3>1. CASE i = Len(rows)
        <4>1. rows[i].k = 1 /\ rows[i].n = 2 /\ after[i] = rows[i] /\ after[i + 1] = piece
          BY <1>5, <1>7, <2>2, <3>1 DEF TextMissing
        <4>2. QED
          BY <1>2, <4>1
      <3>2. CASE i # Len(rows)
        <4>1. i \in 1..Len(rows) - 1 /\ after[i] = rows[i] /\ after[i + 1] = rows[i + 1]
          BY <1>5, <1>7, <2>2, <3>2
        <4>2. QED
          BY <1>5, <4>1 DEF Alternates
      <3>3. QED
        BY <3>1, <3>2
    <2>3. QED
      BY <2>1, <2>2 DEF Alternates
  <1>10. ~TextMissing(after)
    BY <1>2, <1>7 DEF TextMissing
  <1>11. IncomingTypes'
    <2>1. replies' \in 0..MaxReplies /\ half' \in 0..MaxConnections /\ submitted' \in Nat
      BY <1>0, <1>3
    <2>2. QED
      BY <1>0, <1>7, <1>8, <2>1 DEF IncomingTypes
  <1>12. IncomingShape'
    <2>1. ASSUME NEW d \in Connections
          PROVE  /\ Alternates(incoming'[d])
                 /\ incoming'[d] # <<>> => (half' = d <=> TextMissing(incoming'[d]))
                 /\ Len(incoming'[d]) + (IF half' = d THEN 1 ELSE 0) <= 2 * replies'
      <3>1. CASE d = c
        <4>1. half' # c /\ Len(after) + 0 <= 2 * replies'
          BY <1>0, <1>3, <1>5, <1>7
        <4>2. QED
          BY <1>8, <1>9, <1>10, <3>1, <4>1
      <3>2. CASE d # c
        <4>1. half # d /\ half' # d /\ incoming'[d] = incoming[d]
          BY <1>3, <1>8, <3>2, RemoteConstants DEF Connections
        <4>2. PICK r \in Nat : r = replies' /\ replies <= r
          BY <1>0, <1>3
        <4>3. PICK h : h = half'
          OBVIOUS
        <4>4. /\ Alternates(incoming[d])
              /\ incoming[d] # <<>> => (h = d <=> TextMissing(incoming[d]))
              /\ Len(incoming[d]) + (IF h = d THEN 1 ELSE 0) <= 2 * r
          BY <4>1, <4>2, <4>3, Untouched
        <4>5. QED
          BY <4>1, <4>2, <4>3, <4>4
      <3>3. QED
        BY <3>1, <3>2
    <2>2. QED
      BY <2>1 DEF IncomingShape
  <1>13. Counted'
    <2>1. Len(rows) < 2 * MaxReplies
      BY <1>0, <1>3, <1>5
    <2>2. Cardinality(HeadersOf([incoming EXCEPT ![c] = Append(incoming[c], piece)]))
            = Cardinality(HeadersOf(incoming)) + IF piece.k = 1 THEN 1 ELSE 0
      BY <1>0, <1>2, <1>4, <2>1, HeadersAppend
    <2>3. Cardinality(HeadersOf(incoming')) = Cardinality(HeadersOf(incoming)) + 0
      BY <1>2, <1>3, <2>2
    <2>4. ASSUME NEW d \in Connections
          PROVE  (IF incoming'[d] = <<>> THEN half' = d ELSE incoming'[d][1].k = 2)
                   <=> (IF incoming[d] = <<>> THEN half = d ELSE incoming[d][1].k = 2)
      <3>1. CASE d # c
        BY <1>3, <1>8, <3>1, RemoteConstants DEF Connections
      <3>2. CASE d = c /\ rows = <<>>
        BY <1>0, <1>2, <1>3, <1>4, <1>7, <1>8, <3>2
      <3>3. CASE d = c /\ rows # <<>>
        <4>1. after[1] = rows[1]
          BY <1>5, <1>7, <3>3
        <4>2. QED
          BY <1>4, <1>7, <1>8, <3>3, <4>1
      <3>4. QED
        BY <3>1, <3>2, <3>3
    <2>5. MiddlesOf(incoming', half') = MiddlesOf(incoming, half)
      BY <2>4, Zenon DEF MiddlesOf
    <2>6. Cardinality(HeadersOf(incoming)) \in Nat /\ Cardinality(MiddlesOf(incoming, half)) \in Nat
      BY CountsFinite
    <2>7. submitted + (Cardinality(HeadersOf(incoming)) + 0) + Cardinality(MiddlesOf(incoming, half)) = replies
      BY <1>0, <2>6 DEF Counted
    <2>8. QED
      BY <1>3, <2>3, <2>5, <2>7 DEF Counted
  <1>14. QED
    BY <1>11, <1>12, <1>13

\* What is read is a header or the text of the one before it.
LEMMA ReadPieceKeeps ==
  ASSUME SocketTypes, IncomingTypes, IncomingShape, Counted, ReadPiece
  PROVE  (IncomingTypes /\ IncomingShape /\ Counted)'
  <1>0. /\ MaxReplies \in Nat /\ MaxConnections \in Nat /\ incoming \in [Connections -> Seq(Responses)]
        /\ replies \in 0..MaxReplies /\ half \in 0..MaxConnections /\ submitted \in Nat
    BY RemoteConstants DEF IncomingTypes
  <1>1. PICK c \in Connections : c = clientSocket
    BY <1>0 DEF ReadPiece, SocketTypes, Connections
  <1>2. PICK rows \in Seq(Responses) : rows = incoming[c]
    BY <1>0
  <1>3. /\ rows # <<>> /\ half' = half /\ replies' = replies
        /\ incoming' = [incoming EXCEPT ![c] = Tail(incoming[c])]
        /\ submitted' = IF Head(rows).k = Head(rows).n THEN submitted + 1 ELSE submitted
    BY <1>1, <1>2 DEF ReadPiece, onRead
  <1>4. PICK first \in Responses : first = rows[1] /\ first = Head(rows) /\ first.k \in 1..2 /\ first.n \in 1..2
    <2>1. rows[1] \in Responses /\ Head(rows) = rows[1]
      BY <1>2, <1>3
    <2>2. \A r \in Responses : r.k \in 1..2 /\ r.n \in 1..2
      BY DEF Responses
    <2>3. QED
      BY <2>1, <2>2
  <1>5. Len(rows) \in Nat \ {0} /\ Alternates(rows) /\ (half = c <=> TextMissing(rows)) /\ Len(rows) + (IF half = c THEN 1 ELSE 0) <= 2 * replies
    <2>1. Alternates(rows) /\ (half = c <=> TextMissing(rows)) /\ Len(rows) + (IF half = c THEN 1 ELSE 0) <= 2 * replies
      BY <1>2, <1>3 DEF IncomingShape
    <2>2. Len(rows) \in Nat \ {0}
      BY <1>3
    <2>3. QED
      BY <2>1, <2>2
  <1>6. PICK after : after = Tail(rows)
    OBVIOUS
  <1>7. /\ after \in Seq(Responses) /\ Len(after) = Len(rows) - 1
        /\ \A i \in 1..Len(rows) - 1 : after[i] = rows[i + 1]
    BY <1>2, <1>3, <1>6
  <1>8. incoming' = [incoming EXCEPT ![c] = after] /\ incoming'[c] = after /\ \A d \in Connections \ {c} : incoming'[d] = incoming[d]
    BY <1>0, <1>2, <1>3, <1>6
  <1>9. Alternates(after)
    <2>1. ASSUME NEW i \in 1..Len(after) PROVE after[i].k = 2 => after[i].n = 2
      <3>1. i \in 1..Len(rows) - 1 /\ i + 1 \in 1..Len(rows) /\ after[i] = rows[i + 1]
        BY <1>5, <1>7
      <3>2. QED
        BY <1>5, <3>1 DEF Alternates
    <2>2. ASSUME NEW i \in 1..Len(after) - 1 PROVE after[i + 1].k = 2 <=> after[i].k = 1 /\ after[i].n = 2
      <3>1. PICK j \in Int : j = i + 1
        OBVIOUS
      <3>2. j \in 1..Len(rows) - 1 /\ after[i] = rows[j] /\ after[i + 1] = rows[j + 1]
        BY <1>5, <1>7, <3>1
      <3>3. QED
        BY <1>5, <3>2 DEF Alternates
    <2>3. QED
      BY <2>1, <2>2 DEF Alternates
  <1>10. after # <<>> => (TextMissing(after) <=> TextMissing(rows))
    <2>1. ASSUME after # <<>> PROVE after[Len(after)] = rows[Len(rows)]
      BY <1>5, <1>7, <2>1
    <2>2. QED
      BY <1>3, <2>1 DEF TextMissing
  <1>11. IncomingTypes'
    <2>1. submitted' \in Nat
      BY <1>0, <1>3
    <2>2. QED
      BY <1>0, <1>3, <1>7, <1>8, <2>1 DEF IncomingTypes
  <1>12. IncomingShape'
    <2>1. ASSUME NEW d \in Connections
          PROVE  /\ Alternates(incoming'[d])
                 /\ incoming'[d] # <<>> => (half' = d <=> TextMissing(incoming'[d]))
                 /\ Len(incoming'[d]) + (IF half' = d THEN 1 ELSE 0) <= 2 * replies'
      <3>1. CASE d = c
        <4>1. Len(after) + (IF half = c THEN 1 ELSE 0) <= 2 * replies
          BY <1>0, <1>5, <1>7
        <4>2. QED
          BY <1>3, <1>5, <1>8, <1>9, <1>10, <3>1, <4>1
      <3>2. CASE d # c
        <4>1. half' = half /\ incoming'[d] = incoming[d]
          BY <1>3, <1>8, <3>2
        <4>2. PICK r \in Nat : r = replies' /\ replies <= r
          BY <1>0, <1>3
        <4>3. PICK h : h = half' /\ (half = d <=> h = d)
          BY <4>1
        <4>4. /\ Alternates(incoming[d])
              /\ incoming[d] # <<>> => (h = d <=> TextMissing(incoming[d]))
              /\ Len(incoming[d]) + (IF h = d THEN 1 ELSE 0) <= 2 * r
          BY <4>1, <4>2, <4>3, Untouched
        <4>5. QED
          BY <4>1, <4>2, <4>3, <4>4
      <3>3. QED
        BY <3>1, <3>2
    <2>2. QED
      BY <2>1 DEF IncomingShape
  <1>13. Counted'
    <2> DEFINE Headers == Cardinality(HeadersOf(incoming))
               Middles == Cardinality(MiddlesOf(incoming, half))
    <2>1. Headers \in Nat /\ Middles \in Nat /\ IsFiniteSet(MiddlesOf(incoming, half)) /\ submitted + Headers + Middles = replies
      BY CountsFinite DEF Counted
    <2>2. Len(rows) <= 2 * MaxReplies
      BY <1>0, <1>5
    <2>3. Cardinality(HeadersOf([incoming EXCEPT ![c] = Tail(incoming[c])])) = Headers - IF incoming[c][1].k = 1 THEN 1 ELSE 0
      BY <1>0, <1>2, <1>3, <2>2, HeadersTail
    <2>4. Cardinality(HeadersOf(incoming')) = Headers - IF first.k = 1 THEN 1 ELSE 0
      BY <1>2, <1>3, <1>4, <2>3
    <2>5. \A d \in Connections \ {c} : d \in MiddlesOf(incoming', half') <=> d \in MiddlesOf(incoming, half)
      BY <1>3, <1>8 DEF MiddlesOf
    <2>6. c \in MiddlesOf(incoming, half) <=> first.k = 2
      BY <1>2, <1>3, <1>4 DEF MiddlesOf
    <2>7. c \in MiddlesOf(incoming', half') <=> first.k = 1 /\ first.n = 2
      <3>1. CASE after = <<>>
        <4>1. Len(rows) = 1
          BY <1>5, <1>7, <3>1
        <4>2. TextMissing(rows) <=> first.k = 1 /\ first.n = 2
          BY <1>3, <1>4, <4>1 DEF TextMissing
        <4>3. QED
          BY <1>3, <1>5, <1>8, <3>1, <4>2 DEF MiddlesOf
      <3>2. CASE after # <<>>
        <4>1. 1 \in 1..Len(rows) - 1 /\ after[1] = rows[1 + 1]
          BY <1>5, <1>7, <3>2
        <4>2. rows[1 + 1].k = 2 <=> first.k = 1 /\ first.n = 2
          BY <1>4, <1>5, <4>1 DEF Alternates
        <4>3. QED
          BY <1>8, <3>2, <4>1, <4>2 DEF MiddlesOf
      <3>3. QED
        BY <3>1, <3>2
    <2>8. first.k = 2 => first.n = 2
      BY <1>4, <1>5 DEF Alternates
    <2>9. MiddlesOf(incoming', half') \subseteq Connections /\ MiddlesOf(incoming, half) \subseteq Connections
      BY DEF MiddlesOf
    <2>10. CASE first.k = 2
      <3>1. MiddlesOf(incoming', half') = MiddlesOf(incoming, half) \ {c}
        BY <2>5, <2>7, <2>9, <2>10
      <3>2. Cardinality(MiddlesOf(incoming, half) \ {c}) = Middles - 1
        BY <2>1, <2>6, <2>10, FS_RemoveElement
      <3>3. submitted' = submitted + 1 /\ Cardinality(HeadersOf(incoming')) = Headers - 0 /\ replies' = replies
        BY <1>3, <1>4, <2>4, <2>8, <2>10
      <3>4. submitted' + Cardinality(HeadersOf(incoming')) + Cardinality(MiddlesOf(incoming', half')) = replies'
        <4> HIDE DEF Headers, Middles
        <4>1. QED
          BY <1>0, <2>1, <3>1, <3>2, <3>3
      <3>5. QED
        BY <3>4 DEF Counted
    <2>11. CASE first.k = 1 /\ first.n = 2
      <3>1. MiddlesOf(incoming', half') = MiddlesOf(incoming, half) \cup {c}
        BY <2>5, <2>7, <2>9, <2>11
      <3>2. c \notin MiddlesOf(incoming, half)
        BY <2>6, <2>11
      <3>3. Cardinality(MiddlesOf(incoming, half) \cup {c}) = Middles + 1
        BY <2>1, <3>2, FS_AddElement
      <3>4. submitted' = submitted /\ Cardinality(HeadersOf(incoming')) = Headers - 1 /\ replies' = replies
        BY <1>3, <1>4, <2>4, <2>11
      <3>5. submitted' + Cardinality(HeadersOf(incoming')) + Cardinality(MiddlesOf(incoming', half')) = replies'
        <4> HIDE DEF Headers, Middles
        <4>1. QED
          BY <1>0, <2>1, <3>1, <3>3, <3>4
      <3>6. QED
        BY <3>5 DEF Counted
    <2>12. CASE first.k = 1 /\ first.n = 1
      <3>1. \A d \in Connections : d \in MiddlesOf(incoming', half') <=> d \in MiddlesOf(incoming, half)
        BY <2>5, <2>6, <2>7, <2>12
      <3>2. MiddlesOf(incoming', half') = MiddlesOf(incoming, half)
        BY <2>9, <3>1, Zenon
      <3>3. submitted' = submitted + 1 /\ Cardinality(HeadersOf(incoming')) = Headers - 1 /\ replies' = replies
        BY <1>3, <1>4, <2>4, <2>12
      <3>4. Cardinality(MiddlesOf(incoming', half')) = Middles
        BY <3>2
      <3>5. submitted' + Cardinality(HeadersOf(incoming')) + Cardinality(MiddlesOf(incoming', half')) = replies'
        <4> HIDE DEF Headers, Middles
        <4>1. QED
          BY <1>0, <2>1, <3>3, <3>4
      <3>6. QED
        BY <3>5 DEF Counted
    <2>13. QED
      BY <1>4, <2>10, <2>11, <2>12
  <1>14. QED
    BY <1>11, <1>12, <1>13

RemoteInv ==
  /\ SocketTypes /\ SenderTypes /\ HostTypes /\ StreamTypes
  /\ IncomingTypes /\ IncomingShape /\ Counted

LEMMA RemoteInit == Init => RemoteInv
  <1> SUFFICES ASSUME Init PROVE RemoteInv
    OBVIOUS
  <1>0. MaxMessages \in Nat /\ MaxConnections \in Nat /\ MaxReplies \in Nat
    BY RemoteConstants
  <1>1. SocketTypes /\ HostTypes
    <2>1. /\ plugin = "none" /\ serverSocket = FALSE /\ clientSocket = 0 /\ running = FALSE /\ reader = "none"
          /\ remotePid = FALSE /\ host = "none" /\ link = [c \in Connections |-> "none"]
      BY DEF Init
    <2>2. clientSocket \in 0..MaxConnections
      BY <1>0, <2>1
    <2>3. SocketTypes
      BY <2>1, <2>2 DEF SocketTypes
    <2>4. HostTypes
      BY <2>1 DEF HostTypes
    <2>5. QED
      BY <2>3, <2>4
  <1>2. SenderTypes
    <2>1. NotSending \in SenderRecords
      BY <1>0 DEF NotSending, SenderRecords
    <2>2. QED
      BY <1>0, <2>1 DEF Init, SenderTypes
  <1>3. StreamTypes
    <2>1. \A c \in Connections : stream[c] = <<>> /\ Whole(stream[c]) /\ ~Cut(stream[c])
      BY DEF Init, Whole, Cut
    <2>2. \A s \in Senders : ~MidMessage(s)
      BY DEF Init, MidMessage, NotSending
    <2>3. StreamShape
      BY <2>1, <2>2 DEF StreamShape
    <2>4. torn = FALSE /\ stream \in [Connections -> Seq(Pieces)]
      BY DEF Init
    <2>5. QED
      BY <2>3, <2>4 DEF StreamTypes
  <1>4. IncomingTypes
    BY <1>0 DEF Init, IncomingTypes
  <1>5. /\ \A c \in Connections : incoming[c] = <<>> /\ half # c
        /\ half = 0 /\ replies = 0 /\ submitted = 0
    BY <1>0 DEF Init, Connections
  <1>6. IncomingShape
    <2>1. Len(<<>>) = 0 /\ 0 + 0 <= 2 * 0
      OBVIOUS
    <2>2. Alternates(<<>>)
      BY DEF Alternates
    <2>3. \A c \in Connections : Len(incoming[c]) + (IF half = c THEN 1 ELSE 0) <= 2 * replies
      BY <1>5, <2>1
    <2>4. QED
      BY <1>5, <2>2, <2>3 DEF IncomingShape
  <1>7. Counted
    <2>1. HeadersOf(incoming) = {}
      BY <1>5 DEF HeadersOf
    <2>2. MiddlesOf(incoming, half) = {}
      BY <1>5 DEF MiddlesOf
    <2>3. QED
      BY <1>5, <2>1, <2>2, FS_EmptySet DEF Counted
  <1>8. QED
    BY <1>1, <1>2, <1>3, <1>4, <1>6, <1>7 DEF RemoteInv

LEMMA IncomingKeeps ==
  ASSUME SocketTypes, IncomingTypes, IncomingShape, Counted, [Next]_vars
  PROVE  (IncomingTypes /\ IncomingShape /\ Counted)'
  <1>1. CASE UNCHANGED <<incoming, replies, half, submitted>>
    BY <1>1 DEF IncomingTypes, IncomingShape, Counted
  <1>2. ASSUME NEW c \in Connections, HostContinues(c) PROVE (IncomingTypes /\ IncomingShape /\ Counted)'
    BY <1>2, HostContinuesKeeps
  <1>3. ASSUME NEW c \in Connections, NEW n \in 1..2, HostReplies(c, n)
        PROVE  (IncomingTypes /\ IncomingShape /\ Counted)'
    BY <1>3, HostRepliesKeeps
  <1>4. CASE ReadPiece
    BY <1>4, ReadPieceKeeps
  <1>5. QED
    BY <1>1, <1>2, <1>3, <1>4, IncomingChanges DEF vars, hostVars

LEMMA RemoteStep == RemoteInv /\ [Next]_vars => RemoteInv'
  <1> SUFFICES ASSUME RemoteInv, [Next]_vars PROVE RemoteInv'
    OBVIOUS
  <1>0. SocketTypes /\ SenderTypes /\ HostTypes /\ StreamTypes /\ IncomingTypes /\ IncomingShape /\ Counted
    BY DEF RemoteInv
  <1>1. SocketTypes' /\ SenderTypes' /\ HostTypes'
    BY <1>0, SocketsKeep, SendersKeep, HostKeeps
  <1>2. StreamTypes'
    BY <1>0, StreamsKeep
  <1>3. IncomingTypes' /\ IncomingShape' /\ Counted'
    BY <1>0, IncomingKeeps
  <1>4. QED
    BY <1>1, <1>2, <1>3 DEF RemoteInv

LEMMA RemoteInvImplies == RemoteInv => StreamsSound
  <1> SUFFICES ASSUME RemoteInv PROVE StreamsSound
    OBVIOUS
  <1>0. /\ SocketTypes /\ SenderTypes /\ HostTypes /\ StreamTypes /\ IncomingTypes /\ Counted
    BY DEF RemoteInv
  <1>1. /\ Cardinality(HeadersOf(incoming)) \in Nat /\ Cardinality(MiddlesOf(incoming, half)) \in Nat
    BY CountsFinite
  <1>2. submitted + Cardinality(HeadersOf(incoming)) <= replies /\ submitted \in 0..replies
    BY <1>0, <1>1, RemoteConstants DEF Counted, IncomingTypes
  <1>3. ResponsesCounted
    <2>1. HeadersOf(incoming) =
            {p \in Connections \X (1..(2 * MaxReplies)) : p[2] \in DOMAIN incoming[p[1]] /\ incoming[p[1]][p[2]].k = 1}
      BY DEF HeadersOf
    <2>2. QED
      BY <1>2, <2>1 DEF ResponsesCounted
  <1>4. WholeMessages
    BY <1>0 DEF WholeMessages, StreamTypes, StreamShape
  <1>5. serverSocket = (plugin \in {"active", "waiting", "closing"})
    <2>1. serverSocket \in BOOLEAN /\ (serverSocket <=> plugin \in {"active", "waiting", "closing"})
      BY <1>0 DEF SocketTypes
    <2>2. CASE serverSocket
      <3>1. plugin \in {"active", "waiting", "closing"} /\ serverSocket = TRUE
        BY <2>1, <2>2
      <3>2. (plugin \in {"active", "waiting", "closing"}) = TRUE
        BY <3>1, Zenon
      <3>3. QED
        BY <3>1, <3>2, Zenon
    <2>3. CASE ~serverSocket
      <3>1. plugin \notin {"active", "waiting", "closing"} /\ serverSocket = FALSE
        BY <2>1, <2>3
      <3>2. (plugin \in {"active", "waiting", "closing"}) = FALSE
        BY <3>1
      <3>3. QED
        BY <3>1, <3>2, Zenon
    <2>4. QED
      BY <2>2, <2>3
  <1>6. TypeOK
    <2>1. /\ plugin \in {"none", "active", "waiting", "closing", "done"}
          /\ clientSocket \in 0..MaxConnections /\ running \in BOOLEAN
          /\ reader \in {"none", "start", "set", "loop", "select", "header", "json", "ended"}
      BY <1>0 DEF SocketTypes
    <2>2. /\ sender \in [Senders -> [msg : 0..MaxMessages, k : 0..3, n : 0..3, on : 0..MaxConnections]]
          /\ messages \in 0..MaxMessages
      BY <1>0 DEF SenderTypes, SenderRecords
    <2>3. /\ host \in {"none", "up", "exited"} /\ remotePid \in BOOLEAN
          /\ link \in [Connections -> {"none", "pending", "open", "left", "closed"}]
      BY <1>0 DEF HostTypes
    <2>4. stream \in [Connections -> Seq([msg : 0..MaxMessages, k : 1..3, n : 1..3])] /\ torn \in BOOLEAN
      BY <1>0 DEF StreamTypes, Pieces
    <2>5. /\ incoming \in [Connections -> Seq([k : 1..2, n : 1..2])]
          /\ replies \in 0..MaxReplies /\ half \in 0..MaxConnections
      BY <1>0 DEF IncomingTypes, Responses
    <2>6. QED
      BY <1>2, <1>5, <2>1, <2>2, <2>3, <2>4, <2>5, Zenon DEF TypeOK
  <1>7. QED
    BY <1>3, <1>4, <1>6 DEF StreamsSound

\* On every instance: what the host reads is whole messages unless two threads wrote at
\* once, a send failed in the middle of a message or the connection was replaced then
\* (SendInvoke and SendAttach, which lock nothing), and SocketServer's reader submits no
\* response twice and none that the host has not written.
THEOREM StreamsAreSound == HostedSpec => []StreamsSound
  <1>1. HostedInit => RemoteInv
    BY RemoteInit DEF HostedInit
  <1>2. RemoteInv /\ [HostedNext]_hostedVars => RemoteInv'
    <2>1. [HostedNext]_hostedVars => [Next]_vars
      BY DEF HostedNext, hostedVars
    <2>2. QED
      BY <2>1, RemoteStep
  <1>3. QED
    BY <1>1, <1>2, RemoteInvImplies, PTL DEF HostedSpec

================================================================================
