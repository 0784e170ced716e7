------------------------------ MODULE LocalPlugin ------------------------------
(***************************************************************************)
(* The in-process half of the RustAdapter plugin: a LocalPlugin per        *)
(* activated plugin, the Rust code it has loaded, and the table ctx_array  *)
(* that takes a message of Rust code, on any thread, back to the plugin it *)
(* belongs to.  The table is neither locked nor ever cleaned: it grows     *)
(* when a plugin is activated, on a thread of the framework, while others  *)
(* may be searching it or adding to it.                                    *)
(*                                                                         *)
(* The Rust library is external; its threads may send from the moment it   *)
(* is created until it is destroyed.                                       *)
(***************************************************************************)
EXTENDS Naturals, Sequences

CONSTANTS
  Plugins,      \* activations of plugins, each with a LocalPlugin of its own
  RustThreads,
  MaxSent       \* bound on the messages Rust code sends

VARIABLES
  phase,        \* where each plugin is in its life
  ctx_next_id,
  ctx,          \* the id each plugin's Rust code was given, 0 before
  ctx_array,    \* the contexts: their ids and the plugins bound to them; the last ones
                \* may be behind the end, when two threads have grown the table at once
  end,          \* the size of the table
  size,         \* the size each push_back in progress has read
  search,       \* each Rust thread's: the plugin it sends for, and the next index
  sent,
  arrived,      \* pairs of the plugin that sent and the one whose service submitted
  missed,       \* some search found nothing
  raced         \* ctx_array grew while it was searched or grown on another thread

vars == <<phase, ctx_next_id, ctx, ctx_array, end, size, search, sent, arrived, missed, raced>>

NoSearch == [from |-> "none", at |-> 0]
Searching(r) == search[r] # NoSearch

\* ctx_array is being searched, or grown.
InUse == (\E r \in RustThreads : Searching(r)) \/ (\E p \in Plugins : phase[p] = "push")

TypeOK ==
  /\ phase \in [Plugins -> {"none", "context", "push", "create", "active", "destroyed"}]
  /\ ctx_next_id \in Nat \ {0} /\ ctx \in [Plugins -> Nat] /\ size \in [Plugins -> Nat]
  /\ ctx_array \in Seq([id : Nat \ {0}, plugin : Plugins]) /\ end \in 0 .. Len(ctx_array)
  /\ search \in [RustThreads -> [from : Plugins \cup {"none"}, at : Nat]]
  /\ sent \in 0 .. MaxSent /\ arrived \subseteq Plugins \X Plugins
  /\ missed \in BOOLEAN /\ raced \in BOOLEAN
  /\ \A p \in Plugins : phase[p] = "none" <=> ctx[p] = 0

Init ==
  /\ phase = [p \in Plugins |-> "none"] /\ ctx_next_id = 1
  /\ ctx = [p \in Plugins |-> 0] /\ ctx_array = <<>> /\ end = 0 /\ size = [p \in Plugins |-> 0]
  /\ search = [r \in RustThreads |-> NoSearch] /\ sent = 0
  /\ arrived = {} /\ missed = FALSE /\ raced = FALSE

------------------------------------------------------------------------------
(***************************************************************************)
(* Initialize and Deinitialize, on threads of the framework.               *)
(***************************************************************************)
Goto(p, from, to) == phase[p] = from /\ phase' = [phase EXCEPT ![p] = to]

\* Mutant of NewContext: the id is the context's place in the table.
NewContextPlace(p) ==
  /\ Goto(p, "none", "context")
  /\ ctx' = [ctx EXCEPT ![p] = end + 1] /\ ctx_next_id' = ctx_next_id + 1
  /\ UNCHANGED <<ctx_array, end, size, search, sent, arrived, missed, raced>>

\* The library is found, and a context gets the next id, atomically.  A library
\* that is not there ends Initialize before any of this.
NewContext(p) ==
  /\ Goto(p, "none", "context")
  /\ ctx' = [ctx EXCEPT ![p] = ctx_next_id] /\ ctx_next_id' = ctx_next_id + 1
  /\ UNCHANGED <<ctx_array, end, size, search, sent, arrived, missed, raced>>

\* push_back reads where the table ends ...
PushBegin(p) ==
  /\ Goto(p, "context", "push") /\ size' = [size EXCEPT ![p] = end]
  /\ raced' = (raced \/ InUse)
  /\ UNCHANGED <<ctx_next_id, ctx, ctx_array, end, search, sent, arrived, missed>>

\* ... and writes there, over what another thread has put there meanwhile; the table
\* ends there.
PushEnd(p) ==
  /\ Goto(p, "push", "create")
  /\ end' = size[p] + 1
  /\ LET new == [id |-> ctx[p], plugin |-> p]
     IN  ctx_array' = IF end' \in DOMAIN ctx_array THEN [ctx_array EXCEPT ![end'] = new]
                      ELSE Append(ctx_array, new)
  /\ raced' = (raced \/ (\E r \in RustThreads : Searching(r)))
  /\ UNCHANGED <<ctx_next_id, ctx, size, search, sent, arrived, missed>>

\* wpe_rust_plugin_create and _init.
Create(p) ==
  /\ Goto(p, "create", "active")
  /\ UNCHANGED <<ctx_next_id, ctx, ctx_array, end, size, search, sent, arrived, missed, raced>>

\* wpe_rust_plugin_destroy.  The context stays, with the plugin it is bound to.
Deinitialize(p) ==
  /\ Goto(p, "active", "destroyed")
  /\ UNCHANGED <<ctx_next_id, ctx, ctx_array, end, size, search, sent, arrived, missed, raced>>

------------------------------------------------------------------------------
(***************************************************************************)
(* Rust code and wpe_send_to.                                              *)
(***************************************************************************)

\* Rust code answers an Invoke or an Inbound, or sends an event of its own.
RustSends(r, p) ==
  /\ ~Searching(r) /\ phase[p] = "active" /\ sent < MaxSent /\ sent' = sent + 1
  /\ search' = [search EXCEPT ![r] = [from |-> p, at |-> 1]]
  /\ raced' = (raced \/ (\E q \in Plugins : phase[q] = "push"))
  /\ UNCHANGED <<phase, ctx_next_id, ctx, ctx_array, end, size, arrived, missed>>

\* SendTo submits the message to the service of the plugin that was found.
SendTo(r, p) == arrived' = arrived \cup {<<search[r].from, p>>} /\ UNCHANGED missed

\* wpe_send_to looks at one more context.  A table that has moved meanwhile may
\* show anything; the search may also end there with nothing, or with a crash,
\* which is taken for nothing too.
wpe_send_to(r) ==
  /\ Searching(r)
  /\ LET s == search[r]
         none == search' = [search EXCEPT ![r] = NoSearch] /\ missed' = TRUE /\ UNCHANGED arrived
     IN  \/ /\ s.at =< end
            /\ IF ctx_array[s.at].id = ctx[s.from]
               THEN search' = [search EXCEPT ![r] = NoSearch] /\ SendTo(r, ctx_array[s.at].plugin)
               ELSE search' = [search EXCEPT ![r].at = @ + 1] /\ UNCHANGED <<arrived, missed>>
         \/ s.at > end /\ none
         \/ raced /\ none
  /\ UNCHANGED <<phase, ctx_next_id, ctx, ctx_array, end, size, sent, raced>>

Next ==
  \/ \E p \in Plugins :
       NewContext(p) \/ PushBegin(p) \/ PushEnd(p) \/ Create(p) \/ Deinitialize(p)
  \/ \E r \in RustThreads : wpe_send_to(r) \/ \E p \in Plugins : RustSends(r, p)

Spec == Init /\ [][Next]_vars

------------------------------------------------------------------------------
\* What Rust code sends is submitted by the plugin it belongs to and by no other,
\* although contexts are made on several threads and one may overwrite another.
MessagesGoHome == \A m \in arrived : m[1] = m[2]

\* A search finds its context unless the table was grown under it or under
\* another growth: the context is there before the Rust code can send.
FoundUnlessRaced == missed => raced
================================================================================
