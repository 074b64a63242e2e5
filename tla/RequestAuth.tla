---------------------------- MODULE RequestAuth ----------------------------
(***************************************************************************)
(* auth_middleware (api/auth.py): what every request goes through before   *)
(* its handler runs.  All requests share one event loop; the steps between *)
(* two awaits of one request are atomic, and at an await (a database call  *)
(* on the worker pool) any other request may run.  The middleware keeps,   *)
(* per consumer, a deque of admission times and the time of the last       *)
(* last_seen write.  Time is time.monotonic() in ticks.  Beside it, the    *)
(* operator: tools/create_consumer.py mints consumers, and a statement in  *)
(* psql disables or re-enables them.                                       *)
(***************************************************************************)
EXTENDS Integers, Sequences, FiniteSets

CONSTANTS
  Requests,   \* requests of a behaviour
  Consumers,  \* ids of the consumers table
  Nobody,     \* the result of a key that matches no consumer
  Scopes,     \* scope sets a consumer may be minted with
  Needs,      \* scopes the routes of this instance ask for
  RateLimit,  \* config.rate_limit_per_minute
  Minute,     \* 60 seconds, in ticks
  MaxTime,    \* bound: last tick of a behaviour
  MaxFaults   \* bound: failed database calls in a behaviour

ScopeNames == {"read", "write", "admin"}

ASSUME AuthAssumption ==
  /\ Nobody \notin Consumers
  /\ Scopes \subseteq SUBSET ScopeNames /\ Scopes # {}
  /\ Needs \subseteq ScopeNames
  /\ RateLimit \in Int
  /\ Minute \in Nat \ {0}
  /\ MaxTime \in Nat /\ MaxFaults \in Nat

VARIABLES
  account,   \* consumers: no row yet, enabled or disabled
  scopes,    \* consumers.scopes
  now,       \* the monotonic clock
  times,     \* request_times: admission times, oldest first
  marked,    \* last_seen_marked, 0 when absent
  state,     \* where each request is
  key,       \* consumer the request's key belongs to
  row,       \* the consumer row the lookup returned
  need,      \* scope the route asks for
  status,    \* answer of each request
  admitted,  \* history: <<request, time>> let through by the limiter
  tried,     \* history: those that went on to write last_seen
  found,     \* history: what the request's account was from its arrival to its lookup
  faults

dbVars  == <<account, scopes>>
memVars == <<times, marked>>
reqVars == <<key, need>>
vars == <<account, scopes, now, times, marked, state, key, row, need, status,
          admitted, tried, found, faults>>

Accounts == {"absent", "enabled", "disabled"}
NoRow == [id |-> Nobody, enabled |-> FALSE, scopes |-> {}]
ConsumerRow == [id: Consumers \cup {Nobody}, enabled: BOOLEAN, scopes: SUBSET ScopeNames]

AuthTypeOK ==
  /\ account \in [Consumers -> Accounts]
  /\ scopes \in [Consumers -> SUBSET ScopeNames]
  /\ now \in Nat
  /\ times \in [Consumers -> Seq(Nat)]
  /\ marked \in [Consumers -> Nat]
  /\ state \in [Requests -> {"new", "lookup", "admit", "touch", "handle", "done"}]
  /\ key \in [Requests -> Consumers \cup {Nobody}]
  /\ row \in [Requests -> ConsumerRow]
  /\ need \in [Requests -> ScopeNames]
  /\ status \in [Requests -> {"none", "ok", "401", "403", "429", "503"}]
  /\ admitted \in SUBSET (Requests \X Nat)
  /\ tried \in SUBSET admitted
  /\ found \in [Requests -> SUBSET Accounts]
  /\ faults \in Nat

Init ==
  /\ account = [c \in Consumers |-> "absent"]
  /\ scopes = [c \in Consumers |-> {}]
  /\ now \in {0, Minute}
  /\ times = [c \in Consumers |-> <<>>]
  /\ marked = [c \in Consumers |-> 0]
  /\ state = [q \in Requests |-> "new"]
  /\ key = [q \in Requests |-> Nobody]
  /\ row = [q \in Requests |-> NoRow]
  /\ need = [q \in Requests |-> "read"]
  /\ status = [q \in Requests |-> "none"]
  /\ admitted = {}
  /\ tried = {}
  /\ found = [q \in Requests |-> {}]
  /\ faults = 0

-----------------------------------------------------------------------------

Goto(q, s) == state' = [state EXCEPT ![q] = s]
Answer(q, s) == Goto(q, "done") /\ status' = [status EXCEPT ![q] = s]

\* The row find_by_key_hash() reads: none for a key that was never minted.
AccountOf(c) == IF c = Nobody THEN "absent" ELSE account[c]
RowBare(c) ==
  IF AccountOf(c) = "absent" THEN Nobody
  ELSE [id |-> c, enabled |-> account[c] = "enabled", scopes |-> scopes[c]]
RowRemembered(c) ==
  IF \E p \in Requests : row[p].id = c
  THEN row[CHOOSE p \in Requests : row[p].id = c]
  ELSE [id |-> c, enabled |-> AccountOf(c) = "enabled", scopes |-> IF c = Nobody THEN {} ELSE scopes[c]]
RowOf(c) ==
  IF AccountOf(c) = "absent" THEN NoRow
  ELSE [id |-> c, enabled |-> account[c] = "enabled", scopes |-> scopes[c]]

\* A request without a key is refused on the spot, any other is looked up; a
\* minted consumer's key, or one that is no consumer's.
Arrive(q) ==
  /\ state[q] = "new"
  /\ \/ /\ Answer(q, "401")
        /\ UNCHANGED <<reqVars, found>>
     \/ /\ \E c \in {d \in Consumers : account[d] # "absent"} \cup {Nobody}, s \in Needs :
             /\ key' = [key EXCEPT ![q] = c]
             /\ need' = [need EXCEPT ![q] = s]
             /\ found' = [found EXCEPT ![q] = {AccountOf(c)}]
        /\ Goto(q, "lookup")
        /\ UNCHANGED status
  /\ UNCHANGED <<dbVars, now, memVars, row, admitted, tried, faults>>

\* find_by_key_hash() on a worker thread.
Lookup(q) ==
  /\ state[q] = "lookup"
  /\ row' = [row EXCEPT ![q] = RowOf(key[q])]
  /\ Goto(q, "admit")
  /\ UNCHANGED <<dbVars, now, memVars, reqVars, status, admitted, tried, found, faults>>

\* while window and window[0] < cutoff: window.popleft()
Expired(w, cutoff) ==
  CHOOSE n \in 0..Len(w) : /\ \A i \in 1..n : w[i] < cutoff
                           /\ n < Len(w) => w[n + 1] >= cutoff
PrunedOneEarly(w) == SubSeq(w, Expired(w, now - Minute + 1) + 1, Len(w))
Pruned(w) == SubSeq(w, Expired(w, now - Minute) + 1, Len(w))

\* Faulty: a refused request is counted as well.
RecordAlways(w) == Append(w, now)
RecordRefused(w) == w

\* consumer_id's last_seen is due.
DueAlways(c) == TRUE
Due(c) == now - marked[c] >= Minute

\* last_seen_marked of a consumer whose request is admitted.
MarkAlways(c) == now
Mark(c) == IF Due(c) THEN now ELSE marked[c]

\* From the lookup's result to the next await: the enabled check, the
\* sliding-window limiter and the last_seen throttle, in one go.
Admit(q) ==
  /\ state[q] = "admit"
  /\ LET c == row[q].id IN
       \/ /\ ~ row[q].enabled
          /\ Answer(q, "401")
          /\ UNCHANGED <<memVars, admitted, tried>>
       \/ /\ row[q].enabled
          /\ Len(Pruned(times[c])) >= RateLimit
          /\ times' = [times EXCEPT ![c] = RecordRefused(Pruned(@))]
          /\ Answer(q, "429")
          /\ UNCHANGED <<marked, admitted, tried>>
       \/ /\ row[q].enabled
          /\ Len(Pruned(times[c])) < RateLimit
          /\ times' = [times EXCEPT ![c] = Append(Pruned(@), now)]
          /\ admitted' = admitted \cup {<<q, now>>}
          /\ marked' = [marked EXCEPT ![c] = Mark(c)]
          /\ tried' = IF Due(c) THEN tried \cup {<<q, now>>} ELSE tried
          /\ Goto(q, IF Due(c) THEN "touch" ELSE "handle")
          /\ UNCHANGED status
  /\ UNCHANGED <<dbVars, now, reqVars, row, found, faults>>

\* touch_last_seen(): best effort, a failure is swallowed.
Touch(q) ==
  /\ state[q] = "touch"
  /\ \/ UNCHANGED faults
     \/ faults < MaxFaults /\ faults' = faults + 1
  /\ Goto(q, "handle")
  /\ UNCHANGED <<dbVars, now, memVars, reqVars, row, status, admitted, tried, found>>

\* require_scope() with the row of the lookup, then the handler.
Handle(q) ==
  /\ state[q] = "handle"
  /\ Answer(q, IF need[q] \in row[q].scopes THEN "ok" ELSE "403")
  /\ UNCHANGED <<dbVars, now, memVars, reqVars, row, admitted, tried, found, faults>>

\* The lookup fails with OperationalError.
LookupFails(q) ==
  /\ state[q] = "lookup"
  /\ faults < MaxFaults
  /\ faults' = faults + 1
  /\ Answer(q, "503")
  /\ UNCHANGED <<dbVars, now, memVars, reqVars, row, admitted, tried, found>>

\* The requests waiting for their lookup find c's account as it is from now on.
SetAccount(c, a) ==
  /\ account' = [account EXCEPT ![c] = a]
  /\ found' = [q \in Requests |->
                 found[q] \cup (IF state[q] = "lookup" /\ key[q] = c THEN {a} ELSE {})]

\* create_consumer(): a name that is taken or a scope that is not valid is
\* refused and changes nothing.
Mint(c) ==
  /\ account[c] = "absent"
  /\ SetAccount(c, "enabled")
  /\ \E s \in Scopes : scopes' = [scopes EXCEPT ![c] = s]
  /\ UNCHANGED <<now, memVars, state, reqVars, row, status, admitted, tried, faults>>

\* UPDATE consumers SET enabled: the operator disables a consumer or re-enables it.
Toggle(c) ==
  /\ account[c] # "absent"
  /\ SetAccount(c, IF account[c] = "enabled" THEN "disabled" ELSE "enabled")
  /\ UNCHANGED <<scopes, now, memVars, state, reqVars, row, status, admitted, tried, faults>>

Tick ==
  /\ now < MaxTime
  /\ now' = now + 1
  /\ UNCHANGED <<dbVars, memVars, state, reqVars, row, status, admitted, tried, found, faults>>

Step(q) == Arrive(q) \/ Lookup(q) \/ Admit(q) \/ Touch(q) \/ Handle(q)

Next ==
  \/ \E q \in Requests : Step(q) \/ LookupFails(q)
  \/ \E c \in Consumers : Mint(c) \/ Toggle(c)
  \/ Tick

Spec == Init /\ [][Next]_vars

-----------------------------------------------------------------------------
(* What the middleware promises.                                           *)

\* Requests of c let through at a time of the closed interval [from, to].
Within(c, from, to) ==
  {a \in admitted : key[a[1]] = c /\ from <= a[2] /\ a[2] <= to}

\* The limiter: no consumer gets more than RateLimit requests through in any
\* sixty seconds, both ends included, however lookups and clock interleave.
NoBurst ==
  \A c \in Consumers : \A t \in 0..MaxTime :
    Cardinality(Within(c, t - Minute, t)) <= (IF RateLimit > 0 THEN RateLimit ELSE 0)

\* And it refuses nobody early: a 429 means the consumer really used up its
\* limit within the last sixty seconds; refused requests do not count.
RefusalStep ==
  \A q \in Requests : (status'[q] = "429" /\ status[q] # "429") =>
    Cardinality(Within(key[q], now - Minute, now)) >= RateLimit
NoEarlyRefusal == [][RefusalStep]_vars

\* The last_seen throttle: two requests of a consumer that go on to write
\* last_seen were admitted at least sixty seconds apart, although the write
\* itself happens after an await and may come much later, or fail.
TouchesSpaced ==
  \A a, b \in tried :
    (a # b /\ key[a[1]] = key[b[1]]) => a[2] - b[2] >= Minute \/ b[2] - a[2] >= Minute

\* And it never falls silent: whenever a request is admitted, one of the same
\* consumer admitted less than sixty seconds earlier, or itself, went on to write
\* last_seen; only in the clock's first minute (now - 0.0 < 60) may there be none.
TouchesKeepUp ==
  \A a \in admitted : a[2] >= Minute =>
    \E b \in tried : /\ key[b[1]] = key[a[1]]
                     /\ a[2] - Minute < b[2] /\ b[2] <= a[2]

\* "disabling takes effect on the next request" (docs/OPERATIONS.md): a request gets
\* past the key check only if its consumer was enabled at some time between its
\* arrival and its lookup, and is turned away only if it was not always.
AccessFollowsAccount ==
  \A q \in Requests :
    /\ (state[q] \in {"touch", "handle"} \/ status[q] \in {"ok", "403", "429"})
         => "enabled" \in found[q]
    /\ status[q] = "401" => found[q] # {"enabled"}
=============================================================================
