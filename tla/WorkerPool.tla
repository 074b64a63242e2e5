----------------------------- MODULE WorkerPool -----------------------------
(***************************************************************************)
(* Where every database call of a request runs: run_blocking_io() puts it  *)
(* on the queue of a bounded thread pool (utils/async_utils.py), and the   *)
(* thread takes a connection from a smaller psycopg pool                   *)
(* (utils/postgres_utils.py), waiting at most connect_timeout_seconds.     *)
(* The database may go down and come back: connections that lived through  *)
(* an outage are dead, and the pool (which has no check=) learns of it     *)
(* only when a call fails on one.  Every failure here is an                *)
(* OperationalError; 401, 403, 404 and 429 are in RequestAuth and the      *)
(* store's modules.                                                        *)
(***************************************************************************)
EXTENDS Integers, Sequences, FiniteSets, SequencesExt

CONSTANTS
  Requests,    \* requests of a behaviour
  Kinds,       \* kinds of request of this instance, see Plan
  MaxWorkers,  \* threads of the executor
  MaxConns,    \* pool_max_size
  MinConns,    \* pool_min_size
  MaxOutages   \* bound: times the database goes down

AllKinds == {"health", "read", "first_read", "delete", "first_delete"}

ASSUME PoolAssumption ==
  /\ Kinds \subseteq AllKinds
  /\ MaxWorkers \in Nat \ {0}
  /\ MinConns \in Nat /\ MaxConns \in Nat \ {0} /\ MinConns <= MaxConns
  /\ MaxOutages \in Nat

VARIABLES
  kind,     \* what each request is
  pc,       \* where it, or its current call, is
  todo,     \* calls of the request still to make, the current one first
  status,   \* its answer
  queue,    \* calls waiting for a thread, by request
  waiting,  \* threads waiting for a connection, by request
  conn,     \* connection a running call holds
  idle,     \* connections in the pool, next to be handed out first
  opening,  \* connections the pool's own workers are opening
  size,     \* connections the pool counts as its own
  db,       \* the database
  outages,
  failed,   \* history: calls of each request that failed
  done,     \* history: calls of each request that succeeded
  wasted    \* history: calls that failed with the database up, since it was last down

reqVars == <<kind, todo, status, failed, done>>
dbVars == <<db, outages>>
vars == <<kind, pc, todo, status, queue, waiting, conn, idle, opening, size, db, outages, failed, done, wasted>>

\* The run_blocking_io() calls of a request, in order.  'first_' are those whose
\* consumer's last_seen is due; a delete looks the row up before it writes it.
Plan(k) ==
  CASE k = "health"       -> <<"ping">>
    [] k = "read"         -> <<"lookup", "work">>
    [] k = "first_read"   -> <<"lookup", "touch", "work">>
    [] k = "delete"       -> <<"lookup", "work", "work">>
    [] k = "first_delete" -> <<"lookup", "touch", "work", "work">>

\* The same request when last_seen is not due.
NotDue(k) == CASE k = "first_read"   -> "read"
               [] k = "first_delete" -> "delete"
               [] OTHER              -> k

Calls == {"ping", "lookup", "touch", "work"}

Holders == {q \in Requests : conn[q] # "none"}
Busy == {q \in Requests : pc[q] \in {"waiting", "running"}}
Dead == {i \in 1..Len(idle) : idle[i] = "dead"}

Init ==
  /\ kind = [q \in Requests |-> "none"]
  /\ pc = [q \in Requests |-> "new"]
  /\ todo = [q \in Requests |-> <<>>]
  /\ status = [q \in Requests |-> "none"]
  /\ queue = <<>> /\ waiting = <<>>
  /\ conn = [q \in Requests |-> "none"]
  /\ idle = <<>> /\ opening = MinConns /\ size = MinConns
  /\ db = "up" /\ outages = 0
  /\ failed = [q \in Requests |-> {}]
  /\ done = [q \in Requests |-> <<>>]
  /\ wasted = 0

-----------------------------------------------------------------------------
(* The executor.                                                           *)

Arrive(q) ==
  /\ pc[q] = "new"
  /\ pc' = [pc EXCEPT ![q] = "queued"]
  /\ \E k \in Kinds : /\ kind' = [kind EXCEPT ![q] = k]
                      /\ todo' = [todo EXCEPT ![q] = Plan(k)]
  /\ queue' = Append(queue, q)
  /\ UNCHANGED <<status, waiting, conn, idle, opening, size, dbVars, failed, done, wasted>>

\* ThreadPoolExecutor(max_workers).
AnyThread == TRUE
FreeThread == Cardinality(Busy) < MaxWorkers

\* A free thread takes the oldest call and asks the pool for a connection: an idle
\* one at once, else it waits, and the pool grows while it may.
Start ==
  /\ queue # <<>>
  /\ FreeThread
  /\ queue' = Tail(queue)
  /\ LET q == Head(queue) IN
       \/ /\ idle # <<>>
          /\ pc' = [pc EXCEPT ![q] = "running"]
          /\ conn' = [conn EXCEPT ![q] = Head(idle)]
          /\ idle' = Tail(idle)
          /\ UNCHANGED <<waiting, opening, size>>
       \/ /\ idle = <<>>
          /\ pc' = [pc EXCEPT ![q] = "waiting"]
          /\ waiting' = Append(waiting, q)
          /\ IF size < MaxConns
             THEN size' = size + 1 /\ opening' = opening + 1
             ELSE UNCHANGED <<size, opening>>
          /\ UNCHANGED <<conn, idle>>
  /\ UNCHANGED <<reqVars, dbVars, wasted>>

-----------------------------------------------------------------------------
(* The connection pool (psycopg_pool).                                     *)

\* A connection becomes available: for the longest waiting thread, or idle.
\* pcs and conns are the requests' places and connections apart from that.
HandOut(k, pcs, conns) ==
  IF waiting # <<>>
  THEN /\ waiting' = Tail(waiting)
       /\ pc' = [pcs EXCEPT ![Head(waiting)] = "running"]
       /\ conn' = [conns EXCEPT ![Head(waiting)] = k]
       /\ UNCHANGED idle
  ELSE /\ idle' = Append(idle, k)
       /\ pc' = pcs /\ conn' = conns
       /\ UNCHANGED waiting

\* Leaving `with pool.connection()` with a dead connection: the pool drops it and
\* opens another in its place.  Faulty: the connection is lost, or kept.
LoseDead(pcs, conns) ==
  /\ pc' = pcs /\ conn' = conns
  /\ UNCHANGED <<idle, waiting, opening>>
KeepDead(pcs, conns) ==
  /\ HandOut("dead", pcs, conns)
  /\ UNCHANGED opening
ReplaceDead(pcs, conns) ==
  /\ pc' = pcs /\ conn' = conns
  /\ opening' = opening + 1
  /\ UNCHANGED <<idle, waiting>>

\* The call ends, well or with OperationalError, and its connection goes back.
Finish(q) ==
  /\ pc[q] = "running"
  /\ LET freed == [conn EXCEPT ![q] = "none"] IN
       \/ /\ conn[q] = "good"
          /\ HandOut("good", [pc EXCEPT ![q] = "succeeded"], freed)
          /\ UNCHANGED <<opening, wasted>>
       \/ /\ conn[q] = "dead"
          /\ ReplaceDead([pc EXCEPT ![q] = "failed"], freed)
          /\ wasted' = IF db = "up" THEN wasted + 1 ELSE wasted
  /\ UNCHANGED <<reqVars, queue, size, dbVars>>

\* PoolTimeout, after connect_timeout_seconds.
TimeOutUnlessOpening(q) ==
  /\ pc[q] = "waiting" /\ opening = 0
  /\ pc' = [pc EXCEPT ![q] = "failed"]
  /\ \E i \in 1..Len(waiting) : waiting[i] = q /\ waiting' = RemoveAt(waiting, i)
  /\ UNCHANGED <<reqVars, queue, conn, idle, opening, size, dbVars, wasted>>
TimeOut(q) ==
  /\ pc[q] = "waiting"
  /\ pc' = [pc EXCEPT ![q] = "failed"]
  /\ \E i \in 1..Len(waiting) : waiting[i] = q /\ waiting' = RemoveAt(waiting, i)
  /\ UNCHANGED <<reqVars, queue, conn, idle, opening, size, dbVars, wasted>>

\* A connection is opened, or the pool gives up on it while the database is down.
Opened ==
  /\ opening > 0 /\ db = "up"
  /\ opening' = opening - 1
  /\ HandOut("good", pc, conn)
  /\ UNCHANGED <<reqVars, queue, size, dbVars, wasted>>

GiveUp ==
  /\ opening > 0 /\ db = "down"
  /\ opening' = opening - 1 /\ size' = size - 1
  /\ UNCHANGED <<pc, reqVars, queue, waiting, conn, idle, dbVars, wasted>>

DbDown ==
  /\ db = "up" /\ outages < MaxOutages
  /\ db' = "down" /\ outages' = outages + 1
  /\ idle' = [i \in 1..Len(idle) |-> "dead"]
  /\ conn' = [q \in Requests |-> IF conn[q] = "none" THEN "none" ELSE "dead"]
  /\ wasted' = 0
  /\ UNCHANGED <<pc, reqVars, queue, waiting, opening, size>>

DbUp ==
  /\ db = "down" /\ db' = "up"
  /\ UNCHANGED <<pc, reqVars, queue, waiting, conn, idle, opening, size, outages, wasted>>

-----------------------------------------------------------------------------
(* The event loop resumes a request whose call has ended.                  *)

\* touch_last_seen's failure is swallowed by auth_middleware; any other ends the
\* request, by error_middleware or by health's own handler.
NothingSwallowed(call) == FALSE
Swallowed(call) == call = "touch"

GoesOn(q) == pc[q] = "succeeded" \/ Swallowed(Head(todo[q]))

\* The next call goes to the end of the queue; after the last the answer is sent.
Resume(q) ==
  /\ pc[q] \in {"succeeded", "failed"}
  /\ done' = [done EXCEPT ![q] = IF pc[q] = "succeeded" THEN Append(@, Head(todo[q])) ELSE @]
  /\ failed' = [failed EXCEPT ![q] = IF pc[q] = "failed" THEN @ \cup {Head(todo[q])} ELSE @]
  /\ todo' = [todo EXCEPT ![q] = Tail(@)]
  /\ \/ /\ GoesOn(q) /\ Len(todo[q]) > 1
        /\ pc' = [pc EXCEPT ![q] = "queued"]
        /\ queue' = Append(queue, q)
        /\ UNCHANGED status
     \/ /\ ~ (GoesOn(q) /\ Len(todo[q]) > 1)
        /\ pc' = [pc EXCEPT ![q] = "answered"]
        /\ status' = [status EXCEPT ![q] = IF GoesOn(q) THEN "200" ELSE "503"]
        /\ UNCHANGED queue
  /\ UNCHANGED <<kind, waiting, conn, idle, opening, size, dbVars, wasted>>

\* Every request is answered.
Quiet ==
  /\ \A q \in Requests : pc[q] = "answered"
  /\ UNCHANGED vars

Next ==
  \/ \E q \in Requests : Arrive(q) \/ Finish(q) \/ TimeOut(q) \/ Resume(q)
  \/ Start
  \/ Opened
  \/ GiveUp
  \/ DbDown
  \/ DbUp
  \/ Quiet

\* A free thread takes a queued call, a call ends or times out, and the loop
\* resumes its request.  The database need never come back, clients need not come.
Fairness ==
  /\ WF_vars(Start)
  /\ \A q \in Requests : WF_vars(Finish(q)) /\ WF_vars(TimeOut(q)) /\ WF_vars(Resume(q))

Spec == Init /\ [][Next]_vars /\ Fairness

-----------------------------------------------------------------------------
(* Properties.                                                             *)

\* The type of the state; never more threads busy than MaxWorkers, nor more
\* connections than pool_max_size.
PoolTypeOK ==
  /\ kind \in [Requests -> Kinds \cup {"none"}]
  /\ pc \in [Requests -> {"new", "queued", "waiting", "running", "succeeded", "failed", "answered"}]
  /\ \A q \in Requests : Range(todo[q]) \cup Range(done[q]) \cup failed[q] \subseteq Calls
  /\ status \in [Requests -> {"none", "200", "503"}]
  /\ Range(queue) = {q \in Requests : pc[q] = "queued"}
  /\ Range(waiting) = {q \in Requests : pc[q] = "waiting"}
  /\ conn \in [Requests -> {"none", "good", "dead"}]
  /\ Holders = {q \in Requests : pc[q] = "running"}
  /\ Range(idle) \subseteq {"good", "dead"}
  /\ opening \in 0..MaxConns /\ size \in 0..MaxConns
  /\ Cardinality(Busy) <= MaxWorkers

\* No connection leaks: each one the pool counts is idle, held by a running call or
\* being opened, whatever calls failed or timed out; so a thread waits only when every
\* connection the pool may have is in use or on its way, or one was given up.
ConnectionsAccounted ==
  /\ size = Len(idle) + Cardinality(Holders) + opening
  /\ waiting # <<>> => idle = <<>>

\* Recovery: after an outage at most MaxConns calls fail although the database is up
\* again, one for each connection pooled when it went down; health checks included.
DeadConnectionsSpent ==
  wasted + Cardinality(Dead) + Cardinality({q \in Requests : conn[q] = "dead"}) <= MaxConns

\* last_seen is best effort, and nothing else is: a request answers 503 if and only
\* if a call other than the touch failed, and 200 only after every call of its own
\* kind succeeded in order, without the touch exactly if the touch failed.
TouchNeverDecides ==
  \A q \in Requests :
    /\ status[q] = "503" <=> failed[q] \ {"touch"} # {}
    /\ status[q] = "200" =>
         done[q] = Plan(IF "touch" \in failed[q] THEN NotDue(kind[q]) ELSE kind[q])

\* Every request that reached the service is answered, with the database up or down
\* for good, and however many wait for a thread or a connection.  (A request arrives
\* once, so it is enough that again and again none is in flight.)
EveryRequestAnswered ==
  []<>(\A q \in Requests : pc[q] \in {"new", "answered"})
=============================================================================
