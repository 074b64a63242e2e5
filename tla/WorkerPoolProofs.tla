-------------------------- MODULE WorkerPoolProofs --------------------------
(***************************************************************************)
(* Proofs about the worker pool and the connection pool, for any number of *)
(* requests, threads, connections and outages: no connection leaks, what   *)
(* an outage may cost, and which failures a client is told of.             *)
(***************************************************************************)
EXTENDS WorkerPool, FiniteSetTheorems, TLAPS

-----------------------------------------------------------------------------
(* Queues.                                                                 *)

\* s lists the members of S, each once.
Lists(s, S) ==
  /\ s \in Seq(S)
  /\ \A x \in S : \E i \in 1 .. Len(s) : s[i] = x
  /\ \A i, j \in 1 .. Len(s) : s[i] = s[j] => i = j

LEMMA ListEmpty == Lists(<<>>, {})
BY DEF Lists

LEMMA ListRange ==
  ASSUME NEW S, NEW s, Lists(s, S)
  PROVE  Range(s) = S /\ (s = <<>> <=> S = {})
<1>1. \A i \in 1 .. Len(s) : s[i] \in S
  BY DEF Lists
<1>2. Range(s) = {s[i] : i \in 1 .. Len(s)}
  BY DEF Lists, Range
<1>3. s = <<>> => S = {}
  BY DEF Lists
<1>4. s # <<>> => S # {}
  BY <1>1 DEF Lists
<1>5. \A x \in S : \E i \in 1 .. Len(s) : s[i] = x
  BY DEF Lists
<1>6. Range(s) = S
  BY <1>1, <1>2, <1>5
<1> QED BY <1>3, <1>4, <1>6

\* Appending, taking from the front and taking from the middle.
LEMMA ListAppend ==
  ASSUME NEW S, NEW s, Lists(s, S), NEW x, x \notin S
  PROVE  Lists(Append(s, x), S \cup {x})
<1>1. PICK n \in Nat : n = Len(s)
  BY DEF Lists
<1>2. PICK u : u = Append(s, x)
  OBVIOUS
<1>3. s \in Seq(S \cup {x}) /\ \A i \in 1 .. n : s[i] \in S
  BY <1>1 DEF Lists
<1>4. u \in Seq(S \cup {x}) /\ Len(u) = n + 1 /\ u[n + 1] = x /\ \A i \in 1 .. n : u[i] = s[i]
  BY <1>1, <1>2, <1>3
<1>5. \A i \in 1 .. n + 1 : i \in 1 .. n \/ i = n + 1
  OBVIOUS
<1>6. \A y \in S \cup {x} : \E i \in 1 .. n + 1 : u[i] = y
  <2> SUFFICES ASSUME NEW y \in S PROVE \E i \in 1 .. n + 1 : u[i] = y
    BY <1>4
  <2>1. PICK i \in 1 .. n : s[i] = y
    BY <1>1 DEF Lists
  <2> QED BY <1>4, <2>1
<1>7. ASSUME NEW i \in 1 .. n + 1, NEW j \in 1 .. n + 1, u[i] = u[j] PROVE i = j
  <2>1. \A k, l \in 1 .. n : s[k] = s[l] => k = l
    BY <1>1 DEF Lists
  <2>2. CASE i \in 1 .. n /\ j \in 1 .. n
    BY <1>4, <1>7, <2>1, <2>2
  <2>3. CASE i = n + 1 /\ j \in 1 .. n
    BY <1>3, <1>4, <1>7, <2>3
  <2>4. CASE j = n + 1 /\ i \in 1 .. n
    BY <1>3, <1>4, <1>7, <2>4
  <2> QED BY <1>5, <2>2, <2>3, <2>4
<1> QED BY <1>2, <1>4, <1>6, <1>7 DEF Lists

LEMMA RemovedAt ==
  ASSUME NEW S, NEW s \in Seq(S), NEW i \in 1 .. Len(s), NEW u, u = RemoveAt(s, i)
  PROVE  /\ u \in Seq(S) /\ Len(u) = Len(s) - 1
         /\ \A k \in 1 .. Len(u) : u[k] = IF k < i THEN s[k] ELSE s[k + 1]
<1>1. PICK n \in Nat : n = Len(s) /\ i \in 1 .. n
  OBVIOUS
<1>2. PICK a : a = SubSeq(s, 1, i - 1)
  OBVIOUS
<1>3. PICK b : b = SubSeq(s, i + 1, n)
  OBVIOUS
<1>4. a \in Seq(S) /\ Len(a) = i - 1 /\ \A k \in 1 .. i - 1 : a[k] = s[k]
  BY <1>1, <1>2
<1>5. b \in Seq(S) /\ Len(b) = n - i /\ \A k \in 1 .. n - i : b[k] = s[k + i]
  BY <1>1, <1>3
<1>6. u = a \o b
  BY <1>1, <1>2, <1>3 DEF RemoveAt
<1>7. u \in Seq(S) /\ Len(u) = n - 1
  BY <1>1, <1>4, <1>5, <1>6
<1>8. ASSUME NEW k \in 1 .. n - 1 PROVE u[k] = IF k < i THEN s[k] ELSE s[k + 1]
  <2>1. u[k] = IF k <= i - 1 THEN a[k] ELSE b[k - (i - 1)]
    BY <1>1, <1>4, <1>5, <1>6
  <2>2. CASE k < i
    BY <1>1, <1>4, <2>1, <2>2
  <2>3. CASE ~ (k < i)
    <3>1. k - (i - 1) \in 1 .. n - i /\ (k - (i - 1)) + i = k + 1 /\ ~ (k <= i - 1)
      BY <1>1, <2>3
    <3> QED BY <1>5, <2>1, <2>3, <3>1
  <2> QED BY <2>2, <2>3
<1> QED BY <1>1, <1>7, <1>8

LEMMA ListRemove ==
  ASSUME NEW S, NEW s, Lists(s, S), NEW i \in 1 .. Len(s)
  PROVE  Lists(RemoveAt(s, i), S \ {s[i]})
<1>1. PICK n \in Nat : n = Len(s)
  BY DEF Lists
<1>2. PICK u : u = RemoveAt(s, i)
  OBVIOUS
<1>3. s \in Seq(S) /\ i \in 1 .. n /\ \A k, l \in 1 .. n : s[k] = s[l] => k = l
  BY <1>1 DEF Lists
<1>4. u \in Seq(S) /\ Len(u) = n - 1
      /\ \A k \in 1 .. n - 1 : u[k] = IF k < i THEN s[k] ELSE s[k + 1]
  BY <1>1, <1>2, <1>3, RemovedAt
<1> DEFINE From(k) == IF k < i THEN k ELSE k + 1
<1>5. \A k \in 1 .. n - 1 : From(k) \in 1 .. n /\ From(k) # i /\ u[k] = s[From(k)]
  BY <1>3, <1>4
<1>6. \A k \in 1 .. n - 1 : u[k] \in S \ {s[i]}
  BY <1>1, <1>3, <1>5
<1>7. u \in Seq(S \ {s[i]})
  BY <1>4, <1>6
<1>8. ASSUME NEW x \in S \ {s[i]} PROVE \E k \in 1 .. n - 1 : u[k] = x
  <2>1. PICK l \in 1 .. n : s[l] = x
    BY <1>1 DEF Lists
  <2>2. l # i
    BY <2>1
  <2>3. CASE l < i
    <3>1. l \in 1 .. n - 1 /\ From(l) = l
      BY <1>3, <2>3
    <3> QED BY <1>5, <2>1, <3>1
  <2>4. CASE ~ (l < i)
    <3>1. l - 1 \in 1 .. n - 1 /\ From(l - 1) = l
      BY <1>3, <2>2, <2>4
    <3> QED BY <1>5, <2>1, <3>1
  <2> QED BY <2>3, <2>4
<1>9. ASSUME NEW k \in 1 .. n - 1, NEW l \in 1 .. n - 1, u[k] = u[l] PROVE k = l
  <2>1. From(k) = From(l)
    BY <1>3, <1>5, <1>9
  <2>2. i \in Int /\ k \in Int /\ l \in Int
    BY <1>3
  <2> QED BY <2>1, <2>2
<1> QED BY <1>2, <1>4, <1>7, <1>8, <1>9 DEF Lists

LEMMA ListTail ==
  ASSUME NEW S, NEW s, Lists(s, S), s # <<>>
  PROVE  /\ Head(s) \in S /\ Lists(Tail(s), S \ {Head(s)})
<1>1. s \in Seq(S) /\ 1 \in 1 .. Len(s) /\ Head(s) = s[1]
  BY DEF Lists
<1>2. PICK u : u = RemoveAt(s, 1)
  OBVIOUS
<1>3. /\ u \in Seq(S) /\ Len(u) = Len(s) - 1
      /\ \A k \in 1 .. Len(u) : u[k] = IF k < 1 THEN s[k] ELSE s[k + 1]
  BY <1>1, <1>2, RemovedAt
<1>4. Tail(s) \in Seq(S) /\ Len(Tail(s)) = Len(s) - 1
      /\ \A k \in 1 .. Len(s) - 1 : Tail(s)[k] = s[k + 1]
  BY <1>1
<1>5. Tail(s) = u
  BY <1>3, <1>4
<1>6. Lists(u, S \ {s[1]})
  BY <1>1, <1>2, ListRemove
<1>7. Head(s) \in S
  BY <1>1
<1> QED BY <1>1, <1>5, <1>6, <1>7, Zenon

-----------------------------------------------------------------------------
(* The inductive invariant.                                                *)

Places == {"new", "queued", "waiting", "running", "succeeded", "failed", "answered"}
At(place) == {q \in Requests : pc[q] = place}
DeadHeld == {q \in Requests : conn[q] = "dead"}

PoolTyped ==
  /\ kind \in [Requests -> Kinds \cup {"none"}]
  /\ pc \in [Requests -> Places]
  /\ todo \in [Requests -> Seq(Calls)] /\ done \in [Requests -> Seq(Calls)]
  /\ failed \in [Requests -> SUBSET Calls]
  /\ status \in [Requests -> {"none", "200", "503"}]
  /\ conn \in [Requests -> {"none", "good", "dead"}]
  /\ idle \in Seq({"good", "dead"})
  /\ opening \in Nat /\ size \in Nat /\ wasted \in Nat
  /\ db \in {"up", "down"}

\* The two queues list exactly the requests that wait in them, once each.
Queued == Lists(queue, At("queued")) /\ Lists(waiting, At("waiting"))

\* A call holds a connection exactly while it runs.
Holding == \A q \in Requests : conn[q] # "none" <=> pc[q] = "running"

\* No more threads are busy than there are.
Threads == IsFiniteSet(Busy) /\ Cardinality(Busy) <= MaxWorkers

\* Every connection counted is somewhere, and none is idle while a thread waits.
Pooled ==
  /\ size <= MaxConns
  /\ size = Len(idle) + Cardinality(Holders) + opening
  /\ waiting # <<>> => idle = <<>>

\* How far a request of kind k is: the calls that succeeded, and those still to make.
Stage(k, d, t) ==
  \/ k = "health" /\ d = <<>> /\ t = <<"ping">>
  \/ k = "read" /\ d = <<>> /\ t = <<"lookup", "work">>
  \/ k = "read" /\ d = <<"lookup">> /\ t = <<"work">>
  \/ k = "first_read" /\ d = <<>> /\ t = <<"lookup", "touch", "work">>
  \/ k = "first_read" /\ d = <<"lookup">> /\ t = <<"touch", "work">>
  \/ k = "first_read" /\ d = <<"lookup", "touch">> /\ t = <<"work">>
  \/ k = "delete" /\ d = <<>> /\ t = <<"lookup", "work", "work">>
  \/ k = "delete" /\ d = <<"lookup">> /\ t = <<"work", "work">>
  \/ k = "delete" /\ d = <<"lookup", "work">> /\ t = <<"work">>
  \/ k = "first_delete" /\ d = <<>> /\ t = <<"lookup", "touch", "work", "work">>
  \/ k = "first_delete" /\ d = <<"lookup">> /\ t = <<"touch", "work", "work">>
  \/ k = "first_delete" /\ d = <<"lookup", "touch">> /\ t = <<"work", "work">>
  \/ k = "first_delete" /\ d = <<"lookup", "touch", "work">> /\ t = <<"work">>

\* The kind a request amounts to: one whose touch failed goes on as if it were not due.
Effective(q) == IF "touch" \in failed[q] THEN NotDue(kind[q]) ELSE kind[q]

\* What is known of a request by where it is: nothing was done for a new one, only
\* a touch has failed for one in flight, and an answer was earned.
Staged(q) ==
  CASE pc[q] = "new"      -> done[q] = <<>> /\ failed[q] = {} /\ status[q] = "none"
    [] pc[q] = "answered" -> \/ status[q] = "503" /\ failed[q] \ {"touch"} # {}
                             \/ status[q] = "200" /\ failed[q] \subseteq {"touch"} /\ done[q] = Plan(Effective(q))
    [] OTHER              -> /\ Stage(Effective(q), done[q], todo[q])
                             /\ failed[q] \subseteq {"touch"} /\ status[q] = "none"
Plans == \A q \in Requests : Staged(q)

PoolInv == PoolTyped /\ Queued /\ Holding /\ Threads /\ Pooled /\ DeadConnectionsSpent /\ Plans

-----------------------------------------------------------------------------
(* How a request gets from one stage to the next.                          *)

LEMMA TailsOfPlans ==
  /\ \A a \in Calls : Head(<<a>>) = a /\ Tail(<<a>>) = <<>> /\ Len(<<a>>) = 1
  /\ \A a, b \in Calls : Head(<<a, b>>) = a /\ Tail(<<a, b>>) = <<b>> /\ Len(<<a, b>>) = 2
  /\ \A a, b, c \in Calls : Head(<<a, b, c>>) = a /\ Tail(<<a, b, c>>) = <<b, c>> /\ Len(<<a, b, c>>) = 3
  /\ \A a, b, c, d \in Calls :
       Head(<<a, b, c, d>>) = a /\ Tail(<<a, b, c, d>>) = <<b, c, d>> /\ Len(<<a, b, c, d>>) = 4
OBVIOUS

LEMMA SeqEqual ==
  ASSUME NEW S, NEW s \in Seq(S), NEW t \in Seq(S), Len(s) = Len(t), \A i \in 1 .. Len(s) : s[i] = t[i]
  PROVE  s = t
OBVIOUS

LEMMA AppendToOne ==
  ASSUME NEW S, NEW a \in S, NEW b \in S
  PROVE  Append(<<a>>, b) = <<a, b>>
<1>1. <<a>> \in Seq(S) /\ <<a, b>> \in Seq(S) /\ Len(<<a>>) = 1 /\ Len(<<a, b>>) = 2
  OBVIOUS
<1>2. <<a>>[1] = a /\ <<a, b>>[1] = a /\ <<a, b>>[2] = b
  OBVIOUS
<1>3. Append(<<a>>, b) \in Seq(S) /\ Len(Append(<<a>>, b)) = 2
  BY <1>1
<1>4. Append(<<a>>, b)[1] = a /\ Append(<<a>>, b)[2] = b
  BY <1>1, <1>2
<1>5. \A i \in 1 .. 2 : i = 1 \/ i = 2
  OBVIOUS
<1> QED BY <1>1, <1>2, <1>3, <1>4, <1>5, SeqEqual

LEMMA AppendToTwo ==
  ASSUME NEW S, NEW a \in S, NEW b \in S, NEW c \in S
  PROVE  Append(<<a, b>>, c) = <<a, b, c>>
<1>1. /\ <<a, b>> \in Seq(S) /\ <<a, b, c>> \in Seq(S)
      /\ Len(<<a, b>>) = 2 /\ Len(<<a, b, c>>) = 3
  OBVIOUS
<1>2. /\ <<a, b>>[1] = a /\ <<a, b>>[2] = b
      /\ <<a, b, c>>[1] = a /\ <<a, b, c>>[2] = b /\ <<a, b, c>>[3] = c
  OBVIOUS
<1>3. Append(<<a, b>>, c) \in Seq(S) /\ Len(Append(<<a, b>>, c)) = 3
  BY <1>1
<1>4. Append(<<a, b>>, c)[1] = a /\ Append(<<a, b>>, c)[2] = b /\ Append(<<a, b>>, c)[3] = c
  BY <1>1, <1>2
<1>5. \A i \in 1 .. 3 : i = 1 \/ i = 2 \/ i = 3
  OBVIOUS
<1> QED BY <1>1, <1>2, <1>3, <1>4, <1>5, SeqEqual

LEMMA AppendToThree ==
  ASSUME NEW S, NEW a \in S, NEW b \in S, NEW c \in S, NEW d \in S
  PROVE  Append(<<a, b, c>>, d) = <<a, b, c, d>>
<1>1. /\ <<a, b, c>> \in Seq(S) /\ <<a, b, c, d>> \in Seq(S)
      /\ Len(<<a, b, c>>) = 3 /\ Len(<<a, b, c, d>>) = 4
  OBVIOUS
<1>2. /\ <<a, b, c>>[1] = a /\ <<a, b, c>>[2] = b /\ <<a, b, c>>[3] = c
      /\ <<a, b, c, d>>[1] = a /\ <<a, b, c, d>>[2] = b
      /\ <<a, b, c, d>>[3] = c /\ <<a, b, c, d>>[4] = d
  OBVIOUS
<1>3. Append(<<a, b, c>>, d) \in Seq(S) /\ Len(Append(<<a, b, c>>, d)) = 4
  BY <1>1
<1>4. /\ Append(<<a, b, c>>, d)[1] = a /\ Append(<<a, b, c>>, d)[2] = b
      /\ Append(<<a, b, c>>, d)[3] = c /\ Append(<<a, b, c>>, d)[4] = d
  BY <1>1, <1>2
<1>5. \A i \in 1 .. 4 : i = 1 \/ i = 2 \/ i = 3 \/ i = 4
  OBVIOUS
<1> QED BY <1>1, <1>2, <1>3, <1>4, <1>5, SeqEqual

LEMMA LongerBy ==
  /\ \A a \in Calls : Append(<<>>, a) = <<a>>
  /\ \A a, b \in Calls : Append(<<a>>, b) = <<a, b>>
  /\ \A a, b, c \in Calls : Append(<<a, b>>, c) = <<a, b, c>>
  /\ \A a, b, c, d \in Calls : Append(<<a, b, c>>, d) = <<a, b, c, d>>
<1>1. PICK S : S = Calls
  OBVIOUS
<1>2. ASSUME NEW a \in S PROVE Append(<<>>, a) = <<a>>
  OBVIOUS
<1>3. ASSUME NEW a \in S, NEW b \in S PROVE Append(<<a>>, b) = <<a, b>>
  BY AppendToOne
<1>4. ASSUME NEW a \in S, NEW b \in S, NEW c \in S PROVE Append(<<a, b>>, c) = <<a, b, c>>
  BY AppendToTwo
<1>5. ASSUME NEW a \in S, NEW b \in S, NEW c \in S, NEW d \in S
      PROVE  Append(<<a, b, c>>, d) = <<a, b, c, d>>
  BY AppendToThree
<1> QED BY <1>1, <1>2, <1>3, <1>4, <1>5

\* A success moves a request on or completes it; a touch is never the last call, and
\* the request goes on without it as one whose last_seen was not due.
LEMMA StageMoves ==
  ASSUME NEW k, NEW d, NEW t, Stage(k, d, t)
  PROVE  /\ t # <<>> /\ Head(t) \in Calls /\ Tail(t) \in Seq(Calls) /\ Len(t) \in Nat
         /\ Len(t) > 1 => Stage(k, Append(d, Head(t)), Tail(t))
         /\ ~ (Len(t) > 1) => Append(d, Head(t)) = Plan(k)
         /\ Head(t) = "touch" => Len(t) > 1 /\ Stage(NotDue(k), d, Tail(t))
<1>0. {"ping", "lookup", "touch", "work"} \subseteq Calls
  BY DEF Calls
<1>1. CASE k = "health" /\ d = <<>> /\ t = <<"ping">>
  BY <1>0, <1>1, TailsOfPlans, LongerBy DEF Plan
<1>2. CASE k = "read" /\ d = <<>> /\ t = <<"lookup", "work">>
  BY <1>0, <1>2, TailsOfPlans, LongerBy DEF Stage
<1>3. CASE k = "read" /\ d = <<"lookup">> /\ t = <<"work">>
  BY <1>0, <1>3, TailsOfPlans, LongerBy DEF Plan
<1>4. CASE k = "first_read" /\ d = <<>> /\ t = <<"lookup", "touch", "work">>
  BY <1>0, <1>4, TailsOfPlans, LongerBy DEF Stage
<1>5. CASE k = "first_read" /\ d = <<"lookup">> /\ t = <<"touch", "work">>
  BY <1>0, <1>5, TailsOfPlans, LongerBy DEF Stage, NotDue
<1>6. CASE k = "first_read" /\ d = <<"lookup", "touch">> /\ t = <<"work">>
  BY <1>0, <1>6, TailsOfPlans, LongerBy DEF Plan
<1>7. CASE k = "delete" /\ d = <<>> /\ t = <<"lookup", "work", "work">>
  BY <1>0, <1>7, TailsOfPlans, LongerBy DEF Stage
<1>8. CASE k = "delete" /\ d = <<"lookup">> /\ t = <<"work", "work">>
  BY <1>0, <1>8, TailsOfPlans, LongerBy DEF Stage
<1>9. CASE k = "delete" /\ d = <<"lookup", "work">> /\ t = <<"work">>
  BY <1>0, <1>9, TailsOfPlans, LongerBy DEF Plan
<1>10. CASE k = "first_delete" /\ d = <<>> /\ t = <<"lookup", "touch", "work", "work">>
  BY <1>0, <1>10, TailsOfPlans, LongerBy DEF Stage
<1>11. CASE k = "first_delete" /\ d = <<"lookup">> /\ t = <<"touch", "work", "work">>
  BY <1>0, <1>11, TailsOfPlans, LongerBy DEF Stage, NotDue
<1>12. CASE k = "first_delete" /\ d = <<"lookup", "touch">> /\ t = <<"work", "work">>
  BY <1>0, <1>12, TailsOfPlans, LongerBy DEF Stage
<1>13. CASE k = "first_delete" /\ d = <<"lookup", "touch", "work">> /\ t = <<"work">>
  BY <1>0, <1>13, TailsOfPlans, LongerBy DEF Plan
<1> QED BY <1>1, <1>2, <1>3, <1>4, <1>5, <1>6, <1>7,
           <1>8, <1>9, <1>10, <1>11, <1>12, <1>13 DEF Stage

LEMMA NotDueTwice == \A k : NotDue(NotDue(k)) = NotDue(k)
BY DEF NotDue

LEMMA PlanStages ==
  ASSUME NEW k \in Kinds
  PROVE  Stage(k, <<>>, Plan(k)) /\ Plan(k) \in Seq(Calls)
<1>1. k \in AllKinds
  BY PoolAssumption
<1>2. CASE k = "health"
  <2>1. Plan(k) = <<"ping">>
    BY <1>2 DEF Plan
  <2>2. <<"ping">> \in Seq(Calls)
    BY DEF Calls
  <2> QED BY <1>2, <2>1, <2>2 DEF Stage
<1>3. CASE k = "read"
  <2>1. Plan(k) = <<"lookup", "work">>
    BY <1>3 DEF Plan
  <2>2. <<"lookup", "work">> \in Seq(Calls)
    BY DEF Calls
  <2> QED BY <1>3, <2>1, <2>2 DEF Stage
<1>4. CASE k = "first_read"
  <2>1. Plan(k) = <<"lookup", "touch", "work">>
    BY <1>4 DEF Plan
  <2>2. <<"lookup", "touch", "work">> \in Seq(Calls)
    BY DEF Calls
  <2> QED BY <1>4, <2>1, <2>2 DEF Stage
<1>5. CASE k = "delete"
  <2>1. Plan(k) = <<"lookup", "work", "work">>
    BY <1>5 DEF Plan
  <2>2. <<"lookup", "work", "work">> \in Seq(Calls)
    BY DEF Calls
  <2> QED BY <1>5, <2>1, <2>2 DEF Stage
<1>6. CASE k = "first_delete"
  <2>1. Plan(k) = <<"lookup", "touch", "work", "work">>
    BY <1>6 DEF Plan
  <2>2. <<"lookup", "touch", "work", "work">> \in Seq(Calls)
    BY DEF Calls
  <2> QED BY <1>6, <2>1, <2>2 DEF Stage
<1> QED BY <1>1, <1>2, <1>3, <1>4, <1>5, <1>6 DEF AllKinds

-----------------------------------------------------------------------------
(* Counting dead connections.                                              *)

DeadIn(s) == {i \in 1 .. Len(s) : s[i] = "dead"}

LEMMA DeadFinite ==
  ASSUME NEW K, NEW s \in Seq(K)
  PROVE  IsFiniteSet(DeadIn(s)) /\ Cardinality(DeadIn(s)) \in Nat
<1>1. IsFiniteSet(1 .. Len(s)) /\ DeadIn(s) \subseteq 1 .. Len(s)
  BY FS_Interval DEF DeadIn
<1> QED BY <1>1, FS_Subset, FS_CardinalityType

LEMMA DeadAppendGood ==
  ASSUME NEW K, NEW s \in Seq(K), "good" \in K
  PROVE  DeadIn(Append(s, "good")) = DeadIn(s)
<1>1. PICK n \in Nat : n = Len(s)
  OBVIOUS
<1>2. PICK u : u = Append(s, "good")
  OBVIOUS
<1>3. Len(u) = n + 1 /\ u[n + 1] = "good" /\ \A i \in 1 .. n : u[i] = s[i]
  BY <1>1, <1>2
<1>4. \A i \in 1 .. n + 1 : i \in 1 .. n \/ i = n + 1
  OBVIOUS
<1>5. \A i : i \in DeadIn(u) <=> i \in DeadIn(s)
  BY <1>1, <1>3, <1>4 DEF DeadIn
<1> QED BY <1>2, <1>5

\* Those behind the first move up by one place.
LEMMA DeadTail ==
  ASSUME NEW K, NEW s \in Seq(K), s # <<>>
  PROVE  Cardinality(DeadIn(Tail(s))) = Cardinality(DeadIn(s)) - (IF Head(s) = "dead" THEN 1 ELSE 0)
<1>1. PICK n \in Nat : n + 1 = Len(s)
  <2>1. Len(s) \in Nat /\ Len(s) # 0
    OBVIOUS
  <2> QED BY <2>1
<1>2. PICK u : u = Tail(s)
  OBVIOUS
<1>3. Len(u) = n /\ (\A i \in 1 .. n : u[i] = s[i + 1]) /\ Head(s) = s[1]
  BY <1>1, <1>2
<1>4. PICK A : A = DeadIn(u)
  OBVIOUS
<1>5. PICK B : B = DeadIn(s) \ {1}
  OBVIOUS
<1>6. \A i : i \in A <=> i \in 1 .. n /\ s[i + 1] = "dead"
  BY <1>3, <1>4 DEF DeadIn
<1>7. \A i : i \in B <=> i \in 2 .. n + 1 /\ s[i] = "dead"
  BY <1>1, <1>5 DEF DeadIn
<1>8. PICK f : f = [i \in A |-> i + 1]
  OBVIOUS
<1>9. f \in Bijection(A, B)
  <2>1. f \in [A -> B]
    <3>1. \A i \in A : i + 1 \in B
      BY <1>6, <1>7
    <3> QED BY <1>8, <3>1
  <2>2. \A i, j \in A : f[i] = f[j] => i = j
    <3>1. A \subseteq Int
      BY <1>6
    <3> QED BY <1>8, <3>1
  <2>3. \A k \in B : \E i \in A : f[i] = k
    <3> SUFFICES ASSUME NEW k \in B PROVE \E i \in A : f[i] = k
      OBVIOUS
    <3>1. k - 1 \in A /\ (k - 1) + 1 = k
      BY <1>6, <1>7
    <3> QED BY <1>8, <3>1
  <2> QED BY <2>1, <2>2, <2>3 DEF Bijection, Injection, Surjection, IsInjective
<1>10. IsFiniteSet(A) /\ IsFiniteSet(DeadIn(s)) /\ Cardinality(DeadIn(s)) \in Nat
  <2>1. u \in Seq(K)
    BY <1>2
  <2> QED BY <1>4, <2>1, DeadFinite
<1>11. Cardinality(A) = Cardinality(B)
  BY <1>9, <1>10, FS_Bijection DEF ExistsBijection
<1>12. 1 \in DeadIn(s) <=> Head(s) = "dead"
  BY <1>1, <1>3 DEF DeadIn
<1>13. CASE Head(s) = "dead"
  <2>1. Cardinality(B) = Cardinality(DeadIn(s)) - 1
    BY <1>5, <1>10, <1>12, <1>13, FS_RemoveElement
  <2> QED BY <1>2, <1>4, <1>11, <1>13, <2>1
<1>14. CASE Head(s) # "dead"
  <2>1. B = DeadIn(s)
    BY <1>5, <1>12, <1>14
  <2> QED BY <1>2, <1>4, <1>10, <1>11, <1>14, <2>1
<1> QED BY <1>13, <1>14

LEMMA DeadAll ==
  ASSUME NEW n \in Nat
  PROVE  /\ [i \in 1 .. n |-> "dead"] \in Seq({"good", "dead"})
         /\ Len([i \in 1 .. n |-> "dead"]) = n
         /\ Cardinality(DeadIn([i \in 1 .. n |-> "dead"])) = n
<1>1. PICK u : u = [i \in 1 .. n |-> "dead"]
  OBVIOUS
<1>2. u \in Seq({"good", "dead"}) /\ Len(u) = n
  BY <1>1
<1>3. \A i : i \in DeadIn(u) <=> i \in 1 .. n
  BY <1>1, <1>2 DEF DeadIn
<1>4. DeadIn(u) = 1 .. n
  BY <1>3
<1>5. Cardinality(1 .. n) = n
  BY FS_Interval
<1> QED BY <1>1, <1>2, <1>4, <1>5

-----------------------------------------------------------------------------
(* What the steps have in common.                                          *)

\* The requests at a place, after one of them has moved.
LEMMA Moved ==
  ASSUME NEW R, NEW p, p = [z \in R |-> p[z]], NEW q \in R, NEW x, NEW r, r = [p EXCEPT ![q] = x]
  PROVE  /\ \A y : y # x => {z \in R : r[z] = y} = {z \in R : p[z] = y} \ {q}
         /\ {z \in R : r[z] = x} = {z \in R : p[z] = x} \cup {q}
<1>1. r[q] = x /\ \A z \in R : z # q => r[z] = p[z]
  OBVIOUS
<1> QED BY <1>1

LEMMA Counts ==
  ASSUME PoolTyped, Holding, Threads
  PROVE  /\ IsFiniteSet(Holders) /\ Cardinality(Holders) \in Nat
         /\ IsFiniteSet(DeadHeld) /\ Cardinality(DeadHeld) \in Nat
         /\ Dead = DeadIn(idle) /\ IsFiniteSet(Dead) /\ Cardinality(Dead) \in Nat
         /\ Holders = At("running") /\ DeadHeld \subseteq Holders
         /\ Cardinality(DeadHeld) <= Cardinality(Holders)
<1>1. Holders \subseteq Busy /\ DeadHeld \subseteq Holders /\ Holders = At("running")
  BY DEF Holding, Holders, Busy, DeadHeld, At
<1>2. IsFiniteSet(Holders) /\ Cardinality(Holders) \in Nat
  BY <1>1, FS_Subset, FS_CardinalityType DEF Threads
<1>3. /\ IsFiniteSet(DeadHeld) /\ Cardinality(DeadHeld) \in Nat
      /\ Cardinality(DeadHeld) <= Cardinality(Holders)
  BY <1>1, <1>2, FS_Subset, FS_CardinalityType
<1>4. Dead = DeadIn(idle)
  BY DEF Dead, DeadIn
<1>5. idle \in Seq({"good", "dead"})
  BY DEF PoolTyped
<1> QED BY <1>1, <1>2, <1>3, <1>4, <1>5, DeadFinite

\* A request in flight may change place; what it has done is unaffected.
InFlight == {"queued", "waiting", "running", "succeeded", "failed"}
LEMMA PlansKept ==
  ASSUME Plans, UNCHANGED reqVars,
         \A q \in Requests : pc'[q] = pc[q] \/ (pc[q] \in InFlight /\ pc'[q] \in InFlight)
  PROVE  Plans'
<1> SUFFICES ASSUME NEW q \in Requests PROVE Staged(q)'
  BY DEF Plans
<1>1. Staged(q)
  BY DEF Plans
<1>2. todo' = todo /\ status' = status /\ failed' = failed /\ done' = done /\ Effective(q)' = Effective(q)
  BY DEF reqVars, Effective
<1>3. CASE pc'[q] = pc[q]
  BY <1>1, <1>2, <1>3 DEF Staged
<1>4. CASE pc[q] \in InFlight /\ pc'[q] \in InFlight
  <2>1. Stage(Effective(q), done[q], todo[q]) /\ failed[q] \subseteq {"touch"} /\ status[q] = "none"
    BY <1>1, <1>4 DEF Staged, InFlight
  <2>2. pc'[q] # "new" /\ pc'[q] # "answered"
    BY <1>4 DEF InFlight
  <2> QED BY <1>2, <2>1, <2>2 DEF Staged
<1> QED BY <1>3, <1>4

LEMMA ThreadsKept ==
  ASSUME Threads, Busy' \subseteq Busy
  PROVE  Threads'
<1>1. PICK b : b = Busy'
  OBVIOUS
<1>2. IsFiniteSet(b) /\ Cardinality(b) <= Cardinality(Busy) /\ Cardinality(b) \in Nat
      /\ Cardinality(Busy) \in Nat
  BY <1>1, FS_Subset, FS_CardinalityType DEF Threads
<1>3. Cardinality(b) <= MaxWorkers
  BY <1>2, PoolAssumption DEF Threads
<1> QED BY <1>1, <1>2, <1>3 DEF Threads

\* A connection handed to the longest waiting thread, or made idle: no request
\* changes place but that one, and one more connection is in the pool or held.
Where(f, v) == {q \in Requests : f[q] = v}
Held(c) == {q \in Requests : c[q] # "none"}
BusyIn(p) == {q \in Requests : p[q] \in {"waiting", "running"}}
HeldWhileRunning(c, p) == \A q \in Requests : c[q] # "none" <=> p[q] = "running"
LEMMA HandedOut ==
  ASSUME NEW pcs \in [Requests -> Places], NEW conns \in [Requests -> {"none", "good", "dead"}],
         idle \in Seq({"good", "dead"}),
         Lists(waiting, Where(pcs, "waiting")),
         HeldWhileRunning(conns, pcs),
         IsFiniteSet(Held(conns)),
         waiting # <<>> => idle = <<>>,
         HandOut("good", pcs, conns)
  PROVE  /\ pc' \in [Requests -> Places] /\ conn' \in [Requests -> {"none", "good", "dead"}]
         /\ idle' \in Seq({"good", "dead"})
         /\ Lists(waiting', Where(pc', "waiting"))
         /\ Where(pc', "queued") = Where(pcs, "queued")
         /\ Busy' = BusyIn(pcs)
         /\ HeldWhileRunning(conn', pc')
         /\ waiting' # <<>> => idle' = <<>>
         /\ Len(idle') + Cardinality(Holders') = Len(idle) + Cardinality(Held(conns)) + 1
         /\ DeadHeld' = Where(conns, "dead") /\ DeadIn(idle') = DeadIn(idle)
         /\ \A q \in Requests : pc'[q] = pcs[q] \/ (pcs[q] = "waiting" /\ pc'[q] = "running")
<1> USE DEF Where, Held, BusyIn, HeldWhileRunning
<1>1. PICK W : W = {q \in Requests : pcs[q] = "waiting"}
  OBVIOUS
<1>2. PICK H : H = {q \in Requests : conns[q] # "none"}
  OBVIOUS
<1>3. Len(idle) \in Nat /\ Cardinality(H) \in Nat /\ IsFiniteSet(H)
  BY <1>2, FS_CardinalityType
<1>4. CASE waiting # <<>>
  <2>1. PICK w : w = Head(waiting)
    OBVIOUS
  <2>2. PICK t : t = Tail(waiting)
    OBVIOUS
  <2>3. w \in W /\ Lists(t, W \ {w})
    BY <1>1, <1>4, <2>1, <2>2, ListTail
  <2>4. w \in Requests /\ pcs[w] = "waiting" /\ conns[w] = "none"
    BY <1>1, <2>3
  <2>5. waiting' = t /\ pc' = [pcs EXCEPT ![w] = "running"] /\ conn' = [conns EXCEPT ![w] = "good"] /\ idle' = idle
    BY <1>4, <2>1, <2>2 DEF HandOut
  <2>6. pc' \in [Requests -> Places] /\ conn' \in [Requests -> {"none", "good", "dead"}]
    BY <2>4, <2>5 DEF Places
  <2>7. /\ pc'[w] = "running" /\ conn'[w] = "good"
        /\ \A q \in Requests : q # w => pc'[q] = pcs[q] /\ conn'[q] = conns[q]
    BY <2>4, <2>5
  <2>8. {q \in Requests : pc'[q] = "waiting"} = W \ {w}
    BY <1>1, <2>7
  <2>9. Lists(waiting', {q \in Requests : pc'[q] = "waiting"})
    BY <2>3, <2>5, <2>8
  <2>10. Holders' = H \cup {w} /\ w \notin H
    BY <1>2, <2>4, <2>7 DEF Holders
  <2>11. Cardinality(H \cup {w}) = Cardinality(H) + 1
    BY <1>3, <2>10, FS_AddElement
  <2>12. Cardinality(Holders') = Cardinality(H) + 1
    BY <2>10, <2>11
  <2>13. {q \in Requests : pc'[q] = "queued"} = {q \in Requests : pcs[q] = "queued"}
         /\ Busy' = {q \in Requests : pcs[q] \in {"waiting", "running"}}
         /\ DeadHeld' = {q \in Requests : conns[q] = "dead"}
    BY <2>4, <2>7 DEF Busy, DeadHeld
  <2>14. \A q \in Requests : conn'[q] # "none" <=> pc'[q] = "running"
    BY <2>4, <2>7
  <2>15. \A q \in Requests : pc'[q] = pcs[q] \/ (pcs[q] = "waiting" /\ pc'[q] = "running")
    BY <2>4, <2>7
  <2>16. idle = <<>>
    BY <1>4
  <2>17. Len(idle') + Cardinality(Holders') = Len(idle) + Cardinality(H) + 1
    BY <1>3, <2>5, <2>12
  <2> QED BY <1>2, <2>5, <2>6, <2>9, <2>13, <2>14, <2>15, <2>16, <2>17
<1>5. CASE waiting = <<>>
  <2>1. PICK u : u = Append(idle, "good")
    OBVIOUS
  <2>2. idle' = u /\ pc' = pcs /\ conn' = conns /\ waiting' = waiting
    BY <1>5, <2>1 DEF HandOut
  <2>3. u \in Seq({"good", "dead"}) /\ Len(u) = Len(idle) + 1
    BY <2>1
  <2>4. DeadIn(u) = DeadIn(idle)
    BY <2>1, DeadAppendGood
  <2>5. Holders' = H /\ DeadHeld' = {q \in Requests : conns[q] = "dead"}
        /\ Busy' = {q \in Requests : pcs[q] \in {"waiting", "running"}}
    BY <1>2, <2>2 DEF Holders, DeadHeld, Busy
  <2>6. Lists(waiting', {q \in Requests : pc'[q] = "waiting"})
    BY <2>2
  <2>7. Len(idle') + Cardinality(Holders') = Len(idle) + Cardinality(H) + 1
    <3>1. Cardinality(Holders') = Cardinality(H)
      BY <2>5
    <3> QED BY <1>3, <2>2, <2>3, <3>1
  <2> QED BY <1>2, <1>5, <2>2, <2>3, <2>4, <2>5, <2>6, <2>7
<1> QED BY <1>4, <1>5

-----------------------------------------------------------------------------
(* Every step keeps the invariant.                                         *)

LEMMA InitInv == Init => PoolInv
<1> SUFFICES ASSUME Init PROVE PoolInv
  OBVIOUS
<1>1. PoolTyped
  <2>1. \A q \in Requests : todo[q] \in Seq(Calls) /\ done[q] \in Seq(Calls)
    BY DEF Init
  <2> QED BY <2>1, PoolAssumption DEF Init, PoolTyped, Places
<1>2. Queued
  <2>1. At("queued") = {} /\ At("waiting") = {}
    BY DEF Init, At
  <2> QED BY <2>1, ListEmpty DEF Init, Queued
<1>3. Holding
  BY DEF Init, Holding
<1>4. Busy = {} /\ Holders = {} /\ DeadHeld = {} /\ Dead = {}
  BY DEF Init, Busy, Holders, DeadHeld, Dead
<1>5. Threads
  BY <1>4, FS_EmptySet, PoolAssumption DEF Threads
<1>6. Pooled
  <2>1. Len(idle) = 0 /\ opening = MinConns /\ size = MinConns /\ waiting = <<>>
    BY DEF Init
  <2>2. Cardinality(Holders) = 0
    BY <1>4, FS_EmptySet
  <2> QED BY <2>1, <2>2, PoolAssumption DEF Pooled
<1>7. DeadConnectionsSpent
  <2>1. wasted = 0 /\ Cardinality(Dead) = 0 /\ Cardinality(DeadHeld) = 0
    BY <1>4, FS_EmptySet DEF Init
  <2> QED BY <2>1, PoolAssumption DEF DeadConnectionsSpent, DeadHeld
<1>8. Plans
  BY DEF Init, Plans, Staged
<1> QED BY <1>1, <1>2, <1>3, <1>5, <1>6, <1>7, <1>8 DEF PoolInv

LEMMA ArriveInv == ASSUME PoolInv, NEW q \in Requests, Arrive(q) PROVE PoolInv'
<1> USE DEF PoolInv
<1>1. PICK k \in Kinds : kind' = [kind EXCEPT ![q] = k] /\ todo' = [todo EXCEPT ![q] = Plan(k)]
  BY DEF Arrive
<1>2. PICK plan : plan = Plan(k)
  OBVIOUS
<1>3. Stage(k, <<>>, plan) /\ plan \in Seq(Calls)
  BY <1>2, PlanStages
<1>4. pc[q] = "new" /\ pc' = [pc EXCEPT ![q] = "queued"] /\ todo' = [todo EXCEPT ![q] = plan]
      /\ kind' = [kind EXCEPT ![q] = k] /\ queue' = Append(queue, q)
      /\ UNCHANGED <<status, waiting, conn, idle, opening, size, db, failed, done, wasted>>
  BY <1>1, <1>2 DEF Arrive, dbVars
<1>5. PoolTyped'
  BY <1>3, <1>4 DEF PoolTyped, Places
<1>6. Queued'
  <2>1. pc = [z \in Requests |-> pc[z]]
    BY DEF PoolTyped
  <2>2. /\ {z \in Requests : pc'[z] = "queued"} = {z \in Requests : pc[z] = "queued"} \cup {q}
        /\ {z \in Requests : pc'[z] = "waiting"} = {z \in Requests : pc[z] = "waiting"} \ {q}
    BY <1>4, <2>1, Moved
  <2>3. At("queued")' = At("queued") \cup {q} /\ At("waiting")' = At("waiting") /\ q \notin At("queued")
    BY <1>4, <2>2 DEF At
  <2>4. Lists(Append(queue, q), At("queued") \cup {q})
    BY <2>3, ListAppend DEF Queued
  <2>5. Lists(queue', At("queued")')
    BY <1>4, <2>3, <2>4
  <2>6. Lists(waiting', At("waiting")')
    BY <1>4, <2>3 DEF Queued
  <2> QED BY <2>5, <2>6 DEF Queued
<1>7. Holding'
  BY <1>4 DEF Holding, PoolTyped
<1>8. Busy' = Busy /\ Holders' = Holders /\ Dead' = Dead
  BY <1>4 DEF Busy, Holders, Dead, PoolTyped
<1>9. Threads'
  BY <1>8, ThreadsKept
<1>10. Pooled'
  BY <1>4, <1>8 DEF Pooled
<1>11. DeadConnectionsSpent'
  BY <1>4, <1>8 DEF DeadConnectionsSpent
<1>12. Plans'
  <2> SUFFICES ASSUME NEW z \in Requests PROVE Staged(z)'
    BY DEF Plans
  <2>1. Staged(z)
    BY DEF Plans
  <2>2. CASE z = q
    <3>1. done[q] = <<>> /\ failed[q] = {} /\ status[q] = "none"
      BY <1>4, <2>1, <2>2 DEF Staged
    <3>2. pc'[q] = "queued" /\ todo'[q] = plan /\ kind'[q] = k
      BY <1>4 DEF PoolTyped
    <3>3. Effective(q)' = k
      BY <1>4, <3>1, <3>2 DEF Effective
    <3> QED BY <1>3, <1>4, <2>2, <3>1, <3>2, <3>3 DEF Staged
  <2>3. CASE z # q
    <3>1. pc'[z] = pc[z] /\ todo'[z] = todo[z] /\ kind'[z] = kind[z]
      BY <1>4, <2>3 DEF PoolTyped
    <3>2. Effective(z)' = Effective(z)
      BY <1>4, <3>1 DEF Effective
    <3> QED BY <1>4, <2>1, <3>1, <3>2 DEF Staged
  <2> QED BY <2>2, <2>3
<1> QED BY <1>5, <1>6, <1>7, <1>9, <1>10, <1>11, <1>12

\* A thread takes the oldest call; with an idle connection it runs at once.
LEMMA StartInv == ASSUME PoolInv, Start PROVE PoolInv'
<1> USE DEF PoolInv
<1>1. PICK q : q = Head(queue)
  OBVIOUS
<1>2. PICK t : t = Tail(queue)
  OBVIOUS
<1>3. queue # <<>> /\ queue' = t /\ Cardinality(Busy) < MaxWorkers /\ UNCHANGED <<kind, todo, status, failed, done, db, wasted>>
  BY <1>2 DEF Start, FreeThread, reqVars, dbVars
<1>4. q \in At("queued") /\ Lists(t, At("queued") \ {q})
  BY <1>1, <1>2, <1>3, ListTail DEF Queued
<1>5. q \in Requests /\ pc[q] = "queued" /\ conn[q] = "none"
  BY <1>4 DEF At, Holding, PoolTyped
<1>6. PICK x : x \in {"running", "waiting"} /\ pc' = [pc EXCEPT ![q] = x]
  BY <1>1 DEF Start
<1>7. Threads'
  <2>1. Busy' = Busy \cup {q} /\ q \notin Busy
    BY <1>5, <1>6 DEF Busy, PoolTyped
  <2>2. IsFiniteSet(Busy \cup {q}) /\ Cardinality(Busy \cup {q}) = Cardinality(Busy) + 1
        /\ Cardinality(Busy) \in Nat
    BY <2>1, FS_AddElement, FS_CardinalityType DEF Threads
  <2>3. Cardinality(Busy) + 1 <= MaxWorkers
    BY <1>3, <2>2, PoolAssumption
  <2> QED BY <2>1, <2>2, <2>3 DEF Threads
<1>8. Plans'
  BY <1>3, <1>5, <1>6, PlansKept DEF PoolTyped, reqVars, InFlight
<1>9. pc = [z \in Requests |-> pc[z]]
  BY DEF PoolTyped
<1>10. /\ {z \in Requests : pc'[z] = x} = {z \in Requests : pc[z] = x} \cup {q}
       /\ \A y : y # x => {z \in Requests : pc'[z] = y} = {z \in Requests : pc[z] = y} \ {q}
  BY <1>5, <1>6, <1>9, Moved
<1>11. At("queued")' = At("queued") \ {q}
  BY <1>6, <1>10 DEF At
<1>12. Lists(queue', At("queued")')
  BY <1>3, <1>4, <1>11
<1>13. CASE idle # <<>> /\ x = "running"
  <2>1. PICK k : k = Head(idle)
    OBVIOUS
  <2>2. PICK rest : rest = Tail(idle)
    OBVIOUS
  <2>3. conn' = [conn EXCEPT ![q] = k] /\ idle' = rest /\ UNCHANGED <<waiting, opening, size>>
    BY <1>1, <1>13, <2>1, <2>2 DEF Start
  <2>4. k \in {"good", "dead"} /\ rest \in Seq({"good", "dead"}) /\ Len(rest) = Len(idle) - 1 /\ Len(idle) \in Nat
    BY <1>13, <2>1, <2>2 DEF PoolTyped
  <2>5. PoolTyped'
    BY <1>3, <1>6, <2>3, <2>4 DEF PoolTyped, Places
  <2>6. At("waiting")' = At("waiting")
    BY <1>5, <1>10, <1>13 DEF At
  <2>7. Lists(waiting', At("waiting")')
    BY <2>3, <2>6 DEF Queued
  <2>8. Queued'
    BY <1>12, <2>7 DEF Queued
  <2>9. Holding'
    BY <1>5, <1>6, <1>13, <2>3, <2>4 DEF Holding, PoolTyped
  <2>10. Holders' = Holders \cup {q} /\ q \notin Holders
    BY <1>5, <2>3, <2>4 DEF Holders, PoolTyped
  <2>11. Cardinality(Holders') = Cardinality(Holders) + 1 /\ Cardinality(Holders) \in Nat
    <3>1. Cardinality(Holders \cup {q}) = Cardinality(Holders) + 1
      BY <2>10, Counts, FS_AddElement
    <3> QED BY <2>10, <3>1, Counts
  <2>12. Pooled'
    <3>1. waiting = <<>>
      BY <1>13 DEF Pooled
    <3>2. size' = Len(idle') + Cardinality(Holders') + opening'
      BY <2>3, <2>4, <2>11 DEF Pooled, PoolTyped
    <3> QED BY <2>3, <3>1, <3>2 DEF Pooled
  <2>13. DeadConnectionsSpent'
    <3>1. Cardinality(DeadIn(rest)) = Cardinality(DeadIn(idle)) - (IF k = "dead" THEN 1 ELSE 0)
      BY <1>13, <2>1, <2>2, DeadTail DEF PoolTyped
    <3>2. Dead' = DeadIn(rest)
      BY <2>3 DEF Dead, DeadIn
    <3>3. Cardinality(Dead') = Cardinality(Dead) - (IF k = "dead" THEN 1 ELSE 0)
      BY <3>1, <3>2, Counts
    <3>4. DeadHeld' = (IF k = "dead" THEN DeadHeld \cup {q} ELSE DeadHeld) /\ q \notin DeadHeld
      BY <1>5, <2>3, <2>4 DEF DeadHeld, PoolTyped
    <3>5. Cardinality(DeadHeld \cup {q}) = Cardinality(DeadHeld) + 1
      BY <3>4, Counts, FS_AddElement
    <3>6. Cardinality(DeadHeld') = Cardinality(DeadHeld) + (IF k = "dead" THEN 1 ELSE 0)
      BY <3>4, <3>5, Counts
    <3>7. wasted + Cardinality(Dead) + Cardinality(DeadHeld) <= MaxConns
      BY DEF DeadConnectionsSpent, DeadHeld
    <3>8. wasted' + Cardinality(Dead') + Cardinality(DeadHeld') <= MaxConns
      BY <1>3, <3>3, <3>6, <3>7, Counts, PoolAssumption DEF PoolTyped
    <3> QED BY <3>8 DEF DeadConnectionsSpent, DeadHeld
  <2> QED BY <1>7, <1>8, <2>5, <2>8, <2>9, <2>12, <2>13
<1>14. CASE idle = <<>> /\ x = "waiting"
  <2>1. PICK w : w = Append(waiting, q)
    OBVIOUS
  <2>2. waiting' = w /\ UNCHANGED <<conn, idle>>
        /\ IF size < MaxConns THEN size' = size + 1 /\ opening' = opening + 1 ELSE UNCHANGED <<size, opening>>
    BY <1>1, <1>14, <2>1 DEF Start
  <2>3. PoolTyped'
    <3>1. opening' \in Nat /\ size' \in Nat
      <4>1. (size' = size + 1 /\ opening' = opening + 1) \/ (size' = size /\ opening' = opening)
        BY <2>2
      <4> QED BY <4>1 DEF PoolTyped
    <3>2. conn' = conn /\ idle' = idle /\ x \in Places
      BY <1>14, <2>2 DEF Places
    <3> QED BY <1>3, <1>6, <3>1, <3>2 DEF PoolTyped
  <2>4. At("waiting")' = At("waiting") \cup {q} /\ q \notin At("waiting")
    BY <1>5, <1>10, <1>14 DEF At
  <2>5. Lists(w, At("waiting") \cup {q})
    BY <2>1, <2>4, ListAppend DEF Queued
  <2>6. Lists(waiting', At("waiting")')
    BY <2>2, <2>4, <2>5
  <2>7. Queued'
    BY <1>12, <2>6 DEF Queued
  <2>8. Holding'
    BY <1>5, <1>6, <1>14, <2>2 DEF Holding, PoolTyped
  <2>9. Holders' = Holders /\ Dead' = Dead /\ idle' = <<>>
    BY <1>14, <2>2 DEF Holders, Dead
  <2>10. Pooled'
    <3>1. Cardinality(Holders') = Cardinality(Holders) /\ Len(idle') = Len(idle) /\ Len(idle) = 0
      BY <1>14, <2>9
    <3>2. size' <= MaxConns /\ size' = Len(idle') + Cardinality(Holders') + opening'
      BY <2>2, <3>1, Counts, PoolAssumption DEF Pooled, PoolTyped
    <3> QED BY <2>9, <3>2 DEF Pooled
  <2>11. DeadConnectionsSpent'
    BY <1>3, <2>2, <2>9 DEF DeadConnectionsSpent
  <2> QED BY <1>7, <1>8, <2>3, <2>7, <2>8, <2>10, <2>11
<1>15. (idle # <<>> /\ x = "running") \/ (idle = <<>> /\ x = "waiting")
  <2>1. \/ idle # <<>> /\ pc' = [pc EXCEPT ![q] = "running"]
        \/ idle = <<>> /\ pc' = [pc EXCEPT ![q] = "waiting"]
    BY <1>1 DEF Start
  <2>2. pc'[q] = x
    BY <1>5, <1>6, <1>9
  <2> QED BY <1>5, <1>9, <2>1, <2>2
<1> QED BY <1>13, <1>14, <1>15

\* A call that succeeds hands its connection on; one that fails has it replaced.
LEMMA FinishInv == ASSUME PoolInv, NEW q \in Requests, Finish(q) PROVE PoolInv'
<1> USE DEF PoolInv
<1>1. pc[q] = "running" /\ conn[q] # "none" /\ UNCHANGED <<kind, todo, status, failed, done, queue, size, db>>
  BY DEF Finish, Holding, reqVars, dbVars
<1>2. PICK freed : freed = [conn EXCEPT ![q] = "none"]
  OBVIOUS
<1>3. freed \in [Requests -> {"none", "good", "dead"}] /\ freed[q] = "none"
      /\ \A z \in Requests : z # q => freed[z] = conn[z]
  BY <1>2 DEF PoolTyped
<1>4. PICK H : H = {z \in Requests : freed[z] # "none"}
  OBVIOUS
<1>5. H = Holders \ {q} /\ q \in Holders
  BY <1>1, <1>3, <1>4 DEF Holders
<1>6. IsFiniteSet(H) /\ Cardinality(H) = Cardinality(Holders) - 1
  BY <1>5, Counts, FS_RemoveElement
<1>7. PICK y : y \in {"succeeded", "failed"} /\ (y = "succeeded" <=> conn[q] = "good")
               /\ (y = "failed" <=> conn[q] = "dead")
  <2>1. conn[q] = "good" \/ conn[q] = "dead"
    BY <1>1 DEF PoolTyped
  <2> QED BY <2>1
<1>8. PICK pcs : pcs = [pc EXCEPT ![q] = y]
  OBVIOUS
<1>9. pcs \in [Requests -> Places] /\ pcs[q] = y /\ \A z \in Requests : z # q => pcs[z] = pc[z]
  BY <1>7, <1>8 DEF PoolTyped, Places
<1>10. /\ {z \in Requests : pcs[z] = "waiting"} = At("waiting")
       /\ {z \in Requests : pcs[z] = "queued"} = At("queued")
       /\ {z \in Requests : pcs[z] \in {"waiting", "running"}} \subseteq Busy
       /\ \A z \in Requests : freed[z] # "none" <=> pcs[z] = "running"
  BY <1>1, <1>3, <1>7, <1>9 DEF At, Busy, Holding
<1>11. CASE conn[q] = "good"
  <2>1. HandOut("good", pcs, freed) /\ UNCHANGED <<opening, wasted>>
    BY <1>2, <1>7, <1>8, <1>11 DEF Finish
  <2>2. /\ idle \in Seq({"good", "dead"}) /\ Lists(waiting, Where(pcs, "waiting"))
        /\ IsFiniteSet(Held(freed)) /\ (waiting # <<>> => idle = <<>>)
        /\ HeldWhileRunning(freed, pcs)
    BY <1>4, <1>6, <1>10 DEF PoolTyped, Queued, Pooled, Where, Held, HeldWhileRunning
  <2>3a. /\ pc' \in [Requests -> Places] /\ conn' \in [Requests -> {"none", "good", "dead"}]
         /\ idle' \in Seq({"good", "dead"})
         /\ Lists(waiting', Where(pc', "waiting"))
         /\ Where(pc', "queued") = Where(pcs, "queued")
         /\ Busy' = BusyIn(pcs)
         /\ HeldWhileRunning(conn', pc')
         /\ waiting' # <<>> => idle' = <<>>
         /\ Len(idle') + Cardinality(Holders') = Len(idle) + Cardinality(Held(freed)) + 1
         /\ DeadHeld' = Where(freed, "dead") /\ DeadIn(idle') = DeadIn(idle)
         /\ \A z \in Requests : pc'[z] = pcs[z] \/ (pcs[z] = "waiting" /\ pc'[z] = "running")
    BY <1>3, <1>9, <1>10, <2>1, <2>2, HandedOut
  <2>3. /\ Lists(waiting', At("waiting")') /\ At("queued")' = At("queued")
        /\ Busy' = {z \in Requests : pcs[z] \in {"waiting", "running"}}
        /\ DeadHeld' = {z \in Requests : freed[z] = "dead"}
        /\ Holding'
        /\ Len(idle') + Cardinality(Holders') = Len(idle) + Cardinality(H) + 1
    <3>1. Where(pc', "waiting") = At("waiting")' /\ Where(pc', "queued") = At("queued")' /\ Where(pcs, "queued") = At("queued")
      BY <1>10 DEF Where, At
    <3>2. Held(freed) = H
      BY <1>4 DEF Held
    <3>3. BusyIn(pcs) = {z \in Requests : pcs[z] \in {"waiting", "running"}}
          /\ Where(freed, "dead") = {z \in Requests : freed[z] = "dead"}
      BY DEF BusyIn, Where
    <3>4. Holding'
      BY <2>3a DEF Holding, HeldWhileRunning
    <3> QED BY <2>3a, <3>1, <3>2, <3>3, <3>4
  <2>4. PoolTyped'
    BY <1>1, <2>1, <2>3a DEF PoolTyped
  <2>5. Queued'
    <3>1. Lists(queue', At("queued")')
      BY <1>1, <2>3 DEF Queued
    <3> QED BY <2>3, <3>1 DEF Queued
  <2>6. Holding'
    BY <2>3
  <2>7. Threads'
    BY <1>10, <2>3, ThreadsKept
  <2>8. Pooled'
    <3>1. Len(idle') + Cardinality(Holders') = Len(idle) + Cardinality(Holders)
      BY <1>6, <2>3, Counts DEF PoolTyped
    <3>2. size = (Len(idle) + Cardinality(Holders)) + opening
      BY DEF Pooled
    <3>3. size' = (Len(idle') + Cardinality(Holders')) + opening'
      BY <1>1, <2>1, <3>1, <3>2
    <3> QED BY <1>1, <2>3a, <3>3 DEF Pooled
  <2>9. DeadConnectionsSpent'
    <3>1. {z \in Requests : freed[z] = "dead"} = DeadHeld
      BY <1>3, <1>11 DEF DeadHeld
    <3>2. Dead' = DeadIn(idle')
      BY DEF Dead, DeadIn
    <3>3. Dead' = Dead /\ DeadHeld' = DeadHeld
      BY <2>3, <2>3a, <3>1, <3>2, Counts
    <3> QED BY <2>1, <3>3 DEF DeadConnectionsSpent, DeadHeld
  <2>10. Plans'
    <3>1. ASSUME NEW z \in Requests PROVE pc'[z] = pc[z] \/ (pc[z] \in InFlight /\ pc'[z] \in InFlight)
      <4>1. CASE z = q
        BY <1>1, <1>7, <1>9, <2>3a, <4>1 DEF InFlight
      <4>2. CASE z # q
        BY <1>9, <2>3a, <4>2 DEF InFlight
      <4> QED BY <4>1, <4>2
    <3> QED BY <1>1, <3>1, PlansKept DEF reqVars
  <2> QED BY <2>4, <2>5, <2>6, <2>7, <2>8, <2>9, <2>10
<1>12. CASE conn[q] = "dead"
  <2>1. /\ pc' = pcs /\ conn' = freed /\ opening' = opening + 1 /\ UNCHANGED <<idle, waiting>>
        /\ wasted' \in {wasted, wasted + 1}
    BY <1>2, <1>7, <1>8, <1>12 DEF Finish, ReplaceDead
  <2>2. PoolTyped'
    BY <1>1, <1>3, <1>9, <2>1 DEF PoolTyped
  <2>3. Queued'
    <3>1. At("queued")' = At("queued") /\ At("waiting")' = At("waiting")
      BY <1>10, <2>1 DEF At
    <3> QED BY <1>1, <2>1, <3>1 DEF Queued
  <2>4. Holding'
    BY <1>10, <2>1 DEF Holding
  <2>5. Threads'
    <3>1. Busy' \subseteq Busy
      BY <1>10, <2>1 DEF Busy
    <3> QED BY <3>1, ThreadsKept
  <2>6. Pooled'
    <3>1. Holders' = H
      BY <1>4, <2>1 DEF Holders
    <3>2. Cardinality(Holders') = Cardinality(Holders) - 1
      BY <1>6, <3>1
    <3>3. size' = Len(idle') + Cardinality(Holders') + opening'
      BY <1>1, <2>1, <3>2, Counts DEF Pooled, PoolTyped
    <3> QED BY <1>1, <2>1, <3>3 DEF Pooled
  <2>7. DeadConnectionsSpent'
    <3>1. DeadHeld' = DeadHeld \ {q} /\ q \in DeadHeld
      BY <1>3, <1>12, <2>1 DEF DeadHeld
    <3>2. Cardinality(DeadHeld \ {q}) = Cardinality(DeadHeld) - 1
      BY <3>1, Counts, FS_RemoveElement
    <3>3. Cardinality(DeadHeld') = Cardinality(DeadHeld) - 1 /\ Cardinality(Dead') = Cardinality(Dead)
      BY <2>1, <3>1, <3>2 DEF Dead
    <3>4. wasted + Cardinality(Dead) + Cardinality(DeadHeld) <= MaxConns
      BY DEF DeadConnectionsSpent, DeadHeld
    <3>5. wasted' + Cardinality(Dead') + Cardinality(DeadHeld') <= MaxConns
      BY <2>1, <3>3, <3>4, Counts, PoolAssumption DEF PoolTyped
    <3> QED BY <3>5 DEF DeadConnectionsSpent, DeadHeld
  <2>8. Plans'
    <3>1. ASSUME NEW z \in Requests PROVE pc'[z] = pc[z] \/ (pc[z] \in InFlight /\ pc'[z] \in InFlight)
      BY <1>1, <1>7, <1>9, <2>1 DEF InFlight
    <3> QED BY <1>1, <3>1, PlansKept DEF reqVars
  <2> QED BY <2>2, <2>3, <2>4, <2>5, <2>6, <2>7, <2>8
<1> QED BY <1>1, <1>11, <1>12 DEF PoolTyped

LEMMA TimeOutInv == ASSUME PoolInv, NEW q \in Requests, TimeOut(q) PROVE PoolInv'
<1> USE DEF PoolInv
<1>1. /\ pc[q] = "waiting" /\ pc' = [pc EXCEPT ![q] = "failed"]
      /\ UNCHANGED <<kind, todo, status, failed, done, queue, conn, idle, opening, size, db, wasted>>
  BY DEF TimeOut, reqVars, dbVars
<1>2. PICK i \in 1 .. Len(waiting) : waiting[i] = q /\ waiting' = RemoveAt(waiting, i)
  BY DEF TimeOut
<1>3. PoolTyped'
  BY <1>1 DEF PoolTyped, Places
<1>4. pc'[q] = "failed" /\ \A z \in Requests : z # q => pc'[z] = pc[z]
  BY <1>1 DEF PoolTyped
<1>5. At("queued")' = At("queued") /\ At("waiting")' = At("waiting") \ {q}
  BY <1>1, <1>4 DEF At
<1>6. Queued'
  <2>1. Lists(RemoveAt(waiting, i), At("waiting") \ {waiting[i]})
    BY ListRemove DEF Queued
  <2>2. Lists(waiting', At("waiting")')
    BY <1>2, <1>5, <2>1
  <2>3. Lists(queue', At("queued")')
    BY <1>1, <1>5 DEF Queued
  <2> QED BY <2>2, <2>3 DEF Queued
<1>7. Holding'
  BY <1>1, <1>4 DEF Holding
<1>8. Threads'
  <2>1. Busy' \subseteq Busy
    BY <1>1, <1>4 DEF Busy
  <2> QED BY <2>1, ThreadsKept
<1>9. Holders' = Holders /\ Dead' = Dead
  BY <1>1 DEF Holders, Dead
<1>10. Pooled'
  <2>1. waiting # <<>>
    BY <1>2 DEF Queued, Lists
  <2> QED BY <1>1, <1>9, <2>1 DEF Pooled
<1>11. DeadConnectionsSpent'
  BY <1>1, <1>9 DEF DeadConnectionsSpent
<1>12. Plans'
  <2>1. \A z \in Requests : pc'[z] = pc[z] \/ (pc[z] \in InFlight /\ pc'[z] \in InFlight)
    BY <1>1, <1>4 DEF InFlight
  <2> QED BY <1>1, <2>1, PlansKept DEF reqVars
<1> QED BY <1>3, <1>6, <1>7, <1>8, <1>10, <1>11, <1>12

\* A new connection serves the longest waiting thread, or is idle.
LEMMA OpenedInv == ASSUME PoolInv, Opened PROVE PoolInv'
<1> USE DEF PoolInv
<1>1. /\ opening > 0 /\ opening' = opening - 1 /\ HandOut("good", pc, conn)
      /\ UNCHANGED <<kind, todo, status, failed, done, queue, size, db, wasted>>
  BY DEF Opened, reqVars, dbVars
<1>2. Where(pc, "waiting") = At("waiting") /\ Where(pc, "queued") = At("queued")
      /\ Held(conn) = Holders /\ Where(conn, "dead") = DeadHeld /\ BusyIn(pc) = Busy
  BY DEF Where, Held, BusyIn, At, Holders, DeadHeld, Busy
<1>3. /\ pc \in [Requests -> Places] /\ conn \in [Requests -> {"none", "good", "dead"}]
      /\ idle \in Seq({"good", "dead"}) /\ Lists(waiting, Where(pc, "waiting"))
      /\ IsFiniteSet(Held(conn)) /\ (waiting # <<>> => idle = <<>>)
      /\ HeldWhileRunning(conn, pc)
  BY <1>2, Counts DEF PoolTyped, Queued, Pooled, Holding, HeldWhileRunning
<1>4. /\ pc' \in [Requests -> Places] /\ conn' \in [Requests -> {"none", "good", "dead"}]
      /\ idle' \in Seq({"good", "dead"})
      /\ Lists(waiting', Where(pc', "waiting"))
      /\ Where(pc', "queued") = At("queued")
      /\ Busy' = Busy
      /\ HeldWhileRunning(conn', pc')
      /\ waiting' # <<>> => idle' = <<>>
      /\ Len(idle') + Cardinality(Holders') = Len(idle) + Cardinality(Holders) + 1
      /\ DeadHeld' = DeadHeld /\ DeadIn(idle') = DeadIn(idle)
      /\ \A q \in Requests : pc'[q] = pc[q] \/ (pc[q] = "waiting" /\ pc'[q] = "running")
  <2>1. PICK pcs : pcs = pc
    OBVIOUS
  <2>2. PICK conns : conns = conn
    OBVIOUS
  <2>3. HandOut("good", pcs, conns)
    BY <1>1, <2>1, <2>2 DEF HandOut
  <2> QED BY <1>2, <1>3, <2>1, <2>2, <2>3, HandedOut
<1>5. PoolTyped'
  BY <1>1, <1>4 DEF PoolTyped
<1>6. Queued'
  <2>1. At("waiting")' = Where(pc', "waiting") /\ At("queued")' = Where(pc', "queued")
    BY DEF Where, At
  <2> QED BY <1>1, <1>4, <2>1 DEF Queued
<1>7. Holding'
  BY <1>4 DEF Holding, HeldWhileRunning
<1>8. Threads'
  BY <1>4, ThreadsKept
<1>9. Pooled'
  <2>1. size = (Len(idle) + Cardinality(Holders)) + opening
    BY DEF Pooled
  <2>2. size' = (Len(idle') + Cardinality(Holders')) + opening'
    BY <1>1, <1>4, <2>1, Counts DEF PoolTyped
  <2> QED BY <1>1, <1>4, <2>2 DEF Pooled
<1>10. DeadConnectionsSpent'
  <2>1. Dead' = DeadIn(idle')
    BY DEF Dead, DeadIn
  <2>2. Dead' = Dead
    BY <1>4, <2>1, Counts
  <2> QED BY <1>1, <1>4, <2>2 DEF DeadConnectionsSpent, DeadHeld
<1>11. Plans'
  <2>1. \A z \in Requests : pc'[z] = pc[z] \/ (pc[z] \in InFlight /\ pc'[z] \in InFlight)
    BY <1>4 DEF InFlight
  <2> QED BY <1>1, <2>1, PlansKept DEF reqVars
<1> QED BY <1>5, <1>6, <1>7, <1>8, <1>9, <1>10, <1>11

\* Steps that leave the requests where they are.
LEMMA PlacesKept ==
  ASSUME PoolInv, UNCHANGED <<pc, queue, waiting, kind, todo, status, failed, done>>
  PROVE  Queued' /\ Threads' /\ Plans'
<1> USE DEF PoolInv
<1>1. At("queued")' = At("queued") /\ At("waiting")' = At("waiting") /\ Busy' = Busy
  BY DEF At, Busy
<1>2. Queued'
  BY <1>1 DEF Queued
<1>3. Threads'
  BY <1>1, ThreadsKept
<1>4. Plans'
  BY PlansKept DEF reqVars
<1> QED BY <1>2, <1>3, <1>4

LEMMA GiveUpInv == ASSUME PoolInv, GiveUp PROVE PoolInv'
<1> USE DEF PoolInv
<1>1. /\ opening > 0 /\ opening' = opening - 1 /\ size' = size - 1
      /\ UNCHANGED <<pc, kind, todo, status, failed, done, queue, waiting, conn, idle, db, wasted>>
  BY DEF GiveUp, reqVars, dbVars
<1>2. Queued' /\ Threads' /\ Plans'
  BY <1>1, PlacesKept
<1>3. Holders' = Holders /\ Dead' = Dead /\ Holding'
  BY <1>1 DEF Holders, Dead, Holding
<1>4. size = Len(idle) + Cardinality(Holders) + opening /\ size <= MaxConns
  BY DEF Pooled
<1>5. size' \in Nat /\ opening' \in Nat /\ size' <= MaxConns
  BY <1>1, <1>4, Counts, PoolAssumption DEF PoolTyped
<1>6. PoolTyped'
  BY <1>1, <1>5 DEF PoolTyped
<1>7. Pooled'
  <2>1. size' = Len(idle') + Cardinality(Holders') + opening'
    BY <1>1, <1>3, <1>4, Counts DEF PoolTyped
  <2> QED BY <1>1, <1>5, <2>1 DEF Pooled
<1>8. DeadConnectionsSpent'
  BY <1>1, <1>3 DEF DeadConnectionsSpent
<1> QED BY <1>2, <1>3, <1>6, <1>7, <1>8

\* Every connection dies; none was counted twice.
LEMMA DbDownInv == ASSUME PoolInv, DbDown PROVE PoolInv'
<1> USE DEF PoolInv
<1>1. PICK n \in Nat : n = Len(idle)
  BY DEF PoolTyped
<1>2. PICK u : u = [i \in 1 .. n |-> "dead"]
  OBVIOUS
<1>3. u \in Seq({"good", "dead"}) /\ Len(u) = n /\ Cardinality(DeadIn(u)) = n
  BY <1>2, DeadAll
<1>4. /\ db' = "down" /\ idle' = u /\ wasted' = 0
      /\ conn' = [q \in Requests |-> IF conn[q] = "none" THEN "none" ELSE "dead"]
      /\ UNCHANGED <<pc, kind, todo, status, failed, done, queue, waiting, opening, size>>
  BY <1>1, <1>2 DEF DbDown, reqVars
<1>5. Queued' /\ Threads' /\ Plans'
  BY <1>4, PlacesKept
<1>6. PoolTyped'
  BY <1>3, <1>4 DEF PoolTyped
<1>7. Holding'
  BY <1>4 DEF Holding
<1>8. Holders' = Holders /\ DeadHeld' = Holders
  BY <1>4 DEF Holders, DeadHeld
<1>9. Pooled'
  <2>1. size' = Len(idle') + Cardinality(Holders') + opening'
    BY <1>1, <1>3, <1>4, <1>8 DEF Pooled
  <2>2. waiting' # <<>> => idle' = <<>>
    <3>1. idle = <<>> => n = 0
      BY <1>1
    <3>2. n = 0 => u = <<>>
      BY <1>2
    <3> QED BY <1>4, <3>1, <3>2 DEF Pooled
  <2> QED BY <1>4, <2>1, <2>2 DEF Pooled
<1>10. DeadConnectionsSpent'
  <2>1. Dead' = DeadIn(u)
    BY <1>4 DEF Dead, DeadIn
  <2>2. Cardinality(Dead') = n /\ Cardinality(DeadHeld') = Cardinality(Holders)
    BY <1>3, <1>8, <2>1
  <2>3. n + Cardinality(Holders) <= MaxConns
    BY <1>1, Counts, PoolAssumption DEF Pooled, PoolTyped
  <2>4. wasted' + Cardinality(Dead') + Cardinality(DeadHeld') <= MaxConns
    BY <1>4, <2>2, <2>3, Counts
  <2> QED BY <2>4 DEF DeadConnectionsSpent, DeadHeld
<1> QED BY <1>5, <1>6, <1>7, <1>9, <1>10

LEMMA DbUpInv == ASSUME PoolInv, DbUp PROVE PoolInv'
<1> USE DEF PoolInv
<1>1. db' = "up" /\ UNCHANGED <<pc, kind, todo, status, failed, done, queue, waiting, conn, idle, opening, size, wasted>>
  BY DEF DbUp, reqVars
<1>2. Queued' /\ Threads' /\ Plans'
  BY <1>1, PlacesKept
<1>3. Holders' = Holders /\ Dead' = Dead /\ Holding' /\ PoolTyped'
  BY <1>1 DEF Holders, Dead, Holding, PoolTyped
<1>4. Pooled' /\ DeadConnectionsSpent'
  BY <1>1, <1>3 DEF Pooled, DeadConnectionsSpent
<1> QED BY <1>2, <1>3, <1>4

\* The loop resumes a request: its next call, or its answer.
LEMMA ResumeInv == ASSUME PoolInv, NEW q \in Requests, Resume(q) PROVE PoolInv'
<1> USE DEF PoolInv
<1>1. pc[q] \in {"succeeded", "failed"} /\ UNCHANGED <<kind, waiting, conn, idle, opening, size, db, wasted>>
  BY DEF Resume, dbVars
<1>2. Stage(Effective(q), done[q], todo[q]) /\ failed[q] \subseteq {"touch"} /\ status[q] = "none"
  BY <1>1 DEF Plans, Staged
<1>3. PICK c : c = Head(todo[q])
  OBVIOUS
<1>4. PICK rest : rest = Tail(todo[q])
  OBVIOUS
<1>5. PICK n : n = Len(todo[q])
  OBVIOUS
<1>6. /\ c \in Calls /\ rest \in Seq(Calls) /\ n \in Nat
      /\ n > 1 => Stage(Effective(q), Append(done[q], c), rest)
      /\ ~ (n > 1) => Append(done[q], c) = Plan(Effective(q))
      /\ c = "touch" => n > 1 /\ Stage(NotDue(Effective(q)), done[q], rest)
  BY <1>2, <1>3, <1>4, <1>5, StageMoves
<1>7. PICK d : d = IF pc[q] = "succeeded" THEN Append(done[q], c) ELSE done[q]
  OBVIOUS
<1>8. PICK f : f = IF pc[q] = "failed" THEN failed[q] \cup {c} ELSE failed[q]
  OBVIOUS
<1>9. d \in Seq(Calls) /\ f \in SUBSET Calls
  BY <1>6, <1>7, <1>8 DEF PoolTyped
<1>10. done' = [done EXCEPT ![q] = d] /\ failed' = [failed EXCEPT ![q] = f] /\ todo' = [todo EXCEPT ![q] = rest]
  BY <1>3, <1>4, <1>7, <1>8 DEF Resume, PoolTyped
<1>11. PICK on \in BOOLEAN : on <=> (pc[q] = "succeeded" \/ c = "touch") /\ n > 1
  OBVIOUS
<1>12. PICK s : s = IF pc[q] = "succeeded" \/ c = "touch" THEN "200" ELSE "503"
  OBVIOUS
<1>13. \/ on /\ pc' = [pc EXCEPT ![q] = "queued"] /\ queue' = Append(queue, q) /\ status' = status
       \/ ~ on /\ pc' = [pc EXCEPT ![q] = "answered"] /\ queue' = queue /\ status' = [status EXCEPT ![q] = s]
  BY <1>3, <1>5, <1>11, <1>12 DEF Resume, GoesOn, Swallowed
<1>14. PICK y : y \in {"queued", "answered"} /\ (on <=> y = "queued") /\ pc' = [pc EXCEPT ![q] = y]
  BY <1>13
<1>15. pc'[q] = y /\ \A z \in Requests : z # q => pc'[z] = pc[z]
  BY <1>14 DEF PoolTyped
<1>16. PoolTyped'
  <2>1. status' \in [Requests -> {"none", "200", "503"}]
    BY <1>12, <1>13 DEF PoolTyped
  <2> QED BY <1>1, <1>9, <1>6, <1>10, <1>14, <2>1 DEF PoolTyped, Places
<1>17. At("waiting")' = At("waiting") /\ At("queued")' = (IF on THEN At("queued") \cup {q} ELSE At("queued"))
       /\ q \notin At("queued")
  BY <1>1, <1>14, <1>15 DEF At
<1>18. Queued'
  <2>1. Lists(queue', At("queued")')
    <3>1. CASE on
      <4>1. Lists(Append(queue, q), At("queued") \cup {q})
        BY <1>17, ListAppend DEF Queued
      <4> QED BY <1>13, <1>17, <3>1, <4>1
    <3>2. CASE ~ on
      BY <1>13, <1>17, <3>2 DEF Queued
    <3> QED BY <3>1, <3>2
  <2> QED BY <1>1, <1>17, <2>1 DEF Queued
<1>19. Holding'
  BY <1>1, <1>14, <1>15 DEF Holding
<1>20. Busy' \subseteq Busy /\ Holders' = Holders /\ Dead' = Dead
  BY <1>1, <1>14, <1>15 DEF Busy, Holders, Dead
<1>21. Threads'
  BY <1>20, ThreadsKept
<1>22. Pooled' /\ DeadConnectionsSpent'
  BY <1>1, <1>20 DEF Pooled, DeadConnectionsSpent
<1>23. Plans'
  <2> SUFFICES ASSUME NEW z \in Requests PROVE Staged(z)'
    BY DEF Plans
  <2>1. CASE z # q
    <3>1. pc'[z] = pc[z] /\ done'[z] = done[z] /\ failed'[z] = failed[z] /\ todo'[z] = todo[z]
          /\ status'[z] = status[z]
      BY <1>10, <1>13, <1>15, <2>1 DEF PoolTyped
    <3>2. Staged(z)
      BY DEF Plans
    <3>3. Effective(z)' = Effective(z)
      BY <1>1, <3>1 DEF Effective
    <3> QED BY <3>1, <3>2, <3>3 DEF Staged
  <2>2. CASE z = q
    <3>1. done'[q] = d /\ failed'[q] = f /\ todo'[q] = rest
      BY <1>10 DEF PoolTyped
    <3>4. Effective(q)' = (IF "touch" \in f THEN NotDue(kind[q]) ELSE kind[q])
      BY <1>1, <3>1 DEF Effective
    <3>5. CASE pc[q] = "succeeded"
      <4>1. f = failed[q] /\ d = Append(done[q], c) /\ Effective(q)' = Effective(q)
        BY <1>7, <1>8, <3>4, <3>5 DEF Effective
      <4>2. CASE on
        <5>1. status'[q] = "none" /\ pc'[q] = "queued"
          BY <1>2, <1>13, <1>14, <1>15, <4>2
        <5>2. Stage(Effective(q)', d, rest) /\ f \subseteq {"touch"}
          BY <1>2, <1>6, <1>11, <4>1, <4>2
        <5> QED BY <2>2, <3>1, <5>1, <5>2 DEF Staged
      <4>3. CASE ~ on
        <5>1. status'[q] = "200" /\ pc'[q] = "answered"
          BY <1>12, <1>13, <1>14, <1>15, <3>5, <4>3 DEF PoolTyped
        <5>2. d = Plan(Effective(q)') /\ f \subseteq {"touch"}
          BY <1>2, <1>6, <1>11, <3>5, <4>1, <4>3
        <5> QED BY <2>2, <3>1, <5>1, <5>2 DEF Staged
      <4> QED BY <4>2, <4>3
    <3>6. CASE pc[q] = "failed" /\ c = "touch"
      <4>1. f = failed[q] \cup {"touch"} /\ d = done[q] /\ on
        BY <1>6, <1>7, <1>8, <1>11, <3>6
      <4>2. status'[q] = "none" /\ pc'[q] = "queued"
        BY <1>2, <1>13, <1>14, <1>15, <4>1
      <4>3. Effective(q)' = NotDue(Effective(q))
        <5>1. Effective(q)' = NotDue(kind[q])
          BY <3>4, <4>1
        <5>2. Effective(q) \in {kind[q], NotDue(kind[q])}
          BY DEF Effective
        <5> QED BY <5>1, <5>2, NotDueTwice
      <4>4. Stage(Effective(q)', d, rest) /\ f \subseteq {"touch"}
        BY <1>2, <1>6, <3>6, <4>1, <4>3
      <4> QED BY <2>2, <3>1, <4>2, <4>4 DEF Staged
    <3>7. CASE pc[q] = "failed" /\ c # "touch"
      <4>1. status'[q] = "503" /\ pc'[q] = "answered"
        BY <1>11, <1>12, <1>13, <1>14, <1>15, <3>7 DEF PoolTyped
      <4>2. f \ {"touch"} # {}
        BY <1>8, <3>7
      <4> QED BY <2>2, <3>1, <4>1, <4>2 DEF Staged
    <3> QED BY <1>1, <3>5, <3>6, <3>7
  <2> QED BY <2>1, <2>2
<1> QED BY <1>16, <1>18, <1>19, <1>21, <1>22, <1>23

LEMMA StutterInv == ASSUME PoolInv, UNCHANGED vars PROVE PoolInv'
<1> USE DEF PoolInv, vars
<1>1. Queued' /\ Threads' /\ Plans'
  BY PlacesKept
<1>2. Holders' = Holders /\ Dead' = Dead /\ Holding' /\ PoolTyped'
  BY DEF Holders, Dead, Holding, PoolTyped
<1>3. Pooled' /\ DeadConnectionsSpent'
  BY <1>2 DEF Pooled, DeadConnectionsSpent
<1> QED BY <1>1, <1>2, <1>3

LEMMA NextInv == PoolInv /\ [Next]_vars => PoolInv'
BY ArriveInv, StartInv, FinishInv, TimeOutInv, OpenedInv, GiveUpInv, DbDownInv, DbUpInv, ResumeInv, StutterInv
   DEF Next, Quiet

-----------------------------------------------------------------------------
(* The properties.                                                         *)

LEMMA PoolAlways == Spec => []PoolInv
<1>1. Spec => Init /\ [][Next]_vars
  BY DEF Spec
<1>2. Init /\ [][Next]_vars => []PoolInv
  BY InitInv, NextInv, PTL
<1> QED BY <1>1, <1>2, PTL

LEMMA SeqRange ==
  ASSUME NEW S, NEW s \in Seq(S)
  PROVE  Range(s) \subseteq S
BY DEF Range

\* Never more threads busy than max_workers nor more connections than pool_max_size,
\* and every call is in exactly the queue its place says (run_blocking_io's executor,
\* psycopg_pool's waiting clients).
THEOREM PoolTypes == Spec => []PoolTypeOK
<1>1. PoolInv => PoolTypeOK
  <2> SUFFICES ASSUME PoolInv PROVE PoolTypeOK
    OBVIOUS
  <2> USE DEF PoolInv
  <2>1. \A q \in Requests : Range(todo[q]) \subseteq Calls /\ Range(done[q]) \subseteq Calls /\ failed[q] \subseteq Calls
    BY SeqRange DEF PoolTyped
  <2>2. Range(queue) = {q \in Requests : pc[q] = "queued"} /\ Range(waiting) = {q \in Requests : pc[q] = "waiting"}
    BY ListRange DEF Queued, At
  <2>3. Range(idle) \subseteq {"good", "dead"}
    BY SeqRange DEF PoolTyped
  <2>4. opening \in 0 .. MaxConns /\ size \in 0 .. MaxConns
    <3>1. size = Len(idle) + Cardinality(Holders) + opening /\ size <= MaxConns
      BY DEF Pooled
    <3>2. Len(idle) \in Nat /\ opening \in Nat /\ size \in Nat
      BY DEF PoolTyped
    <3> QED BY <3>1, <3>2, Counts, PoolAssumption
  <2>5. Holders = {q \in Requests : pc[q] = "running"}
    BY Counts DEF At
  <2> QED BY <2>1, <2>2, <2>3, <2>4, <2>5 DEF PoolTypeOK, PoolTyped, Threads, Places
<1> QED BY <1>1, PoolAlways, PTL

\* No connection leaks from psycopg_pool, whatever calls fail or time out, and no
\* thread waits beside an idle connection.
THEOREM NoConnectionLeaks == Spec => []ConnectionsAccounted
<1>1. PoolInv => ConnectionsAccounted
  BY DEF PoolInv, Pooled, ConnectionsAccounted
<1> QED BY <1>1, PoolAlways, PTL

\* After an outage at most pool_max_size calls fail on a database that is up: each
\* dead connection is met once, because the pool has no check= but replaces it.
THEOREM OutageCostsItsConnections == Spec => []DeadConnectionsSpent
<1>1. PoolInv => DeadConnectionsSpent
  BY DEF PoolInv
<1> QED BY <1>1, PoolAlways, PTL

\* auth_middleware swallows the failure of touch_last_seen and of no other call: 503
\* exactly when one of the others failed, and 200 only when the calls made are those of
\* this request's own kind, four of them for a delete with last_seen due.
THEOREM AnswersEarned == Spec => []TouchNeverDecides
<1>1. PoolInv => TouchNeverDecides
  <2> SUFFICES ASSUME PoolInv, NEW q \in Requests
               PROVE  /\ status[q] = "503" <=> failed[q] \ {"touch"} # {}
                      /\ status[q] = "200" => done[q] = Plan(Effective(q))
    BY DEF TouchNeverDecides, Effective
  <2>1. Staged(q)
    BY DEF PoolInv, Plans
  <2>2. failed[q] = {} => failed[q] \subseteq {"touch"}
    OBVIOUS
  <2> QED BY <2>1, <2>2 DEF Staged
<1> QED BY <1>1, PoolAlways, PTL
=============================================================================
