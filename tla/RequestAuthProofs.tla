-------------------------- MODULE RequestAuthProofs --------------------------
(***************************************************************************)
(* Proofs about the auth middleware for any requests, consumers, scopes,   *)
(* rate limit and length of a minute: when a change of a consumer's        *)
(* account takes effect, how last_seen is throttled, and that the sliding  *)
(* window bounds every sixty seconds and refuses nobody early.             *)
(***************************************************************************)
EXTENDS RequestAuth, FiniteSetTheorems, WellFoundedInduction, TLAPS

Typed ==
  /\ account \in [Consumers -> Accounts]
  /\ scopes \in [Consumers -> SUBSET ScopeNames]
  /\ now \in Nat
  /\ marked \in [Consumers -> Nat]
  /\ state \in [Requests -> {"new", "lookup", "admit", "touch", "handle", "done"}]
  /\ key \in [Requests -> Consumers \cup {Nobody}]
  /\ row \in [Requests -> ConsumerRow]
  /\ status \in [Requests -> {"none", "ok", "401", "403", "429", "503"}]
  /\ found \in [Requests -> SUBSET Accounts]
  /\ admitted \subseteq Requests \X Nat
  /\ tried \subseteq admitted

\* What was found of a request's account fits how far the request has come.
FoundFits(q) ==
  /\ state[q] # "done" => status[q] = "none"
  /\ state[q] = "new" => found[q] = {}
  /\ state[q] = "lookup" => AccountOf(key[q]) \in found[q]
  /\ state[q] = "admit" => /\ row[q].enabled => "enabled" \in found[q]
                           /\ ~ row[q].enabled => found[q] # {"enabled"}
  /\ state[q] \in {"admit", "touch", "handle"} =>
       (row[q].enabled => row[q].id = key[q] /\ key[q] \in Consumers)
  /\ state[q] \in {"touch", "handle"} => "enabled" \in found[q]
  /\ status[q] \in {"ok", "403", "429"} => "enabled" \in found[q]
  /\ status[q] = "401" => found[q] # {"enabled"}

AllFoundFit == \A q \in Requests : FoundFits(q)

\* Only requests past the limiter were admitted, none in the future.
AdmittedFit ==
  \A a \in admitted : /\ state[a[1]] \in {"touch", "handle", "done"}
                      /\ key[a[1]] \in Consumers
                      /\ a[2] <= now

\* A consumer's mark is the time of the last admission that went on to write.
MarksFit ==
  /\ \A c \in Consumers :
       /\ marked[c] <= now
       /\ marked[c] = 0 \/ \E b \in tried : key[b[1]] = c /\ b[2] = marked[c]
  /\ \A b \in tried : b[2] <= marked[key[b[1]]]

AuthInv ==
  /\ Typed /\ AllFoundFit
  /\ AdmittedFit /\ MarksFit
  /\ TouchesSpaced /\ TouchesKeepUp

touchVars == <<now, marked, admitted, tried>>

-----------------------------------------------------------------------------

LEMMA InitInv == Init => AuthInv
<1> SUFFICES ASSUME Init PROVE AuthInv
  OBVIOUS
<1>1. Minute \in Nat
  BY AuthAssumption
<1>2. Typed
  BY <1>1 DEF Init, Typed, NoRow, ConsumerRow, Accounts
<1>3. AllFoundFit
  BY DEF Init, AllFoundFit, FoundFits
<1>4. AdmittedFit /\ MarksFit /\ TouchesSpaced /\ TouchesKeepUp
  BY <1>1 DEF Init, AdmittedFit, MarksFit, TouchesSpaced, TouchesKeepUp
<1> QED BY <1>2, <1>3, <1>4 DEF AuthInv

\* A step that moves one request forward and leaves clock, marks and history of
\* admissions alone keeps what is said of them, if it changes no admitted
\* request's key.
LEMMA TouchesKept ==
  ASSUME AuthInv, UNCHANGED touchVars,
         \A a \in admitted : /\ key'[a[1]] = key[a[1]]
                             /\ state'[a[1]] \in {"touch", "handle", "done"}
  PROVE  AdmittedFit' /\ MarksFit' /\ TouchesSpaced' /\ TouchesKeepUp'
<1> USE DEF AuthInv, touchVars
<1>1. \A b \in tried : b \in admitted
  BY DEF Typed
<1>2. AdmittedFit'
  BY DEF AdmittedFit
<1>3. MarksFit'
  BY <1>1 DEF MarksFit
<1>4. TouchesSpaced'
  BY <1>1 DEF TouchesSpaced
<1>5. TouchesKeepUp'
  BY <1>1 DEF TouchesKeepUp
<1> QED BY <1>2, <1>3, <1>4, <1>5

LEMMA ArriveInv == ASSUME NEW q \in Requests PROVE AuthInv /\ Arrive(q) => AuthInv'
<1> SUFFICES ASSUME AuthInv, Arrive(q) PROVE AuthInv'
  OBVIOUS
<1> USE DEF AuthInv
<1>1. Typed'
  BY DEF Arrive, Typed, Answer, Goto, reqVars, dbVars, memVars, AccountOf, Accounts
<1>2. AllFoundFit'
  <2> SUFFICES ASSUME NEW p \in Requests PROVE FoundFits(p)'
    BY DEF AllFoundFit
  <2>1. CASE p # q
    BY <2>1 DEF Arrive, Typed, Answer, Goto, reqVars, dbVars, memVars, AllFoundFit, FoundFits,
                AccountOf
  <2>2. CASE p = q
    <3>1. state[q] = "new" /\ status[q] = "none" /\ found[q] = {}
      BY DEF Arrive, AllFoundFit, FoundFits
    <3>2. CASE Answer(q, "401") /\ UNCHANGED <<reqVars, found>>
      BY <2>2, <3>1, <3>2 DEF Typed, Answer, Goto, FoundFits
    <3>3. ASSUME NEW c \in Consumers \cup {Nobody},
                 key' = [key EXCEPT ![q] = c], found' = [found EXCEPT ![q] = {AccountOf(c)}],
                 Goto(q, "lookup"), UNCHANGED status
          PROVE  FoundFits(p)'
      <4>1. AccountOf(c)' = AccountOf(c)
        BY DEF Arrive, dbVars, AccountOf
      <4>2. /\ state'[q] = "lookup" /\ status'[q] = "none"
            /\ key'[q] = c /\ found'[q] = {AccountOf(c)}
        BY <3>1, <3>3 DEF Typed, Goto
      <4> QED BY <2>2, <4>1, <4>2 DEF FoundFits, AccountOf
    <3> QED BY <3>2, <3>3 DEF Arrive
  <2> QED BY <2>1, <2>2
<1>3. ASSUME NEW a \in admitted
      PROVE  key'[a[1]] = key[a[1]] /\ state'[a[1]] \in {"touch", "handle", "done"}
  <2>1. a[1] \in Requests /\ a[1] # q
    BY DEF Typed, AdmittedFit, Arrive
  <2> QED BY <2>1 DEF Arrive, AdmittedFit, Answer, Goto, Typed, reqVars
<1>4. UNCHANGED touchVars
  BY DEF Arrive, touchVars, memVars
<1> QED BY <1>1, <1>2, <1>3, <1>4, TouchesKept

LEMMA RowTyped ==
  ASSUME NEW i \in Consumers \cup {Nobody}, NEW e \in BOOLEAN, NEW s \in SUBSET ScopeNames
  PROVE  [id |-> i, enabled |-> e, scopes |-> s] \in ConsumerRow
BY DEF ConsumerRow

LEMMA LookupInv == ASSUME NEW q \in Requests PROVE AuthInv /\ Lookup(q) => AuthInv'
<1> SUFFICES ASSUME AuthInv, Lookup(q) PROVE AuthInv'
  OBVIOUS
<1> USE DEF AuthInv
<1>0. key[q] # Nobody => key[q] \in Consumers
  BY DEF Typed
<1>1. /\ RowOf(key[q]) \in ConsumerRow
      /\ RowOf(key[q]).enabled <=> AccountOf(key[q]) = "enabled"
      /\ RowOf(key[q]).enabled => RowOf(key[q]).id = key[q] /\ key[q] \in Consumers
  <2>1. CASE AccountOf(key[q]) = "absent"
    BY <2>1 DEF RowOf, NoRow, ConsumerRow
  <2>2. CASE AccountOf(key[q]) # "absent"
    <3>1. key[q] \in Consumers /\ AccountOf(key[q]) = account[key[q]]
      BY <1>0, <2>2 DEF AccountOf
    <3>2. RowOf(key[q]) = [id |-> key[q], enabled |-> account[key[q]] = "enabled",
                           scopes |-> scopes[key[q]]]
      BY <2>2 DEF RowOf
    <3>3. scopes[key[q]] \in SUBSET ScopeNames
      BY <3>1 DEF Typed
    <3>4. RowOf(key[q]) \in ConsumerRow
      <4>1. (account[key[q]] = "enabled") \in BOOLEAN
        OBVIOUS
      <4>2. [id |-> key[q], enabled |-> account[key[q]] = "enabled", scopes |-> scopes[key[q]]]
              \in ConsumerRow
        BY <3>1, <3>3, <4>1, RowTyped
      <4> QED BY <3>2, <4>2
    <3>5. /\ RowOf(key[q]).enabled = (account[key[q]] = "enabled")
          /\ RowOf(key[q]).id = key[q]
      BY <3>2
    <3> QED BY <3>1, <3>4, <3>5
  <2> QED BY <2>1, <2>2
<1>2. Typed'
  BY <1>1 DEF Lookup, Typed, Goto, reqVars, dbVars, memVars
<1>3. AllFoundFit'
  <2> SUFFICES ASSUME NEW p \in Requests PROVE FoundFits(p)'
    BY DEF AllFoundFit
  <2>1. CASE p # q
    BY <2>1 DEF Lookup, Typed, Goto, reqVars, dbVars, memVars, AllFoundFit, FoundFits, AccountOf
  <2>2. CASE p = q
    <3>1. /\ state'[q] = "admit" /\ row'[q] = RowOf(key[q])
          /\ UNCHANGED <<key, found, status>>
      BY DEF Lookup, Typed, Goto, reqVars
    <3>2. AccountOf(key[q]) \in found[q] /\ status[q] = "none"
      BY DEF Lookup, AllFoundFit, FoundFits
    <3> QED BY <1>1, <2>2, <3>1, <3>2 DEF FoundFits
  <2> QED BY <2>1, <2>2
<1>4. ASSUME NEW a \in admitted
      PROVE  key'[a[1]] = key[a[1]] /\ state'[a[1]] \in {"touch", "handle", "done"}
  <2>1. a[1] \in Requests /\ a[1] # q
    BY DEF Typed, AdmittedFit, Lookup
  <2> QED BY <2>1 DEF Lookup, AdmittedFit, Goto, Typed, reqVars
<1>5. UNCHANGED touchVars
  BY DEF Lookup, touchVars, memVars
<1> QED BY <1>2, <1>3, <1>4, <1>5, TouchesKept

\* Touch, Handle and a failed lookup move a request on and leave the rest.
LEMMA LaterInv ==
  ASSUME NEW q \in Requests
  PROVE  AuthInv /\ (Touch(q) \/ Handle(q) \/ LookupFails(q)) => AuthInv'
<1> SUFFICES ASSUME AuthInv, Touch(q) \/ Handle(q) \/ LookupFails(q) PROVE AuthInv'
  OBVIOUS
<1> USE DEF AuthInv
<1>1. /\ UNCHANGED <<dbVars, now, memVars, reqVars, row, admitted, tried, found>>
      /\ \/ /\ state[q] = "touch" /\ Goto(q, "handle")
            /\ UNCHANGED status
         \/ state[q] = "handle" /\ (Answer(q, "ok") \/ Answer(q, "403"))
         \/ state[q] = "lookup" /\ Answer(q, "503")
  BY DEF Touch, Handle, LookupFails
<1>2. Typed'
  BY <1>1 DEF Typed, Goto, Answer, reqVars, dbVars, memVars
<1>3. AllFoundFit'
  <2> SUFFICES ASSUME NEW p \in Requests PROVE FoundFits(p)'
    BY DEF AllFoundFit
  <2>1. CASE p # q
    BY <1>1, <2>1 DEF Typed, Goto, Answer, reqVars, dbVars, memVars, AllFoundFit, FoundFits,
                      AccountOf
  <2>2. CASE p = q
    <3>1. FoundFits(q) /\ UNCHANGED <<key, row, found>>
      BY <1>1 DEF AllFoundFit, reqVars
    <3>2. \/ state[q] = "touch" /\ state'[q] = "handle" /\ status'[q] = status[q]
          \/ state[q] = "handle" /\ state'[q] = "done" /\ status'[q] \in {"ok", "403"}
          \/ state[q] = "lookup" /\ state'[q] = "done" /\ status'[q] = "503"
      BY <1>1 DEF Typed, Goto, Answer
    <3> QED BY <2>2, <3>1, <3>2 DEF FoundFits
  <2> QED BY <2>1, <2>2
<1>4. ASSUME NEW a \in admitted
      PROVE  key'[a[1]] = key[a[1]] /\ state'[a[1]] \in {"touch", "handle", "done"}
  BY <1>1 DEF Typed, AdmittedFit, Goto, Answer, reqVars
<1>5. UNCHANGED touchVars
  BY <1>1 DEF touchVars, memVars
<1> QED BY <1>2, <1>3, <1>4, <1>5, TouchesKept

\* A consumer is minted, disabled or re-enabled.
LEMMA AccountInv ==
  ASSUME NEW c \in Consumers
  PROVE  AuthInv /\ (Mint(c) \/ Toggle(c)) => AuthInv'
<1> SUFFICES ASSUME AuthInv, Mint(c) \/ Toggle(c) PROVE AuthInv'
  OBVIOUS
<1> USE DEF AuthInv
<1>1. PICK a \in Accounts : SetAccount(c, a)
  BY DEF Mint, Toggle, Accounts
<1>2. scopes' \in [Consumers -> SUBSET ScopeNames]
  BY AuthAssumption DEF Mint, Toggle, Typed
<1>3. UNCHANGED <<now, memVars, state, reqVars, row, status, admitted, tried>>
  BY DEF Mint, Toggle
<1>4. ASSUME NEW q \in Requests
      PROVE  /\ found'[q] = found[q] \cup (IF state[q] = "lookup" /\ key[q] = c THEN {a} ELSE {})
             /\ found'[q] \in SUBSET Accounts
  BY <1>1 DEF SetAccount, Typed
<1>5. Typed'
  <2>1. account' \in [Consumers -> Accounts]
    BY <1>1 DEF SetAccount, Typed
  <2>2. found' \in [Requests -> SUBSET Accounts]
    BY <1>1, <1>4 DEF SetAccount
  <2> QED BY <1>2, <1>3, <2>1, <2>2 DEF Typed, memVars, reqVars
<1>6. AllFoundFit'
  <2> SUFFICES ASSUME NEW q \in Requests PROVE FoundFits(q)'
    BY DEF AllFoundFit
  <2>1. FoundFits(q) /\ UNCHANGED <<state, key, row, status>>
    BY <1>3 DEF AllFoundFit, reqVars
  <2>2. CASE state[q] # "lookup"
    BY <1>4, <2>1, <2>2 DEF FoundFits
  <2>3. CASE state[q] = "lookup"
    <3>1. (AccountOf(key[q]))' \in found'[q]
      <4>1. CASE key[q] = c
        BY <1>1, <1>4, <2>1, <2>3, <4>1, AuthAssumption DEF SetAccount, AccountOf, Typed
      <4>2. CASE key[q] # c
        <5>1. (AccountOf(key[q]))' = AccountOf(key[q])
          BY <1>1, <2>1, <4>2 DEF SetAccount, AccountOf, Typed
        <5> QED BY <1>4, <2>1, <2>3, <5>1 DEF FoundFits
      <4> QED BY <4>1, <4>2
    <3> QED BY <2>1, <2>3, <3>1 DEF FoundFits
  <2> QED BY <2>2, <2>3
<1>7. ASSUME NEW b \in admitted
      PROVE  key'[b[1]] = key[b[1]] /\ state'[b[1]] \in {"touch", "handle", "done"}
  BY <1>3 DEF AdmittedFit, reqVars
<1>8. UNCHANGED touchVars
  BY <1>3 DEF touchVars, memVars
<1> QED BY <1>5, <1>6, <1>7, <1>8, TouchesKept

LEMMA TickInv == AuthInv /\ Tick => AuthInv'
<1> SUFFICES ASSUME AuthInv, Tick PROVE AuthInv'
  OBVIOUS
<1> USE DEF AuthInv, Tick
<1>1. Typed' /\ AllFoundFit'
  BY DEF Typed, AllFoundFit, FoundFits, dbVars, memVars, reqVars, AccountOf
<1>2. AdmittedFit'
  BY DEF AdmittedFit, reqVars, Typed
<1>3. MarksFit'
  BY DEF MarksFit, Typed, memVars, reqVars
<1>4. TouchesSpaced' /\ TouchesKeepUp'
  BY DEF TouchesSpaced, TouchesKeepUp, reqVars
<1> QED BY <1>1, <1>2, <1>3, <1>4

-----------------------------------------------------------------------------
(* The limiter and the throttle.                                           *)

\* A request is refused: 401 or 429.
LEMMA RefusedInv ==
  ASSUME NEW q \in Requests, AuthInv, state[q] = "admit",
         UNCHANGED <<dbVars, now, marked, reqVars, row, admitted, tried, found>>,
         \/ ~ row[q].enabled /\ Answer(q, "401")
         \/ row[q].enabled /\ Answer(q, "429")
  PROVE  AuthInv'
<1> USE DEF AuthInv
<1>1. Typed'
  BY DEF Typed, Answer, Goto, reqVars, dbVars
<1>2. AllFoundFit'
  <2> SUFFICES ASSUME NEW p \in Requests PROVE FoundFits(p)'
    BY DEF AllFoundFit
  <2>1. CASE p # q
    BY <2>1 DEF Typed, Goto, Answer, reqVars, dbVars, AllFoundFit, FoundFits, AccountOf
  <2>2. CASE p = q
    <3>1. FoundFits(q) /\ UNCHANGED <<key, row, found>>
      BY DEF AllFoundFit, reqVars
    <3>2. /\ state'[q] = "done"
          /\ \/ ~ row[q].enabled /\ status'[q] = "401"
             \/ row[q].enabled /\ status'[q] = "429"
      BY DEF Typed, Goto, Answer
    <3> QED BY <2>2, <3>1, <3>2 DEF FoundFits
  <2> QED BY <2>1, <2>2
<1>3. ASSUME NEW a \in admitted
      PROVE  key'[a[1]] = key[a[1]] /\ state'[a[1]] \in {"touch", "handle", "done"}
  BY DEF Typed, AdmittedFit, Goto, Answer, reqVars
<1>4. UNCHANGED touchVars
  BY DEF touchVars
<1> QED BY <1>1, <1>2, <1>3, <1>4, TouchesKept

\* A request is let through: it is marked as a writer of last_seen when due.
LEMMA AdmittedInv ==
  ASSUME NEW q \in Requests, AuthInv, state[q] = "admit", row[q].enabled,
         UNCHANGED <<dbVars, now, reqVars, row, found, status>>,
         admitted' = admitted \cup {<<q, now>>},
         marked' = [marked EXCEPT ![row[q].id] = Mark(row[q].id)],
         tried' = IF Due(row[q].id) THEN tried \cup {<<q, now>>} ELSE tried,
         Goto(q, IF Due(row[q].id) THEN "touch" ELSE "handle")
  PROVE  AuthInv'
<1> USE DEF AuthInv
<1> DEFINE c == key[q]
<1>1. /\ row[q].id = c /\ c \in Consumers /\ "enabled" \in found[q] /\ status[q] = "none"
      /\ Minute \in Nat \ {0}
  BY AuthAssumption DEF AllFoundFit, FoundFits
<1>2. now \in Nat /\ marked[c] \in Nat /\ marked[c] <= now
  BY <1>1 DEF Typed, MarksFit
<1>3. Mark(c) \in Nat /\ marked[c] <= Mark(c) /\ Mark(c) <= now
  BY <1>1, <1>2 DEF Mark
<1>4. \A d \in Consumers : marked'[d] = IF d = c THEN Mark(c) ELSE marked[d]
  BY <1>1 DEF Typed
<1>5. Typed'
  <2>1. marked' \in [Consumers -> Nat] /\ state' \in [Requests -> {"new", "lookup", "admit", "touch", "handle", "done"}]
    BY <1>1, <1>3 DEF Typed, Goto
  <2>2. admitted' \subseteq Requests \X Nat /\ tried' \subseteq admitted'
    BY <1>2 DEF Typed
  <2> QED BY <2>1, <2>2 DEF Typed, dbVars, reqVars
<1>6. AllFoundFit'
  <2> SUFFICES ASSUME NEW p \in Requests PROVE FoundFits(p)'
    BY DEF AllFoundFit
  <2>1. CASE p # q
    BY <2>1 DEF Typed, Goto, reqVars, dbVars, AllFoundFit, FoundFits, AccountOf
  <2>2. CASE p = q
    <3>1. /\ UNCHANGED <<key, row, found, status>>
          /\ state'[q] \in {"touch", "handle"}
      BY DEF Typed, Goto, reqVars
    <3> QED BY <1>1, <2>2, <3>1 DEF FoundFits
  <2> QED BY <2>1, <2>2
<1>7. key' = key /\ now' = now
  BY DEF reqVars
<1>8. <<q, now>>[1] = q /\ <<q, now>>[2] = now
  OBVIOUS
<1>9. AdmittedFit'
  <2>1. \A a \in admitted : a[1] \in Requests /\ a[1] # q
    BY DEF Typed, AdmittedFit
  <2>2. \A a \in admitted : state'[a[1]] = state[a[1]]
    BY <2>1 DEF Typed, Goto
  <2>3. state'[q] \in {"touch", "handle", "done"}
    BY DEF Typed, Goto
  <2> QED BY <1>1, <1>2, <1>7, <1>8, <2>2, <2>3 DEF AdmittedFit
<1>10. \A b \in tried : b[1] \in Requests /\ b[2] \in Nat /\ key[b[1]] \in Consumers
  BY DEF Typed, AdmittedFit
<1>11. MarksFit'
  <2>1. ASSUME NEW d \in Consumers
        PROVE  /\ marked'[d] <= now
               /\ marked'[d] = 0 \/ \E b \in tried' : key[b[1]] = d /\ b[2] = marked'[d]
    <3>1. CASE d # c
      BY <1>4, <3>1 DEF MarksFit
    <3>2. CASE d = c /\ Due(c)
      <4>1. marked'[d] = now /\ <<q, now>> \in tried'
        BY <1>1, <1>4, <3>2 DEF Mark
      <4> QED BY <1>2, <1>8, <3>2, <4>1
    <3>3. CASE d = c /\ ~ Due(c)
      <4>1. marked'[d] = marked[c] /\ tried' = tried
        BY <1>1, <1>4, <3>3 DEF Mark
      <4> QED BY <1>1, <3>3, <4>1 DEF MarksFit
    <3> QED BY <3>1, <3>2, <3>3
  <2>2. ASSUME NEW b \in tried'
        PROVE  b[2] <= marked'[key[b[1]]]
    <3>1. CASE b \in tried
      <4>1. b[2] <= marked[key[b[1]]] /\ key[b[1]] \in Consumers /\ b[2] \in Nat
        BY <1>10, <3>1 DEF MarksFit
      <4>2. CASE key[b[1]] = c
        BY <1>1, <1>2, <1>3, <1>4, <4>1, <4>2
      <4>3. CASE key[b[1]] # c
        BY <1>4, <4>1, <4>3
      <4> QED BY <4>2, <4>3
    <3>2. CASE b = <<q, now>> /\ Due(c)
      BY <1>1, <1>2, <1>4, <1>8, <3>2 DEF Mark
    <3> QED BY <1>1, <3>1, <3>2
  <2> QED BY <1>7, <2>1, <2>2 DEF MarksFit
<1>12. TouchesSpaced'
  <2>1. ASSUME NEW b \in tried, key[b[1]] = c, Due(c)
        PROVE  now - b[2] >= Minute
    BY <1>1, <1>2, <1>10, <2>1 DEF MarksFit, Due
  <2> SUFFICES ASSUME NEW a \in tried', NEW b \in tried', a # b, key[a[1]] = key[b[1]]
               PROVE  a[2] - b[2] >= Minute \/ b[2] - a[2] >= Minute
    BY <1>7 DEF TouchesSpaced
  <2>2. CASE a \in tried /\ b \in tried
    BY <2>2 DEF TouchesSpaced
  <2>3. CASE a = <<q, now>> /\ b \in tried /\ Due(c)
    BY <1>8, <2>1, <2>3
  <2>4. CASE b = <<q, now>> /\ a \in tried /\ Due(c)
    BY <1>8, <2>1, <2>4
  <2> QED BY <1>1, <2>2, <2>3, <2>4
<1>13. TouchesKeepUp'
  <2>1. tried \subseteq tried'
    OBVIOUS
  <2>2. ASSUME now >= Minute
        PROVE  \E b \in tried' : key[b[1]] = c /\ now - Minute < b[2] /\ b[2] <= now
    <3>1. CASE Due(c)
      <4>1. <<q, now>> \in tried'
        BY <1>1, <3>1
      <4> QED BY <1>1, <1>2, <1>8, <4>1
    <3>2. CASE ~ Due(c)
      <4>1. now - Minute < marked[c] /\ marked[c] # 0
        BY <1>1, <1>2, <2>2, <3>2 DEF Due
      <4>2. PICK b \in tried : key[b[1]] = c /\ b[2] = marked[c]
        BY <1>1, <4>1 DEF MarksFit
      <4> QED BY <1>2, <2>1, <4>1, <4>2
    <3> QED BY <3>1, <3>2
  <2> SUFFICES ASSUME NEW a \in admitted', a[2] >= Minute
               PROVE  \E b \in tried' : /\ key[b[1]] = key[a[1]]
                                        /\ a[2] - Minute < b[2] /\ b[2] <= a[2]
    BY <1>7 DEF TouchesKeepUp
  <2>3. CASE a \in admitted
    BY <2>1, <2>3 DEF TouchesKeepUp
  <2>4. CASE a = <<q, now>>
    BY <1>8, <2>2, <2>4
  <2> QED BY <2>3, <2>4
<1> QED BY <1>5, <1>6, <1>9, <1>11, <1>12, <1>13

LEMMA AdmitInv == ASSUME NEW q \in Requests PROVE AuthInv /\ Admit(q) => AuthInv'
<1> SUFFICES ASSUME AuthInv, Admit(q) PROVE AuthInv'
  OBVIOUS
<1>1. state[q] = "admit" /\ UNCHANGED <<dbVars, now, reqVars, row, found>>
  BY DEF Admit
<1>2. CASE ~ row[q].enabled /\ Answer(q, "401") /\ UNCHANGED <<memVars, admitted, tried>>
  BY <1>1, <1>2, RefusedInv DEF memVars
<1>3. CASE row[q].enabled /\ Answer(q, "429") /\ UNCHANGED <<marked, admitted, tried>>
  BY <1>1, <1>3, RefusedInv
<1>4. CASE /\ row[q].enabled
           /\ admitted' = admitted \cup {<<q, now>>}
           /\ marked' = [marked EXCEPT ![row[q].id] = Mark(row[q].id)]
           /\ tried' = IF Due(row[q].id) THEN tried \cup {<<q, now>>} ELSE tried
           /\ Goto(q, IF Due(row[q].id) THEN "touch" ELSE "handle")
           /\ UNCHANGED status
  BY <1>1, <1>4, AdmittedInv
<1> QED BY <1>2, <1>3, <1>4 DEF Admit

LEMMA NextInv == AuthInv /\ [Next]_vars => AuthInv'
<1> SUFFICES ASSUME AuthInv, [Next]_vars PROVE AuthInv'
  OBVIOUS
<1>1. CASE UNCHANGED vars
  BY <1>1 DEF vars, AuthInv, Typed, AllFoundFit, FoundFits, AccountOf, AdmittedFit, MarksFit,
              TouchesSpaced, TouchesKeepUp
<1>2. CASE \E q \in Requests : Step(q) \/ LookupFails(q)
  BY <1>2, ArriveInv, LookupInv, AdmitInv, LaterInv DEF Step
<1>3. CASE (\E c \in Consumers : Mint(c) \/ Toggle(c)) \/ Tick
  BY <1>3, AccountInv, TickInv
<1> QED BY <1>1, <1>2, <1>3 DEF Next

LEMMA AlwaysAuthInv == Spec => []AuthInv
BY InitInv, NextInv, PTL DEF Spec

-----------------------------------------------------------------------------

\* Disabling a consumer takes effect on the next request, and minting or
\* re-enabling too (auth_middleware looks the consumer up per request), however
\* lookups, operators and other requests interleave.
THEOREM DisablingTakesEffect == Spec => []AccessFollowsAccount
<1>1. AuthInv => AccessFollowsAccount
  BY DEF AuthInv, AllFoundFit, FoundFits, AccessFollowsAccount
<1> QED BY <1>1, AlwaysAuthInv, PTL

\* Two requests of a consumer that write last_seen were admitted at least a
\* minute apart (last_seen_marked in auth_middleware).
THEOREM LastSeenThrottled == Spec => []TouchesSpaced
BY AlwaysAuthInv, PTL DEF AuthInv

\* Past the clock's first minute, every admitted request, or one of its consumer
\* admitted less than a minute before it, goes on to write last_seen (the same
\* throttle in auth_middleware): the throttle never falls silent.
THEOREM LastSeenKeepsUp == Spec => []TouchesKeepUp
BY AlwaysAuthInv, PTL DEF AuthInv


-----------------------------------------------------------------------------
(* The sliding window.                                                     *)

\* The rest of AuthTypeOK.
RestTyped ==
  /\ times \in [Consumers -> Seq(Nat)]
  /\ need \in [Requests -> ScopeNames]
  /\ faults \in Nat

\* The entries w of c's window, oldest first, are the times of admissions of c,
\* listed by f without repetition, among them all those at or after from.
Lists(c, w, f, from) ==
  /\ f \in [1 .. Len(w) -> admitted]
  /\ \A i, j \in 1 .. Len(w) : f[i] = f[j] => i = j
  /\ \A i, j \in 1 .. Len(w) : i <= j => w[i] <= w[j]
  /\ \A i \in 1 .. Len(w) : key[f[i][1]] = c /\ f[i][2] = w[i]
  /\ \A a \in admitted : key[a[1]] = c => a[2] < from \/ \E i \in 1 .. Len(w) : f[i] = a

\* request_times holds what the last sixty seconds have seen, and older entries.
WindowsFit == \A c \in Consumers : \E f : Lists(c, times[c], f, now - Minute)

Limit == IF RateLimit > 0 THEN RateLimit ELSE 0

\* NoBurst for every sixty seconds there are.
Bounded ==
  \A c \in Consumers : \A t \in Nat :
    /\ IsFiniteSet(Within(c, t - Minute, t))
    /\ Cardinality(Within(c, t - Minute, t)) <= Limit

WindowInv == AuthInv /\ RestTyped /\ WindowsFit /\ Bounded

\* Every nonempty set of naturals has a least element.
LEMMA LeastNumber ==
  ASSUME NEW T, T \subseteq Nat, T # {}
  PROVE  \E n \in T : \A m \in T : n <= m
<1> DEFINE R == StrictSubsetOrdering(Nat)
           F == FiniteSubsetsOf(Nat)
           U == {0 .. n : n \in T}
<1>1. IsWellFoundedOn(R, F)
  BY FS_StrictSubsetOrderingWellFounded
<1>2. U \subseteq F /\ U # {}
  <2>1. ASSUME NEW n \in T PROVE 0 .. n \in F
    BY <2>1, FS_Interval DEF FiniteSubsetsOf
  <2> QED BY <2>1
<1>3. ASSUME NEW n \in T, NEW m \in T, m < n PROVE <<0 .. m, 0 .. n>> \in R
  <2>1. 0 .. m \subseteq 0 .. n /\ n \in 0 .. n /\ n \notin 0 .. m
    BY <1>3
  <2> QED BY <1>3, <2>1 DEF StrictSubsetOrdering
<1> HIDE DEF R, F
<1>4. PICK V \in U : \A W \in U : ~ (<<W, V>> \in R)
  BY <1>1, <1>2, WFMin
<1>5. PICK n \in T : V = 0 .. n
  BY <1>4
<1>6. \A m \in T : ~ (m < n)
  BY <1>3, <1>4, <1>5
<1> QED BY <1>5, <1>6

LEMMA Suffix ==
  ASSUME NEW w \in Seq(Nat), NEW m \in 0 .. Len(w), NEW v, v = SubSeq(w, m + 1, Len(w))
  PROVE  /\ v \in Seq(Nat) /\ Len(v) = Len(w) - m
         /\ \A i \in 1 .. Len(w) - m : v[i] = w[i + m]
<1>0. Len(w) \in Nat /\ m \in Nat /\ m <= Len(w)
  OBVIOUS
<1>1. v = [i \in 1 .. Len(w) - m |-> w[i + m]]
  BY <1>0
<1>2. \A i \in 1 .. Len(w) - m : w[i + m] \in Nat
  BY <1>0
<1> QED BY <1>0, <1>1, <1>2

\* The loop of popleft() ends, and this is what it leaves.
LEMMA PrunedLeaves ==
  ASSUME NEW w \in Seq(Nat), now \in Nat
  PROVE  \E n \in 0 .. Len(w) :
           /\ Pruned(w) \in Seq(Nat) /\ Len(Pruned(w)) = Len(w) - n
           /\ \A i \in 1 .. Len(w) - n : Pruned(w)[i] = w[i + n]
           /\ \A i \in 1 .. n : w[i] < now - Minute
           /\ n < Len(w) => w[n + 1] >= now - Minute
<1> DEFINE T == {n \in 0 .. Len(w) : n < Len(w) => w[n + 1] >= now - Minute}
           P(n) == /\ \A i \in 1 .. n : w[i] < now - Minute
                   /\ n < Len(w) => w[n + 1] >= now - Minute
<1>0. Minute \in Nat
  BY AuthAssumption
<1>1. T \subseteq Nat /\ Len(w) \in T
  OBVIOUS
<1>2. PICK n \in T : \A m \in T : n <= m
  BY <1>1, LeastNumber
<1>3. ASSUME NEW i \in 1 .. n PROVE w[i] < now - Minute
  <2>0. n \in Nat /\ n <= Len(w) /\ Len(w) \in Nat
    OBVIOUS
  <2>1. i - 1 \in 0 .. Len(w) /\ i - 1 < Len(w) /\ i - 1 < n
    BY <2>0
  <2>4. i - 1 \notin T
    BY <1>2, <2>0, <2>1
  <2>2. ~ (w[i] >= now - Minute)
    BY <2>1, <2>4
  <2>3. w[i] \in Nat
    BY <2>0, <2>1
  <2> QED BY <1>0, <2>2, <2>3
<1>4. n \in 0 .. Len(w) /\ P(n)
  BY <1>2, <1>3
<1> HIDE DEF T
<1>5. Expired(w, now - Minute) = CHOOSE m \in 0 .. Len(w) : P(m)
  BY DEF Expired
<1>6. PICK m \in 0 .. Len(w) : m = Expired(w, now - Minute) /\ P(m)
  BY <1>4, <1>5
<1>7. Pruned(w) = SubSeq(w, m + 1, Len(w))
  BY <1>6 DEF Pruned
<1>8. /\ Pruned(w) \in Seq(Nat) /\ Len(Pruned(w)) = Len(w) - m
      /\ \A i \in 1 .. Len(w) - m : Pruned(w)[i] = w[i + m]
  BY <1>6, <1>7, Suffix
<1> QED BY <1>6, <1>8


\* After pruning, a window lists exactly the admissions of the last sixty seconds.
LEMMA WindowPruned ==
  ASSUME WindowInv, NEW c \in Consumers
  PROVE  \E g : Lists(c, Pruned(times[c]), g, now - Minute)
                /\ \A i \in 1 .. Len(Pruned(times[c])) : Pruned(times[c])[i] >= now - Minute
<1> DEFINE w == times[c]
<1>1. w \in Seq(Nat) /\ now \in Nat /\ Minute \in Nat
  BY AuthAssumption DEF WindowInv, RestTyped, AuthInv, Typed
<1>2. PICK f : Lists(c, w, f, now - Minute)
  BY DEF WindowInv, WindowsFit
<1> HIDE DEF w
<1>3. PICK v : v = Pruned(w)
  OBVIOUS
<1>4. PICK n \in 0 .. Len(w) :
           /\ v \in Seq(Nat) /\ Len(v) = Len(w) - n
           /\ \A i \in 1 .. Len(w) - n : v[i] = w[i + n]
           /\ \A i \in 1 .. n : w[i] < now - Minute
           /\ n < Len(w) => w[n + 1] >= now - Minute
  BY <1>1, <1>3, PrunedLeaves
<1>5. Len(w) \in Nat /\ n \in Nat /\ n <= Len(w)
  BY <1>1
<1>6. \A i \in 1 .. Len(v) : i + n \in 1 .. Len(w) /\ v[i] = w[i + n]
  BY <1>4, <1>5
<1>7. \A i, j \in 1 .. Len(w) : i <= j => w[i] <= w[j]
  BY <1>2 DEF Lists
<1>8. ASSUME NEW i \in 1 .. Len(v) PROVE v[i] >= now - Minute
  <2>1. i + n \in 1 .. Len(w) /\ n + 1 \in 1 .. Len(w) /\ n + 1 <= i + n /\ n < Len(w)
    BY <1>4, <1>5
  <2>2. w[n + 1] <= w[i + n] /\ w[n + 1] >= now - Minute
    BY <1>4, <1>7, <2>1
  <2>3. w[n + 1] \in Nat /\ w[i + n] \in Nat
    BY <1>1, <2>1
  <2> QED BY <1>1, <1>6, <2>2, <2>3
<1>9. PICK g : g = [i \in 1 .. Len(v) |-> f[i + n]]
  OBVIOUS
<1>10. \A i \in 1 .. Len(v) : g[i] = f[i + n] /\ f[i + n] \in admitted
  BY <1>2, <1>6, <1>9 DEF Lists
<1>11. Lists(c, v, g, now - Minute)
  <2>1. g \in [1 .. Len(v) -> admitted]
    BY <1>9, <1>10
  <2>2. ASSUME NEW i \in 1 .. Len(v), NEW j \in 1 .. Len(v), g[i] = g[j] PROVE i = j
    <3>1. i + n = j + n
      BY <1>2, <1>6, <1>10, <2>2 DEF Lists
    <3> QED BY <1>5, <3>1
  <2>3. ASSUME NEW i \in 1 .. Len(v), NEW j \in 1 .. Len(v), i <= j PROVE v[i] <= v[j]
    BY <1>5, <1>6, <1>7, <2>3
  <2>4. ASSUME NEW i \in 1 .. Len(v) PROVE key[g[i][1]] = c /\ g[i][2] = v[i]
    BY <1>2, <1>6, <1>10 DEF Lists
  <2>5. ASSUME NEW a \in admitted, key[a[1]] = c, ~ (a[2] < now - Minute)
        PROVE  \E i \in 1 .. Len(v) : g[i] = a
    <3>1. PICK k \in 1 .. Len(w) : f[k] = a
      BY <1>2, <2>5 DEF Lists
    <3>2. ~ (w[k] < now - Minute)
      BY <1>2, <2>5, <3>1 DEF Lists
    <3>3. k > n
      BY <1>4, <1>5, <3>2
    <3>4. k - n \in 1 .. Len(v) /\ (k - n) + n = k
      BY <1>4, <1>5, <3>3
    <3> QED BY <1>10, <3>1, <3>4
  <2> QED BY <2>1, <2>2, <2>3, <2>4, <2>5 DEF Lists
<1> QED BY <1>3, <1>8, <1>11 DEF w

\* So its length is their number: the limiter counts what it should.
LEMMA WindowCounts ==
  ASSUME WindowInv, NEW c \in Consumers
  PROVE  /\ IsFiniteSet(Within(c, now - Minute, now))
         /\ Cardinality(Within(c, now - Minute, now)) = Len(Pruned(times[c]))
         /\ Pruned(times[c]) \in Seq(Nat)
<1>1. PICK v : v = Pruned(times[c])
  OBVIOUS
<1>2. PICK g : Lists(c, v, g, now - Minute) /\ \A i \in 1 .. Len(v) : v[i] >= now - Minute
  BY <1>1, WindowPruned
<1>3. times[c] \in Seq(Nat) /\ now \in Nat /\ Minute \in Nat
  BY AuthAssumption DEF WindowInv, RestTyped, AuthInv, Typed
<1>4. v \in Seq(Nat) /\ Len(v) \in Nat
  BY <1>1, <1>3, PrunedLeaves
<1> DEFINE W == Within(c, now - Minute, now)
<1>5. \A a \in admitted : a[2] \in Nat /\ a[2] <= now
  BY DEF WindowInv, AuthInv, Typed, AdmittedFit
<1>6. \A i \in 1 .. Len(v) : g[i] \in W
  <2> SUFFICES ASSUME NEW i \in 1 .. Len(v) PROVE g[i] \in W
    OBVIOUS
  <2>1. g[i] \in admitted /\ key[g[i][1]] = c /\ g[i][2] = v[i]
    BY <1>2 DEF Lists
  <2> QED BY <1>2, <1>5, <2>1 DEF Within
<1>7. \A a \in W : \E i \in 1 .. Len(v) : g[i] = a
  <2> SUFFICES ASSUME NEW a \in W PROVE \E i \in 1 .. Len(v) : g[i] = a
    OBVIOUS
  <2>1. a \in admitted /\ key[a[1]] = c /\ now - Minute <= a[2]
    BY DEF Within
  <2>2. ~ (a[2] < now - Minute)
    BY <1>3, <1>5, <2>1
  <2> QED BY <1>2, <2>1, <2>2 DEF Lists
<1> HIDE DEF W
<1>8. g \in Bijection(1 .. Len(v), W)
  <2>1. DOMAIN g = 1 .. Len(v) /\ g = [i \in DOMAIN g |-> g[i]]
    BY <1>2 DEF Lists
  <2>2. g \in [1 .. Len(v) -> W]
    BY <1>6, <2>1
  <2>3. \A i, j \in 1 .. Len(v) : g[i] = g[j] => i = j
    BY <1>2 DEF Lists
  <2> QED BY <1>7, <2>1, <2>2, <2>3 DEF Bijection, Injection, Surjection, IsInjective
<1>9. IsFiniteSet(1 .. Len(v)) /\ Cardinality(1 .. Len(v)) = Len(v)
  <2>1. ASSUME NEW n \in Nat PROVE IsFiniteSet(1 .. n) /\ Cardinality(1 .. n) = n
    <3>1. /\ IsFiniteSet(1 .. n)
          /\ Cardinality(1 .. n) = IF 1 > n THEN 0 ELSE n - 1 + 1
      BY FS_Interval
    <3> QED BY <3>1
  <2> QED BY <1>4, <2>1
<1>10. IsFiniteSet(W) /\ Cardinality(W) = Len(v)
  BY <1>8, <1>9, FS_Bijection DEF ExistsBijection
<1> QED BY <1>1, <1>4, <1>10 DEF W

-----------------------------------------------------------------------------

LEMMA InitWindow == Init => RestTyped /\ WindowsFit /\ Bounded
<1> SUFFICES ASSUME Init PROVE RestTyped /\ WindowsFit /\ Bounded
  OBVIOUS
<1>1. RestTyped
  BY DEF Init, RestTyped, ScopeNames
<1>2. WindowsFit
  <2> SUFFICES ASSUME NEW c \in Consumers
               PROVE  \E f : Lists(c, times[c], f, now - Minute)
    BY DEF WindowsFit
  <2>1. times[c] = <<>> /\ admitted = {}
    BY DEF Init
  <2>2. Lists(c, <<>>, <<>>, now - Minute)
    BY <2>1 DEF Lists
  <2> QED BY <2>1, <2>2
<1>3. Bounded
  <2>1. Limit \in Nat
    BY AuthAssumption DEF Limit
  <2>2. \A c, from, to : Within(c, from, to) = {}
    BY DEF Init, Within
  <2> QED BY <2>1, <2>2, FS_EmptySet DEF Bounded
<1> QED BY <1>1, <1>2, <1>3

\* A step that admits nobody keeps the bound, and the windows it leaves alone.
LEMMA NobodyAdmitted ==
  ASSUME WindowInv, admitted' = admitted, now' \in Nat, now <= now',
         \A a \in admitted : key'[a[1]] = key[a[1]]
  PROVE  /\ Bounded'
         /\ \A c \in Consumers : times'[c] = times[c] => \E f : Lists(c, times[c], f, now - Minute)'
<1>0. now \in Nat /\ Minute \in Nat /\ \A a \in admitted : a[2] \in Nat
  BY AuthAssumption DEF WindowInv, AuthInv, Typed
<1>1. ASSUME NEW c, NEW from, NEW to PROVE Within(c, from, to)' = Within(c, from, to)
  BY DEF Within
<1>2. Bounded'
  BY <1>1 DEF WindowInv, Bounded
<1>3. ASSUME NEW c \in Consumers, times'[c] = times[c]
      PROVE  \E f : Lists(c, times[c], f, now - Minute)'
  <2>1. PICK f : Lists(c, times[c], f, now - Minute)
    BY DEF WindowInv, WindowsFit
  <2>2. \A a \in admitted : a[2] < now - Minute => a[2] < now' - Minute
    BY <1>0
  <2>3. Lists(c, times[c], f, now - Minute)'
    BY <1>3, <2>1, <2>2 DEF Lists
  <2> QED BY <2>3
<1> QED BY <1>2, <1>3

LEMMA QuietWindow ==
  ASSUME WindowInv, RestTyped', AuthInv', UNCHANGED <<times, admitted>>, now <= now',
         \A a \in admitted : key'[a[1]] = key[a[1]]
  PROVE  WindowInv'
<1>1. now' \in Nat
  BY DEF AuthInv, Typed
<1>2. WindowsFit'
  BY <1>1, NobodyAdmitted DEF WindowsFit
<1> QED BY <1>1, <1>2, NobodyAdmitted DEF WindowInv

\* The limiter refuses: the window is pruned, nobody is admitted.
LEMMA RefusedWindow ==
  ASSUME NEW q \in Requests, WindowInv, AuthInv', row[q].enabled, state[q] = "admit",
         times' = [times EXCEPT ![row[q].id] = RecordRefused(Pruned(@))],
         UNCHANGED <<now, reqVars, admitted, faults>>
  PROVE  WindowInv'
<1> DEFINE c == key[q]
<1>1. row[q].id = c /\ c \in Consumers
  BY DEF WindowInv, AuthInv, AllFoundFit, FoundFits
<1>2. times \in [Consumers -> Seq(Nat)] /\ Pruned(times[c]) \in Seq(Nat)
  BY <1>1, WindowCounts DEF WindowInv, RestTyped
<1>3. \A d \in Consumers : times'[d] = IF d = c THEN Pruned(times[c]) ELSE times[d]
  BY <1>1, <1>2 DEF RecordRefused
<1>4. RestTyped'
  <2>1. times' \in [Consumers -> Seq(Nat)]
    BY <1>1, <1>2 DEF RecordRefused
  <2> QED BY <2>1 DEF WindowInv, RestTyped, reqVars
<1>5. now \in Nat /\ now' = now /\ key' = key
  BY DEF WindowInv, AuthInv, Typed, reqVars
<1>6. Bounded' /\ \A d \in Consumers :
        times'[d] = times[d] => \E f : Lists(d, times[d], f, now - Minute)'
  BY <1>5, NobodyAdmitted
<1>7. ASSUME NEW d \in Consumers PROVE \E f : Lists(d, times[d], f, now - Minute)'
  <2>1. CASE d # c
    BY <1>3, <1>6, <2>1
  <2>2. CASE d = c
    <3>1. PICK g : Lists(c, Pruned(times[c]), g, now - Minute)
      BY <1>1, WindowPruned
    <3>2. PICK v : v = Pruned(times[c]) /\ v = times'[c]
      BY <1>1, <1>3
    <3>3. Lists(c, v, g, now - Minute)
      BY <3>1, <3>2
    <3>4. Lists(d, times[d], g, now - Minute)'
      BY <1>5, <2>2, <3>2, <3>3 DEF Lists
    <3> QED BY <3>4
  <2> QED BY <2>1, <2>2
<1> QED BY <1>4, <1>6, <1>7 DEF WindowInv, WindowsFit


LEMMA Appended ==
  ASSUME NEW v \in Seq(Nat), NEW x \in Nat, NEW n \in Nat, n = Len(v), NEW u, u = Append(v, x)
  PROVE  /\ Len(u) = n + 1 /\ u[n + 1] = x
         /\ \A i \in 1 .. n : u[i] = v[i] /\ v[i] \in Nat
OBVIOUS

\* An admission of another consumer leaves a window as it is ...
LEMMA OtherWindow ==
  ASSUME NEW d, NEW w, NEW f, NEW new, Lists(d, w, f, now - Minute), w = times'[d],
         admitted' = admitted \cup {new}, UNCHANGED <<now, key>>, key[new[1]] # d
  PROVE  Lists(d, times[d], f, now - Minute)'
<1>1. f \in [1 .. Len(w) -> admitted']
  BY DEF Lists
<1>2. ASSUME NEW a \in admitted', key[a[1]] = d
      PROVE  a[2] < now - Minute \/ \E i \in 1 .. Len(w) : f[i] = a
  BY <1>2 DEF Lists
<1> QED BY <1>1, <1>2 DEF Lists

\* ... and one of its own is its last entry.
LEMMA GrownWindow ==
  ASSUME NEW c, NEW v \in Seq(Nat), NEW g, Lists(c, v, g, now - Minute),
         NEW u, u = Append(v, now), u = times'[c], now \in Nat, Minute \in Nat,
         NEW new, new \notin admitted, key[new[1]] = c, new[2] = now,
         admitted' = admitted \cup {new}, UNCHANGED <<now, key>>,
         \A a \in admitted : a[2] \in Nat /\ a[2] <= now
  PROVE  \E f : Lists(c, times[c], f, now - Minute)'
<1>3. PICK n \in Nat : n = Len(v)
  OBVIOUS
<1>4. /\ Len(u) = n + 1 /\ u[n + 1] = now
      /\ \A i \in 1 .. n : u[i] = v[i] /\ v[i] \in Nat
  <2>1. PICK x \in Nat : x = now /\ u = Append(v, x)
    OBVIOUS
  <2>2. /\ Len(u) = n + 1 /\ u[n + 1] = x
        /\ \A i \in 1 .. n : u[i] = v[i] /\ v[i] \in Nat
    BY <1>3, <2>1, Appended
  <2> QED BY <2>1, <2>2
<1>5. PICK f : f = [i \in 1 .. n + 1 |-> IF i = n + 1 THEN new ELSE g[i]]
  OBVIOUS
<1>6. \A i \in 1 .. n : g[i] \in admitted /\ key[g[i][1]] = c /\ g[i][2] = v[i] /\ v[i] <= now
  BY <1>3 DEF Lists
<1>7. f[n + 1] = new /\ \A i \in 1 .. n : f[i] = g[i]
  BY <1>5
<1>8. new \in admitted' /\ \A a \in admitted : a \in admitted'
  OBVIOUS
<1>9. \A i \in 1 .. n + 1 : i \in 1 .. n \/ i = n + 1
  OBVIOUS
<1>10. f \in [1 .. n + 1 -> admitted']
  BY <1>5, <1>6, <1>8, <1>9
<1>11. ASSUME NEW i \in 1 .. n + 1, NEW j \in 1 .. n + 1, f[i] = f[j] PROVE i = j
  <2>1. \A k, l \in 1 .. n : g[k] = g[l] => k = l
    BY <1>3 DEF Lists
  <2>2. CASE i = n + 1 /\ j \in 1 .. n
    BY <1>6, <1>7, <1>11, <2>2
  <2>3. CASE j = n + 1 /\ i \in 1 .. n
    BY <1>6, <1>7, <1>11, <2>3
  <2>4. CASE i \in 1 .. n /\ j \in 1 .. n
    BY <1>7, <1>11, <2>1, <2>4
  <2> QED BY <1>9, <2>2, <2>3, <2>4
<1>12. ASSUME NEW i \in 1 .. n + 1, NEW j \in 1 .. n + 1, i <= j PROVE u[i] <= u[j]
  <2>1. \A k, l \in 1 .. n : k <= l => v[k] <= v[l]
    BY <1>3 DEF Lists
  <2>2. CASE j = n + 1 /\ i = n + 1
    BY <1>4, <2>2
  <2>3. CASE j = n + 1 /\ i \in 1 .. n
    BY <1>4, <1>6, <2>3
  <2>4. CASE j \in 1 .. n
    <3>1. i \in 1 .. n
      BY <1>12, <2>4
    <3> QED BY <1>4, <1>12, <2>1, <2>4, <3>1
  <2> QED BY <1>9, <2>2, <2>3, <2>4
<1>13. ASSUME NEW i \in 1 .. n + 1 PROVE key[f[i][1]] = c /\ f[i][2] = u[i]
  BY <1>4, <1>6, <1>7, <1>9
<1>14. ASSUME NEW a \in admitted', key[a[1]] = c, ~ (a[2] < now - Minute)
       PROVE  \E i \in 1 .. n + 1 : f[i] = a
  <2>1. CASE a = new
    BY <1>7, <2>1
  <2>2. CASE a \in admitted
    <3>1. PICK i \in 1 .. n : g[i] = a
      BY <1>3, <1>14, <2>2 DEF Lists
    <3> QED BY <1>7, <3>1
  <2> QED BY <2>1, <2>2
<1>15. Lists(c, times[c], f, now - Minute)'
  BY <1>4, <1>10, <1>11, <1>12, <1>13, <1>14 DEF Lists
<1> QED BY <1>15

\* The limiter lets a request through: its time is appended to the pruned window.
LEMMA AdmittedWindow ==
  ASSUME NEW q \in Requests, WindowInv, AuthInv', row[q].enabled, state[q] = "admit",
         Len(Pruned(times[row[q].id])) < RateLimit,
         times' = [times EXCEPT ![row[q].id] = Append(Pruned(@), now)],
         admitted' = admitted \cup {<<q, now>>},
         UNCHANGED <<now, reqVars, faults>>
  PROVE  WindowInv'
<1> DEFINE new == <<q, now>>
<1> PICK c : c = key[q]
  OBVIOUS
<1>0. now \in Nat /\ Minute \in Nat /\ now' = now /\ key' = key /\ new[1] = q /\ new[2] = now
  BY AuthAssumption DEF WindowInv, AuthInv, Typed, reqVars
<1>1. row[q].id = c /\ c \in Consumers
  BY DEF WindowInv, AuthInv, AllFoundFit, FoundFits
<1>2. PICK v : v = Pruned(times[c])
  OBVIOUS
<1>3. /\ times \in [Consumers -> Seq(Nat)] /\ v \in Seq(Nat) /\ Len(v) \in Nat
      /\ IsFiniteSet(Within(c, now - Minute, now))
      /\ Cardinality(Within(c, now - Minute, now)) = Len(v)
  BY <1>1, <1>2, WindowCounts DEF WindowInv, RestTyped
<1>4. \A d \in Consumers : times'[d] = IF d = c THEN Append(v, now) ELSE times[d]
  BY <1>1, <1>2, <1>3
<1>5. RestTyped'
  <2>1. times' \in [Consumers -> Seq(Nat)]
    BY <1>0, <1>1, <1>2, <1>3
  <2> QED BY <2>1 DEF WindowInv, RestTyped, reqVars
<1>6. new \notin admitted /\ \A a \in admitted : a[2] \in Nat /\ a[2] <= now
  BY <1>0 DEF WindowInv, AuthInv, Typed, AdmittedFit
<1> HIDE DEF new
<1>7. WindowsFit'
  <2> SUFFICES ASSUME NEW d \in Consumers PROVE \E f : Lists(d, times[d], f, now - Minute)'
    BY DEF WindowsFit
  <2>0. admitted' = admitted \cup {new} /\ UNCHANGED <<now, key>>
    BY <1>0 DEF new
  <2>1. CASE d # c
    <3>1. PICK w, f : w = times[d] /\ Lists(d, w, f, now - Minute)
      BY DEF WindowInv, WindowsFit
    <3>2. times'[d] = w /\ key[new[1]] # d
      BY <1>0, <1>4, <2>1, <3>1
    <3> QED BY <2>0, <3>1, <3>2, OtherWindow
  <2>2. CASE d = c
    <3>1. PICK g : Lists(c, v, g, now - Minute)
      BY <1>1, <1>2, WindowPruned
    <3>2. PICK u : u = Append(v, now) /\ u = times'[c]
      BY <1>1, <1>4
    <3>3. \E f : Lists(c, times[c], f, now - Minute)'
      BY <1>0, <1>3, <1>6, <2>0, <3>1, <3>2, GrownWindow
    <3> QED BY <2>2, <3>3
  <2> QED BY <2>1, <2>2
<1>8. Bounded'
  <2> SUFFICES ASSUME NEW d \in Consumers, NEW t \in Nat
               PROVE  /\ IsFiniteSet(Within(d, t - Minute, t)')
                      /\ Cardinality(Within(d, t - Minute, t)') <= Limit
    BY DEF Bounded, Limit
  <2> DEFINE B == Within(d, t - Minute, t)
             W == Within(c, now - Minute, now)
  <2>1. CASE d # c \/ t < now
    <3>1. Within(d, t - Minute, t)' = B
      BY <1>0, <2>1 DEF Within, new
    <3>2. IsFiniteSet(B) /\ Cardinality(B) <= Limit
      BY DEF WindowInv, Bounded
    <3> QED BY <3>1, <3>2
  <2>2. CASE d = c /\ t >= now
    <3>1. Within(d, t - Minute, t)' \subseteq W \cup {new}
      <4> SUFFICES ASSUME NEW a \in Within(d, t - Minute, t)', a # new PROVE a \in W
        OBVIOUS
      <4>1. a \in admitted /\ key[a[1]] = c /\ t - Minute <= a[2]
        BY <1>0, <2>2 DEF Within, new
      <4>2. now - Minute <= a[2] /\ a[2] <= now
        BY <1>0, <1>6, <2>2, <4>1
      <4> QED BY <4>1, <4>2 DEF Within
    <3>2. IsFiniteSet(W \cup {new}) /\ Cardinality(W \cup {new}) = Len(v) + 1
      <4>1. new \notin W
        BY <1>6 DEF Within
      <4> QED BY <1>3, <4>1, FS_AddElement
    <3>3. Len(v) + 1 <= Limit
      BY <1>1, <1>2, <1>3, AuthAssumption DEF Limit
    <3>4. PICK V : V = Within(d, t - Minute, t)'
      OBVIOUS
    <3>5. IsFiniteSet(V) /\ Cardinality(V) <= Len(v) + 1 /\ Cardinality(V) \in Nat
      BY <3>1, <3>2, <3>4, FS_Subset, FS_CardinalityType
    <3>6. Limit \in Nat
      BY AuthAssumption DEF Limit
    <3> QED BY <1>3, <3>3, <3>4, <3>5, <3>6
  <2> QED BY <1>0, <2>1, <2>2
<1> QED BY <1>5, <1>7, <1>8 DEF WindowInv


LEMMA NextWindow == WindowInv /\ [Next]_vars => WindowInv'
<1> SUFFICES ASSUME WindowInv, [Next]_vars PROVE WindowInv'
  OBVIOUS
<1>1. AuthInv' /\ now \in Nat
  BY NextInv DEF WindowInv, AuthInv, Typed
<1>2. CASE UNCHANGED vars
  <2>1. UNCHANGED <<times, admitted, now, key>> /\ RestTyped'
    BY <1>2 DEF vars, WindowInv, RestTyped
  <2> QED BY <1>1, <2>1, QuietWindow
<1>3. ASSUME NEW q \in Requests, Arrive(q) PROVE WindowInv'
  <2>1. UNCHANGED <<times, admitted, now, faults>>
    BY <1>3 DEF Arrive, memVars
  <2>2. need' \in [Requests -> ScopeNames]
    BY <1>3, AuthAssumption DEF Arrive, WindowInv, RestTyped, reqVars
  <2>3. RestTyped'
    BY <2>1, <2>2 DEF WindowInv, RestTyped
  <2>4. ASSUME NEW a \in admitted PROVE key'[a[1]] = key[a[1]]
    <3>1. a[1] \in Requests /\ a[1] # q
      BY <1>3 DEF WindowInv, AuthInv, Typed, AdmittedFit, Arrive
    <3> QED BY <1>3, <3>1 DEF Arrive, reqVars, WindowInv, AuthInv, Typed
  <2> QED BY <1>1, <2>1, <2>3, <2>4, QuietWindow
<1>4. ASSUME NEW q \in Requests, Lookup(q) \/ Touch(q) \/ Handle(q) \/ LookupFails(q)
      PROVE  WindowInv'
  <2>1. UNCHANGED <<times, admitted, now, key>>
    BY <1>4 DEF Lookup, Touch, Handle, LookupFails, memVars, reqVars
  <2>2. RestTyped'
    BY <1>4 DEF Lookup, Touch, Handle, LookupFails, memVars, reqVars, WindowInv, RestTyped
  <2> QED BY <1>1, <2>1, <2>2, QuietWindow
<1>5. CASE (\E c \in Consumers : Mint(c) \/ Toggle(c)) \/ Tick
  <2>1. UNCHANGED <<times, admitted, key, need, faults>> /\ (now' = now \/ now' = now + 1)
    BY <1>5 DEF Mint, Toggle, Tick, memVars, reqVars
  <2>2. RestTyped'
    BY <2>1 DEF WindowInv, RestTyped
  <2> QED BY <1>1, <2>1, <2>2, QuietWindow
<1>6. ASSUME NEW q \in Requests, Admit(q) PROVE WindowInv'
  <2>1. state[q] = "admit" /\ UNCHANGED <<now, reqVars, faults>>
    BY <1>6 DEF Admit
  <2>2. CASE UNCHANGED <<memVars, admitted>>
    <3>1. UNCHANGED <<times, admitted, now, key>> /\ RestTyped'
      BY <2>1, <2>2 DEF memVars, reqVars, WindowInv, RestTyped
    <3> QED BY <1>1, <3>1, QuietWindow
  <2>3. CASE /\ row[q].enabled /\ UNCHANGED admitted
             /\ times' = [times EXCEPT ![row[q].id] = RecordRefused(Pruned(@))]
    BY <1>1, <2>1, <2>3, RefusedWindow
  <2>4. CASE /\ row[q].enabled /\ Len(Pruned(times[row[q].id])) < RateLimit
             /\ times' = [times EXCEPT ![row[q].id] = Append(Pruned(@), now)]
             /\ admitted' = admitted \cup {<<q, now>>}
    BY <1>1, <2>1, <2>4, AdmittedWindow
  <2> QED BY <1>6, <2>2, <2>3, <2>4 DEF Admit
<1> QED BY <1>2, <1>3, <1>4, <1>5, <1>6 DEF Next, Step

LEMMA AlwaysWindowInv == Spec => []WindowInv
<1>1. Init => WindowInv
  BY InitInv, InitWindow DEF WindowInv
<1> QED BY <1>1, NextWindow, PTL DEF Spec

\* Every variable of auth_middleware's model keeps its type.
THEOREM AuthTypes == Spec => []AuthTypeOK
<1>1. WindowInv => AuthTypeOK
  BY DEF WindowInv, AuthInv, Typed, RestTyped, AuthTypeOK
<1> QED BY <1>1, AlwaysWindowInv, PTL

\* The sliding window of auth_middleware lets no consumer have more than
\* rate_limit_per_minute requests in any sixty seconds, for every limit (zero and
\* below included), number of requests and interleaving.
THEOREM LimiterHolds == Spec => []NoBurst
<1>1. WindowInv => NoBurst
  BY DEF WindowInv, Bounded, Limit, NoBurst
<1> QED BY <1>1, AlwaysWindowInv, PTL

\* A 429 of auth_middleware is deserved: the consumer has had its limit of requests
\* let through within the last sixty seconds.
THEOREM RefusalsDeserved == Spec => NoEarlyRefusal
<1>1. WindowInv /\ [Next]_vars => RefusalStep
  <2> SUFFICES ASSUME WindowInv, [Next]_vars, NEW q \in Requests,
                      status'[q] = "429", status[q] # "429"
               PROVE  Cardinality(Within(key[q], now - Minute, now)) >= RateLimit
    BY DEF RefusalStep
  <2>0. status \in [Requests -> {"none", "ok", "401", "403", "429", "503"}]
    BY DEF WindowInv, AuthInv, Typed
  <2>1. ASSUME NEW p \in Requests, NEW s, Answer(p, s), s # "429" PROVE FALSE
    BY <2>0, <2>1 DEF Answer
  <2>2. status' # status
    OBVIOUS
  <2>3. PICK p \in Requests : Admit(p)
    <3>1. ~ UNCHANGED vars /\ ~ Tick /\ ~ \E c \in Consumers : Mint(c) \/ Toggle(c)
      BY <2>2 DEF vars, Tick, Mint, Toggle
    <3>2. ASSUME NEW p \in Requests
          PROVE  /\ ~ Arrive(p) /\ ~ Lookup(p) /\ ~ Touch(p)
                 /\ ~ Handle(p) /\ ~ LookupFails(p)
      BY <2>1, <2>2 DEF Arrive, Lookup, Touch, Handle, LookupFails
    <3> QED BY <3>1, <3>2 DEF Next, Step
  <2>4. Answer(p, "429") /\ row[p].enabled /\ Len(Pruned(times[row[p].id])) >= RateLimit
    BY <2>1, <2>2, <2>3 DEF Admit
  <2>5. p = q
    BY <2>0, <2>4 DEF Answer
  <2>6. row[p].id = key[p] /\ key[p] \in Consumers
    BY <2>3, <2>4 DEF Admit, WindowInv, AuthInv, AllFoundFit, FoundFits
  <2> QED BY <2>4, <2>5, <2>6, WindowCounts
<1>2. WindowInv /\ [Next]_vars => [RefusalStep]_vars
  BY <1>1
<1> QED BY <1>2, AlwaysWindowInv, PTL DEF Spec, NoEarlyRefusal
=============================================================================
