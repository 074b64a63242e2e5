------------------------------ MODULE Catalog ------------------------------
(***************************************************************************)
(* The shared catalogue as its readers see it: which fingerprints exist,   *)
(* their status and triple, and the sync_seq each carries.  A content      *)
(* change takes its number from fingerprints_sync_seq when its statement   *)
(* runs and becomes visible only when its transaction commits, so changes  *)
(* become visible in any order.  This is what FingerprintStore implements  *)
(* and what SyncFeed relies on.                                            *)
(***************************************************************************)
EXTENDS Naturals, FiniteSets

CONSTANTS
  Consumers,  \* owners of fingerprints
  Triples,    \* compatibility triples
  StaleRevive \* TRUE: a revival may hit a row that is live again by then

VARIABLES
  cat,     \* committed fingerprints, as entries
  seq,     \* last value of fingerprints_sync_seq
  lastId,  \* last value of the identity column
  open     \* changes in flight: <<sync_seq drawn, fingerprint id>>

catVars == <<cat, seq, lastId, open>>

Entry == [id: Nat, owner: Consumers, status: {"active", "hidden", "deleted"},
          seq: Nat, triple: Triples]

CatalogInit ==
  /\ cat = {}
  /\ seq = 0
  /\ lastId = 0
  /\ open = {}

Draw(i) ==
  /\ seq' = seq + 1
  /\ open' = open \cup {<<seq + 1, i>>}
  /\ UNCHANGED cat

\* An INSERT evaluates the defaults of id and sync_seq.
StartInsert ==
  /\ Draw(lastId + 1)
  /\ lastId' = lastId + 1

\* An UPDATE locks the row, so no other change of it is in flight.
StartUpdate(r) ==
  /\ \A o \in open : o[2] # r.id
  /\ Draw(r.id)
  /\ UNCHANGED lastId

\* What a statement makes of the row r: flag() hides an active one,
\* soft_delete() deletes a live one, contribute() revives one under the
\* caller's triple; its UPDATE does not look at the status again.
Revivable(r) == r.status = "deleted" \/ StaleRevive

Updates(r) ==
  (IF r.status = "active" THEN {[r EXCEPT !.status = "hidden"]} ELSE {})
  \cup (IF r.status # "deleted" THEN {[r EXCEPT !.status = "deleted"]} ELSE {})
  \cup (IF Revivable(r)
        THEN {[r EXCEPT !.status = "active", !.triple = tr] : tr \in Triples}
        ELSE {})

Close(o) ==
  /\ open' = open \ {o}
  /\ UNCHANGED <<seq, lastId>>

\* COMMIT of an inserted fingerprint.
PublishInsert(o) ==
  /\ \A r \in cat : r.id # o[2]
  /\ \E c \in Consumers, tr \in Triples :
       cat' = cat \cup {[id |-> o[2], owner |-> c, status |-> "active",
                         seq |-> o[1], triple |-> tr]}
  /\ Close(o)

\* COMMIT of a hidden, deleted or revived fingerprint.
PublishUpdate(o) ==
  /\ \E r \in cat : /\ r.id = o[2]
                    /\ \E q \in Updates(r) :
                         cat' = (cat \ {r}) \cup {[q EXCEPT !.seq = o[1]]}
  /\ Close(o)

\* ROLLBACK, or an INSERT that ran into an existing row: the number is lost.
Abandon(o) == Close(o) /\ UNCHANGED cat

\* Retention removes tombstones that no one is changing.
Purge(T) ==
  /\ \A r \in T : r.status = "deleted" /\ \A o \in open : o[2] # r.id
  /\ cat' = cat \ T
  /\ UNCHANGED <<seq, lastId, open>>

CatalogNext ==
  \/ StartInsert
  \/ \E r \in cat : StartUpdate(r)
  \/ \E o \in open : PublishInsert(o) \/ PublishUpdate(o) \/ Abandon(o)
  \/ \E T \in SUBSET cat : Purge(T)

CatalogSpec == CatalogInit /\ [][CatalogNext]_catVars
=============================================================================
