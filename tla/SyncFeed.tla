------------------------------ MODULE SyncFeed ------------------------------
(***************************************************************************)
(* The incremental feed, GET /v1/fingerprints/sync, over the Catalog, and  *)
(* clients that follow docs/CLIENT_INTEGRATION.md: pull a page after the   *)
(* saved watermark, apply it, save next_since.  A client may lose an answer*)
(* or stop between two of its steps and start again from what it saved.    *)
(***************************************************************************)
EXTENDS Catalog

CONSTANTS
  Clients,       \* consumers that follow the feed
  Wants,         \* triple each client filters on, None for no filter
  None,
  MaxSyncLimit,  \* config.max_sync_limit
  MaxSeq,        \* bound: content changes in a behaviour
  MaxOpen,       \* bound: content changes in flight at once
  MaxCrashes     \* bound: client restarts in a behaviour

ASSUME FeedAssumption ==
  /\ Clients \subseteq Consumers
  /\ None \notin Triples
  /\ Wants \in [Clients -> Triples \cup {None}]
  /\ MaxSyncLimit \in Nat
  /\ MaxSeq \in Nat /\ MaxOpen \in Nat /\ MaxCrashes \in Nat

VARIABLES
  view,     \* fingerprint ids in each client's local table (origin 'hub')
  mark,     \* each client's saved watermark, last_sync_seq
  page,     \* answer a client is working on, or NoPage
  late,     \* history: changes still in flight when a page went past them
  crashes   \* client restarts so far

clientVars == <<view, mark, page, late, crashes>>
vars == <<catVars, clientVars>>

NoPage == [step |-> "none", rows |-> {}, next |-> 0, more |-> FALSE, late |-> {}]

FeedTypeOK ==
  /\ cat \in SUBSET Entry
  /\ seq \in Nat /\ lastId \in Nat
  /\ open \in SUBSET (Nat \X Nat)
  /\ view \in [Clients -> SUBSET Nat]
  /\ mark \in [Clients -> Nat]
  /\ page \in [Clients -> [step: {"none", "apply", "save"}, rows: SUBSET Entry,
                           next: Nat, more: BOOLEAN, late: SUBSET Nat]]
  /\ late \in [Clients -> SUBSET Nat]
  /\ crashes \in Nat

Init ==
  /\ CatalogInit
  /\ view = [c \in Clients |-> {}]
  /\ mark = [c \in Clients |-> 0]
  /\ page = [c \in Clients |-> NoPage]
  /\ late = [c \in Clients |-> {}]
  /\ crashes = 0

-----------------------------------------------------------------------------
(* sync()                                                                  *)

\* The WHERE clause, the cursor aside.
Matches(c, r) == r.owner # c /\ (Wants[c] = None \/ r.triple = Wants[c])

\* sync_seq > since
AfterWithoutHidden(c, since) ==
  {r \in cat : r.seq > since /\ Matches(c, r) /\ r.status # "hidden"}
After(c, since) == {r \in cat : r.seq > since /\ Matches(c, r)}

\* ORDER BY sync_seq ASC LIMIT n
Take(S, n) == {r \in S : Cardinality({q \in S : q.seq <= r.seq}) <= n}

\* int(rows[-1]["sync_seq"]) if rows else since_seq
NextSinceOverlapping(rows, since) ==
  IF rows = {} THEN since - 1
  ELSE CHOOSE n \in {r.seq : r \in rows} : \A r \in rows : r.seq <= n
NextSince(rows, since) ==
  IF rows = {} THEN since
  ELSE CHOOSE n \in {r.seq : r \in rows} : \A r \in rows : r.seq <= n

\* Faulty: no lower bound, so limit=0 asks for an empty page.
ClampAboveOnly(limit) == IF limit > MaxSyncLimit THEN MaxSyncLimit ELSE limit

\* max(1, min(limit, config.max_sync_limit))
Clamp(limit) ==
  LET m == IF limit > MaxSyncLimit THEN MaxSyncLimit ELSE limit
  IN IF m < 1 THEN 1 ELSE m

\* Faulty: next_since is taken from the extra row that was only fetched to
\* tell has_more.
SyncPastExtraRow(c, since, limit) ==
  LET fetched == Take(After(c, since), limit + 1)
      next    == NextSince(fetched, since)
  IN [step |-> "apply", rows |-> Take(fetched, limit), next |-> next,
      more |-> Cardinality(fetched) > limit,
      late |-> {o[1] : o \in {o \in open : o[1] <= next}}]

Sync(c, since, limit) ==
  LET fetched == Take(After(c, since), limit + 1)
      rows    == Take(fetched, limit)
      next    == NextSince(rows, since)
  IN [step |-> "apply", rows |-> rows, next |-> next,
      more |-> Cardinality(fetched) > limit,
      late |-> {o[1] : o \in {o \in open : o[1] <= next}}]

-----------------------------------------------------------------------------
(* The client.                                                             *)

Pull(c, limit) ==
  /\ page[c] = NoPage
  /\ page' = [page EXCEPT ![c] = Sync(c, mark[c], Clamp(limit))]
  /\ UNCHANGED <<catVars, view, mark, late, crashes>>

\* Upsert active rows by hub id, remove hidden and deleted ones.
ApplyPage(c) ==
  /\ page[c].step = "apply"
  /\ view' = [view EXCEPT ![c] =
                (@ \ {r.id : r \in page[c].rows})
                \cup {r.id : r \in {r \in page[c].rows : r.status = "active"}}]
  /\ page' = [page EXCEPT ![c].step = "save"]
  /\ UNCHANGED <<catVars, mark, late, crashes>>

\* The watermark moves after the page was applied.
SaveMark(c) ==
  /\ page[c].step = "save"
  /\ mark' = [mark EXCEPT ![c] = page[c].next]
  /\ late' = [late EXCEPT ![c] = @ \cup page[c].late]
  /\ page' = [page EXCEPT ![c] = NoPage]
  /\ UNCHANGED <<catVars, view, crashes>>

\* The answer is lost or the client restarts: the page is gone, what was
\* applied or saved stays.
Crash(c) ==
  /\ page[c] # NoPage
  /\ crashes < MaxCrashes
  /\ crashes' = crashes + 1
  /\ page' = [page EXCEPT ![c] = NoPage]
  /\ UNCHANGED <<catVars, view, mark, late>>

-----------------------------------------------------------------------------

Change ==
  /\ \/ seq < MaxSeq /\ Cardinality(open) < MaxOpen
        /\ (StartInsert \/ \E r \in cat : StartUpdate(r))
     \/ \E o \in open : PublishInsert(o) \/ PublishUpdate(o) \/ Abandon(o)
     \/ \E T \in (SUBSET cat) \ {{}} : Purge(T)
  /\ UNCHANGED clientVars

ClientStep(c) ==
  \/ \E limit \in 0..MaxSyncLimit + 1 : Pull(c, limit)
  \/ ApplyPage(c)
  \/ SaveMark(c)

Next ==
  \/ Change
  \/ \E c \in Clients : ClientStep(c) \/ Crash(c)

Spec == Init /\ [][Next]_vars

\* A client keeps polling, and every transaction ends.
FairSpec ==
  /\ Spec
  /\ \A c \in Clients : WF_vars(ClientStep(c))
  /\ WF_vars((\E o \in open : PublishInsert(o) \/ PublishUpdate(o) \/ Abandon(o))
             /\ UNCHANGED clientVars)

-----------------------------------------------------------------------------
(* What the feed promises.                                                 *)

\* The local copy agrees with the catalogue on r.
Agrees(c, r) == (r.id \in view[c]) <=> (r.status = "active")

\* Everything the feed serves a client up to its watermark is in its local
\* copy, whatever was inserted, hidden, deleted, revived or purged meanwhile
\* and wherever the client stopped, with one exception: a change whose
\* transaction was still open when a page with a larger sync_seq was read.
OnlyOvertakenMissed ==
  \A c \in Clients : \A r \in cat :
    (Matches(c, r) /\ r.seq <= mark[c]) => (Agrees(c, r) \/ r.seq \in late[c])

\* A page is exactly the part of the feed between the watermark and
\* next_since, and has_more says whether anything follows it, for every
\* requested limit, clamped or not.
PageStep ==
  \A c \in Clients :
    (page[c] = NoPage /\ page'[c] # NoPage) =>
      LET p == page'[c] IN
        /\ p.rows = After(c, mark[c]) \ After(c, p.next)
        /\ p.more <=> After(c, p.next) # {}
        /\ After(c, mark[c]) # {} => p.rows # {}
PagesExact == [][PageStep]_vars

\* A client that keeps polling reaches the end of the feed once the hub is
\* quiet: no page, limit or restart leaves it asking for the same rows.
EventuallyCaughtUp == \A c \in Clients : <>[](After(c, mark[c]) = {})

-----------------------------------------------------------------------------
(* What the documents say of the feed, and it does not keep.               *)

\* The client has processed everything the feed has for it, and no change is
\* in flight.
Quiet(c) == page[c] = NoPage /\ open = {} /\ After(c, mark[c]) = {}

\* PRIVACY.md: "Soft deletion creates a tombstone so offline peers learn to
\* remove their local copy."
TombstonesReachPeers ==
  \A c \in Clients : Quiet(c) =>
    \A r \in cat : (r.owner # c /\ r.status = "deleted") => r.id \notin view[c]
=============================================================================
