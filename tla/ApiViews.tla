------------------------------ MODULE ApiViews ------------------------------
(***************************************************************************)
(* The read-only endpoints: browse (list_fingerprints, OFFSET paging),     *)
(* detail (get_fingerprint) and stats, over the committed rows.  Each SQL  *)
(* statement reads one snapshot; between two pages of a browse, or two     *)
(* statements of stats(), other transactions commit.  Readers change no    *)
(* row, so one reader at a time shows all that any number of them can see. *)
(***************************************************************************)
EXTENDS Integers, FiniteSets, FiniteSetsExt

CONSTANTS
  Consumers,     \* consumers holding the 'read' scope
  Admins,        \* those holding 'admin'
  Categories,    \* VALID_CATEGORIES
  Provenances,   \* values of provenance, a free text
  Limits,        \* values of ?limit=
  MaxListLimit,  \* config.max_list_limit
  None,          \* a query parameter that is not sent, a column of no row
  MaxId,         \* bound: fingerprints of a behaviour
  MaxCommits     \* bound: transactions that change a row

ASSUME ViewsAssumption ==
  /\ Admins \subseteq Consumers
  /\ None \notin Consumers \cup Categories \cup Provenances
  /\ IsFiniteSet(Categories) /\ IsFiniteSet(Provenances)  \* a list; the values TEXT can hold
  /\ Limits \subseteq Int /\ MaxListLimit \in Int
  /\ MaxId \in Nat /\ MaxCommits \in Nat

Ids == 1..MaxId

VARIABLES
  row,      \* committed fingerprints by id
  commits,  \* transactions so far
  view      \* the reader: a browse, a stats() call or a detail answer

vars == <<row, commits, view>>

Row == [status: {"active", "hidden", "deleted"},
        owner: Consumers, category: Categories, provenance: Provenances]
Absent == [status |-> "absent", owner |-> None, category |-> None, provenance |-> None]
Query == [who: Consumers, owner: Consumers \cup {None}, category: Categories \cup {None},
          hidden: BOOLEAN, limit: Limits]

Idle == [step |-> "idle"]
Shapes == {"peer", "full"}
Shown == [id: Ids, row: Row, shape: Shapes]

-----------------------------------------------------------------------------
(* list_fingerprints() and get_fingerprint()                               *)

IsAdmin(c) == c \in Admins

ClampBelowOnly(limit) == IF limit < 1 THEN 1 ELSE limit

\* max(1, min(limit, config.max_list_limit))
Clamp(limit) ==
  LET m == IF limit > MaxListLimit THEN MaxListLimit ELSE limit
  IN IF m < 1 THEN 1 ELSE m

\* A consumer that is no admin lists its own rows, whether it says so or not;
\* asking for another's is refused (403).
Allowed(q) == IsAdmin(q.who) \/ q.owner \in {None, q.who}
OwnerAsAsked(q) == q.owner
OwnerFilter(q) == IF IsAdmin(q.who) THEN q.owner ELSE q.who
WithHidden(q) == q.hidden /\ IsAdmin(q.who)

\* The WHERE clause, over the rows rs.
Listed(rs, q) ==
  {i \in Ids :
     /\ rs[i].status \in (IF WithHidden(q) THEN {"active", "hidden"} ELSE {"active"})
     /\ q.category = None \/ rs[i].category = q.category
     /\ OwnerFilter(q) = None \/ rs[i].owner = OwnerFilter(q)}

\* ORDER BY id DESC LIMIT n OFFSET k
PageAscending(S, n, k) ==
  {i \in S : LET rank == Cardinality({j \in S : j <= i}) IN k < rank /\ rank <= k + n}
Page(S, n, k) ==
  {i \in S : LET rank == Cardinality({j \in S : j >= i}) IN k < rank /\ rank <= k + n}

CanSeeAnyActive(c, r) == IsAdmin(c) \/ r.owner = c \/ r.status = "active"
CanSeeSecrets(c, r) == IsAdmin(c) \/ r.owner = c

\* _detail_fp: the whole record, or what is shared with a peer.
Detail(c, i) ==
  [id |-> i, row |-> row[i], shape |-> IF CanSeeSecrets(c, row[i]) THEN "full" ELSE "peer"]

\* get_fingerprint: 404 shows nothing.
Found(c, i) ==
  /\ row[i].status \notin {"absent", "deleted"}
  /\ row[i].status = "hidden" => CanSeeSecrets(c, row[i])

GetFingerprint(c, i) ==
  /\ view = Idle
  /\ view' = [step |-> "detail", who |-> c, shown |-> IF Found(c, i) THEN {Detail(c, i)} ELSE {}]
  /\ UNCHANGED <<row, commits>>

\* A client walks through the pages of one query, the next offset being the
\* number of records received so far, until a page is empty.  History: the rows
\* listed ever since it began, those that left the list and came into it.
StartBrowse(q) ==
  /\ view = Idle
  /\ Allowed(q)
  /\ view' = [step |-> "browse", q |-> q, offset |-> 0, seen |-> {}, twice |-> {}, shown |-> {},
              kept |-> Listed(row, q), leaves |-> {}, enters |-> {}, left |-> 0]
  /\ UNCHANGED <<row, commits>>

NextPage ==
  /\ view.step = "browse"
  /\ LET page == Page(Listed(row, view.q), Clamp(view.q.limit), view.offset)
     IN view' = [view EXCEPT !.step = IF page = {} THEN "browsed" ELSE "browse",
                             !.offset = @ + Cardinality(page),
                             !.seen = @ \cup page,
                             !.twice = @ \cup (view.seen \cap page),
                             !.shown = {Detail(view.q.who, i) : i \in page}]
  /\ UNCHANGED <<row, commits>>

-----------------------------------------------------------------------------
(* stats()                                                                 *)

Active == {i \in Ids : row[i].status = "active"}

\* SELECT category, COUNT( * ) ... GROUP BY category
ByCategoryOfAll == [g \in Categories |-> Cardinality({i \in Ids : row[i].category = g})]
ByCategory == [g \in Categories |-> Cardinality({i \in Active : row[i].category = g})]
ByProvenance == [p \in Provenances |-> Cardinality({i \in Active : row[i].provenance = p})]

StatsTotals(c) ==
  /\ view = Idle /\ IsAdmin(c)
  /\ view' = [step |-> "totals", total |-> Cardinality(Active), during |-> 0]
  /\ UNCHANGED <<row, commits>>

StatsByCategory ==
  /\ view.step = "totals"
  /\ view' = [step |-> "by_category", total |-> view.total, during |-> view.during,
              categories |-> ByCategory]
  /\ UNCHANGED <<row, commits>>

\* The last statement counts enabled consumers, a table no action here changes.
StatsByProvenance ==
  /\ view.step = "by_category"
  /\ view' = [step |-> "counted", total |-> view.total, during |-> view.during,
              categories |-> view.categories, provenances |-> ByProvenance]
  /\ UNCHANGED <<row, commits>>

\* The answer is sent.
Answered ==
  /\ view.step \in {"detail", "browsed", "counted"}
  /\ view' = Idle
  /\ UNCHANGED <<row, commits>>

-----------------------------------------------------------------------------
(* Other transactions.                                                     *)

\* What contribute() makes of a row it read as a tombstone: everything but the
\* owner is new.
Revivals(r) == {s \in Row : s.status = "active" /\ s.owner = r.owner}

\* contribute() under a fresh id (ids are drawn before the commit, so they may
\* appear in any order) or of a tombstone, flag(), soft_delete().  A live row is
\* revived too: by a contribute that read the tombstone before another one revived
\* it, as its UPDATE tests only the id.  (This includes rows that were never
\* deleted, of which contribute() has no stale read.)
Successors(r) ==
  CASE r.status = "absent" ->
         [status: {"active"}, owner: Consumers, category: Categories, provenance: Provenances]
    [] r.status = "active" -> {[r EXCEPT !.status = s] : s \in {"hidden", "deleted"}} \cup Revivals(r)
    [] r.status = "hidden" -> {[r EXCEPT !.status = "deleted"]} \cup Revivals(r)
    [] r.status = "deleted" -> Revivals(r)

Watched(rows) ==
  CASE view.step = "browse" ->
         LET was == Listed(row, view.q)
             is == Listed(rows, view.q)
         IN [view EXCEPT !.kept = @ \cap is, !.leaves = @ \cup (was \ is),
                         !.enters = @ \cup (is \ was), !.left = @ + Cardinality(was \ is)]
    [] view.step \in {"totals", "by_category"} -> [view EXCEPT !.during = @ + 1]
    [] OTHER -> view

Commit(i) ==
  /\ commits < MaxCommits
  /\ \E r \in Successors(row[i]) :
       LET rows == [row EXCEPT ![i] = r]
       IN row' = rows /\ view' = Watched(rows)
  /\ commits' = commits + 1

-----------------------------------------------------------------------------
Init ==
  /\ row \in [Ids -> {r \in Row : r.status = "active"} \cup {Absent}]
  /\ commits = 0
  /\ view = Idle

Next ==
  \/ \E i \in Ids : Commit(i)
  \/ \E c \in Consumers, i \in Ids : GetFingerprint(c, i)
  \/ \E q \in Query : StartBrowse(q)
  \/ NextPage
  \/ \E c \in Consumers : StatsTotals(c)
  \/ StatsByCategory
  \/ StatsByProvenance
  \/ Answered

Spec == Init /\ [][Next]_vars

-----------------------------------------------------------------------------
(* Properties.                                                             *)

\* The type of the state: rows are whole or absent, a page never exceeds
\* max_list_limit (one record when that is not positive), whatever ?limit= says.
ViewsTypeOK ==
  /\ row \in [Ids -> Row \cup {Absent}]
  /\ commits \in 0..MaxCommits
  /\ view.step \in {"idle", "detail", "browse", "browsed", "totals", "by_category", "counted"}
  /\ view.step \in {"browse", "browsed", "detail"} =>
       /\ view.shown \subseteq Shown
       /\ Cardinality(view.shown) <= (IF MaxListLimit < 1 THEN 1 ELSE MaxListLimit)
  /\ view.step \in {"browse", "browsed"} => view.q \in Query /\ view.seen \subseteq Ids

\* OFFSET paging (list_fingerprints) under concurrent writers: a fingerprint listed
\* from the first page to the last is missed only when one with a larger id left
\* the list meanwhile, no more are missed than left; and one is shown twice only when
\* one with a larger id came in.  In particular new contributions never cause a miss.
PagingSkipsExplained ==
  view.step = "browsed" =>
    LET missed == view.kept \ view.seen
    IN /\ \A m \in missed : \E i \in view.leaves : i > m
       /\ Cardinality(missed) <= view.left
       /\ \A t \in view.twice : \E i \in view.enters : i > t

\* stats() has no common snapshot: total_active and the sums over by_category and
\* by_provenance may differ, by no more than the transactions that committed
\* between its statements; on a quiet database they are equal.
StatsDriftBounded ==
  view.step = "counted" =>
    LET inCategories == MapThenSumSet(LAMBDA g : view.categories[g], Categories)
        inProvenances == MapThenSumSet(LAMBDA p : view.provenances[p], Provenances)
        Near(a, b) == a - b <= view.during /\ b - a <= view.during
    IN /\ Near(view.total, inCategories)
       /\ Near(view.total, inProvenances)
       /\ Near(inCategories, inProvenances)

\* What a consumer that is neither admin nor owner learns of a fingerprint, by detail or
\* by browsing: the peer record of an active one, one id at a time and never a list.
PeersLearnLittle ==
  view.step \in {"detail", "browse", "browsed"} =>
    \A s \in view.shown :
      LET who == IF view.step = "detail" THEN view.who ELSE view.q.who
      IN \/ IsAdmin(who)
         \/ s.row.owner = who
         \/ view.step = "detail" /\ s.shape = "peer" /\ s.row.status = "active"
=============================================================================
