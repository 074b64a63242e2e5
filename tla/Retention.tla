----------------------------- MODULE Retention -----------------------------
(***************************************************************************)
(* apply_retention() and tools/purge_retention.py against the clock: the   *)
(* ages of hits, flag reasons and tombstones, the scheduled run, and a     *)
(* client that may stay offline (docs/OPERATIONS.md, "Backups and          *)
(* retention").  Time is in ticks.                                         *)
(*                                                                         *)
(* A call stamps its rows with utc_now_ms() before it has a connection and *)
(* locks, so a stamp is up to MaxDelay older than the commit that shows    *)
(* it; the tool takes its now_ms before its transaction in the same way.   *)
(* A contribute or delete has two steps here: the statement that locks its *)
(* row and draws the sync_seq, and COMMIT, which shows both; so a sync may *)
(* go past a deletion in flight.  Hits and flags are one step each, runs   *)
(* have a begin and a commit: FingerprintStore has the statements of all,  *)
(* SyncFeed the pages of a sync.                                           *)
(***************************************************************************)
EXTENDS Integers, FiniteSets

CONSTANTS
  Ids,         \* fingerprints, each contributed at most once as a new row
  Triples,     \* compatibility triples
  Wanted,      \* the triple the client filters on
  HitDays, FlagReasonDays, TombstoneMetadataDays, TombstoneDays,
  Every,       \* bound kept by the operator: ticks between two applied runs
  Offline,     \* bound kept by the client: ticks between two syncs
  MaxDelay,    \* bound: from a call's stamp to its commit
  MaxPending,  \* bound: contributes and deletes in flight
  MaxAudit,    \* bound: hits and flag reasons stored at a time
  MaxSeq,      \* bound: content changes in a behaviour
  MaxTime      \* bound: last tick

ASSUME RetentionAssumption ==
  /\ Wanted \in Triples
  /\ HitDays \in Int /\ FlagReasonDays \in Int
  /\ TombstoneMetadataDays \in Int /\ TombstoneDays \in Int
  /\ Every \in Nat /\ Offline \in Nat /\ MaxDelay \in Nat
  /\ MaxPending \in Nat /\ MaxAudit \in Nat /\ MaxSeq \in Nat /\ MaxTime \in Nat

VARIABLES
  now,
  row,       \* fingerprints, the columns retention and the feed look at
  seq,       \* last sync_seq
  hits,      \* fingerprint_hits: <<fingerprint, hit_at_ms>>
  reasons,   \* fingerprint_flags with a reason: <<fingerprint, created_at_ms>>
  pending,   \* contributes and deletes in flight, with the sync_seq they drew
  run,       \* the tool's run in progress, or NoRun
  lastRun,   \* now_ms of the last applied run
  copy,      \* fingerprints in the client's local table
  mark,      \* the client's watermark
  lastSync,  \* time of the client's last sync
  late       \* history: numbers in flight when a sync went past them

toolVars   == <<run, lastRun>>
clientVars == <<copy, mark, lastSync, late>>
vars == <<now, row, seq, hits, reasons, pending, run, lastRun, copy, mark, lastSync, late>>

Row == [status: {"absent", "active", "deleted", "purged"}, triple: Triples,
        seq: Nat, updated: Nat, meta: BOOLEAN]
Call == [op: {"contribute", "delete"}, id: Ids, triple: Triples, stamp: Nat, seq: Nat]
NoRun == [at |-> -1, apply |-> FALSE]

RetentionTypeOK ==
  /\ now \in Nat /\ seq \in Nat /\ lastRun \in Nat /\ mark \in Nat /\ lastSync \in Nat
  /\ row \in [Ids -> Row]
  /\ hits \in SUBSET (Ids \X Nat) /\ reasons \in SUBSET (Ids \X Nat)
  /\ pending \in SUBSET Call
  /\ run \in [at: Nat \cup {-1}, apply: BOOLEAN]
  /\ copy \in SUBSET Ids /\ late \in SUBSET Nat

Init ==
  /\ now = 0 /\ seq = 0 /\ lastRun = 0 /\ mark = 0 /\ lastSync = 0
  /\ row = [i \in Ids |-> [status |-> "absent", triple |-> Wanted, seq |-> 0,
                           updated |-> 0, meta |-> FALSE]]
  /\ hits = {} /\ reasons = {} /\ pending = {}
  /\ run = NoRun
  /\ copy = {} /\ late = {}

-----------------------------------------------------------------------------
(* The write path.                                                         *)

\* What utc_now_ms() may have returned to a call that is now at a statement.
Stamps == {n \in 0..now : now - n <= MaxDelay}

\* A call in flight has written the row of i, or is inserting it: others wait.
Held(i) == \E p \in pending : p.id = i

\* What finds something to write: contribute() a tombstone to revive or no row,
\* soft_delete() a row that is not deleted.  A live row is a duplicate (409).
Applies(op, i) ==
  \/ op = "contribute" /\ row[i].status \in {"absent", "deleted"}
  \/ op = "delete" /\ row[i].status = "active"

\* INSERT, or UPDATE ... SET sync_seq = nextval('fingerprints_sync_seq').
Draw(op, i, tr, stamp) ==
  /\ Applies(op, i) /\ ~ Held(i)
  /\ seq < MaxSeq /\ Cardinality(pending) < MaxPending
  /\ seq' = seq + 1
  /\ pending' = pending \cup {[op |-> op, id |-> i, triple |-> tr, stamp |-> stamp, seq |-> seq + 1]}
  /\ UNCHANGED <<now, row, hits, reasons, toolVars, clientVars>>

\* A revival has deleted the row's flags.
Contribute(p) ==
  /\ p.op = "contribute"
  /\ row' = [row EXCEPT ![p.id] = [status |-> "active", triple |-> p.triple, seq |-> p.seq,
                                   updated |-> p.stamp, meta |-> TRUE]]
  /\ reasons' = {a \in reasons : a[1] # p.id}

Delete(p) ==
  /\ p.op = "delete"
  /\ row' = [row EXCEPT ![p.id].status = "deleted", ![p.id].seq = p.seq,
                        ![p.id].updated = p.stamp]
  /\ UNCHANGED reasons

\* COMMIT, or the transaction is rolled back (503).
Finish(p) ==
  /\ pending' = pending \ {p}
  /\ Contribute(p) \/ Delete(p) \/ UNCHANGED <<row, reasons>>
  /\ UNCHANGED <<now, seq, hits, toolVars, clientVars>>

\* report_hit() and flag() lock the row and leave an audit row.
Audit(op, i, stamp) ==
  /\ row[i].status = "active" /\ ~ Held(i)
  /\ Cardinality(hits) + Cardinality(reasons) < MaxAudit
  /\ hits' = IF op = "hit" THEN hits \cup {<<i, stamp>>} ELSE hits
  /\ reasons' = IF op = "flag" THEN reasons \cup {<<i, stamp>>} ELSE reasons
  /\ UNCHANGED <<now, row, seq, pending, toolVars, clientVars>>

-----------------------------------------------------------------------------
(* apply_retention()                                                       *)

\* The checks of the tool and of apply_retention() on the four periods.
Accepted ==
  /\ \A d \in {HitDays, FlagReasonDays, TombstoneMetadataDays, TombstoneDays} : d >= 0
  /\ TombstoneMetadataDays <= TombstoneDays

StartRun(apply) ==
  /\ Accepted
  /\ run = NoRun
  /\ run' = [at |-> now, apply |-> apply]
  /\ UNCHANGED <<now, row, seq, hits, reasons, pending, lastRun, clientVars>>

\* stamp < now_ms - period
OlderOrEqual(stamp, days) == stamp <= run.at - days
Older(stamp, days) == stamp < run.at - days

\* Faulty: the scrub also clears a column that the feed serves.
AnonymizedTriple(r) == IF r.status = "deleted" /\ Older(r.updated, TombstoneMetadataDays)
                       THEN [r EXCEPT !.meta = FALSE, !.triple = "none"] ELSE r
\* Faulty: the tombstone period decides about the source fields as well.
AnonymizedLate(r) == IF r.status = "deleted" /\ Older(r.updated, TombstoneDays)
                     THEN [r EXCEPT !.meta = FALSE] ELSE r
Anonymized(r) == IF r.status = "deleted" /\ Older(r.updated, TombstoneMetadataDays)
                 THEN [r EXCEPT !.meta = FALSE] ELSE r
Purged(r) == IF r.status = "deleted" /\ Older(r.updated, TombstoneDays)
             THEN [r EXCEPT !.status = "purged", !.meta = FALSE] ELSE r

\* The audit rows that stay: young enough, and of a row that is not purged
\* (ON DELETE CASCADE).
Kept(S, days) ==
  {a \in S : ~ Older(a[2], days) /\ Purged(row[a[1]]).status # "purged"}

\* A row or flag the statements would write is held by a call in flight.
Blocked ==
  \E p \in pending :
    \/ Anonymized(Purged(row[p.id])) # row[p.id]
    \/ p.op = "contribute" /\ \E a \in reasons : a[1] = p.id /\ Older(a[2], FlagReasonDays)

\* The four statements, committed together or rolled back by a preview.
EndRun ==
  /\ run # NoRun
  /\ ~ Blocked
  /\ run' = NoRun
  /\ \/ /\ run.apply
        /\ hits' = Kept(hits, HitDays)
        /\ reasons' = Kept(reasons, FlagReasonDays)
        /\ row' = [i \in Ids |-> Anonymized(Purged(row[i]))]
        /\ lastRun' = run.at
     \/ /\ ~ run.apply
        /\ UNCHANGED <<row, hits, reasons, lastRun>>
  /\ UNCHANGED <<now, seq, pending, clientVars>>

-----------------------------------------------------------------------------
(* The client and the clock.                                               *)

Served == {i \in Ids : /\ row[i].status \in {"active", "deleted"}
                       /\ row[i].triple = Wanted /\ row[i].seq > mark}

\* All pages of one sync.
Sync ==
  LET next == IF Served = {} THEN mark
              ELSE CHOOSE n \in {row[i].seq : i \in Served} : \A i \in Served : row[i].seq <= n
  IN /\ copy' = (copy \ Served) \cup {i \in Served : row[i].status = "active"}
     /\ mark' = next
     /\ lastSync' = now
     /\ late' = late \cup {p.seq : p \in {p \in pending : p.seq <= next}}
     /\ UNCHANGED <<now, row, seq, hits, reasons, pending, toolVars>>

\* Time passes while every deadline is kept: calls and runs in flight end
\* within MaxDelay, the tool is applied every Every ticks ("at least daily"),
\* the client syncs every Offline ticks.
Tick ==
  /\ now < MaxTime
  /\ \A p \in pending : now - p.stamp < MaxDelay
  /\ run # NoRun => now - run.at < MaxDelay
  /\ now - (IF run.apply THEN run.at ELSE lastRun) < Every
  /\ now - lastSync < Offline
  /\ now' = now + 1
  /\ UNCHANGED <<row, seq, hits, reasons, pending, toolVars, clientVars>>

Next ==
  \/ \E op \in {"contribute", "delete"}, i \in Ids, tr \in Triples, stamp \in Stamps :
       (op = "delete" => tr = Wanted) /\ Draw(op, i, tr, stamp)
  \/ \E p \in pending : Finish(p)
  \/ \E op \in {"hit", "flag"}, i \in Ids, stamp \in Stamps : Audit(op, i, stamp)
  \/ \E apply \in BOOLEAN : StartRun(apply)
  \/ EndRun
  \/ Sync
  \/ Tick

Spec == Init /\ [][Next]_vars

-----------------------------------------------------------------------------
(* What the retention policy promises.                                     *)

\* "The 180-day tombstone window must be at least as long as the longest
\* supported offline-client interval": if it also covers the delay between a
\* deletion's stamp and its commit, no tombstone is purged before a client that
\* syncs in time has fetched it.  What such a client holds under its triple is live
\* or has a tombstone it will be served; except where the row's last change had
\* drawn its number and not committed when a sync went past that number, which no
\* period repairs.  Of a row that was revived under another triple nothing is
\* promised.
RetiredCopiesGone ==
  Offline + MaxDelay <= TombstoneDays =>
    \A i \in copy : row[i].triple = Wanted =>
      \/ row[i].status = "active"
      \/ row[i].status = "deleted" /\ i \in Served
      \/ row[i].seq \in late

\* PRIVACY.md's table of retention periods, as a bound that holds at every
\* moment: no hit, flag reason, source field of a tombstone or tombstone is
\* older than its period, the interval between runs and the duration of one.  (A
\* call may commit MaxDelay after its stamp, just behind a run, so a shorter
\* period counts as MaxDelay.)
AtLeastDelay(days) == IF days < MaxDelay THEN MaxDelay ELSE days
Overdue(stamp, days) == now - stamp > AtLeastDelay(days) + Every + MaxDelay
Minimised ==
  Accepted =>
    /\ \A h \in hits : ~ Overdue(h[2], HitDays)
    /\ \A r \in reasons : ~ Overdue(r[2], FlagReasonDays)
    /\ \A i \in Ids : row[i].status = "deleted" =>
         /\ row[i].meta => ~ Overdue(row[i].updated, TombstoneMetadataDays)
         /\ ~ Overdue(row[i].updated, TombstoneDays)
=============================================================================
