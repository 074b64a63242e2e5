-------------------------- MODULE FingerprintStore --------------------------
(***************************************************************************)
(* The write path of FingerprintHub: the handlers of api/fingerprints.py   *)
(* that change state, the transactions of api/fingerprint_store.py they    *)
(* run, and tools/purge_retention.py, over one PostgreSQL database.        *)
(*                                                                         *)
(* One step is one SQL statement.  The database runs at READ COMMITTED (no *)
(* file of the repository changes the default), so a statement reads the   *)
(* rows committed when it runs, writes lock the rows they touch until the  *)
(* transaction ends, and a statement that meets a locked row waits and     *)
(* then looks at the row's newest version.  Sessions are the executor's    *)
(* worker threads (each runs one store call on one pooled connection) and  *)
(* the separate retention process.                                         *)
(***************************************************************************)
EXTENDS Naturals, FiniteSets

CONSTANTS
  Consumers,          \* ids of the consumers holding the 'write' scope
  Admins,             \* those that also hold 'admin'
  Phashes,            \* perceptual hashes
  Triples,            \* compatibility triples (algorithm, version, normalization)
  Workers,            \* worker threads of the serving process
  Purger,             \* the retention tool's session
  None,               \* "nobody" / "nothing"
  AutoHideThreshold,  \* config.auto_hide_flag_threshold
  Ops,                \* the operations this instance issues
  Refusable,          \* those whose values the database may refuse
  SerialContribute,   \* TRUE: a consumer never has two contributes of one hash in flight
  MaxCalls,           \* bound: calls issued in a behaviour
  MaxFaults           \* bound: connections lost in a behaviour

OpNames == {"contribute", "flag", "hit", "delete", "retention", "preview"}

ASSUME ConstantsAssumption ==
  /\ Admins \subseteq Consumers
  /\ Purger \notin Workers
  /\ None \notin Workers \cup {Purger} \cup Consumers \cup Phashes \cup Triples
  /\ AutoHideThreshold \in Nat \ {0}
  /\ Ops \subseteq OpNames
  /\ Refusable \subseteq OpNames
  /\ SerialContribute \in BOOLEAN
  /\ MaxCalls \in Nat
  /\ MaxFaults \in Nat

Sessions == Workers \cup {Purger}

\* UNIQUE (phash_hex, consumer_id): a hash and its contributing owner.
Keys == Phashes \X Consumers
Owner(k) == k[2]

VARIABLES
  fp,       \* committed fingerprints rows, by unique key
  tip,      \* newest version of each row, committed or not
  lock,     \* holder of each row's lock (or of the uncommitted insert of its key)
  flags,    \* committed fingerprint_flags rows: <<fingerprint id, consumer>>
  hits,     \* committed fingerprint_hits rows: <<fingerprint id, hit_count it produced>>
  chg,      \* each session's uncommitted changes to flags and hits
  seq,      \* last value of the sequence fingerprints_sync_seq
  lastId,   \* last value of the identity column fingerprints.id
  pc,       \* next statement of each session
  arg,      \* the call each session runs
  seen,     \* what the session's own reads returned: row status, flag count
  drawn,    \* sync_seq value a session drew and has not committed (0: none)
  todo,     \* rows the retention statement still has to visit: <<key, sync_seq>>
  reply,    \* answer of the last call
  calls,    \* calls issued so far
  faults    \* connections lost so far

rowVars   == <<fp, tip, lock>>
childVars == <<flags, hits, chg>>
genVars   == <<seq, lastId>>
envVars   == <<calls, faults>>
vars == <<fp, tip, lock, flags, hits, chg, seq, lastId, pc, arg, seen, drawn,
          todo, reply, calls, faults>>

Status == {"absent", "active", "hidden", "deleted"}
Row == [id: Nat, status: Status, seq: Nat, triple: Triples \cup {None},
        flagCount: Nat, hitCount: Nat, meta: BOOLEAN]
NoRow == [id |-> 0, status |-> "absent", seq |-> 0, triple |-> None,
          flagCount |-> 0, hitCount |-> 0, meta |-> FALSE]

FlagRow == Nat \X Consumers
HitRow  == Nat \X Nat
NoChange == [flagAdd |-> {}, flagDel |-> {}, flagUpd |-> {}, hitAdd |-> {}, hitDel |-> {}]
NoSeen == [status |-> "absent", count |-> 0]
NoArg  == [op |-> "none", caller |-> None, phash |-> None, id |-> 0, triple |-> None,
           horizon |-> 0]

Labels == {"idle", "select", "clearflags", "resurrect", "insert", "arbitrate",
           "reselect", "lockrow", "addflag", "countflags", "applyflag", "bumphit",
           "check", "softdelete", "reasons", "purge", "cascade", "anonymize", "commit"}
Replies == {"none", "200", "201", "204", "403", "404", "409", "500", "503",
            "purged", "previewed", "failed"}

TypeOK ==
  /\ fp \in [Keys -> Row]
  /\ tip \in [Keys -> Row]
  /\ lock \in [Keys -> Sessions \cup {None}]
  /\ flags \in SUBSET FlagRow
  /\ hits \in SUBSET HitRow
  /\ chg \in [Sessions -> [flagAdd: SUBSET FlagRow, flagDel: SUBSET FlagRow,
                           flagUpd: SUBSET FlagRow,
                           hitAdd: SUBSET HitRow, hitDel: SUBSET HitRow]]
  /\ seq \in Nat
  /\ lastId \in Nat
  /\ pc \in [Sessions -> Labels]
  /\ arg \in [Sessions -> [op: OpNames \cup {"none"}, caller: Consumers \cup {None},
                           phash: Phashes \cup {None}, id: Nat,
                           triple: Triples \cup {None}, horizon: Nat]]
  /\ seen \in [Sessions -> [status: Status, count: Nat]]
  /\ drawn \in [Sessions -> Nat]
  /\ todo \in SUBSET (Keys \X Nat)
  /\ reply \in [Sessions -> Replies]
  /\ calls \in Nat
  /\ faults \in Nat

Init ==
  /\ fp = [k \in Keys |-> NoRow]
  /\ tip = [k \in Keys |-> NoRow]
  /\ lock = [k \in Keys |-> None]
  /\ flags = {}
  /\ hits = {}
  /\ chg = [t \in Sessions |-> NoChange]
  /\ seq = 0
  /\ lastId = 0
  /\ pc = [t \in Sessions |-> "idle"]
  /\ arg = [t \in Sessions |-> NoArg]
  /\ seen = [t \in Sessions |-> NoSeen]
  /\ drawn = [t \in Sessions |-> 0]
  /\ todo = {}
  /\ reply = [t \in Sessions |-> "none"]
  /\ calls = 0
  /\ faults = 0

-----------------------------------------------------------------------------
(* What the database gives every transaction.                              *)

KeyOf(t) == <<arg[t].phash, arg[t].caller>>

FlagsOf(i) == {f \in flags : f[1] = i}
HitsOf(i)  == {h \in hits : h[1] = i}

\* Flag rows a session has deleted or updated and not yet committed.
FlagLocks(t) == chg[t].flagDel \cup chg[t].flagUpd

\* A statement of t that writes the flag rows F has to wait for nobody.
FlagsFree(t, F) == \A u \in Sessions \ {t} : FlagLocks(u) \cap F = {}

\* t may lock the row at k: it is free, or t holds it already.
Lockable(t, k) == lock[k] \in {None, t}

Goto(t, label) == pc' = [pc EXCEPT ![t] = label]

\* The call of t ends and the handler answers r.
Answer(t, r) ==
  /\ pc' = [pc EXCEPT ![t] = "idle"]
  /\ reply' = [reply EXCEPT ![t] = r]
  /\ seen' = [seen EXCEPT ![t] = NoSeen]
  /\ arg' = [arg EXCEPT ![t] = NoArg]

\* A call that ends with nothing written.
AnswerReadOnly(t, r) ==
  /\ Answer(t, r)
  /\ UNCHANGED <<rowVars, childVars, genVars, drawn, todo, envVars>>

\* COMMIT: the row versions t holds become the committed ones.
CommitTxn(t) ==
  /\ fp' = [k \in Keys |-> IF lock[k] = t THEN tip[k] ELSE fp[k]]
  /\ lock' = [k \in Keys |-> IF lock[k] = t THEN None ELSE lock[k]]
  /\ flags' = (flags \ chg[t].flagDel) \cup chg[t].flagAdd
  /\ hits' = (hits \ chg[t].hitDel) \cup chg[t].hitAdd
  /\ chg' = [chg EXCEPT ![t] = NoChange]
  /\ drawn' = [drawn EXCEPT ![t] = 0]
  /\ UNCHANGED <<tip, seq, lastId>>

\* ROLLBACK: the sequence and the identity column keep what was drawn.
RollbackTxn(t) ==
  /\ tip' = [k \in Keys |-> IF lock[k] = t THEN fp[k] ELSE tip[k]]
  /\ lock' = [k \in Keys |-> IF lock[k] = t THEN None ELSE lock[k]]
  /\ chg' = [chg EXCEPT ![t] = NoChange]
  /\ drawn' = [drawn EXCEPT ![t] = 0]
  /\ UNCHANGED <<fp, flags, hits, seq, lastId>>

\* t writes the version r of the row at k and goes on to label.
WriteRow(t, k, r, label) ==
  /\ tip' = [tip EXCEPT ![k] = r]
  /\ lock' = [lock EXCEPT ![k] = t]
  /\ Goto(t, label)
  /\ UNCHANGED fp

\* nextval('fingerprints_sync_seq') evaluated by t.
NextVal(t) ==
  /\ seq' = seq + 1
  /\ drawn' = [drawn EXCEPT ![t] = seq + 1]

NoNextVal == UNCHANGED <<seq, drawn>>

-----------------------------------------------------------------------------
(* The calls.                                                              *)

Begin(t, a, label) ==
  /\ a.op \in Ops
  /\ pc[t] = "idle"
  /\ calls < MaxCalls
  /\ calls' = calls + 1
  /\ arg' = [arg EXCEPT ![t] = a]
  /\ Goto(t, label)
  /\ reply' = [reply EXCEPT ![t] = "none"]
  /\ UNCHANGED <<rowVars, genVars, flags, hits, seen, drawn, todo, faults>>

\* No other contribute of the hash p by consumer c is in flight.
Alone(c, p) ==
  \A u \in Workers : ~ (/\ pc[u] # "idle"
                        /\ arg[u].op = "contribute"
                        /\ KeyOf(u) = <<p, c>>)

BeginContribute(t) ==
  \E c \in Consumers, p \in Phashes, tr \in Triples :
    /\ SerialContribute => Alone(c, p)
    /\ Begin(t, [NoArg EXCEPT !.op = "contribute", !.caller = c, !.phash = p,
                             !.triple = tr], "select")
    /\ UNCHANGED chg

\* An id is any the identity column has handed out, purged rows included.
BeginOnId(t, op, label) ==
  \E c \in Consumers, i \in 1..lastId :
    /\ Begin(t, [NoArg EXCEPT !.op = op, !.caller = c, !.id = i], label)
    /\ UNCHANGED chg

BeginFlag(t)   == BeginOnId(t, "flag", "lockrow")
BeginHit(t)    == BeginOnId(t, "hit", "lockrow")
BeginDelete(t) == BeginOnId(t, "delete", "check")

(* contribute() ---------------------------------------------------------- *)

\* existing["status"] != "deleted"
DuplicateUnlessHidden(row) == row.status = "active"
Duplicate(row) == row.status \in {"active", "hidden"}

\* Faulty: the row is locked already by the SELECT, before its flags.
SelectExistingForUpdate(t) ==
  /\ pc[t] = "select"
  /\ LET k == KeyOf(t) IN
       /\ lock[k] = None
       /\ lock' = [lock EXCEPT ![k] = IF fp[k].status = "deleted" THEN t ELSE None]
       /\ arg' = [arg EXCEPT ![t].id = fp[k].id]
       /\ Goto(t, CASE fp[k].status = "deleted" -> "clearflags"
                    [] fp[k].status = "absent"  -> "insert"
                    [] OTHER                    -> "reselect")
  /\ UNCHANGED <<fp, tip, childVars, genVars, seen, drawn, todo, reply, envVars>>

SelectExisting(t) ==
  /\ pc[t] = "select"
  /\ LET row == fp[KeyOf(t)] IN
       \/ /\ Duplicate(row)
          /\ AnswerReadOnly(t, "409")
       \/ /\ row.status # "absent"
          /\ ~ Duplicate(row)
          /\ arg' = [arg EXCEPT ![t].id = row.id]
          /\ Goto(t, "clearflags")
          /\ UNCHANGED <<rowVars, childVars, genVars, seen, drawn, todo, reply, envVars>>
       \/ /\ row.status = "absent"
          /\ Goto(t, "insert")
          /\ UNCHANGED <<rowVars, childVars, genVars, arg, seen, drawn, todo, reply, envVars>>

\* DELETE FROM fingerprint_flags: runs before the row itself is locked.
ClearFlags(t) ==
  /\ pc[t] = "clearflags"
  /\ FlagsFree(t, FlagsOf(arg[t].id))
  /\ chg' = [chg EXCEPT ![t].flagDel = FlagsOf(arg[t].id)]
  /\ Goto(t, "resurrect")
  /\ UNCHANGED <<rowVars, flags, hits, genVars, arg, seen, drawn, todo, reply, envVars>>

\* SET status = 'active', flag_count = 0, ...: hit_count stays.
RevivedKeepingFlagCount(row, n, tr) ==
  [row EXCEPT !.status = "active", !.seq = n, !.triple = tr, !.meta = TRUE]
RevivedResettingHits(row, n, tr) ==
  [row EXCEPT !.status = "active", !.seq = n, !.triple = tr, !.flagCount = 0,
              !.hitCount = 0, !.meta = TRUE]
Revived(row, n, tr) ==
  [row EXCEPT !.status = "active", !.seq = n, !.triple = tr, !.flagCount = 0,
              !.meta = TRUE]

\* UPDATE ... WHERE id = existing["id"]: whatever the status is by now.
Resurrect(t) ==
  /\ pc[t] = "resurrect"
  /\ LET k == KeyOf(t) IN
       /\ fp[k].id = arg[t].id
       /\ Lockable(t, k)
       /\ NextVal(t)
       /\ WriteRow(t, k, Revived(fp[k], seq + 1, arg[t].triple), "commit")
  /\ UNCHANGED <<childVars, lastId, arg, seen, todo, reply, envVars>>

\* The row was purged meanwhile: the UPDATE returns no row, contribute()
\* returns (None, True) and the handler fails on row["consumer_id"].
ResurrectGone(t) ==
  /\ pc[t] = "resurrect"
  /\ fp[KeyOf(t)].id # arg[t].id
  /\ CommitTxn(t)
  /\ Answer(t, "500")
  /\ UNCHANGED <<todo, envVars>>

\* INSERT: the column defaults are evaluated before conflicts are looked for.
EvaluateDefaults(t) ==
  /\ pc[t] = "insert"
  /\ NextVal(t)
  /\ lastId' = lastId + 1
  /\ arg' = [arg EXCEPT ![t].id = lastId + 1]
  /\ Goto(t, "arbitrate")
  /\ UNCHANGED <<rowVars, childVars, seen, todo, reply, envVars>>

\* The row INSERT adds, with the defaults it drew.
InsertedNumberedById(t) ==
  [NoRow EXCEPT !.id = arg[t].id, !.status = "active", !.seq = arg[t].id,
                !.triple = arg[t].triple, !.meta = TRUE]
Inserted(t) ==
  [NoRow EXCEPT !.id = arg[t].id, !.status = "active", !.seq = drawn[t],
                !.triple = arg[t].triple, !.meta = TRUE]

\* ON CONFLICT (phash_hex, consumer_id) DO NOTHING: wait for a writer of the
\* same key, then insert if there is still no row, and do nothing otherwise.
InsertOrNothing(t) ==
  /\ pc[t] = "arbitrate"
  /\ LET k == KeyOf(t) IN
       \/ /\ fp[k] = NoRow
          /\ lock[k] = None
          /\ WriteRow(t, k, Inserted(t), "commit")
          /\ UNCHANGED drawn
       \/ /\ fp[k] # NoRow
          /\ tip[k] = fp[k]
          /\ Goto(t, "reselect")
          /\ drawn' = [drawn EXCEPT ![t] = 0]
          /\ UNCHANGED rowVars
  /\ UNCHANGED <<childVars, genVars, arg, seen, todo, reply, envVars>>

\* Faulty: a lost race is tried again at once instead of being answered.
SelectWinnerRetry(t) ==
  /\ pc[t] = "reselect"
  /\ Goto(t, "arbitrate")
  /\ UNCHANGED <<rowVars, childVars, genVars, arg, seen, drawn, todo, reply, envVars>>

\* The second SELECT after a conflict; its status is not looked at.
SelectWinner(t) ==
  /\ pc[t] = "reselect"
  /\ AnswerReadOnly(t, IF fp[KeyOf(t)] = NoRow THEN "500" ELSE "409")

(* flag() and report_hit() ----------------------------------------------- *)

\* FOR UPDATE
DoNotHold(t, k) == UNCHANGED lock
Hold(t, k) == lock' = [lock EXCEPT ![k] = t]

\* SELECT id, status ... FOR UPDATE
LockRow(t) ==
  /\ pc[t] = "lockrow"
  /\ \E k \in Keys :
       /\ fp[k].id = arg[t].id
       /\ lock[k] = None
       /\ \/ /\ fp[k].status = "deleted"
             /\ AnswerReadOnly(t, "404")
          \/ /\ fp[k].status # "deleted"
             /\ Hold(t, k)
             /\ seen' = [seen EXCEPT ![t].status = fp[k].status]
             /\ Goto(t, IF arg[t].op = "flag" THEN "addflag" ELSE "bumphit")
             /\ UNCHANGED <<fp, tip, childVars, genVars, arg, drawn, todo, reply, envVars>>

LockMissing(t) ==
  /\ pc[t] = "lockrow"
  /\ \A k \in Keys : fp[k].id # arg[t].id
  /\ AnswerReadOnly(t, "404")

\* INSERT INTO fingerprint_flags ... ON CONFLICT DO NOTHING
AddFlag(t) ==
  /\ pc[t] = "addflag"
  /\ LET f == <<arg[t].id, arg[t].caller>> IN
       /\ f \in flags => FlagsFree(t, {f})
       /\ chg' = [chg EXCEPT ![t].flagAdd = {f} \ flags]
  /\ Goto(t, "countflags")
  /\ UNCHANGED <<rowVars, flags, hits, genVars, arg, seen, drawn, todo, reply, envVars>>

\* SELECT COUNT(DISTINCT consumer_id)
CountFlags(t) ==
  /\ pc[t] = "countflags"
  /\ seen' = [seen EXCEPT ![t].count =
                Cardinality(FlagsOf(arg[t].id) \cup chg[t].flagAdd)]
  /\ Goto(t, "applyflag")
  /\ UNCHANGED <<rowVars, childVars, genVars, arg, drawn, todo, reply, envVars>>

ApplyFlag(t) ==
  /\ pc[t] = "applyflag"
  /\ \E k \in Keys :
       /\ fp[k].id = arg[t].id
       /\ Lockable(t, k)
       /\ \/ /\ seen[t].count >= AutoHideThreshold
             /\ seen[t].status = "active"
             /\ NextVal(t)
             /\ WriteRow(t, k, [fp[k] EXCEPT !.status = "hidden", !.seq = seq + 1,
                                             !.flagCount = seen[t].count], "commit")
          \/ /\ ~ (seen[t].count >= AutoHideThreshold /\ seen[t].status = "active")
             /\ NoNextVal
             /\ WriteRow(t, k, [fp[k] EXCEPT !.flagCount = seen[t].count], "commit")
  /\ UNCHANGED <<childVars, lastId, arg, seen, todo, reply, envVars>>

\* INSERT INTO fingerprint_hits, then hit_count = hit_count + 1
BumpHit(t) ==
  /\ pc[t] = "bumphit"
  /\ \E k \in Keys :
       /\ fp[k].id = arg[t].id
       /\ Lockable(t, k)
       /\ NoNextVal
       /\ WriteRow(t, k, [fp[k] EXCEPT !.hitCount = @ + 1], "commit")
       /\ chg' = [chg EXCEPT ![t].hitAdd = {<<arg[t].id, fp[k].hitCount + 1>>}]
  /\ UNCHANGED <<flags, hits, lastId, arg, seen, todo, reply, envVars>>

(* delete_fingerprint() -------------------------------------------------- *)

\* is_owner or is_admin
AnyoneMayDelete(t, k) == TRUE
MayDelete(t, k) == Owner(k) = arg[t].caller \/ arg[t].caller \in Admins

\* get() on its own connection, then the ownership check.
CheckOwner(t) ==
  /\ pc[t] = "check"
  /\ LET found == {k \in Keys : fp[k].id = arg[t].id /\ fp[k].status # "deleted"}
         mine  == {k \in found : MayDelete(t, k)}
     IN
       \/ /\ found = {}
          /\ AnswerReadOnly(t, "404")
       \/ /\ found # {}
          /\ mine = {}
          /\ AnswerReadOnly(t, "403")
       \/ /\ mine # {}
          /\ Goto(t, "softdelete")
          /\ UNCHANGED <<rowVars, childVars, genVars, arg, seen, drawn, todo, reply, envVars>>

\* SET status = 'deleted', sync_seq = nextval(...)
DeletedWithoutNumber(row, n) == [row EXCEPT !.status = "deleted"]
DeletedMisspelt(row, n) == [row EXCEPT !.status = "removed", !.seq = n]
Deleted(row, n) == [row EXCEPT !.status = "deleted", !.seq = n]

\* soft_delete(): UPDATE ... WHERE id = %s AND status <> 'deleted'
SoftDelete(t) ==
  /\ pc[t] = "softdelete"
  /\ \E k \in Keys :
       /\ fp[k].id = arg[t].id
       /\ fp[k].status # "deleted"
       /\ Lockable(t, k)
       /\ NextVal(t)
       /\ WriteRow(t, k, Deleted(fp[k], seq + 1), "commit")
  /\ UNCHANGED <<childVars, lastId, arg, seen, todo, reply, envVars>>

\* The row was deleted or purged meanwhile; soft_delete's result is not used.
SoftDeleteNothing(t) ==
  /\ pc[t] = "softdelete"
  /\ \A k \in Keys : fp[k].id = arg[t].id => fp[k].status = "deleted"
  /\ AnswerReadOnly(t, "204")

-----------------------------------------------------------------------------
(* apply_retention().  Of what existed when the tool took its now_ms, any  *)
(* hits, flag reasons and tombstones may be old enough.                    *)

\* Every change numbered up to n has been committed or given up.
Settled(n) == \A t \in Sessions : drawn[t] # 0 => n < drawn[t]

BeginRetention ==
  \E op \in {"retention", "preview"}, H \in SUBSET hits, n \in 0..seq :
    /\ Settled(n) /\ (n < seq => ~ Settled(n + 1))
    /\ Begin(Purger, [NoArg EXCEPT !.op = op, !.horizon = n], "reasons")
    /\ chg' = [chg EXCEPT ![Purger].hitDel = H]

Tombstones(K) ==
  {<<k, fp[k].seq>> :
     k \in {k \in K : fp[k].status = "deleted" /\ fp[k].seq <= arg[Purger].horizon}}

\* UPDATE fingerprint_flags SET reason = NULL; then DELETE FROM fingerprints
\* fixes the tombstones its scan will visit.
ClearReasons ==
  /\ pc[Purger] = "reasons"
  /\ \E F \in SUBSET flags, T \in SUBSET Tombstones(Keys) :
       /\ FlagsFree(Purger, F)
       /\ chg' = [chg EXCEPT ![Purger].flagUpd = F]
       /\ todo' = T
  /\ Goto(Purger, "purge")
  /\ UNCHANGED <<rowVars, flags, hits, genVars, arg, seen, drawn, reply, envVars>>

\* The row is the version the scan found; a newer one fails the recheck of
\* status = 'deleted' AND updated_at_ms < cutoff.
NoRecheck(v) == TRUE
StillOld(v) == fp[v[1]].seq = v[2]

\* One row of a retention statement: wait for its lock; if it changed since
\* the scan it is no old tombstone any more and is skipped.
VisitTombstone(label, Change(_)) ==
  /\ pc[Purger] = label
  /\ \E v \in todo :
       /\ lock[v[1]] = None
       /\ todo' = todo \ {v}
       /\ \/ /\ StillOld(v)
             /\ WriteRow(Purger, v[1], Change(fp[v[1]]), label)
          \/ /\ ~ StillOld(v)
             /\ UNCHANGED <<rowVars, pc>>
  /\ UNCHANGED <<childVars, genVars, arg, seen, drawn, reply, envVars>>

Erase(row) == NoRow
\* Faulty: the scrub counts as a content change.
ForgetSourceNumbered(row) == [row EXCEPT !.meta = FALSE, !.seq = seq + 1]
ForgetSource(row) == [row EXCEPT !.meta = FALSE]

PurgeRow == VisitTombstone("purge", Erase)

\* ON DELETE CASCADE from the purged rows; then UPDATE fingerprints SET
\* source_guild_id = NULL, ... fixes the tombstones it will visit.
Cascade ==
  /\ pc[Purger] = "purge"
  /\ todo = {}
  /\ LET purged == {fp[k].id : k \in {k \in Keys : lock[k] = Purger}}
         F == {f \in flags : f[1] \in purged}
     IN
       /\ FlagsFree(Purger, F)
       /\ chg' = [chg EXCEPT ![Purger].flagDel = F,
                             ![Purger].hitDel = @ \cup {h \in hits : h[1] \in purged}]
       /\ todo' \in SUBSET Tombstones({k \in Keys : lock[k] # Purger /\ fp[k].meta})
  /\ Goto(Purger, "anonymize")
  /\ UNCHANGED <<rowVars, flags, hits, genVars, arg, seen, drawn, reply, envVars>>

AnonymizeRow == VisitTombstone("anonymize", ForgetSource)

\* transaction(force_rollback=dry_run)
EndRetention ==
  /\ pc[Purger] = "anonymize"
  /\ todo = {}
  /\ \/ /\ arg[Purger].op = "retention"
        /\ CommitTxn(Purger)
        /\ Answer(Purger, "purged")
     \/ /\ arg[Purger].op = "preview"
        /\ RollbackTxn(Purger)
        /\ Answer(Purger, "previewed")
  /\ UNCHANGED <<todo, envVars>>

-----------------------------------------------------------------------------

\* The answers at api/fingerprints.py:231, 320 (204), 263 and 292.
Success(op) == IF op = "contribute" THEN "201" ELSE IF op = "delete" THEN "204" ELSE "200"

Commit(t) ==
  /\ pc[t] = "commit"
  /\ CommitTxn(t)
  /\ Answer(t, Success(arg[t].op))
  /\ UNCHANGED <<todo, envVars>>

\* Faulty: the exception leaves the block without undoing what it did.
BadParameterKeepsWork(t) ==
  /\ arg[t].op \in Refusable
  /\ pc[t] \in {"resurrect", "insert", "addflag", "bumphit"}
  /\ CommitTxn(t)
  /\ Answer(t, "500")
  /\ UNCHANGED <<todo, envVars>>

\* A value of the statement is refused: a distance that is no INTEGER, text with
\* a NUL, or encrypt_text() in report_hit() and flag() without a usable keyring
\* (contribute() encrypts before it begins).  None of these is an
\* OperationalError: conn.transaction() rolls back, error_middleware answers 500.
BadParameter(t) ==
  /\ arg[t].op \in Refusable
  /\ pc[t] \in {"resurrect", "insert", "addflag", "bumphit"}
  /\ RollbackTxn(t)
  /\ Answer(t, "500")
  /\ UNCHANGED <<todo, envVars>>

\* Any OperationalError ends the call; error_middleware answers 503.
Fail(t) ==
  /\ Answer(t, IF t = Purger THEN "failed" ELSE "503")
  /\ todo' = IF t = Purger THEN {} ELSE todo
  /\ UNCHANGED calls

\* The next thing t sends is COMMIT.
Committing(t) ==
  \/ pc[t] = "commit"
  \/ pc[t] = "anonymize" /\ todo = {} /\ arg[t].op = "retention"

\* The connection breaks: the transaction is rolled back, or the COMMIT was
\* carried out and only its answer is lost.
LoseConnection(t) ==
  /\ pc[t] # "idle"
  /\ faults < MaxFaults
  /\ faults' = faults + 1
  /\ \/ RollbackTxn(t)
     \/ Committing(t) /\ CommitTxn(t)
  /\ Fail(t)

\* The sessions whose end the next statement of t waits for.
WaitsFor(t) ==
  {u \in Sessions \ {t} :
     \/ /\ pc[t] = "clearflags"
        /\ FlagLocks(u) \cap FlagsOf(arg[t].id) # {}
     \/ /\ pc[t] \in {"resurrect", "lockrow", "applyflag", "bumphit"}
        /\ \E k \in Keys : fp[k].id = arg[t].id /\ lock[k] = u
     \/ /\ pc[t] = "softdelete"
        /\ \E k \in Keys : /\ fp[k].id = arg[t].id /\ fp[k].status # "deleted"
                           /\ lock[k] = u
     \/ /\ pc[t] = "arbitrate"
        /\ lock[KeyOf(t)] = u /\ tip[KeyOf(t)] # fp[KeyOf(t)]
     \/ /\ pc[t] = "addflag"
        /\ <<arg[t].id, arg[t].caller>> \in FlagLocks(u) \cap flags
     \/ /\ pc[t] \in {"purge", "anonymize"}
        /\ \A v \in todo : lock[v[1]] # None
        /\ \E v \in todo : lock[v[1]] = u
     \/ /\ pc[t] = "purge" /\ todo = {}
        /\ \E k \in Keys : lock[k] = t /\ FlagLocks(u) \cap FlagsOf(fp[k].id) # {}}

\* A set of sessions none of which can move before another one of them does.
Deadlocked(S) == S # {} /\ \A t \in S : WaitsFor(t) \cap S # {}

\* PostgreSQL aborts one transaction of a deadlock.
DeadlockVictim(t) ==
  /\ \E S \in SUBSET Sessions : t \in S /\ Deadlocked(S)
  /\ RollbackTxn(t)
  /\ Fail(t)
  /\ UNCHANGED faults

-----------------------------------------------------------------------------

WorkerStep(t) ==
  \/ SelectExisting(t) \/ ClearFlags(t) \/ Resurrect(t) \/ ResurrectGone(t)
  \/ EvaluateDefaults(t) \/ InsertOrNothing(t) \/ SelectWinner(t)
  \/ LockRow(t) \/ LockMissing(t) \/ AddFlag(t) \/ CountFlags(t) \/ ApplyFlag(t)
  \/ BumpHit(t) \/ CheckOwner(t) \/ SoftDelete(t) \/ SoftDeleteNothing(t)
  \/ Commit(t) \/ BadParameter(t)

PurgerStep == ClearReasons \/ PurgeRow \/ Cascade \/ AnonymizeRow \/ EndRetention

Issue ==
  \/ \E t \in Workers : \/ BeginContribute(t) \/ BeginFlag(t)
                        \/ BeginHit(t) \/ BeginDelete(t)
  \/ BeginRetention

\* The bound on calls is reached and every call has been answered; any other
\* state without a step would be a wait that nothing ends.
Done ==
  /\ calls = MaxCalls
  /\ \A t \in Sessions : pc[t] = "idle"
  /\ UNCHANGED vars

Next ==
  \/ Issue
  \/ \E t \in Workers : WorkerStep(t)
  \/ PurgerStep
  \/ \E t \in Sessions : LoseConnection(t) \/ DeadlockVictim(t)
  \/ Done

Spec == Init /\ [][Next]_vars

\* A worker thread and the retention process keep running; the lock manager
\* wakes the waiters of a transaction that ends, and the deadlock detector
\* runs after deadlock_timeout.
Fairness ==
  /\ \A t \in Workers : WF_vars(WorkerStep(t))
  /\ WF_vars(PurgerStep)
  /\ WF_vars(\E t \in Sessions : DeadlockVictim(t))

FairSpec == Spec /\ Fairness

-----------------------------------------------------------------------------
(* What the write path promises.                                           *)

\* The row at k has the sync_seq n, in its committed or its newest version.
Carries(k, n) == n # 0 /\ n \in {fp[k].seq, tip[k].seq}

\* The cursor is a key: two rows never carry the same sync_seq, committed or
\* pending, so a client that resumes from one never skips a twin (the UNIQUE
\* index of 0001_init would otherwise fail a writer), and no row is ahead of
\* the sequence that produces the next value.
SeqUnique ==
  \A j, k \in Keys : \A n \in {fp[j].seq, tip[j].seq} :
    /\ n <= seq
    /\ j # k => ~ Carries(k, n)

\* What the feed replicates of a row and this write path can change.
Replicated(row) == <<row.status, row.triple>>

\* contribute() by the owner of the row at k, about to commit.
Recontributed(k) == \E t \in Workers : /\ pc[t] = "commit"
                                       /\ arg[t].op = "contribute"
                                       /\ KeyOf(t) = k

\* The docstring of fingerprint_store for one row and one step, both ways: the
\* cursor moves, and only forward, exactly when what clients replicate changes;
\* a hit, a flag that hides nothing and the scrub of the source fields leave it
\* where it is.  One commit moves it without a visible change: a revival by the
\* owner that read a tombstone another contribute has already revived.
CursorStep ==
  \A k \in Keys :
    (fp[k].id # 0 /\ fp'[k].id = fp[k].id) =>
      \/ /\ fp'[k].seq = fp[k].seq
         /\ Replicated(fp'[k]) = Replicated(fp[k])
      \/ /\ fp'[k].seq > fp[k].seq
         /\ \/ Replicated(fp'[k]) # Replicated(fp[k])
            \/ ~ SerialContribute /\ Recontributed(k)
         /\ fp'[k].hitCount = fp[k].hitCount
CursorMoves == [][CursorStep]_vars

\* flag() and contribute(): a row that has as many distinct flaggers as the
\* threshold is not served as active, however flaggers, deletes and
\* resurrections interleave.
AutoHide ==
  \A k \in Keys :
    fp[k].status = "active" => Cardinality(FlagsOf(fp[k].id)) < AutoHideThreshold

\* The denormalised flag_count column agrees with the flag rows, also across
\* resurrections and purges.
FlagCountExact ==
  \A k \in Keys : fp[k].id # 0 => fp[k].flagCount = Cardinality(FlagsOf(fp[k].id))

\* report_hit(): no increment is lost and none is counted twice; every
\* hit_count value up to the current one was produced by exactly one audit
\* row.  Rows whose hits retention may already have removed only bound it.
HitsAudited ==
  \A k \in Keys : fp[k].id # 0 =>
    LET seqnos == {h[2] : h \in HitsOf(fp[k].id)} IN
      /\ seqnos \subseteq 1..fp[k].hitCount
      /\ "retention" \notin Ops => seqnos = 1..fp[k].hitCount

\* A fingerprint is only ever hidden while active, deleted while live and
\* revived while deleted; in particular nothing un-hides it.
StatusStep ==
  \A k \in Keys :
    (fp[k].id # 0 /\ fp'[k].status # fp[k].status) =>
      <<fp[k].status, fp'[k].status>> \in
        {<<"active", "hidden">>, <<"active", "deleted">>, <<"hidden", "deleted">>,
         <<"deleted", "active">>, <<"deleted", "absent">>}
StatusMachine == [][StatusStep]_vars

\* A fingerprint disappears from its peers only because its owner or an admin
\* asked for exactly that fingerprint, although the check and the deletion are
\* two transactions.
DeleteStep ==
  \A k \in Keys :
    (fp'[k].status = "deleted" /\ fp[k].status # "deleted") =>
      \E t \in Workers : /\ arg[t].op = "delete"
                         /\ arg[t].id = fp[k].id
                         /\ \/ arg[t].caller = Owner(k)
                            \/ arg[t].caller \in Admins
DeleteAuthority == [][DeleteStep]_vars

\* An answer that is neither a success nor a 503 means that the call left no
\* trace, however many statements it ran before: a client may take any 4xx and
\* the 500 of a failed statement as "nothing happened".
RefusedStep ==
  \A t \in Workers :
    (pc[t] # "idle" /\ reply'[t] \in {"403", "404", "409", "500"}) =>
      <<fp, flags, hits>>' = <<fp, flags, hits>>
RefusedLeaveNoTrace == [][RefusedStep]_vars

\* Retention touches tombstones only: no row that is live, not even one that
\* was revived while the tool was waiting for it, loses its source fields, its
\* flags or itself; and a preview leaves the database as it was.
RetentionStep ==
  (pc[Purger] # "idle" /\ pc'[Purger] = "idle") =>
    /\ \A k \in Keys : fp[k].status \in {"active", "hidden"} =>
         /\ fp'[k] = fp[k]
         /\ FlagsOf(fp[k].id) \subseteq flags'
    /\ arg[Purger].op = "preview" => <<fp, flags, hits>>' = <<fp, flags, hits>>
RetentionScope == [][RetentionStep]_vars

\* Lock cycles come from one place, contribute()'s DELETE of the flags before
\* it locks the row: flags, hits, deletes and retention alone never deadlock.
\* Only when two contributes of one key raced may a cycle do without it: flags
\* given between the two revivals are left on the row, and retention may hold
\* one of them while it waits for that row, which it had noted as a tombstone.
CyclesNeedResurrect ==
  \A S \in SUBSET Sessions :
    Deadlocked(S) =>
      \/ \E t \in S : pc[t] = "resurrect" /\ chg[t].flagDel # {}
      \/ ~ SerialContribute /\ Purger \in S /\ \E v \in todo : ~ StillOld(v)

\* Every call ends in an answer: no statement waits for ever.
EveryCallEnds == \A t \in Sessions : pc[t] # "idle" ~> pc[t] = "idle"

-----------------------------------------------------------------------------
(* What the repository's comments and documents say, and the code does not *)
(* keep.                                                                   *)

\* fingerprint_store.contribute(): losing a race is "surface[d] as a duplicate
\* rather than a 500".
NoInternalError == \A t \in Workers : reply[t] # "500"
=============================================================================
