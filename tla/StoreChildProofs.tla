-------------------------- MODULE StoreChildProofs --------------------------
(***************************************************************************)
(* Flags, hits and lock cycles of FingerprintStore, for every value of the *)
(* constants.  The child rows that a transaction adds, deletes or updates  *)
(* belong to the fingerprint it works on, so a commit leaves the children  *)
(* of every other fingerprint alone; what flag(), report_hit(),            *)
(* contribute() and the retention tool promise about them follows.         *)
(***************************************************************************)
EXTENDS FingerprintStoreProofs

RowOf(i) == \E k \in Keys : i # 0 /\ fp[k].id = i

\* REFERENCES fingerprints(id) ON DELETE CASCADE
ChildRows == (\A f \in flags : RowOf(f[1])) /\ (\A h \in hits : RowOf(h[1]))

\* The uncommitted changes of a call concern the fingerprint it names.
WorkerChg(t) ==
  /\ chg[t].flagUpd = {} /\ chg[t].hitDel = {}
  /\ chg[t].flagDel # {} => pc[t] \in {"resurrect", "commit"} /\ arg[t].op = "contribute"
  /\ chg[t].flagAdd # {} => /\ pc[t] \in {"countflags", "applyflag", "commit"}
                            /\ arg[t].op = "flag"
  /\ chg[t].hitAdd # {} => pc[t] = "commit" /\ arg[t].op = "hit"
  /\ \A f \in chg[t].flagDel \cup chg[t].flagAdd : f[1] = arg[t].id
  /\ (pc[t] = "commit" /\ arg[t].op = "hit") =>
       \A k \in Keys : lock[k] = t => chg[t].hitAdd = {<<arg[t].id, fp[k].hitCount + 1>>}

\* The rows that the retention statement has deleted so far.
Erased(k) == lock[k] = Purger /\ tip[k] = NoRow

PurgerChg ==
  /\ chg[Purger].flagAdd = {} /\ chg[Purger].hitAdd = {}
  /\ chg[Purger].flagUpd \subseteq flags
  /\ \A f \in chg[Purger].flagDel : \E k \in Keys : Erased(k) /\ fp[k].id = f[1]

\* The cascade has caught every child of an erased row.
CascadeInv ==
  pc[Purger] = "anonymize" =>
    \A k \in Keys : Erased(k) =>
      /\ FlagsOf(fp[k].id) \subseteq chg[Purger].flagDel
      /\ HitsOf(fp[k].id) \subseteq chg[Purger].hitDel

\* Two transactions never write the same flag row.
LocksApart == \A t, u \in Sessions : t # u => FlagLocks(t) \cap FlagLocks(u) = {}

\* Only the operations of the instance are issued.
OpsIssued == \A t \in Sessions : arg[t].op \in Ops \cup {"none"}

ChgInv == (\A t \in Workers : WorkerChg(t)) /\ PurgerChg
ChildInv == ChildRows /\ ChgInv /\ CascadeInv /\ LocksApart /\ OpsIssued

\* A row that is served has fewer flags on record than hide it.
ShownBelow ==
  \A k \in Keys : fp[k].status = "active" => fp[k].flagCount < AutoHideThreshold

\* The count of a flag() that is about to be written is the one its commit makes
\* true, and a contribute() about to write its row has deleted all its flags.
CountInv ==
  \A t \in Workers :
    (pc[t] = "applyflag" \/ (pc[t] = "commit" /\ arg[t].op = "flag")) =>
      seen[t].count = Cardinality(FlagsOf(arg[t].id) \cup chg[t].flagAdd)
ClearInv ==
  \A t \in Workers :
    (pc[t] = "resurrect" \/ (pc[t] = "commit" /\ arg[t].op = "contribute")) =>
      FlagsOf(arg[t].id) = chg[t].flagDel

\* A tombstone the retention statement has noted, and that was revived since,
\* has no flag row that the tool has locked.
RevivedFree ==
  \A v \in todo :
    ~ StillOld(v) => \A f \in FlagLocks(Purger) : f[1] # fp[v[1]].id

FlagInv == SerialContribute => FlagCountExact /\ ClearInv /\ RevivedFree


-----------------------------------------------------------------------------
(* The uncommitted changes.                                                *)

\* Where no change of a worker can be pending.
LEMMA NothingPending ==
  ASSUME NEW t \in Workers, WorkerChg(t),
         pc[t] \notin {"resurrect", "countflags", "applyflag", "commit"}
  PROVE  /\ chg[t].flagAdd = {} /\ chg[t].flagDel = {} /\ chg[t].flagUpd = {}
         /\ chg[t].hitAdd = {} /\ chg[t].hitDel = {}
  BY DEF WorkerChg

LEMMA ChgKept ==
  ASSUME TypeOK, NEW t \in Sessions, StepOf(t), NEW u \in Workers \ {t}, WorkerChg(u)
  PROVE  WorkerChg(u)'
<1>1. u \in Sessions \ {t} /\ u # None
  BY WorkerNotPurger, NoneNoSession
<1>2. pc'[u] = pc[u] /\ arg'[u] = arg[u] /\ chg'[u] = chg[u]
  BY <1>1 DEF StepOf
<1>3. \A k \in Keys : lock'[k] = u => lock[k] = u /\ fp'[k] = fp[k]
  BY <1>1 DEF StepOf
<1> QED BY <1>2, <1>3 DEF WorkerChg

\* A transaction that has ended has nothing pending.
LEMMA EndedChg ==
  ASSUME TypeOK, NEW t \in Sessions, CommitTxn(t) \/ RollbackTxn(t), NEW r, Answer(t, r)
  PROVE  chg'[t] = NoChange /\ pc'[t] = "idle"
  BY TypeParts DEF CommitTxn, RollbackTxn, Answer, ChildTyped, PcTyped

LEMMA NoChangeChg ==
  ASSUME NEW t \in Workers, chg'[t] = NoChange, pc'[t] # "commit" PROVE WorkerChg(t)'
  BY DEF WorkerChg, NoChange

\* A statement of t that leaves the pending changes alone.
LEMMA ChgGoto ==
  ASSUME TypeOK, NEW t \in Workers, WorkerChg(t), chg'[t] = chg[t], arg'[t].op = arg[t].op,
         \/ /\ pc[t] \notin {"resurrect", "countflags", "applyflag", "commit"}
            /\ pc'[t] = "commit" => arg'[t].op # "hit"
         \/ /\ pc[t] = "resurrect" /\ pc'[t] = "commit" /\ arg[t].op = "contribute"
            /\ arg'[t].id = arg[t].id
         \/ /\ pc[t] = "countflags" /\ pc'[t] = "applyflag" /\ arg[t].op = "flag"
            /\ arg'[t].id = arg[t].id
         \/ /\ pc[t] = "applyflag" /\ pc'[t] = "commit" /\ arg[t].op = "flag"
            /\ arg'[t].id = arg[t].id
  PROVE  WorkerChg(t)'
<1>1. CASE pc[t] \notin {"resurrect", "countflags", "applyflag", "commit"}
  BY <1>1, NothingPending DEF WorkerChg
<1>2. CASE pc[t] \in {"resurrect", "countflags", "applyflag"}
  BY <1>2 DEF WorkerChg
<1> QED BY <1>1, <1>2

LEMMA WorkerStepChg ==
  ASSUME StoreInv, NEW t \in Workers, WorkerChg(t), WorkerStep(t) PROVE WorkerChg(t)'
<1> t \in Sessions /\ t # Purger /\ TypeOK /\ ArgsPresent
  BY WorkerNotPurger DEF StoreInv, Shape
<1>0. OpAt(t)
  BY DEF StoreInv, TxnInv, OpsAt
<1>1. ASSUME NEW r, AnswerReadOnly(t, r),
             pc[t] \notin {"resurrect", "countflags", "applyflag", "commit"}
      PROVE  WorkerChg(t)'
  <2>1. chg'[t] = chg[t] /\ pc'[t] = "idle"
    BY <1>1, TypeParts DEF AnswerReadOnly, Answer, PcTyped, childVars
  <2> QED BY <1>1, <2>1, NothingPending DEF WorkerChg
<1>2. CASE ResurrectGone(t) \/ Commit(t) \/ BadParameter(t)
  BY <1>2, EndedChg, NoChangeChg DEF ResurrectGone, Commit, BadParameter
<1>3. CASE SelectExisting(t)
  <2>1. CASE \E r : AnswerReadOnly(t, r)
    BY <1>1, <1>3, <2>1 DEF SelectExisting
  <2>2. CASE ~ \E r : AnswerReadOnly(t, r)
    <3>1. /\ pc[t] = "select" /\ chg' = chg
          /\ arg' = arg \/ \E i : arg' = [arg EXCEPT ![t].id = i]
          /\ Goto(t, "clearflags") \/ Goto(t, "insert")
      BY <1>3, <2>2 DEF SelectExisting, childVars
    <3>2. pc'[t] # "commit" /\ arg'[t].op = arg[t].op
      BY <3>1, TypeParts DEF Goto, PcTyped, ArgTyped, ArgType
    <3> QED BY <3>1, <3>2, ChgGoto
  <2> QED BY <2>1, <2>2
<1>4. CASE EvaluateDefaults(t)
  <2>1. pc'[t] = "arbitrate" /\ arg'[t].op = arg[t].op /\ chg' = chg /\ pc[t] = "insert"
    BY <1>4, TypeParts DEF EvaluateDefaults, Goto, PcTyped, ArgTyped, ArgType, childVars
  <2> QED BY <2>1, ChgGoto
<1>5. CASE ClearFlags(t)
  <2>1. /\ pc[t] = "clearflags" /\ pc'[t] = "resurrect" /\ arg' = arg
        /\ chg'[t] = [chg[t] EXCEPT !.flagDel = FlagsOf(arg[t].id)]
    BY <1>5, TypeParts DEF ClearFlags, Goto, PcTyped, ChildTyped
  <2>2. chg[t] \in ChangeType
    BY TypeParts DEF ChildTyped
  <2>3. arg[t].op = "contribute"
    BY <1>0, <2>1 DEF OpAt, ContributeLabels
  <2> QED BY <2>1, <2>2, <2>3, NothingPending DEF WorkerChg, ChangeType, FlagsOf
<1>6. CASE AddFlag(t)
  <2>1. /\ pc[t] = "addflag" /\ pc'[t] = "countflags" /\ arg' = arg
        /\ chg'[t] = [chg[t] EXCEPT !.flagAdd = {<<arg[t].id, arg[t].caller>>} \ flags]
    BY <1>6, TypeParts DEF AddFlag, Goto, PcTyped, ChildTyped
  <2>2. chg[t] \in ChangeType
    BY TypeParts DEF ChildTyped
  <2>3. arg[t].op = "flag"
    BY <1>0, <2>1 DEF OpAt
  <2> QED BY <2>1, <2>2, <2>3, NothingPending DEF WorkerChg, ChangeType
<1>7. CASE BumpHit(t)
  <2>1. PICK k \in Keys :
          /\ fp[k].id = arg[t].id /\ Lockable(t, k)
          /\ WriteRow(t, k, [fp[k] EXCEPT !.hitCount = @ + 1], "commit")
          /\ chg' = [chg EXCEPT ![t].hitAdd = {<<arg[t].id, fp[k].hitCount + 1>>}]
    BY <1>7 DEF BumpHit
  <2>2. /\ pc[t] = "bumphit" /\ pc'[t] = "commit" /\ arg' = arg /\ fp' = fp
        /\ chg'[t] = [chg[t] EXCEPT !.hitAdd = {<<arg[t].id, fp[k].hitCount + 1>>}]
    BY <1>7, <2>1, TypeParts DEF BumpHit, WriteRow, Goto, PcTyped, ChildTyped
  <2>3. chg[t] \in ChangeType /\ arg[t].op = "hit"
    BY <1>0, <2>2, TypeParts DEF ChildTyped, OpAt
  <2>4. \A j \in Keys : lock'[j] = t => j = k
    <3>1. \A j \in Keys : lock[j] = t => j = k
      BY <2>1, <2>2, LockedRow DEF StoreInv, HoldLabels
    <3> QED BY <2>1, <3>1, TypeParts DEF WriteRow, RowsTyped
  <2> QED BY <2>2, <2>3, <2>4, NothingPending DEF WorkerChg, ChangeType
<1>8. CASE Resurrect(t)
  <2>1. pc[t] = "resurrect" /\ pc'[t] = "commit" /\ arg' = arg /\ chg' = chg
    BY <1>8, TypeParts DEF Resurrect, WriteRow, Goto, PcTyped, childVars
  <2> QED BY <1>0, <2>1, ChgGoto DEF OpAt, ContributeLabels
<1>9. CASE InsertOrNothing(t)
  <2>1. pc[t] = "arbitrate" /\ arg' = arg /\ chg' = chg /\ arg[t].op # "hit"
    BY <1>0, <1>9 DEF InsertOrNothing, childVars, OpAt, ContributeLabels
  <2> QED BY <2>1, ChgGoto
<1>10. CASE LockRow(t)
  <2>1. CASE \E r : AnswerReadOnly(t, r)
    BY <1>1, <1>10, <2>1 DEF LockRow
  <2>2. CASE ~ \E r : AnswerReadOnly(t, r)
    <3>1. pc[t] = "lockrow" /\ chg' = chg /\ arg' = arg /\ pc'[t] # "commit"
      BY <1>10, <2>2, TypeParts DEF LockRow, childVars, Goto, PcTyped
    <3> QED BY <3>1, ChgGoto
  <2> QED BY <2>1, <2>2
<1>11. CASE CountFlags(t) \/ ApplyFlag(t)
  <2>1. /\ arg' = arg /\ chg' = chg
        /\ \/ pc[t] = "countflags" /\ pc'[t] = "applyflag"
           \/ pc[t] = "applyflag" /\ pc'[t] = "commit"
    BY <1>11, TypeParts DEF CountFlags, ApplyFlag, WriteRow, Goto, PcTyped, childVars
  <2> QED BY <1>0, <2>1, ChgGoto DEF OpAt
<1>12. CASE CheckOwner(t)
  <2>1. CASE \E r : AnswerReadOnly(t, r)
    BY <1>1, <1>12, <2>1 DEF CheckOwner
  <2>2. CASE ~ \E r : AnswerReadOnly(t, r)
    <3>1. pc[t] = "check" /\ chg' = chg /\ arg' = arg /\ pc'[t] # "commit"
      BY <1>12, <2>2, TypeParts DEF CheckOwner, childVars, Goto, PcTyped
    <3> QED BY <3>1, ChgGoto
  <2> QED BY <2>1, <2>2
<1>13. CASE SoftDelete(t)
  <2>1. pc[t] = "softdelete" /\ arg' = arg /\ chg' = chg
    BY <1>13 DEF SoftDelete, childVars
  <2> QED BY <1>0, <2>1, ChgGoto DEF OpAt
<1>14. CASE SelectWinner(t) \/ LockMissing(t) \/ SoftDeleteNothing(t)
  BY <1>1, <1>14 DEF SelectWinner, LockMissing, SoftDeleteNothing
<1> QED BY <1>2, <1>3, <1>4, <1>5, <1>6, <1>7, <1>8, <1>9, <1>10, <1>11, <1>12, <1>13, <1>14
        DEF WorkerStep

LEMMA IssueChg ==
  ASSUME TypeOK, NEW t \in Workers, WorkerChg(t),
         BeginContribute(t) \/ BeginFlag(t) \/ BeginHit(t) \/ BeginDelete(t)
  PROVE  WorkerChg(t)' /\ StepOf(t) /\ chg' = chg
<1> t \in Sessions
  BY WorkerNotPurger
<1>1. PICK a, l : Begin(t, a, l) /\ l # "commit" /\ chg' = chg
  BY DEF BeginContribute, BeginFlag, BeginHit, BeginDelete, BeginOnId
<1>2. pc[t] = "idle" /\ pc'[t] = l
  BY <1>1, TypeParts DEF Begin, Goto, PcTyped
<1>3. StepOf(t)
  BY <1>1, BeginStepOf
<1> QED BY <1>1, <1>2, <1>3, NothingPending DEF WorkerChg


-----------------------------------------------------------------------------
(* What a commit does to the child rows.                                   *)

\* A call that is about to commit has written one row, the one it names.
LEMMA WrittenRow ==
  ASSUME StoreInv, NEW t \in Workers, pc[t] = "commit"
  PROVE  /\ arg[t].id # 0
         /\ \E k \in Keys :
              /\ lock[k] = t /\ Written(t, k)
              /\ tip[k].id = arg[t].id /\ fp[k].id \in {0, arg[t].id}
              /\ \A j \in Keys : lock[j] = t => j = k
<1>0. t \in Sessions /\ t # Purger
  BY WorkerNotPurger
<1>1. PICK k \in Keys : lock[k] = t
  BY <1>0 DEF StoreInv, TxnInv, LockInv, Holds
<1>2. arg[t].id # 0 /\ Written(t, k)
  BY <1>0, <1>1 DEF StoreInv, TxnInv, LockInv, Holding, LockedOnly, Committable, Retired, HoldLabels
<1>3. fp[k] \in Row
  BY TypeParts DEF StoreInv, Shape, RowsTyped
<1>4. tip[k].id = arg[t].id /\ fp[k].id \in {0, arg[t].id}
  BY <1>2, <1>3, ContributedColumns, FlaggedColumns, HitColumns, DeletedColumns DEF Written
<1> QED BY <1>1, <1>2, <1>4, OneRow

LEMMA UncommittedRow ==
  ASSUME StoreInv, NEW t \in Workers, pc[t] = "resurrect", NEW k \in Keys PROVE lock[k] # t
  BY WorkerNotPurger
     DEF StoreInv, TxnInv, LockInv, Holding, LockedOnly, Committable, Retired, HoldLabels

\* The commit of a contribute() whose row was purged meanwhile changes nothing:
\* the flags it deleted went with the row.
LEMMA GoneSame ==
  ASSUME StoreInv, ChildInv, NEW t \in Workers, CommitTxn(t), pc[t] = "resurrect",
         fp[KeyOf(t)].id # arg[t].id
  PROVE  fp' = fp /\ flags' = flags /\ hits' = hits
<1>0. t \in Sessions /\ t # Purger
  BY WorkerNotPurger
<1>1. fp' = fp
  BY UncommittedRow, TypeParts DEF CommitTxn, StoreInv, Shape, RowsTyped
<1>2. WorkerChg(t) /\ ChildRows
  BY DEF ChildInv, ChgInv
<1>3. \A f \in flags : f[1] # arg[t].id
  BY <1>0, <1>2 DEF ChildRows, RowOf, StoreInv, TxnInv, IdInv, IdOfCall, CarriesId
<1>4. flags' = flags
  BY <1>2, <1>3 DEF CommitTxn, WorkerChg
<1>5. hits' = hits
  BY <1>2 DEF CommitTxn, WorkerChg
<1> QED BY <1>1, <1>4, <1>5

\* A commit leaves alone the children of rows its transaction has not locked.
LEMMA CommitTouches ==
  ASSUME StoreInv, ChildInv, NEW t \in Sessions, CommitTxn(t), CommitPoint(t), NEW i,
         \A k \in Keys : lock[k] = t => ~ CarriesId(k, i)
  PROVE  FlagsOf(i)' = FlagsOf(i) /\ (t \in Workers => HitsOf(i)' = HitsOf(i))
<1>1. CASE t \in Workers /\ pc[t] = "commit"
  <2>1. WorkerChg(t)
    BY <1>1 DEF ChildInv, ChgInv
  <2>2. i # arg[t].id
    BY <1>1, WrittenRow DEF CarriesId
  <2>3. \A h \in chg[t].hitAdd : h[1] = arg[t].id
    BY <1>1, <2>1, WrittenRow DEF WorkerChg
  <2>4. FlagsOf(i)' = FlagsOf(i)
    BY <2>1, <2>2 DEF CommitTxn, WorkerChg, FlagsOf
  <2>5. HitsOf(i)' = HitsOf(i)
    BY <2>1, <2>2, <2>3 DEF CommitTxn, WorkerChg, HitsOf
  <2> QED BY <2>4, <2>5
<1>2. CASE t \in Workers /\ pc[t] # "commit"
  BY <1>2, GoneSame, WorkerNotPurger DEF CommitPoint, FlagsOf, HitsOf
<1>3. CASE t = Purger
  <2>1. \A f \in chg[t].flagDel : f[1] # i
    <3> TAKE f \in chg[t].flagDel
    <3>1. PICK k \in Keys : lock[k] = t /\ fp[k].id = f[1]
      BY <1>3 DEF ChildInv, ChgInv, PurgerChg, Erased
    <3>2. fp[k].id # 0
      BY <1>3, <3>1, WorkerNotPurger
         DEF StoreInv, TxnInv, LockInv, Holding, LockedOnly, Committable, Retired, RowsShaped,
             RowShape, NoRow
    <3> QED BY <3>1, <3>2 DEF CarriesId
  <2>2. chg[t].flagAdd = {}
    BY <1>3 DEF ChildInv, ChgInv, PurgerChg
  <2> QED BY <1>3, <2>1, <2>2, WorkerNotPurger DEF CommitTxn, FlagsOf
<1> QED BY <1>1, <1>2, <1>3 DEF Sessions

\* What a worker commits keeps its id.
LEMMA IdsStay ==
  ASSUME StoreInv, NEW t \in Workers, CommitTxn(t), NEW k \in Keys, fp[k].id # 0
  PROVE  fp'[k].id = fp[k].id
<1>1. CASE fp'[k] = fp[k]
  BY <1>1
<1>2. CASE fp'[k] # fp[k]
  <2>1. /\ fp'[k] = tip[k] /\ Written(t, k) /\ arg[t].id # 0 /\ t \in Sessions
    BY <1>2, CommitPublishes, WorkerNotPurger DEF StoreInv, Committable, Retired
  <2>2. fp[k] \in Row
    BY TypeParts DEF StoreInv, Shape, RowsTyped
  <2> QED BY <2>1, <2>2, ContributedColumns, FlaggedColumns, HitColumns, DeletedColumns
          DEF Written
<1> QED BY <1>1, <1>2

\* What the retention tool commits: erased rows without their children, and
\* rows that keep every column that counts.
LEMMA PurgeCommit ==
  ASSUME StoreInv, ChildInv, CommitTxn(Purger), CommitPoint(Purger)
  PROVE  /\ flags' \subseteq flags /\ hits' \subseteq hits
         /\ \A k \in Keys :
              IF Erased(k)
              THEN /\ fp'[k] = NoRow /\ fp[k].status = "deleted"
                   /\ \A f \in flags' : f[1] # fp[k].id
                   /\ \A h \in hits' : h[1] # fp[k].id
              ELSE /\ fp'[k].id = fp[k].id /\ fp'[k].status = fp[k].status
                   /\ fp'[k].seq = fp[k].seq /\ fp'[k].flagCount = fp[k].flagCount
                   /\ fp'[k].hitCount = fp[k].hitCount
                   /\ fp[k].status # "deleted" => fp'[k] = fp[k]
<1>0. Purger \in Sessions /\ Purger \notin Workers
  BY PurgerSession, WorkerNotPurger
<1>1. pc[Purger] = "anonymize" /\ chg[Purger].flagAdd = {} /\ chg[Purger].hitAdd = {}
  BY <1>0 DEF CommitPoint, StoreInv, TxnInv, OpsAt, OpAt, ChildInv, ChgInv, PurgerChg
<1>2. ASSUME NEW k \in Keys, Erased(k)
      PROVE  /\ fp'[k] = NoRow /\ fp[k].status = "deleted"
             /\ \A f \in flags' : f[1] # fp[k].id
             /\ \A h \in hits' : h[1] # fp[k].id
  <2>1. FlagsOf(fp[k].id) \subseteq chg[Purger].flagDel /\ HitsOf(fp[k].id) \subseteq chg[Purger].hitDel
    BY <1>1, <1>2 DEF ChildInv, CascadeInv
  <2>2. fp'[k] = NoRow
    BY <1>2 DEF CommitTxn, Erased
  <2>3. fp[k].status = "deleted"
    BY <1>0, <1>2 DEF Erased, StoreInv, TxnInv, LockInv, Holding, LockedOnly, Committable, Retired
  <2> QED BY <1>1, <2>1, <2>2, <2>3 DEF CommitTxn, FlagsOf, HitsOf
<1>3. ASSUME NEW k \in Keys, ~ Erased(k)
      PROVE  /\ fp'[k].id = fp[k].id /\ fp'[k].status = fp[k].status
             /\ fp'[k].seq = fp[k].seq /\ fp'[k].flagCount = fp[k].flagCount
             /\ fp'[k].hitCount = fp[k].hitCount
             /\ fp[k].status # "deleted" => fp'[k] = fp[k]
  <2>1. CASE lock[k] = Purger
    <3>1. Retired(Purger, k) /\ fp'[k] = tip[k] /\ fp[k] \in Row /\ tip[k] # NoRow
      BY <1>0, <1>3, <2>1, TypeParts
         DEF Erased, StoreInv, Shape, RowsTyped, TxnInv, LockInv, Holding, LockedOnly,
             Committable, CommitTxn
    <3> QED BY <3>1, RetiredColumns
  <2>2. CASE lock[k] # Purger
    BY <2>2 DEF CommitTxn
  <2> QED BY <2>1, <2>2
<1> QED BY <1>1, <1>2, <1>3 DEF CommitTxn

LEMMA StepChildRows ==
  ASSUME StoreInv, ChildInv, [Next]_vars PROVE ChildRows'
<1>1. CASE UNCHANGED <<fp, flags, hits>>
  BY <1>1 DEF ChildInv, ChildRows, RowOf
<1>2. CASE ~ UNCHANGED <<fp, flags, hits>>
  <2>1. PICK t \in Sessions : CommitTxn(t) /\ CommitPoint(t)
    BY <1>2, CommittedChange
  <2>2. CASE t \in Workers
    <3>1. \A i : RowOf(i) => RowOf(i)'
      BY <2>1, <2>2, IdsStay DEF RowOf
    <3>2. WorkerChg(t)
      BY <2>2 DEF ChildInv, ChgInv
    <3> PICK i : i = arg[t].id
      OBVIOUS
    <3>3. pc[t] = "commit" => RowOf(i)'
      BY <2>1, <2>2, WrittenRow DEF RowOf, CommitTxn
    <3>4. \A x \in chg[t].flagAdd \cup chg[t].hitAdd : pc[t] = "commit" /\ x[1] = i
      BY <2>1, <2>2, <3>2, WrittenRow, WorkerNotPurger DEF WorkerChg, CommitPoint
    <3> QED BY <2>1, <3>1, <3>3, <3>4 DEF ChildInv, ChildRows, CommitTxn
  <2>3. CASE t = Purger
    BY <2>1, <2>3, PurgeCommit DEF ChildInv, ChildRows, RowOf
  <2> QED BY <2>2, <2>3 DEF Sessions
<1> QED BY <1>1, <1>2


-----------------------------------------------------------------------------
(* A step is a turn of one session.                                        *)

Turn(t) ==
  \/ /\ t \in Workers
     /\ BeginContribute(t) \/ BeginFlag(t) \/ BeginHit(t) \/ BeginDelete(t) \/ WorkerStep(t)
  \/ t = Purger /\ (BeginRetention \/ PurgerStep)
  \/ LoseConnection(t) \/ DeadlockVictim(t)

LEMMA SomeTurn ==
  ASSUME [Next]_vars PROVE UNCHANGED vars \/ \E t \in Sessions : Turn(t)
  BY PurgerSession, WorkerNotPurger DEF Next, Issue, Done, Turn

LEMMA TurnStep ==
  ASSUME StoreInv, NEW t \in Sessions, Turn(t)
  PROVE  /\ StepOf(t)
         /\ \/ UNCHANGED <<fp, flags, hits>>
            \/ CommitTxn(t) /\ CommitPoint(t) /\ pc'[t] = "idle"
         /\ t # Purger => todo' = todo
<1> TypeOK /\ ArgsPresent /\ TxnInv
  BY DEF StoreInv, Shape
<1>0. ASSUME NEW r, Answer(t, r) PROVE pc'[t] = "idle"
  BY <1>0, TypeParts DEF Answer, PcTyped
<1>1. CASE t \in Workers /\ (BeginContribute(t) \/ BeginFlag(t) \/ BeginHit(t) \/ BeginDelete(t))
  <2>1. PICK a, l : Begin(t, a, l) /\ chg' = chg
    BY <1>1 DEF BeginContribute, BeginFlag, BeginHit, BeginDelete, BeginOnId
  <2> QED BY <2>1, BeginStepOf DEF Begin, rowVars
<1>2. CASE t \in Workers /\ WorkerStep(t)
  <2>1. todo' = todo
    BY <1>2 DEF WorkerStep, SelectExisting, ClearFlags, Resurrect, ResurrectGone,
                EvaluateDefaults, InsertOrNothing, SelectWinner, LockRow, LockMissing, AddFlag,
                CountFlags, ApplyFlag, BumpHit, CheckOwner, SoftDelete, SoftDeleteNothing,
                Commit, BadParameter, AnswerReadOnly
  <2> QED BY <1>0, <1>2, <2>1, WorkerStepOf, WorkerCommits
<1>3. CASE t = Purger /\ BeginRetention
  <2>1. PICK a, l : Begin(t, a, l)
    BY <1>3 DEF BeginRetention
  <2>2. \A u \in Sessions \ {t} : chg'[u] = chg[u]
    BY <1>3, TypeParts DEF BeginRetention, ChildTyped
  <2> QED BY <1>3, <2>1, <2>2, BeginStepOf DEF Begin, rowVars
<1>4. CASE t = Purger /\ PurgerStep
  BY <1>0, <1>4, PurgerStepOf, PurgerCommits
<1>5. CASE LoseConnection(t) \/ DeadlockVictim(t)
  <2>1. t # Purger => todo' = todo
    BY <1>5 DEF LoseConnection, DeadlockVictim, Fail
  <2> QED BY <1>0, <1>5, <2>1, FaultStepOf, FaultCommits
<1> QED BY <1>1, <1>2, <1>3, <1>4, <1>5 DEF Turn

LEMMA TurnChg ==
  ASSUME StoreInv, ChgInv, NEW t \in Sessions, Turn(t), NEW u \in Workers PROVE WorkerChg(u)'
<1> TypeOK /\ WorkerChg(u)
  BY DEF StoreInv, Shape, ChgInv
<1>1. CASE u # t
  BY <1>1, TurnStep, ChgKept
<1>2. CASE u = t
  <2>1. CASE LoseConnection(t) \/ DeadlockVictim(t)
    BY <1>2, <2>1, EndedChg, NoChangeChg DEF LoseConnection, DeadlockVictim, Fail
  <2>2. CASE ~ (LoseConnection(t) \/ DeadlockVictim(t))
    BY <1>2, <2>2, IssueChg, WorkerStepChg, WorkerNotPurger DEF Turn
  <2> QED BY <2>1, <2>2
<1> QED BY <1>1, <1>2

(* What the turn of a worker leaves of the retention tool's transaction.   *)

LEMMA ErasedKept ==
  ASSUME NEW t \in Workers, StepOf(t), NEW k \in Keys
  PROVE  /\ Erased(k)' <=> Erased(k)
         /\ Erased(k) => fp'[k] = fp[k]
  BY WorkerNotPurger, NoneNoSession, PurgerSession DEF StepOf, Erased

LEMMA WorkerTurnPurger ==
  ASSUME StoreInv, ChildInv, NEW t \in Workers, Turn(t)
  PROVE  PurgerChg' /\ CascadeInv'
<1>0. t \in Sessions /\ t # Purger /\ Purger \in Sessions
  BY WorkerNotPurger, PurgerSession
<1>1. /\ StepOf(t) /\ chg'[Purger] = chg[Purger] /\ pc'[Purger] = pc[Purger]
      /\ UNCHANGED <<fp, flags, hits>> \/ (CommitTxn(t) /\ CommitPoint(t))
  BY <1>0, TurnStep DEF StepOf
<1>2. chg[Purger].flagUpd \subseteq flags'
  <2>1. chg[Purger].flagUpd \cap chg[t].flagDel = {}
    BY <1>0 DEF ChildInv, LocksApart, FlagLocks
  <2> QED BY <1>1, <2>1 DEF ChildInv, ChgInv, PurgerChg, CommitTxn
<1>3. PurgerChg'
  BY <1>1, <1>2, ErasedKept DEF ChildInv, ChgInv, PurgerChg
<1>4. ASSUME NEW k \in Keys, Erased(k)
      PROVE  \A i : i = fp[k].id => FlagsOf(i)' = FlagsOf(i) /\ HitsOf(i)' = HitsOf(i)
  <2> TAKE i
  <2> HAVE i = fp[k].id
  <2>1. \A j \in Keys : lock[j] = t => ~ CarriesId(j, i)
    BY <1>0, <1>4 DEF Erased, StoreInv, TxnInv, IdInv, IdsOfRows
  <2> QED BY <1>0, <1>1, <2>1, CommitTouches DEF FlagsOf, HitsOf
<1>5. CascadeInv'
  <2> SUFFICES ASSUME pc'[Purger] = "anonymize", NEW k \in Keys, Erased(k)'
               PROVE  /\ (FlagsOf(fp[k].id) \subseteq chg[Purger].flagDel)'
                      /\ (HitsOf(fp[k].id) \subseteq chg[Purger].hitDel)'
    BY DEF CascadeInv
  <2>1. Erased(k) /\ fp'[k] = fp[k]
    BY <1>1, ErasedKept
  <2> PICK i : i = fp[k].id
    OBVIOUS
  <2>2. FlagsOf(i)' = FlagsOf(i) /\ HitsOf(i)' = HitsOf(i)
    BY <1>4, <2>1
  <2>3. FlagsOf(fp[k].id)' = FlagsOf(i)' /\ HitsOf(fp[k].id)' = HitsOf(i)'
    BY <2>1 DEF FlagsOf, HitsOf
  <2>4. FlagsOf(i) \subseteq chg[Purger].flagDel /\ HitsOf(i) \subseteq chg[Purger].hitDel
    BY <1>1, <2>1 DEF ChildInv, CascadeInv
  <2> QED BY <1>1, <2>2, <2>3, <2>4
<1> QED BY <1>3, <1>5

(* The retention tool's own turns.                                         *)

LEMMA PurgerTurnPurger ==
  ASSUME StoreInv, ChildInv, Turn(Purger) PROVE PurgerChg' /\ CascadeInv'
<1> TypeOK /\ TxnInv /\ Purger \in Sessions /\ Purger \notin Workers /\ PurgerChg
  BY PurgerSession, WorkerNotPurger DEF StoreInv, Shape, ChildInv, ChgInv
<1>0. chg[Purger] \in ChangeType
  BY TypeParts DEF ChildTyped
<1>1. CASE LoseConnection(Purger) \/ DeadlockVictim(Purger) \/ EndRetention
  <2>1. chg'[Purger] = NoChange /\ pc'[Purger] = "idle"
    BY <1>1, EndedChg DEF LoseConnection, DeadlockVictim, EndRetention, Fail
  <2> QED BY <2>1 DEF PurgerChg, CascadeInv, NoChange
<1>2. CASE BeginRetention
  <2>1. /\ UNCHANGED <<fp, tip, lock, flags>> /\ pc'[Purger] = "reasons"
        /\ \E H : chg'[Purger] = [chg[Purger] EXCEPT !.hitDel = H]
    BY <1>2, TypeParts DEF BeginRetention, Begin, Goto, PcTyped, ChildTyped, rowVars
  <2>2. /\ chg'[Purger].flagAdd = chg[Purger].flagAdd /\ chg'[Purger].hitAdd = chg[Purger].hitAdd
        /\ chg'[Purger].flagUpd = chg[Purger].flagUpd
        /\ chg'[Purger].flagDel = chg[Purger].flagDel
    BY <1>0, <2>1 DEF ChangeType
  <2> QED BY <2>1, <2>2 DEF PurgerChg, CascadeInv, Erased
<1>3. CASE ClearReasons
  <2>1. PICK F \in SUBSET flags : chg' = [chg EXCEPT ![Purger].flagUpd = F]
    BY <1>3 DEF ClearReasons
  <2>2. /\ UNCHANGED <<fp, tip, lock, flags>> /\ pc'[Purger] = "purge"
        /\ chg'[Purger] = [chg[Purger] EXCEPT !.flagUpd = F]
    BY <1>3, <2>1, TypeParts DEF ClearReasons, Goto, PcTyped, ChildTyped, rowVars
  <2>3. /\ chg'[Purger].flagAdd = chg[Purger].flagAdd /\ chg'[Purger].hitAdd = chg[Purger].hitAdd
        /\ chg'[Purger].flagUpd = F /\ chg'[Purger].flagDel = chg[Purger].flagDel
    BY <1>0, <2>2 DEF ChangeType
  <2> QED BY <2>2, <2>3 DEF PurgerChg, CascadeInv, Erased
<1>4. CASE Cascade
  <2> DEFINE purged == {fp[k].id : k \in {k \in Keys : lock[k] = Purger}}
             F == {f \in flags : f[1] \in purged}
             H == {h \in hits : h[1] \in purged}
  <2>1. /\ UNCHANGED <<fp, tip, lock, flags, hits>> /\ pc[Purger] = "purge"
        /\ chg'[Purger] = [chg[Purger] EXCEPT !.flagDel = F, !.hitDel = @ \cup H]
    BY <1>4, TypeParts DEF Cascade, ChildTyped, rowVars
  <2>2. /\ chg'[Purger].flagAdd = chg[Purger].flagAdd /\ chg'[Purger].hitAdd = chg[Purger].hitAdd
        /\ chg'[Purger].flagUpd = chg[Purger].flagUpd
        /\ chg'[Purger].flagDel = F /\ H \subseteq chg'[Purger].hitDel
    BY <1>0, <2>1 DEF ChangeType
  <2>3. \A k \in Keys : lock[k] = Purger => Erased(k)
    BY <2>1 DEF Erased, TxnInv, LockInv, Holding, LockedOnly, Committable, Retired
  <2>4. PurgerChg'
    BY <2>1, <2>2, <2>3 DEF PurgerChg, Erased
  <2>5. CascadeInv'
    BY <2>1, <2>2 DEF CascadeInv, Erased, FlagsOf, HitsOf
  <2> QED BY <2>4, <2>5
<1>5. CASE PurgeRow \/ AnonymizeRow
  <2>1. PICK l \in {"purge", "anonymize"}, v \in todo :
          /\ pc[Purger] = l /\ lock[v[1]] = None
          /\ \/ UNCHANGED <<rowVars, pc>>
             \/ \E r : /\ StillOld(v) /\ WriteRow(Purger, v[1], r, l)
                       /\ l = "anonymize" => r = ForgetSource(fp[v[1]])
    BY <1>5 DEF PurgeRow, AnonymizeRow, VisitTombstone
  <2>2. UNCHANGED <<fp, flags, hits, chg>> /\ v[1] \in Keys /\ pc'[Purger] = pc[Purger]
    BY <1>5, <2>1, TypeParts
       DEF PurgeRow, AnonymizeRow, VisitTombstone, WriteRow, Goto, childVars, rowVars, TodoTyped,
           PcTyped
  <2>3. \A k \in Keys : Erased(k) => Erased(k)'
    BY <2>1, <2>2, TypeParts, NoneNoSession DEF Erased, WriteRow, rowVars, RowsTyped
  <2>4. PurgerChg'
    BY <2>2, <2>3 DEF PurgerChg
  <2>5. ASSUME pc[Purger] = "anonymize", NEW k \in Keys, Erased(k)' PROVE Erased(k)
    <3>1. CASE UNCHANGED rowVars
      BY <2>5, <3>1 DEF rowVars, Erased
    <3>2. CASE StillOld(v) /\ WriteRow(Purger, v[1], ForgetSource(fp[v[1]]), "anonymize")
      <4>1. fp[v[1]].status = "deleted" /\ fp[v[1]] \in Row
        BY <2>2, <3>2, TypeParts
           DEF RowsTyped, StillOld, TxnInv, TodoInv, NumberOfTombstone
      <4>2. ForgetSource(fp[v[1]]) # NoRow
        BY <4>1 DEF ForgetSource, NoRow, Row
      <4>3. k # v[1]
        BY <2>2, <2>5, <3>2, <4>2, TypeParts DEF Erased, WriteRow, RowsTyped
      <4> QED BY <2>2, <2>5, <3>2, <4>3, TypeParts DEF Erased, WriteRow, RowsTyped
    <3> QED BY <2>1, <2>5, <3>1, <3>2
  <2>6. CascadeInv'
    BY <2>2, <2>5 DEF ChildInv, CascadeInv, FlagsOf, HitsOf
  <2> QED BY <2>4, <2>6
<1> QED BY <1>1, <1>2, <1>3, <1>4, <1>5 DEF Turn, PurgerStep


\* A flag row that a statement locks is one that no other transaction has locked.
LEMMA TurnLocks ==
  ASSUME StoreInv, NEW t \in Sessions, Turn(t), NEW f \in FlagLocks(t)'
  PROVE  f \in FlagLocks(t) \/ \A u \in Sessions \ {t} : f \notin FlagLocks(u)
<1> TypeOK
  BY DEF StoreInv, Shape
<1>0. chg[t] \in ChangeType
  BY TypeParts DEF ChildTyped
<1>1. CASE chg'[t].flagDel = chg[t].flagDel /\ chg'[t].flagUpd = chg[t].flagUpd
  BY <1>1 DEF FlagLocks
<1>2. CASE chg'[t] = NoChange
  BY <1>2 DEF FlagLocks, NoChange
<1>3. CASE ClearFlags(t)
  <2>1. chg'[t].flagDel = FlagsOf(arg[t].id) /\ chg'[t].flagUpd = chg[t].flagUpd
    BY <1>0, <1>3, TypeParts DEF ClearFlags, ChildTyped, ChangeType
  <2> QED BY <1>3, <2>1 DEF ClearFlags, FlagsFree, FlagLocks
<1>4. CASE AddFlag(t) \/ BumpHit(t)
  <2>1. \/ \E F : chg'[t] = [chg[t] EXCEPT !.flagAdd = F]
        \/ \E H : chg'[t] = [chg[t] EXCEPT !.hitAdd = H]
    BY <1>4, TypeParts DEF AddFlag, BumpHit, ChildTyped
  <2>2. chg'[t].flagDel = chg[t].flagDel /\ chg'[t].flagUpd = chg[t].flagUpd
    BY <1>0, <2>1 DEF ChangeType
  <2> QED BY <1>1, <2>2
<1>5. CASE t = Purger /\ ClearReasons
  <2>1. PICK F \in SUBSET flags : FlagsFree(t, F) /\ chg' = [chg EXCEPT ![t].flagUpd = F]
    BY <1>5 DEF ClearReasons
  <2>2. chg'[t].flagDel = chg[t].flagDel /\ chg'[t].flagUpd = F
    BY <1>0, <2>1, TypeParts DEF ChildTyped, ChangeType
  <2> QED BY <2>1, <2>2 DEF FlagsFree, FlagLocks
<1>6. CASE t = Purger /\ Cascade
  <2>1. PICK F, H : /\ FlagsFree(t, F)
                    /\ chg' = [chg EXCEPT ![t].flagDel = F, ![t].hitDel = H]
    BY <1>6 DEF Cascade
  <2>2. chg'[t] = [chg[t] EXCEPT !.flagDel = F, !.hitDel = H]
    BY <2>1, TypeParts DEF ChildTyped
  <2>3. chg'[t].flagDel = F /\ chg'[t].flagUpd = chg[t].flagUpd
    BY <1>0, <2>2 DEF ChangeType
  <2> QED BY <2>1, <2>3 DEF FlagsFree, FlagLocks
<1>7. CASE t = Purger /\ BeginRetention
  <2>1. PICK H : chg'[t] = [chg[t] EXCEPT !.hitDel = H]
    BY <1>7, TypeParts DEF BeginRetention, ChildTyped
  <2>2. chg'[t].flagDel = chg[t].flagDel /\ chg'[t].flagUpd = chg[t].flagUpd
    BY <1>0, <2>1 DEF ChangeType
  <2> QED BY <1>1, <2>2
<1>8. CASE LoseConnection(t) \/ DeadlockVictim(t)
  BY <1>2, <1>8, EndedChg DEF LoseConnection, DeadlockVictim, Fail
<1>9. CASE t = Purger /\ PurgerStep
  <2>1. CASE EndRetention
    BY <1>2, <1>9, <2>1, EndedChg DEF EndRetention
  <2>2. CASE PurgeRow \/ AnonymizeRow
    BY <1>1, <2>2 DEF PurgeRow, AnonymizeRow, VisitTombstone, childVars
  <2> QED BY <1>5, <1>6, <1>9, <2>1, <2>2 DEF PurgerStep
<1>10. CASE BeginContribute(t) \/ BeginFlag(t) \/ BeginHit(t) \/ BeginDelete(t)
  BY <1>1, <1>10 DEF BeginContribute, BeginFlag, BeginHit, BeginDelete, BeginOnId
<1>11. CASE WorkerStep(t)
  <2>1. CASE ResurrectGone(t) \/ Commit(t) \/ BadParameter(t)
    BY <1>2, <2>1, EndedChg DEF ResurrectGone, Commit, BadParameter
  <2>2. CASE SelectExisting(t) \/ Resurrect(t) \/ EvaluateDefaults(t) \/ InsertOrNothing(t)
             \/ SelectWinner(t) \/ LockRow(t) \/ LockMissing(t) \/ CountFlags(t)
             \/ ApplyFlag(t) \/ CheckOwner(t) \/ SoftDelete(t) \/ SoftDeleteNothing(t)
    BY <1>1, <2>2
       DEF SelectExisting, Resurrect, EvaluateDefaults, InsertOrNothing, SelectWinner, LockRow,
           LockMissing, CountFlags, ApplyFlag, CheckOwner, SoftDelete, SoftDeleteNothing,
           AnswerReadOnly, childVars
  <2> QED BY <1>3, <1>4, <1>11, <2>1, <2>2 DEF WorkerStep
<1> QED BY <1>7, <1>8, <1>9, <1>10, <1>11 DEF Turn

LEMMA TurnApart ==
  ASSUME StoreInv, LocksApart, NEW t \in Sessions, Turn(t) PROVE LocksApart'
<1>1. \A u \in Sessions \ {t} : FlagLocks(u)' = FlagLocks(u)
  BY TurnStep DEF StepOf, FlagLocks
<1>2. \A u \in Sessions \ {t} : FlagLocks(t)' \cap FlagLocks(u) = {}
  BY TurnLocks DEF LocksApart
<1> QED BY <1>1, <1>2 DEF LocksApart

\* An answered session runs no operation; a call begun is one of Ops.
LEMMA TurnOps ==
  ASSUME StoreInv, OpsIssued, NEW t \in Sessions, Turn(t) PROVE OpsIssued'
<1> TypeOK
  BY DEF StoreInv, Shape
<1>0. arg[t] \in ArgType
  BY TypeParts DEF ArgTyped
<1>1. \A u \in Sessions \ {t} : arg'[u] = arg[u]
  BY TurnStep DEF StepOf
<1>2. ASSUME NEW r, Answer(t, r) PROVE arg'[t].op = "none"
  BY <1>2, TypeParts DEF Answer, ArgTyped, NoArg
<1>3. ASSUME NEW a, NEW l, Begin(t, a, l) PROVE arg'[t].op \in Ops
  BY <1>3, TypeParts DEF Begin, ArgTyped
<1>4. ASSUME arg' = arg \/ \E i : arg' = [arg EXCEPT ![t].id = i] PROVE arg'[t].op = arg[t].op
  BY <1>0, <1>4, TypeParts DEF ArgTyped, ArgType
<1>5. CASE WorkerStep(t)
  <2> DEFINE Kept == arg' = arg \/ (\E i : arg' = [arg EXCEPT ![t].id = i]) \/ \E r : Answer(t, r)
  <2>1. CASE SelectExisting(t) \/ ResurrectGone(t) \/ SelectWinner(t) \/ LockRow(t)
             \/ LockMissing(t) \/ CheckOwner(t) \/ SoftDeleteNothing(t) \/ Commit(t)
             \/ BadParameter(t)
    <3>1. (\E r : AnswerReadOnly(t, r)) => \E r : Answer(t, r)
      BY DEF AnswerReadOnly
    <3>2. SelectExisting(t) \/ LockRow(t) \/ CheckOwner(t) => Kept
      BY <3>1 DEF SelectExisting, LockRow, CheckOwner
    <3>3. ResurrectGone(t) \/ SelectWinner(t) \/ LockMissing(t) \/ SoftDeleteNothing(t)
          \/ Commit(t) \/ BadParameter(t) => \E r : Answer(t, r)
      BY <3>1 DEF ResurrectGone, SelectWinner, LockMissing, SoftDeleteNothing, Commit,
                  BadParameter
    <3> QED BY <1>1, <1>2, <1>4, <2>1, <3>2, <3>3 DEF OpsIssued
  <2>2. CASE ClearFlags(t) \/ Resurrect(t) \/ EvaluateDefaults(t) \/ InsertOrNothing(t)
             \/ AddFlag(t) \/ CountFlags(t) \/ ApplyFlag(t) \/ BumpHit(t) \/ SoftDelete(t)
    <3>1. arg' = arg \/ \E i : arg' = [arg EXCEPT ![t].id = i]
      BY <2>2 DEF ClearFlags, Resurrect, EvaluateDefaults, InsertOrNothing, AddFlag,
                  CountFlags, ApplyFlag, BumpHit, SoftDelete
    <3> QED BY <1>1, <1>4, <3>1 DEF OpsIssued
  <2> QED BY <1>5, <2>1, <2>2 DEF WorkerStep
<1>6. CASE PurgerStep /\ t = Purger
  <2>1. arg' = arg \/ \E r : Answer(t, r)
    BY <1>6 DEF PurgerStep, ClearReasons, PurgeRow, Cascade, AnonymizeRow, VisitTombstone,
                EndRetention
  <2> QED BY <1>1, <1>2, <1>4, <2>1 DEF OpsIssued
<1>7. CASE \E a, l : Begin(t, a, l)
  BY <1>1, <1>3, <1>7 DEF OpsIssued
<1>8. CASE \E r : Answer(t, r)
  BY <1>1, <1>2, <1>8 DEF OpsIssued
<1>9. LoseConnection(t) \/ DeadlockVictim(t) => \E r : Answer(t, r)
  BY DEF LoseConnection, DeadlockVictim, Fail
<1>10. BeginContribute(t) \/ BeginFlag(t) \/ BeginHit(t) \/ BeginDelete(t)
       => \E a, l : Begin(t, a, l)
  BY DEF BeginContribute, BeginFlag, BeginHit, BeginDelete, BeginOnId
<1>11. t = Purger /\ BeginRetention => \E a, l : Begin(t, a, l)
  BY DEF BeginRetention
<1> QED BY <1>5, <1>6, <1>7, <1>8, <1>9, <1>10, <1>11 DEF Turn

LEMMA ChildStutter == ASSUME ChildInv, UNCHANGED vars PROVE ChildInv'
  BY DEF ChildInv, vars, ChildRows, RowOf, ChgInv, WorkerChg, PurgerChg, Erased, CascadeInv,
         FlagsOf, HitsOf, LocksApart, FlagLocks, OpsIssued

LEMMA StepChild ==
  ASSUME StoreInv, ChildInv, [Next]_vars PROVE ChildInv'
<1>1. CASE UNCHANGED vars
  BY <1>1, ChildStutter
<1>2. ASSUME NEW t \in Sessions, Turn(t) PROVE ChildInv'
  <2>1. ChildRows'
    BY StepChildRows
  <2>2. \A u \in Workers : WorkerChg(u)'
    BY <1>2, TurnChg DEF ChildInv
  <2>3. PurgerChg' /\ CascadeInv'
    BY <1>2, WorkerTurnPurger, PurgerTurnPurger DEF Sessions
  <2>4. LocksApart' /\ OpsIssued'
    BY <1>2, TurnApart, TurnOps DEF ChildInv
  <2> QED BY <2>1, <2>2, <2>3, <2>4 DEF ChildInv, ChgInv
<1> QED BY <1>1, <1>2, SomeTurn

LEMMA ChildInvariant == Spec => [](StoreInv /\ ChildInv)
<1>1. Init => ChildInv
  BY PurgerSession, WorkerNotPurger
     DEF Init, ChildInv, ChildRows, ChgInv, WorkerChg, PurgerChg, NoChange, CascadeInv,
         LocksApart, FlagLocks, OpsIssued, NoArg
<1>2. StoreInv /\ ChildInv /\ [Next]_vars => ChildInv'
  BY StepChild
<1> QED BY <1>1, <1>2, StoreInvariant, PTL DEF Spec


\* A 4xx, and the 500 of a failed statement, leave no trace: the transaction
\* that is answered so has rolled back, has written nothing, or has deleted
\* flags that were purged with their row before it could.
THEOREM RefusalsLeaveNoTrace == Spec => RefusedLeaveNoTrace
<1>1. ASSUME StoreInv, ChildInv, [Next]_vars PROVE RefusedStep
  <2> SUFFICES ASSUME NEW t \in Workers, pc[t] # "idle",
                      reply'[t] \in {"403", "404", "409", "500"},
                      <<fp, flags, hits>>' # <<fp, flags, hits>>
               PROVE  FALSE
    BY DEF RefusedStep
  <2>0. t \in Sessions /\ t # Purger /\ TypeOK /\ TxnInv
    BY <1>1, WorkerNotPurger DEF StoreInv, Shape
  <2>1. reply[t] = "none"
    BY <2>0 DEF TxnInv, OpsAt, OpAt
  <2>2. PICK u \in Sessions : Turn(u)
    BY <1>1, SomeTurn DEF vars
  <2>3. u = t
    BY <1>1, <2>0, <2>1, <2>2, TurnStep DEF StepOf
  <2>4. CommitTxn(t) /\ CommitPoint(t)
    BY <1>1, <2>2, <2>3, TurnStep
  <2>5. pc[t] = "commit"
    BY <1>1, <2>0, <2>4, GoneSame DEF CommitPoint
  <2>6. ASSUME NEW r, Answer(t, r) PROVE reply'[t] = r
    BY <2>0, <2>6, TypeParts DEF Answer, ReplyTyped
  <2>7. ~ Commit(t)
    BY <2>6 DEF Commit, Success
  <2>8. ~ LoseConnection(t) /\ ~ DeadlockVictim(t)
    BY <2>0, <2>6 DEF LoseConnection, DeadlockVictim, Fail
  <2>9. WorkerStep(t)
    <3>1. ~ (BeginContribute(t) \/ BeginFlag(t) \/ BeginHit(t) \/ BeginDelete(t))
      BY DEF BeginContribute, BeginFlag, BeginHit, BeginDelete, BeginOnId, Begin
    <3> QED BY <2>0, <2>2, <2>3, <2>8, <3>1 DEF Turn
  <2>10. ~ (ResurrectGone(t) \/ BadParameter(t))
    BY <2>5 DEF ResurrectGone, BadParameter
  <2>11. ~ WorkerStep(t)
    BY <2>5, <2>7, <2>10
       DEF WorkerStep, SelectExisting, ClearFlags, Resurrect, EvaluateDefaults,
           InsertOrNothing, SelectWinner, LockRow, LockMissing, AddFlag, CountFlags, ApplyFlag,
           BumpHit, CheckOwner, SoftDelete, SoftDeleteNothing
  <2> QED BY <2>9, <2>11
<1> QED BY <1>1, ChildInvariant, PTL DEF Spec, RefusedLeaveNoTrace

\* However long the retention tool waits for rows, what it commits concerns
\* tombstones: no live fingerprint loses a column or a flag, and a preview
\* changes nothing.
THEOREM RetentionSparesLive == Spec => RetentionScope
<1>1. ASSUME StoreInv, ChildInv, [Next]_vars PROVE RetentionStep
  <2> SUFFICES ASSUME pc[Purger] # "idle", pc'[Purger] = "idle",
                      <<fp, flags, hits>>' # <<fp, flags, hits>>
               PROVE  /\ \A k \in Keys : fp[k].status \in {"active", "hidden"} =>
                           fp'[k] = fp[k] /\ FlagsOf(fp[k].id) \subseteq flags'
                      /\ arg[Purger].op # "preview"
    BY DEF RetentionStep, FlagsOf
  <2>1. PICK t \in Sessions : Turn(t)
    BY <1>1, SomeTurn DEF vars
  <2>2. t = Purger
    BY <1>1, <2>1, TurnStep, PurgerSession DEF StepOf
  <2>3. CommitTxn(Purger) /\ CommitPoint(Purger)
    BY <1>1, <2>1, <2>2, TurnStep
  <2>4. arg[Purger].op # "preview"
    BY <1>1, <2>3, PurgerSession DEF CommitPoint, StoreInv, TxnInv, OpsAt, OpAt
  <2>5. ASSUME NEW k \in Keys, fp[k].status \in {"active", "hidden"}
        PROVE  fp'[k] = fp[k] /\ FlagsOf(fp[k].id) \subseteq flags'
    <3>1. ~ Erased(k) /\ fp'[k] = fp[k]
      BY <1>1, <2>3, <2>5, PurgeCommit
    <3>2. fp[k].id # 0
      BY <1>1, <2>5 DEF StoreInv, TxnInv, RowsShaped, RowShape, NoRow
    <3>3. \A f \in chg[Purger].flagDel : f[1] # fp[k].id
      BY <1>1, <3>1, <3>2
         DEF ChildInv, ChgInv, PurgerChg, StoreInv, TxnInv, IdInv, IdsOfRows, CarriesId
    <3> QED BY <2>3, <3>1, <3>3 DEF CommitTxn, FlagsOf
  <2> QED BY <2>4, <2>5
<1> QED BY <1>1, ChildInvariant, PTL DEF Spec, RetentionScope

-----------------------------------------------------------------------------
(* Hits.                                                                   *)

LEMMA NumberAdded ==
  ASSUME NEW H, NEW x
  PROVE  {h[2] : h \in H \cup {x}} = {h[2] : h \in H} \cup {x[2]}
  BY Zenon

LEMMA StepHits ==
  ASSUME StoreInv, ChildInv, HitsAudited, [Next]_vars PROVE HitsAudited'
<1> DEFINE Nos(i) == {h[2] : h \in HitsOf(i)}
<1> SUFFICES ASSUME NEW k \in Keys, fp'[k].id # 0
             PROVE  LET seqnos == {h[2] : h \in HitsOf(fp[k].id)'} IN
                      /\ seqnos \subseteq 1..fp'[k].hitCount
                      /\ "retention" \notin Ops => seqnos = 1..fp'[k].hitCount
  BY DEF HitsAudited
<1>0. fp[k] \in Row /\ fp[k].hitCount \in Nat
  BY TypeParts DEF StoreInv, Shape, RowsTyped, Row
<1> PICK i : i = fp'[k].id
  OBVIOUS
<1>1. HitsOf(fp[k].id)' = HitsOf(i)'
  BY DEF HitsOf
<1>2. fp[k].id # 0 => LET seqnos == Nos(fp[k].id) IN
                        /\ seqnos \subseteq 1..fp[k].hitCount
                        /\ "retention" \notin Ops => seqnos = 1..fp[k].hitCount
  BY DEF HitsAudited
<1>3. CASE UNCHANGED <<fp, flags, hits>>
  BY <1>1, <1>2, <1>3 DEF HitsOf
<1>4. ASSUME NEW t \in Sessions, CommitTxn(t), CommitPoint(t)
      PROVE  LET seqnos == {h[2] : h \in HitsOf(i)'} IN
               /\ seqnos \subseteq 1..fp'[k].hitCount
               /\ "retention" \notin Ops => seqnos = 1..fp'[k].hitCount
  <2>1. CASE t \in Workers /\ lock[k] # t
    <3>1. fp'[k] = fp[k]
      BY <1>4, <2>1 DEF CommitTxn
    <3>2. \A j \in Keys : lock[j] = t => ~ CarriesId(j, i)
      BY <2>1, <3>1 DEF StoreInv, TxnInv, IdInv, IdsOfRows
    <3>3. HitsOf(i)' = HitsOf(i)
      BY <1>4, <2>1, <3>2, CommitTouches
    <3> QED BY <1>2, <3>1, <3>3
  <2>2. CASE t \in Workers /\ lock[k] = t
    <3>1. pc[t] = "commit"
      BY <1>4, <2>2, UncommittedRow, WorkerNotPurger DEF CommitPoint
    <3>2. Written(t, k) /\ arg[t].id # 0 /\ fp'[k] = tip[k] /\ i = arg[t].id
      BY <1>4, <2>2, <3>1, WrittenRow DEF CommitTxn
    <3>3. WorkerChg(t)
      BY <2>2 DEF ChildInv, ChgInv
    <3>4. hits' = hits \cup chg[t].hitAdd
      BY <1>4, <3>3 DEF CommitTxn, WorkerChg
    <3>5. CASE HitReported(t, k)
      <4>1. fp[k].id = i /\ fp'[k].hitCount = fp[k].hitCount + 1 /\ arg[t].op = "hit"
        BY <1>0, <3>2, <3>5, HitColumns DEF HitReported
      <4>2. chg[t].hitAdd = {<<i, fp[k].hitCount + 1>>}
        BY <2>2, <3>1, <3>2, <3>3, <4>1 DEF WorkerChg
      <4>3. {h[2] : h \in HitsOf(i)'} = Nos(i) \cup {fp[k].hitCount + 1}
        <5> PICK x : x = <<i, fp[k].hitCount + 1>>
          OBVIOUS
        <5>1. HitsOf(i)' = HitsOf(i) \cup {x} /\ x[2] = fp[k].hitCount + 1
          BY <3>4, <4>2 DEF HitsOf
        <5>2. {h[2] : h \in HitsOf(i) \cup {x}} = Nos(i) \cup {x[2]}
          BY NumberAdded
        <5> QED BY <5>1, <5>2
      <4>4. 1..(fp[k].hitCount + 1) = (1..fp[k].hitCount) \cup {fp[k].hitCount + 1}
        BY <1>0
      <4> HIDE DEF Nos
      <4> QED BY <1>2, <3>2, <4>1, <4>3, <4>4
    <3>6. CASE ~ HitReported(t, k)
      <4>1. arg[t].op # "hit"
        BY <3>2, <3>6 DEF Written, Contributed, Flagged, SoftDeleted
      <4>2. hits' = hits
        BY <3>3, <3>4, <4>1 DEF WorkerChg
      <4>3. HitsOf(i)' = HitsOf(i)
        BY <4>2 DEF HitsOf
      <4>4. CASE fp[k].id # 0
        <5>1. fp[k].id = i /\ fp'[k].hitCount = fp[k].hitCount
          BY <1>0, <3>2, <3>6, <4>4, ContributedColumns, FlaggedColumns, DeletedColumns
             DEF Written
        <5> QED BY <1>2, <4>3, <4>4, <5>1
      <4>5. CASE fp[k].id = 0
        <5>1. fp'[k].hitCount = 0
          BY <1>0, <3>2, <3>6, <4>5, ContributedColumns, FlaggedColumns, DeletedColumns
             DEF Written
        <5>2. \A j \in Keys : fp[j].id # i
          BY <1>4, <3>2, <4>5 DEF StoreInv, TxnInv, IdInv, IdsOfRows, CarriesId
        <5>3. HitsOf(i) = {}
          BY <5>2 DEF ChildInv, ChildRows, RowOf, HitsOf
        <5>4. {h[2] : h \in HitsOf(i)'} = {} /\ 1..0 = {}
          BY <4>3, <5>3
        <5> QED BY <5>1, <5>4
      <4> QED BY <4>4, <4>5
    <3> QED BY <3>5, <3>6
  <2>3. CASE t = Purger
    <3>1. ~ Erased(k)
      BY <1>4, <2>3, PurgeCommit DEF NoRow
    <3>2. fp[k].id = i /\ fp'[k].hitCount = fp[k].hitCount /\ hits' \subseteq hits
      BY <1>4, <2>3, <3>1, PurgeCommit
    <3>3. {h[2] : h \in HitsOf(i)'} \subseteq Nos(i)
      BY <3>2 DEF HitsOf
    <3>4. "retention" \in Ops
      BY <1>4, <2>3, PurgerSession, WorkerNotPurger
         DEF CommitPoint, ChildInv, OpsIssued, StoreInv, TxnInv, OpsAt, OpAt
    <3> QED BY <1>2, <3>2, <3>3, <3>4
  <2> QED BY <2>1, <2>2, <2>3 DEF Sessions
<1>5. CASE ~ UNCHANGED <<fp, flags, hits>>
  BY <1>1, <1>4, <1>5, CommittedChange
<1> QED BY <1>3, <1>5

\* No hit is lost and none counted twice, however reports, deletes, revivals and
\* retention interleave: hit_count and the audit rows go together for every
\* number of workers and reports.
THEOREM HitsNeverLost == Spec => []HitsAudited
<1>1. Init => HitsAudited
  BY DEF Init, HitsAudited, NoRow
<1>2. StoreInv /\ ChildInv /\ HitsAudited /\ [Next]_vars => HitsAudited'
  BY StepHits
<1> QED BY <1>1, <1>2, ChildInvariant, PTL DEF Spec


-----------------------------------------------------------------------------
(* Flags.                                                                  *)

LEMMA StepShown ==
  ASSUME StoreInv, ShownBelow, [Next]_vars PROVE ShownBelow'
<1> SUFFICES ASSUME NEW k \in Keys, fp'[k].status = "active"
             PROVE  fp'[k].flagCount < AutoHideThreshold
  BY DEF ShownBelow
<1>1. CASE fp'[k] = fp[k]
  BY <1>1 DEF ShownBelow
<1>2. CASE fp'[k] # fp[k]
  <2>1. PICK t \in Sessions : /\ fp'[k] = tip[k]
                              /\ (Committable(t, k) /\ arg[t].id # 0) \/ Retired(t, k)
    BY <1>2, RowChange
  <2>2. fp[k] \in Row /\ seen[t].count \in Nat
    BY TypeParts DEF StoreInv, Shape, RowsTyped, SeenTyped
  <2>3. ~ Retired(t, k)
    BY <2>1, <2>2, RetiredColumns DEF NoRow
  <2>4. CASE Contributed(t, k)
    BY <2>1, <2>2, <2>3, <2>4, ContributedColumns, ConstantsAssumption
  <2>5. CASE Flagged(t, k)
    BY <2>1, <2>2, <2>5, FlaggedColumns, ConstantsAssumption DEF Hides
  <2>6. CASE HitReported(t, k) \/ SoftDeleted(t, k)
    BY <2>1, <2>2, <2>6, HitColumns, DeletedColumns DEF ShownBelow
  <2> QED BY <2>1, <2>3, <2>4, <2>5, <2>6 DEF Committable, Written
<1> QED BY <1>1, <1>2

\* A commit of t leaves alone the flags of a row that t has not locked.
LEMMA OtherFlags ==
  ASSUME StoreInv, ChildInv, NEW t \in Sessions, CommitTxn(t), CommitPoint(t),
         NEW k \in Keys, lock[k] # t, NEW i, CarriesId(k, i)
  PROVE  FlagsOf(i)' = FlagsOf(i)
<1>1. \A j \in Keys : lock[j] = t => ~ CarriesId(j, i)
  BY DEF StoreInv, TxnInv, IdInv, IdsOfRows, CarriesId
<1> QED BY <1>1, CommitTouches

\* How a call gets to the statements that matter.
LEMMA Arrivals ==
  ASSUME StoreInv, NEW t \in Workers, Turn(t)
  PROVE  /\ pc'[t] = "applyflag" => CountFlags(t)
         /\ pc'[t] = "resurrect" => ClearFlags(t)
         /\ pc'[t] = "commit" => \/ Resurrect(t) \/ InsertOrNothing(t) \/ ApplyFlag(t)
                                 \/ BumpHit(t) \/ SoftDelete(t)
<1> t \in Sessions /\ t # Purger /\ TypeOK
  BY WorkerNotPurger DEF StoreInv, Shape
<1>1. ASSUME NEW r, Answer(t, r) PROVE pc'[t] = "idle"
  BY <1>1, TypeParts DEF Answer, PcTyped
<1>2. ASSUME NEW l, Goto(t, l) PROVE pc'[t] = l
  BY <1>2, TypeParts DEF Goto, PcTyped
<1>3. LoseConnection(t) \/ DeadlockVictim(t) => pc'[t] = "idle"
  BY <1>1 DEF LoseConnection, DeadlockVictim, Fail
<1>4. BeginContribute(t) \/ BeginFlag(t) \/ BeginHit(t) \/ BeginDelete(t)
      => pc'[t] \in {"select", "lockrow", "check"}
  BY <1>2 DEF BeginContribute, BeginFlag, BeginHit, BeginDelete, BeginOnId, Begin
<1>5. ResurrectGone(t) \/ SelectWinner(t) \/ LockMissing(t) \/ SoftDeleteNothing(t) \/ Commit(t)
      \/ BadParameter(t) => pc'[t] = "idle"
  BY <1>1 DEF ResurrectGone, SelectWinner, LockMissing, SoftDeleteNothing, Commit,
              BadParameter, AnswerReadOnly
<1>6. SelectExisting(t) => pc'[t] \in {"idle", "clearflags", "insert"}
  BY <1>1, <1>2 DEF SelectExisting, AnswerReadOnly
<1>7. LockRow(t) => pc'[t] \in {"idle", "addflag", "bumphit"}
  BY <1>1, <1>2 DEF LockRow, AnswerReadOnly
<1>8. CheckOwner(t) => pc'[t] \in {"idle", "softdelete"}
  BY <1>1, <1>2 DEF CheckOwner, AnswerReadOnly
<1>9. /\ ClearFlags(t) => pc'[t] = "resurrect"
      /\ EvaluateDefaults(t) => pc'[t] = "arbitrate"
      /\ AddFlag(t) => pc'[t] = "countflags"
      /\ CountFlags(t) => pc'[t] = "applyflag"
  BY <1>2 DEF ClearFlags, EvaluateDefaults, AddFlag, CountFlags
<1>10. /\ Resurrect(t) \/ ApplyFlag(t) \/ BumpHit(t) \/ SoftDelete(t) => pc'[t] = "commit"
       /\ InsertOrNothing(t) => pc'[t] \in {"commit", "reselect"}
  BY <1>2 DEF Resurrect, ApplyFlag, BumpHit, SoftDelete, InsertOrNothing, WriteRow
<1> QED BY <1>3, <1>4, <1>5, <1>6, <1>7, <1>8, <1>9, <1>10 DEF Turn, WorkerStep

LEMMA TurnCount ==
  ASSUME StoreInv, ChildInv, CountInv, NEW t \in Sessions, Turn(t) PROVE CountInv'
<1> TypeOK /\ TxnInv
  BY DEF StoreInv, Shape
<1> SUFFICES ASSUME NEW u \in Workers,
                    \/ pc'[u] = "applyflag"
                    \/ pc'[u] = "commit" /\ arg'[u].op = "flag"
             PROVE  seen'[u].count = Cardinality(FlagsOf(arg[u].id)' \cup chg'[u].flagAdd)
  BY DEF CountInv
<1> u \in Sessions /\ u # Purger
  BY WorkerNotPurger
<1> PICK i : i = arg[u].id
  OBVIOUS
<1>1. CASE u # t
  <2>1. /\ pc'[u] = pc[u] /\ arg'[u] = arg[u] /\ seen'[u] = seen[u] /\ chg'[u] = chg[u]
    BY <1>1, TurnStep DEF StepOf
  <2>2. PICK k \in Keys : lock[k] = u /\ CarriesId(k, i)
    <3>1. CASE pc'[u] = "applyflag"
      <4>1. PICK k \in Keys : lock[k] = u
        BY <2>1, <3>1 DEF TxnInv, LockInv, Holds, HoldLabels
      <4> QED BY <2>1, <3>1, <4>1
              DEF TxnInv, LockInv, Holding, LockedOnly, Committable, Retired, CarriesId
    <3>2. CASE pc'[u] = "commit"
      BY <2>1, <3>2, WrittenRow DEF CarriesId
    <3> QED BY <3>1, <3>2
  <2>3. FlagsOf(i)' = FlagsOf(i)
    <3>1. CASE UNCHANGED <<fp, flags, hits>>
      BY <3>1 DEF FlagsOf
    <3>2. CASE CommitTxn(t) /\ CommitPoint(t)
      BY <1>1, <2>2, <3>2, OtherFlags
    <3> QED BY <3>1, <3>2, TurnStep
  <2>4. FlagsOf(arg[u].id)' = FlagsOf(i)'
    BY <2>1 DEF FlagsOf
  <2> QED BY <2>1, <2>3, <2>4 DEF CountInv
<1>2. CASE u = t
  <2>1. CASE CountFlags(t)
    <3>1. /\ UNCHANGED <<flags, chg, arg>>
          /\ seen'[t].count = Cardinality(FlagsOf(i) \cup chg[t].flagAdd)
      BY <1>2, <2>1, TypeParts DEF CountFlags, SeenTyped, childVars
    <3> QED BY <1>2, <3>1 DEF FlagsOf
  <2>2. CASE ApplyFlag(t)
    <3>1. UNCHANGED <<flags, chg, arg, seen>> /\ pc[t] = "applyflag"
      BY <2>2 DEF ApplyFlag, childVars
    <3> QED BY <1>2, <3>1 DEF FlagsOf, CountInv
  <2>3. CASE ~ CountFlags(t) /\ ~ ApplyFlag(t)
    <3>1. Resurrect(t) \/ InsertOrNothing(t) \/ BumpHit(t) \/ SoftDelete(t)
      BY <1>2, <2>3, Arrivals
    <3>2. arg' = arg /\ pc[t] \in {"resurrect", "arbitrate", "bumphit", "softdelete"}
      BY <3>1 DEF Resurrect, InsertOrNothing, BumpHit, SoftDelete
    <3>3. arg[t].op # "flag"
      BY <3>2 DEF TxnInv, OpsAt, OpAt, ContributeLabels
    <3>4. pc'[t] # "applyflag"
      BY <1>2, <2>3, Arrivals
    <3> QED BY <1>2, <3>2, <3>3, <3>4
  <2> QED BY <2>1, <2>2, <2>3
<1> QED BY <1>1, <1>2

LEMMA TurnClear ==
  ASSUME StoreInv, ChildInv, SerialContribute, ClearInv, NEW t \in Sessions, Turn(t)
  PROVE  ClearInv'
<1> TypeOK /\ TxnInv
  BY DEF StoreInv, Shape
<1> SUFFICES ASSUME NEW u \in Workers,
                    \/ pc'[u] = "resurrect"
                    \/ pc'[u] = "commit" /\ arg'[u].op = "contribute"
             PROVE  FlagsOf(arg[u].id)' = chg'[u].flagDel
  BY DEF ClearInv
<1> u \in Sessions /\ u # Purger
  BY WorkerNotPurger
<1> PICK i : i = arg[u].id
  OBVIOUS
<1>1. CASE u # t
  <2>1. pc'[u] = pc[u] /\ arg'[u] = arg[u] /\ chg'[u] = chg[u]
    BY <1>1, TurnStep DEF StepOf
  <2>2. FlagsOf(i) = chg[u].flagDel
    BY <2>1 DEF ClearInv
  <2>3. FlagsOf(i)' = FlagsOf(i)
    <3>1. CASE UNCHANGED <<fp, flags, hits>>
      BY <3>1 DEF FlagsOf
    <3>2. CASE CommitTxn(t) /\ CommitPoint(t)
      <4>1. chg[t].flagDel \cap FlagsOf(i) = {}
        BY <1>1, <2>2 DEF ChildInv, LocksApart, FlagLocks
      <4>2. \A f \in chg[t].flagAdd : f[1] # i
        <5> SUFFICES ASSUME NEW f \in chg[t].flagAdd, f[1] = i PROVE FALSE
          OBVIOUS
        <5>1. t \in Workers
          BY DEF ChildInv, ChgInv, PurgerChg, Sessions
        <5>2. WorkerChg(t)
          BY <5>1 DEF ChildInv, ChgInv
        <5>3. pc[t] = "commit" /\ arg[t].op = "flag" /\ arg[t].id = i
          BY <3>2, <5>1, <5>2, WorkerNotPurger DEF WorkerChg, CommitPoint
        <5>4. PICK k \in Keys : lock[k] = t /\ Written(t, k)
          BY <5>1, <5>3, WrittenRow
        <5>5. Flagged(t, k)
          BY <5>3, <5>4 DEF Written, Contributed, HitReported, SoftDeleted
        <5>6. fp[k].id = i /\ i # 0 /\ fp[k].status \in Live
          BY <5>1, <5>3, <5>5, WrittenRow DEF Flagged
        <5>7. CASE pc[u] = "resurrect"
          BY <5>6, <5>7 DEF TxnInv, IdInv, IdOfCall, CarriesId, SerialInv, Live
        <5>8. CASE pc[u] = "commit"
          <6>1. PICK j \in Keys : lock[j] = u /\ tip[j].id = i
            BY <5>8, WrittenRow
          <6>2. j = k
            BY <5>6, <6>1 DEF TxnInv, IdInv, IdsOfRows, CarriesId
          <6> QED BY <1>1, <5>4, <6>1, <6>2
        <5> QED BY <2>1, <5>7, <5>8
      <4> QED BY <3>2, <4>1, <4>2 DEF CommitTxn, FlagsOf
    <3> QED BY <3>1, <3>2, TurnStep
  <2>4. FlagsOf(arg[u].id)' = FlagsOf(i)'
    BY <2>1 DEF FlagsOf
  <2> QED BY <2>1, <2>2, <2>3, <2>4
<1>2. CASE u = t
  <2>1. CASE ClearFlags(t)
    <3>1. UNCHANGED <<flags, arg>> /\ chg'[t].flagDel = FlagsOf(i)
      BY <1>2, <2>1, TypeParts DEF ClearFlags, ChildTyped, ChangeType
    <3> QED BY <1>2, <3>1 DEF FlagsOf
  <2>2. CASE Resurrect(t)
    <3>1. UNCHANGED <<flags, chg, arg>> /\ pc[t] = "resurrect"
      BY <2>2 DEF Resurrect, childVars
    <3> QED BY <1>2, <3>1 DEF FlagsOf, ClearInv
  <2>3. CASE InsertOrNothing(t)
    <3>1. UNCHANGED <<flags, chg, arg>> /\ pc[t] = "arbitrate"
      BY <2>3 DEF InsertOrNothing, childVars
    <3>2. i # 0 /\ \A k \in Keys : ~ CarriesId(k, i)
      BY <1>2, <3>1 DEF TxnInv, IdInv, IdOfCall
    <3>3. FlagsOf(i) = {}
      BY <3>2 DEF ChildInv, ChildRows, RowOf, FlagsOf, CarriesId
    <3>4. chg[t].flagDel = {}
      BY <1>2, <3>1, NothingPending DEF ChildInv, ChgInv
    <3> QED BY <1>2, <3>1, <3>3, <3>4 DEF FlagsOf
  <2>4. CASE ~ (ClearFlags(t) \/ Resurrect(t) \/ InsertOrNothing(t))
    <3>1. ApplyFlag(t) \/ BumpHit(t) \/ SoftDelete(t)
      BY <1>2, <2>4, Arrivals
    <3>2. arg' = arg /\ pc[t] \in {"applyflag", "bumphit", "softdelete"} /\ pc'[t] # "resurrect"
      BY <1>2, <2>4, <3>1, Arrivals DEF ApplyFlag, BumpHit, SoftDelete
    <3>3. arg[t].op # "contribute"
      BY <3>2 DEF TxnInv, OpsAt, OpAt
    <3> QED BY <1>2, <3>2, <3>3
  <2> QED BY <2>1, <2>2, <2>3, <2>4
<1> QED BY <1>1, <1>2


\* What the commit of t makes of the flags of the row it has written.
LEMMA OwnFlags ==
  ASSUME StoreInv, ChildInv, NEW t \in Workers, CommitTxn(t), pc[t] = "commit", NEW i,
         i = arg[t].id
  PROVE  /\ FlagsOf(i)' = (FlagsOf(i) \ chg[t].flagDel) \cup chg[t].flagAdd
         /\ arg[t].op # "contribute" => chg[t].flagDel = {}
         /\ arg[t].op # "flag" => chg[t].flagAdd = {}
<1>1. WorkerChg(t)
  BY DEF ChildInv, ChgInv
<1> QED BY <1>1 DEF WorkerChg, CommitTxn, FlagsOf

LEMMA StepFlagCount ==
  ASSUME StoreInv, ChildInv, CountInv, SerialContribute, ClearInv, FlagCountExact, [Next]_vars
  PROVE  FlagCountExact'
<1> SUFFICES ASSUME NEW k \in Keys, fp'[k].id # 0
             PROVE  fp'[k].flagCount = Cardinality(FlagsOf(fp[k].id)')
  BY DEF FlagCountExact
<1>0. fp[k] \in Row
  BY TypeParts DEF StoreInv, Shape, RowsTyped
<1> PICK i : i = fp'[k].id
  OBVIOUS
<1>1. FlagsOf(fp[k].id)' = FlagsOf(i)'
  BY DEF FlagsOf
<1>2. CASE UNCHANGED <<fp, flags, hits>>
  BY <1>1, <1>2 DEF FlagsOf, FlagCountExact
<1>3. ASSUME NEW t \in Sessions, CommitTxn(t), CommitPoint(t)
      PROVE  fp'[k].flagCount = Cardinality(FlagsOf(i)')
  <2>1. CASE lock[k] # t
    <3>1. fp'[k] = fp[k] /\ CarriesId(k, i)
      BY <1>3, <2>1 DEF CommitTxn, CarriesId
    <3>2. FlagsOf(i)' = FlagsOf(i)
      BY <1>3, <2>1, <3>1, OtherFlags
    <3> QED BY <3>1, <3>2 DEF FlagCountExact
  <2>2. CASE lock[k] = t /\ t \in Workers
    <3>1. pc[t] = "commit"
      BY <1>3, <2>2, UncommittedRow, WorkerNotPurger DEF CommitPoint
    <3>2. Written(t, k) /\ arg[t].id # 0 /\ fp'[k] = tip[k] /\ i = arg[t].id
      BY <1>3, <2>2, <3>1, WrittenRow DEF CommitTxn
    <3>3. CASE Contributed(t, k)
      <4>1. fp'[k].flagCount = 0 /\ arg[t].op = "contribute"
        BY <1>0, <3>2, <3>3, ContributedColumns DEF Contributed
      <4>2. FlagsOf(i) = chg[t].flagDel
        BY <2>2, <3>1, <3>2, <4>1 DEF ClearInv
      <4>3. FlagsOf(i)' = {}
        BY <1>3, <2>2, <3>1, <3>2, <4>1, <4>2, OwnFlags
      <4> QED BY <4>1, <4>3, FS_EmptySet
    <3>4. CASE Flagged(t, k)
      <4>0. arg[t].op = "flag"
        BY <3>4 DEF Flagged
      <4>1. fp'[k].flagCount = seen[t].count /\ arg[t].op = "flag"
        BY <1>0, <3>2, <3>4, <4>0, FlaggedColumns
      <4>2. seen[t].count = Cardinality(FlagsOf(i) \cup chg[t].flagAdd)
        BY <2>2, <3>1, <3>2, <4>1 DEF CountInv
      <4>3. FlagsOf(i)' = FlagsOf(i) \cup chg[t].flagAdd
        BY <1>3, <2>2, <3>1, <3>2, <4>1, OwnFlags
      <4> QED BY <4>1, <4>2, <4>3
    <3>5. CASE HitReported(t, k) \/ SoftDeleted(t, k)
      <4>1. fp'[k].flagCount = fp[k].flagCount /\ fp[k].id = i /\ i # 0
        BY <1>0, <3>2, <3>5, HitColumns, DeletedColumns
      <4>2. arg[t].op \in {"hit", "delete"}
        BY <3>5 DEF HitReported, SoftDeleted
      <4>3. chg[t].flagDel = {} /\ chg[t].flagAdd = {}
        BY <1>3, <2>2, <3>1, <3>2, <4>2, OwnFlags
      <4>4. FlagsOf(i)' = (FlagsOf(i) \ chg[t].flagDel) \cup chg[t].flagAdd
        BY <1>3, <2>2, <3>1, <3>2, OwnFlags
      <4>5. FlagsOf(i)' = FlagsOf(i)
        BY <4>3, <4>4
      <4> QED BY <4>1, <4>5 DEF FlagCountExact
    <3> QED BY <3>2, <3>3, <3>4, <3>5 DEF Written
  <2>3. CASE t = Purger
    <3>1. ~ Erased(k)
      BY <1>3, <2>3, PurgeCommit DEF NoRow
    <3>2. fp[k].id = i /\ fp'[k].flagCount = fp[k].flagCount
      BY <1>3, <2>3, <3>1, PurgeCommit
    <3>3. \A f \in chg[Purger].flagDel : f[1] # i
      BY <3>1, <3>2
         DEF ChildInv, ChgInv, PurgerChg, StoreInv, TxnInv, IdInv, IdsOfRows, CarriesId
    <3>4. FlagsOf(i)' = FlagsOf(i)
      BY <1>3, <2>3, <3>3 DEF ChildInv, ChgInv, PurgerChg, CommitTxn, FlagsOf
    <3> QED BY <3>2, <3>4 DEF FlagCountExact
  <2> QED BY <2>1, <2>2, <2>3 DEF Sessions
<1>4. CASE ~ UNCHANGED <<fp, flags, hits>>
  BY <1>1, <1>3, <1>4, CommittedChange
<1> QED BY <1>2, <1>4

LEMMA TurnRevived ==
  ASSUME StoreInv, ChildInv, ClearInv, RevivedFree, NEW t \in Sessions, Turn(t)
  PROVE  RevivedFree'
<1> TypeOK /\ TxnInv /\ Purger \in Sessions
  BY PurgerSession DEF StoreInv, Shape
<1>1. CASE t = Purger
  <2>1. CASE todo' \subseteq todo /\ UNCHANGED fp /\ FlagLocks(Purger)' = FlagLocks(Purger)
    BY <2>1 DEF RevivedFree, StillOld
  <2>2. CASE todo' = {}
    BY <2>2 DEF RevivedFree
  <2>3. CASE UNCHANGED fp /\ \E K : todo' \subseteq Tombstones(K)
    BY <2>3 DEF RevivedFree, StillOld, Tombstones
  <2>4. CASE LoseConnection(Purger) \/ DeadlockVictim(Purger) \/ EndRetention
    BY <2>2, <2>4 DEF LoseConnection, DeadlockVictim, EndRetention, Fail
  <2>5. CASE BeginRetention
    <3>1. todo' = todo /\ pc[Purger] = "idle"
      BY <2>5 DEF BeginRetention, Begin
    <3> QED BY <2>2, <3>1 DEF TxnInv, TodoInv
  <2>6. CASE PurgeRow \/ AnonymizeRow
    <3>1. todo' \subseteq todo /\ UNCHANGED <<fp, chg>>
      BY <2>6 DEF PurgeRow, AnonymizeRow, VisitTombstone, WriteRow, rowVars, childVars
    <3> QED BY <2>1, <3>1 DEF FlagLocks
  <2>7. CASE ClearReasons \/ Cascade
    BY <2>3, <2>7 DEF ClearReasons, Cascade, rowVars
  <2> QED BY <1>1, <2>4, <2>5, <2>6, <2>7, WorkerNotPurger DEF Turn, PurgerStep
<1>2. CASE t # Purger
  <2>0. t \in Workers
    BY <1>2 DEF Sessions
  <2>1. todo' = todo /\ FlagLocks(Purger)' = FlagLocks(Purger)
    BY <1>2, TurnStep DEF StepOf, FlagLocks
  <2> SUFFICES ASSUME NEW v \in todo, fp'[v[1]].seq # v[2], NEW f \in FlagLocks(Purger)
               PROVE  f[1] # fp'[v[1]].id
    BY <2>1 DEF RevivedFree, StillOld
  <2>2. v[1] \in Keys
    BY TypeParts DEF TodoTyped
  <2> PICK k \in Keys : k = v[1]
    BY <2>2
  <2>3. CASE fp'[k] = fp[k]
    BY <2>3 DEF RevivedFree, StillOld
  <2>4. CASE fp'[k] # fp[k]
    <3>1. CommitTxn(t) /\ CommitPoint(t)
      BY <2>4, TurnStep
    <3>2. lock[k] = t /\ fp'[k] = tip[k]
      BY <2>4, <3>1 DEF CommitTxn
    <3>3. pc[t] = "commit"
      BY <1>2, <2>0, <3>1, <3>2, UncommittedRow DEF CommitPoint
    <3>4. Written(t, k) /\ arg[t].id # 0 /\ tip[k].id = arg[t].id
      BY <2>0, <3>2, <3>3, WrittenRow
    <3> SUFFICES ASSUME f[1] = arg[t].id PROVE FALSE
      BY <3>2, <3>4
    <3>5. \A j \in Keys : fp[j].id = f[1] => j = k
      BY <3>4 DEF TxnInv, IdInv, IdsOfRows, CarriesId
    <3>6. f \notin chg[Purger].flagDel
      BY <1>2, <3>2, <3>5 DEF ChildInv, ChgInv, PurgerChg, Erased
    <3>7. f \in flags
      BY <3>6 DEF FlagLocks, ChildInv, ChgInv, PurgerChg
    <3>8. fp[k].id = f[1]
      BY <3>5, <3>7 DEF ChildInv, ChildRows, RowOf
    <3>9. StillOld(v)
      BY <3>8 DEF RevivedFree
    <3>10. fp[k].status = "deleted"
      BY <3>9 DEF StillOld, TxnInv, TodoInv, NumberOfTombstone
    <3>11. arg[t].op = "contribute"
      BY <3>4, <3>10 DEF Written, Contributed, Flagged, HitReported, SoftDeleted, Live
    <3>12. f \in chg[t].flagDel
      BY <2>0, <3>3, <3>7, <3>11 DEF ClearInv, FlagsOf
    <3> QED BY <1>2, <3>12 DEF ChildInv, LocksApart, FlagLocks
  <2> QED BY <2>3, <2>4
<1> QED BY <1>1, <1>2

LEMMA StepFlags ==
  ASSUME StoreInv, ChildInv, CountInv, FlagInv, [Next]_vars
  PROVE  CountInv' /\ FlagInv'
<1>1. CASE UNCHANGED vars
  BY <1>1 DEF vars, CountInv, FlagInv, FlagCountExact, ClearInv, RevivedFree, StillOld,
              FlagsOf, FlagLocks
<1>2. ASSUME NEW t \in Sessions, Turn(t) PROVE CountInv' /\ FlagInv'
  BY <1>2, TurnCount, TurnClear, TurnRevived, StepFlagCount DEF FlagInv
<1> QED BY <1>1, <1>2, SomeTurn

LEMMA FlagInvariant == Spec => [](StoreInv /\ ChildInv /\ ShownBelow /\ CountInv /\ FlagInv)
<1>1. Init => ShownBelow /\ CountInv /\ FlagInv
  BY WorkerNotPurger
     DEF Init, ShownBelow, CountInv, FlagInv, FlagCountExact, ClearInv, RevivedFree, NoRow
<1>2. StoreInv /\ ChildInv /\ ShownBelow /\ CountInv /\ FlagInv /\ [Next]_vars
      => ShownBelow' /\ CountInv' /\ FlagInv'
  BY StepShown, StepFlags
<1> QED BY <1>1, <1>2, ChildInvariant, PTL DEF Spec

\* As long as no consumer races itself over one hash, flag_count is the number of
\* flag rows whenever a transaction has committed.
THEOREM FlagCountsExact == ASSUME SerialContribute PROVE Spec => []FlagCountExact
<1>1. FlagInv => FlagCountExact
  BY DEF FlagInv
<1> QED BY <1>1, FlagInvariant, PTL

\* Under the same condition no fingerprint with as many distinct flaggers as the
\* threshold is served as active, whatever interleaves with flag().
THEOREM FlaggedAreHidden == ASSUME SerialContribute PROVE Spec => []AutoHide
<1>1. StoreInv /\ ShownBelow /\ FlagInv => AutoHide
  <2> SUFFICES ASSUME StoreInv, ShownBelow, FlagInv, NEW k \in Keys, fp[k].status = "active"
               PROVE  Cardinality(FlagsOf(fp[k].id)) < AutoHideThreshold
    BY DEF AutoHide
  <2>1. fp[k].id # 0
    BY DEF StoreInv, TxnInv, RowsShaped, RowShape, NoRow
  <2> QED BY <2>1 DEF ShownBelow, FlagInv, FlagCountExact
<1> QED BY <1>1, FlagInvariant, PTL

-----------------------------------------------------------------------------
(* Lock cycles.                                                            *)

\* A call holds row locks while it waits only in flag(), for a flag row.
LEMMA WaitingHolder ==
  ASSUME StoreInv, NEW u \in Workers, WaitsFor(u) # {}, NEW k \in Keys, lock[k] = u
  PROVE  pc[u] = "addflag" /\ fp[k].id = arg[u].id /\ fp[k].status \in Live
<1> u \in Sessions /\ u # Purger /\ TypeOK /\ TxnInv
  BY WorkerNotPurger DEF StoreInv, Shape
<1>1. CASE pc[u] = "commit"
  BY <1>1 DEF WaitsFor
<1>2. CASE LockedOnly(u, k)
  <2>1. pc[u] # "countflags"
    BY DEF WaitsFor
  <2>2. pc[u] \notin {"applyflag", "bumphit"}
    <3>1. ASSUME pc[u] \in {"applyflag", "bumphit"}, NEW j \in Keys, fp[j].id = arg[u].id
          PROVE  lock[j] = u
      BY <3>1, LockedRow DEF HoldLabels
    <3> QED BY <3>1 DEF WaitsFor
  <2> QED BY <1>2, <2>1, <2>2 DEF LockedOnly, HoldLabels
<1> QED BY <1>1, <1>2 DEF TxnInv, LockInv, Holding, Committable, Retired

\* Every cycle of lock waits contains a contribute() that has deleted flags and
\* waits for their row, or comes from two contributes of one key that raced: the
\* order in which the other statements take their locks admits no cycle.
THEOREM CyclesExplained == Spec => []CyclesNeedResurrect
<1>1. StoreInv /\ ChildInv /\ FlagInv => CyclesNeedResurrect
  <2> SUFFICES ASSUME StoreInv, ChildInv, FlagInv, NEW S \in SUBSET Sessions, Deadlocked(S),
                      \A t \in S : ~ (pc[t] = "resurrect" /\ chg[t].flagDel # {})
               PROVE  ~ SerialContribute /\ Purger \in S /\ \E v \in todo : ~ StillOld(v)
    BY DEF CyclesNeedResurrect
  <2>0. TypeOK /\ TxnInv /\ Purger \notin Workers
    BY WorkerNotPurger DEF StoreInv, Shape
  <2>1. \A t \in S : WaitsFor(t) # {} /\ \E u \in S : u # t /\ u \in WaitsFor(t)
    BY DEF Deadlocked, WaitsFor
  <2>2. ASSUME NEW u \in S, u \in Workers PROVE FlagLocks(u) = {}
    <3>1. pc[u] # "commit"
      BY <2>1, <2>2 DEF WaitsFor
    <3> QED BY <2>2, <3>1 DEF ChildInv, ChgInv, WorkerChg, FlagLocks
  <2>3. ASSUME NEW u \in S, u \in Workers, pc[u] = "addflag"
        PROVE  Purger \in S /\ <<arg[u].id, arg[u].caller>> \in FlagLocks(Purger)
    <3>1. PICK w \in S : w \in WaitsFor(u)
      BY <2>1
    <3>2. <<arg[u].id, arg[u].caller>> \in FlagLocks(w)
      BY <2>3, <3>1 DEF WaitsFor
    <3> QED BY <2>2, <3>2 DEF Sessions
  <2>4. ASSUME NEW u \in S, u \in Workers, NEW k \in Keys, lock[k] = u
        PROVE  pc[u] = "addflag" /\ fp[k].id = arg[u].id /\ fp[k].status \in Live
    BY <2>1, <2>4, WaitingHolder
  <2>5. Purger \in S
    <3> SUFFICES ASSUME Purger \notin S PROVE FALSE
      OBVIOUS
    <3>1. \A u \in S : u \in Workers
      BY DEF Sessions
    <3>2. PICK t \in S : TRUE
      BY DEF Deadlocked
    <3>3. PICK u \in S : u \in WaitsFor(t)
      BY <2>1
    <3>4. FlagLocks(u) = {}
      BY <2>2, <3>1
    <3>5. t # Purger
      BY <3>1, <2>0
    <3>6. pc[t] \notin {"purge", "anonymize"}
      BY <2>0, <3>5 DEF TxnInv, OpsAt, OpAt
    <3>7. (\E k \in Keys : lock[k] = u) \/ (pc[t] = "arbitrate" /\ lock[KeyOf(t)] = u)
      BY <3>3, <3>4, <3>6 DEF WaitsFor
    <3>8. pc[t] = "arbitrate" => KeyOf(t) \in Keys
      BY <2>0, KeyOfType DEF StoreInv, Shape, ContributeLabels
    <3>9. \E k \in Keys : lock[k] = u
      BY <3>7, <3>8
    <3> QED BY <2>3, <2>4, <3>1, <3>9
  <2>6. PICK u \in S : u # Purger /\ u \in WaitsFor(Purger)
    BY <2>1, <2>5
  <2>7. u \in Workers /\ FlagLocks(u) = {}
    BY <2>2, <2>6 DEF Sessions
  <2>8. pc[Purger] \in {"idle", "reasons", "purge", "anonymize"}
    BY <2>0, PurgerSession DEF TxnInv, OpsAt, OpAt
  <2>9. PICK v \in todo : lock[v[1]] = u
    BY <2>6, <2>7, <2>8 DEF WaitsFor
  <2>10. v[1] \in Keys
    BY <2>0, TypeParts DEF TodoTyped
  <2>11. pc[u] = "addflag" /\ fp[v[1]].id = arg[u].id /\ fp[v[1]].status \in Live
    BY <2>4, <2>7, <2>9, <2>10
  <2>12. ~ StillOld(v)
    BY <2>0, <2>10, <2>11 DEF StillOld, TxnInv, TodoInv, NumberOfTombstone, Live
  <2>13. <<arg[u].id, arg[u].caller>> \in FlagLocks(Purger)
    BY <2>3, <2>7, <2>11
  <2>14. ~ SerialContribute
    <3> PICK f : f = <<arg[u].id, arg[u].caller>>
      OBVIOUS
    <3>1. f \in FlagLocks(Purger) /\ f[1] = fp[v[1]].id
      BY <2>11, <2>13
    <3> QED BY <2>12, <3>1 DEF FlagInv, RevivedFree
  <2> QED BY <2>5, <2>12, <2>14
<1> QED BY <1>1, FlagInvariant, PTL
=============================================================================
