----------------------- MODULE FingerprintStoreProofs -----------------------
(***************************************************************************)
(* Proofs about FingerprintStore, for every value of its constants: types  *)
(* and the cursor first, then what a transaction may change.  That second  *)
(* invariant describes the transactions in flight: whose locks they hold,  *)
(* what they have written under them, which ids and flag rows are theirs.  *)
(* The promises of the write path, and those of Catalog, follow by looking *)
(* at what each commit makes of that.                                      *)
(***************************************************************************)
EXTENDS FingerprintStore, StoreRefinement, FiniteSetTheorems, TLAPS

(* TypeOK, by groups of variables.                                         *)
ChangeType == [flagAdd: SUBSET FlagRow, flagDel: SUBSET FlagRow, flagUpd: SUBSET FlagRow,
               hitAdd: SUBSET HitRow, hitDel: SUBSET HitRow]
ArgType == [op: OpNames \cup {"none"}, caller: Consumers \cup {None},
            phash: Phashes \cup {None}, id: Nat, triple: Triples \cup {None},
            horizon: Nat]
RowsTyped == /\ fp \in [Keys -> Row]
             /\ tip \in [Keys -> Row]
             /\ lock \in [Keys -> Sessions \cup {None}]
ChildTyped == /\ flags \in SUBSET FlagRow
              /\ hits \in SUBSET HitRow
              /\ chg \in [Sessions -> ChangeType]
GenTyped == seq \in Nat /\ lastId \in Nat
DrawnTyped == drawn \in [Sessions -> Nat]
PcTyped == pc \in [Sessions -> Labels]
ArgTyped == arg \in [Sessions -> ArgType]
SeenTyped == seen \in [Sessions -> [status: Status, count: Nat]]
ReplyTyped == reply \in [Sessions -> Replies]
TodoTyped == todo \in SUBSET (Keys \X Nat)
EnvTyped == calls \in Nat /\ faults \in Nat

LEMMA TypeParts ==
  TypeOK <=> /\ RowsTyped /\ ChildTyped /\ GenTyped /\ DrawnTyped /\ PcTyped
             /\ ArgTyped /\ SeenTyped /\ ReplyTyped /\ TodoTyped /\ EnvTyped
  BY DEF TypeOK, RowsTyped, ChildTyped, GenTyped, DrawnTyped, PcTyped, ArgTyped,
         SeenTyped, ReplyTyped, TodoTyped, EnvTyped, ChangeType, ArgType

LEMMA TypePartsNext ==
  ASSUME RowsTyped', ChildTyped', GenTyped', DrawnTyped', PcTyped',
         ArgTyped', SeenTyped', ReplyTyped', TodoTyped', EnvTyped'
  PROVE  TypeOK'
  BY DEF TypeOK, RowsTyped, ChildTyped, GenTyped, DrawnTyped, PcTyped, ArgTyped,
         SeenTyped, ReplyTyped, TodoTyped, EnvTyped, ChangeType, ArgType

(* What a step leaves alone keeps its type.                                *)
LEMMA KeepRows == ASSUME RowsTyped, UNCHANGED rowVars PROVE RowsTyped'
  BY DEF RowsTyped, rowVars
LEMMA KeepChild == ASSUME ChildTyped, UNCHANGED childVars PROVE ChildTyped'
  BY DEF ChildTyped, childVars
LEMMA KeepGen == ASSUME GenTyped, UNCHANGED genVars PROVE GenTyped'
  BY DEF GenTyped, genVars
LEMMA KeepDrawn == ASSUME DrawnTyped, UNCHANGED drawn PROVE DrawnTyped'
  BY DEF DrawnTyped
LEMMA KeepPc == ASSUME PcTyped, UNCHANGED pc PROVE PcTyped'
  BY DEF PcTyped
LEMMA KeepArg == ASSUME ArgTyped, UNCHANGED arg PROVE ArgTyped'
  BY DEF ArgTyped
LEMMA KeepSeen == ASSUME SeenTyped, UNCHANGED seen PROVE SeenTyped'
  BY DEF SeenTyped
LEMMA KeepReply == ASSUME ReplyTyped, UNCHANGED reply PROVE ReplyTyped'
  BY DEF ReplyTyped
LEMMA KeepTodo == ASSUME TodoTyped, UNCHANGED todo PROVE TodoTyped'
  BY DEF TodoTyped
LEMMA KeepEnv == ASSUME EnvTyped, UNCHANGED envVars PROVE EnvTyped'
  BY DEF EnvTyped, envVars

LEMMA NoRowType == NoRow \in Row
  BY DEF NoRow, Row, Status

LEMMA NoArgType == NoArg \in ArgType
  BY DEF NoArg, ArgType

LEMMA NoChangeType == NoChange \in ChangeType
  BY DEF NoChange, ChangeType

LEMMA GotoType ==
  ASSUME PcTyped, NEW t \in Sessions, NEW l \in Labels, Goto(t, l)
  PROVE  PcTyped'
  BY DEF PcTyped, Goto

LEMMA AnswerType ==
  ASSUME PcTyped, ArgTyped, SeenTyped, ReplyTyped,
         NEW t \in Sessions, NEW r \in Replies, Answer(t, r)
  PROVE  PcTyped' /\ ArgTyped' /\ SeenTyped' /\ ReplyTyped'
  BY NoArgType DEF Answer, PcTyped, ArgTyped, SeenTyped, ReplyTyped, Labels, NoSeen, Status

LEMMA AnswerReadOnlyType ==
  ASSUME TypeOK, NEW t \in Sessions, NEW r \in Replies, AnswerReadOnly(t, r)
  PROVE  TypeOK'
<1>1. PcTyped' /\ ArgTyped' /\ SeenTyped' /\ ReplyTyped'
  BY AnswerType, TypeParts DEF AnswerReadOnly
<1>2. RowsTyped' /\ ChildTyped' /\ GenTyped' /\ DrawnTyped' /\ TodoTyped' /\ EnvTyped'
  BY TypeParts, KeepRows, KeepChild, KeepGen, KeepDrawn, KeepTodo, KeepEnv DEF AnswerReadOnly
<1> QED BY <1>1, <1>2, TypePartsNext

LEMMA CommitType ==
  ASSUME RowsTyped, ChildTyped, GenTyped, DrawnTyped, NEW t \in Sessions, CommitTxn(t)
  PROVE  RowsTyped' /\ ChildTyped' /\ GenTyped' /\ DrawnTyped'
<1>1. RowsTyped'
  BY DEF RowsTyped, CommitTxn
<1>2. ChildTyped'
  BY NoChangeType DEF ChildTyped, CommitTxn, ChangeType
<1> QED BY <1>1, <1>2 DEF GenTyped, DrawnTyped, CommitTxn

LEMMA RollbackType ==
  ASSUME RowsTyped, ChildTyped, GenTyped, DrawnTyped, NEW t \in Sessions, RollbackTxn(t)
  PROVE  RowsTyped' /\ ChildTyped' /\ GenTyped' /\ DrawnTyped'
<1>1. RowsTyped'
  BY DEF RowsTyped, RollbackTxn
<1>2. ChildTyped'
  BY NoChangeType DEF ChildTyped, RollbackTxn
<1> QED BY <1>1, <1>2 DEF GenTyped, DrawnTyped, RollbackTxn

LEMMA WriteRowType ==
  ASSUME RowsTyped, PcTyped, NEW t \in Sessions, NEW k \in Keys, NEW r \in Row,
         NEW l \in Labels, WriteRow(t, k, r, l)
  PROVE  RowsTyped' /\ PcTyped'
  BY GotoType DEF RowsTyped, WriteRow

LEMMA NextValType ==
  ASSUME GenTyped, DrawnTyped, NEW t \in Sessions, NextVal(t), lastId' = lastId
  PROVE  GenTyped' /\ DrawnTyped'
  BY DEF NextVal, GenTyped, DrawnTyped

(* Every flag transaction adds at most one row, so flags can be counted.   *)
FlagsFinite ==
  /\ IsFiniteSet(flags)
  /\ \A t \in Sessions : IsFiniteSet(chg[t].flagAdd)

LEMMA BeginType ==
  ASSUME TypeOK, NEW t \in Sessions, NEW a \in ArgType, NEW l \in Labels,
         Begin(t, a, l), ChildTyped'
  PROVE  TypeOK'
<1>1. RowsTyped' /\ GenTyped' /\ DrawnTyped' /\ TodoTyped' /\ SeenTyped'
  BY TypeParts, KeepRows, KeepGen, KeepDrawn, KeepTodo, KeepSeen DEF Begin
<1>2. PcTyped' /\ ArgTyped' /\ ReplyTyped' /\ EnvTyped'
  BY TypeParts, GotoType DEF Begin, ArgTyped, ReplyTyped, EnvTyped, Replies
<1> QED BY <1>1, <1>2, TypePartsNext

LEMMA BeginContributeType ==
  ASSUME TypeOK, NEW t \in Workers, BeginContribute(t) PROVE TypeOK'
<1> PICK c \in Consumers, p \in Phashes, tr \in Triples :
      /\ Begin(t, [NoArg EXCEPT !.op = "contribute", !.caller = c, !.phash = p,
                                !.triple = tr], "select")
      /\ UNCHANGED chg
  BY DEF BeginContribute
<1>1. [NoArg EXCEPT !.op = "contribute", !.caller = c, !.phash = p, !.triple = tr]
        \in ArgType
  BY DEF NoArg, ArgType, OpNames
<1>2. ChildTyped'
  BY TypeParts DEF Begin, ChildTyped
<1> QED BY <1>1, <1>2, BeginType DEF Labels, Sessions

LEMMA BeginOnIdType ==
  ASSUME TypeOK, NEW t \in Workers, NEW op \in OpNames, NEW l \in Labels,
         BeginOnId(t, op, l)
  PROVE  TypeOK'
<1> PICK c \in Consumers, i \in 1..lastId :
      /\ Begin(t, [NoArg EXCEPT !.op = op, !.caller = c, !.id = i], l)
      /\ UNCHANGED chg
  BY DEF BeginOnId
<1>0. i \in Nat
  BY TypeParts DEF GenTyped
<1>1. [NoArg EXCEPT !.op = op, !.caller = c, !.id = i] \in ArgType
  BY <1>0 DEF NoArg, ArgType
<1>2. ChildTyped'
  BY TypeParts DEF Begin, ChildTyped
<1> QED BY <1>1, <1>2, BeginType DEF Sessions

LEMMA BeginRetentionType ==
  ASSUME TypeOK, BeginRetention PROVE TypeOK'
<1> PICK op \in {"retention", "preview"}, H \in SUBSET hits, n \in 0..seq :
      /\ Begin(Purger, [NoArg EXCEPT !.op = op, !.horizon = n], "reasons")
      /\ chg' = [chg EXCEPT ![Purger].hitDel = H]
  BY DEF BeginRetention
<1>0. n \in Nat /\ op \in OpNames
  BY TypeParts DEF GenTyped, OpNames
<1>1. [NoArg EXCEPT !.op = op, !.horizon = n] \in ArgType
  BY <1>0 DEF NoArg, ArgType
<1>2. ChildTyped'
  BY TypeParts DEF Begin, ChildTyped, ChangeType
<1> QED BY <1>1, <1>2, BeginType DEF Labels, Sessions

(* Where the call's arguments are used they are there.                     *)
ContributeLabels == {"select", "clearflags", "resurrect", "insert", "arbitrate", "reselect"}
FlagLabels == {"lockrow", "addflag"}
ArgsPresent ==
  \A t \in Sessions :
    /\ pc[t] \in ContributeLabels =>
         arg[t].phash \in Phashes /\ arg[t].caller \in Consumers /\ arg[t].triple \in Triples
    /\ pc[t] \in FlagLabels => arg[t].caller \in Consumers

LEMMA KeyOfType ==
  ASSUME ArgsPresent, NEW t \in Sessions, pc[t] \in ContributeLabels
  PROVE  KeyOf(t) \in Keys /\ arg[t].triple \in Triples
  BY DEF KeyOf, Keys, ArgsPresent

LEMMA RevivedType ==
  ASSUME NEW row \in Row, NEW n \in Nat, NEW tr \in Triples
  PROVE  Revived(row, n, tr) \in Row
  BY DEF Revived, Row, Status

LEMMA DeletedType ==
  ASSUME NEW row \in Row, NEW n \in Nat
  PROVE  Deleted(row, n) \in Row
  BY DEF Deleted, Row, Status

(* One lemma per action of a worker: it preserves TypeOK.                  *)
LEMMA SelectExistingType ==
  ASSUME TypeOK, ArgsPresent, NEW t \in Sessions, SelectExisting(t) PROVE TypeOK'
<1> KeyOf(t) \in Keys
  BY KeyOfType DEF SelectExisting, ContributeLabels
<1>1. CASE AnswerReadOnly(t, "409")
  BY <1>1, AnswerReadOnlyType DEF Replies
<1>2. CASE /\ arg' = [arg EXCEPT ![t].id = fp[KeyOf(t)].id]
           /\ Goto(t, "clearflags")
           /\ UNCHANGED <<rowVars, childVars, genVars, seen, drawn, todo, reply, envVars>>
  <2>1. ArgTyped'
    BY <1>2, TypeParts DEF ArgTyped, ArgType, RowsTyped, Row
  <2> QED BY <1>2, <2>1, TypeParts, GotoType, KeepRows, KeepChild, KeepGen, KeepSeen,
             KeepDrawn, KeepTodo, KeepReply, KeepEnv, TypePartsNext DEF Labels
<1>3. CASE /\ Goto(t, "insert")
           /\ UNCHANGED <<rowVars, childVars, genVars, arg, seen, drawn, todo, reply, envVars>>
  BY <1>3, TypeParts, GotoType, KeepRows, KeepChild, KeepGen, KeepArg, KeepSeen,
     KeepDrawn, KeepTodo, KeepReply, KeepEnv, TypePartsNext DEF Labels
<1> QED BY <1>1, <1>2, <1>3 DEF SelectExisting

LEMMA ClearFlagsType ==
  ASSUME TypeOK, NEW t \in Sessions, ClearFlags(t) PROVE TypeOK'
<1>1. ChildTyped'
  BY TypeParts DEF ClearFlags, ChildTyped, ChangeType, FlagsOf
<1> QED BY <1>1, TypeParts, GotoType, KeepRows, KeepGen, KeepArg, KeepSeen, KeepDrawn,
           KeepTodo, KeepReply, KeepEnv, TypePartsNext DEF ClearFlags, Labels

LEMMA ResurrectType ==
  ASSUME TypeOK, ArgsPresent, NEW t \in Sessions, Resurrect(t) PROVE TypeOK'
<1> KeyOf(t) \in Keys /\ arg[t].triple \in Triples
  BY KeyOfType DEF Resurrect, ContributeLabels
<1>1. Revived(fp[KeyOf(t)], seq + 1, arg[t].triple) \in Row
  BY RevivedType, TypeParts DEF RowsTyped, GenTyped
<1>2. RowsTyped' /\ PcTyped'
  BY <1>1, WriteRowType, TypeParts DEF Resurrect, Labels
<1>3. GenTyped' /\ DrawnTyped'
  BY NextValType, TypeParts DEF Resurrect
<1> QED BY <1>2, <1>3, TypeParts, KeepChild, KeepArg, KeepSeen, KeepTodo, KeepReply,
           KeepEnv, TypePartsNext DEF Resurrect

LEMMA EndCommitted ==
  ASSUME TypeOK, NEW t \in Sessions, NEW r \in Replies, CommitTxn(t), Answer(t, r),
         TodoTyped', EnvTyped'
  PROVE  TypeOK'
  BY TypeParts, CommitType, AnswerType, TypePartsNext

LEMMA EndRolledBack ==
  ASSUME TypeOK, NEW t \in Sessions, NEW r \in Replies, RollbackTxn(t), Answer(t, r),
         TodoTyped', EnvTyped'
  PROVE  TypeOK'
  BY TypeParts, RollbackType, AnswerType, TypePartsNext

LEMMA ResurrectGoneType ==
  ASSUME TypeOK, NEW t \in Sessions, ResurrectGone(t) PROVE TypeOK'
  BY EndCommitted, TypeParts, KeepTodo, KeepEnv DEF ResurrectGone, Replies

LEMMA BadParameterType ==
  ASSUME TypeOK, NEW t \in Sessions, BadParameter(t) PROVE TypeOK'
  BY EndRolledBack, TypeParts, KeepTodo, KeepEnv DEF BadParameter, Replies

LEMMA EvaluateDefaultsType ==
  ASSUME TypeOK, NEW t \in Sessions, EvaluateDefaults(t) PROVE TypeOK'
<1>1. GenTyped' /\ DrawnTyped' /\ ArgTyped'
  BY TypeParts DEF EvaluateDefaults, NextVal, GenTyped, DrawnTyped, ArgTyped, ArgType
<1> QED BY <1>1, TypeParts, GotoType, KeepRows, KeepChild, KeepSeen, KeepTodo, KeepReply,
           KeepEnv, TypePartsNext DEF EvaluateDefaults, Labels

LEMMA InsertOrNothingType ==
  ASSUME TypeOK, ArgsPresent, NEW t \in Sessions, InsertOrNothing(t) PROVE TypeOK'
<1> KeyOf(t) \in Keys /\ arg[t].triple \in Triples
  BY KeyOfType DEF InsertOrNothing, ContributeLabels
<1>1. Inserted(t) \in Row
  BY TypeParts DEF Inserted, NoRow, Row, Status, DrawnTyped, ArgTyped, ArgType
<1>2. RowsTyped' /\ PcTyped' /\ DrawnTyped'
  <2>1. CASE WriteRow(t, KeyOf(t), Inserted(t), "commit") /\ UNCHANGED drawn
    BY <1>1, <2>1, WriteRowType, KeepDrawn, TypeParts DEF Labels
  <2>2. CASE /\ Goto(t, "reselect")
             /\ drawn' = [drawn EXCEPT ![t] = 0]
             /\ UNCHANGED rowVars
    BY <2>2, GotoType, KeepRows, TypeParts DEF Labels, DrawnTyped
  <2> QED BY <2>1, <2>2 DEF InsertOrNothing
<1> QED BY <1>2, TypeParts, KeepChild, KeepGen, KeepArg, KeepSeen, KeepTodo, KeepReply,
           KeepEnv, TypePartsNext DEF InsertOrNothing

LEMMA SelectWinnerType ==
  ASSUME TypeOK, NEW t \in Sessions, SelectWinner(t) PROVE TypeOK'
  BY AnswerReadOnlyType DEF SelectWinner, Replies

LEMMA LockRowType ==
  ASSUME TypeOK, NEW t \in Sessions, LockRow(t) PROVE TypeOK'
<1> PICK k \in Keys :
      \/ AnswerReadOnly(t, "404")
      \/ /\ Hold(t, k)
         /\ seen' = [seen EXCEPT ![t].status = fp[k].status]
         /\ Goto(t, IF arg[t].op = "flag" THEN "addflag" ELSE "bumphit")
         /\ UNCHANGED <<fp, tip, childVars, genVars, arg, drawn, todo, reply, envVars>>
  BY DEF LockRow
<1>1. CASE AnswerReadOnly(t, "404")
  BY <1>1, AnswerReadOnlyType DEF Replies
<1>2. CASE ~ AnswerReadOnly(t, "404")
  <2>1. RowsTyped'
    BY <1>2, TypeParts DEF RowsTyped, Hold
  <2>2. SeenTyped'
    BY <1>2, TypeParts DEF SeenTyped, RowsTyped, Row
  <2>3. PcTyped'
    BY <1>2, TypeParts, GotoType DEF Labels
  <2> QED BY <1>2, <2>1, <2>2, <2>3, TypeParts, KeepChild, KeepGen, KeepArg, KeepDrawn,
             KeepTodo, KeepReply, KeepEnv, TypePartsNext
<1> QED BY <1>1, <1>2

LEMMA LockMissingType ==
  ASSUME TypeOK, NEW t \in Sessions, LockMissing(t) PROVE TypeOK'
  BY AnswerReadOnlyType DEF LockMissing, Replies

LEMMA AddFlagType ==
  ASSUME TypeOK, ArgsPresent, NEW t \in Sessions, AddFlag(t) PROVE TypeOK'
<1>1. <<arg[t].id, arg[t].caller>> \in FlagRow
  BY TypeParts DEF AddFlag, ArgsPresent, FlagLabels, FlagRow, ArgTyped, ArgType
<1>2. ChildTyped'
  BY <1>1, TypeParts DEF AddFlag, ChildTyped, ChangeType
<1> QED BY <1>2, TypeParts, GotoType, KeepRows, KeepGen, KeepArg, KeepSeen, KeepDrawn,
           KeepTodo, KeepReply, KeepEnv, TypePartsNext DEF AddFlag, Labels

LEMMA CountFlagsType ==
  ASSUME TypeOK, FlagsFinite, NEW t \in Sessions, CountFlags(t) PROVE TypeOK'
<1>1. IsFiniteSet(FlagsOf(arg[t].id) \cup chg[t].flagAdd)
  BY FS_Subset, FS_Union DEF FlagsFinite, FlagsOf
<1>2. Cardinality(FlagsOf(arg[t].id) \cup chg[t].flagAdd) \in Nat
  BY <1>1, FS_CardinalityType
<1>3. SeenTyped'
  BY <1>2, TypeParts DEF CountFlags, SeenTyped
<1> QED BY <1>3, TypeParts, GotoType, KeepRows, KeepChild, KeepGen, KeepArg, KeepDrawn,
           KeepTodo, KeepReply, KeepEnv, TypePartsNext DEF CountFlags, Labels

LEMMA ApplyFlagType ==
  ASSUME TypeOK, NEW t \in Sessions, ApplyFlag(t) PROVE TypeOK'
<1> PICK k \in Keys :
      \/ /\ NextVal(t)
         /\ WriteRow(t, k, [fp[k] EXCEPT !.status = "hidden", !.seq = seq + 1,
                                         !.flagCount = seen[t].count], "commit")
      \/ /\ NoNextVal
         /\ WriteRow(t, k, [fp[k] EXCEPT !.flagCount = seen[t].count], "commit")
  BY DEF ApplyFlag
<1>1. seen[t].count \in Nat /\ fp[k] \in Row /\ seq + 1 \in Nat
  BY TypeParts DEF SeenTyped, RowsTyped, GenTyped
<1>2. /\ [fp[k] EXCEPT !.status = "hidden", !.seq = seq + 1,
                       !.flagCount = seen[t].count] \in Row
      /\ [fp[k] EXCEPT !.flagCount = seen[t].count] \in Row
  BY <1>1 DEF Row, Status
<1>3. RowsTyped' /\ PcTyped'
  BY <1>2, WriteRowType, TypeParts DEF Labels
<1>4. GenTyped' /\ DrawnTyped'
  BY NextValType, TypeParts DEF ApplyFlag, NoNextVal, GenTyped, DrawnTyped
<1> QED BY <1>3, <1>4, TypeParts, KeepChild, KeepArg, KeepSeen, KeepTodo, KeepReply,
           KeepEnv, TypePartsNext DEF ApplyFlag

LEMMA BumpHitType ==
  ASSUME TypeOK, NEW t \in Sessions, BumpHit(t) PROVE TypeOK'
<1> PICK k \in Keys :
      /\ NoNextVal
      /\ WriteRow(t, k, [fp[k] EXCEPT !.hitCount = @ + 1], "commit")
      /\ chg' = [chg EXCEPT ![t].hitAdd = {<<arg[t].id, fp[k].hitCount + 1>>}]
  BY DEF BumpHit
<1>1. /\ [fp[k] EXCEPT !.hitCount = @ + 1] \in Row
      /\ <<arg[t].id, fp[k].hitCount + 1>> \in HitRow
  BY TypeParts DEF RowsTyped, Row, HitRow, ArgTyped, ArgType
<1>2. RowsTyped' /\ PcTyped'
  BY <1>1, WriteRowType, TypeParts DEF Labels
<1>3. ChildTyped'
  BY <1>1, TypeParts DEF BumpHit, ChildTyped, ChangeType
<1>4. GenTyped' /\ DrawnTyped'
  BY TypeParts DEF BumpHit, NoNextVal, GenTyped, DrawnTyped
<1> QED BY <1>2, <1>3, <1>4, TypeParts, KeepArg, KeepSeen, KeepTodo, KeepReply,
           KeepEnv, TypePartsNext DEF BumpHit

LEMMA CheckOwnerType ==
  ASSUME TypeOK, NEW t \in Sessions, CheckOwner(t) PROVE TypeOK'
<1>1. CASE \E r \in {"404", "403"} : AnswerReadOnly(t, r)
  BY <1>1, AnswerReadOnlyType DEF Replies
<1>2. CASE /\ Goto(t, "softdelete")
           /\ UNCHANGED <<rowVars, childVars, genVars, arg, seen, drawn, todo, reply, envVars>>
  BY <1>2, TypeParts, GotoType, KeepRows, KeepChild, KeepGen, KeepArg, KeepSeen, KeepDrawn,
     KeepTodo, KeepReply, KeepEnv, TypePartsNext DEF Labels
<1> QED BY <1>1, <1>2 DEF CheckOwner

LEMMA SoftDeleteType ==
  ASSUME TypeOK, NEW t \in Sessions, SoftDelete(t) PROVE TypeOK'
<1> PICK k \in Keys : NextVal(t) /\ WriteRow(t, k, Deleted(fp[k], seq + 1), "commit")
  BY DEF SoftDelete
<1>1. Deleted(fp[k], seq + 1) \in Row
  BY DeletedType, TypeParts DEF RowsTyped, GenTyped
<1>2. RowsTyped' /\ PcTyped'
  BY <1>1, WriteRowType, TypeParts DEF Labels
<1>3. GenTyped' /\ DrawnTyped'
  BY NextValType, TypeParts DEF SoftDelete
<1> QED BY <1>2, <1>3, TypeParts, KeepChild, KeepArg, KeepSeen, KeepTodo, KeepReply,
           KeepEnv, TypePartsNext DEF SoftDelete

LEMMA SoftDeleteNothingType ==
  ASSUME TypeOK, NEW t \in Sessions, SoftDeleteNothing(t) PROVE TypeOK'
  BY AnswerReadOnlyType DEF SoftDeleteNothing, Replies

LEMMA CommitActionType ==
  ASSUME TypeOK, NEW t \in Sessions, Commit(t) PROVE TypeOK'
<1>1. Success(arg[t].op) \in Replies
  BY DEF Success, Replies
<1> QED BY <1>1, EndCommitted, TypeParts, KeepTodo, KeepEnv DEF Commit

(* The steps of the retention process.                                     *)
LEMMA TombstonesType ==
  ASSUME TypeOK, NEW K \in SUBSET Keys PROVE Tombstones(K) \subseteq Keys \X Nat
  BY TypeParts DEF Tombstones, RowsTyped, Row

LEMMA PurgerSession == Purger \in Sessions
  BY DEF Sessions

LEMMA ClearReasonsType ==
  ASSUME TypeOK, ClearReasons PROVE TypeOK'
<1>1. ChildTyped'
  BY TypeParts, PurgerSession DEF ClearReasons, ChildTyped, ChangeType
<1>2. TodoTyped'
  BY TombstonesType DEF ClearReasons, TodoTyped
<1> QED BY <1>1, <1>2, TypeParts, PurgerSession, GotoType, KeepRows, KeepGen, KeepArg,
           KeepSeen, KeepDrawn, KeepReply, KeepEnv, TypePartsNext DEF ClearReasons, Labels

LEMMA VisitedType ==
  ASSUME TypeOK, PurgeRow \/ AnonymizeRow PROVE TypeOK'
<1> PICK l \in {"purge", "anonymize"}, v \in todo, r \in Row :
      /\ todo' = todo \ {v}
      /\ WriteRow(Purger, v[1], r, l) \/ UNCHANGED <<rowVars, pc>>
  <2>1. \A v \in todo : fp[v[1]] \in Row
    BY TypeParts DEF TodoTyped, RowsTyped
  <2>2. \A v \in todo : Erase(fp[v[1]]) \in Row /\ ForgetSource(fp[v[1]]) \in Row
    BY <2>1, NoRowType DEF Erase, ForgetSource, Row
  <2>3. CASE PurgeRow
    BY <2>2, <2>3 DEF PurgeRow, VisitTombstone
  <2>4. CASE AnonymizeRow
    BY <2>2, <2>4 DEF AnonymizeRow, VisitTombstone
  <2> QED BY <2>3, <2>4
<1>1. UNCHANGED <<childVars, genVars, arg, seen, drawn, reply, envVars>>
  BY DEF PurgeRow, AnonymizeRow, VisitTombstone
<1>2. v[1] \in Keys /\ TodoTyped'
  BY TypeParts DEF TodoTyped
<1>3. RowsTyped' /\ PcTyped'
  BY <1>2, TypeParts, PurgerSession, WriteRowType, KeepRows, KeepPc DEF Labels
<1> QED BY <1>1, <1>2, <1>3, TypeParts, KeepChild, KeepGen, KeepArg, KeepSeen, KeepDrawn,
           KeepReply, KeepEnv, TypePartsNext

LEMMA CascadeType ==
  ASSUME TypeOK, Cascade PROVE TypeOK'
<1>1. ChildTyped'
  BY TypeParts, PurgerSession DEF Cascade, ChildTyped, ChangeType
<1>2. TodoTyped'
  <2>1. Tombstones({k \in Keys : lock[k] # Purger /\ fp[k].meta}) \subseteq Keys \X Nat
    BY TombstonesType
  <2> QED BY <2>1 DEF Cascade, TodoTyped
<1> QED BY <1>1, <1>2, TypeParts, PurgerSession, GotoType, KeepRows, KeepGen, KeepArg,
           KeepSeen, KeepDrawn, KeepReply, KeepEnv, TypePartsNext DEF Cascade, Labels

LEMMA EndRetentionType ==
  ASSUME TypeOK, EndRetention PROVE TypeOK'
<1>1. TodoTyped' /\ EnvTyped'
  BY TypeParts, KeepTodo, KeepEnv DEF EndRetention
<1> QED BY <1>1, PurgerSession, EndCommitted, EndRolledBack DEF EndRetention, Replies

LEMMA FailType ==
  ASSUME TypeOK, NEW t \in Sessions, RollbackTxn(t) \/ CommitTxn(t), Fail(t), faults' \in Nat
  PROVE  TypeOK'
<1>1. TodoTyped' /\ EnvTyped'
  BY TypeParts DEF Fail, TodoTyped, EnvTyped
<1> QED BY <1>1, EndCommitted, EndRolledBack DEF Fail, Replies

LEMMA FaultType ==
  ASSUME TypeOK, NEW t \in Sessions, LoseConnection(t) \/ DeadlockVictim(t) PROVE TypeOK'
<1>1. faults' \in Nat
  BY TypeParts DEF EnvTyped, LoseConnection, DeadlockVictim
<1> QED BY <1>1, FailType DEF LoseConnection, DeadlockVictim

(* TypeOK is preserved by every step.                                      *)
LEMMA StepType ==
  ASSUME TypeOK, ArgsPresent, FlagsFinite, [Next]_vars PROVE TypeOK'
<1>1. CASE Issue
  <2>1. ASSUME NEW t \in Workers,
               BeginContribute(t) \/ BeginFlag(t) \/ BeginHit(t) \/ BeginDelete(t)
        PROVE  TypeOK'
    BY <2>1, BeginContributeType, BeginOnIdType
       DEF BeginFlag, BeginHit, BeginDelete, OpNames, Labels
  <2> QED BY <1>1, <2>1, BeginRetentionType DEF Issue
<1>2. ASSUME NEW t \in Workers, WorkerStep(t) PROVE TypeOK'
  <2> t \in Sessions
    BY DEF Sessions
  <2> QED BY <1>2, SelectExistingType, ClearFlagsType, ResurrectType, ResurrectGoneType,
             EvaluateDefaultsType, InsertOrNothingType, SelectWinnerType, LockRowType,
             LockMissingType, AddFlagType, CountFlagsType, ApplyFlagType, BumpHitType,
             CheckOwnerType, SoftDeleteType, SoftDeleteNothingType, CommitActionType,
             BadParameterType
          DEF WorkerStep
<1>3. CASE PurgerStep
  BY <1>3, ClearReasonsType, VisitedType, CascadeType, EndRetentionType DEF PurgerStep
<1>4. ASSUME NEW t \in Sessions, LoseConnection(t) \/ DeadlockVictim(t) PROVE TypeOK'
  BY <1>4, FaultType
<1>5. CASE UNCHANGED vars
  BY <1>5, TypeParts, KeepRows, KeepChild, KeepGen, KeepDrawn, KeepPc, KeepArg, KeepSeen,
     KeepReply, KeepTodo, KeepEnv, TypePartsNext DEF vars, rowVars, childVars, genVars, envVars
<1> QED BY <1>1, <1>2, <1>3, <1>4, <1>5 DEF Next, Done

(* ArgsPresent and FlagsFinite are preserved by every step.                *)
LEMMA ArgsGoto ==
  ASSUME TypeOK, ArgsPresent, NEW t \in Sessions, NEW l \in Labels, Goto(t, l),
         \A u \in Sessions : /\ arg'[u].phash = arg[u].phash
                             /\ arg'[u].caller = arg[u].caller
                             /\ arg'[u].triple = arg[u].triple,
         l \in ContributeLabels => pc[t] \in ContributeLabels,
         l \in FlagLabels => pc[t] \in FlagLabels
  PROVE  ArgsPresent'
  BY TypeParts DEF ArgsPresent, Goto, PcTyped

LEMMA ArgsAnswer ==
  ASSUME TypeOK, ArgsPresent, NEW t \in Sessions, NEW r, Answer(t, r)
  PROVE  ArgsPresent'
  BY TypeParts DEF ArgsPresent, Answer, PcTyped, ArgTyped, ContributeLabels, FlagLabels

LEMMA ArgsBegin ==
  ASSUME TypeOK, ArgsPresent, NEW t \in Sessions, NEW a, NEW l, Begin(t, a, l),
         l \in ContributeLabels =>
           a.phash \in Phashes /\ a.caller \in Consumers /\ a.triple \in Triples,
         l \in FlagLabels => a.caller \in Consumers
  PROVE  ArgsPresent'
  BY TypeParts DEF ArgsPresent, Begin, Goto, PcTyped, ArgTyped

LEMMA IssueArgs ==
  ASSUME TypeOK, ArgsPresent, Issue PROVE ArgsPresent'
<1>1. ASSUME NEW t \in Workers, BeginContribute(t) PROVE ArgsPresent'
  <2> PICK c \in Consumers, p \in Phashes, tr \in Triples :
        Begin(t, [NoArg EXCEPT !.op = "contribute", !.caller = c, !.phash = p,
                               !.triple = tr], "select")
    BY <1>1 DEF BeginContribute
  <2>1. LET a == [NoArg EXCEPT !.op = "contribute", !.caller = c, !.phash = p, !.triple = tr]
        IN  a.phash = p /\ a.caller = c /\ a.triple = tr
    BY DEF NoArg
  <2> QED BY <2>1, ArgsBegin DEF FlagLabels, Sessions
<1>2. ASSUME NEW t \in Workers, NEW op, NEW l \in Labels \ ContributeLabels,
             BeginOnId(t, op, l)
      PROVE  ArgsPresent'
  <2> PICK c \in Consumers, i \in 1..lastId :
        Begin(t, [NoArg EXCEPT !.op = op, !.caller = c, !.id = i], l)
    BY <1>2 DEF BeginOnId
  <2>1. [NoArg EXCEPT !.op = op, !.caller = c, !.id = i].caller = c
    BY DEF NoArg
  <2> QED BY <2>1, ArgsBegin DEF Sessions
<1>3. CASE BeginRetention
  <2> PICK op \in {"retention", "preview"}, n \in 0..seq :
        Begin(Purger, [NoArg EXCEPT !.op = op, !.horizon = n], "reasons")
    BY <1>3 DEF BeginRetention
  <2> QED BY ArgsBegin, PurgerSession DEF ContributeLabels, FlagLabels
<1> QED BY <1>1, <1>2, <1>3
        DEF Issue, BeginFlag, BeginHit, BeginDelete, Labels, ContributeLabels

LEMMA WorkerArgs ==
  ASSUME TypeOK, ArgsPresent, NEW t \in Sessions, WorkerStep(t) PROVE ArgsPresent'
<1>1. CASE \E r : Answer(t, r)
  BY <1>1, ArgsAnswer
<1>2. CASE \E l \in Labels \ (ContributeLabels \cup FlagLabels) : Goto(t, l) /\ arg' = arg
  BY <1>2, ArgsGoto
<1>3. CASE SelectExisting(t)
  <2>1. CASE \E r : AnswerReadOnly(t, r)
    BY <2>1, <1>1 DEF AnswerReadOnly
  <2>2. CASE \E l \in {"clearflags", "insert"} : \E i :
               Goto(t, l) /\ (arg' = arg \/ arg' = [arg EXCEPT ![t].id = i])
    BY <1>3, <2>2, ArgsGoto, TypeParts
       DEF SelectExisting, ContributeLabels, FlagLabels, Labels, ArgTyped, ArgType
  <2> QED BY <1>3, <2>1, <2>2 DEF SelectExisting
<1>4. CASE ClearFlags(t)
  BY <1>4, ArgsGoto DEF ClearFlags, Labels, ContributeLabels, FlagLabels
<1>5. CASE EvaluateDefaults(t)
  BY <1>5, ArgsGoto, TypeParts
     DEF EvaluateDefaults, Labels, ContributeLabels, FlagLabels, ArgTyped, ArgType
<1>6. CASE InsertOrNothing(t)
  BY <1>6, ArgsGoto DEF InsertOrNothing, WriteRow, Labels, ContributeLabels, FlagLabels
<1>7. CASE LockRow(t)
  BY <1>7, ArgsGoto, ArgsAnswer
     DEF LockRow, AnswerReadOnly, Labels, ContributeLabels, FlagLabels
<1>8. CASE Resurrect(t) \/ AddFlag(t) \/ CountFlags(t) \/ ApplyFlag(t) \/ BumpHit(t)
           \/ SoftDelete(t)
  BY <1>8, <1>2 DEF Resurrect, AddFlag, CountFlags, ApplyFlag, BumpHit, SoftDelete, WriteRow,
                    Labels, ContributeLabels, FlagLabels
<1>9. CASE CheckOwner(t)
  BY <1>9, <1>1, <1>2 DEF CheckOwner, AnswerReadOnly, Labels, ContributeLabels, FlagLabels
<1> QED BY <1>1, <1>3, <1>4, <1>5, <1>6, <1>7, <1>8, <1>9
        DEF WorkerStep, ResurrectGone, SelectWinner, LockMissing, SoftDeleteNothing, Commit,
            BadParameter, AnswerReadOnly

LEMMA StepArgs ==
  ASSUME TypeOK, ArgsPresent, [Next]_vars PROVE ArgsPresent'
<1>1. CASE Issue
  BY <1>1, IssueArgs
<1>2. ASSUME NEW t \in Workers, WorkerStep(t) PROVE ArgsPresent'
  BY <1>2, WorkerArgs DEF Sessions
<1>3. CASE PurgerStep
  <2>1. CASE EndRetention
    BY <2>1, ArgsAnswer, PurgerSession DEF EndRetention
  <2>2. CASE PurgeRow \/ AnonymizeRow
    <3>1. /\ arg' = arg
          /\ UNCHANGED pc \/ Goto(Purger, "purge") \/ Goto(Purger, "anonymize")
      BY <2>2 DEF PurgeRow, AnonymizeRow, VisitTombstone, WriteRow
    <3>2. CASE UNCHANGED pc
      BY <3>1, <3>2 DEF ArgsPresent
    <3> QED BY <3>1, <3>2, ArgsGoto, PurgerSession DEF Labels, ContributeLabels, FlagLabels
  <2>3. CASE ClearReasons \/ Cascade
    BY <2>3, ArgsGoto, PurgerSession
       DEF ClearReasons, Cascade, Labels, ContributeLabels, FlagLabels
  <2> QED BY <1>3, <2>1, <2>2, <2>3 DEF PurgerStep
<1>4. ASSUME NEW t \in Sessions, LoseConnection(t) \/ DeadlockVictim(t) PROVE ArgsPresent'
  BY <1>4, ArgsAnswer DEF LoseConnection, DeadlockVictim, Fail
<1>5. CASE UNCHANGED vars
  BY <1>5 DEF vars, ArgsPresent
<1> QED BY <1>1, <1>2, <1>3, <1>4, <1>5 DEF Next, Done

LEMMA CommitFinite ==
  ASSUME TypeOK, FlagsFinite, NEW t \in Sessions, CommitTxn(t) PROVE FlagsFinite'
<1>1. IsFiniteSet(flags')
  <2>1. IsFiniteSet(flags \ chg[t].flagDel)
    BY FS_Subset DEF FlagsFinite
  <2> QED BY <2>1, FS_Union DEF FlagsFinite, CommitTxn
<1>2. \A u \in Sessions : chg'[u].flagAdd = IF u = t THEN {} ELSE chg[u].flagAdd
  BY TypeParts DEF CommitTxn, ChildTyped, NoChange
<1> QED BY <1>1, <1>2, FS_EmptySet DEF FlagsFinite

LEMMA RollbackFinite ==
  ASSUME TypeOK, FlagsFinite, NEW t \in Sessions, RollbackTxn(t) PROVE FlagsFinite'
<1>1. \A u \in Sessions : chg'[u].flagAdd = IF u = t THEN {} ELSE chg[u].flagAdd
  BY TypeParts DEF RollbackTxn, ChildTyped, NoChange
<1> QED BY <1>1, FS_EmptySet DEF FlagsFinite, RollbackTxn

LEMMA KeepFinite ==
  ASSUME FlagsFinite, flags' = flags,
         \A u \in Sessions : chg'[u].flagAdd = chg[u].flagAdd
  PROVE  FlagsFinite'
  BY DEF FlagsFinite

LEMMA AddFlagFinite ==
  ASSUME TypeOK, FlagsFinite, NEW t \in Sessions, AddFlag(t) PROVE FlagsFinite'
<1>1. \A u \in Sessions :
        chg'[u].flagAdd = IF u = t THEN {<<arg[t].id, arg[t].caller>>} \ flags
                          ELSE chg[u].flagAdd
  BY TypeParts DEF AddFlag, ChildTyped, ChangeType
<1>2. IsFiniteSet({<<arg[t].id, arg[t].caller>>} \ flags)
  <2>1. \A x : IsFiniteSet({x})
    BY FS_Singleton
  <2> QED BY <2>1, FS_Subset
<1> QED BY <1>1, <1>2 DEF FlagsFinite, AddFlag

LEMMA StepFinite ==
  ASSUME TypeOK, FlagsFinite, [Next]_vars PROVE FlagsFinite'
<1>1. CASE UNCHANGED childVars
  BY <1>1, KeepFinite DEF childVars
<1>2. CASE Issue
  <2>1. flags' = flags
    BY <1>2 DEF Issue, BeginContribute, BeginFlag, BeginHit, BeginDelete, BeginOnId,
                BeginRetention, Begin
  <2>2. \A u \in Sessions : chg'[u].flagAdd = chg[u].flagAdd
    <3>1. chg' = chg \/ \E H : chg' = [chg EXCEPT ![Purger].hitDel = H]
      BY <1>2 DEF Issue, BeginContribute, BeginFlag, BeginHit, BeginDelete, BeginOnId,
                  BeginRetention
    <3> QED BY <3>1, TypeParts DEF ChildTyped, ChangeType
  <2> QED BY <2>1, <2>2, KeepFinite
<1>3. ASSUME NEW t \in Workers, WorkerStep(t) PROVE FlagsFinite'
  <2> t \in Sessions
    BY DEF Sessions
  <2>1. CASE AddFlag(t)
    BY <2>1, AddFlagFinite
  <2>2. CASE ClearFlags(t)
    BY <2>2, KeepFinite, TypeParts DEF ClearFlags, ChildTyped, ChangeType
  <2>3. CASE BumpHit(t)
    BY <2>3, KeepFinite, TypeParts DEF BumpHit, ChildTyped, ChangeType
  <2>4. CASE ResurrectGone(t) \/ Commit(t)
    BY <2>4, CommitFinite DEF ResurrectGone, Commit
  <2>5. CASE BadParameter(t)
    BY <2>5, RollbackFinite DEF BadParameter
  <2> QED BY <1>1, <1>3, <2>1, <2>2, <2>3, <2>4, <2>5
          DEF WorkerStep, SelectExisting, Resurrect, EvaluateDefaults, InsertOrNothing,
              SelectWinner, LockRow, LockMissing, CountFlags, ApplyFlag, CheckOwner,
              SoftDelete, SoftDeleteNothing, AnswerReadOnly
<1>4. CASE PurgerStep
  <2>1. CASE ClearReasons
    BY <2>1, KeepFinite, TypeParts DEF ClearReasons, ChildTyped, ChangeType
  <2>2. CASE Cascade
    BY <2>2, KeepFinite, TypeParts DEF Cascade, ChildTyped, ChangeType
  <2>3. CASE PurgeRow \/ AnonymizeRow
    BY <2>3, <1>1 DEF PurgeRow, AnonymizeRow, VisitTombstone
  <2>4. CASE EndRetention
    BY <2>4, CommitFinite, RollbackFinite, PurgerSession DEF EndRetention
  <2> QED BY <1>4, <2>1, <2>2, <2>3, <2>4 DEF PurgerStep
<1>5. ASSUME NEW t \in Sessions, LoseConnection(t) \/ DeadlockVictim(t) PROVE FlagsFinite'
  BY <1>5, CommitFinite, RollbackFinite DEF LoseConnection, DeadlockVictim
<1>6. CASE UNCHANGED vars
  BY <1>6, <1>1 DEF vars, childVars
<1> QED BY <1>2, <1>3, <1>4, <1>5, <1>6 DEF Next, Done

-----------------------------------------------------------------------------
(* Type correctness.                                                       *)
Shape == TypeOK /\ ArgsPresent /\ FlagsFinite

LEMMA ShapeInit == Init => Shape
<1> SUFFICES ASSUME Init PROVE Shape
  OBVIOUS
<1>1. TypeOK
  <2>1. RowsTyped
    BY NoRowType DEF Init, RowsTyped
  <2>2. ChildTyped
    BY NoChangeType DEF Init, ChildTyped
  <2>3. ArgTyped
    BY NoArgType DEF Init, ArgTyped
  <2>4. PcTyped /\ SeenTyped /\ ReplyTyped
    BY DEF Init, PcTyped, SeenTyped, ReplyTyped, Labels, NoSeen, Status, Replies
  <2>5. GenTyped /\ DrawnTyped /\ TodoTyped /\ EnvTyped
    BY DEF Init, GenTyped, DrawnTyped, TodoTyped, EnvTyped
  <2> QED BY <2>1, <2>2, <2>3, <2>4, <2>5, TypeParts
<1>2. ArgsPresent
  BY DEF Init, ArgsPresent, ContributeLabels, FlagLabels
<1>3. FlagsFinite
  BY FS_EmptySet DEF Init, FlagsFinite, NoChange
<1> QED BY <1>1, <1>2, <1>3 DEF Shape

LEMMA ShapeInv == Spec => []Shape
<1>1. Shape /\ [Next]_vars => Shape'
  BY StepType, StepArgs, StepFinite DEF Shape
<1> QED BY ShapeInit, <1>1, PTL DEF Spec

\* Every reachable state of the write path is well typed: rows keep a status
\* of the CHECK constraint and natural counters, and every call's answer is
\* one the handlers give, for any number of consumers, hashes and workers.
THEOREM TypeCorrect == Spec => []TypeOK
<1>1. Shape => TypeOK
  BY DEF Shape
<1> QED BY ShapeInv, <1>1, PTL

-----------------------------------------------------------------------------
(* The cursor is a key.  SeqUnique alone is not inductive: an INSERT draws *)
(* its number one statement before it writes the row, so the numbers of    *)
(* waiting inserts have to be kept apart from the rows and from each other.*)
SeqInv ==
  /\ SeqUnique
  /\ \A t \in Sessions : pc[t] = "arbitrate" =>
       /\ drawn[t] <= seq
       /\ \A k \in Keys : ~ Carries(k, drawn[t])
       /\ \A u \in Sessions : (u # t /\ pc[u] = "arbitrate") => drawn[u] # drawn[t]

\* Steps that bring no new number into the rows.
LEMMA SeqKept ==
  ASSUME TypeOK, SeqInv, TypeOK', seq' = seq,
         \A k \in Keys : /\ fp'[k].seq \in {0, fp[k].seq, tip[k].seq}
                         /\ tip'[k].seq \in {0, fp[k].seq, tip[k].seq},
         \A t \in Sessions : pc'[t] = "arbitrate" =>
                               pc[t] = "arbitrate" /\ drawn'[t] = drawn[t]
  PROVE  SeqInv'
<1>1. SeqUnique'
  BY TypeParts DEF SeqInv, SeqUnique, Carries, GenTyped
<1>2. \A k \in Keys, n \in Nat : ~ Carries(k, n) => ~ Carries(k, n)'
  BY DEF Carries
<1>3. \A t \in Sessions : drawn[t] \in Nat
  BY TypeParts DEF DrawnTyped
<1> QED BY <1>1, <1>2, <1>3 DEF SeqInv, Carries

\* Steps that write the next number of the sequence into one row.
LEMMA SeqWritten ==
  ASSUME TypeOK, SeqInv, NEW t \in Sessions, NEW k \in Keys, NEW r \in Row,
         r.seq = seq + 1, NextVal(t), WriteRow(t, k, r, "commit")
  PROVE  SeqInv'
<1> seq \in Nat /\ seq' = seq + 1 /\ fp' = fp
  BY TypeParts DEF GenTyped, NextVal, WriteRow
<1>1. \A j \in Keys : /\ fp[j].seq \in Nat /\ fp[j].seq <= seq
                      /\ tip[j].seq \in Nat /\ tip[j].seq <= seq
  BY TypeParts DEF SeqInv, SeqUnique, RowsTyped, Row
<1>2. \A j \in Keys : tip'[j].seq = IF j = k THEN seq + 1 ELSE tip[j].seq
  BY TypeParts DEF WriteRow, RowsTyped
<1>3. SeqUnique'
  BY <1>1, <1>2 DEF SeqInv, SeqUnique, Carries
<1>4. \A u \in Sessions : pc'[u] = "arbitrate" =>
        u # t /\ pc[u] = "arbitrate" /\ drawn'[u] = drawn[u] /\ drawn[u] \in Nat
  BY TypeParts DEF NextVal, WriteRow, Goto, PcTyped, DrawnTyped
<1> QED BY <1>1, <1>2, <1>3, <1>4 DEF SeqInv, Carries

LEMMA SeqDrawn ==
  ASSUME TypeOK, SeqInv, NEW t \in Sessions, EvaluateDefaults(t)
  PROVE  SeqInv'
<1> seq \in Nat /\ seq' = seq + 1 /\ fp' = fp /\ tip' = tip
  BY TypeParts DEF GenTyped, EvaluateDefaults, NextVal, rowVars
<1>1. \A j \in Keys : /\ fp[j].seq \in Nat /\ fp[j].seq <= seq
                      /\ tip[j].seq \in Nat /\ tip[j].seq <= seq
  BY TypeParts DEF SeqInv, SeqUnique, RowsTyped, Row
<1>2. SeqUnique'
  BY <1>1 DEF SeqInv, SeqUnique, Carries
<1>3. \A u \in Sessions : pc'[u] = "arbitrate" =>
        \/ u = t /\ drawn'[u] = seq + 1
        \/ u # t /\ pc[u] = "arbitrate" /\ drawn'[u] = drawn[u] /\ drawn[u] \in Nat
  BY TypeParts DEF EvaluateDefaults, NextVal, Goto, PcTyped, DrawnTyped
<1> QED BY <1>1, <1>2, <1>3 DEF SeqInv, Carries

LEMMA SeqInserted ==
  ASSUME TypeOK, ArgsPresent, SeqInv, TypeOK', NEW t \in Sessions, InsertOrNothing(t)
  PROVE  SeqInv'
<1> KeyOf(t) \in Keys /\ seq' = seq /\ pc[t] = "arbitrate"
  BY KeyOfType DEF InsertOrNothing, ContributeLabels, genVars
<1> DEFINE k == KeyOf(t)
<1>1. CASE Goto(t, "reselect") /\ drawn' = [drawn EXCEPT ![t] = 0] /\ UNCHANGED rowVars
  <2>1. \A u \in Sessions : pc'[u] = "arbitrate" => pc[u] = "arbitrate" /\ drawn'[u] = drawn[u]
    BY <1>1, TypeParts DEF Goto, PcTyped, DrawnTyped
  <2> QED BY <1>1, <2>1, SeqKept DEF rowVars
<1>2. CASE WriteRow(t, k, Inserted(t), "commit") /\ UNCHANGED drawn
  <2>1. Inserted(t).seq = drawn[t] /\ fp' = fp
    BY <1>2 DEF Inserted, NoRow, WriteRow
  <2>2. \A j \in Keys : tip'[j].seq = IF j = k THEN drawn[t] ELSE tip[j].seq
    BY <1>2, <2>1, TypeParts DEF WriteRow, RowsTyped
  <2>3. \A u \in Sessions : pc'[u] = "arbitrate" => u # t /\ pc[u] = "arbitrate"
    BY <1>2, TypeParts DEF WriteRow, Goto, PcTyped
  <2>4. SeqUnique'
    BY <2>1, <2>2 DEF SeqInv, SeqUnique, Carries
  <2> QED BY <1>2, <2>1, <2>2, <2>3, <2>4 DEF SeqInv, Carries
<1> QED BY <1>1, <1>2 DEF InsertOrNothing

\* A transaction that ends leaves the numbers where they were.
LEMMA SeqEnded ==
  ASSUME TypeOK, SeqInv, TypeOK', NEW t \in Sessions, NEW r,
         CommitTxn(t) \/ RollbackTxn(t), Answer(t, r)
  PROVE  SeqInv'
<1>1. seq' = seq
  BY DEF CommitTxn, RollbackTxn
<1>2. \A k \in Keys : fp'[k] \in {fp[k], tip[k]} /\ tip'[k] \in {fp[k], tip[k]}
  BY DEF CommitTxn, RollbackTxn
<1>3. \A u \in Sessions : pc'[u] = "arbitrate" => pc[u] = "arbitrate" /\ drawn'[u] = drawn[u]
  BY TypeParts DEF Answer, PcTyped, DrawnTyped, CommitTxn, RollbackTxn
<1> QED BY <1>1, <1>2, <1>3, SeqKept

\* A statement that moves only its own session, to a label where no number is
\* waiting, and writes at most a version with an old number.
LEMMA SeqStatement ==
  ASSUME TypeOK, SeqInv, TypeOK', seq' = seq, drawn' = drawn, fp' = fp,
         NEW t \in Sessions, NEW l \in Labels \ {"arbitrate"}, Goto(t, l) \/ UNCHANGED pc,
         tip' = tip \/ \E k \in Keys : /\ tip'[k].seq \in {0, fp[k].seq}
                                       /\ \A j \in Keys \ {k} : tip'[j] = tip[j]
  PROVE  SeqInv'
<1>1. \A u \in Sessions : pc'[u] = "arbitrate" => pc[u] = "arbitrate"
  BY TypeParts DEF Goto, PcTyped
<1> QED BY <1>1, SeqKept

LEMMA WorkerSeq ==
  ASSUME TypeOK, ArgsPresent, SeqInv, TypeOK', NEW t \in Sessions, WorkerStep(t)
  PROVE  SeqInv'
<1>1. ASSUME NEW r, AnswerReadOnly(t, r) PROVE SeqInv'
  <2>1. Goto(t, "idle") /\ UNCHANGED <<seq, drawn, fp, tip>>
    BY <1>1 DEF AnswerReadOnly, Answer, Goto, rowVars, genVars
  <2> QED BY <2>1, SeqStatement DEF Labels
<1>2. ASSUME NEW l \in Labels \ {"arbitrate"}, Goto(t, l), UNCHANGED <<seq, drawn, fp, tip>>
      PROVE  SeqInv'
  BY <1>2, SeqStatement
<1>3. CASE SelectExisting(t)
  BY <1>3, <1>1, <1>2 DEF SelectExisting, rowVars, genVars, Labels
<1>4. CASE ClearFlags(t) \/ AddFlag(t) \/ CountFlags(t)
  BY <1>4, <1>2 DEF ClearFlags, AddFlag, CountFlags, rowVars, genVars, Labels
<1>5. CASE Resurrect(t)
  <2>1. KeyOf(t) \in Keys /\ arg[t].triple \in Triples
    BY <1>5, KeyOfType DEF Resurrect, ContributeLabels
  <2>2. /\ Revived(fp[KeyOf(t)], seq + 1, arg[t].triple) \in Row
        /\ fp[KeyOf(t)] \in Row
    BY <2>1, RevivedType, TypeParts DEF RowsTyped, GenTyped
  <2>3. Revived(fp[KeyOf(t)], seq + 1, arg[t].triple).seq = seq + 1
    BY <2>2 DEF Revived, Row
  <2> QED BY <1>5, <2>1, <2>2, <2>3, SeqWritten DEF Resurrect
<1>6. CASE ResurrectGone(t) \/ Commit(t) \/ BadParameter(t)
  BY <1>6, SeqEnded DEF ResurrectGone, Commit, BadParameter
<1>7. CASE EvaluateDefaults(t)
  BY <1>7, SeqDrawn
<1>8. CASE InsertOrNothing(t)
  BY <1>8, SeqInserted
<1>9. CASE SelectWinner(t) \/ LockMissing(t) \/ SoftDeleteNothing(t)
  BY <1>9, <1>1 DEF SelectWinner, LockMissing, SoftDeleteNothing
<1>10. CASE LockRow(t)
  <2>1. CASE AnswerReadOnly(t, "404")
    BY <2>1, <1>1
  <2>2. CASE ~ AnswerReadOnly(t, "404")
    <3>1. /\ Goto(t, "addflag") \/ Goto(t, "bumphit")
          /\ UNCHANGED <<seq, drawn, fp, tip>>
      BY <1>10, <2>2 DEF LockRow, genVars
    <3> QED BY <3>1, <1>2 DEF Labels
  <2> QED BY <2>1, <2>2
<1>11. CASE ApplyFlag(t)
  <2> PICK k \in Keys :
        \/ /\ NextVal(t)
           /\ WriteRow(t, k, [fp[k] EXCEPT !.status = "hidden", !.seq = seq + 1,
                                           !.flagCount = seen[t].count], "commit")
        \/ /\ NoNextVal
           /\ WriteRow(t, k, [fp[k] EXCEPT !.flagCount = seen[t].count], "commit")
    BY <1>11 DEF ApplyFlag
  <2>1. fp[k] \in Row /\ seen[t].count \in Nat /\ seq + 1 \in Nat
    BY TypeParts DEF RowsTyped, SeenTyped, GenTyped
  <2> DEFINE h == [fp[k] EXCEPT !.status = "hidden", !.seq = seq + 1,
                                !.flagCount = seen[t].count]
             f == [fp[k] EXCEPT !.flagCount = seen[t].count]
  <2>2. h \in Row /\ h.seq = seq + 1 /\ f.seq = fp[k].seq
    BY <2>1 DEF Row, Status
  <2>3. CASE NextVal(t) /\ WriteRow(t, k, h, "commit")
    BY <2>2, <2>3, SeqWritten
  <2>4. CASE NoNextVal /\ WriteRow(t, k, f, "commit")
    <3>1. /\ fp' = fp /\ tip' = [tip EXCEPT ![k] = f] /\ Goto(t, "commit")
          /\ UNCHANGED <<seq, drawn>>
      BY <2>4 DEF WriteRow, NoNextVal
    <3>2. tip'[k].seq = fp[k].seq /\ \A j \in Keys \ {k} : tip'[j] = tip[j]
      BY <2>2, <3>1, TypeParts DEF RowsTyped
    <3> QED BY <3>1, <3>2, SeqStatement DEF Labels
  <2> QED BY <2>3, <2>4
<1>12. CASE BumpHit(t)
  <2> PICK k \in Keys :
        NoNextVal /\ WriteRow(t, k, [fp[k] EXCEPT !.hitCount = @ + 1], "commit")
    BY <1>12 DEF BumpHit
  <2>1. [fp[k] EXCEPT !.hitCount = @ + 1].seq = fp[k].seq
    BY TypeParts DEF RowsTyped, Row
  <2>2. /\ fp' = fp /\ Goto(t, "commit") /\ UNCHANGED <<seq, drawn>>
        /\ tip' = [tip EXCEPT ![k] = [fp[k] EXCEPT !.hitCount = @ + 1]]
    BY DEF WriteRow, NoNextVal
  <2>3. tip'[k].seq = fp[k].seq /\ \A j \in Keys \ {k} : tip'[j] = tip[j]
    BY <2>1, <2>2, TypeParts DEF RowsTyped
  <2> QED BY <2>2, <2>3, SeqStatement DEF Labels
<1>13. CASE CheckOwner(t)
  BY <1>13, <1>1, <1>2 DEF CheckOwner, rowVars, genVars, Labels
<1>14. CASE SoftDelete(t)
  <2> PICK k \in Keys : NextVal(t) /\ WriteRow(t, k, Deleted(fp[k], seq + 1), "commit")
    BY <1>14 DEF SoftDelete
  <2>1. fp[k] \in Row /\ seq + 1 \in Nat
    BY TypeParts DEF RowsTyped, GenTyped
  <2>2. Deleted(fp[k], seq + 1) \in Row /\ Deleted(fp[k], seq + 1).seq = seq + 1
    BY <2>1, DeletedType DEF Deleted, Row
  <2> QED BY <2>2, SeqWritten
<1> QED BY <1>3, <1>4, <1>5, <1>6, <1>7, <1>8, <1>9, <1>10, <1>11, <1>12, <1>13, <1>14
        DEF WorkerStep

LEMMA PurgerSeq ==
  ASSUME TypeOK, SeqInv, TypeOK', PurgerStep PROVE SeqInv'
<1>1. CASE ClearReasons \/ Cascade
  <2>1. /\ Goto(Purger, "purge") \/ Goto(Purger, "anonymize")
        /\ UNCHANGED <<seq, drawn, fp, tip>>
    BY <1>1 DEF ClearReasons, Cascade, rowVars, genVars
  <2> QED BY <2>1, SeqStatement, PurgerSession DEF Labels
<1>2. CASE PurgeRow \/ AnonymizeRow
  <2> PICK l \in {"purge", "anonymize"}, v \in todo :
        \/ \E r \in {Erase(fp[v[1]]), ForgetSource(fp[v[1]])} : WriteRow(Purger, v[1], r, l)
        \/ UNCHANGED <<rowVars, pc>>
    BY <1>2 DEF PurgeRow, AnonymizeRow, VisitTombstone
  <2>1. v[1] \in Keys /\ fp[v[1]] \in Row
    BY TypeParts DEF TodoTyped, RowsTyped
  <2>2. Erase(fp[v[1]]).seq = 0 /\ ForgetSource(fp[v[1]]).seq = fp[v[1]].seq
    BY <2>1 DEF Erase, ForgetSource, NoRow, Row
  <2>3. UNCHANGED <<seq, drawn>>
    BY <1>2 DEF PurgeRow, AnonymizeRow, VisitTombstone, genVars
  <2>4. CASE UNCHANGED <<rowVars, pc>>
    BY <2>3, <2>4, SeqStatement, PurgerSession DEF rowVars, Labels
  <2>5. ASSUME NEW r \in {Erase(fp[v[1]]), ForgetSource(fp[v[1]])},
               WriteRow(Purger, v[1], r, l)
        PROVE  SeqInv'
    <3>1. fp' = fp /\ tip' = [tip EXCEPT ![v[1]] = r] /\ Goto(Purger, l)
      BY <2>5 DEF WriteRow
    <3>2. tip'[v[1]].seq \in {0, fp[v[1]].seq} /\ \A j \in Keys \ {v[1]} : tip'[j] = tip[j]
      BY <2>1, <2>2, <3>1, TypeParts DEF RowsTyped
    <3> QED BY <2>1, <2>3, <3>1, <3>2, SeqStatement, PurgerSession DEF Labels
  <2> QED BY <2>4, <2>5
<1>3. CASE EndRetention
  BY <1>3, SeqEnded, PurgerSession DEF EndRetention
<1> QED BY <1>1, <1>2, <1>3 DEF PurgerStep

LEMMA StepSeq ==
  ASSUME TypeOK, ArgsPresent, SeqInv, TypeOK', [Next]_vars PROVE SeqInv'
<1>1. CASE Issue
  <2> PICK t \in Sessions, l \in Labels \ {"arbitrate"} : \E a : Begin(t, a, l)
    BY <1>1, PurgerSession DEF Issue, BeginContribute, BeginFlag, BeginHit, BeginDelete,
       BeginOnId, BeginRetention, Labels, Sessions
  <2> QED BY SeqStatement DEF Begin, rowVars, genVars
<1>2. ASSUME NEW t \in Workers, WorkerStep(t) PROVE SeqInv'
  BY <1>2, WorkerSeq DEF Sessions
<1>3. CASE PurgerStep
  BY <1>3, PurgerSeq
<1>4. ASSUME NEW t \in Sessions, LoseConnection(t) \/ DeadlockVictim(t) PROVE SeqInv'
  BY <1>4, SeqEnded DEF LoseConnection, DeadlockVictim, Fail
<1>5. CASE UNCHANGED vars
  BY <1>5, SeqKept DEF vars
<1> QED BY <1>1, <1>2, <1>3, <1>4, <1>5 DEF Next, Done

\* No two fingerprints ever carry the same sync_seq, committed or pending,
\* and none is ahead of the sequence: for any number of concurrent calls,
\* connections lost and deadlocks, the cursor of the feed is a key.
THEOREM CursorIsKey == Spec => []SeqUnique
<1>1. Init => SeqInv
  BY DEF Init, SeqInv, SeqUnique, Carries, NoRow
<1>2. Shape /\ Shape' /\ SeqInv /\ [Next]_vars => SeqInv'
  BY StepSeq DEF Shape
<1>3. SeqInv => SeqUnique
  BY DEF SeqInv
<1> QED BY <1>1, <1>2, <1>3, ShapeInv, PTL DEF Spec

-----------------------------------------------------------------------------
(* Transactions.                                                           *)

Live == {"active", "hidden"}

\* A row version is complete or absent.
RowShape(r) ==
  IF r.id = 0 THEN r = NoRow
  ELSE r.status # "absent" /\ r.seq # 0 /\ r.triple \in Triples
RowsShaped == \A k \in Keys : RowShape(fp[k]) /\ RowShape(tip[k])

CarriesId(k, i) == i # 0 /\ i \in {fp[k].id, tip[k].id}

\* i is an id, and not the one of an insert that still waits to write its row.
Placed(i) == i # 0 /\ \A u \in Sessions : pc[u] = "arbitrate" => arg[u].id # i

\* Ids belong to one key for ever, and a call that has found its row by id has
\* found the only one that can ever carry it.
IdsOfRows ==
  \A j, k \in Keys : \A n \in {fp[j].id, tip[j].id} :
    n <= lastId /\ (j # k => ~ CarriesId(k, n))
IdOfCall(t) ==
  /\ arg[t].id <= lastId
  /\ pc[t] = "arbitrate" =>
       /\ arg[t].id # 0
       /\ \A k \in Keys : ~ CarriesId(k, arg[t].id)
       /\ \A u \in Sessions : (u # t /\ pc[u] = "arbitrate") => arg[u].id # arg[t].id
  /\ pc[t] = "softdelete" =>
       /\ Placed(arg[t].id)
       /\ \A k \in Keys : CarriesId(k, arg[t].id) => MayDelete(t, k)
  /\ pc[t] \in {"clearflags", "resurrect"} =>
       /\ Placed(arg[t].id)
       /\ \A k \in Keys : CarriesId(k, arg[t].id) => k = KeyOf(t)
IdInv == IdsOfRows /\ \A t \in Sessions : IdOfCall(t)

\* Which operation runs which statement.
OpAt(t) ==
  /\ pc[t] \in ContributeLabels => arg[t].op = "contribute"
  /\ pc[t] \in {"addflag", "countflags", "applyflag"} => arg[t].op = "flag"
  /\ pc[t] = "lockrow" => arg[t].op \in {"flag", "hit"}
  /\ pc[t] = "bumphit" => arg[t].op = "hit"
  /\ pc[t] \in {"check", "softdelete"} => arg[t].op = "delete"
  /\ pc[t] \in {"check", "lockrow"} => arg[t].id # 0
  /\ pc[t] \in {"reasons", "purge", "anonymize"} =>
       t = Purger /\ arg[t].op \in {"retention", "preview"}
  /\ t = Purger => pc[t] \in {"idle", "reasons", "purge", "anonymize"}
  /\ pc[t] # "idle" => reply[t] = "none"
  /\ drawn[t] # 0 => pc[t] \in {"arbitrate", "commit"}
  /\ pc[t] = "arbitrate" => drawn[t] # 0
OpsAt == \A t \in Sessions : OpAt(t)

\* What the transaction of t has made of the row at k when it is about to commit.
Contributed(t, k) ==
  /\ arg[t].op = "contribute" /\ k = KeyOf(t) /\ arg[t].triple \in Triples
  /\ drawn[t] > fp[k].seq
  /\ \/ fp[k] = NoRow /\ tip[k] = Inserted(t)
     \/ /\ fp[k].id = arg[t].id
        /\ tip[k] = Revived(fp[k], drawn[t], arg[t].triple)
        /\ SerialContribute => fp[k].status = "deleted"
Hides(t, k) == seen[t].count >= AutoHideThreshold /\ fp[k].status = "active"
Flagged(t, k) ==
  /\ arg[t].op = "flag" /\ fp[k].id = arg[t].id /\ fp[k].status \in Live
  /\ \/ /\ Hides(t, k)
        /\ drawn[t] > fp[k].seq
        /\ tip[k] = [fp[k] EXCEPT !.status = "hidden", !.seq = drawn[t],
                                  !.flagCount = seen[t].count]
     \/ /\ ~ Hides(t, k)
        /\ drawn[t] = 0
        /\ tip[k] = [fp[k] EXCEPT !.flagCount = seen[t].count]
HitReported(t, k) ==
  /\ arg[t].op = "hit" /\ fp[k].id = arg[t].id /\ fp[k].status \in Live
  /\ drawn[t] = 0
  /\ tip[k] = [fp[k] EXCEPT !.hitCount = @ + 1]
SoftDeleted(t, k) ==
  /\ arg[t].op = "delete" /\ fp[k].id = arg[t].id /\ fp[k].status \in Live
  /\ MayDelete(t, k)
  /\ drawn[t] > fp[k].seq
  /\ tip[k] = Deleted(fp[k], drawn[t])
Written(t, k) ==
  Contributed(t, k) \/ Flagged(t, k) \/ HitReported(t, k) \/ SoftDeleted(t, k)

HoldLabels == {"addflag", "countflags", "applyflag", "bumphit"}

\* What it means that t holds the lock of the row at k.
LockedOnly(t, k) ==
  /\ t \in Workers /\ pc[t] \in HoldLabels
  /\ tip[k] = fp[k] /\ fp[k].id = arg[t].id
  /\ fp[k].status \in Live /\ seen[t].status = fp[k].status
Committable(t, k) == t \in Workers /\ pc[t] = "commit" /\ Written(t, k)
Retired(t, k) ==
  /\ t = Purger /\ pc[t] \in {"purge", "anonymize"}
  /\ fp[k].status = "deleted"
  /\ \/ tip[k] = NoRow
     \/ pc[t] = "anonymize" /\ tip[k] = ForgetSource(fp[k])
Holding(t, k) ==
  \/ arg[t].id # 0 /\ (LockedOnly(t, k) \/ Committable(t, k))
  \/ Retired(t, k)

Holds(t) == \E k \in Keys : lock[k] = t

LockInv ==
  /\ \A k \in Keys : lock[k] = None => tip[k] = fp[k]
  /\ \A k \in Keys, t \in Sessions : lock[k] = t => Holding(t, k)
  /\ \A t \in Sessions : pc[t] \in HoldLabels \cup {"commit"} => Holds(t)

\* Of two contributes of one key in flight, neither revives a live row.
SerialInv ==
  SerialContribute =>
    /\ \A t, u \in Workers :
         (/\ pc[t] # "idle" /\ arg[t].op = "contribute"
          /\ pc[u] # "idle" /\ arg[u].op = "contribute"
          /\ KeyOf(t) = KeyOf(u)) => t = u
    /\ \A t \in Workers :
         pc[t] \in {"clearflags", "resurrect"} =>
           fp[KeyOf(t)].status \in {"deleted", "absent"}

\* A number the retention statement has noted belongs to a tombstone wherever it
\* still stands, so the recheck that finds it finds a tombstone.
NumberOfTombstone(n) ==
  /\ n # 0 /\ n <= seq
  /\ \A u \in Sessions : pc[u] = "arbitrate" => drawn[u] # n
  /\ \A k \in Keys : \A r \in {fp[k], tip[k]} : r.seq = n => r.status = "deleted"
TodoInv ==
  /\ pc[Purger] \notin {"purge", "anonymize"} => todo = {}
  /\ \A v \in todo : NumberOfTombstone(v[2])

TxnInv == RowsShaped /\ IdInv /\ OpsAt /\ LockInv /\ SerialInv /\ TodoInv

-----------------------------------------------------------------------------
(* A step is a step of one session.                                        *)

\* Every other session is where it was, and rows it has locked are untouched.
StepOf(t) ==
  /\ \A u \in Sessions \ {t} :
       /\ pc'[u] = pc[u] /\ arg'[u] = arg[u] /\ seen'[u] = seen[u]
       /\ drawn'[u] = drawn[u] /\ chg'[u] = chg[u] /\ reply'[u] = reply[u]
  /\ \A k \in Keys :
       IF lock[k] \in {None, t} THEN lock'[k] \in {None, t}
       ELSE lock'[k] = lock[k] /\ fp'[k] = fp[k] /\ tip'[k] = tip[k]

LEMMA NoneNoSession == \A t \in Sessions : t # None
  BY ConstantsAssumption DEF Sessions

LEMMA WorkerNotPurger == \A t \in Workers : t \in Sessions /\ t # Purger
  BY ConstantsAssumption DEF Sessions

\* A statement that changes no row and no lock.
LEMMA StepOfRead ==
  ASSUME TypeOK, NEW t \in Sessions, UNCHANGED rowVars,
         \A u \in Sessions \ {t} :
           /\ pc'[u] = pc[u] /\ arg'[u] = arg[u] /\ seen'[u] = seen[u]
           /\ drawn'[u] = drawn[u] /\ chg'[u] = chg[u] /\ reply'[u] = reply[u]
  PROVE  StepOf(t)
  BY DEF StepOf, rowVars

LEMMA OthersAnswer ==
  ASSUME TypeOK, NEW t \in Sessions, NEW r, Answer(t, r), NEW u \in Sessions \ {t}
  PROVE  pc'[u] = pc[u] /\ arg'[u] = arg[u] /\ seen'[u] = seen[u] /\ reply'[u] = reply[u]
  BY TypeParts DEF Answer, PcTyped, ArgTyped, SeenTyped, ReplyTyped

LEMMA AnswerReadOnlyStepOf ==
  ASSUME TypeOK, NEW t \in Sessions, NEW r, AnswerReadOnly(t, r) PROVE StepOf(t)
  BY StepOfRead, OthersAnswer DEF AnswerReadOnly, childVars

LEMMA CommitStepOf ==
  ASSUME TypeOK, NEW t \in Sessions, NEW r, CommitTxn(t), Answer(t, r) PROVE StepOf(t)
<1>1. \A u \in Sessions \ {t} : drawn'[u] = drawn[u] /\ chg'[u] = chg[u]
  BY TypeParts DEF CommitTxn, DrawnTyped, ChildTyped
<1>2. \A k \in Keys : IF lock[k] \in {None, t} THEN lock'[k] \in {None, t}
                      ELSE lock'[k] = lock[k] /\ fp'[k] = fp[k] /\ tip'[k] = tip[k]
  BY DEF CommitTxn
<1> QED BY <1>1, <1>2, OthersAnswer DEF StepOf

LEMMA RollbackStepOf ==
  ASSUME TypeOK, NEW t \in Sessions, NEW r, RollbackTxn(t), Answer(t, r) PROVE StepOf(t)
<1>1. \A u \in Sessions \ {t} : drawn'[u] = drawn[u] /\ chg'[u] = chg[u]
  BY TypeParts DEF RollbackTxn, DrawnTyped, ChildTyped
<1>2. \A k \in Keys : IF lock[k] \in {None, t} THEN lock'[k] \in {None, t}
                      ELSE lock'[k] = lock[k] /\ fp'[k] = fp[k] /\ tip'[k] = tip[k]
  BY DEF RollbackTxn
<1> QED BY <1>1, <1>2, OthersAnswer DEF StepOf

\* A statement that writes one row which is free or its own.
LEMMA StepOfWrite ==
  ASSUME TypeOK, NEW t \in Sessions, NEW k \in Keys, NEW r, NEW l,
         Lockable(t, k), WriteRow(t, k, r, l), UNCHANGED <<arg, seen, reply>>,
         \A u \in Sessions \ {t} : drawn'[u] = drawn[u] /\ chg'[u] = chg[u]
  PROVE  StepOf(t)
<1>1. \A u \in Sessions \ {t} : pc'[u] = pc[u]
  BY TypeParts DEF WriteRow, Goto, PcTyped
<1>2. \A j \in Keys : IF lock[j] \in {None, t} THEN lock'[j] \in {None, t}
                      ELSE lock'[j] = lock[j] /\ fp'[j] = fp[j] /\ tip'[j] = tip[j]
  BY TypeParts DEF WriteRow, Lockable, RowsTyped
<1> QED BY <1>1, <1>2 DEF StepOf

LEMMA OthersGoto ==
  ASSUME TypeOK, NEW t \in Sessions, NEW l, Goto(t, l), NEW u \in Sessions \ {t}
  PROVE  pc'[u] = pc[u]
  BY TypeParts DEF Goto, PcTyped

LEMMA OthersNextVal ==
  ASSUME TypeOK, NEW t \in Sessions, NextVal(t) \/ NoNextVal, NEW u \in Sessions \ {t}
  PROVE  drawn'[u] = drawn[u]
  BY TypeParts DEF NextVal, NoNextVal, DrawnTyped

LEMMA BeginStepOf ==
  ASSUME TypeOK, NEW t \in Sessions, NEW a, NEW l, Begin(t, a, l),
         \A u \in Sessions \ {t} : chg'[u] = chg[u]
  PROVE  StepOf(t)
<1>1. \A u \in Sessions \ {t} : pc'[u] = pc[u] /\ arg'[u] = arg[u] /\ reply'[u] = reply[u]
  BY TypeParts, OthersGoto DEF Begin, ArgTyped, ReplyTyped
<1> QED BY <1>1, StepOfRead DEF Begin

LEMMA WorkerStepOf ==
  ASSUME TypeOK, ArgsPresent, NEW t \in Sessions, WorkerStep(t) PROVE StepOf(t)
<1>1. CASE \E r : AnswerReadOnly(t, r)
  BY <1>1, AnswerReadOnlyStepOf
<1>2. CASE \E r : (CommitTxn(t) \/ RollbackTxn(t)) /\ Answer(t, r)
  BY <1>2, CommitStepOf, RollbackStepOf
<1>3. CASE /\ UNCHANGED <<rowVars, seen, drawn, reply, chg>>
           /\ \E l : Goto(t, l)
           /\ arg' = arg \/ \E i : arg' = [arg EXCEPT ![t].id = i]
  <2>1. \A u \in Sessions \ {t} : arg'[u] = arg[u]
    BY <1>3, TypeParts DEF ArgTyped
  <2> QED BY <1>3, <2>1, StepOfRead, OthersGoto
<1>4. CASE SelectExisting(t) \/ CheckOwner(t)
  BY <1>4, <1>1, <1>3 DEF SelectExisting, CheckOwner, childVars
<1>5. CASE ClearFlags(t) \/ AddFlag(t)
  <2>1. \A u \in Sessions \ {t} : chg'[u] = chg[u]
    BY <1>5, TypeParts DEF ClearFlags, AddFlag, ChildTyped
  <2>2. /\ UNCHANGED <<rowVars, arg, seen, drawn, reply>>
        /\ \E l : Goto(t, l)
    BY <1>5 DEF ClearFlags, AddFlag
  <2> QED BY <2>1, <2>2, StepOfRead, OthersGoto
<1>6. CASE Resurrect(t)
  <2>1. KeyOf(t) \in Keys
    BY <1>6, KeyOfType DEF Resurrect, ContributeLabels
  <2>2. \A u \in Sessions \ {t} : drawn'[u] = drawn[u] /\ chg'[u] = chg[u]
    BY <1>6, OthersNextVal DEF Resurrect, childVars
  <2> QED BY <1>6, <2>1, <2>2, StepOfWrite DEF Resurrect
<1>7. CASE EvaluateDefaults(t)
  <2>1. \A u \in Sessions \ {t} : drawn'[u] = drawn[u] /\ arg'[u] = arg[u]
    BY <1>7, OthersNextVal, TypeParts DEF EvaluateDefaults, ArgTyped
  <2>2. UNCHANGED <<rowVars, seen, reply, chg>> /\ Goto(t, "arbitrate")
    BY <1>7 DEF EvaluateDefaults, childVars
  <2> QED BY <2>1, <2>2, StepOfRead, OthersGoto
<1>8. CASE InsertOrNothing(t)
  <2> KeyOf(t) \in Keys
    BY <1>8, KeyOfType DEF InsertOrNothing, ContributeLabels
  <2>1. CASE /\ lock[KeyOf(t)] = None
             /\ WriteRow(t, KeyOf(t), Inserted(t), "commit")
             /\ UNCHANGED drawn
    BY <1>8, <2>1, StepOfWrite DEF InsertOrNothing, Lockable, childVars
  <2>2. CASE /\ Goto(t, "reselect")
             /\ drawn' = [drawn EXCEPT ![t] = 0]
             /\ UNCHANGED rowVars
    <3>1. \A u \in Sessions \ {t} : drawn'[u] = drawn[u]
      BY <2>2, TypeParts DEF DrawnTyped
    <3> QED BY <1>8, <2>2, <3>1, StepOfRead, OthersGoto DEF InsertOrNothing, childVars
  <2> QED BY <1>8, <2>1, <2>2 DEF InsertOrNothing
<1>9. CASE LockRow(t)
  <2> PICK k \in Keys :
        /\ lock[k] = None
        /\ \/ AnswerReadOnly(t, "404")
           \/ /\ Hold(t, k)
              /\ seen' = [seen EXCEPT ![t].status = fp[k].status]
              /\ Goto(t, IF arg[t].op = "flag" THEN "addflag" ELSE "bumphit")
              /\ UNCHANGED <<fp, tip, childVars, genVars, arg, drawn, todo, reply, envVars>>
    BY <1>9 DEF LockRow
  <2>1. CASE ~ AnswerReadOnly(t, "404")
    <3>1. \A u \in Sessions \ {t} : seen'[u] = seen[u] /\ pc'[u] = pc[u]
      BY <2>1, OthersGoto, TypeParts DEF SeenTyped
    <3>2. \A j \in Keys : IF lock[j] \in {None, t} THEN lock'[j] \in {None, t}
                          ELSE lock'[j] = lock[j] /\ fp'[j] = fp[j] /\ tip'[j] = tip[j]
      BY <2>1, TypeParts DEF Hold, RowsTyped
    <3> QED BY <2>1, <3>1, <3>2 DEF StepOf, childVars
  <2> QED BY <1>1, <2>1
<1>10. CASE CountFlags(t)
  <2>1. \A u \in Sessions \ {t} : seen'[u] = seen[u] /\ pc'[u] = pc[u]
    BY <1>10, OthersGoto, TypeParts DEF CountFlags, SeenTyped
  <2> QED BY <1>10, <2>1, StepOfRead DEF CountFlags, childVars
<1>11. CASE ApplyFlag(t)
  <2>1. \A u \in Sessions \ {t} : drawn'[u] = drawn[u] /\ chg'[u] = chg[u]
    BY <1>11, OthersNextVal DEF ApplyFlag, childVars
  <2>2. \E k \in Keys : \E r : Lockable(t, k) /\ WriteRow(t, k, r, "commit")
    BY <1>11 DEF ApplyFlag
  <2> QED BY <1>11, <2>1, <2>2, StepOfWrite DEF ApplyFlag
<1>12. CASE BumpHit(t)
  <2>1. \A u \in Sessions \ {t} : drawn'[u] = drawn[u] /\ chg'[u] = chg[u]
    BY <1>12, OthersNextVal, TypeParts DEF BumpHit, ChildTyped
  <2>2. \E k \in Keys : \E r : Lockable(t, k) /\ WriteRow(t, k, r, "commit")
    BY <1>12 DEF BumpHit
  <2> QED BY <1>12, <2>1, <2>2, StepOfWrite DEF BumpHit
<1>13. CASE SoftDelete(t)
  <2>1. \A u \in Sessions \ {t} : drawn'[u] = drawn[u] /\ chg'[u] = chg[u]
    BY <1>13, OthersNextVal DEF SoftDelete, childVars
  <2>2. \E k \in Keys : \E r : Lockable(t, k) /\ WriteRow(t, k, r, "commit")
    BY <1>13 DEF SoftDelete
  <2> QED BY <1>13, <2>1, <2>2, StepOfWrite DEF SoftDelete
<1> QED BY <1>1, <1>2, <1>4, <1>5, <1>6, <1>7, <1>8, <1>9, <1>10, <1>11, <1>12, <1>13
        DEF WorkerStep, ResurrectGone, SelectWinner, LockMissing, SoftDeleteNothing, Commit,
            BadParameter

LEMMA PurgerStepOf ==
  ASSUME TypeOK, PurgerStep PROVE StepOf(Purger)
<1> Purger \in Sessions
  BY PurgerSession
<1>1. CASE ClearReasons \/ Cascade
  <2>1. \A u \in Sessions \ {Purger} : chg'[u] = chg[u]
    BY <1>1, TypeParts DEF ClearReasons, Cascade, ChildTyped
  <2>2. /\ UNCHANGED <<rowVars, arg, seen, drawn, reply>>
        /\ \E l : Goto(Purger, l)
    BY <1>1 DEF ClearReasons, Cascade
  <2> QED BY <2>1, <2>2, StepOfRead, OthersGoto
<1>2. CASE PurgeRow \/ AnonymizeRow
  <2> PICK l \in {"purge", "anonymize"}, v \in todo :
        /\ lock[v[1]] = None
        /\ (\E r : WriteRow(Purger, v[1], r, l)) \/ UNCHANGED <<rowVars, pc>>
    BY <1>2 DEF PurgeRow, AnonymizeRow, VisitTombstone
  <2>1. UNCHANGED <<childVars, genVars, arg, seen, drawn, reply>>
    BY <1>2 DEF PurgeRow, AnonymizeRow, VisitTombstone
  <2>2. v[1] \in Keys
    BY TypeParts DEF TodoTyped
  <2> QED BY <2>1, <2>2, StepOfWrite, StepOfRead DEF Lockable, childVars
<1>3. CASE EndRetention
  BY <1>3, CommitStepOf, RollbackStepOf DEF EndRetention
<1> QED BY <1>1, <1>2, <1>3 DEF PurgerStep

LEMMA FaultStepOf ==
  ASSUME TypeOK, NEW t \in Sessions, LoseConnection(t) \/ DeadlockVictim(t) PROVE StepOf(t)
  BY CommitStepOf, RollbackStepOf DEF LoseConnection, DeadlockVictim, Fail

-----------------------------------------------------------------------------
(* What a step of t keeps of the invariant for the other sessions.         *)

LEMMA OpsKept ==
  ASSUME OpsAt, NEW t \in Sessions, StepOf(t), OpAt(t)' PROVE OpsAt'
<1> SUFFICES ASSUME NEW u \in Sessions \ {t} PROVE OpAt(u)'
  BY DEF OpsAt
<1> QED BY DEF OpsAt, OpAt, StepOf

LEMMA HoldingKept ==
  ASSUME NEW t \in Sessions, StepOf(t), NEW u \in Sessions \ {t}, NEW k \in Keys,
         lock[k] = u, Holding(u, k)
  PROVE  Holding(u, k)'
<1>1. /\ pc'[u] = pc[u] /\ arg'[u] = arg[u] /\ seen'[u] = seen[u] /\ drawn'[u] = drawn[u]
      /\ fp'[k] = fp[k] /\ tip'[k] = tip[k]
  BY NoneNoSession DEF StepOf
<1>2. LockedOnly(u, k) => LockedOnly(u, k)'
  BY <1>1 DEF LockedOnly
<1>3. Retired(u, k) => Retired(u, k)'
  BY <1>1 DEF Retired
<1>4. Contributed(u, k) => Contributed(u, k)'
  BY <1>1 DEF Contributed, KeyOf, Inserted
<1>5. Flagged(u, k) => Flagged(u, k)'
  BY <1>1 DEF Flagged, Hides
<1>6. HitReported(u, k) => HitReported(u, k)'
  BY <1>1 DEF HitReported
<1>7. SoftDeleted(u, k) => SoftDeleted(u, k)'
  BY <1>1 DEF SoftDeleted, MayDelete
<1> QED BY <1>1, <1>2, <1>3, <1>4, <1>5, <1>6, <1>7 DEF Holding, Committable, Written

LEMMA LockKept ==
  ASSUME LockInv, TypeOK, NEW t \in Sessions, StepOf(t),
         \A k \in Keys : lock'[k] = None => tip'[k] = fp'[k] \/ lock[k] \notin {None, t},
         \A k \in Keys : lock'[k] = t => Holding(t, k)',
         pc'[t] \in HoldLabels \cup {"commit"} => Holds(t)'
  PROVE  LockInv'
<1>1. \A k \in Keys : lock'[k] = None => tip'[k] = fp'[k]
  BY DEF LockInv, StepOf
<1>2. \A k \in Keys, u \in Sessions : lock'[k] = u => Holding(u, k)'
  <2> SUFFICES ASSUME NEW k \in Keys, NEW u \in Sessions \ {t}, lock'[k] = u
               PROVE  Holding(u, k)'
    OBVIOUS
  <2>1. lock[k] = u
    BY NoneNoSession DEF StepOf
  <2> QED BY <2>1, HoldingKept DEF LockInv
<1>3. \A u \in Sessions : pc'[u] \in HoldLabels \cup {"commit"} => Holds(u)'
  <2> SUFFICES ASSUME NEW u \in Sessions \ {t}, pc'[u] \in HoldLabels \cup {"commit"}
               PROVE  Holds(u)'
    OBVIOUS
  <2>1. PICK k \in Keys : lock[k] = u
    BY DEF LockInv, StepOf, Holds
  <2>2. lock'[k] = u
    BY <2>1, NoneNoSession DEF StepOf
  <2> QED BY <2>2 DEF Holds
<1> QED BY <1>1, <1>2, <1>3 DEF LockInv

\* A session that is at none of these statements holds no lock.
LEMMA HoldsNothing ==
  ASSUME LockInv, NEW t \in Sessions, NEW k \in Keys,
         pc[t] \notin HoldLabels \cup {"commit", "purge", "anonymize"}
  PROVE  lock[k] # t
  BY DEF LockInv, Holding, LockedOnly, Committable, Retired

\* Steps that bring no id into the rows.
LEMMA IdsKept ==
  ASSUME TypeOK, IdInv, NEW t \in Sessions, StepOf(t), lastId' = lastId,
         \A k \in Keys : /\ fp'[k].id \in {0, fp[k].id, tip[k].id}
                         /\ tip'[k].id \in {0, fp[k].id, tip[k].id},
         arg'[t].id <= lastId,
         pc'[t] = "arbitrate" => pc[t] = "arbitrate" /\ arg'[t] = arg[t],
         pc'[t] \in {"softdelete", "clearflags", "resurrect"} => IdOfCall(t)'
  PROVE  IdInv'
<1>1. \A k \in Keys, i \in Nat : CarriesId(k, i)' => CarriesId(k, i)
  BY DEF CarriesId
<1>2. IdsOfRows'
  BY TypeParts DEF IdInv, IdsOfRows, CarriesId, GenTyped
<1>3. \A u \in Sessions : arg[u].id \in Nat
  BY TypeParts DEF ArgTyped, ArgType
<1>4. \A u \in Sessions : pc'[u] = "arbitrate" => pc[u] = "arbitrate" /\ arg'[u] = arg[u]
  BY DEF StepOf
<1>5. \A i \in Nat : Placed(i) => Placed(i)'
  BY <1>4 DEF Placed
<1>6. ASSUME NEW u \in Sessions, u # t PROVE IdOfCall(u)'
  <2>1. pc'[u] = pc[u] /\ arg'[u] = arg[u] /\ IdOfCall(u) /\ arg[u].id \in Nat
    BY <1>3, <1>6 DEF StepOf, IdInv
  <2>2. \A k \in Keys : (MayDelete(u, k) <=> MayDelete(u, k)') /\ KeyOf(u)' = KeyOf(u)
    BY <2>1 DEF MayDelete, KeyOf
  <2>3. pc[u] = "arbitrate" => \A k \in Keys : ~ CarriesId(k, arg[u].id)'
    BY <1>1, <2>1 DEF IdOfCall
  <2>4. pc[u] = "softdelete" =>
          Placed(arg[u].id)' /\ \A k \in Keys : CarriesId(k, arg[u].id)' => MayDelete(u, k)
    BY <1>1, <1>5, <2>1 DEF IdOfCall
  <2>5. pc[u] \in {"clearflags", "resurrect"} =>
          Placed(arg[u].id)' /\ \A k \in Keys : CarriesId(k, arg[u].id)' => k = KeyOf(u)
    BY <1>1, <1>5, <2>1 DEF IdOfCall
  <2> QED BY <1>4, <2>1, <2>2, <2>3, <2>4, <2>5 DEF IdOfCall
<1>7. IdOfCall(t)'
  <2>1. CASE pc'[t] = "arbitrate"
    BY <1>1, <1>3, <1>4, <2>1 DEF IdInv, IdOfCall
  <2>2. CASE pc'[t] \notin {"arbitrate", "softdelete", "clearflags", "resurrect"}
    BY <2>2 DEF IdOfCall
  <2> QED BY <2>1, <2>2
<1> QED BY <1>2, <1>6, <1>7 DEF IdInv

\* Steps after which t contributes only if it did before, and no row that a
\* contribute in flight has found deleted is live.
LEMMA SerialKept ==
  ASSUME SerialInv, NEW t \in Sessions, StepOf(t),
         (pc'[t] # "idle" /\ arg'[t].op = "contribute") =>
            /\ pc[t] # "idle" /\ arg[t].op = "contribute"
            /\ KeyOf(t)' = KeyOf(t),
         SerialContribute => \A u \in Workers :
           pc'[u] \in {"clearflags", "resurrect"} =>
             fp'[KeyOf(u)'].status \in {"deleted", "absent"}
  PROVE  SerialInv'
<1>1. \A u \in Workers : (pc'[u] # "idle" /\ arg'[u].op = "contribute") =>
         /\ pc[u] # "idle" /\ arg[u].op = "contribute"
         /\ KeyOf(u)' = KeyOf(u)
  BY DEF StepOf, KeyOf, Sessions
<1> QED BY <1>1 DEF SerialInv

\* Steps that write no old number into a row, except with its old status.
LEMMA TodoKept ==
  ASSUME TypeOK, TypeOK', TodoInv, todo' \in SUBSET todo, seq <= seq',
         \A k \in Keys : fp'[k] \in {fp[k], tip[k]},
         \A k \in Keys :
           \/ tip'[k] \in {fp[k], tip[k]} \/ tip'[k].status = "deleted" \/ tip'[k].seq = 0
           \/ tip'[k].seq = fp[k].seq /\ tip'[k].status = fp[k].status
           \/ tip'[k].seq > seq
           \/ \E u \in Sessions : pc[u] = "arbitrate" /\ tip'[k].seq = drawn[u],
         \A u \in Sessions : pc'[u] = "arbitrate" =>
           (pc[u] = "arbitrate" /\ drawn'[u] = drawn[u]) \/ drawn'[u] > seq,
         pc'[Purger] \notin {"purge", "anonymize"} => todo' = {}
  PROVE  TodoInv'
<1> SUFFICES ASSUME NEW v \in todo PROVE NumberOfTombstone(v[2])'
  BY DEF TodoInv
<1>1. NumberOfTombstone(v[2]) /\ v[2] \in Nat /\ seq \in Nat /\ seq' \in Nat
  BY TypeParts DEF TodoInv, TodoTyped, GenTyped, TypeOK
<1>2. \A u \in Sessions : drawn'[u] \in Nat
  BY DEF TypeOK
<1>3. \A k \in Keys : tip'[k].seq \in Nat
  BY DEF TypeOK, Row
<1>4. \A k \in Keys : tip'[k].seq = v[2] => tip'[k].status = "deleted"
  BY <1>1, <1>3 DEF NumberOfTombstone
<1> QED BY <1>1, <1>2, <1>4 DEF NumberOfTombstone

-----------------------------------------------------------------------------
(* What a step of t keeps of the invariant for t, by kinds of statement.   *)

\* A statement that changes no row: it may move t and its own reads.
LEMMA TxnMoved ==
  ASSUME TypeOK, TypeOK', TxnInv, NEW t \in Sessions, StepOf(t), UNCHANGED <<rowVars, genVars>>,
         OpAt(t)', arg'[t].id <= lastId, pc'[t] # "arbitrate",
         pc'[t] \in {"softdelete", "clearflags", "resurrect"} => IdOfCall(t)',
         \A k \in Keys : lock[k] = t => Holding(t, k)',
         pc'[t] \in HoldLabels \cup {"commit"} => Holds(t),
         (pc'[t] # "idle" /\ arg'[t].op = "contribute") =>
            /\ pc[t] # "idle" /\ arg[t].op = "contribute"
            /\ KeyOf(t)' = KeyOf(t),
         (SerialContribute /\ pc'[t] \in {"clearflags", "resurrect"}) =>
            fp[KeyOf(t)'].status \in {"deleted", "absent"}
  PROVE  RowsShaped' /\ OpsAt' /\ IdInv' /\ LockInv' /\ SerialInv'
<1>1. fp' = fp /\ tip' = tip /\ lock' = lock /\ seq' = seq /\ lastId' = lastId
  BY DEF rowVars, genVars
<1>2. RowsShaped' /\ OpsAt'
  BY <1>1, OpsKept DEF RowsShaped, TxnInv
<1>3. IdInv'
  BY <1>1, IdsKept DEF TxnInv
<1>4. LockInv'
  BY <1>1, LockKept DEF TxnInv, LockInv, Holds
<1>5. SerialInv'
  <2>1. ASSUME SerialContribute, NEW u \in Workers, u # t, pc'[u] \in {"clearflags", "resurrect"}
        PROVE  fp'[KeyOf(u)'].status \in {"deleted", "absent"}
    BY <1>1, <2>1 DEF StepOf, Sessions, KeyOf, TxnInv, SerialInv
  <2> QED BY <1>1, <2>1, SerialKept DEF TxnInv
<1> QED BY <1>2, <1>3, <1>4, <1>5

LEMMA TodoUntouched ==
  ASSUME TypeOK, TypeOK', TodoInv, NEW t \in Sessions, StepOf(t),
         UNCHANGED <<rowVars, genVars, todo>>, pc'[t] # "arbitrate",
         t = Purger => pc'[t] \in {"purge", "anonymize"} \/ todo = {}
  PROVE  TodoInv'
<1>1. fp' = fp /\ tip' = tip /\ seq' = seq /\ todo' = todo /\ seq \in Nat
  BY TypeParts DEF rowVars, genVars, GenTyped
<1>2. pc'[Purger] \notin {"purge", "anonymize"} => todo' = {}
  BY <1>1, PurgerSession DEF TodoInv, StepOf
<1>3. \A u \in Sessions : pc'[u] = "arbitrate" => pc[u] = "arbitrate" /\ drawn'[u] = drawn[u]
  BY DEF StepOf
<1> QED BY <1>1, <1>2, <1>3, TodoKept

LEMMA TxnRead ==
  ASSUME TypeOK, TypeOK', TxnInv, NEW t \in Sessions, StepOf(t),
         UNCHANGED <<rowVars, genVars, todo>>,
         t = Purger => pc'[t] \in {"purge", "anonymize"} \/ todo = {},
         OpAt(t)', arg'[t].id <= lastId, pc'[t] # "arbitrate",
         pc'[t] \in {"softdelete", "clearflags", "resurrect"} => IdOfCall(t)',
         \A k \in Keys : lock[k] = t => Holding(t, k)',
         pc'[t] \in HoldLabels \cup {"commit"} => Holds(t),
         (pc'[t] # "idle" /\ arg'[t].op = "contribute") =>
            /\ pc[t] # "idle" /\ arg[t].op = "contribute"
            /\ KeyOf(t)' = KeyOf(t),
         (SerialContribute /\ pc'[t] \in {"clearflags", "resurrect"}) =>
            fp[KeyOf(t)'].status \in {"deleted", "absent"}
  PROVE  TxnInv'
<1>1. RowsShaped' /\ OpsAt' /\ IdInv' /\ LockInv' /\ SerialInv'
  BY TxnMoved
<1>2. TodoInv'
  BY TodoUntouched DEF TxnInv
<1> QED BY <1>1, <1>2 DEF TxnInv

LEMMA TxnAnswered ==
  ASSUME TypeOK, TypeOK', TxnInv, NEW t \in Workers, NEW r, AnswerReadOnly(t, r),
         pc[t] \notin HoldLabels \cup {"commit", "purge", "anonymize", "arbitrate"}
  PROVE  TxnInv'
<1> t \in Sessions /\ t # Purger
  BY WorkerNotPurger
<1>1. StepOf(t) /\ UNCHANGED <<rowVars, genVars, todo>> /\ drawn' = drawn
  BY AnswerReadOnlyStepOf DEF AnswerReadOnly
<1>2. pc'[t] = "idle" /\ arg'[t] = NoArg
  BY TypeParts DEF AnswerReadOnly, Answer, PcTyped, ArgTyped
<1>3. drawn[t] = 0
  BY DEF TxnInv, OpsAt, OpAt
<1>4. OpAt(t)'
  BY <1>1, <1>2, <1>3 DEF OpAt, ContributeLabels
<1>5. \A k \in Keys : lock[k] # t
  BY HoldsNothing DEF TxnInv
<1>6. arg'[t].id <= lastId
  BY <1>2, TypeParts DEF NoArg, GenTyped
<1> QED BY <1>1, <1>2, <1>4, <1>5, <1>6, TxnRead DEF HoldLabels

\* A statement that writes one row it may lock, under its old id.
LEMMA TxnWrite ==
  ASSUME TypeOK, TypeOK', TxnInv, NEW t \in Workers, NEW k \in Keys, NEW r \in Row,
         StepOf(t), Lockable(t, k), WriteRow(t, k, r, "commit"),
         UNCHANGED <<lastId, arg, todo>>, seq <= seq',
         RowShape(r), r.id = fp[k].id, arg[t].id # 0, arg[t].op \notin {"retention", "preview"},
         pc[t] # "idle", reply' = reply, Written(t, k)',
         \A j \in Keys : lock[j] = t => j = k,
         \/ r.status = "deleted" \/ r.seq > seq
         \/ r.seq = fp[k].seq /\ r.status = fp[k].status
  PROVE  TxnInv'
<1> t \in Sessions /\ t # Purger
  BY WorkerNotPurger
<1>1. /\ fp' = fp /\ tip'[k] = r /\ lock'[k] = t /\ pc'[t] = "commit"
      /\ \A j \in Keys \ {k} : tip'[j] = tip[j] /\ lock'[j] = lock[j]
  BY TypeParts DEF WriteRow, Goto, RowsTyped, PcTyped
<1>2. RowsShaped'
  BY <1>1 DEF RowsShaped, TxnInv
<1>3. OpsAt'
  <2>1. OpAt(t)'
    BY <1>1 DEF TxnInv, OpsAt, OpAt, ContributeLabels
  <2> QED BY <2>1, OpsKept DEF TxnInv
<1>4. IdInv'
  <2>1. \A j \in Keys : fp'[j].id = fp[j].id /\ tip'[j].id \in {fp[j].id, tip[j].id}
    BY <1>1
  <2>2. arg'[t].id <= lastId
    BY DEF TxnInv, IdInv, IdOfCall
  <2> QED BY <1>1, <2>1, <2>2, IdsKept DEF TxnInv
<1>5. LockInv'
  <2>1. Holding(t, k)'
    BY <1>1 DEF Holding, Committable
  <2>2. \A j \in Keys : lock'[j] = t => j = k
    BY <1>1
  <2>3. \A j \in Keys : lock'[j] = None => tip'[j] = fp'[j] \/ lock[j] \notin {None, t}
    BY <1>1, NoneNoSession DEF TxnInv, LockInv
  <2>4. Holds(t)'
    BY <1>1 DEF Holds
  <2> QED BY <2>1, <2>2, <2>3, <2>4, LockKept DEF TxnInv
<1>6. SerialInv'
  <2>1. \A u \in Workers : pc'[u] \in {"clearflags", "resurrect"} => pc[u] = pc'[u] /\ KeyOf(u)' = KeyOf(u)
    BY <1>1 DEF StepOf, Sessions, KeyOf
  <2> QED BY <1>1, <2>1, SerialKept DEF TxnInv, SerialInv, KeyOf
<1>7. TodoInv'
  <2>1. \A u \in Sessions : pc'[u] = "arbitrate" => pc[u] = "arbitrate" /\ drawn'[u] = drawn[u]
    BY <1>1 DEF StepOf
  <2>2. pc'[Purger] \notin {"purge", "anonymize"} => todo' = {}
    BY PurgerSession DEF StepOf, TxnInv, TodoInv
  <2>3. \A j \in Keys :
           \/ tip'[j] \in {fp[j], tip[j]} \/ tip'[j].status = "deleted"
           \/ tip'[j].seq = fp[j].seq /\ tip'[j].status = fp[j].status
           \/ tip'[j].seq > seq
    BY <1>1
  <2> QED BY <1>1, <2>1, <2>2, <2>3, TodoKept DEF TxnInv
<1> QED BY <1>2, <1>3, <1>4, <1>5, <1>6, <1>7 DEF TxnInv

\* The end of a transaction: t is idle and holds nothing.
LEMMA Ended ==
  ASSUME TypeOK, TypeOK', TxnInv, NEW t \in Sessions, NEW r, Answer(t, r),
         CommitTxn(t) \/ RollbackTxn(t), UNCHANGED lastId, StepOf(t),
         \A k \in Keys : fp'[k] \in {fp[k], tip[k]} /\ tip'[k] \in {fp[k], tip[k]}
  PROVE  RowsShaped' /\ OpsAt' /\ IdInv' /\ LockInv'
<1>1. /\ pc'[t] = "idle" /\ arg'[t] = NoArg /\ drawn'[t] = 0 /\ \A k \in Keys : lock'[k] # t
  BY TypeParts, NoneNoSession
     DEF Answer, PcTyped, ArgTyped, CommitTxn, RollbackTxn, DrawnTyped, RowsTyped
<1>2. RowsShaped'
  BY DEF RowsShaped, TxnInv
<1>3. OpsAt'
  <2>1. OpAt(t)'
    BY <1>1 DEF OpAt, ContributeLabels
  <2> QED BY <2>1, OpsKept DEF TxnInv
<1>4. IdInv'
  <2>1. arg'[t].id <= lastId
    BY <1>1, TypeParts DEF NoArg, GenTyped
  <2> QED BY <1>1, <2>1, IdsKept DEF TxnInv
<1>5. LockInv'
  <2>1. \A k \in Keys : lock'[k] = None => tip'[k] = fp'[k] \/ lock[k] \notin {None, t}
    BY TypeParts, NoneNoSession DEF CommitTxn, RollbackTxn, RowsTyped, TxnInv, LockInv
  <2> QED BY <1>1, <2>1, LockKept DEF TxnInv, HoldLabels
<1> QED BY <1>2, <1>3, <1>4, <1>5

LEMMA EndedTodo ==
  ASSUME TypeOK, TypeOK', TxnInv, NEW t \in Sessions, NEW r, Answer(t, r),
         CommitTxn(t) \/ RollbackTxn(t), StepOf(t), todo' \in SUBSET todo,
         t = Purger => todo' = {}
  PROVE  TodoInv'
<1>1. \A k \in Keys : fp'[k] \in {fp[k], tip[k]} /\ tip'[k] \in {fp[k], tip[k]}
  BY DEF CommitTxn, RollbackTxn
<1>2. seq' = seq /\ seq \in Nat
  BY TypeParts DEF CommitTxn, RollbackTxn, GenTyped
<1>3. pc'[t] = "idle"
  BY TypeParts DEF Answer, PcTyped
<1>4. \A u \in Sessions : pc'[u] = "arbitrate" => pc[u] = "arbitrate" /\ drawn'[u] = drawn[u]
  BY <1>3 DEF StepOf
<1>5. pc'[Purger] \notin {"purge", "anonymize"} => todo' = {}
  BY PurgerSession DEF StepOf, TxnInv, TodoInv
<1> QED BY <1>1, <1>2, <1>4, <1>5, TodoKept DEF TxnInv

LEMMA TxnRolledBack ==
  ASSUME TypeOK, TypeOK', TxnInv, NEW t \in Sessions, NEW r, Answer(t, r), RollbackTxn(t),
         todo' \in SUBSET todo, t = Purger => todo' = {}
  PROVE  TxnInv'
<1>1. StepOf(t) /\ UNCHANGED <<fp, lastId>>
  BY RollbackStepOf DEF RollbackTxn
<1>2. RowsShaped' /\ OpsAt' /\ IdInv' /\ LockInv' /\ TodoInv'
  BY <1>1, Ended, EndedTodo DEF RollbackTxn
<1>3. pc'[t] = "idle"
  BY TypeParts DEF Answer, PcTyped
<1>4. SerialInv'
  <2>1. \A u \in Workers : pc'[u] \in {"clearflags", "resurrect"} =>
          pc[u] = pc'[u] /\ KeyOf(u)' = KeyOf(u)
    BY <1>1, <1>3 DEF StepOf, Sessions, KeyOf
  <2> QED BY <1>1, <1>3, <2>1, SerialKept DEF TxnInv, SerialInv
<1> QED BY <1>2, <1>4 DEF TxnInv

\* What a commit publishes is what the row was written to be.
LEMMA CommitPublishes ==
  ASSUME TxnInv, NEW t \in Sessions, CommitTxn(t), NEW k \in Keys, fp'[k] # fp[k]
  PROVE  /\ lock[k] = t /\ fp'[k] = tip[k]
         /\ (Committable(t, k) /\ arg[t].id # 0) \/ Retired(t, k)
<1>1. lock[k] = t /\ fp'[k] = tip[k]
  BY DEF CommitTxn
<1> QED BY <1>1 DEF TxnInv, LockInv, Holding, LockedOnly

LEMMA TxnCommitted ==
  ASSUME TypeOK, TypeOK', ArgsPresent, TxnInv, NEW t \in Sessions, NEW r, Answer(t, r), CommitTxn(t),
         todo' \in SUBSET todo, t = Purger => todo' = {}
  PROVE  TxnInv'
<1>1. StepOf(t) /\ UNCHANGED lastId
  BY CommitStepOf DEF CommitTxn
<1>2. RowsShaped' /\ OpsAt' /\ IdInv' /\ LockInv' /\ TodoInv'
  BY <1>1, Ended, EndedTodo DEF CommitTxn
<1>3. pc'[t] = "idle"
  BY TypeParts DEF Answer, PcTyped
<1>4. SerialInv'
  <2>1. ASSUME SerialContribute, NEW u \in Workers, pc'[u] \in {"clearflags", "resurrect"}
        PROVE  fp'[KeyOf(u)'].status \in {"deleted", "absent"}
    <3>1. u # t /\ pc[u] = pc'[u] /\ arg'[u] = arg[u] /\ KeyOf(u)' = KeyOf(u)
      BY <1>1, <1>3, <2>1 DEF StepOf, Sessions, KeyOf
    <3>2. /\ fp[KeyOf(u)].status \in {"deleted", "absent"} /\ arg[u].op = "contribute"
      BY <2>1, <3>1 DEF TxnInv, SerialInv, OpsAt, OpAt, ContributeLabels, Sessions
    <3>3. CASE KeyOf(u) \in Keys /\ fp'[KeyOf(u)] # fp[KeyOf(u)]
      <4> DEFINE k == KeyOf(u)
      <4>1. /\ lock[k] = t /\ fp'[k] = tip[k]
            /\ Committable(t, k) \/ Retired(t, k)
        BY <3>3, CommitPublishes
      <4>2. fp[k] \in Row
        BY <3>3, TypeParts DEF RowsTyped
      <4>3. CASE Retired(t, k)
        BY <4>1, <4>2, <4>3, <3>1 DEF Retired, NoRow, ForgetSource, Row
      <4>4. CASE Committable(t, k)
        <5>1. ~ Contributed(t, k)
          BY <4>4, <3>1, <3>2, <2>1 DEF Contributed, TxnInv, SerialInv, Committable
        <5>2. ~ Flagged(t, k) /\ ~ HitReported(t, k) /\ ~ SoftDeleted(t, k)
          BY <3>2 DEF Flagged, HitReported, SoftDeleted, Live
        <5> QED BY <4>4, <5>1, <5>2 DEF Committable, Written
      <4> QED BY <4>1, <4>3, <4>4
    <3>4. CASE KeyOf(u) \notin Keys
      BY <3>1, <3>4, <2>1, KeyOfType, WorkerNotPurger DEF ContributeLabels
    <3> QED BY <3>1, <3>2, <3>3, <3>4
  <2> QED BY <1>1, <1>3, <2>1, SerialKept DEF TxnInv
<1> QED BY <1>2, <1>4 DEF TxnInv

-----------------------------------------------------------------------------
(* One lemma per statement of a worker.                                    *)

\* A statement that only moves t on.
LEMMA TxnGoto ==
  ASSUME TypeOK, TypeOK', TxnInv, NEW t \in Workers, StepOf(t), NEW l, Goto(t, l),
         UNCHANGED <<rowVars, genVars, todo, arg, drawn, reply>>,
         l \notin {"idle", "arbitrate", "commit"}, pc[t] # "idle",
         OpAt(t)', l \in {"softdelete", "clearflags", "resurrect"} => IdOfCall(t)',
         \A k \in Keys : lock[k] = t => Holding(t, k)', l \in HoldLabels => Holds(t),
         (SerialContribute /\ l \in {"clearflags", "resurrect"}) =>
            fp[KeyOf(t)].status \in {"deleted", "absent"}
  PROVE  TxnInv'
<1>1. t \in Sessions /\ t # Purger
  BY WorkerNotPurger
<1>2. pc'[t] = l
  BY <1>1, TypeParts DEF Goto, PcTyped
<1>3. KeyOf(t)' = KeyOf(t)
  BY DEF KeyOf
<1>4. arg'[t].id <= lastId
  BY <1>1 DEF TxnInv, IdInv, IdOfCall
<1> QED BY <1>1, <1>2, <1>3, <1>4, TxnRead

LEMMA SelectExistingTxn ==
  ASSUME TypeOK, TypeOK', ArgsPresent, TxnInv, NEW t \in Workers, SelectExisting(t)
  PROVE  TxnInv'
<1> t \in Sessions /\ t # Purger
  BY WorkerNotPurger
<1> DEFINE k == KeyOf(t)
<1>0. /\ k \in Keys /\ pc[t] = "select" /\ arg[t].op = "contribute" /\ drawn[t] = 0
      /\ reply[t] = "none" /\ StepOf(t)
  BY KeyOfType, WorkerStepOf DEF SelectExisting, ContributeLabels, TxnInv, OpsAt, OpAt, WorkerStep
<1>1. \A j \in Keys : lock[j] # t
  BY <1>0, HoldsNothing DEF TxnInv, HoldLabels
<1>2. CASE AnswerReadOnly(t, "409")
  BY <1>0, <1>2, TxnAnswered DEF HoldLabels
<1>3. CASE /\ fp[k].status # "absent" /\ ~ Duplicate(fp[k])
           /\ arg' = [arg EXCEPT ![t].id = fp[k].id]
           /\ Goto(t, "clearflags")
           /\ UNCHANGED <<rowVars, childVars, genVars, seen, drawn, todo, reply, envVars>>
  <2>1. /\ pc'[t] = "clearflags" /\ arg'[t] = [arg[t] EXCEPT !.id = fp[k].id]
        /\ fp' = fp /\ tip' = tip /\ lastId' = lastId
    BY <1>3, TypeParts DEF Goto, PcTyped, ArgTyped, rowVars, genVars
  <2>2. /\ arg'[t].id = fp[k].id /\ KeyOf(t)' = k /\ arg'[t].op = "contribute"
    BY <1>0, <2>1, TypeParts DEF ArgTyped, ArgType, KeyOf
  <2>3. fp[k].status = "deleted" /\ fp[k].id # 0
    BY <1>0, <1>3, TypeParts
       DEF Duplicate, RowsTyped, Row, Status, TxnInv, RowsShaped, RowShape, NoRow
  <2>4. IdOfCall(t)'
    <3>1. \A u \in Sessions : pc'[u] = "arbitrate" => arg'[u].id # fp[k].id
      BY <1>0, <2>1, <2>3 DEF StepOf, TxnInv, IdInv, IdOfCall, CarriesId
    <3>2. \A j \in Keys : CarriesId(j, fp[k].id) => j = k
      BY <1>0 DEF TxnInv, IdInv, IdsOfRows
    <3>3. fp[k].id <= lastId
      BY <1>0 DEF TxnInv, IdInv, IdsOfRows
    <3> QED BY <2>1, <2>2, <2>3, <3>1, <3>2, <3>3 DEF IdOfCall, Placed, CarriesId
  <2>5. OpAt(t)'
    BY <1>0, <1>3, <2>1, <2>2 DEF OpAt, ContributeLabels
  <2>6. arg'[t].id <= lastId
    BY <2>1, <2>4 DEF IdOfCall
  <2> QED BY <1>0, <1>1, <1>3, <2>1, <2>2, <2>3, <2>4, <2>5, <2>6, TxnRead DEF HoldLabels
<1>4. CASE /\ Goto(t, "insert")
           /\ UNCHANGED <<rowVars, childVars, genVars, arg, seen, drawn, todo, reply, envVars>>
  <2>1. pc'[t] = "insert"
    BY <1>4, TypeParts DEF Goto, PcTyped
  <2>2. OpAt(t)'
    BY <1>0, <1>4, <2>1 DEF OpAt, ContributeLabels
  <2> QED BY <1>0, <1>1, <1>4, <2>2, TxnGoto DEF HoldLabels
<1> QED BY <1>2, <1>3, <1>4 DEF SelectExisting

LEMMA ClearFlagsTxn ==
  ASSUME TypeOK, TypeOK', ArgsPresent, TxnInv, NEW t \in Workers, ClearFlags(t)
  PROVE  TxnInv'
<1> t \in Sessions /\ t # Purger
  BY WorkerNotPurger
<1>0. /\ pc[t] = "clearflags" /\ arg[t].op = "contribute" /\ drawn[t] = 0
      /\ reply[t] = "none" /\ StepOf(t) /\ Goto(t, "resurrect")
      /\ UNCHANGED <<rowVars, genVars, todo, arg, drawn, reply>>
  BY WorkerStepOf DEF ClearFlags, ContributeLabels, TxnInv, OpsAt, OpAt, WorkerStep
<1>1. pc'[t] = "resurrect" /\ fp' = fp /\ tip' = tip /\ lastId' = lastId
  BY <1>0, TypeParts DEF Goto, PcTyped, rowVars, genVars
<1>2. \A j \in Keys : lock[j] # t
  BY <1>0, HoldsNothing DEF TxnInv, HoldLabels
<1>3. OpAt(t)'
  BY <1>0, <1>1 DEF OpAt, ContributeLabels
<1>4. \A u \in Sessions : pc'[u] = "arbitrate" => pc[u] = "arbitrate"
  BY <1>0, <1>1 DEF StepOf
<1>5. IdOfCall(t)'
  BY <1>0, <1>1, <1>4 DEF TxnInv, IdInv, IdOfCall, Placed, CarriesId, KeyOf
<1>6. SerialContribute => fp[KeyOf(t)].status \in {"deleted", "absent"}
  BY <1>0 DEF TxnInv, SerialInv
<1> QED BY <1>0, <1>2, <1>3, <1>5, <1>6, TxnGoto DEF HoldLabels

\* The number a statement draws is larger than the one its row carries.
LEMMA NextValLarger ==
  ASSUME TypeOK, SeqInv, NEW t \in Sessions, NEW k \in Keys, NextVal(t)
  PROVE  /\ drawn'[t] = seq + 1 /\ drawn'[t] > fp[k].seq /\ seq + 1 \in Nat \ {0}
         /\ seq <= seq' /\ seq + 1 > seq
<1>1. /\ fp[k].seq <= seq /\ fp[k].seq \in Nat /\ seq \in Nat
  BY TypeParts DEF SeqInv, SeqUnique, RowsTyped, Row, GenTyped
<1> QED BY <1>1, TypeParts DEF NextVal, DrawnTyped

LEMMA ResurrectTxn ==
  ASSUME TypeOK, TypeOK', ArgsPresent, SeqInv, TxnInv, NEW t \in Workers, Resurrect(t)
  PROVE  TxnInv'
<1> t \in Sessions /\ t # Purger
  BY WorkerNotPurger
<1> PICK k \in Keys : k = KeyOf(t)
  BY KeyOfType DEF Resurrect, ContributeLabels
<1> DEFINE r == Revived(fp[k], seq + 1, arg[t].triple)
<1>0. /\ pc[t] = "resurrect" /\ arg[t].op = "contribute" /\ arg[t].triple \in Triples
      /\ StepOf(t) /\ fp[k].id = arg[t].id /\ arg[t].id # 0
  BY KeyOfType, WorkerStepOf
     DEF Resurrect, ContributeLabels, TxnInv, OpsAt, OpAt, WorkerStep, IdInv, IdOfCall, Placed
<1>1. /\ drawn'[t] = seq + 1 /\ drawn'[t] > fp[k].seq /\ seq + 1 \in Nat \ {0}
      /\ seq <= seq' /\ seq + 1 > seq
  BY <1>0, NextValLarger DEF Resurrect
<1>2. fp[k] \in Row /\ r \in Row
  BY <1>0, <1>1, RevivedType, TypeParts DEF RowsTyped
<1>3. r.seq = seq + 1 /\ r.id = fp[k].id /\ RowShape(r)
  BY <1>0, <1>1, <1>2 DEF Revived, Row, RowShape
<1>4. /\ WriteRow(t, k, r, "commit") /\ fp' = fp /\ tip'[k] = r /\ arg' = arg
  BY <1>0, TypeParts DEF Resurrect, WriteRow, RowsTyped
<1>5. SerialContribute => fp[k].status = "deleted"
  BY <1>0 DEF TxnInv, SerialInv, RowsShaped, RowShape
<1>6. Contributed(t, k)'
  BY <1>0, <1>1, <1>4, <1>5 DEF Contributed, KeyOf
<1>7. \A j \in Keys : lock[j] # t
  BY <1>0, HoldsNothing DEF TxnInv, HoldLabels
<1> QED BY <1>0, <1>1, <1>2, <1>3, <1>4, <1>6, <1>7, TxnWrite DEF Resurrect, Written, childVars

LEMMA EvaluateDefaultsTxn ==
  ASSUME TypeOK, TypeOK', ArgsPresent, SeqInv, TxnInv, NEW t \in Workers, EvaluateDefaults(t)
  PROVE  TxnInv'
<1> t \in Sessions /\ t # Purger
  BY WorkerNotPurger
<1>0. /\ pc[t] = "insert" /\ arg[t].op = "contribute" /\ reply[t] = "none" /\ StepOf(t)
      /\ lastId \in Nat /\ lastId' = lastId + 1 /\ seq \in Nat /\ seq' = seq + 1
      /\ fp' = fp /\ tip' = tip /\ lock' = lock /\ todo' = todo /\ reply' = reply
  BY WorkerStepOf, TypeParts
     DEF EvaluateDefaults, ContributeLabels, TxnInv, OpsAt, OpAt, WorkerStep, rowVars,
         NextVal, GenTyped
<1>1. /\ pc'[t] = "arbitrate" /\ drawn'[t] = seq + 1 /\ arg'[t].id = lastId + 1
      /\ arg'[t].op = "contribute" /\ KeyOf(t)' = KeyOf(t)
  BY <1>0, TypeParts
     DEF EvaluateDefaults, Goto, NextVal, PcTyped, DrawnTyped, ArgTyped, ArgType, KeyOf
<1>2. RowsShaped'
  BY <1>0 DEF TxnInv, RowsShaped
<1>3. OpsAt'
  <2>1. OpAt(t)'
    BY <1>0, <1>1 DEF OpAt, ContributeLabels
  <2> QED BY <1>0, <2>1, OpsKept DEF TxnInv
<1>4. IdInv'
  <2>1. \A j \in Keys : /\ fp[j].id \in Nat /\ fp[j].id <= lastId
                        /\ tip[j].id \in Nat /\ tip[j].id <= lastId
    BY TypeParts DEF TxnInv, IdInv, IdsOfRows, RowsTyped, Row
  <2>2. IdsOfRows'
    BY <1>0, <2>1 DEF TxnInv, IdInv, IdsOfRows, CarriesId
  <2>3. \A u \in Sessions : arg[u].id \in Nat /\ arg[u].id <= lastId
    BY TypeParts DEF ArgTyped, ArgType, TxnInv, IdInv, IdOfCall
  <2>4. IdOfCall(t)'
    BY <1>0, <1>1, <2>1, <2>3 DEF IdOfCall, CarriesId, StepOf
  <2>5. ASSUME NEW u \in Sessions, u # t PROVE IdOfCall(u)'
    <3>1. pc'[u] = pc[u] /\ arg'[u] = arg[u] /\ KeyOf(u)' = KeyOf(u) /\ IdOfCall(u)
      BY <1>0, <2>5 DEF StepOf, KeyOf, TxnInv, IdInv
    <3>2. \A k \in Keys : /\ CarriesId(k, arg[u].id)' <=> CarriesId(k, arg[u].id)
                          /\ MayDelete(u, k)' <=> MayDelete(u, k)
      BY <1>0, <3>1 DEF CarriesId, MayDelete
    <3>3. Placed(arg[u].id) => Placed(arg[u].id)'
      BY <1>0, <1>1, <2>3, <3>1 DEF Placed, StepOf
    <3>4. pc[u] = "arbitrate" =>
            \A w \in Sessions : (w # u /\ pc'[w] = "arbitrate") => arg'[w].id # arg[u].id
      BY <1>0, <1>1, <2>3, <3>1 DEF IdOfCall, StepOf
    <3>5. arg'[u].id <= lastId'
      BY <1>0, <2>3, <3>1
    <3>6. pc[u] = "arbitrate" => /\ arg[u].id # 0
                                 /\ \A k \in Keys : ~ CarriesId(k, arg[u].id)'
      BY <3>1, <3>2 DEF IdOfCall
    <3>7. pc[u] = "softdelete" =>
            Placed(arg[u].id)' /\ \A k \in Keys : CarriesId(k, arg[u].id)' => MayDelete(u, k)'
      BY <3>1, <3>2, <3>3 DEF IdOfCall
    <3>8. pc[u] \in {"clearflags", "resurrect"} =>
            Placed(arg[u].id)' /\ \A k \in Keys : CarriesId(k, arg[u].id)' => k = KeyOf(u)
      BY <3>1, <3>2, <3>3 DEF IdOfCall
    <3> QED BY <3>1, <3>4, <3>5, <3>6, <3>7, <3>8 DEF IdOfCall
  <2> QED BY <2>2, <2>4, <2>5 DEF IdInv
<1>5. LockInv'
  <2>1. \A k \in Keys : lock[k] # t
    BY <1>0, HoldsNothing DEF TxnInv, HoldLabels
  <2> QED BY <1>0, <1>1, <2>1, LockKept DEF TxnInv, LockInv, HoldLabels
<1>6. SerialInv'
  <2>1. \A u \in Workers : pc'[u] \in {"clearflags", "resurrect"} =>
          pc[u] = pc'[u] /\ KeyOf(u)' = KeyOf(u)
    BY <1>0, <1>1 DEF StepOf, Sessions, KeyOf
  <2> QED BY <1>0, <1>1, <2>1, SerialKept DEF TxnInv, SerialInv
<1>7. TodoInv'
  <2>1. \A u \in Sessions : pc'[u] = "arbitrate" =>
          (pc[u] = "arbitrate" /\ drawn'[u] = drawn[u]) \/ drawn'[u] > seq
    BY <1>0, <1>1 DEF StepOf
  <2>2. pc'[Purger] \notin {"purge", "anonymize"} => todo' = {}
    BY <1>0, PurgerSession DEF StepOf, TxnInv, TodoInv
  <2> QED BY <1>0, <2>1, <2>2, TodoKept DEF TxnInv
<1> QED BY <1>2, <1>3, <1>4, <1>5, <1>6, <1>7 DEF TxnInv

LEMMA InsertOrNothingTxn ==
  ASSUME TypeOK, TypeOK', ArgsPresent, SeqInv, TxnInv, NEW t \in Workers, InsertOrNothing(t)
  PROVE  TxnInv'
<1> t \in Sessions /\ t # Purger
  BY WorkerNotPurger
<1> PICK k \in Keys : k = KeyOf(t)
  BY KeyOfType DEF InsertOrNothing, ContributeLabels
<1>0. /\ pc[t] = "arbitrate" /\ arg[t].op = "contribute" /\ reply[t] = "none" /\ StepOf(t)
      /\ arg[t].triple \in Triples /\ drawn[t] # 0 /\ arg[t].id # 0
      /\ UNCHANGED <<genVars, arg, todo, reply>> /\ KeyOf(t)' = KeyOf(t)
  BY WorkerStepOf, KeyOfType
     DEF InsertOrNothing, ContributeLabels, TxnInv, OpsAt, OpAt, WorkerStep, KeyOf, IdInv, IdOfCall
<1>1. \A j \in Keys : lock[j] # t
  BY <1>0, HoldsNothing DEF TxnInv, HoldLabels
<1>2. CASE Goto(t, "reselect") /\ drawn' = [drawn EXCEPT ![t] = 0] /\ UNCHANGED rowVars
  <2>1. pc'[t] = "reselect" /\ drawn'[t] = 0
    BY <1>2, TypeParts DEF Goto, PcTyped, DrawnTyped
  <2>2. OpAt(t)'
    BY <1>0, <2>1 DEF OpAt, ContributeLabels
  <2>3. arg'[t].id <= lastId
    BY <1>0 DEF TxnInv, IdInv, IdOfCall
  <2> QED BY <1>0, <1>1, <1>2, <2>1, <2>2, <2>3, TxnRead DEF HoldLabels
<1>3. CASE /\ fp[k] = NoRow /\ lock[k] = None
           /\ WriteRow(t, k, Inserted(t), "commit") /\ UNCHANGED drawn
  <2>1. /\ fp' = fp /\ tip'[k] = Inserted(t) /\ lock'[k] = t /\ pc'[t] = "commit"
        /\ seq' = seq /\ lastId' = lastId /\ arg' = arg
        /\ \A j \in Keys \ {k} : tip'[j] = tip[j] /\ lock'[j] = lock[j]
    BY <1>0, <1>3, TypeParts DEF WriteRow, Goto, RowsTyped, PcTyped, genVars
  <2>2. /\ Inserted(t).id = arg[t].id /\ Inserted(t).seq = drawn[t]
        /\ Inserted(t).status = "active" /\ Inserted(t).triple = arg[t].triple
    BY DEF Inserted, NoRow
  <2>3. RowsShaped'
    BY <1>0, <2>1, <2>2 DEF TxnInv, RowsShaped, RowShape
  <2>4. OpsAt'
    <3>1. OpAt(t)'
      BY <1>0, <2>1 DEF OpAt, ContributeLabels
    <3> QED BY <1>0, <3>1, OpsKept DEF TxnInv
  <2>5. IdInv'
    <3>1. \A j \in Keys : \A i : CarriesId(j, i)' => CarriesId(j, i) \/ (j = k /\ i = arg[t].id)
      BY <2>1, <2>2 DEF CarriesId
    <3>2. \A j \in Keys : ~ CarriesId(j, arg[t].id)
      BY <1>0 DEF TxnInv, IdInv, IdOfCall
    <3>3. IdsOfRows'
      <4>1. arg[t].id <= lastId
        BY DEF TxnInv, IdInv, IdOfCall
      <4>2. \A j \in Keys : {fp'[j].id, tip'[j].id} \subseteq
               {fp[j].id, tip[j].id} \cup IF j = k THEN {arg[t].id} ELSE {}
        BY <2>1, <2>2
      <4> QED BY <1>0, <2>1, <3>1, <3>2, <4>1, <4>2 DEF TxnInv, IdInv, IdsOfRows, CarriesId
    <3>4. ASSUME NEW u \in Sessions PROVE IdOfCall(u)'
      <4>1. /\ arg'[u] = arg[u] /\ KeyOf(u)' = KeyOf(u) /\ IdOfCall(u)
            /\ u # t => pc'[u] = pc[u]
        BY <1>0, <2>1 DEF StepOf, KeyOf, TxnInv, IdInv
      <4>2. \A w \in Sessions : pc'[w] = "arbitrate" => pc[w] = "arbitrate"
        BY <1>0, <2>1 DEF StepOf
      <4>3. Placed(arg[u].id) => Placed(arg[u].id)' /\ arg[u].id # arg[t].id
        BY <1>0, <2>1, <4>2 DEF Placed
      <4>4. pc'[u] = "arbitrate" =>
              /\ arg[u].id # 0 /\ arg[u].id # arg[t].id
              /\ \A j \in Keys : ~ CarriesId(j, arg[u].id)
              /\ \A w \in Sessions : (w # u /\ pc'[w] = "arbitrate") => arg[w].id # arg[u].id
        BY <1>0, <2>1, <4>1, <4>2 DEF IdOfCall
      <4>5. \A j \in Keys : MayDelete(u, j)' <=> MayDelete(u, j)
        BY <4>1 DEF MayDelete
      <4>6. pc'[u] = "softdelete" =>
              Placed(arg[u].id)' /\ \A j \in Keys : CarriesId(j, arg[u].id)' => MayDelete(u, j)'
        BY <2>1, <3>1, <4>1, <4>3, <4>5 DEF IdOfCall
      <4>7. pc'[u] \in {"clearflags", "resurrect"} =>
              Placed(arg[u].id)' /\ \A j \in Keys : CarriesId(j, arg[u].id)' => j = KeyOf(u)
        BY <2>1, <3>1, <4>1, <4>3 DEF IdOfCall
      <4>8. arg'[u].id <= lastId'
        BY <2>1, <4>1 DEF IdOfCall
      <4> QED BY <2>1, <3>1, <4>1, <4>4, <4>6, <4>7, <4>8 DEF IdOfCall
    <3> QED BY <3>3, <3>4 DEF IdInv
  <2>6. LockInv'
    <3>1. drawn'[t] > fp'[k].seq /\ drawn' = drawn
      BY <1>0, <1>3, <2>1, TypeParts DEF NoRow, DrawnTyped
    <3>2. Inserted(t)' = Inserted(t)
      BY <2>1, <3>1 DEF Inserted
    <3>3. Holding(t, k)'
      BY <1>0, <1>3, <2>1, <3>1, <3>2 DEF Holding, Committable, Written, Contributed
    <3>4. \A j \in Keys : lock'[j] = None => tip'[j] = fp'[j]
      BY <2>1, NoneNoSession DEF TxnInv, LockInv
    <3> QED BY <1>0, <1>1, <2>1, <3>3, <3>4, LockKept DEF TxnInv, Holds
  <2>7. SerialInv'
    <3>1. \A u \in Workers : pc'[u] \in {"clearflags", "resurrect"} =>
            pc[u] = pc'[u] /\ KeyOf(u)' = KeyOf(u)
      BY <1>0, <2>1 DEF StepOf, Sessions, KeyOf
    <3> QED BY <1>0, <2>1, <3>1, SerialKept DEF TxnInv, SerialInv
  <2>8. TodoInv'
    <3>1. \A u \in Sessions : pc'[u] = "arbitrate" => pc[u] = "arbitrate" /\ drawn'[u] = drawn[u]
      BY <1>0, <2>1 DEF StepOf
    <3>2. pc'[Purger] \notin {"purge", "anonymize"} => todo' = {}
      BY <1>0, PurgerSession DEF StepOf, TxnInv, TodoInv
    <3>3. seq \in Nat
      BY TypeParts DEF GenTyped
    <3> QED BY <1>0, <2>1, <2>2, <3>1, <3>2, <3>3, TodoKept DEF TxnInv
  <2> QED BY <2>3, <2>4, <2>5, <2>6, <2>7, <2>8 DEF TxnInv
<1> QED BY <1>2, <1>3 DEF InsertOrNothing

LEMMA LockRowTxn ==
  ASSUME TypeOK, TypeOK', ArgsPresent, TxnInv, NEW t \in Workers, LockRow(t)
  PROVE  TxnInv'
<1> t \in Sessions /\ t # Purger
  BY WorkerNotPurger
<1> PICK k \in Keys :
      /\ fp[k].id = arg[t].id /\ lock[k] = None
      /\ \/ AnswerReadOnly(t, "404")
         \/ /\ fp[k].status # "deleted"
            /\ Hold(t, k)
            /\ seen' = [seen EXCEPT ![t].status = fp[k].status]
            /\ Goto(t, IF arg[t].op = "flag" THEN "addflag" ELSE "bumphit")
            /\ UNCHANGED <<fp, tip, childVars, genVars, arg, drawn, todo, reply, envVars>>
  BY DEF LockRow
<1>0. /\ pc[t] = "lockrow" /\ arg[t].op \in {"flag", "hit"} /\ reply[t] = "none"
      /\ drawn[t] = 0 /\ arg[t].id # 0 /\ StepOf(t)
  BY WorkerStepOf DEF LockRow, TxnInv, OpsAt, OpAt, WorkerStep
<1>1. CASE AnswerReadOnly(t, "404")
  BY <1>0, <1>1, TxnAnswered DEF HoldLabels
<1>2. CASE ~ AnswerReadOnly(t, "404")
  <2>1. /\ fp' = fp /\ tip' = tip /\ arg' = arg /\ drawn' = drawn /\ reply' = reply
        /\ todo' = todo /\ seq' = seq /\ lastId' = lastId
        /\ pc'[t] = IF arg[t].op = "flag" THEN "addflag" ELSE "bumphit"
        /\ lock'[k] = t /\ \A j \in Keys \ {k} : lock'[j] = lock[j]
        /\ seen'[t].status = fp[k].status
    BY <1>2, TypeParts DEF Goto, PcTyped, Hold, RowsTyped, SeenTyped, genVars
  <2>2. fp[k].status \in Live
    BY <1>0, <1>2, TypeParts DEF TxnInv, RowsShaped, RowShape, RowsTyped, Row, Status, Live
  <2>3. RowsShaped'
    BY <2>1 DEF TxnInv, RowsShaped
  <2>4. OpsAt'
    <3>1. OpAt(t)'
      BY <1>0, <2>1 DEF OpAt, ContributeLabels
    <3> QED BY <1>0, <3>1, OpsKept DEF TxnInv
  <2>5. IdInv'
    <3>1. arg'[t].id <= lastId
      BY <2>1 DEF TxnInv, IdInv, IdOfCall
    <3> QED BY <1>0, <2>1, <3>1, IdsKept DEF TxnInv
  <2>6. LockInv'
    <3>1. tip[k] = fp[k]
      BY DEF TxnInv, LockInv
    <3>2. Holding(t, k)'
      BY <1>0, <2>1, <2>2, <3>1 DEF Holding, LockedOnly, HoldLabels
    <3>3. \A j \in Keys : lock[j] # t
      BY <1>0, HoldsNothing DEF TxnInv, HoldLabels
    <3>4. \A j \in Keys : lock'[j] = None => tip'[j] = fp'[j]
      BY <2>1, NoneNoSession DEF TxnInv, LockInv
    <3> QED BY <1>0, <2>1, <3>2, <3>3, <3>4, LockKept DEF TxnInv, Holds
  <2>7. SerialInv'
    <3>1. \A u \in Workers : pc'[u] \in {"clearflags", "resurrect"} =>
            pc[u] = pc'[u] /\ KeyOf(u)' = KeyOf(u)
      BY <1>0, <2>1 DEF StepOf, Sessions, KeyOf
    <3> QED BY <1>0, <2>1, <3>1, SerialKept DEF TxnInv, SerialInv
  <2>8. TodoInv'
    <3>1. \A u \in Sessions : pc'[u] = "arbitrate" => pc[u] = "arbitrate" /\ drawn'[u] = drawn[u]
      BY <1>0, <2>1 DEF StepOf
    <3>2. pc'[Purger] \notin {"purge", "anonymize"} => todo' = {}
      BY <1>0, <2>1, PurgerSession DEF StepOf, TxnInv, TodoInv
    <3>3. seq \in Nat
      BY TypeParts DEF GenTyped
    <3> QED BY <1>0, <2>1, <3>1, <3>2, <3>3, TodoKept DEF TxnInv
  <2> QED BY <2>3, <2>4, <2>5, <2>6, <2>7, <2>8 DEF TxnInv
<1> QED BY <1>1, <1>2

\* flag()'s insert and its count: the row stays locked and as it was.
LEMMA FlagStatementTxn ==
  ASSUME TypeOK, TypeOK', ArgsPresent, TxnInv, NEW t \in Workers, AddFlag(t) \/ CountFlags(t)
  PROVE  TxnInv'
<1> t \in Sessions /\ t # Purger
  BY WorkerNotPurger
<1>0. /\ pc[t] \in {"addflag", "countflags"} /\ arg[t].op = "flag" /\ reply[t] = "none"
      /\ drawn[t] = 0 /\ StepOf(t) /\ UNCHANGED <<rowVars, genVars, todo, arg, drawn, reply>>
  BY WorkerStepOf DEF AddFlag, CountFlags, TxnInv, OpsAt, OpAt, WorkerStep, childVars
<1>1. PICK l \in {"countflags", "applyflag"} : Goto(t, l)
  BY DEF AddFlag, CountFlags
<1>2. /\ fp' = fp /\ tip' = tip /\ pc'[t] = l /\ seen'[t].status = seen[t].status
  BY <1>0, <1>1, TypeParts DEF rowVars, Goto, PcTyped, AddFlag, CountFlags, SeenTyped
<1>3. OpAt(t)'
  BY <1>0, <1>2 DEF OpAt, ContributeLabels
<1>4. \A k \in Keys : lock[k] = t => Holding(t, k)'
  BY <1>0, <1>2
     DEF TxnInv, LockInv, Holding, LockedOnly, Committable, Retired, HoldLabels
<1>5. Holds(t)
  BY <1>0 DEF TxnInv, LockInv, HoldLabels
<1> QED BY <1>0, <1>1, <1>3, <1>4, <1>5, TxnGoto

\* The row that flag() or report_hit() has locked is the one it updates.
LEMMA LockedRow ==
  ASSUME TypeOK, TxnInv, NEW t \in Workers, pc[t] \in HoldLabels,
         NEW k \in Keys, fp[k].id = arg[t].id
  PROVE  /\ arg[t].id # 0 /\ lock[k] = t /\ LockedOnly(t, k)
         /\ \A j \in Keys : lock[j] = t => j = k
<1> t \in Sessions /\ t # Purger
  BY WorkerNotPurger
<1>1. PICK i \in Keys : lock[i] = t
  BY DEF TxnInv, LockInv, Holds
<1>2. \A j \in Keys : lock[j] = t => LockedOnly(t, j) /\ arg[t].id # 0
  BY DEF TxnInv, LockInv, Holding, Committable, Retired, HoldLabels
<1>3. \A j \in Keys : lock[j] = t => j = k
  BY <1>2 DEF LockedOnly, TxnInv, IdInv, IdsOfRows, CarriesId
<1> QED BY <1>1, <1>2, <1>3

LEMMA ApplyFlagTxn ==
  ASSUME TypeOK, TypeOK', ArgsPresent, SeqInv, TxnInv, NEW t \in Workers, ApplyFlag(t)
  PROVE  TxnInv'
<1> t \in Sessions /\ t # Purger
  BY WorkerNotPurger
<1> PICK k \in Keys :
      /\ fp[k].id = arg[t].id
      /\ Lockable(t, k)
      /\ \/ /\ seen[t].count >= AutoHideThreshold /\ seen[t].status = "active"
            /\ NextVal(t)
            /\ WriteRow(t, k, [fp[k] EXCEPT !.status = "hidden", !.seq = seq + 1,
                                            !.flagCount = seen[t].count], "commit")
         \/ /\ ~ (seen[t].count >= AutoHideThreshold /\ seen[t].status = "active")
            /\ NoNextVal
            /\ WriteRow(t, k, [fp[k] EXCEPT !.flagCount = seen[t].count], "commit")
  BY DEF ApplyFlag
<1>0. /\ pc[t] = "applyflag" /\ arg[t].op = "flag" /\ drawn[t] = 0 /\ StepOf(t)
      /\ UNCHANGED <<lastId, arg, seen, todo, reply>>
  BY WorkerStepOf DEF ApplyFlag, TxnInv, OpsAt, OpAt, WorkerStep
<1>1. /\ arg[t].id # 0 /\ \A j \in Keys : lock[j] = t => j = k
      /\ fp[k].status \in Live /\ seen[t].status = fp[k].status
  BY <1>0, LockedRow DEF LockedOnly, HoldLabels
<1>2. fp[k] \in Row /\ seen[t].count \in Nat /\ seq \in Nat /\ fp' = fp
  BY TypeParts DEF RowsTyped, SeenTyped, GenTyped, WriteRow
<1>3. RowShape(fp[k]) /\ fp[k].id # 0
  BY <1>1 DEF TxnInv, RowsShaped
<1>4. CASE /\ Hides(t, k) /\ NextVal(t)
           /\ WriteRow(t, k, [fp[k] EXCEPT !.status = "hidden", !.seq = seq + 1,
                                           !.flagCount = seen[t].count], "commit")
  <2> DEFINE r == [fp[k] EXCEPT !.status = "hidden", !.seq = seq + 1,
                                !.flagCount = seen[t].count]
  <2>1. /\ drawn'[t] = seq + 1 /\ drawn'[t] > fp[k].seq /\ seq + 1 \in Nat \ {0}
        /\ seq <= seq' /\ seq + 1 > seq
    BY <1>4, NextValLarger
  <2>2. r \in Row /\ r.seq = seq + 1 /\ r.id = fp[k].id /\ RowShape(r)
    BY <1>2, <1>3, <2>1 DEF Row, Status, RowShape
  <2>3. tip'[k] = r
    BY <1>4, <2>2, TypeParts DEF WriteRow, RowsTyped
  <2>4. Hides(t, k)'
    BY <1>0, <1>2, <1>4 DEF Hides
  <2>5. tip'[k] = [fp[k] EXCEPT !.status = "hidden", !.seq = drawn'[t],
                                !.flagCount = seen[t].count]
    BY <2>1, <2>3
  <2>6. Flagged(t, k)'
    BY <1>0, <1>1, <1>2, <2>1, <2>4, <2>5 DEF Flagged
  <2> QED BY <1>0, <1>1, <1>4, <2>1, <2>2, <2>6, TxnWrite DEF Written
<1>5. CASE /\ ~ Hides(t, k) /\ NoNextVal
           /\ WriteRow(t, k, [fp[k] EXCEPT !.flagCount = seen[t].count], "commit")
  <2> DEFINE r == [fp[k] EXCEPT !.flagCount = seen[t].count]
  <2>1. /\ r \in Row /\ r.seq = fp[k].seq /\ r.status = fp[k].status /\ r.id = fp[k].id
        /\ RowShape(r)
    BY <1>2, <1>3 DEF Row, Status, RowShape
  <2>2. tip'[k] = r /\ drawn'[t] = 0 /\ seq <= seq'
    BY <1>0, <1>2, <1>5, <2>1, TypeParts DEF WriteRow, RowsTyped, NoNextVal
  <2>3. ~ Hides(t, k)'
    BY <1>0, <1>2, <1>5 DEF Hides
  <2>4. Flagged(t, k)'
    BY <1>0, <1>1, <1>2, <2>2, <2>3 DEF Flagged
  <2> QED BY <1>0, <1>1, <1>5, <2>1, <2>2, <2>4, TxnWrite DEF Written
<1> QED BY <1>1, <1>4, <1>5 DEF Hides

LEMMA BumpHitTxn ==
  ASSUME TypeOK, TypeOK', ArgsPresent, TxnInv, NEW t \in Workers, BumpHit(t)
  PROVE  TxnInv'
<1> t \in Sessions /\ t # Purger
  BY WorkerNotPurger
<1> PICK k \in Keys :
      /\ fp[k].id = arg[t].id /\ Lockable(t, k) /\ NoNextVal
      /\ WriteRow(t, k, [fp[k] EXCEPT !.hitCount = @ + 1], "commit")
  BY DEF BumpHit
<1> DEFINE r == [fp[k] EXCEPT !.hitCount = @ + 1]
<1>0. /\ pc[t] = "bumphit" /\ arg[t].op = "hit" /\ drawn[t] = 0 /\ StepOf(t)
      /\ UNCHANGED <<lastId, arg, seen, todo, reply>>
  BY WorkerStepOf DEF BumpHit, TxnInv, OpsAt, OpAt, WorkerStep
<1>1. /\ arg[t].id # 0 /\ \A j \in Keys : lock[j] = t => j = k
      /\ fp[k].status \in Live
  BY <1>0, LockedRow DEF LockedOnly, HoldLabels
<1>2. fp[k] \in Row /\ seq \in Nat /\ fp' = fp
  BY TypeParts DEF RowsTyped, GenTyped, WriteRow
<1>3. RowShape(fp[k]) /\ fp[k].id # 0
  BY <1>1 DEF TxnInv, RowsShaped
<1>4. /\ r \in Row /\ r.seq = fp[k].seq /\ r.status = fp[k].status /\ r.id = fp[k].id
      /\ RowShape(r)
  BY <1>2, <1>3 DEF Row, Status, RowShape
<1>5. tip'[k] = r /\ drawn'[t] = 0 /\ seq <= seq'
  BY <1>0, <1>2, <1>4, TypeParts DEF WriteRow, RowsTyped, NoNextVal
<1>6. HitReported(t, k)'
  BY <1>0, <1>1, <1>2, <1>5 DEF HitReported
<1> QED BY <1>0, <1>1, <1>4, <1>5, <1>6, TxnWrite DEF Written

LEMMA CheckOwnerTxn ==
  ASSUME TypeOK, TypeOK', ArgsPresent, TxnInv, NEW t \in Workers, CheckOwner(t)
  PROVE  TxnInv'
<1> t \in Sessions /\ t # Purger
  BY WorkerNotPurger
<1>0. /\ pc[t] = "check" /\ arg[t].op = "delete" /\ reply[t] = "none" /\ arg[t].id # 0
      /\ drawn[t] = 0 /\ StepOf(t)
  BY WorkerStepOf DEF CheckOwner, TxnInv, OpsAt, OpAt, WorkerStep
<1>1. CASE \E r : AnswerReadOnly(t, r)
  BY <1>0, <1>1, TxnAnswered DEF HoldLabels
<1>2. ASSUME NEW k \in Keys, fp[k].id = arg[t].id, MayDelete(t, k), Goto(t, "softdelete"),
             UNCHANGED <<rowVars, childVars, genVars, arg, seen, drawn, todo, reply, envVars>>
      PROVE  TxnInv'
  <2>1. pc'[t] = "softdelete" /\ fp' = fp /\ tip' = tip /\ lastId' = lastId
    BY <1>2, TypeParts DEF Goto, PcTyped, rowVars, genVars
  <2>2. OpAt(t)'
    BY <1>0, <1>2, <2>1 DEF OpAt, ContributeLabels
  <2>3. IdOfCall(t)'
    <3>1. \A u \in Sessions : pc'[u] = "arbitrate" => pc[u] = "arbitrate" /\ arg'[u] = arg[u]
      BY <1>0, <2>1 DEF StepOf
    <3>2. Placed(arg[t].id)'
      BY <1>0, <1>2, <3>1 DEF Placed, TxnInv, IdInv, IdOfCall, CarriesId
    <3>3. \A j \in Keys : CarriesId(j, arg[t].id) => j = k
      BY <1>2 DEF TxnInv, IdInv, IdsOfRows
    <3>4. \A j \in Keys : MayDelete(t, j)' <=> MayDelete(t, j)
      BY <1>2 DEF MayDelete
    <3>5. arg[t].id <= lastId
      BY DEF TxnInv, IdInv, IdOfCall
    <3> QED BY <1>2, <2>1, <3>2, <3>3, <3>4, <3>5 DEF IdOfCall, CarriesId
  <2>4. \A j \in Keys : lock[j] # t
    BY <1>0, HoldsNothing DEF TxnInv, HoldLabels
  <2> QED BY <1>0, <1>2, <2>2, <2>3, <2>4, TxnGoto DEF HoldLabels
<1> QED BY <1>1, <1>2 DEF CheckOwner

LEMMA SoftDeleteTxn ==
  ASSUME TypeOK, TypeOK', ArgsPresent, SeqInv, TxnInv, NEW t \in Workers, SoftDelete(t)
  PROVE  TxnInv'
<1> t \in Sessions /\ t # Purger
  BY WorkerNotPurger
<1> PICK k \in Keys :
      /\ fp[k].id = arg[t].id /\ fp[k].status # "deleted" /\ Lockable(t, k) /\ NextVal(t)
      /\ WriteRow(t, k, Deleted(fp[k], seq + 1), "commit")
  BY DEF SoftDelete
<1> DEFINE r == Deleted(fp[k], seq + 1)
<1>0. /\ pc[t] = "softdelete" /\ arg[t].op = "delete" /\ StepOf(t) /\ arg[t].id # 0
      /\ UNCHANGED <<lastId, arg, seen, todo, reply>>
  BY WorkerStepOf DEF SoftDelete, TxnInv, OpsAt, OpAt, WorkerStep, IdInv, IdOfCall, Placed
<1>1. /\ drawn'[t] = seq + 1 /\ drawn'[t] > fp[k].seq /\ seq + 1 \in Nat \ {0}
      /\ seq <= seq' /\ seq + 1 > seq
  BY NextValLarger
<1>2. fp[k] \in Row /\ r \in Row /\ fp' = fp
  BY <1>1, DeletedType, TypeParts DEF RowsTyped, WriteRow
<1>3. RowShape(fp[k]) /\ fp[k].id # 0
  BY <1>0 DEF TxnInv, RowsShaped
<1>4. r.seq = seq + 1 /\ r.id = fp[k].id /\ r.status = "deleted" /\ RowShape(r)
  BY <1>1, <1>2, <1>3 DEF Deleted, Row, RowShape
<1>5. tip'[k] = r
  BY TypeParts DEF WriteRow, RowsTyped
<1>6. fp[k].status \in Live /\ MayDelete(t, k) /\ MayDelete(t, k)'
  BY <1>0, <1>2, <1>3
     DEF RowShape, Row, Status, Live, TxnInv, IdInv, IdOfCall, CarriesId, MayDelete
<1>7. SoftDeleted(t, k)'
  BY <1>0, <1>1, <1>2, <1>5, <1>6 DEF SoftDeleted
<1>8. \A j \in Keys : lock[j] # t
  BY <1>0, HoldsNothing DEF TxnInv, HoldLabels
<1> QED BY <1>0, <1>1, <1>2, <1>4, <1>7, <1>8, TxnWrite DEF Written

LEMMA WorkerTxn ==
  ASSUME TypeOK, TypeOK', ArgsPresent, SeqInv, TxnInv, NEW t \in Workers, WorkerStep(t)
  PROVE  TxnInv'
<1> t \in Sessions /\ t # Purger
  BY WorkerNotPurger
<1>1. CASE SelectWinner(t) \/ LockMissing(t) \/ SoftDeleteNothing(t)
  BY <1>1, TxnAnswered DEF SelectWinner, LockMissing, SoftDeleteNothing, HoldLabels
<1>2. CASE ResurrectGone(t) \/ Commit(t)
  BY <1>2, TxnCommitted DEF ResurrectGone, Commit
<1>3. CASE BadParameter(t)
  BY <1>3, TxnRolledBack DEF BadParameter
<1> QED BY <1>1, <1>2, <1>3, SelectExistingTxn, ClearFlagsTxn, ResurrectTxn, EvaluateDefaultsTxn,
           InsertOrNothingTxn, LockRowTxn, FlagStatementTxn, ApplyFlagTxn, BumpHitTxn,
           CheckOwnerTxn, SoftDeleteTxn
        DEF WorkerStep

-----------------------------------------------------------------------------
(* The retention tool, the calls and the faults.                           *)

\* A tombstone's number belongs to a tombstone wherever it stands.
LEMMA TombstoneNumber ==
  ASSUME TypeOK, SeqInv, TxnInv, NEW k \in Keys, fp[k].status = "deleted"
  PROVE  NumberOfTombstone(fp[k].seq)
<1> DEFINE n == fp[k].seq
<1>1. fp[k] \in Row /\ tip[k] \in Row /\ n \in Nat
  BY TypeParts DEF RowsTyped, Row
<1>2. n # 0 /\ fp[k].id # 0
  BY <1>1 DEF TxnInv, RowsShaped, RowShape, NoRow
<1>3. n <= seq /\ \A j \in Keys \ {k} : fp[j].seq # n /\ tip[j].seq # n
  BY <1>2 DEF SeqInv, SeqUnique, Carries
<1>4. \A u \in Sessions : pc[u] = "arbitrate" => drawn[u] # n
  BY <1>2 DEF SeqInv, Carries
<1>5. tip[k].seq = n => tip[k].status = "deleted"
  <2>1. CASE lock[k] = None
    BY <2>1 DEF TxnInv, LockInv
  <2>2. ASSUME NEW u \in Sessions, lock[k] = u PROVE tip[k].seq = n => tip[k].status = "deleted"
    <3>1. Holding(u, k)
      BY <2>2 DEF TxnInv, LockInv
    <3>2. CASE LockedOnly(u, k)
      BY <3>2 DEF LockedOnly, Live
    <3>3. CASE Retired(u, k)
      BY <1>1, <1>2, <3>3 DEF Retired, ForgetSource, NoRow, Row
    <3>4. CASE Committable(u, k)
      <4>1. Contributed(u, k) => tip[k].seq = drawn[u] /\ drawn[u] > n
        <5>1. fp[k] # NoRow
          BY <1>2 DEF NoRow
        <5>2. Revived(fp[k], drawn[u], arg[u].triple).seq = drawn[u]
          BY <1>1 DEF Revived, Row
        <5> QED BY <5>1, <5>2 DEF Contributed
      <4>2. ~ Flagged(u, k) /\ ~ HitReported(u, k) /\ ~ SoftDeleted(u, k)
        BY DEF Flagged, HitReported, SoftDeleted, Live
      <4> QED BY <1>1, <3>4, <4>1, <4>2 DEF Committable, Written
    <3> QED BY <3>1, <3>2, <3>3, <3>4 DEF Holding
  <2> QED BY <2>1, <2>2, TypeParts DEF RowsTyped
<1> QED BY <1>2, <1>3, <1>4, <1>5 DEF NumberOfTombstone

\* The two statements of the tool that fix what its scans will visit.
LEMMA ScanTxn ==
  ASSUME TypeOK, TypeOK', SeqInv, TxnInv, ClearReasons \/ Cascade
  PROVE  TxnInv'
<1> DEFINE t == Purger
<1> t \in Sessions
  BY PurgerSession
<1>0. /\ pc[t] \in {"reasons", "purge"} /\ arg[t].op \in {"retention", "preview"}
      /\ reply[t] = "none" /\ drawn[t] = 0 /\ StepOf(t)
      /\ UNCHANGED <<rowVars, genVars, arg, drawn, reply>>
  BY PurgerStepOf DEF ClearReasons, Cascade, TxnInv, OpsAt, OpAt, PurgerStep
<1>1. PICK l \in {"purge", "anonymize"} : Goto(t, l) /\ (l = "purge" => pc[t] = "reasons")
  BY <1>0 DEF ClearReasons, Cascade
<1>2. fp' = fp /\ tip' = tip /\ lock' = lock /\ seq' = seq /\ pc'[t] = l
  BY <1>0, <1>1, TypeParts DEF rowVars, genVars, Goto, PcTyped
<1>3. OpAt(t)'
  BY <1>0, <1>2 DEF OpAt, ContributeLabels
<1>4. \A k \in Keys : lock[k] = t => Holding(t, k)'
  BY <1>0, <1>1, <1>2, WorkerNotPurger
     DEF TxnInv, LockInv, Holding, LockedOnly, Committable, Retired
<1>5. arg'[t].id <= lastId
  BY <1>0 DEF TxnInv, IdInv, IdOfCall
<1>6. RowsShaped' /\ OpsAt' /\ IdInv' /\ LockInv' /\ SerialInv'
  BY <1>0, <1>2, <1>3, <1>4, <1>5, TxnMoved DEF HoldLabels
<1>7. TodoInv'
  <2>1. ASSUME NEW v \in todo' PROVE \E k \in Keys : fp[k].status = "deleted" /\ v[2] = fp[k].seq
    BY DEF ClearReasons, Cascade, Tombstones
  <2>2. \A v \in todo' : NumberOfTombstone(v[2])
    BY <2>1, TombstoneNumber
  <2>3. \A u \in Sessions : pc'[u] = "arbitrate" => pc[u] = "arbitrate" /\ drawn'[u] = drawn[u]
    BY <1>0, <1>2 DEF StepOf
  <2> QED BY <1>2, <2>2, <2>3 DEF TodoInv, NumberOfTombstone
<1> QED BY <1>6, <1>7 DEF TxnInv

LEMMA VisitTxn ==
  ASSUME TypeOK, TypeOK', TxnInv, PurgeRow \/ AnonymizeRow
  PROVE  TxnInv'
<1> DEFINE t == Purger
<1> t \in Sessions
  BY PurgerSession
<1> PICK l \in {"purge", "anonymize"}, v \in todo :
      /\ pc[t] = l /\ lock[v[1]] = None /\ todo' = todo \ {v}
      /\ \/ /\ StillOld(v)
            /\ \E r \in {Erase(fp[v[1]]), ForgetSource(fp[v[1]])} :
                 /\ r = Erase(fp[v[1]]) \/ l = "anonymize"
                 /\ WriteRow(t, v[1], r, l)
         \/ UNCHANGED <<rowVars, pc>>
  BY DEF PurgeRow, AnonymizeRow, VisitTombstone
<1>0. /\ arg[t].op \in {"retention", "preview"} /\ reply[t] = "none" /\ drawn[t] = 0
      /\ StepOf(t) /\ UNCHANGED <<genVars, arg, drawn, reply>>
  BY PurgerStepOf DEF PurgeRow, AnonymizeRow, VisitTombstone, TxnInv, OpsAt, OpAt, PurgerStep
<1>1. arg[t].id <= lastId
  BY <1>0 DEF TxnInv, IdInv, IdOfCall
<1>2. CASE UNCHANGED <<rowVars, pc>>
  <2>1. fp' = fp /\ tip' = tip /\ pc' = pc /\ seq' = seq /\ drawn' = drawn
    BY <1>0, <1>2 DEF rowVars, genVars
  <2>2. OpAt(t)'
    BY <1>0, <2>1 DEF OpAt, ContributeLabels
  <2>3. \A k \in Keys : lock[k] = t => Holding(t, k)'
    BY <1>0, <2>1, WorkerNotPurger
       DEF TxnInv, LockInv, Holding, LockedOnly, Committable, Retired
  <2>4. RowsShaped' /\ OpsAt' /\ IdInv' /\ LockInv' /\ SerialInv'
    BY <1>0, <1>1, <1>2, <2>1, <2>2, <2>3, TxnMoved DEF HoldLabels
  <2>5. TodoInv'
    BY <2>1 DEF TxnInv, TodoInv, NumberOfTombstone
  <2> QED BY <2>4, <2>5 DEF TxnInv
<1>3. ASSUME NEW r \in {Erase(fp[v[1]]), ForgetSource(fp[v[1]])}, StillOld(v),
             r = Erase(fp[v[1]]) \/ l = "anonymize",
             WriteRow(t, v[1], r, l)
      PROVE  TxnInv'
  <2> DEFINE k == v[1]
  <2>1. k \in Keys /\ fp[k] \in Row /\ fp[k].seq = v[2] /\ fp[k].status = "deleted"
    BY <1>3, TypeParts DEF TodoTyped, RowsTyped, StillOld, TxnInv, TodoInv, NumberOfTombstone
  <2>2. /\ fp' = fp /\ tip'[k] = r /\ lock'[k] = t /\ pc'[t] = l
        /\ \A j \in Keys \ {k} : tip'[j] = tip[j] /\ lock'[j] = lock[j]
        /\ \A u \in Sessions : pc'[u] = pc[u]
        /\ seq' = seq /\ lastId' = lastId
    BY <1>0, <1>3, <2>1, TypeParts DEF WriteRow, Goto, RowsTyped, PcTyped, genVars
  <2>3. /\ r = NoRow \/ (l = "anonymize" /\ r = ForgetSource(fp[k]))
        /\ r.id \in {0, fp[k].id} /\ r.seq \in {0, fp[k].seq} /\ RowShape(r)
        /\ r.seq = fp[k].seq => r.status = "deleted"
    BY <1>3, <2>1 DEF Erase, ForgetSource, NoRow, Row, TxnInv, RowsShaped, RowShape
  <2>4. RowsShaped'
    BY <2>2, <2>3 DEF TxnInv, RowsShaped
  <2>5. OpsAt'
    <3>1. OpAt(t)'
      BY <1>0, <2>2 DEF OpAt, ContributeLabels
    <3> QED BY <1>0, <3>1, OpsKept DEF TxnInv
  <2>6. IdInv'
    <3>1. \A j \in Keys : fp'[j].id = fp[j].id /\ tip'[j].id \in {0, fp[j].id, tip[j].id}
      BY <2>2, <2>3
    <3> QED BY <1>0, <1>1, <2>2, <3>1, IdsKept DEF TxnInv
  <2>7. LockInv'
    <3>1. \A j \in Keys : lock[j] = t => Retired(t, j)
      BY WorkerNotPurger DEF TxnInv, LockInv, Holding, LockedOnly, Committable
    <3>2. \A j \in Keys : lock'[j] = t => Retired(t, j)'
      BY <2>1, <2>2, <2>3, <3>1 DEF Retired
    <3>3. \A j \in Keys : lock'[j] = None => tip'[j] = fp'[j] \/ lock[j] \notin {None, t}
      BY <2>2, NoneNoSession DEF TxnInv, LockInv
    <3> QED BY <1>0, <2>2, <3>2, <3>3, LockKept DEF TxnInv, Holding, HoldLabels
  <2>8. SerialInv'
    <3>1. \A u \in Workers : KeyOf(u)' = KeyOf(u)
      BY <1>0 DEF KeyOf
    <3> QED BY <1>0, <2>2, <3>1, SerialKept, WorkerNotPurger DEF TxnInv, SerialInv, KeyOf
  <2>9. TodoInv'
    <3>1. seq \in Nat
      BY TypeParts DEF GenTyped
    <3>2. \A j \in Keys : \/ tip'[j] = tip[j] \/ tip'[j].seq = 0
                          \/ tip'[j].status = "deleted"
      BY <2>2, <2>3
    <3> QED BY <1>0, <2>2, <3>1, <3>2, TodoKept, PurgerSession DEF TxnInv
  <2> QED BY <2>4, <2>5, <2>6, <2>7, <2>8, <2>9 DEF TxnInv
<1> QED BY <1>2, <1>3

LEMMA PurgerTxn ==
  ASSUME TypeOK, TypeOK', ArgsPresent, SeqInv, TxnInv, PurgerStep PROVE TxnInv'
<1>1. CASE EndRetention
  BY <1>1, TxnCommitted, TxnRolledBack, PurgerSession DEF EndRetention
<1> QED BY <1>1, ScanTxn, VisitTxn DEF PurgerStep

LEMMA BeginTxn ==
  ASSUME TypeOK, TypeOK', TxnInv, NEW t \in Sessions, NEW a, NEW l, Begin(t, a, l), StepOf(t),
         a.id <= lastId, a.op # "contribute" \/ SerialInv', OpAt(t)',
         l \in {"select", "lockrow", "check", "reasons"}
  PROVE  TxnInv'
<1>1. /\ pc[t] = "idle" /\ pc'[t] = l /\ arg'[t] = a /\ UNCHANGED <<rowVars, genVars, todo, drawn>>
      /\ fp' = fp /\ tip' = tip /\ lock' = lock /\ lastId' = lastId
  BY TypeParts DEF Begin, Goto, PcTyped, ArgTyped, rowVars, genVars
<1>2. \A k \in Keys : lock[k] # t
  BY <1>1, HoldsNothing DEF TxnInv, HoldLabels
<1>3. RowsShaped' /\ OpsAt'
  BY <1>1, OpsKept DEF TxnInv, RowsShaped
<1>4. IdInv'
  BY <1>1, IdsKept DEF TxnInv
<1>5. LockInv'
  BY <1>1, <1>2, LockKept DEF TxnInv, LockInv, HoldLabels
<1>6. SerialInv'
  <2>1. CASE a.op # "contribute"
    <3>1. \A u \in Workers : pc'[u] \in {"clearflags", "resurrect"} =>
            pc[u] = pc'[u] /\ KeyOf(u)' = KeyOf(u)
      BY <1>1 DEF StepOf, Sessions, KeyOf
    <3> QED BY <1>1, <2>1, <3>1, SerialKept DEF TxnInv, SerialInv
  <2> QED BY <2>1
<1>7. TodoInv'
  BY <1>1, TodoUntouched, PurgerSession DEF TxnInv, TodoInv
<1> QED BY <1>3, <1>4, <1>5, <1>6, <1>7 DEF TxnInv

LEMMA IssueTxn ==
  ASSUME TypeOK, TypeOK', TxnInv, Issue PROVE TxnInv'
<1> lastId \in Nat
  BY TypeParts DEF GenTyped
<1>1. ASSUME NEW t \in Workers, BeginContribute(t) PROVE TxnInv'
  <2> t \in Sessions /\ t # Purger
    BY WorkerNotPurger
  <2> PICK c \in Consumers, p \in Phashes, tr \in Triples :
        /\ SerialContribute => Alone(c, p)
        /\ Begin(t, [NoArg EXCEPT !.op = "contribute", !.caller = c, !.phash = p,
                                  !.triple = tr], "select")
        /\ UNCHANGED chg
    BY <1>1 DEF BeginContribute
  <2> DEFINE a == [NoArg EXCEPT !.op = "contribute", !.caller = c, !.phash = p, !.triple = tr]
  <2>1. a.op = "contribute" /\ a.id = 0 /\ a.phash = p /\ a.caller = c
    BY DEF NoArg
  <2>6. Begin(t, a, "select") /\ a.id <= lastId
    BY <2>1
  <2>2. /\ pc[t] = "idle" /\ pc'[t] = "select" /\ arg'[t] = a /\ reply'[t] = "none"
        /\ drawn' = drawn /\ fp' = fp
    BY TypeParts DEF Begin, Goto, PcTyped, ArgTyped, ReplyTyped, rowVars
  <2>3. StepOf(t)
    BY BeginStepOf
  <2>4. OpAt(t)'
    BY <2>1, <2>2 DEF OpAt, ContributeLabels, TxnInv, OpsAt
  <2>5. SerialInv'
    <3> SUFFICES ASSUME SerialContribute PROVE SerialInv'
      BY DEF SerialInv
    <3>1. KeyOf(t)' = <<p, c>>
      BY <2>1, <2>2 DEF KeyOf
    <3>2. \A u \in Workers \ {t} : pc'[u] = pc[u] /\ arg'[u] = arg[u] /\ KeyOf(u)' = KeyOf(u)
      BY <2>3 DEF StepOf, Sessions, KeyOf
    <3>3. \A u \in Workers \ {t} :
            (pc'[u] # "idle" /\ arg'[u].op = "contribute") => KeyOf(u)' # <<p, c>>
      BY <3>2 DEF Alone
    <3>4. \A u, w \in Workers :
            (/\ pc'[u] # "idle" /\ arg'[u].op = "contribute"
             /\ pc'[w] # "idle" /\ arg'[w].op = "contribute"
             /\ KeyOf(u)' = KeyOf(w)') => u = w
      BY <3>1, <3>2, <3>3 DEF TxnInv, SerialInv
    <3>5. \A u \in Workers : pc'[u] \in {"clearflags", "resurrect"} =>
            fp'[KeyOf(u)'].status \in {"deleted", "absent"}
      BY <2>2, <3>2 DEF TxnInv, SerialInv
    <3> QED BY <3>4, <3>5 DEF SerialInv
  <2> HIDE DEF a
  <2> QED BY <2>3, <2>4, <2>5, <2>6, BeginTxn
<1>2. ASSUME NEW t \in Workers, BeginFlag(t) \/ BeginHit(t) \/ BeginDelete(t) PROVE TxnInv'
  <2> t \in Sessions /\ t # Purger
    BY WorkerNotPurger
  <2> PICK op \in {"flag", "hit", "delete"}, l \in {"lockrow", "check"},
           c \in Consumers, i \in 1..lastId :
        /\ (op = "delete") <=> (l = "check")
        /\ Begin(t, [NoArg EXCEPT !.op = op, !.caller = c, !.id = i], l)
        /\ UNCHANGED chg
    BY <1>2 DEF BeginFlag, BeginHit, BeginDelete, BeginOnId
  <2> DEFINE a == [NoArg EXCEPT !.op = op, !.caller = c, !.id = i]
  <2>1. a.op = op /\ a.id = i /\ i # 0 /\ i <= lastId
    BY DEF NoArg
  <2>2. /\ pc[t] = "idle" /\ pc'[t] = l /\ arg'[t] = a /\ reply'[t] = "none" /\ drawn' = drawn
    BY TypeParts DEF Begin, Goto, PcTyped, ArgTyped, ReplyTyped
  <2>3. StepOf(t)
    BY BeginStepOf
  <2>4. OpAt(t)'
    BY <2>1, <2>2 DEF OpAt, ContributeLabels, TxnInv, OpsAt
  <2> QED BY <2>1, <2>3, <2>4, BeginTxn
<1>3. CASE BeginRetention
  <2> PICK op \in {"retention", "preview"}, H \in SUBSET hits, n \in 0..seq :
        /\ Begin(Purger, [NoArg EXCEPT !.op = op, !.horizon = n], "reasons")
        /\ chg' = [chg EXCEPT ![Purger].hitDel = H]
    BY <1>3 DEF BeginRetention
  <2> DEFINE a == [NoArg EXCEPT !.op = op, !.horizon = n]
  <2> Purger \in Sessions
    BY PurgerSession
  <2>1. a.op = op /\ a.id = 0
    BY DEF NoArg
  <2>5. Begin(Purger, a, "reasons") /\ a.id <= lastId /\ a.op # "contribute"
    BY <2>1
  <2>2. /\ pc[Purger] = "idle" /\ pc'[Purger] = "reasons" /\ arg'[Purger] = a
        /\ reply'[Purger] = "none" /\ drawn' = drawn
    BY TypeParts DEF Begin, Goto, PcTyped, ArgTyped, ReplyTyped
  <2>3. StepOf(Purger)
    BY BeginStepOf, TypeParts DEF ChildTyped
  <2>4. OpAt(Purger)'
    BY <2>1, <2>2 DEF OpAt, ContributeLabels, TxnInv, OpsAt
  <2> HIDE DEF a
  <2> QED BY <2>3, <2>4, <2>5, BeginTxn
<1> QED BY <1>1, <1>2, <1>3 DEF Issue

LEMMA FaultTxn ==
  ASSUME TypeOK, TypeOK', ArgsPresent, TxnInv, NEW t \in Sessions,
         LoseConnection(t) \/ DeadlockVictim(t)
  PROVE  TxnInv'
<1>1. todo' \in SUBSET todo /\ (t = Purger => todo' = {}) /\ \E r : Answer(t, r)
  BY DEF LoseConnection, DeadlockVictim, Fail
<1> QED BY <1>1, TxnCommitted, TxnRolledBack DEF LoseConnection, DeadlockVictim

LEMMA TxnStutter == ASSUME TxnInv, UNCHANGED vars PROVE TxnInv'
<1>1. RowsShaped' /\ IdInv'
  BY DEF TxnInv, vars, RowsShaped, IdInv, IdsOfRows, IdOfCall, CarriesId, Placed, MayDelete, KeyOf
<1>2. OpsAt' /\ SerialInv' /\ TodoInv'
  BY DEF TxnInv, vars, OpsAt, OpAt, SerialInv, KeyOf, TodoInv, NumberOfTombstone
<1>3. \A t \in Sessions, k \in Keys : Holding(t, k) => Holding(t, k)'
  <2> TAKE t \in Sessions, k \in Keys
  <2>1. UNCHANGED <<fp, tip, pc, arg, seen, drawn>>
    BY DEF vars
  <2>2. LockedOnly(t, k) \/ Retired(t, k) => LockedOnly(t, k)' \/ Retired(t, k)'
    BY <2>1 DEF LockedOnly, Retired
  <2>3. Contributed(t, k) \/ SoftDeleted(t, k) => Contributed(t, k)' \/ SoftDeleted(t, k)'
    BY <2>1 DEF Contributed, KeyOf, Inserted, SoftDeleted, MayDelete
  <2>4. Flagged(t, k) \/ HitReported(t, k) => Flagged(t, k)' \/ HitReported(t, k)'
    BY <2>1 DEF Flagged, Hides, HitReported
  <2> QED BY <2>1, <2>2, <2>3, <2>4 DEF Holding, Committable, Written, LockedOnly, Retired
<1>4. LockInv'
  BY <1>3 DEF TxnInv, vars, LockInv, Holds
<1> QED BY <1>1, <1>2, <1>4 DEF TxnInv

LEMMA StepTxn ==
  ASSUME TypeOK, TypeOK', ArgsPresent, SeqInv, TxnInv, [Next]_vars PROVE TxnInv'
  BY IssueTxn, WorkerTxn, PurgerTxn, FaultTxn, TxnStutter DEF Next, Done

LEMMA InitTxn == Init => TxnInv
<1> SUFFICES ASSUME Init PROVE TxnInv
  OBVIOUS
<1>1. RowsShaped /\ OpsAt
  BY DEF Init, RowsShaped, RowShape, NoRow, OpsAt, OpAt, ContributeLabels
<1>2. IdInv
  BY DEF Init, IdInv, IdsOfRows, IdOfCall, CarriesId, NoRow, NoArg
<1>3. LockInv /\ SerialInv /\ TodoInv
  BY NoneNoSession, PurgerSession DEF Init, LockInv, HoldLabels, SerialInv, TodoInv, Sessions
<1> QED BY <1>1, <1>2, <1>3 DEF TxnInv

-----------------------------------------------------------------------------
(* The promises that follow from what a commit publishes.                  *)

StoreInv == Shape /\ SeqInv /\ TxnInv

LEMMA StoreInvariant == Spec => []StoreInv
<1>1. Init => SeqInv
  BY DEF Init, SeqInv, SeqUnique, Carries, NoRow
<1>2. Init => StoreInv
  BY <1>1, ShapeInit, InitTxn DEF StoreInv
<1>3. StoreInv /\ Shape' /\ [Next]_vars => StoreInv'
  BY StepSeq, StepTxn DEF StoreInv, Shape
<1> QED BY <1>2, <1>3, ShapeInv, PTL DEF Spec

\* Where a transaction may commit.
CommitPoint(t) ==
  \/ pc[t] = "commit"
  \/ pc[t] = "resurrect" /\ fp[KeyOf(t)].id # arg[t].id
  \/ t = Purger /\ pc[t] = "anonymize" /\ todo = {} /\ arg[t].op = "retention"

\* Only a commit changes what is committed.
LEMMA WorkerCommits ==
  ASSUME NEW t \in Workers, WorkerStep(t), <<fp, flags, hits>>' # <<fp, flags, hits>>
  PROVE  CommitTxn(t) /\ CommitPoint(t) /\ \E r : Answer(t, r)
<1>1. ~ \E r : AnswerReadOnly(t, r)
  BY DEF AnswerReadOnly, rowVars, childVars
<1>2. ~ (UNCHANGED <<rowVars, childVars>>) /\ ~ (UNCHANGED <<rowVars, flags, hits>>)
      /\ ~ (UNCHANGED <<fp, childVars>>) /\ ~ (UNCHANGED <<fp, flags, hits>>)
  BY DEF rowVars, childVars
<1>3. ~ (SelectExisting(t) \/ ClearFlags(t) \/ EvaluateDefaults(t) \/ SelectWinner(t)
         \/ LockRow(t) \/ LockMissing(t) \/ AddFlag(t) \/ CountFlags(t)
         \/ CheckOwner(t) \/ SoftDeleteNothing(t))
  BY <1>1, <1>2 DEF SelectExisting, ClearFlags, EvaluateDefaults, SelectWinner, LockRow,
                    LockMissing, AddFlag, CountFlags, CheckOwner, SoftDeleteNothing
<1>4. ~ (Resurrect(t) \/ InsertOrNothing(t) \/ ApplyFlag(t) \/ BumpHit(t) \/ SoftDelete(t))
  BY <1>2 DEF Resurrect, InsertOrNothing, ApplyFlag, BumpHit, SoftDelete, WriteRow, rowVars,
              childVars
<1>5. ~ BadParameter(t)
  BY <1>2 DEF BadParameter, RollbackTxn
<1> QED BY <1>3, <1>4, <1>5 DEF WorkerStep, ResurrectGone, Commit, CommitPoint

LEMMA PurgerCommits ==
  ASSUME PurgerStep, <<fp, flags, hits>>' # <<fp, flags, hits>>
  PROVE  CommitTxn(Purger) /\ CommitPoint(Purger) /\ \E r : Answer(Purger, r)
<1>1. ~ (ClearReasons \/ Cascade \/ PurgeRow \/ AnonymizeRow)
  BY DEF ClearReasons, Cascade, PurgeRow, AnonymizeRow, VisitTombstone, WriteRow, rowVars,
         childVars
<1> QED BY <1>1 DEF PurgerStep, EndRetention, CommitPoint, RollbackTxn

LEMMA FaultCommits ==
  ASSUME TxnInv, NEW t \in Sessions, LoseConnection(t) \/ DeadlockVictim(t),
         <<fp, flags, hits>>' # <<fp, flags, hits>>
  PROVE  CommitTxn(t) /\ CommitPoint(t) /\ \E r : Answer(t, r)
<1>1. ~ RollbackTxn(t)
  BY DEF RollbackTxn
<1>2. pc[t] = "anonymize" => t = Purger
  BY DEF TxnInv, OpsAt, OpAt
<1> QED BY <1>1, <1>2 DEF LoseConnection, DeadlockVictim, Committing, CommitPoint, Fail

LEMMA CommittedChange ==
  ASSUME StoreInv, [Next]_vars, <<fp, flags, hits>>' # <<fp, flags, hits>>
  PROVE  \E t \in Sessions :
           CommitTxn(t) /\ CommitPoint(t) /\ pc'[t] = "idle" /\ StepOf(t)
<1> USE DEF StoreInv, Shape
<1>0. ASSUME NEW t \in Sessions, CommitTxn(t), \E r : Answer(t, r)
      PROVE  pc'[t] = "idle" /\ StepOf(t)
  BY <1>0, CommitStepOf, TypeParts DEF Answer, PcTyped
<1>1. CASE Issue
  BY <1>1 DEF Issue, BeginContribute, BeginFlag, BeginHit, BeginDelete, BeginOnId,
              BeginRetention, Begin, rowVars
<1>2. ~ UNCHANGED vars
  BY DEF vars
<1> QED BY <1>0, <1>1, <1>2, WorkerCommits, PurgerCommits, FaultCommits, PurgerSession,
           WorkerNotPurger DEF Next, Done

\* How a committed row can change.
LEMMA RowChange ==
  ASSUME StoreInv, [Next]_vars, NEW k \in Keys, fp'[k] # fp[k]
  PROVE  \E t \in Sessions :
           /\ lock[k] = t /\ fp'[k] = tip[k]
           /\ (Committable(t, k) /\ arg[t].id # 0) \/ Retired(t, k)
<1>1. PICK t \in Sessions : CommitTxn(t)
  BY CommittedChange
<1> QED BY <1>1, CommitPublishes DEF StoreInv

\* What the columns of a version are, by the statement that wrote it.
LEMMA ContributedColumns ==
  ASSUME NEW t, NEW k \in Keys, fp[k] \in Row, Contributed(t, k), arg[t].id # 0
  PROVE  /\ tip[k].id = arg[t].id /\ tip[k].status = "active" /\ tip[k].seq = drawn[t]
         /\ tip[k].triple = arg[t].triple /\ tip[k].flagCount = 0
         /\ IF fp[k].id = 0 THEN tip[k].hitCount = 0
            ELSE fp[k].id = arg[t].id /\ tip[k].hitCount = fp[k].hitCount
<1>1. CASE fp[k] = NoRow /\ tip[k] = Inserted(t)
  BY <1>1 DEF Inserted, NoRow
<1>2. CASE fp[k].id = arg[t].id /\ tip[k] = Revived(fp[k], drawn[t], arg[t].triple)
  <2>1. LET r == Revived(fp[k], drawn[t], arg[t].triple)
        IN  /\ r.id = fp[k].id /\ r.status = "active" /\ r.seq = drawn[t]
            /\ r.triple = arg[t].triple /\ r.flagCount = 0 /\ r.hitCount = fp[k].hitCount
    BY DEF Revived, Row
  <2> QED BY <1>2, <2>1
<1> QED BY <1>1, <1>2 DEF Contributed

LEMMA FlaggedColumns ==
  ASSUME NEW t, NEW k \in Keys, fp[k] \in Row, Flagged(t, k)
  PROVE  /\ tip[k].id = fp[k].id /\ fp[k].id = arg[t].id /\ fp[k].status \in Live
         /\ tip[k].triple = fp[k].triple
         /\ tip[k].flagCount = seen[t].count /\ tip[k].hitCount = fp[k].hitCount
         /\ IF Hides(t, k)
            THEN tip[k].status = "hidden" /\ tip[k].seq = drawn[t] /\ drawn[t] > fp[k].seq
            ELSE tip[k].status = fp[k].status /\ tip[k].seq = fp[k].seq /\ drawn[t] = 0
<1>1. LET r == [fp[k] EXCEPT !.status = "hidden", !.seq = drawn[t], !.flagCount = seen[t].count]
      IN  /\ r.id = fp[k].id /\ r.triple = fp[k].triple /\ r.flagCount = seen[t].count
          /\ r.hitCount = fp[k].hitCount /\ r.status = "hidden" /\ r.seq = drawn[t]
  BY DEF Row
<1>2. LET r == [fp[k] EXCEPT !.flagCount = seen[t].count]
      IN  /\ r.id = fp[k].id /\ r.triple = fp[k].triple /\ r.flagCount = seen[t].count
          /\ r.hitCount = fp[k].hitCount /\ r.status = fp[k].status /\ r.seq = fp[k].seq
  BY DEF Row
<1> QED BY <1>1, <1>2 DEF Flagged

LEMMA HitColumns ==
  ASSUME NEW t, NEW k \in Keys, fp[k] \in Row, HitReported(t, k)
  PROVE  /\ tip[k].id = fp[k].id /\ fp[k].id = arg[t].id /\ fp[k].status \in Live
         /\ tip[k].triple = fp[k].triple /\ tip[k].flagCount = fp[k].flagCount
         /\ tip[k].hitCount = fp[k].hitCount + 1 /\ drawn[t] = 0
         /\ tip[k].status = fp[k].status /\ tip[k].seq = fp[k].seq
  BY DEF HitReported, Row

LEMMA DeletedColumns ==
  ASSUME NEW t, NEW k \in Keys, fp[k] \in Row, SoftDeleted(t, k)
  PROVE  /\ tip[k].id = fp[k].id /\ fp[k].id = arg[t].id /\ fp[k].status \in Live
         /\ tip[k].triple = fp[k].triple /\ tip[k].flagCount = fp[k].flagCount
         /\ tip[k].hitCount = fp[k].hitCount
         /\ tip[k].status = "deleted" /\ tip[k].seq = drawn[t] /\ drawn[t] > fp[k].seq
  BY DEF SoftDeleted, Deleted, Row

LEMMA RetiredColumns ==
  ASSUME NEW t, NEW k \in Keys, fp[k] \in Row, Retired(t, k)
  PROVE  /\ fp[k].status = "deleted"
         /\ \/ tip[k] = NoRow
            \/ /\ tip[k].id = fp[k].id /\ tip[k].triple = fp[k].triple
               /\ tip[k].flagCount = fp[k].flagCount /\ tip[k].hitCount = fp[k].hitCount
               /\ tip[k].status = "deleted" /\ tip[k].seq = fp[k].seq
  BY DEF Retired, ForgetSource, Row

\* The cursor rules of the store's docstring hold of every step of any number
\* of sessions: a committed row gets a larger sync_seq exactly when its status or
\* its triple changes, or when a contribute rewrites it that raced another one;
\* no flag below the threshold, no hit and no scrub moves the cursor.
THEOREM CursorRules == Spec => CursorMoves
<1>1. ASSUME StoreInv, [Next]_vars PROVE CursorStep
  <2> SUFFICES ASSUME NEW k \in Keys, fp[k].id # 0, fp'[k].id = fp[k].id, fp'[k] # fp[k]
               PROVE  \/ /\ fp'[k].seq = fp[k].seq
                         /\ Replicated(fp'[k]) = Replicated(fp[k])
                      \/ /\ fp'[k].seq > fp[k].seq
                         /\ \/ Replicated(fp'[k]) # Replicated(fp[k])
                            \/ ~ SerialContribute /\ Recontributed(k)
                         /\ fp'[k].hitCount = fp[k].hitCount
    BY <1>1 DEF CursorStep
  <2>1. PICK t \in Sessions :
          fp'[k] = tip[k] /\ ((Committable(t, k) /\ arg[t].id # 0) \/ Retired(t, k))
    BY <1>1, RowChange
  <2>2. fp[k] \in Row
    BY <1>1, TypeParts DEF StoreInv, Shape, RowsTyped
  <2>3. CASE Retired(t, k)
    BY <2>1, <2>2, <2>3, RetiredColumns DEF NoRow, Replicated
  <2>4. CASE Committable(t, k) /\ Contributed(t, k) /\ arg[t].id # 0
    <3>1. fp'[k].seq > fp[k].seq /\ fp'[k].hitCount = fp[k].hitCount /\ fp'[k].status = "active"
      BY <2>1, <2>2, <2>4, ContributedColumns DEF Contributed
    <3>2. Recontributed(k)
      BY <2>4 DEF Committable, Contributed, Recontributed
    <3>3. SerialContribute => fp[k].status = "deleted"
      BY <2>4 DEF Contributed, NoRow
    <3> QED BY <3>1, <3>2, <3>3 DEF Replicated
  <2>5. CASE Flagged(t, k)
    <3>1. CASE Hides(t, k)
      <4>1. /\ fp'[k].seq > fp[k].seq /\ fp'[k].hitCount = fp[k].hitCount
            /\ fp[k].status = "active" /\ fp'[k].status = "hidden"
        BY <2>1, <2>2, <2>5, <3>1, FlaggedColumns DEF Hides
      <4> QED BY <4>1 DEF Replicated
    <3>2. CASE ~ Hides(t, k)
      BY <2>1, <2>2, <2>5, <3>2, FlaggedColumns DEF Replicated
    <3> QED BY <3>1, <3>2
  <2>6. CASE HitReported(t, k)
    BY <2>1, <2>2, <2>6, HitColumns DEF Replicated
  <2>7. CASE SoftDeleted(t, k)
    <3>1. /\ fp'[k].seq > fp[k].seq /\ fp'[k].hitCount = fp[k].hitCount
          /\ fp[k].status \in Live /\ fp'[k].status = "deleted"
      BY <2>1, <2>2, <2>7, DeletedColumns
    <3> QED BY <3>1 DEF Replicated, Live
  <2> QED BY <2>1, <2>3, <2>4, <2>5, <2>6, <2>7 DEF Committable, Written
<1> QED BY <1>1, StoreInvariant, PTL DEF Spec, CursorMoves

\* While no consumer has two contributes of one hash in flight, a fingerprint
\* is hidden only while active, deleted only while live, revived only while
\* deleted and purged only while deleted, whatever flags, deletes, retention,
\* lost connections and deadlocks come between.
THEOREM StatusRules ==
  ASSUME SerialContribute PROVE Spec => StatusMachine
<1>1. ASSUME StoreInv, [Next]_vars PROVE StatusStep
  <2> SUFFICES ASSUME NEW k \in Keys, fp[k].id # 0, fp'[k].status # fp[k].status
               PROVE  <<fp[k].status, fp'[k].status>> \in
                        {<<"active", "hidden">>, <<"active", "deleted">>,
                         <<"hidden", "deleted">>, <<"deleted", "active">>,
                         <<"deleted", "absent">>}
    BY <1>1 DEF StatusStep
  <2>1. PICK t \in Sessions :
          fp'[k] = tip[k] /\ ((Committable(t, k) /\ arg[t].id # 0) \/ Retired(t, k))
    BY <1>1, RowChange
  <2>2. fp[k] \in Row
    BY <1>1, TypeParts DEF StoreInv, Shape, RowsTyped
  <2>3. CASE Retired(t, k)
    BY <2>1, <2>2, <2>3, RetiredColumns DEF NoRow
  <2>4. CASE Contributed(t, k) /\ arg[t].id # 0
    <3>1. fp[k].status = "deleted"
      BY <2>4 DEF Contributed, NoRow
    <3> QED BY <2>1, <2>2, <2>4, <3>1, ContributedColumns
  <2>5. CASE Flagged(t, k)
    BY <2>1, <2>2, <2>5, FlaggedColumns DEF Hides
  <2>6. CASE HitReported(t, k)
    BY <2>1, <2>2, <2>6, HitColumns
  <2>7. CASE SoftDeleted(t, k)
    BY <2>1, <2>2, <2>7, DeletedColumns DEF Live
  <2> QED BY <2>1, <2>3, <2>4, <2>5, <2>6, <2>7 DEF Committable, Written
<1> QED BY <1>1, StoreInvariant, PTL DEF Spec, StatusMachine

\* A fingerprint becomes deleted only by the commit of a delete call for its
\* id whose caller owns it or is an admin, although the ownership was read in
\* another transaction: an id never moves to another owner's row.
THEOREM DeletesAuthorised == Spec => DeleteAuthority
<1>1. ASSUME StoreInv, [Next]_vars PROVE DeleteStep
  <2> SUFFICES ASSUME NEW k \in Keys, fp'[k].status = "deleted", fp[k].status # "deleted"
               PROVE  \E t \in Workers : /\ arg[t].op = "delete"
                                         /\ arg[t].id = fp[k].id
                                         /\ \/ arg[t].caller = Owner(k)
                                            \/ arg[t].caller \in Admins
    BY <1>1 DEF DeleteStep
  <2>1. PICK t \in Sessions :
          fp'[k] = tip[k] /\ ((Committable(t, k) /\ arg[t].id # 0) \/ Retired(t, k))
    BY <1>1, RowChange
  <2>2. fp[k] \in Row
    BY <1>1, TypeParts DEF StoreInv, Shape, RowsTyped
  <2>3. ~ Retired(t, k)
    BY DEF Retired
  <2>4. ~ Contributed(t, k)
    BY <2>1, <2>2, <2>3, ContributedColumns
  <2>5. ~ Flagged(t, k) /\ ~ HitReported(t, k)
    BY <2>1, <2>2, FlaggedColumns, HitColumns
  <2>6. t \in Workers /\ SoftDeleted(t, k)
    BY <2>1, <2>3, <2>4, <2>5 DEF Committable, Written
  <2> QED BY <2>6 DEF SoftDeleted, MayDelete
<1> QED BY <1>1, StoreInvariant, PTL DEF Spec, DeleteAuthority

-----------------------------------------------------------------------------
(* Refinement: the transactions are the catalogue's numbered changes.      *)

\* A worker has at most one row locked.
LEMMA OneRow ==
  ASSUME StoreInv, NEW t \in Workers, NEW j \in Keys, NEW k \in Keys, lock[j] = t, lock[k] = t
  PROVE  j = k
<1>1. t \in Sessions /\ t # Purger
  BY WorkerNotPurger
<1>2. \A i \in {j, k} : arg[t].id # 0 /\ (LockedOnly(t, i) \/ Committable(t, i))
  BY <1>1 DEF StoreInv, TxnInv, LockInv, Holding, Retired
<1>3. \A i \in {j, k} : fp[i].id = arg[t].id \/ (i = KeyOf(t) /\ arg[t].op = "contribute")
  BY <1>2 DEF LockedOnly, Committable, Written, Contributed, Flagged, HitReported, SoftDeleted
<1>4. CASE fp[j].id = arg[t].id /\ fp[k].id = arg[t].id
  BY <1>2, <1>4 DEF StoreInv, TxnInv, IdInv, IdsOfRows, CarriesId
<1>5. CASE arg[t].op = "contribute"
  <2>1. pc[t] = "commit"
    BY <1>1, <1>2, <1>5 DEF StoreInv, TxnInv, OpsAt, OpAt, LockedOnly, Committable, HoldLabels
  <2>2. \A i \in {j, k} : Contributed(t, i)
    BY <1>2, <1>5, <2>1
       DEF LockedOnly, Committable, HoldLabels, Written, Flagged, HitReported, SoftDeleted
  <2> QED BY <2>2 DEF Contributed
<1> QED BY <1>3, <1>4, <1>5

\* A session with a number in hand is inserting a fresh id, or has locked and
\* written the row of its id.
LEMMA NumberInHand ==
  ASSUME StoreInv, NEW t \in Sessions, drawn[t] # 0
  PROVE  /\ t \in Workers /\ arg[t].id # 0
         /\ \/ pc[t] = "arbitrate" /\ \A k \in Keys : ~ CarriesId(k, arg[t].id)
            \/ /\ pc[t] = "commit"
               /\ \E k \in Keys : lock[k] = t /\ CarriesId(k, arg[t].id)
<1>1. pc[t] \in {"arbitrate", "commit"} /\ t \in Workers
  BY DEF StoreInv, TxnInv, OpsAt, OpAt, Sessions
<1>2. CASE pc[t] = "arbitrate"
  BY <1>1, <1>2 DEF StoreInv, TxnInv, IdInv, IdOfCall
<1>3. CASE pc[t] = "commit"
  <2>1. PICK k \in Keys : lock[k] = t
    BY <1>3 DEF StoreInv, TxnInv, LockInv, Holds
  <2>2. arg[t].id # 0 /\ Written(t, k)
    BY <1>1, <1>3, <2>1, WorkerNotPurger
       DEF StoreInv, TxnInv, LockInv, Holding, LockedOnly, Committable, Retired, HoldLabels
  <2>3. CarriesId(k, arg[t].id)
    <3>1. Contributed(t, k) => tip[k].id = arg[t].id
      BY <2>2, ContributedColumns, TypeParts DEF StoreInv, Shape, RowsTyped
    <3> QED BY <2>2, <3>1 DEF Written, Flagged, HitReported, SoftDeleted, CarriesId
  <2> QED BY <1>1, <1>3, <2>1, <2>2, <2>3
<1> QED BY <1>1, <1>2, <1>3

LEMMA OneNumberPerId ==
  ASSUME StoreInv, NEW t \in Sessions, NEW u \in Sessions, t # u, drawn[t] # 0, drawn[u] # 0
  PROVE  arg[t].id # arg[u].id
<1>1. CASE pc[t] = "arbitrate" /\ pc[u] = "arbitrate"
  BY <1>1 DEF StoreInv, TxnInv, IdInv, IdOfCall
<1>2. CASE ~ (pc[t] = "arbitrate" /\ pc[u] = "arbitrate")
  BY <1>2, NumberInHand DEF StoreInv, TxnInv, IdInv, IdsOfRows, CarriesId
<1> QED BY <1>1, <1>2

\* An update of a row that t may lock finds no other change of it in flight.
LEMMA NoOtherNumber ==
  ASSUME StoreInv, NEW t \in Sessions, drawn[t] = 0, NEW k \in Keys, Lockable(t, k),
         fp[k].id # 0, NEW o \in InFlight
  PROVE  o[2] # fp[k].id
<1>1. PICK u \in Sessions : drawn[u] # 0 /\ o = <<drawn[u], arg[u].id>>
  BY DEF InFlight
<1>2. ASSUME arg[u].id = fp[k].id PROVE FALSE
  <2>1. CarriesId(k, arg[u].id)
    BY <1>2 DEF CarriesId
  <2>2. PICK j \in Keys : lock[j] = u /\ CarriesId(j, arg[u].id)
    BY <1>1, <2>1, NumberInHand
  <2>3. j = k
    BY <1>2, <2>2 DEF StoreInv, TxnInv, IdInv, IdsOfRows, CarriesId
  <2> QED BY <1>1, <2>2, <2>3, NoneNoSession DEF Lockable
<1> QED BY <1>1, <1>2

(* How the mapped variables move.                                          *)

LEMMA InFlightKept ==
  ASSUME NEW t \in Sessions, StepOf(t),
         drawn'[t] = drawn[t] /\ (drawn[t] # 0 => arg'[t].id = arg[t].id)
  PROVE  InFlight' = InFlight
<1>1. \A u \in Sessions : drawn'[u] = drawn[u] /\ (drawn[u] # 0 => arg'[u].id = arg[u].id)
  BY DEF StepOf
<1> QED BY <1>1 DEF InFlight

LEMMA InFlightDrawn ==
  ASSUME NEW t \in Sessions, StepOf(t), drawn[t] = 0, drawn'[t] # 0
  PROVE  InFlight' = InFlight \cup {<<drawn'[t], arg'[t].id>>}
<1>1. \A u \in Sessions \ {t} : drawn'[u] = drawn[u] /\ arg'[u] = arg[u]
  BY DEF StepOf
<1> QED BY <1>1 DEF InFlight

LEMMA InFlightClosed ==
  ASSUME StoreInv, NEW t \in Sessions, StepOf(t), drawn[t] # 0, drawn'[t] = 0
  PROVE  /\ <<drawn[t], arg[t].id>> \in InFlight
         /\ InFlight' = InFlight \ {<<drawn[t], arg[t].id>>}
<1>1. \A u \in Sessions \ {t} : drawn'[u] = drawn[u] /\ arg'[u] = arg[u]
  BY DEF StepOf
<1>2. \A u \in Sessions \ {t} : drawn[u] # 0 => arg[u].id # arg[t].id
  BY OneNumberPerId
<1> QED BY <1>1, <1>2 DEF InFlight

LEMMA EntryFields ==
  ASSUME NEW k \in Keys
  PROVE  /\ EntryOf(k).id = fp[k].id /\ EntryOf(k).status = fp[k].status
         /\ EntryOf(k).seq = fp[k].seq /\ EntryOf(k).triple = fp[k].triple
         /\ EntryOf(k).owner = Owner(k)
  BY DEF EntryOf

LEMMA EntriesDistinct ==
  ASSUME StoreInv, NEW j \in Keys, NEW k \in Keys, j # k, fp[j].id # 0
  PROVE  EntryOf(j) # EntryOf(k) /\ fp[j].id # fp[k].id
<1>1. fp[j].id # fp[k].id
  BY DEF StoreInv, TxnInv, IdInv, IdsOfRows, CarriesId
<1> QED BY <1>1, EntryFields

LEMMA EntryKept ==
  ASSUME NEW k \in Keys, fp'[k].id = fp[k].id, fp'[k].status = fp[k].status,
         fp'[k].seq = fp[k].seq, fp'[k].triple = fp[k].triple
  PROVE  EntryOf(k)' = EntryOf(k)
  BY DEF EntryOf, Owner

LEMMA PublishedKept ==
  ASSUME \A k \in Keys : /\ fp'[k].id = fp[k].id /\ fp'[k].status = fp[k].status
                         /\ fp'[k].seq = fp[k].seq /\ fp'[k].triple = fp[k].triple
  PROVE  Published' = Published
<1>1. \A k \in Keys : EntryOf(k)' = EntryOf(k)
  BY EntryKept
<1> QED BY <1>1 DEF Published

\* One row appears, or changes under its id.
LEMMA PublishedOne ==
  ASSUME StoreInv, NEW k \in Keys, fp'[k].id # 0, fp[k].id \in {0, fp'[k].id},
         \A j \in Keys \ {k} : fp'[j] = fp[j]
  PROVE  /\ fp[k].id = 0 => Published' = Published \cup {EntryOf(k)'}
         /\ fp[k].id # 0 => /\ EntryOf(k) \in Published
                            /\ Published' = (Published \ {EntryOf(k)}) \cup {EntryOf(k)'}
<1>1. \A j \in Keys \ {k} : EntryOf(j)' = EntryOf(j) /\ fp'[j].id = fp[j].id
  BY EntryKept
<1>2. \A j \in Keys \ {k} : fp[j].id # 0 => EntryOf(j) # EntryOf(k)
  BY EntriesDistinct
<1> QED BY <1>1, <1>2 DEF Published

\* Rows disappear.
LEMMA PublishedPurged ==
  ASSUME StoreInv, NEW K \in SUBSET Keys, \A k \in K : fp'[k].id = 0,
         \A k \in Keys \ K : /\ fp'[k].id = fp[k].id /\ fp'[k].status = fp[k].status
                             /\ fp'[k].seq = fp[k].seq /\ fp'[k].triple = fp[k].triple,
         \A k \in K : fp[k].id # 0
  PROVE  /\ {EntryOf(k) : k \in K} \subseteq Published
         /\ Published' = Published \ {EntryOf(k) : k \in K}
<1>1. \A j \in Keys \ K : EntryOf(j)' = EntryOf(j)
  BY EntryKept
<1>2. \A j \in Keys \ K, k \in K : fp[j].id # 0 => EntryOf(j) # EntryOf(k)
  BY EntriesDistinct
<1> QED BY <1>1, <1>2 DEF Published

(* The steps of the store, as steps of the catalogue.                      *)
CatStep == [Cat!CatalogNext]_(Cat!catVars)

\* Nothing committed, nothing drawn, nothing given up.
LEMMA QuietRefines ==
  ASSUME NEW t \in Sessions, StepOf(t), UNCHANGED <<fp, seq, lastId>>,
         drawn'[t] = drawn[t] /\ (drawn[t] # 0 => arg'[t].id = arg[t].id)
  PROVE  CatStep
<1>1. InFlight' = InFlight /\ Published' = Published
  BY InFlightKept, PublishedKept
<1> QED BY <1>1 DEF CatStep, Cat!catVars

\* A number is given up, if there was one.
LEMMA ClosedRefines ==
  ASSUME StoreInv, NEW t \in Sessions, StepOf(t), UNCHANGED <<fp, seq, lastId>>, drawn'[t] = 0
  PROVE  CatStep
<1>1. CASE drawn[t] = 0
  BY <1>1, QuietRefines
<1>2. CASE drawn[t] # 0
  <2> DEFINE o == <<drawn[t], arg[t].id>>
  <2>1. o \in InFlight /\ InFlight' = InFlight \ {o} /\ Published' = Published
    BY <1>2, InFlightClosed, PublishedKept
  <2>2. Cat!Abandon(o)
    BY <2>1 DEF Cat!Abandon, Cat!Close
  <2> QED BY <2>1, <2>2 DEF CatStep, Cat!CatalogNext
<1> QED BY <1>1, <1>2

\* UPDATE fingerprints SET ..., sync_seq = nextval(...)
LEMMA UpdateRefines ==
  ASSUME StoreInv, NEW t \in Sessions, StepOf(t), UNCHANGED <<fp, lastId, arg>>, NextVal(t),
         drawn[t] = 0, NEW k \in Keys, Lockable(t, k), fp[k].id = arg[t].id, arg[t].id # 0
  PROVE  CatStep
<1>1. seq' = seq + 1 /\ drawn'[t] = seq + 1 /\ seq + 1 # 0
  BY TypeParts DEF StoreInv, Shape, NextVal, DrawnTyped, GenTyped
<1>2. InFlight' = InFlight \cup {<<seq + 1, fp[k].id>>} /\ Published' = Published
  BY <1>1, InFlightDrawn, PublishedKept
<1>3. EntryOf(k) \in Published /\ EntryOf(k).id = fp[k].id
  BY EntryFields DEF Published
<1>4. Cat!StartUpdate(EntryOf(k))
  BY <1>1, <1>2, <1>3, NoOtherNumber DEF Cat!StartUpdate, Cat!Draw
<1> QED BY <1>3, <1>4 DEF CatStep, Cat!CatalogNext

EntryRecord(i, c, s, n, tr) == [id |-> i, owner |-> c, status |-> s, seq |-> n, triple |-> tr]

\* COMMIT of a worker.
LEMMA CommitRefines ==
  ASSUME StoreInv, NEW t \in Workers, CommitTxn(t), CommitPoint(t), StepOf(t)
  PROVE  CatStep
<1>0. t \in Sessions /\ t # Purger
  BY WorkerNotPurger
<1>1. seq' = seq /\ lastId' = lastId /\ drawn'[t] = 0
  BY <1>0, TypeParts DEF CommitTxn, StoreInv, Shape, DrawnTyped
<1>2. CASE pc[t] # "commit"
  <2>1. \A k \in Keys : lock[k] # t
    BY <1>0, <1>2, HoldsNothing DEF CommitPoint, StoreInv, TxnInv, HoldLabels
  <2>2. fp' = fp
    BY <2>1, TypeParts DEF CommitTxn, StoreInv, Shape, RowsTyped
  <2> QED BY <1>0, <1>1, <2>2, ClosedRefines
<1>3. CASE pc[t] = "commit"
  <2>1. PICK k \in Keys : lock[k] = t
    BY <1>0, <1>3 DEF StoreInv, TxnInv, LockInv, Holds
  <2>2. arg[t].id # 0 /\ Written(t, k)
    BY <1>0, <1>3, <2>1
       DEF StoreInv, TxnInv, LockInv, Holding, LockedOnly, Committable, Retired, HoldLabels
  <2>3. fp'[k] = tip[k] /\ \A j \in Keys \ {k} : fp'[j] = fp[j]
    BY <2>1, OneRow DEF CommitTxn
  <2>4. fp[k] \in Row /\ tip[k] \in Row /\ drawn[t] \in Nat
    BY <1>0, TypeParts DEF StoreInv, Shape, RowsTyped, DrawnTyped
  <2>5. RowShape(fp[k]) /\ Owner(k) \in Consumers
    BY DEF StoreInv, TxnInv, RowsShaped, Keys, Owner
  <2> PICK e : e = EntryOf(k)
    OBVIOUS
  <2> PICK n : n = EntryOf(k)'
    OBVIOUS
  <2> PICK o : o = <<drawn[t], arg[t].id>>
    OBVIOUS
  <2>6. /\ e = EntryRecord(fp[k].id, Owner(k), fp[k].status, fp[k].seq, fp[k].triple)
        /\ n = EntryRecord(tip[k].id, Owner(k), tip[k].status, tip[k].seq, tip[k].triple)
        /\ e.status = fp[k].status
    BY <2>3 DEF EntryOf, EntryRecord, Owner
  <2>7. CASE HitReported(t, k) \/ (Flagged(t, k) /\ drawn[t] = 0)
    <3>1. \A j \in Keys : /\ fp'[j].id = fp[j].id /\ fp'[j].status = fp[j].status
                          /\ fp'[j].seq = fp[j].seq /\ fp'[j].triple = fp[j].triple
      BY <2>3, <2>4, <2>7, HitColumns, FlaggedColumns DEF Row
    <3>2. drawn'[t] = drawn[t] /\ drawn[t] = 0
      BY <1>1, <2>4, <2>7, HitColumns
    <3>3. InFlight' = InFlight /\ Published' = Published
      BY <1>0, <3>1, <3>2, InFlightKept, PublishedKept
    <3> QED BY <1>1, <3>3 DEF CatStep, Cat!catVars
  <2>8. CASE Contributed(t, k) \/ SoftDeleted(t, k) \/ (Flagged(t, k) /\ drawn[t] # 0)
    <3>1. /\ drawn[t] # 0 /\ tip[k].id = arg[t].id /\ tip[k].seq = drawn[t]
          /\ fp[k].id \in {0, tip[k].id}
      <4>1. fp[k].seq \in Nat
        BY <2>4 DEF Row
      <4> QED BY <2>2, <2>4, <2>8, <4>1, ContributedColumns, DeletedColumns, FlaggedColumns
              DEF Contributed
    <3>2. o \in InFlight /\ InFlight' = InFlight \ {o} /\ o[1] = drawn[t] /\ o[2] = arg[t].id
      BY <1>0, <1>1, <3>1, InFlightClosed
    <3>3. /\ fp[k].id = 0 => Published' = Published \cup {n}
          /\ fp[k].id # 0 => e \in Published /\ Published' = (Published \ {e}) \cup {n}
      BY <2>2, <2>3, <3>1, PublishedOne
    <3>4. Cat!Close(o)
      BY <1>1, <3>2 DEF Cat!Close
    <3>5. CASE fp[k].id = 0
      <4>1. Contributed(t, k)
        BY <2>2, <2>4, <2>8, <3>5, DeletedColumns, FlaggedColumns
      <4>2. n = [id |-> o[2], owner |-> Owner(k), status |-> "active",
                 seq |-> o[1], triple |-> arg[t].triple] /\ arg[t].triple \in Triples
        BY <2>2, <2>4, <2>6, <3>2, <4>1, ContributedColumns DEF Contributed, EntryRecord
      <4>3. \A r \in Published : r.id # o[2]
        <5>1. \A j \in Keys : fp[j].id # 0 => fp[j].id # arg[t].id
          BY <3>1, <3>5 DEF StoreInv, TxnInv, IdInv, IdsOfRows, CarriesId
        <5> QED BY <3>2, <5>1, EntryFields DEF Published
      <4>4. Cat!PublishInsert(o)
        BY <2>5, <3>3, <3>4, <3>5, <4>2, <4>3 DEF Cat!PublishInsert
      <4> QED BY <3>2, <4>4 DEF CatStep, Cat!CatalogNext
    <3>6. CASE fp[k].id # 0
      <4>1. e.id = o[2]
        BY <3>1, <3>2, <3>6, EntryFields
      <4>2. PICK q \in Cat!Updates(e) : n = [q EXCEPT !.seq = o[1]]
        <5>1. CASE Contributed(t, k)
          <6>0. PICK q : q = [e EXCEPT !.status = "active", !.triple = arg[t].triple]
            OBVIOUS
          <6>1. ~ SerialContribute \/ e.status = "deleted"
            BY <3>6, <5>1, <2>6 DEF Contributed, NoRow
          <6>2. arg[t].triple \in Triples
            BY <5>1 DEF Contributed
          <6>3. q \in Cat!Updates(e)
            BY <6>0, <6>1, <6>2 DEF Cat!Updates, Cat!Revivable
          <6>4. /\ tip[k].id = fp[k].id /\ tip[k].status = "active" /\ tip[k].seq = o[1]
                /\ tip[k].triple = arg[t].triple
            BY <2>2, <2>4, <3>1, <3>2, <3>6, <5>1, ContributedColumns
          <6>5. n = EntryRecord(fp[k].id, Owner(k), "active", o[1], arg[t].triple)
            BY <2>6, <6>4
          <6>6. n = [q EXCEPT !.seq = o[1]]
            <7>1. q = [[e EXCEPT !.status = "active"] EXCEPT !.triple = arg[t].triple]
              BY <6>0
            <7>2. q = EntryRecord(fp[k].id, Owner(k), "active", fp[k].seq, arg[t].triple)
              <8>0. PICK f : f = [e EXCEPT !.status = "active"]
                OBVIOUS
              <8>1. f = EntryRecord(fp[k].id, Owner(k), "active", fp[k].seq, fp[k].triple)
                BY <2>6, <8>0 DEF EntryRecord
              <8>2. q = [f EXCEPT !.triple = arg[t].triple]
                BY <7>1, <8>0
              <8> QED BY <8>1, <8>2 DEF EntryRecord
            <7>3. [q EXCEPT !.seq = o[1]] = EntryRecord(fp[k].id, Owner(k), "active", o[1], arg[t].triple)
              BY <7>2 DEF EntryRecord
            <7> QED BY <6>5, <7>3, Zenon
          <6> QED BY <6>3, <6>6
        <5>2. CASE SoftDeleted(t, k)
          <6>0. PICK q : q = [e EXCEPT !.status = "deleted"]
            OBVIOUS
          <6>1. q \in Cat!Updates(e)
            BY <2>4, <2>6, <5>2, <6>0, DeletedColumns DEF Cat!Updates, Live
          <6>2. /\ tip[k].id = fp[k].id /\ tip[k].status = "deleted" /\ tip[k].seq = o[1]
                /\ tip[k].triple = fp[k].triple
            BY <2>4, <3>2, <5>2, DeletedColumns
          <6>3. n = EntryRecord(fp[k].id, Owner(k), "deleted", o[1], fp[k].triple)
            BY <2>6, <6>2
          <6>4. n = [q EXCEPT !.seq = o[1]]
            <7>1. q = EntryRecord(fp[k].id, Owner(k), "deleted", fp[k].seq, fp[k].triple)
              BY <2>6, <6>0 DEF EntryRecord
            <7>2. [q EXCEPT !.seq = o[1]] = EntryRecord(fp[k].id, Owner(k), "deleted", o[1], fp[k].triple)
              BY <7>1 DEF EntryRecord
            <7> QED BY <6>3, <7>2, Zenon
          <6> QED BY <6>1, <6>4
        <5>3. CASE Flagged(t, k) /\ drawn[t] # 0
          <6>0. PICK q : q = [e EXCEPT !.status = "hidden"]
            OBVIOUS
          <6>1. e.status = "active" /\ Hides(t, k)
            BY <2>4, <2>6, <5>3, FlaggedColumns DEF Hides
          <6>2. q \in Cat!Updates(e)
            BY <6>0, <6>1 DEF Cat!Updates
          <6>3. /\ tip[k].id = fp[k].id /\ tip[k].status = "hidden" /\ tip[k].seq = o[1]
                /\ tip[k].triple = fp[k].triple
            BY <2>4, <3>2, <5>3, <6>1, FlaggedColumns
          <6>4. n = EntryRecord(fp[k].id, Owner(k), "hidden", o[1], fp[k].triple)
            BY <2>6, <6>3
          <6>5. n = [q EXCEPT !.seq = o[1]]
            <7>1. q = EntryRecord(fp[k].id, Owner(k), "hidden", fp[k].seq, fp[k].triple)
              BY <2>6, <6>0 DEF EntryRecord
            <7>2. [q EXCEPT !.seq = o[1]] = EntryRecord(fp[k].id, Owner(k), "hidden", o[1], fp[k].triple)
              BY <7>1 DEF EntryRecord
            <7> QED BY <6>4, <7>2, Zenon
          <6> QED BY <6>2, <6>5
        <5> QED BY <2>8, <5>1, <5>2, <5>3
      <4>3. Cat!PublishUpdate(o)
        BY <3>3, <3>4, <3>6, <4>1, <4>2 DEF Cat!PublishUpdate
      <4> QED BY <3>2, <4>3 DEF CatStep, Cat!CatalogNext
    <3> QED BY <3>5, <3>6
  <2> QED BY <2>2, <2>7, <2>8 DEF Written
<1> QED BY <1>2, <1>3

\* COMMIT of the retention tool.
LEMMA PurgeRefines ==
  ASSUME StoreInv, CommitTxn(Purger), StepOf(Purger)
  PROVE  CatStep
<1>0. Purger \in Sessions /\ drawn[Purger] = 0
  BY PurgerSession DEF StoreInv, TxnInv, OpsAt, OpAt
<1>1. seq' = seq /\ lastId' = lastId /\ drawn'[Purger] = 0
  BY <1>0, TypeParts DEF CommitTxn, StoreInv, Shape, DrawnTyped
<1> DEFINE K == {k \in Keys : lock[k] = Purger /\ tip[k] = NoRow}
           T == {EntryOf(k) : k \in K}
<1>2. \A k \in Keys : lock[k] = Purger => Retired(Purger, k) /\ fp[k].id # 0 /\ fp[k] \in Row
  BY <1>0, WorkerNotPurger, TypeParts
     DEF StoreInv, Shape, RowsTyped, TxnInv, LockInv, Holding, LockedOnly, Committable, Retired,
         RowsShaped, RowShape, NoRow
<1>3. \A k \in K : fp'[k].id = 0 /\ fp[k].id # 0
  BY <1>2 DEF CommitTxn, NoRow
<1>4. \A k \in Keys \ K : /\ fp'[k].id = fp[k].id /\ fp'[k].status = fp[k].status
                          /\ fp'[k].seq = fp[k].seq /\ fp'[k].triple = fp[k].triple
  BY <1>2, RetiredColumns DEF CommitTxn
<1>5. T \subseteq Published /\ Published' = Published \ T
  BY <1>3, <1>4, PublishedPurged
<1>6. InFlight' = InFlight
  BY <1>0, <1>1, InFlightKept
<1>7. \A r \in T : r.status = "deleted" /\ \A o \in InFlight : o[2] # r.id
  <2> SUFFICES ASSUME NEW k \in K
               PROVE  /\ EntryOf(k).status = "deleted"
                      /\ \A o \in InFlight : o[2] # EntryOf(k).id
    OBVIOUS
  <2> QED BY <1>0, <1>2, EntryFields, NoOtherNumber DEF Retired, Lockable
<1>8. Cat!Purge(T)
  BY <1>1, <1>5, <1>6, <1>7 DEF Cat!Purge
<1> QED BY <1>5, <1>8 DEF CatStep, Cat!CatalogNext


\* A transaction ends: what it numbered is published or given up.
LEMMA EndRefines ==
  ASSUME StoreInv, NEW t \in Sessions, StepOf(t),
         RollbackTxn(t) \/ (CommitTxn(t) /\ CommitPoint(t))
  PROVE  CatStep
<1>1. CASE RollbackTxn(t)
  <2>1. drawn'[t] = 0 /\ UNCHANGED <<fp, seq, lastId>>
    BY <1>1, TypeParts DEF StoreInv, Shape, RollbackTxn, DrawnTyped
  <2> QED BY <2>1, ClosedRefines
<1>2. CASE CommitTxn(t) /\ CommitPoint(t)
  BY <1>2, CommitRefines, PurgeRefines DEF Sessions
<1> QED BY <1>1, <1>2

LEMMA WorkerRefines ==
  ASSUME StoreInv, NEW t \in Workers, WorkerStep(t) PROVE CatStep
<1>0. t \in Sessions /\ t # Purger /\ TypeOK /\ TxnInv
  BY WorkerNotPurger DEF StoreInv, Shape
<1>1. StepOf(t)
  BY <1>0, WorkerStepOf DEF StoreInv, Shape
<1>2. OpAt(t) /\ IdOfCall(t)
  BY <1>0 DEF TxnInv, OpsAt, IdInv
<1>3. CASE UNCHANGED <<fp, seq, lastId, drawn>> /\ (arg' = arg \/ drawn[t] = 0)
  BY <1>0, <1>1, <1>3, QuietRefines
<1>4. ASSUME NEW r, AnswerReadOnly(t, r), drawn[t] = 0 PROVE CatStep
  BY <1>3, <1>4 DEF AnswerReadOnly, rowVars, genVars
<1>5. CASE SelectExisting(t) \/ CheckOwner(t) \/ LockRow(t) \/ SelectWinner(t)
           \/ LockMissing(t) \/ SoftDeleteNothing(t)
  <2>1. drawn[t] = 0
    BY <1>2, <1>5 DEF OpAt, SelectExisting, CheckOwner, LockRow, SelectWinner, LockMissing,
                      SoftDeleteNothing
  <2>2. (\E r : AnswerReadOnly(t, r)) \/ UNCHANGED <<fp, seq, lastId, drawn>>
    BY <1>5 DEF SelectExisting, CheckOwner, LockRow, SelectWinner, LockMissing,
                SoftDeleteNothing, rowVars, genVars
  <2> QED BY <1>3, <1>4, <2>1, <2>2
<1>6. CASE ClearFlags(t) \/ AddFlag(t) \/ CountFlags(t) \/ BumpHit(t)
  BY <1>3, <1>6 DEF ClearFlags, AddFlag, CountFlags, BumpHit, NoNextVal, WriteRow, rowVars,
                    genVars
<1>7. CASE Resurrect(t)
  <2>1. KeyOf(t) \in Keys
    BY <1>0, <1>7, KeyOfType DEF StoreInv, Shape, Resurrect, ContributeLabels
  <2>2. drawn[t] = 0 /\ arg[t].id # 0
    BY <1>2, <1>7 DEF OpAt, IdOfCall, Placed, Resurrect
  <2> QED BY <1>0, <1>1, <1>7, <2>1, <2>2, UpdateRefines DEF Resurrect, WriteRow
<1>8. CASE EvaluateDefaults(t)
  <2>1. drawn[t] = 0
    BY <1>2, <1>8 DEF OpAt, EvaluateDefaults
  <2>2. /\ seq' = seq + 1 /\ lastId' = lastId + 1 /\ fp' = fp
        /\ drawn'[t] = seq + 1 /\ seq + 1 # 0 /\ arg'[t].id = lastId + 1
    BY <1>0, <1>8, TypeParts
       DEF EvaluateDefaults, NextVal, DrawnTyped, GenTyped, ArgTyped, ArgType, rowVars
  <2>3. InFlight' = InFlight \cup {<<seq + 1, lastId + 1>>} /\ Published' = Published
    BY <1>0, <1>1, <2>1, <2>2, InFlightDrawn, PublishedKept
  <2>4. Cat!StartInsert
    BY <2>2, <2>3 DEF Cat!StartInsert, Cat!Draw
  <2> QED BY <2>4 DEF CatStep, Cat!CatalogNext
<1>9. CASE InsertOrNothing(t)
  <2>1. UNCHANGED <<fp, seq, lastId, arg>> /\ (drawn' = drawn \/ drawn' = [drawn EXCEPT ![t] = 0])
    BY <1>9 DEF InsertOrNothing, WriteRow, rowVars, genVars
  <2>2. drawn' = drawn \/ drawn'[t] = 0
    BY <1>0, <2>1, TypeParts DEF DrawnTyped
  <2> QED BY <1>0, <1>1, <1>3, <2>1, <2>2, ClosedRefines
<1>10. CASE ApplyFlag(t)
  <2>1. PICK k \in Keys : /\ fp[k].id = arg[t].id /\ Lockable(t, k)
                          /\ NextVal(t) \/ NoNextVal
    BY <1>10 DEF ApplyFlag
  <2>2. UNCHANGED <<fp, lastId, arg>> /\ pc[t] = "applyflag"
    BY <1>10 DEF ApplyFlag, WriteRow
  <2>3. drawn[t] = 0 /\ arg[t].id # 0
    BY <1>0, <1>2, <2>1, <2>2, LockedRow DEF OpAt, HoldLabels
  <2> QED BY <1>0, <1>1, <1>3, <2>1, <2>2, <2>3, UpdateRefines DEF NoNextVal
<1>11. CASE SoftDelete(t)
  <2>1. PICK k \in Keys : fp[k].id = arg[t].id /\ Lockable(t, k) /\ NextVal(t)
    BY <1>11 DEF SoftDelete
  <2>2. UNCHANGED <<fp, lastId, arg>> /\ pc[t] = "softdelete"
    BY <1>11 DEF SoftDelete, WriteRow
  <2>3. drawn[t] = 0 /\ arg[t].id # 0
    BY <1>2, <2>2 DEF OpAt, IdOfCall, Placed
  <2> QED BY <1>0, <1>1, <2>1, <2>2, <2>3, UpdateRefines
<1>12. CASE ResurrectGone(t) \/ Commit(t) \/ BadParameter(t)
  BY <1>0, <1>1, <1>12, EndRefines DEF ResurrectGone, Commit, BadParameter, CommitPoint
<1> QED BY <1>5, <1>6, <1>7, <1>8, <1>9, <1>10, <1>11, <1>12 DEF WorkerStep

LEMMA PurgerRefines ==
  ASSUME StoreInv, PurgerStep PROVE CatStep
<1>0. Purger \in Sessions /\ StepOf(Purger)
  BY PurgerSession, PurgerStepOf DEF StoreInv, Shape
<1>1. CASE ClearReasons \/ Cascade \/ PurgeRow \/ AnonymizeRow
  <2>1. UNCHANGED <<fp, seq, lastId, drawn, arg>>
    BY <1>1 DEF ClearReasons, Cascade, PurgeRow, AnonymizeRow, VisitTombstone, WriteRow,
                rowVars, genVars
  <2> QED BY <1>0, <2>1, QuietRefines
<1>2. CASE EndRetention
  BY <1>0, <1>2, EndRefines DEF EndRetention, CommitPoint
<1> QED BY <1>1, <1>2 DEF PurgerStep

LEMMA IssueRefines ==
  ASSUME StoreInv, Issue PROVE CatStep
<1>1. ASSUME NEW t \in Sessions, NEW a, NEW l, Begin(t, a, l),
             \A u \in Sessions \ {t} : chg'[u] = chg[u]
      PROVE  CatStep
  <2>1. StepOf(t) /\ UNCHANGED <<fp, seq, lastId, drawn>>
    BY <1>1, BeginStepOf DEF StoreInv, Shape, Begin, rowVars, genVars
  <2>2. drawn[t] = 0
    BY <1>1 DEF StoreInv, TxnInv, OpsAt, OpAt, Begin
  <2> QED BY <2>1, <2>2, QuietRefines
<1>2. ASSUME NEW t \in Workers,
             BeginContribute(t) \/ BeginFlag(t) \/ BeginHit(t) \/ BeginDelete(t)
      PROVE  CatStep
  BY <1>1, <1>2, WorkerNotPurger
     DEF BeginContribute, BeginFlag, BeginHit, BeginDelete, BeginOnId
<1>3. CASE BeginRetention
  <2>1. \A u \in Sessions \ {Purger} : chg'[u] = chg[u]
    BY <1>3, TypeParts DEF BeginRetention, StoreInv, Shape, ChildTyped
  <2> QED BY <1>1, <1>3, <2>1, PurgerSession DEF BeginRetention
<1> QED BY <1>2, <1>3 DEF Issue

LEMMA StepRefines ==
  ASSUME StoreInv, [Next]_vars PROVE CatStep
<1>1. ASSUME NEW t \in Sessions, LoseConnection(t) \/ DeadlockVictim(t) PROVE CatStep
  <2>1. StepOf(t)
    BY <1>1, FaultStepOf DEF StoreInv, Shape
  <2>2. pc[t] = "anonymize" => t = Purger
    BY DEF StoreInv, TxnInv, OpsAt, OpAt
  <2> QED BY <1>1, <2>1, <2>2, EndRefines
          DEF LoseConnection, DeadlockVictim, Committing, CommitPoint
<1>2. CASE UNCHANGED vars
  <2>1. Published' = Published /\ InFlight' = InFlight /\ UNCHANGED <<seq, lastId>>
    BY <1>2 DEF vars, Published, InFlight, EntryOf, Owner
  <2> QED BY <2>1 DEF CatStep, Cat!catVars
<1> QED BY <1>1, <1>2, IssueRefines, WorkerRefines, PurgerRefines DEF Next, Done

\* The write path implements the catalogue: whatever the workers and the
\* retention tool do, readers see rows that change under one number at a time,
\* numbered in statement order and published in commit order, and no step of the
\* store shows them anything else.
THEOREM StoreImplementsCatalog == Spec => ImplementsCatalog
<1>1. Init => Cat!CatalogInit
  BY PurgerSession DEF Init, Cat!CatalogInit, Published, InFlight, NoRow
<1>2. StoreInv /\ [Next]_vars => [Cat!CatalogNext]_(Cat!catVars)
  BY StepRefines DEF CatStep
<1> QED BY <1>1, <1>2, StoreInvariant, PTL DEF Spec, ImplementsCatalog, Cat!CatalogSpec
=============================================================================
