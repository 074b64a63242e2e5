-------------------------- MODULE RetentionProofs --------------------------
(***************************************************************************)
(* Proofs about retention against the clock, for any periods, intervals    *)
(* and delays: how old stored data can get, and that a client which syncs  *)
(* in time is told of every deletion before the tombstone is purged,       *)
(* except of one whose number was overtaken by a sync.                     *)
(***************************************************************************)
EXTENDS Retention, FiniteSetTheorems, WellFoundedInduction, TLAPS

-----------------------------------------------------------------------------
(* Numbers.                                                                *)

\* Every nonempty set of naturals has a least element ...
LEMMA LeastNumber ==
  ASSUME NEW T, T \subseteq Nat, T # {}
  PROVE  \E n \in T : \A m \in T : n <= m
<1> DEFINE R == StrictSubsetOrdering(Nat)
           F == FiniteSubsetsOf(Nat)
           U == {0 .. n : n \in T}
<1>1. IsWellFoundedOn(R, F)
  BY FS_StrictSubsetOrderingWellFounded
<1>2. U \subseteq F /\ U # {}
  <2>1. ASSUME NEW n \in T PROVE 0 .. n \in F
    BY <2>1, FS_Interval DEF FiniteSubsetsOf
  <2> QED BY <2>1
<1>3. ASSUME NEW n \in T, NEW m \in T, m < n PROVE <<0 .. m, 0 .. n>> \in R
  <2>1. 0 .. m \subseteq 0 .. n /\ n \in 0 .. n /\ n \notin 0 .. m
    BY <1>3
  <2> QED BY <1>3, <2>1 DEF StrictSubsetOrdering
<1> HIDE DEF R, F
<1>4. PICK V \in U : \A W \in U : ~ (<<W, V>> \in R)
  BY <1>1, <1>2, WFMin
<1>5. PICK n \in T : V = 0 .. n
  BY <1>4
<1>6. \A m \in T : ~ (m < n)
  BY <1>3, <1>4, <1>5
<1> QED BY <1>5, <1>6

\* ... and, if it is bounded, a greatest.
LEMMA GreatestNumber ==
  ASSUME NEW T, T \subseteq Nat, T # {}, NEW b \in Nat, \A n \in T : n <= b
  PROVE  \E n \in T : \A m \in T : m <= n
<1> DEFINE U == {b - n : n \in T}
<1>1. U \subseteq Nat /\ U # {}
  <2>1. \A n \in T : n \in Nat /\ n <= b /\ b - n \in Nat
    OBVIOUS
  <2>2. U \subseteq Nat
    BY <2>1
  <2>3. PICK n : n \in T
    OBVIOUS
  <2>4. b - n \in U
    BY <2>3
  <2> QED BY <2>2, <2>4
<1>2. PICK u \in U : \A m \in U : u <= m
  BY <1>1, LeastNumber
<1>3. PICK n \in T : u = b - n
  OBVIOUS
<1>4. ASSUME NEW m \in T PROVE m <= n
  <2>1. b - m \in U
    OBVIOUS
  <2>2. b - n <= b - m
    BY <1>2, <1>3, <2>1
  <2> QED BY <2>2
<1> QED BY <1>4

-----------------------------------------------------------------------------
(* The inductive invariant.                                                *)

\* Every deadline is kept: those of the calls and the run in flight, of the next
\* run and of the next sync.
Deadlines ==
  /\ lastSync <= now /\ now <= lastSync + Offline
  /\ lastRun <= now
  /\ \A p \in pending : p.stamp <= now /\ now <= p.stamp + MaxDelay
  /\ run # NoRun =>
       /\ run.at \in Nat
       /\ run.at <= now /\ now <= run.at + MaxDelay
       /\ lastRun <= run.at
       /\ Accepted
  /\ run.apply => run.at <= lastRun + Every /\ now <= run.at + Every
  /\ ~ run.apply => now <= lastRun + Every

Numbered ==
  /\ mark <= seq
  /\ \A i \in Ids : row[i].seq <= seq
  /\ \A p \in pending : p.seq <= seq

\* A number in flight is above the watermark, or a sync has gone past it.
Drawn == \A p \in pending : p.seq > mark \/ p.seq \in late

\* A deletion the client has not fetched was committed after its last sync.
Unfetched(i) == row[i].status = "deleted" /\ row[i].triple = Wanted /\ row[i].seq > mark
LateDeletions == \A i \in Ids : Unfetched(i) => lastSync <= row[i].updated + MaxDelay

\* What the client holds under its triple is live, or its deletion is still to be
\* fetched or was overtaken.
CopyKnown(i) == row[i].triple = Wanted =>
  row[i].status = "active" \/ Unfetched(i) \/ row[i].seq \in late
Copies == Offline + MaxDelay <= TombstoneDays => \A i \in copy : CopyKnown(i)

\* Nothing is older, at the last run, than its period, or than a call that committed
\* just behind the run.
SinceRun(stamp, days) == lastRun <= stamp + AtLeastDelay(days)
Recent ==
  /\ \A h \in hits : SinceRun(h[2], HitDays)
  /\ \A r \in reasons : SinceRun(r[2], FlagReasonDays)
  /\ \A i \in Ids : row[i].status = "deleted" =>
       /\ row[i].meta => SinceRun(row[i].updated, TombstoneMetadataDays)
       /\ SinceRun(row[i].updated, TombstoneDays)

RetentionInv ==
  RetentionTypeOK /\ Deadlines /\ Numbered /\ Drawn /\ LateDeletions /\ Copies /\ Recent

-----------------------------------------------------------------------------
(* Every step keeps the invariant.                                         *)

LEMMA Days ==
  ASSUME NEW d \in Int
  PROVE  AtLeastDelay(d) \in Nat /\ d <= AtLeastDelay(d) /\ MaxDelay <= AtLeastDelay(d)
BY RetentionAssumption DEF AtLeastDelay

LEMMA InitInv == Init => RetentionInv
<1> SUFFICES ASSUME Init PROVE RetentionInv
  OBVIOUS
<1>1. \A i \in Ids : row[i] \in Row
  BY RetentionAssumption DEF Init, Row
<1>2. RetentionTypeOK
  BY <1>1 DEF Init, RetentionTypeOK, NoRun
<1>3. Deadlines
  BY RetentionAssumption DEF Init, Deadlines, NoRun
<1>4. \A i \in Ids : row[i].status = "absent" /\ row[i].seq = 0
  BY DEF Init
<1>5. Numbered /\ Drawn /\ LateDeletions /\ Copies /\ Recent
  BY <1>4 DEF Init, Numbered, Drawn, LateDeletions, Unfetched, Copies, Recent
<1> QED BY <1>2, <1>3, <1>5 DEF RetentionInv

\* A stamp a call may have now is recent.
LEMMA Recently ==
  ASSUME RetentionInv, NEW stamp \in Stamps
  PROVE  /\ stamp \in Nat /\ stamp <= now /\ now <= stamp + MaxDelay
         /\ \A d \in Int : SinceRun(stamp, d)
<1>1. now \in Nat /\ lastRun \in Nat /\ lastRun <= now
  BY DEF RetentionInv, RetentionTypeOK, Deadlines
<1>2. stamp \in Nat /\ stamp <= now /\ now <= stamp + MaxDelay
  BY <1>1, RetentionAssumption DEF Stamps
<1>3. ASSUME NEW d \in Int PROVE SinceRun(stamp, d)
  BY <1>1, <1>2, Days, RetentionAssumption DEF SinceRun
<1> QED BY <1>2, <1>3

\* The call in flight that ends: its stamp is recent.
LEMMA Stamped ==
  ASSUME RetentionInv, NEW p \in pending
  PROVE  /\ p.id \in Ids /\ p.triple \in Triples /\ p.stamp \in Nat
         /\ now <= p.stamp + MaxDelay
         /\ p.seq \in Nat /\ p.seq <= seq
         /\ lastSync <= p.stamp + MaxDelay
         /\ \A d \in Int : SinceRun(p.stamp, d)
<1>1. p \in Call
  BY DEF RetentionInv, RetentionTypeOK
<1>2. p.id \in Ids /\ p.triple \in Triples /\ p.stamp \in Nat /\ p.seq \in Nat
  BY <1>1 DEF Call
<1>3. now <= p.stamp + MaxDelay /\ lastSync <= now /\ lastRun <= now
  BY DEF RetentionInv, Deadlines
<1>4. now \in Nat /\ lastSync \in Nat /\ lastRun \in Nat
  BY DEF RetentionInv, RetentionTypeOK
<1>5. ASSUME NEW d \in Int PROVE SinceRun(p.stamp, d)
  BY <1>2, <1>3, <1>4, Days, RetentionAssumption DEF SinceRun
<1>6. p.seq <= seq
  BY DEF RetentionInv, Numbered
<1> QED BY <1>2, <1>3, <1>4, <1>5, <1>6, RetentionAssumption

\* The number of a call's statement is above the watermark when it is drawn.
LEMMA DrawInv ==
  ASSUME RetentionInv, NEW op \in {"contribute", "delete"}, NEW i \in Ids, NEW tr \in Triples,
         NEW stamp \in Stamps, Draw(op, i, tr, stamp)
  PROVE  RetentionInv'
<1> USE DEF RetentionInv
<1>1. PICK s \in Nat : s = seq
  BY DEF RetentionTypeOK
<1>2. PICK c : c = [op |-> op, id |-> i, triple |-> tr, stamp |-> stamp, seq |-> s + 1]
  OBVIOUS
<1>3. stamp \in Nat /\ stamp <= now /\ now <= stamp + MaxDelay
  BY Recently
<1>4. c \in Call /\ c.stamp = stamp /\ c.seq = s + 1
  BY <1>1, <1>2, <1>3 DEF Call
<1>5. pending' = pending \cup {c} /\ seq' = s + 1
      /\ UNCHANGED <<now, row, hits, reasons, run, lastRun, copy, mark, lastSync, late>>
  BY <1>1, <1>2 DEF Draw, toolVars, clientVars
<1>6. RetentionTypeOK'
  BY <1>1, <1>4, <1>5 DEF RetentionTypeOK
<1>7. Deadlines'
  <2>1. \A q \in pending' : q.stamp <= now /\ now <= q.stamp + MaxDelay
    BY <1>3, <1>4, <1>5 DEF Deadlines
  <2> QED BY <1>5, <2>1 DEF Deadlines, Accepted
<1>8. mark \in Nat /\ mark <= s
  BY <1>1 DEF Numbered, RetentionTypeOK
<1>9. Numbered'
  <2>1. \A j \in Ids : row[j].seq \in Nat /\ row[j].seq <= s
    BY <1>1 DEF Numbered, RetentionTypeOK, Row
  <2>2. \A q \in pending : q.seq \in Nat /\ q.seq <= s
    BY <1>1 DEF Numbered, RetentionTypeOK, Call
  <2>3. \A q \in pending' : q.seq <= s + 1
    BY <1>4, <1>5, <2>2
  <2> QED BY <1>5, <1>8, <2>1, <2>3 DEF Numbered
<1>10. Drawn'
  <2>1. c.seq > mark
    BY <1>4, <1>8
  <2> QED BY <1>5, <2>1 DEF Drawn
<1>11. LateDeletions' /\ Copies' /\ Recent'
  BY <1>5 DEF LateDeletions, Unfetched, Copies, CopyKnown, Recent, SinceRun
<1> QED BY <1>6, <1>7, <1>9, <1>10, <1>11

LEMMA ContributeInv ==
  ASSUME RetentionInv, NEW p \in pending, Contribute(p), pending' = pending \ {p},
         UNCHANGED <<now, seq, hits, run, lastRun, copy, mark, lastSync, late>>
  PROVE  RetentionInv'
<1> USE DEF RetentionInv
<1>1. PICK i \in Ids : i = p.id
  BY Stamped
<1>2. PICK r : r = [status |-> "active", triple |-> p.triple, seq |-> p.seq, updated |-> p.stamp, meta |-> TRUE]
  OBVIOUS
<1>3. r \in Row /\ r.status = "active" /\ r.seq = p.seq
  BY <1>2, Stamped DEF Row
<1>4. row' = [row EXCEPT ![i] = r] /\ reasons' \subseteq reasons
  BY <1>1, <1>2 DEF Contribute
<1>5. row'[i] = r /\ \A j \in Ids : j # i => row'[j] = row[j]
  BY <1>1, <1>4 DEF RetentionTypeOK
<1>6. RetentionTypeOK'
  <2>1. row' \in [Ids -> Row]
    BY <1>1, <1>3, <1>4 DEF RetentionTypeOK
  <2> QED BY <1>4, <2>1 DEF RetentionTypeOK
<1>7. Deadlines'
  BY DEF Deadlines, Accepted
<1>8. Numbered' /\ Drawn'
  <2>1. \A j \in Ids : row'[j].seq <= seq
    BY <1>3, <1>5, Stamped DEF Numbered
  <2> QED BY <2>1 DEF Numbered, Drawn
<1>9. LateDeletions'
  BY <1>3, <1>5 DEF LateDeletions, Unfetched
<1>10. Copies'
  <2> SUFFICES ASSUME Offline + MaxDelay <= TombstoneDays, NEW j \in copy PROVE CopyKnown(j)'
    BY DEF Copies
  <2>1. j \in Ids /\ CopyKnown(j)
    BY DEF RetentionTypeOK, Copies
  <2>2. CASE j = i
    BY <1>3, <1>5, <2>2 DEF CopyKnown
  <2>3. CASE j # i
    BY <1>5, <2>1, <2>3 DEF CopyKnown, Unfetched
  <2> QED BY <2>2, <2>3
<1>11. Recent'
  BY <1>3, <1>4, <1>5 DEF Recent, SinceRun
<1> QED BY <1>6, <1>7, <1>8, <1>9, <1>10, <1>11

\* A deletion is fetched later if its number is above the watermark, and its stamp
\* is recent.
LEMMA DeleteInv ==
  ASSUME RetentionInv, NEW p \in pending, Delete(p), pending' = pending \ {p},
         UNCHANGED <<now, seq, hits, run, lastRun, copy, mark, lastSync, late>>
  PROVE  RetentionInv'
<1> USE DEF RetentionInv
<1>1. PICK i \in Ids : i = p.id
  BY Stamped
<1>2. PICK n \in Nat : n = p.seq
  BY Stamped
<1>3. PICK r : r = [row[i] EXCEPT !.status = "deleted", !.seq = n, !.updated = p.stamp]
  OBVIOUS
<1>4. row[i] \in Row /\ p.stamp \in Nat
  BY Stamped DEF RetentionTypeOK
<1>5. r \in Row /\ r.status = "deleted" /\ r.triple = row[i].triple /\ r.seq = n /\ r.updated = p.stamp
  <2>1. PICK old \in Row : old = row[i]
    BY <1>4
  <2>2. PICK t \in Nat : t = p.stamp
    BY <1>4
  <2>3. r = [status |-> "deleted", triple |-> old.triple, seq |-> n, updated |-> t, meta |-> old.meta]
    BY <1>3, <2>1, <2>2 DEF Row
  <2>4. old.triple \in Triples /\ old.meta \in BOOLEAN
    BY <2>1 DEF Row
  <2> QED BY <2>1, <2>2, <2>3, <2>4 DEF Row
<1>6. row' = [row EXCEPT ![i] = r]
  BY <1>1, <1>2, <1>3, <1>4 DEF Delete, Row, RetentionTypeOK
<1>7. reasons' = reasons
  BY DEF Delete
<1>8. row'[i] = r /\ \A j \in Ids : j # i => row'[j] = row[j]
  BY <1>1, <1>6 DEF RetentionTypeOK
<1>9. RetentionTypeOK'
  <2>1. row' \in [Ids -> Row]
    BY <1>1, <1>5, <1>6 DEF RetentionTypeOK
  <2> QED BY <1>7, <2>1 DEF RetentionTypeOK
<1>10. Deadlines'
  BY DEF Deadlines, Accepted
<1>11. n > mark \/ n \in late
  BY <1>2 DEF Drawn
<1>12. Numbered' /\ Drawn'
  <2>1. \A j \in Ids : row'[j].seq <= seq
    BY <1>2, <1>5, <1>8, Stamped DEF Numbered
  <2> QED BY <2>1 DEF Numbered, Drawn
<1>13. LateDeletions'
  <2> SUFFICES ASSUME NEW j \in Ids, Unfetched(j)' PROVE (lastSync <= row[j].updated + MaxDelay)'
    BY DEF LateDeletions
  <2>1. CASE j = i
    BY <1>5, <1>8, <2>1, Stamped
  <2>2. CASE j # i
    BY <1>8, <2>2 DEF LateDeletions, Unfetched
  <2> QED BY <2>1, <2>2
<1>14. Copies'
  <2> SUFFICES ASSUME Offline + MaxDelay <= TombstoneDays, NEW j \in copy PROVE CopyKnown(j)'
    BY DEF Copies
  <2>1. j \in Ids /\ CopyKnown(j)
    BY DEF RetentionTypeOK, Copies
  <2>2. CASE j = i
    BY <1>5, <1>8, <1>11, <2>2 DEF CopyKnown, Unfetched
  <2>3. CASE j # i
    BY <1>8, <2>1, <2>3 DEF CopyKnown, Unfetched
  <2> QED BY <2>2, <2>3
<1>15. Recent'
  <2>1. \A d \in Int : SinceRun(p.stamp, d)
    BY Stamped
  <2>2. SinceRun(r.updated, TombstoneMetadataDays) /\ SinceRun(r.updated, TombstoneDays)
    BY <1>5, <2>1, RetentionAssumption
  <2>3. ASSUME NEW j \in Ids, row'[j].status = "deleted"
        PROVE  /\ row'[j].meta => SinceRun(row[j].updated, TombstoneMetadataDays)'
               /\ SinceRun(row[j].updated, TombstoneDays)'
    <3>1. CASE j = i
      BY <1>8, <2>2, <3>1 DEF SinceRun
    <3>2. CASE j # i
      BY <1>8, <2>3, <3>2 DEF SinceRun, Recent
    <3> QED BY <3>1, <3>2
  <2> QED BY <1>7, <2>3 DEF Recent, SinceRun
<1> QED BY <1>9, <1>10, <1>12, <1>13, <1>14, <1>15

LEMMA AuditInv ==
  ASSUME RetentionInv, NEW op \in {"hit", "flag"}, NEW i \in Ids, NEW stamp \in Stamps, Audit(op, i, stamp)
  PROVE  RetentionInv'
<1> USE DEF RetentionInv
<1>1. PICK a : a = <<i, stamp>>
  OBVIOUS
<1>2. a \in Ids \X Nat /\ a[2] = stamp
  BY <1>1, Recently
<1>3. hits' \in {hits, hits \cup {a}} /\ reasons' \in {reasons, reasons \cup {a}}
      /\ UNCHANGED <<now, row, seq, pending, run, lastRun, copy, mark, lastSync, late>>
  BY <1>1 DEF Audit, toolVars, clientVars
<1>4. RetentionTypeOK'
  BY <1>2, <1>3 DEF RetentionTypeOK
<1>5. Deadlines'
  BY <1>3 DEF Deadlines, Accepted
<1>6. Numbered' /\ Drawn' /\ LateDeletions' /\ Copies'
  BY <1>3 DEF Numbered, Drawn, LateDeletions, Unfetched, Copies, CopyKnown
<1>7. Recent'
  <2>1. SinceRun(a[2], HitDays) /\ SinceRun(a[2], FlagReasonDays)
    BY <1>2, Recently, RetentionAssumption
  <2> QED BY <1>3, <2>1 DEF Recent, SinceRun
<1> QED BY <1>4, <1>5, <1>6, <1>7

LEMMA FinishInv ==
  ASSUME RetentionInv, NEW p \in pending, Finish(p)
  PROVE  RetentionInv'
<1>1. pending' = pending \ {p} /\ UNCHANGED <<now, seq, hits, run, lastRun, copy, mark, lastSync, late>>
  BY DEF Finish, toolVars, clientVars
<1>2. CASE Contribute(p)
  BY <1>1, <1>2, ContributeInv
<1>3. CASE Delete(p)
  BY <1>1, <1>3, DeleteInv
<1>4. CASE UNCHANGED <<row, reasons>>
  <2> USE DEF RetentionInv
  <2>1. RetentionTypeOK'
    BY <1>1, <1>4 DEF RetentionTypeOK
  <2>2. Deadlines'
    BY <1>1 DEF Deadlines, Accepted
  <2>3. Numbered' /\ Drawn' /\ LateDeletions' /\ Copies' /\ Recent'
    BY <1>1, <1>4 DEF Numbered, Drawn, LateDeletions, Unfetched, Copies, CopyKnown, Recent, SinceRun
  <2> QED BY <2>1, <2>2, <2>3
<1> QED BY <1>2, <1>3, <1>4 DEF Finish

LEMMA StartRunInv ==
  ASSUME RetentionInv, NEW apply \in BOOLEAN, StartRun(apply)
  PROVE  RetentionInv'
<1> USE DEF RetentionInv
<1>1. PICK x \in Nat : x = now
  BY DEF RetentionTypeOK
<1>2. Accepted /\ run = NoRun /\ run' = [at |-> x, apply |-> apply]
      /\ UNCHANGED <<now, row, seq, hits, reasons, pending, lastRun, copy, mark, lastSync, late>>
  BY <1>1 DEF StartRun, clientVars
<1>3. RetentionTypeOK'
  BY <1>1, <1>2 DEF RetentionTypeOK
<1>4. Deadlines'
  <2>1. run'.at = x /\ run'.apply = apply /\ ~ run.apply
    BY <1>2 DEF NoRun
  <2>2. lastRun <= x /\ x <= lastRun + Every /\ lastRun \in Nat
    BY <1>1, <2>1 DEF Deadlines, RetentionTypeOK
  <2> QED BY <1>1, <1>2, <2>1, <2>2, RetentionAssumption DEF Deadlines, Accepted
<1>5. Numbered' /\ Drawn' /\ LateDeletions' /\ Copies' /\ Recent'
  BY <1>2 DEF Numbered, Drawn, LateDeletions, Unfetched, Copies, CopyKnown, Recent, SinceRun
<1> QED BY <1>3, <1>4, <1>5

\* What a run makes of a row: only a tombstone changes, and one that stays is young
\* enough, and so are its source fields if they stay.
LEMMA RowAfterRun ==
  ASSUME NEW r \in Row, NEW n, n = Anonymized(Purged(r))
  PROVE  /\ n \in Row /\ n.triple = r.triple /\ n.seq = r.seq /\ n.updated = r.updated
         /\ r.status # "deleted" => n = r
         /\ ~ Older(r.updated, TombstoneDays) => n.status = r.status
         /\ n.status = "deleted" =>
              /\ r.status = "deleted" /\ ~ Older(r.updated, TombstoneDays)
              /\ n.meta => r.meta /\ ~ Older(r.updated, TombstoneMetadataDays)
<1>1. PICK m : m = Purged(r)
  OBVIOUS
<1>2. n = Anonymized(m)
  BY <1>1
<1>3. CASE r.status = "deleted" /\ Older(r.updated, TombstoneDays)
  <2>1. m = [r EXCEPT !.status = "purged", !.meta = FALSE]
    BY <1>1, <1>3 DEF Purged
  <2>2. m \in Row /\ m.status = "purged" /\ m.triple = r.triple /\ m.seq = r.seq /\ m.updated = r.updated
    BY <2>1 DEF Row
  <2>3. n = m
    BY <1>2, <2>2 DEF Anonymized
  <2> QED BY <1>3, <2>2, <2>3
<1>4. CASE ~ (r.status = "deleted" /\ Older(r.updated, TombstoneDays))
  <2>1. m = r
    BY <1>1, <1>4 DEF Purged
  <2>2. CASE r.status = "deleted" /\ Older(r.updated, TombstoneMetadataDays)
    <3>1. n = [r EXCEPT !.meta = FALSE]
      BY <1>2, <2>1, <2>2 DEF Anonymized
    <3>2. n \in Row /\ n.meta = FALSE /\ n.status = r.status /\ n.triple = r.triple
          /\ n.seq = r.seq /\ n.updated = r.updated
      BY <3>1 DEF Row
    <3> QED BY <1>4, <2>2, <3>2
  <2>3. CASE ~ (r.status = "deleted" /\ Older(r.updated, TombstoneMetadataDays))
    <3>1. n = r
      BY <1>2, <2>1, <2>3 DEF Anonymized
    <3> QED BY <1>4, <2>3, <3>1
  <2> QED BY <2>2, <2>3
<1> QED BY <1>3, <1>4

\* An applied run removes what is older than its period at its now_ms; a tombstone
\* the client has not fetched is younger.
LEMMA AppliedInv ==
  ASSUME RetentionInv, EndRun, run.apply
  PROVE  RetentionInv'
<1> USE DEF RetentionInv
<1>1. run # NoRun
  BY DEF EndRun
<1>2. PICK at \in Nat : at = run.at
  BY <1>1 DEF Deadlines
<1>3. /\ run' = NoRun /\ lastRun' = at
      /\ hits' = Kept(hits, HitDays) /\ reasons' = Kept(reasons, FlagReasonDays)
      /\ row' = [i \in Ids |-> Anonymized(Purged(row[i]))]
      /\ UNCHANGED <<now, seq, pending, copy, mark, lastSync, late>>
  BY <1>2 DEF EndRun, clientVars
<1>4. ASSUME NEW i \in Ids
      PROVE  /\ row'[i] \in Row /\ row'[i].triple = row[i].triple /\ row'[i].seq = row[i].seq
             /\ row'[i].updated = row[i].updated
             /\ row[i].status # "deleted" => row'[i] = row[i]
             /\ ~ Older(row[i].updated, TombstoneDays) => row'[i].status = row[i].status
             /\ row'[i].status = "deleted" =>
                  /\ row[i].status = "deleted" /\ ~ Older(row[i].updated, TombstoneDays)
                  /\ row'[i].meta => row[i].meta /\ ~ Older(row[i].updated, TombstoneMetadataDays)
  <2>1. PICK r \in Row : r = row[i]
    BY DEF RetentionTypeOK
  <2>2. PICK n : n = Anonymized(Purged(r))
    OBVIOUS
  <2>3. row'[i] = n
    BY <1>3, <2>1, <2>2
  <2> QED BY <2>1, <2>2, <2>3, RowAfterRun
<1>5. RetentionTypeOK'
  <2>1. row' \in [Ids -> Row]
    BY <1>3, <1>4
  <2>2. hits' \subseteq hits /\ reasons' \subseteq reasons
    BY <1>3 DEF Kept
  <2> QED BY <1>2, <1>3, <2>1, <2>2 DEF RetentionTypeOK, NoRun
<1>6. Deadlines'
  BY <1>1, <1>2, <1>3 DEF Deadlines, NoRun
<1>7. Numbered' /\ Drawn'
  BY <1>3, <1>4 DEF Numbered, Drawn
<1>8. LateDeletions'
  BY <1>3, <1>4 DEF LateDeletions, Unfetched
<1>9. Copies'
  <2> SUFFICES ASSUME Offline + MaxDelay <= TombstoneDays, NEW i \in copy PROVE CopyKnown(i)'
    BY <1>3 DEF Copies
  <2>1. i \in Ids /\ CopyKnown(i)
    BY DEF RetentionTypeOK, Copies
  <2>2. CASE row[i].status = "active"
    BY <1>4, <2>1, <2>2 DEF CopyKnown
  <2>3. CASE Unfetched(i)
    <3>1. PICK u \in Nat : u = row[i].updated
      BY <2>1 DEF RetentionTypeOK, Row
    <3>2. lastSync <= u + MaxDelay
      BY <2>1, <2>3, <3>1 DEF LateDeletions
    <3>3. at <= now /\ now <= lastSync + Offline /\ now \in Nat /\ lastSync \in Nat
      BY <1>1, <1>2 DEF Deadlines, RetentionTypeOK
    <3>4. ~ Older(u, TombstoneDays)
      BY <1>2, <3>2, <3>3, RetentionAssumption DEF Older
    <3>5. row'[i].status = "deleted" /\ row'[i].triple = Wanted /\ row'[i].seq > mark
      BY <1>4, <2>1, <2>3, <3>1, <3>4 DEF Unfetched
    <3> QED BY <1>3, <3>5 DEF CopyKnown, Unfetched
  <2>4. CASE row[i].triple # Wanted \/ row[i].seq \in late
    BY <1>3, <1>4, <2>1, <2>4 DEF CopyKnown
  <2> QED BY <2>1, <2>2, <2>3, <2>4 DEF CopyKnown
<1>10. ASSUME NEW s \in Nat, NEW d \in Int, ~ Older(s, d) PROVE at <= s + AtLeastDelay(d)
  <2>1. ~ (s < at - d)
    BY <1>2, <1>10 DEF Older
  <2> QED BY <2>1, Days
<1>11. Recent'
  <2>1. \A h \in hits' : h[2] \in Nat /\ ~ Older(h[2], HitDays)
    BY <1>3 DEF Kept, RetentionTypeOK
  <2>2. \A r \in reasons' : r[2] \in Nat /\ ~ Older(r[2], FlagReasonDays)
    BY <1>3 DEF Kept, RetentionTypeOK
  <2>3. \A h \in hits' : at <= h[2] + AtLeastDelay(HitDays)
    BY <1>10, <2>1, RetentionAssumption
  <2>4. \A r \in reasons' : at <= r[2] + AtLeastDelay(FlagReasonDays)
    BY <1>10, <2>2, RetentionAssumption
  <2>5. ASSUME NEW i \in Ids, row'[i].status = "deleted"
        PROVE  /\ row'[i].meta => at <= row'[i].updated + AtLeastDelay(TombstoneMetadataDays)
               /\ at <= row'[i].updated + AtLeastDelay(TombstoneDays)
    <3>1. PICK u \in Nat : u = row[i].updated
      BY DEF RetentionTypeOK, Row
    <3>2. row'[i].updated = u /\ ~ Older(u, TombstoneDays) /\ (row'[i].meta => ~ Older(u, TombstoneMetadataDays))
      BY <1>4, <2>5, <3>1
    <3> QED BY <1>10, <3>2, RetentionAssumption
  <2> QED BY <1>3, <2>3, <2>4, <2>5 DEF Recent, SinceRun, AtLeastDelay
<1> QED BY <1>5, <1>6, <1>7, <1>8, <1>9, <1>11

LEMMA EndRunInv == ASSUME RetentionInv, EndRun PROVE RetentionInv'
<1>1. CASE run.apply
  BY <1>1, AppliedInv
<1>2. CASE ~ run.apply
  <2> USE DEF RetentionInv
  <2>1. run' = NoRun /\ UNCHANGED <<row, hits, reasons, lastRun, now, seq, pending, copy, mark, lastSync, late>>
    BY <1>2 DEF EndRun, clientVars
  <2>2. RetentionTypeOK'
    BY <2>1 DEF RetentionTypeOK, NoRun
  <2>3. Deadlines'
    BY <1>2, <2>1 DEF Deadlines, NoRun
  <2>4. Numbered' /\ Drawn' /\ LateDeletions' /\ Copies' /\ Recent'
    BY <2>1 DEF Numbered, Drawn, LateDeletions, Unfetched, Copies, CopyKnown, Recent, SinceRun
  <2> QED BY <2>2, <2>3, <2>4
<1> QED BY <1>1, <1>2

\* After a sync every change of the wanted triple is at or below the watermark.
LEMMA SyncInv == ASSUME RetentionInv, Sync PROVE RetentionInv'
<1> USE DEF RetentionInv
<1>1. PICK V : V = Served
  OBVIOUS
<1>2. V \subseteq Ids /\ \A i \in Ids : i \in V <=> /\ row[i].status \in {"active", "deleted"}
                                                /\ row[i].triple = Wanted /\ row[i].seq > mark
  BY <1>1 DEF Served
<1>3. PICK T : T = {row[i].seq : i \in V}
  OBVIOUS
<1>4. \A i \in Ids : row[i].seq \in Nat /\ row[i].seq <= seq
  BY DEF RetentionTypeOK, Row, Numbered
<1>5. PICK m : m = IF V = {} THEN mark ELSE CHOOSE n \in T : \A i \in V : row[i].seq <= n
  OBVIOUS
<1>6. copy' = (copy \ V) \cup {i \in V : row[i].status = "active"} /\ mark' = m /\ lastSync' = now
      /\ late' = late \cup {p.seq : p \in {p \in pending : p.seq <= m}}
      /\ UNCHANGED <<now, row, seq, hits, reasons, pending, run, lastRun>>
  BY <1>1, <1>3, <1>5 DEF Sync, toolVars
<1>7. m \in Nat /\ m <= seq /\ mark <= m /\ \A i \in V : row[i].seq <= m
  <2>1. CASE V = {}
    BY <1>5, <2>1 DEF RetentionTypeOK, Numbered
  <2>2. CASE V # {}
    <3>1. T \subseteq Nat /\ T # {} /\ (\A n \in T : n <= seq) /\ seq \in Nat
      BY <1>2, <1>3, <1>4, <2>2 DEF RetentionTypeOK
    <3>2. PICK n \in T : \A k \in T : k <= n
      BY <3>1, GreatestNumber
    <3>3. m \in T /\ \A i \in V : row[i].seq <= m
      <4>1. \A i \in V : row[i].seq <= n
        BY <1>3, <3>2
      <4>2. m = CHOOSE k \in T : \A i \in V : row[i].seq <= k
        BY <1>5, <2>2
      <4> QED BY <4>1, <4>2
    <3>4. mark <= m
      <4>1. PICK i \in V : row[i].seq = m
        BY <1>3, <3>3
      <4> QED BY <1>2, <1>4, <4>1 DEF RetentionTypeOK
    <3> QED BY <3>1, <3>3, <3>4
  <2> QED BY <2>1, <2>2
<1>8. RetentionTypeOK'
  <2>1. \A p \in pending : p.seq \in Nat
    BY DEF RetentionTypeOK, Call
  <2>2. late' \in SUBSET Nat
    BY <1>6, <2>1 DEF RetentionTypeOK
  <2> QED BY <1>2, <1>6, <1>7, <2>2 DEF RetentionTypeOK
<1>9. Deadlines'
  BY <1>6, RetentionAssumption DEF Deadlines, RetentionTypeOK, Accepted
<1>10. Numbered' /\ Drawn'
  <2>1. ASSUME NEW p \in pending PROVE p.seq > m \/ p.seq \in late'
    <3>1. p.seq \in Nat
      BY DEF RetentionTypeOK, Call
    <3> QED BY <1>6, <1>7, <3>1
  <2> QED BY <1>6, <1>7, <2>1 DEF Numbered, Drawn
<1>11. ASSUME NEW i \in Ids, row[i].status = "deleted", row[i].triple = Wanted PROVE ~ (row[i].seq > m)
  <2>1. CASE i \in V
    BY <1>4, <1>7, <2>1
  <2>2. CASE i \notin V
    <3>1. ~ (row[i].seq > mark)
      BY <1>2, <1>11, <2>2
    <3> QED BY <1>4, <1>7, <3>1 DEF RetentionTypeOK
  <2> QED BY <2>1, <2>2
<1>12. LateDeletions'
  BY <1>6, <1>11 DEF LateDeletions, Unfetched
<1>13. Copies'
  <2> SUFFICES ASSUME Offline + MaxDelay <= TombstoneDays, NEW i \in copy', row[i].triple = Wanted
               PROVE  row[i].status = "active" \/ row[i].seq \in late'
    BY <1>6 DEF Copies, CopyKnown
  <2>1. CASE i \in V
    BY <1>6, <2>1
  <2>2. CASE i \in copy \ V
    <3>1. i \in Ids /\ CopyKnown(i)
      BY <2>2 DEF RetentionTypeOK, Copies
    <3>2. ~ Unfetched(i)
      BY <1>2, <2>2, <3>1 DEF Unfetched
    <3> QED BY <1>6, <3>1, <3>2 DEF CopyKnown
  <2> QED BY <1>6, <2>1, <2>2
<1>14. Recent'
  BY <1>6 DEF Recent, SinceRun
<1> QED BY <1>8, <1>9, <1>10, <1>12, <1>13, <1>14

LEMMA TickInv == ASSUME RetentionInv, Tick PROVE RetentionInv'
<1> USE DEF RetentionInv
<1>1. PICK x \in Nat : x = now
  BY DEF RetentionTypeOK
<1>2. /\ \A p \in pending : x - p.stamp < MaxDelay
      /\ run # NoRun => x - run.at < MaxDelay
      /\ x - (IF run.apply THEN run.at ELSE lastRun) < Every
      /\ x - lastSync < Offline
      /\ now' = x + 1
      /\ UNCHANGED <<row, seq, hits, reasons, pending, run, lastRun, copy, mark, lastSync, late>>
  BY <1>1 DEF Tick, toolVars, clientVars
<1>3. RetentionTypeOK'
  BY <1>1, <1>2 DEF RetentionTypeOK
<1>4. lastSync \in Nat /\ lastRun \in Nat /\ \A p \in pending : p.stamp \in Nat
  BY DEF RetentionTypeOK, Call
<1>5. lastSync <= x + 1 /\ x + 1 <= lastSync + Offline /\ lastRun <= x + 1
  BY <1>1, <1>2, <1>4, RetentionAssumption DEF Deadlines
<1>6. \A p \in pending : p.stamp <= x + 1 /\ x + 1 <= p.stamp + MaxDelay
  BY <1>1, <1>2, <1>4, RetentionAssumption DEF Deadlines
<1>7. run # NoRun => run.at \in Nat /\ run.at <= x + 1 /\ x + 1 <= run.at + MaxDelay /\ lastRun <= run.at /\ Accepted
  BY <1>1, <1>2, <1>4, RetentionAssumption DEF Deadlines
<1>8. run.apply => run.at <= lastRun + Every /\ x + 1 <= run.at + Every
  <2> SUFFICES ASSUME run.apply PROVE run.at <= lastRun + Every /\ x + 1 <= run.at + Every
    OBVIOUS
  <2>1. run # NoRun
    BY DEF NoRun
  <2>2. x - run.at < Every
    BY <1>2
  <2> QED BY <1>1, <1>7, <2>1, <2>2, RetentionAssumption DEF Deadlines
<1>9. ~ run.apply => x + 1 <= lastRun + Every
  BY <1>1, <1>2, <1>4, RetentionAssumption
<1>10. Deadlines'
  BY <1>2, <1>5, <1>6, <1>7, <1>8, <1>9 DEF Deadlines, Accepted
<1>11. Numbered' /\ Drawn' /\ LateDeletions' /\ Copies' /\ Recent'
  BY <1>2 DEF Numbered, Drawn, LateDeletions, Unfetched, Copies, CopyKnown, Recent, SinceRun
<1> QED BY <1>3, <1>10, <1>11

LEMMA StutterInv == ASSUME RetentionInv, UNCHANGED vars PROVE RetentionInv'
<1> USE DEF RetentionInv, vars
<1>1. RetentionTypeOK' /\ Deadlines'
  BY DEF RetentionTypeOK, Deadlines, Accepted
<1>2. Numbered' /\ Drawn' /\ LateDeletions' /\ Copies' /\ Recent'
  BY DEF Numbered, Drawn, LateDeletions, Unfetched, Copies, CopyKnown, Recent, SinceRun
<1> QED BY <1>1, <1>2

LEMMA NextInv == RetentionInv /\ [Next]_vars => RetentionInv'
BY DrawInv, FinishInv, AuditInv, StartRunInv, EndRunInv, SyncInv, TickInv, StutterInv DEF Next

LEMMA RetentionAlways == Spec => []RetentionInv
BY InitInv, NextInv, PTL DEF Spec

-----------------------------------------------------------------------------
(* The properties.                                                         *)

\* The type of the state: the tool's pure-delete statements and the client's sync
\* keep rows, stamps and the watermark well formed.
THEOREM RetentionTypes == Spec => []RetentionTypeOK
<1>1. RetentionInv => RetentionTypeOK
  BY DEF RetentionInv
<1> QED BY <1>1, RetentionAlways, PTL

\* A client that syncs within the tombstone window, less the delay of a call, is told
\* of every deletion before apply_retention() deletes the tombstone.  Excepted are a
\* deletion whose number a sync went past while soft_delete() was not committed, and
\* rows that were revived under a triple the client does not ask for.
THEOREM DeletionsReachClients == Spec => []RetiredCopiesGone
<1>1. RetentionInv => RetiredCopiesGone
  <2> SUFFICES ASSUME RetentionInv, Offline + MaxDelay <= TombstoneDays,
                      NEW i \in copy, row[i].triple = Wanted
               PROVE  \/ row[i].status = "active"
                      \/ row[i].status = "deleted" /\ i \in Served
                      \/ row[i].seq \in late
    BY DEF RetiredCopiesGone
  <2>1. i \in Ids /\ CopyKnown(i)
    BY DEF RetentionInv, RetentionTypeOK, Copies
  <2> QED BY <2>1 DEF CopyKnown, Unfetched, Served
<1> QED BY <1>1, RetentionAlways, PTL

\* With the tool applied every Every ticks, no hit, flag reason, source field of a
\* tombstone or tombstone outlives its period by more than the schedule allows.
THEOREM AgesBounded == Spec => []Minimised
<1>1. RetentionInv => Minimised
  <2> SUFFICES ASSUME RetentionInv PROVE Minimised
    OBVIOUS
  <2>1. now <= lastRun + Every + MaxDelay
    <3>1. now \in Nat /\ lastRun \in Nat
      BY DEF RetentionInv, RetentionTypeOK
    <3>2. CASE run.apply
      <4>1. run # NoRun
        BY <3>2 DEF NoRun
      <4>2. run.at \in Nat /\ now <= run.at + MaxDelay /\ run.at <= lastRun + Every
        BY <3>2, <4>1 DEF RetentionInv, Deadlines
      <4> QED BY <3>1, <4>2, RetentionAssumption
    <3>3. CASE ~ run.apply
      <4>1. now <= lastRun + Every
        BY <3>3 DEF RetentionInv, Deadlines
      <4> QED BY <3>1, <4>1, RetentionAssumption
    <3> QED BY <3>2, <3>3
  <2>2. ASSUME NEW s \in Nat, NEW d \in Int, SinceRun(s, d) PROVE ~ Overdue(s, d)
    <3>1. now \in Nat /\ lastRun \in Nat /\ lastRun <= s + AtLeastDelay(d)
      BY <2>2 DEF RetentionInv, RetentionTypeOK, SinceRun
    <3> QED BY <2>1, <3>1, Days, RetentionAssumption DEF Overdue
  <2>3. /\ \A h \in hits : h[2] \in Nat
        /\ \A r \in reasons : r[2] \in Nat
        /\ \A i \in Ids : row[i].updated \in Nat
    BY DEF RetentionInv, RetentionTypeOK, Row
  <2>4. \A h \in hits : ~ Overdue(h[2], HitDays)
    BY <2>2, <2>3, RetentionAssumption DEF RetentionInv, Recent
  <2>5. \A r \in reasons : ~ Overdue(r[2], FlagReasonDays)
    BY <2>2, <2>3, RetentionAssumption DEF RetentionInv, Recent
  <2>6. ASSUME NEW i \in Ids, row[i].status = "deleted"
        PROVE  /\ row[i].meta => ~ Overdue(row[i].updated, TombstoneMetadataDays)
               /\ ~ Overdue(row[i].updated, TombstoneDays)
    <3>1. /\ row[i].meta => SinceRun(row[i].updated, TombstoneMetadataDays)
          /\ SinceRun(row[i].updated, TombstoneDays)
      BY <2>6 DEF RetentionInv, Recent
    <3> QED BY <2>2, <2>3, <3>1, RetentionAssumption
  <2> QED BY <2>4, <2>5, <2>6 DEF Minimised
<1> QED BY <1>1, RetentionAlways, PTL
=============================================================================
