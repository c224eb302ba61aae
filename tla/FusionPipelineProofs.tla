------------------------- MODULE FusionPipelineProofs -------------------------
(***************************************************************************)
(* Proofs about FusionScoring, for all scores, and about FusionPipeline,   *)
(* for any readings, cells, messages and concurrent invocations.           *)
(***************************************************************************)
EXTENDS FusionPipeline, TLAPS

(***************************************************************************)
(* What the scorers promise of a score, and fuse_scores of a probability:  *)
(* neither exceeds one, both may be negative when a sensor reports a       *)
(* negative quantity; evidence of two modalities above 0.58; and no loss   *)
(* from stronger evidence.                                                 *)
(***************************************************************************)

LEMMA OneIsPositive == One \in Int /\ 0 < One
  BY SMT DEF One

\* The ranges of three scores scaled and summed, and of the rounding.
LEMMA BaseRange ==
    ASSUME NEW radar \in Score, NEW thermal \in Score, NEW acoustic \in Score
    PROVE  /\ 4 * radar + 3 * thermal + 3 * acoustic \in Int
           /\ 4 * radar + 3 * thermal + 3 * acoustic <= 10000000
  <1>1. /\ radar \in Int /\ thermal \in Int /\ acoustic \in Int
        /\ radar <= 1000000 /\ thermal <= 1000000 /\ acoustic <= 1000000
    BY DEF Score, One
  <1> QED
    BY <1>1

LEMMA RoundedRange ==
    ASSUME NEW total \in Int, total <= 1000000000
    PROVE  /\ (total + 500000) \div 1000000 \in Int
           /\ (total + 500000) \div 1000000 <= 1000
           /\ 0 <= total => 0 <= (total + 500000) \div 1000000
  BY SMTT(30)

\* The weighted sum of scores is at most one, in the units of FuseScores.
LEMMA WeightedRange ==
    ASSUME NEW radar \in Score, NEW thermal \in Score, NEW acoustic \in Score,
           NEW starlink \in Score
    PROVE  /\ Weighted(radar, thermal, acoustic, starlink) \in Int
           /\ Weighted(radar, thermal, acoustic, starlink) <= 1000000000
  <1> DEFINE base == 4 * radar + 3 * thermal + 3 * acoustic
  <1>1. base \in Int /\ base <= 10000000
    BY BaseRange
  <1>2. starlink \in Int /\ starlink <= 1000000
    BY DEF Score, One
  <1>3. Weighted(radar, thermal, acoustic, starlink) =
            IF starlink > 0 THEN 85 * base + 150 * starlink ELSE 100 * base
    BY DEF Weighted
  <1> HIDE DEF base
  <1> QED
    BY <1>1, <1>2, <1>3

LEMMA BonusRange ==
    ASSUME NEW radar \in Score, NEW thermal \in Score, NEW acoustic \in Score,
           NEW starlink \in Score
    PROVE  /\ ActiveCount(radar, thermal, acoustic, starlink) \in 0 .. 4
           /\ Bonus(ActiveCount(radar, thermal, acoustic, starlink)) \in Int
           /\ 0 <= Bonus(ActiveCount(radar, thermal, acoustic, starlink))
           /\ ActiveCount(radar, thermal, acoustic, starlink) <= 1 =>
                Bonus(ActiveCount(radar, thermal, acoustic, starlink)) = 0
  <1>1. ActiveCount(radar, thermal, acoustic, starlink) \in 0 .. 4
    BY DEF ActiveCount, Active, Score
  <1>2. ASSUME NEW count \in 0 .. 4
        PROVE  Bonus(count) \in Int /\ 0 <= Bonus(count) /\ (count <= 1 => Bonus(count) = 0)
    <2>1. Bonus(count) = IF count = 2 THEN 100000 ELSE IF count = 3 THEN 200000
                         ELSE IF count = 4 THEN 250000 ELSE 0
      BY DEF Bonus
    <2> QED
      BY <2>1
  <1> QED
    BY ONLY <1>1, <1>2

\* The Starlink and the cell tower scorer return fractions of one whatever a
\* sensor reports.  The radar, thermal and acoustic ones cap the score above
\* only: it is negative when an amplitude, a size or a likelihood is.
THEOREM ScorersStayBelowOne ==
    ASSUME NEW flag \in BOOLEAN, NEW a \in Int, NEW b \in Int, NEW c \in Int
    PROVE  /\ ScoreRadar(flag, a, b, c) \in Score
           /\ ScoreThermal(a, b) \in Score
           /\ ScoreAcoustic(flag, a, b) \in Score
           /\ ScoreCelltower(a) \in Score /\ 0 <= ScoreCelltower(a)
           /\ ScoreStarlink(a, b, flag) \in Score /\ 0 <= ScoreStarlink(a, b, flag)
  <1>1. ASSUME NEW n \in Int
        PROVE  Least(n, One) \in Score
    BY OneIsPositive DEF Least, Score
  <1>2. 0 \in Score
    BY OneIsPositive DEF Score
  <1>3. ScoreRadar(flag, a, b, c) \in Score
    BY <1>1, <1>2 DEF ScoreRadar, Least
  <1>4. ScoreThermal(a, b) \in Score
    BY <1>1, <1>2 DEF ScoreThermal, Least
  <1>5. ScoreAcoustic(flag, a, b) \in Score
    BY <1>1, <1>2 DEF ScoreAcoustic
  <1>6. ScoreCelltower(a) \in Score /\ 0 <= ScoreCelltower(a)
    BY DEF ScoreCelltower, Score, One
  <1>7. ScoreStarlink(a, b, flag) \in Score /\ 0 <= ScoreStarlink(a, b, flag)
    <2> DEFINE elevation_part == IF a >= 40 THEN 350000 ELSE IF a >= 20 THEN 200000
                                 ELSE IF a >= 10 THEN 100000 ELSE 0
               quality_part == IF b > 0 THEN 2500 * Least(b, 100) ELSE 0
               score == 350000 + elevation_part + quality_part + (IF flag THEN 50000 ELSE 0)
    <2>1. elevation_part \in Int /\ 0 <= elevation_part
      OBVIOUS
    <2>2. quality_part \in Int /\ 0 <= quality_part
      BY DEF Least
    <2>3. ScoreStarlink(a, b, flag) = 1000 * ((Least(score, One) + 500) \div 1000)
      BY DEF ScoreStarlink
    <2> HIDE DEF elevation_part, quality_part
    <2>4. score \in Int /\ 0 <= score
      BY <2>1, <2>2
    <2> HIDE DEF score
    <2>5. Least(score, One) \in Int /\ 0 <= Least(score, One) /\ Least(score, One) <= 1000000
      BY <2>4 DEF Least, One
    <2>6. ASSUME NEW n \in Int, 0 <= n, n <= 1000000
          PROVE  /\ 1000 * ((n + 500) \div 1000) \in Int
                 /\ 0 <= 1000 * ((n + 500) \div 1000)
                 /\ 1000 * ((n + 500) \div 1000) <= 1000000
      BY ONLY <2>6, SMTT(30)
    <2> QED
      BY <2>3, <2>5, <2>6 DEF One, Score
  <1> QED
    BY <1>3, <1>4, <1>5, <1>6, <1>7

\* For all scores the scorers can return, fuse_scores never exceeds one; and
\* where none of them is negative it returns a probability.
THEOREM FusedIsProbability ==
    ASSUME NEW radar \in Score, NEW thermal \in Score, NEW acoustic \in Score,
           NEW starlink \in Score
    PROVE  /\ FuseScores(radar, thermal, acoustic, starlink) \in Int
           /\ FuseScores(radar, thermal, acoustic, starlink) <= 1000
           /\ 0 <= radar /\ 0 <= thermal /\ 0 <= acoustic =>
                0 <= FuseScores(radar, thermal, acoustic, starlink)
  <1> DEFINE base == 4 * radar + 3 * thermal + 3 * acoustic
             weighted == Weighted(radar, thermal, acoustic, starlink)
             bonus == Bonus(ActiveCount(radar, thermal, acoustic, starlink))
             total == Least(weighted + 1000 * bonus, 1000 * One)
             positive == 0 <= radar /\ 0 <= thermal /\ 0 <= acoustic
  <1>1. weighted \in Int /\ bonus \in Int /\ 0 <= bonus
    BY WeightedRange, BonusRange
  <1>2. positive => 0 <= weighted
    <2>1. starlink \in Int /\ base \in Int /\ (positive => 0 <= base)
      BY DEF Score
    <2>2. weighted = IF starlink > 0 THEN 85 * base + 150 * starlink ELSE 100 * base
      BY DEF Weighted
    <2> HIDE DEF base, weighted, positive
    <2> QED
      BY <2>1, <2>2
  <1>3. FuseScores(radar, thermal, acoustic, starlink) = (total + 500000) \div 1000000
    BY DEF FuseScores
  <1> HIDE DEF weighted, bonus, positive
  <1>4. total \in Int /\ total <= 1000000000 /\ (positive => 0 <= total)
    BY <1>1, <1>2 DEF Least, One
  <1> HIDE DEF total
  <1>5. /\ (total + 500000) \div 1000000 \in Int
        /\ (total + 500000) \div 1000000 <= 1000
        /\ positive => 0 <= (total + 500000) \div 1000000
    BY <1>4, RoundedRange
  <1> QED
    BY <1>3, <1>5 DEF positive

\* A fused probability above 0.58 needs two modalities above 0.3: one alone,
\* even at full score, cannot reach an alert threshold of 0.75.
THEOREM HighProbabilityIsCorroborated ==
    ASSUME NEW radar \in Score, NEW thermal \in Score, NEW acoustic \in Score,
           NEW starlink \in Score,
           FuseScores(radar, thermal, acoustic, starlink) > 580
    PROVE  ActiveCount(radar, thermal, acoustic, starlink) >= 2
  <1> DEFINE base == 4 * radar + 3 * thermal + 3 * acoustic
             weighted == Weighted(radar, thermal, acoustic, starlink)
             count == ActiveCount(radar, thermal, acoustic, starlink)
             bonus == Bonus(count)
  <1> SUFFICES ASSUME count <= 1
               PROVE  FALSE
    <2>1. count \in 0 .. 4
      BY BonusRange
    <2> QED
      BY <2>1
  <1>1. bonus = 0
    BY BonusRange
  <1>2. /\ radar \in Int /\ thermal \in Int /\ acoustic \in Int /\ starlink \in Int
        /\ radar <= 1000000 /\ thermal <= 1000000 /\ acoustic <= 1000000
        /\ starlink <= 1000000
    BY DEF Score, One
  <1>3. base \in Int /\ base <= 5800000 /\ (starlink > 300000 => base <= 3000000)
    BY <1>2 DEF ActiveCount, Active
  <1>4. weighted = IF starlink > 0 THEN 85 * base + 150 * starlink ELSE 100 * base
    BY DEF Weighted
  <1>5. FuseScores(radar, thermal, acoustic, starlink) =
            (Least(weighted + 1000 * bonus, 1000 * One) + 500000) \div 1000000
    BY DEF FuseScores
  <1> HIDE DEF base, weighted, bonus
  <1>6. weighted \in Int /\ weighted <= 580000000
    BY <1>2, <1>3, <1>4
  <1>7. FuseScores(radar, thermal, acoustic, starlink) = (weighted + 500000) \div 1000000
    BY <1>1, <1>5, <1>6 DEF Least, One
  <1> QED
    BY <1>6, <1>7

\* Each score counts as active no later than a stronger one, and more active
\* modalities earn no smaller a bonus.
LEMMA ActiveMonotone ==
    ASSUME NEW weak \in Int, NEW strong \in Int, weak <= strong
    PROVE  Active(weak) \in {0, 1} /\ Active(strong) \in {0, 1} /\ Active(weak) <= Active(strong)
  BY DEF Active

LEMMA BonusMonotone ==
    ASSUME NEW few \in 0 .. 4, NEW many \in 0 .. 4, few <= many
    PROVE  Bonus(few) \in Int /\ Bonus(many) \in Int /\ Bonus(few) <= Bonus(many)
  BY DEF Bonus

LEMMA RoundedMonotone ==
    ASSUME NEW low \in Int, NEW high \in Int, low <= high
    PROVE  (Least(low, 1000 * One) + 500000) \div 1000000
             <= (Least(high, 1000 * One) + 500000) \div 1000000
  <1>1. /\ Least(low, 1000 * One) \in Int /\ Least(high, 1000 * One) \in Int
        /\ Least(low, 1000 * One) <= Least(high, 1000 * One)
    BY DEF Least, One
  <1>2. ASSUME NEW a \in Int, NEW b \in Int, a <= b
        PROVE  (a + 500000) \div 1000000 <= (b + 500000) \div 1000000
    BY ONLY SMTT(30), <1>2
  <1> QED
    BY ONLY <1>1, <1>2

\* A stronger radar, thermal or acoustic score never lowers the probability.
THEOREM StrongerEvidenceNeverLowers ==
    ASSUME NEW radar \in Score, NEW thermal \in Score, NEW acoustic \in Score,
           NEW starlink \in Score,
           NEW radar2 \in Score, NEW thermal2 \in Score, NEW acoustic2 \in Score,
           radar <= radar2, thermal <= thermal2, acoustic <= acoustic2
    PROVE  FuseScores(radar, thermal, acoustic, starlink)
             <= FuseScores(radar2, thermal2, acoustic2, starlink)
  <1> DEFINE base == 4 * radar + 3 * thermal + 3 * acoustic
             base2 == 4 * radar2 + 3 * thermal2 + 3 * acoustic2
             weighted == Weighted(radar, thermal, acoustic, starlink)
             weighted2 == Weighted(radar2, thermal2, acoustic2, starlink)
             count == ActiveCount(radar, thermal, acoustic, starlink)
             count2 == ActiveCount(radar2, thermal2, acoustic2, starlink)
             total == weighted + 1000 * Bonus(count)
             total2 == weighted2 + 1000 * Bonus(count2)
  <1>0. /\ radar \in Int /\ thermal \in Int /\ acoustic \in Int /\ starlink \in Int
        /\ radar2 \in Int /\ thermal2 \in Int /\ acoustic2 \in Int
    BY DEF Score
  <1>1. weighted \in Int /\ weighted2 \in Int /\ weighted <= weighted2
    <2>1. base \in Int /\ base2 \in Int /\ base <= base2
      BY <1>0
    <2>2. /\ weighted = IF starlink > 0 THEN 85 * base + 150 * starlink ELSE 100 * base
          /\ weighted2 = IF starlink > 0 THEN 85 * base2 + 150 * starlink ELSE 100 * base2
      BY DEF Weighted
    <2> HIDE DEF base, base2, weighted, weighted2
    <2> QED
      BY <2>1, <2>2, <1>0
  <1>2. count \in 0 .. 4 /\ count2 \in 0 .. 4 /\ count <= count2
    <2>1. /\ Active(radar) \in {0, 1} /\ Active(radar2) \in {0, 1}
          /\ Active(radar) <= Active(radar2)
      BY <1>0, ActiveMonotone
    <2>2. /\ Active(thermal) \in {0, 1} /\ Active(thermal2) \in {0, 1}
          /\ Active(thermal) <= Active(thermal2)
      BY <1>0, ActiveMonotone
    <2>3. /\ Active(acoustic) \in {0, 1} /\ Active(acoustic2) \in {0, 1}
          /\ Active(acoustic) <= Active(acoustic2)
      BY <1>0, ActiveMonotone
    <2>4. Active(starlink) \in {0, 1}
      BY <1>0, ActiveMonotone
    <2> QED
      BY <2>1, <2>2, <2>3, <2>4 DEF ActiveCount
  <1>3. /\ FuseScores(radar, thermal, acoustic, starlink) =
                (Least(total, 1000 * One) + 500000) \div 1000000
        /\ FuseScores(radar2, thermal2, acoustic2, starlink) =
                (Least(total2, 1000 * One) + 500000) \div 1000000
    BY DEF FuseScores
  <1> HIDE DEF weighted, weighted2, count, count2
  <1>4. Bonus(count) \in Int /\ Bonus(count2) \in Int /\ Bonus(count) <= Bonus(count2)
    BY <1>2, BonusMonotone
  <1>5. total \in Int /\ total2 \in Int /\ total <= total2
    BY <1>1, <1>4
  <1> HIDE DEF total, total2
  <1> QED
    BY <1>3, <1>5, RoundedMonotone

-----------------------------------------------------------------------------
(***************************************************************************)
(* The pipeline.                                                           *)
(***************************************************************************)
USE PipelineAssumption

(***************************************************************************)
(* The shape of the reachable states: a message that left the unused pool  *)
(* has a body, an invocation works on messages of its own batch, and no    *)
(* two invocations hold one message (its visibility timeout).              *)
(***************************************************************************)
BodiesKnown == \A k \in Copies : place[k] # "unused" => body[k] \in Readings

BatchesHeld ==
    \A w \in Workers :
        /\ todo[w] \subseteq batch[w]
        /\ \A k \in batch[w] : place[k] = "held"
        /\ pc[w] = "idle" => batch[w] = {}
        /\ pc[w] \in {"put", "alert"} => current[w] \in batch[w]

BatchesDisjoint == \A v, w \in Workers : v # w => batch[v] \cap batch[w] = {}

Shape == TypeOK /\ BodiesKnown /\ BatchesHeld /\ BatchesDisjoint

LEMMA ScoresAreScores ==
    ASSUME NEW score \in [Modalities -> Score]
    PROVE  /\ score["radar"] \in Score /\ score["thermal"] \in Score
           /\ score["acoustic"] \in Score /\ score["starlink"] \in Score
  BY DEF Modalities

LEMMA FusedAtMostOne ==
    ASSUME NEW score \in [Modalities -> Score]
    PROVE  Fused(score) \in {p \in Int : p <= 1000}
  BY ScoresAreScores, FusedIsProbability DEF Fused

\* The items of the pipeline: the one of an absent cell, and an updated one.
LEMMA NewItemOK == NewItem \in Item
  <1>1. 0 \in Score /\ 0 \in {p \in Int : p <= 1000}
    BY OneIsPositive DEF Score
  <1> QED
    BY <1>1 DEF NewItem, Item, Status

LEMMA UpdatedOK ==
    ASSUME NEW item \in Item, NEW r \in Readings
    PROVE  /\ Updated(item, r) \in Item
           /\ Updated(item, r).fused = Fused(Updated(item, r).score)
           /\ Updated(item, r).status = item.status
           /\ Updated(item, r).confirmed_by = item.confirmed_by
  <1> DEFINE score == [item.score EXCEPT ![ModalityOf[r]] = ScoreOf[r]]
  <1>1. score \in [Modalities -> Score]
    BY DEF Item
  <1>2. Fused(score) \in {p \in Int : p <= 1000}
    BY <1>1, FusedAtMostOne
  <1>3. Updated(item, r) = [item EXCEPT !.exists = TRUE, !.score = score, !.fused = Fused(score)]
    BY DEF Updated
  <1> HIDE DEF score
  <1> QED
    BY <1>1, <1>2, <1>3 DEF Item

LEMMA StatusSetOK ==
    ASSUME NEW item \in Item, NEW status \in OperatorStatus, NEW by \in BOOLEAN
    PROVE  StatusSet(item, status, by) \in Item
  BY DEF StatusSet, Item

\* The reading at hand, and what a put stores, with or without an exception.
LEMMA AtPut ==
    ASSUME Shape, NEW w \in Workers, pc[w] \in {"put", "alert"}
    PROVE  /\ current[w] \in Copies /\ Reading(w) \in Readings
           /\ CellOf[Reading(w)] \in Cells /\ ModalityOf[Reading(w)] \in Modalities
  BY DEF Shape, TypeOK, BatchesHeld, BodiesKnown, Reading

LEMMA PutOK ==
    ASSUME Shape, NEW w \in Workers, pc[w] = "put", NEW raises \in BOOLEAN, Put(w, raises)
    PROVE  /\ table' \in [Cells -> Item] /\ past' \in [Cells -> SUBSET Item]
           /\ applied' \in SUBSET Readings /\ overwritten' \in SUBSET Cells
           /\ lastScore' \in [Cells -> [Modalities -> Score]]
           /\ unalerted' \in SUBSET Copies /\ interrupted' \in SUBSET Copies
  <1> DEFINE r == Reading(w)
             new == Updated(snapshot[w], r)
  <1>1. /\ current[w] \in Copies /\ r \in Readings
        /\ CellOf[r] \in Cells /\ ModalityOf[r] \in Modalities
    BY AtPut
  <1>2. new \in Item /\ ScoreOf[r] \in Score
    BY <1>1, UpdatedOK DEF Shape, TypeOK
  <1>3. /\ table' = [table EXCEPT ![CellOf[r]] = new]
        /\ past' = [past EXCEPT ![CellOf[r]] = past[CellOf[r]] \cup {table[CellOf[r]]}]
        /\ applied' = applied \cup {r}
        /\ overwritten' = overwritten \/ overwritten' = overwritten \cup {CellOf[r]}
        /\ lastScore' = [lastScore EXCEPT ![CellOf[r]][ModalityOf[r]] = ScoreOf[r]]
        /\ unalerted' \subseteq unalerted \cup {current[w]}
        /\ interrupted' \subseteq interrupted \cup {current[w]}
    BY DEF Put
  <1> HIDE DEF r, new
  <1> QED
    BY <1>1, <1>2, <1>3 DEF Shape, TypeOK

LEMMA RaisesOK ==
    ASSUME Shape, NEW w \in Workers, pc[w] = "put", Raises(w)
    PROVE  /\ table' \in [Cells -> Item] /\ past' \in [Cells -> SUBSET Item]
           /\ applied' \in SUBSET Readings /\ overwritten' \in SUBSET Cells
           /\ lastScore' \in [Cells -> [Modalities -> Score]]
           /\ unalerted' \in SUBSET Copies /\ interrupted' \in SUBSET Copies
  BY PutOK DEF Raises, Stored, Shape, TypeOK

LEMMA TypeOKStep == Shape /\ [Next]_vars => TypeOK'
  <1> SUFFICES ASSUME Shape, [Next]_vars
               PROVE  TypeOK'
    OBVIOUS
  <1> USE DEF Shape, TypeOK, Place, sqs, worker, written, history
  <1>1. ASSUME NEW k \in Copies, NEW r \in Readings, Ingest(k, r)
        PROVE  TypeOK'
    BY <1>1 DEF Ingest, Send
  <1>2. ASSUME NEW k \in Copies, Redrive(k)
        PROVE  TypeOK'
    BY <1>2 DEF Redrive
  <1>3. ASSUME NEW k \in Copies, ReplayReceive(k)
        PROVE  TypeOK'
    BY <1>3 DEF ReplayReceive
  <1>4. ASSUME NEW k \in Copies, NEW n \in Copies, ReplaySend(k, n)
        PROVE  TypeOK'
    BY <1>4 DEF ReplaySend, Send
  <1>5. ASSUME NEW k \in Copies, ReplayDelete(k)
        PROVE  TypeOK'
    BY <1>5 DEF ReplayDelete
  <1>6. ASSUME NEW k \in Copies, ReplayFails(k)
        PROVE  TypeOK'
    BY <1>6 DEF ReplayFails
  <1>7. ASSUME NEW w \in Workers, NEW B \in SUBSET Copies, Receive(w, B)
        PROVE  TypeOK'
    BY <1>7 DEF Receive
  <1>8. ASSUME NEW w \in Workers, NEW k \in Copies, Skip(w, k)
        PROVE  TypeOK'
    BY <1>8 DEF Skip, BatchesHeld, BodiesKnown
  <1>9. ASSUME NEW w \in Workers, NEW k \in Copies, HandlerRaises(w, k)
        PROVE  TypeOK'
    BY <1>9, NewItemOK DEF HandlerRaises, Release
  <1>10. ASSUME NEW w \in Workers, NEW k \in Copies, GetItem(w, k)
        PROVE  TypeOK'
    <2>1. CellOf[body[k]] \in Cells
      BY <1>10 DEF GetItem, BatchesHeld, BodiesKnown
    <2>2. \A item \in past[CellOf[body[k]]] \cup {table[CellOf[body[k]]]} : item \in Item
      BY <2>1
    <2> QED
      BY <1>10, <2>2 DEF GetItem
  <1>11. ASSUME NEW w \in Workers, PutItem(w)
        PROVE  TypeOK'
    <2>1. Updated(snapshot[w], Reading(w)) \in Item
      BY <1>11, AtPut, UpdatedOK DEF PutItem
    <2>2. pc[w] = "put" /\ Put(w, FALSE)
      BY <1>11 DEF PutItem
    <2> QED
      BY <1>11, <2>1, <2>2, PutOK, NewItemOK DEF PutItem
  <1>12. ASSUME NEW w \in Workers, PublishAlert(w)
        PROVE  TypeOK'
    <2>1. snapshot[w].score \in [Modalities -> Score]
      BY DEF Item
    <2>2. Reading(w) \in Readings
      BY <1>12 DEF PublishAlert, Reading, BatchesHeld, BodiesKnown
    <2>3. CellOf[Reading(w)] \in Cells
      BY <2>2
    <2> QED
      BY <1>12, <2>1, <2>3, NewItemOK DEF PublishAlert, NextRecord, BatchesHeld
  <1>13. ASSUME NEW w \in Workers, AlertFails(w)
        PROVE  TypeOK'
    BY <1>13, NewItemOK DEF AlertFails, NextRecord, Reading, BatchesHeld, BodiesKnown
  <1>14. ASSUME NEW w \in Workers, TransientError(w)
        PROVE  TypeOK'
    BY <1>14, RaisesOK, NewItemOK DEF TransientError, NextRecord
  <1>15. ASSUME NEW w \in Workers, OtherError(w)
        PROVE  TypeOK'
    BY <1>15, RaisesOK, AtPut, NewItemOK DEF OtherError, NextRecord
  <1>16. ASSUME NEW w \in Workers, Finish(w)
        PROVE  TypeOK'
    BY <1>16, NewItemOK DEF Finish, Release
  <1>17. ASSUME NEW w \in Workers, Kill(w)
        PROVE  TypeOK'
    BY <1>17, NewItemOK DEF Kill, Release, BatchesHeld
  <1>18. ASSUME NEW c \in Cells, NEW status \in OperatorStatus,
               NEW by \in BOOLEAN, UpdateStatus(c, status, by)
        PROVE  TypeOK'
    <2>1. StatusSet(table[c], status, by) \in Item
      BY StatusSetOK
    <2> QED
      BY <1>18, <2>1 DEF UpdateStatus
  <1>19. CASE UNCHANGED vars
    BY <1>19 DEF vars, sqs, worker, written, history
  <1> QED
    BY <1>1, <1>2, <1>3, <1>4, <1>5, <1>6, <1>7, <1>8, <1>9, <1>10, <1>11, <1>12, <1>13,
       <1>14, <1>15, <1>16, <1>17, <1>18, <1>19 DEF Next, WorkerStep, ReplayStep

LEMMA ShapeStep == Shape /\ [Next]_vars => Shape'
  <1> SUFFICES ASSUME Shape, [Next]_vars
               PROVE  (BodiesKnown /\ BatchesHeld /\ BatchesDisjoint)'
    BY TypeOKStep DEF Shape
  <1> USE DEF Shape, TypeOK, BodiesKnown, BatchesHeld, BatchesDisjoint, sqs, worker, written,
              history
  <1>1. ASSUME NEW k \in Copies, NEW r \in Readings, Ingest(k, r)
        PROVE  (BodiesKnown /\ BatchesHeld /\ BatchesDisjoint)'
    BY <1>1 DEF Ingest, Send
  <1>2. ASSUME NEW k \in Copies, Redrive(k)
        PROVE  (BodiesKnown /\ BatchesHeld /\ BatchesDisjoint)'
    BY <1>2 DEF Redrive
  <1>3. ASSUME NEW k \in Copies, ReplayReceive(k)
        PROVE  (BodiesKnown /\ BatchesHeld /\ BatchesDisjoint)'
    BY <1>3 DEF ReplayReceive
  <1>4. ASSUME NEW k \in Copies, NEW n \in Copies, ReplaySend(k, n)
        PROVE  (BodiesKnown /\ BatchesHeld /\ BatchesDisjoint)'
    BY <1>4 DEF ReplaySend, Send
  <1>5. ASSUME NEW k \in Copies, ReplayDelete(k)
        PROVE  (BodiesKnown /\ BatchesHeld /\ BatchesDisjoint)'
    BY <1>5 DEF ReplayDelete
  <1>6. ASSUME NEW k \in Copies, ReplayFails(k)
        PROVE  (BodiesKnown /\ BatchesHeld /\ BatchesDisjoint)'
    BY <1>6 DEF ReplayFails
  <1>7. ASSUME NEW w \in Workers, NEW B \in SUBSET Copies, Receive(w, B)
        PROVE  (BodiesKnown /\ BatchesHeld /\ BatchesDisjoint)'
    BY <1>7 DEF Receive
  <1>8. ASSUME NEW w \in Workers, NEW k \in Copies, Skip(w, k)
        PROVE  (BodiesKnown /\ BatchesHeld /\ BatchesDisjoint)'
    BY <1>8 DEF Skip
  <1>9. ASSUME NEW w \in Workers, NEW k \in Copies, HandlerRaises(w, k)
        PROVE  (BodiesKnown /\ BatchesHeld /\ BatchesDisjoint)'
    BY <1>9 DEF HandlerRaises, Release
  <1>10. ASSUME NEW w \in Workers, NEW k \in Copies, GetItem(w, k)
        PROVE  (BodiesKnown /\ BatchesHeld /\ BatchesDisjoint)'
    BY <1>10 DEF GetItem
  <1>11. ASSUME NEW w \in Workers, PutItem(w)
        PROVE  (BodiesKnown /\ BatchesHeld /\ BatchesDisjoint)'
    BY <1>11 DEF PutItem
  <1>12. ASSUME NEW w \in Workers, PublishAlert(w)
        PROVE  (BodiesKnown /\ BatchesHeld /\ BatchesDisjoint)'
    BY <1>12 DEF PublishAlert, NextRecord
  <1>13. ASSUME NEW w \in Workers, AlertFails(w)
        PROVE  (BodiesKnown /\ BatchesHeld /\ BatchesDisjoint)'
    BY <1>13 DEF AlertFails, NextRecord
  <1>14. ASSUME NEW w \in Workers, TransientError(w)
        PROVE  (BodiesKnown /\ BatchesHeld /\ BatchesDisjoint)'
    BY <1>14 DEF TransientError, NextRecord
  <1>15. ASSUME NEW w \in Workers, OtherError(w)
        PROVE  (BodiesKnown /\ BatchesHeld /\ BatchesDisjoint)'
    BY <1>15 DEF OtherError, NextRecord
  <1>16. ASSUME NEW w \in Workers, Finish(w)
        PROVE  (BodiesKnown /\ BatchesHeld /\ BatchesDisjoint)'
    BY <1>16 DEF Finish, Release
  <1>17. ASSUME NEW w \in Workers, Kill(w)
        PROVE  (BodiesKnown /\ BatchesHeld /\ BatchesDisjoint)'
    BY <1>17 DEF Kill, Release
  <1>18. ASSUME NEW c \in Cells, NEW status \in OperatorStatus,
               NEW by \in BOOLEAN, UpdateStatus(c, status, by)
        PROVE  (BodiesKnown /\ BatchesHeld /\ BatchesDisjoint)'
    BY <1>18 DEF UpdateStatus
  <1>19. CASE UNCHANGED vars
    BY <1>19 DEF vars, sqs, worker, written, history
  <1> QED
    BY <1>1, <1>2, <1>3, <1>4, <1>5, <1>6, <1>7, <1>8, <1>9, <1>10, <1>11, <1>12, <1>13,
       <1>14, <1>15, <1>16, <1>17, <1>18, <1>19 DEF Next, WorkerStep, ReplayStep
(***************************************************************************)
(* No reading is lost.  A message is deleted when the work on it is done   *)
(* (Handled), or when the replay has sent its copy; LiveOrDone does not    *)
(* count on the replayed original, which may vanish at any time.           *)
(***************************************************************************)
Handled ==
    \A w \in Workers : \A k \in batch[w] :
        \/ k \in todo[w]
        \/ pc[w] = "put" /\ current[w] = k
        \/ failed[w]
        \/ body[k] \in applied \cup dropped

LiveOrDone ==
    \A k \in Copies : body[k] \in Readings =>
        \/ body[k] \in applied \cup dropped
        \/ \E n \in Copies : /\ body[n] = body[k]
                             /\ place[n] \in {"queue", "held", "dlq", "replaying"}

LEMMA HandledStep == Shape /\ Handled /\ [Next]_vars => Handled'
  <1> SUFFICES ASSUME Shape, Handled, [Next]_vars
               PROVE  Handled'
    OBVIOUS
  <1> USE DEF Shape, TypeOK, Handled, BodiesKnown, BatchesHeld, BatchesDisjoint, sqs, worker,
              written, history
  <1>1. ASSUME NEW k \in Copies, NEW r \in Readings, Ingest(k, r)
        PROVE  Handled'
    BY <1>1 DEF Ingest, Send
  <1>2. ASSUME NEW k \in Copies, Redrive(k)
        PROVE  Handled'
    BY <1>2 DEF Redrive
  <1>3. ASSUME NEW k \in Copies, ReplayReceive(k)
        PROVE  Handled'
    BY <1>3 DEF ReplayReceive
  <1>4. ASSUME NEW k \in Copies, NEW n \in Copies, ReplaySend(k, n)
        PROVE  Handled'
    BY <1>4 DEF ReplaySend, Send
  <1>5. ASSUME NEW k \in Copies, ReplayDelete(k)
        PROVE  Handled'
    BY <1>5 DEF ReplayDelete
  <1>6. ASSUME NEW k \in Copies, ReplayFails(k)
        PROVE  Handled'
    BY <1>6 DEF ReplayFails
  <1>7. ASSUME NEW w \in Workers, NEW B \in SUBSET Copies, Receive(w, B)
        PROVE  Handled'
    BY <1>7 DEF Receive
  <1>8. ASSUME NEW w \in Workers, NEW k \in Copies, Skip(w, k)
        PROVE  Handled'
    BY <1>8 DEF Skip
  <1>9. ASSUME NEW w \in Workers, NEW k \in Copies, HandlerRaises(w, k)
        PROVE  Handled'
    BY <1>9 DEF HandlerRaises, Release
  <1>10. ASSUME NEW w \in Workers, NEW k \in Copies, GetItem(w, k)
        PROVE  Handled'
    BY <1>10 DEF GetItem
  <1>11. ASSUME NEW w \in Workers, PutItem(w)
        PROVE  Handled'
    BY <1>11 DEF PutItem, Put, Reading
  <1>12. ASSUME NEW w \in Workers, PublishAlert(w)
        PROVE  Handled'
    BY <1>12 DEF PublishAlert, NextRecord, Reading
  <1>13. ASSUME NEW w \in Workers, AlertFails(w)
        PROVE  Handled'
    BY <1>13 DEF AlertFails, NextRecord, Reading
  <1>14. ASSUME NEW w \in Workers, TransientError(w)
        PROVE  Handled'
    BY <1>14 DEF TransientError, NextRecord, Reading, Raises, Stored, Put
  <1>15. ASSUME NEW w \in Workers, OtherError(w)
        PROVE  Handled'
    BY <1>15 DEF OtherError, NextRecord, Reading, Raises, Stored, Put
  <1>16. ASSUME NEW w \in Workers, Finish(w)
        PROVE  Handled'
    BY <1>16 DEF Finish, Release
  <1>17. ASSUME NEW w \in Workers, Kill(w)
        PROVE  Handled'
    BY <1>17 DEF Kill, Release
  <1>18. ASSUME NEW c \in Cells, NEW status \in OperatorStatus,
               NEW by \in BOOLEAN, UpdateStatus(c, status, by)
        PROVE  Handled'
    BY <1>18 DEF UpdateStatus
  <1>19. CASE UNCHANGED vars
    BY <1>19 DEF vars, sqs, worker, written, history
  <1> HIDE DEF Shape, TypeOK, Handled, BodiesKnown, BatchesHeld, BatchesDisjoint, sqs, worker,
               written, history
  <1> QED
    BY <1>1, <1>2, <1>3, <1>4, <1>5, <1>6, <1>7, <1>8, <1>9, <1>10, <1>11, <1>12, <1>13,
       <1>14, <1>15, <1>16, <1>17, <1>18, <1>19 DEF Next, WorkerStep, ReplayStep

LEMMA LiveOrDoneStep == Shape /\ Handled /\ LiveOrDone /\ [Next]_vars => LiveOrDone'
  <1> SUFFICES ASSUME Shape, Handled, LiveOrDone, [Next]_vars
               PROVE  LiveOrDone'
    OBVIOUS
  <1> USE DEF Shape, TypeOK, LiveOrDone, BodiesKnown, BatchesHeld, BatchesDisjoint, sqs, worker,
              written, history
  <1>1. ASSUME NEW k \in Copies, NEW r \in Readings, Ingest(k, r)
        PROVE  LiveOrDone'
    BY <1>1 DEF Ingest, Send
  <1>2. ASSUME NEW k \in Copies, Redrive(k)
        PROVE  LiveOrDone'
    BY <1>2 DEF Redrive
  <1>3. ASSUME NEW k \in Copies, ReplayReceive(k)
        PROVE  LiveOrDone'
    BY <1>3 DEF ReplayReceive
  <1>4. ASSUME NEW k \in Copies, NEW n \in Copies, ReplaySend(k, n)
        PROVE  LiveOrDone'
    BY <1>4 DEF ReplaySend, Send
  <1>5. ASSUME NEW k \in Copies, ReplayDelete(k)
        PROVE  LiveOrDone'
    BY <1>5 DEF ReplayDelete
  <1>6. ASSUME NEW k \in Copies, ReplayFails(k)
        PROVE  LiveOrDone'
    BY <1>6 DEF ReplayFails
  <1>7. ASSUME NEW w \in Workers, NEW B \in SUBSET Copies, Receive(w, B)
        PROVE  LiveOrDone'
    BY <1>7 DEF Receive
  <1>8. ASSUME NEW w \in Workers, NEW k \in Copies, Skip(w, k)
        PROVE  LiveOrDone'
    BY <1>8 DEF Skip
  <1>9. ASSUME NEW w \in Workers, NEW k \in Copies, HandlerRaises(w, k)
        PROVE  LiveOrDone'
    BY <1>9 DEF HandlerRaises, Release
  <1>10. ASSUME NEW w \in Workers, NEW k \in Copies, GetItem(w, k)
        PROVE  LiveOrDone'
    BY <1>10 DEF GetItem
  <1>11. ASSUME NEW w \in Workers, PutItem(w)
        PROVE  LiveOrDone'
    BY <1>11 DEF PutItem, Put, Reading
  <1>12. ASSUME NEW w \in Workers, PublishAlert(w)
        PROVE  LiveOrDone'
    BY <1>12 DEF PublishAlert, NextRecord, Reading
  <1>13. ASSUME NEW w \in Workers, AlertFails(w)
        PROVE  LiveOrDone'
    BY <1>13 DEF AlertFails, NextRecord, Reading
  <1>14. ASSUME NEW w \in Workers, TransientError(w)
        PROVE  LiveOrDone'
    BY <1>14 DEF TransientError, NextRecord, Reading, Raises, Stored, Put
  <1>15. ASSUME NEW w \in Workers, OtherError(w)
        PROVE  LiveOrDone'
    BY <1>15 DEF OtherError, NextRecord, Reading, Raises, Stored, Put
  <1>16. ASSUME NEW w \in Workers, Finish(w)
        PROVE  LiveOrDone'
    <2>1. \A n \in batch[w] : failed[w] \/ body[n] \in applied \cup dropped
      BY <1>16 DEF Finish, Handled
    <2> QED
      BY <1>16, <2>1 DEF Finish, Release
  <1>17. ASSUME NEW w \in Workers, Kill(w)
        PROVE  LiveOrDone'
    BY <1>17 DEF Kill, Release
  <1>18. ASSUME NEW c \in Cells, NEW status \in OperatorStatus,
               NEW by \in BOOLEAN, UpdateStatus(c, status, by)
        PROVE  LiveOrDone'
    BY <1>18 DEF UpdateStatus
  <1>19. CASE UNCHANGED vars
    BY <1>19 DEF vars, sqs, worker, written, history
  <1> HIDE DEF Shape, TypeOK, LiveOrDone, BodiesKnown, BatchesHeld, BatchesDisjoint, sqs, worker,
               written, history
  <1> QED
    BY <1>1, <1>2, <1>3, <1>4, <1>5, <1>6, <1>7, <1>8, <1>9, <1>10, <1>11, <1>12, <1>13,
       <1>14, <1>15, <1>16, <1>17, <1>18, <1>19 DEF Next, WorkerStep, ReplayStep

(***************************************************************************)
(* Items are consistent in the table because they are in the snapshots,    *)
(* however old the item that was read is, and whatever happened to the     *)
(* table since.                                                            *)
(***************************************************************************)
ConsistentItem(item) ==
    /\ item.fused = Fused(item.score)
    /\ item.status = "confirmed" => item.confirmed_by

ItemsInv ==
    /\ \A c \in Cells : ConsistentItem(table[c])
    /\ \A c \in Cells : \A item \in past[c] : ConsistentItem(item)
    /\ \A w \in Workers : ConsistentItem(snapshot[w])

LEMMA NewItemConsistent == ConsistentItem(NewItem)
  <1>1. Fused(NewItem.score) = FuseScores(0, 0, 0, 0)
    BY DEF Fused, NewItem, Modalities
  <1>2. Weighted(0, 0, 0, 0) = 0 /\ ActiveCount(0, 0, 0, 0) = 0
    BY DEF Weighted, ActiveCount, Active
  <1>3. Bonus(0) = 0
    BY DEF Bonus
  <1>4. FuseScores(0, 0, 0, 0) = (Least(0, 1000 * One) + 500000) \div 1000000
    BY <1>2, <1>3 DEF FuseScores
  <1>5. FuseScores(0, 0, 0, 0) = 0
    BY <1>4, OneIsPositive, SMT DEF Least
  <1> QED
    BY <1>1, <1>5 DEF ConsistentItem, NewItem

LEMMA PutConsistent ==
    ASSUME Shape, ItemsInv, NEW w \in Workers, pc[w] = "put", NEW raises \in BOOLEAN,
           Put(w, raises)
    PROVE  /\ ConsistentItem(Updated(snapshot[w], Reading(w)))
           /\ \A c \in Cells : ConsistentItem(table'[c])
           /\ \A c \in Cells : \A item \in past'[c] : ConsistentItem(item)
  <1> DEFINE cell == CellOf[Reading(w)]
             new == Updated(snapshot[w], Reading(w))
  <1>1. Reading(w) \in Readings /\ cell \in Cells
    BY AtPut
  <1>2. snapshot[w] \in Item /\ ConsistentItem(snapshot[w])
    BY DEF Shape, TypeOK, ItemsInv
  <1>3. ConsistentItem(new)
    <2>1. /\ new.fused = Fused(new.score) /\ new.status = snapshot[w].status
          /\ new.confirmed_by = snapshot[w].confirmed_by
      BY <1>1, <1>2, UpdatedOK
    <2> HIDE DEF new
    <2> QED
      BY <1>2, <2>1 DEF ConsistentItem
  <1>4. /\ table' = [table EXCEPT ![cell] = new]
        /\ past' = [past EXCEPT ![cell] = past[cell] \cup {table[cell]}]
    BY DEF Put
  <1> HIDE DEF cell, new
  <1> QED
    BY <1>1, <1>3, <1>4 DEF new, Shape, TypeOK, ItemsInv

LEMMA ItemsStep == Shape /\ ItemsInv /\ [Next]_vars => ItemsInv'
  <1> SUFFICES ASSUME Shape, ItemsInv, [Next]_vars
               PROVE  ItemsInv'
    OBVIOUS
  <1> USE DEF Shape, ItemsInv, ConsistentItem
  <1>1. ASSUME NEW k \in Copies, NEW r \in Readings, Ingest(k, r)
        PROVE  ItemsInv'
    BY <1>1 DEF Ingest, Send, sqs, worker, written, history
  <1>2. ASSUME NEW k \in Copies, Redrive(k)
        PROVE  ItemsInv'
    BY <1>2 DEF Redrive, sqs, worker, written, history
  <1>3. ASSUME NEW k \in Copies, ReplayReceive(k)
        PROVE  ItemsInv'
    BY <1>3 DEF ReplayReceive, sqs, worker, written, history
  <1>4. ASSUME NEW k \in Copies, NEW n \in Copies, ReplaySend(k, n)
        PROVE  ItemsInv'
    BY <1>4 DEF ReplaySend, Send, sqs, worker, written, history
  <1>5. ASSUME NEW k \in Copies, ReplayDelete(k)
        PROVE  ItemsInv'
    BY <1>5 DEF ReplayDelete, sqs, worker, written, history
  <1>6. ASSUME NEW k \in Copies, ReplayFails(k)
        PROVE  ItemsInv'
    BY <1>6 DEF ReplayFails, sqs, worker, written, history
  <1>7. ASSUME NEW w \in Workers, NEW B \in SUBSET Copies, Receive(w, B)
        PROVE  ItemsInv'
    BY <1>7 DEF Receive, sqs, worker, written, history
  <1>8. ASSUME NEW w \in Workers, NEW k \in Copies, Skip(w, k)
        PROVE  ItemsInv'
    BY <1>8 DEF Skip, sqs, worker, written, history
  <1>9. ASSUME NEW w \in Workers, NEW k \in Copies, HandlerRaises(w, k)
        PROVE  ItemsInv'
    BY <1>9, NewItemConsistent DEF HandlerRaises, Release, TypeOK, written
  <1>10. ASSUME NEW w \in Workers, NEW k \in Copies, GetItem(w, k)
        PROVE  ItemsInv'
    <2>1. body[k] \in Readings
      BY <1>10 DEF GetItem, BodiesKnown, BatchesHeld
    <2>2. \A item \in past[CellOf[body[k]]] \cup {table[CellOf[body[k]]]} : ConsistentItem(item)
      BY <2>1 DEF TypeOK
    <2> HIDE DEF ConsistentItem
    <2> QED
      BY <1>10, <2>2 DEF GetItem, TypeOK, sqs, worker, written, history
  <1>11. ASSUME NEW w \in Workers, PutItem(w)
        PROVE  ItemsInv'
    <2> DEFINE new == Updated(snapshot[w], Reading(w))
    <2>1. pc[w] = "put" /\ Put(w, FALSE)
      BY <1>11 DEF PutItem
    <2>2. snapshot' = [snapshot EXCEPT ![w] = new] \/ snapshot' = [snapshot EXCEPT ![w] = NewItem]
      BY <1>11 DEF PutItem
    <2>3. ConsistentItem(new)
      BY <2>1, PutConsistent
    <2> HIDE DEF new, ConsistentItem
    <2> QED
      BY <2>1, <2>2, <2>3, PutConsistent, NewItemConsistent DEF TypeOK
  <1>12. ASSUME NEW w \in Workers, PublishAlert(w)
        PROVE  ItemsInv'
    BY <1>12, NewItemConsistent DEF PublishAlert, NextRecord, TypeOK, written
  <1>13. ASSUME NEW w \in Workers, AlertFails(w)
        PROVE  ItemsInv'
    BY <1>13, NewItemConsistent DEF AlertFails, NextRecord, TypeOK, written
  <1>14. ASSUME NEW w \in Workers, TransientError(w)
        PROVE  ItemsInv'
    <2>1. pc[w] = "put" /\ (UNCHANGED Stored \/ Put(w, TRUE))
      BY <1>14 DEF TransientError, Raises
    <2>2. /\ \A c \in Cells : ConsistentItem(table'[c])
          /\ \A c \in Cells : \A item \in past'[c] : ConsistentItem(item)
      <3> HIDE DEF ConsistentItem
      <3> QED
        BY <2>1, PutConsistent DEF Stored
    <2> HIDE DEF ConsistentItem
    <2> QED
      BY <1>14, <2>2, NewItemConsistent DEF TransientError, NextRecord, TypeOK
  <1>15. ASSUME NEW w \in Workers, OtherError(w)
        PROVE  ItemsInv'
    <2>1. pc[w] = "put" /\ (UNCHANGED Stored \/ Put(w, TRUE))
      BY <1>15 DEF OtherError, Raises
    <2>2. /\ \A c \in Cells : ConsistentItem(table'[c])
          /\ \A c \in Cells : \A item \in past'[c] : ConsistentItem(item)
      <3> HIDE DEF ConsistentItem
      <3> QED
        BY <2>1, PutConsistent DEF Stored
    <2> HIDE DEF ConsistentItem
    <2> QED
      BY <1>15, <2>2, NewItemConsistent DEF OtherError, NextRecord, TypeOK
  <1>16. ASSUME NEW w \in Workers, Finish(w)
        PROVE  ItemsInv'
    BY <1>16, NewItemConsistent DEF Finish, Release, TypeOK, written
  <1>17. ASSUME NEW w \in Workers, Kill(w)
        PROVE  ItemsInv'
    BY <1>17, NewItemConsistent DEF Kill, Release, TypeOK, written
  <1>18. ASSUME NEW c \in Cells, NEW status \in OperatorStatus,
               NEW by \in BOOLEAN, UpdateStatus(c, status, by)
        PROVE  ItemsInv'
    <2>1. ConsistentItem(StatusSet(table[c], status, by))
      BY <1>18 DEF UpdateStatus, StatusSet
    <2>2. /\ table' = [table EXCEPT ![c] = StatusSet(table[c], status, by)]
          /\ past' = [past EXCEPT ![c] = past[c] \cup {table[c]}] /\ snapshot' = snapshot
      BY <1>18 DEF UpdateStatus, worker
    <2> HIDE DEF ConsistentItem
    <2> QED
      BY <2>1, <2>2 DEF TypeOK
  <1>19. CASE UNCHANGED vars
    BY <1>19 DEF vars, sqs, worker, written, history
  <1> HIDE DEF Shape, ItemsInv, ConsistentItem
  <1> QED
    BY <1>1, <1>2, <1>3, <1>4, <1>5, <1>6, <1>7, <1>8, <1>9, <1>10, <1>11, <1>12, <1>13,
       <1>14, <1>15, <1>16, <1>17, <1>18, <1>19 DEF Next, WorkerStep, ReplayStep

(***************************************************************************)
(* Alerts: the snapshot of an invocation about to publish is above the     *)
(* threshold.  HighThreshold is what corroboration needs of the template's *)
(* HIGH_CONFIDENCE_THRESHOLD (0.75): one modality alone reaches 0.58.      *)
(***************************************************************************)
HighThreshold == Threshold > 580

AlertsInv ==
    /\ AlertsAreCorroborated
    /\ \A w \in Workers : pc[w] = "alert" => snapshot[w].fused >= Threshold

LEMMA AlertsStep == Shape /\ ItemsInv /\ HighThreshold /\ AlertsInv /\ [Next]_vars => AlertsInv'
  <1> SUFFICES ASSUME Shape, ItemsInv, HighThreshold, AlertsInv, [Next]_vars
               PROVE  AlertsInv'
    OBVIOUS
  <1> USE DEF Shape, TypeOK, AlertsInv, AlertsAreCorroborated, HighThreshold
  <1>1. ASSUME NEW k \in Copies, NEW r \in Readings, Ingest(k, r)
        PROVE  AlertsInv'
    BY <1>1 DEF Ingest, Send, sqs, worker, written, history
  <1>2. ASSUME NEW k \in Copies, Redrive(k)
        PROVE  AlertsInv'
    BY <1>2 DEF Redrive, sqs, worker, written, history
  <1>3. ASSUME NEW k \in Copies, ReplayReceive(k)
        PROVE  AlertsInv'
    BY <1>3 DEF ReplayReceive, sqs, worker, written, history
  <1>4. ASSUME NEW k \in Copies, NEW n \in Copies, ReplaySend(k, n)
        PROVE  AlertsInv'
    BY <1>4 DEF ReplaySend, Send, sqs, worker, written, history
  <1>5. ASSUME NEW k \in Copies, ReplayDelete(k)
        PROVE  AlertsInv'
    BY <1>5 DEF ReplayDelete, sqs, worker, written, history
  <1>6. ASSUME NEW k \in Copies, ReplayFails(k)
        PROVE  AlertsInv'
    BY <1>6 DEF ReplayFails, sqs, worker, written, history
  <1>7. ASSUME NEW w \in Workers, NEW B \in SUBSET Copies, Receive(w, B)
        PROVE  AlertsInv'
    BY <1>7 DEF Receive, sqs, worker, written, history
  <1>8. ASSUME NEW w \in Workers, NEW k \in Copies, Skip(w, k)
        PROVE  AlertsInv'
    BY <1>8 DEF Skip, sqs, worker, written, history
  <1>9. ASSUME NEW w \in Workers, NEW k \in Copies, HandlerRaises(w, k)
        PROVE  AlertsInv'
    BY <1>9 DEF HandlerRaises, Release
  <1>10. ASSUME NEW w \in Workers, NEW k \in Copies, GetItem(w, k)
        PROVE  AlertsInv'
    BY <1>10 DEF GetItem, sqs, worker, written, history
  <1>11. ASSUME NEW w \in Workers, PutItem(w)
        PROVE  AlertsInv'
    <2> DEFINE new == Updated(snapshot[w], Reading(w))
    <2>1. alerts' = alerts
      BY <1>11 DEF PutItem
    <2>2. \A v \in Workers \ {w} : pc'[v] = pc[v] /\ snapshot'[v] = snapshot[v]
      BY <1>11 DEF PutItem
    <2>3. pc'[w] = "alert" => snapshot'[w].fused >= Threshold
      <3>1. pc'[w] = "alert" => RaisesAlert(snapshot[w], new) /\ snapshot'[w] = new
        BY <1>11 DEF PutItem
      <3> HIDE DEF new
      <3> QED
        BY <3>1 DEF RaisesAlert
    <2> QED
      BY <2>1, <2>2, <2>3
  <1>12. ASSUME NEW w \in Workers, PublishAlert(w)
        PROVE  AlertsInv'
    <2> DEFINE score == snapshot[w].score
    <2>1. score \in [Modalities -> Score]
      BY DEF Item
    <2>2. Fused(score) >= Threshold
      BY <1>12 DEF PublishAlert, ItemsInv, ConsistentItem
    <2>3. Corroborated(score)
      <3>1. Fused(score) \in Int
        BY <2>1, FusedAtMostOne
      <3>2. Fused(score) > 580
        BY <2>2, <3>1 DEF HighThreshold
      <3> HIDE DEF score
      <3> QED
        BY <3>2, <2>1, ScoresAreScores, HighProbabilityIsCorroborated DEF Fused, Corroborated
    <2>4. alerts' = alerts \cup {[cell |-> CellOf[Reading(w)], score |-> score]}
      BY <1>12 DEF PublishAlert
    <2>5. \A v \in Workers : pc'[v] = "alert" => pc[v] = "alert" /\ snapshot'[v] = snapshot[v]
      BY <1>12 DEF PublishAlert, NextRecord
    <2> HIDE DEF score
    <2> QED
      BY <2>2, <2>3, <2>4, <2>5
  <1>13. ASSUME NEW w \in Workers, AlertFails(w)
        PROVE  AlertsInv'
    BY <1>13 DEF AlertFails, NextRecord
  <1>14. ASSUME NEW w \in Workers, TransientError(w)
        PROVE  AlertsInv'
    BY <1>14 DEF TransientError, NextRecord
  <1>15. ASSUME NEW w \in Workers, OtherError(w)
        PROVE  AlertsInv'
    BY <1>15 DEF OtherError, NextRecord
  <1>16. ASSUME NEW w \in Workers, Finish(w)
        PROVE  AlertsInv'
    BY <1>16 DEF Finish, Release
  <1>17. ASSUME NEW w \in Workers, Kill(w)
        PROVE  AlertsInv'
    BY <1>17 DEF Kill, Release
  <1>18. ASSUME NEW c \in Cells, NEW status \in OperatorStatus,
               NEW by \in BOOLEAN, UpdateStatus(c, status, by)
        PROVE  AlertsInv'
    BY <1>18 DEF UpdateStatus, sqs, worker, written, history
  <1>19. CASE UNCHANGED vars
    BY <1>19 DEF vars, sqs, worker, written, history
  <1> HIDE DEF Shape, TypeOK, AlertsInv, AlertsAreCorroborated, HighThreshold
  <1> QED
    BY <1>1, <1>2, <1>3, <1>4, <1>5, <1>6, <1>7, <1>8, <1>9, <1>10, <1>11, <1>12, <1>13,
       <1>14, <1>15, <1>16, <1>17, <1>18, <1>19 DEF Next, WorkerStep, ReplayStep

(***************************************************************************)
(* A high-confidence put that no publish followed yet, and that was not    *)
(* cut off, has its invocation still at the publish.                       *)
(***************************************************************************)
AttemptPending ==
    \A k \in unalerted \ interrupted : \E w \in Workers : pc[w] = "alert" /\ current[w] = k

LEMMA PutPending ==
    ASSUME Shape, NEW w \in Workers, pc[w] = "put", NEW raises \in BOOLEAN, Put(w, raises)
    PROVE  /\ unalerted' \ interrupted' \subseteq (unalerted \ interrupted) \cup {current[w]}
           /\ current[w] \in unalerted' \ interrupted' =>
                \/ current[w] \in unalerted \ interrupted
                \/ ~raises /\ Updated(snapshot[w], Reading(w)).fused >= Threshold
  <1> DEFINE fused == Updated(snapshot[w], Reading(w)).fused
  <1>1. fused \in Int
    <2>1. snapshot[w] \in Item /\ Reading(w) \in Readings
      BY AtPut DEF Shape, TypeOK
    <2>2. Updated(snapshot[w], Reading(w)) \in Item
      BY <2>1, UpdatedOK
    <2> QED
      BY <2>2 DEF Item
  <1>2. /\ unalerted' = IF fused >= Threshold THEN unalerted \cup {current[w]} ELSE unalerted
        /\ interrupted' = IF fused < Threshold THEN interrupted
                           ELSE IF raises THEN interrupted \cup {current[w]}
                           ELSE interrupted \ {current[w]}
    BY DEF Put
  <1> HIDE DEF fused
  <1>3. fused < Threshold <=> ~(fused >= Threshold)
    BY <1>1
  <1> QED
    BY <1>2, <1>3 DEF fused

LEMMA AttemptStep == Shape /\ AttemptPending /\ [Next]_vars => AttemptPending'
  <1> SUFFICES ASSUME Shape, AttemptPending, [Next]_vars
               PROVE  AttemptPending'
    OBVIOUS
  <1> USE DEF Shape, TypeOK, AttemptPending, BatchesHeld
  <1>1. ASSUME NEW k \in Copies, NEW r \in Readings, Ingest(k, r)
        PROVE  AttemptPending'
    BY <1>1 DEF Ingest, Send, sqs, worker, written, history
  <1>2. ASSUME NEW k \in Copies, Redrive(k)
        PROVE  AttemptPending'
    BY <1>2 DEF Redrive, sqs, worker, written, history
  <1>3. ASSUME NEW k \in Copies, ReplayReceive(k)
        PROVE  AttemptPending'
    BY <1>3 DEF ReplayReceive, sqs, worker, written, history
  <1>4. ASSUME NEW k \in Copies, NEW n \in Copies, ReplaySend(k, n)
        PROVE  AttemptPending'
    BY <1>4 DEF ReplaySend, Send, sqs, worker, written, history
  <1>5. ASSUME NEW k \in Copies, ReplayDelete(k)
        PROVE  AttemptPending'
    BY <1>5 DEF ReplayDelete, sqs, worker, written, history
  <1>6. ASSUME NEW k \in Copies, ReplayFails(k)
        PROVE  AttemptPending'
    BY <1>6 DEF ReplayFails, sqs, worker, written, history
  <1>7. ASSUME NEW w \in Workers, NEW B \in SUBSET Copies, Receive(w, B)
        PROVE  AttemptPending'
    BY <1>7 DEF Receive, sqs, worker, written, history
  <1>8. ASSUME NEW w \in Workers, NEW k \in Copies, Skip(w, k)
        PROVE  AttemptPending'
    BY <1>8 DEF Skip, sqs, worker, written, history
  <1>9. ASSUME NEW w \in Workers, NEW k \in Copies, HandlerRaises(w, k)
        PROVE  AttemptPending'
    BY <1>9 DEF HandlerRaises, Release, written
  <1>10. ASSUME NEW w \in Workers, NEW k \in Copies, GetItem(w, k)
        PROVE  AttemptPending'
    BY <1>10 DEF GetItem, sqs, worker, written, history
  <1>11. ASSUME NEW w \in Workers, PutItem(w)
        PROVE  AttemptPending'
    <2> DEFINE new == Updated(snapshot[w], Reading(w))
    <2>1. pc[w] = "put" /\ Put(w, FALSE)
      BY <1>11 DEF PutItem
    <2>2. /\ pc' = [pc EXCEPT ![w] = IF RaisesAlert(snapshot[w], new) THEN "alert" ELSE "next"]
          /\ current' = IF RaisesAlert(snapshot[w], new) THEN current
                        ELSE [current EXCEPT ![w] = NoCopy]
      BY <1>11 DEF PutItem
    <2>3. RaisesAlert(snapshot[w], new) <=> new.fused >= Threshold
      BY DEF RaisesAlert
    <2>4. /\ unalerted' \ interrupted' \subseteq (unalerted \ interrupted) \cup {current[w]}
          /\ current[w] \in unalerted' \ interrupted' =>
                current[w] \in unalerted \ interrupted \/ new.fused >= Threshold
      BY <2>1, PutPending
    <2> HIDE DEF new
    <2>5. \A v \in Workers \ {w} : pc'[v] = pc[v] /\ current'[v] = current[v]
      BY <2>2
    <2>6. new.fused >= Threshold => pc'[w] = "alert" /\ current'[w] = current[w]
      BY <2>2, <2>3
    <2> SUFFICES ASSUME NEW k \in unalerted' \ interrupted'
                 PROVE  \E v \in Workers : pc'[v] = "alert" /\ current'[v] = k
      OBVIOUS
    <2>7. CASE k \in unalerted \ interrupted
      <3>1. PICK v \in Workers : pc[v] = "alert" /\ current[v] = k
        BY <2>7
      <3> QED
        BY <2>1, <2>5, <3>1
    <2>8. CASE k = current[w] /\ k \notin unalerted \ interrupted
      BY <2>4, <2>6, <2>8
    <2> QED
      BY <2>4, <2>7, <2>8
  <1>12. ASSUME NEW w \in Workers, PublishAlert(w)
        PROVE  AttemptPending'
    BY <1>12 DEF PublishAlert, NextRecord, written, history
  <1>13. ASSUME NEW w \in Workers, AlertFails(w)
        PROVE  AttemptPending'
    BY <1>13 DEF AlertFails, NextRecord, written, history
  <1>14. ASSUME NEW w \in Workers, TransientError(w)
        PROVE  AttemptPending'
    <2>1. pc[w] = "put" /\ (UNCHANGED Stored \/ Put(w, TRUE))
      BY <1>14 DEF TransientError, Raises
    <2>2. unalerted' \ interrupted' \subseteq unalerted \ interrupted
      BY <2>1, PutPending DEF Stored
    <2>3. \A v \in Workers \ {w} : pc'[v] = pc[v] /\ current'[v] = current[v]
      BY <1>14 DEF TransientError, NextRecord
    <2> QED
      BY <2>1, <2>2, <2>3
  <1>15. ASSUME NEW w \in Workers, OtherError(w)
        PROVE  AttemptPending'
    <2>1. pc[w] = "put" /\ (UNCHANGED Stored \/ Put(w, TRUE))
      BY <1>15 DEF OtherError, Raises
    <2>2. unalerted' \ interrupted' \subseteq unalerted \ interrupted
      BY <2>1, PutPending DEF Stored
    <2>3. \A v \in Workers \ {w} : pc'[v] = pc[v] /\ current'[v] = current[v]
      BY <1>15 DEF OtherError, NextRecord
    <2> QED
      BY <2>1, <2>2, <2>3
  <1>16. ASSUME NEW w \in Workers, Finish(w)
        PROVE  AttemptPending'
    BY <1>16 DEF Finish, Release, written
  <1>17. ASSUME NEW w \in Workers, Kill(w)
        PROVE  AttemptPending'
    BY <1>17 DEF Kill, Release
  <1>18. ASSUME NEW c \in Cells, NEW status \in OperatorStatus,
               NEW by \in BOOLEAN, UpdateStatus(c, status, by)
        PROVE  AttemptPending'
    BY <1>18 DEF UpdateStatus, sqs, worker, written, history
  <1>19. CASE UNCHANGED vars
    BY <1>19 DEF vars, sqs, worker, written, history
  <1> HIDE DEF Shape, TypeOK, AttemptPending, BatchesHeld
  <1> QED
    BY <1>1, <1>2, <1>3, <1>4, <1>5, <1>6, <1>7, <1>8, <1>9, <1>10, <1>11, <1>12, <1>13,
       <1>14, <1>15, <1>16, <1>17, <1>18, <1>19 DEF Next, WorkerStep, ReplayStep

LEMMA PutExact ==
    ASSUME Shape, ExactWithoutOverlap, NEW w \in Workers, pc[w] = "put",
           NEW raises \in BOOLEAN, Put(w, raises), lastStatus' = lastStatus
    PROVE  ExactWithoutOverlap'
  <1> USE DEF Shape, ExactWithoutOverlap, Accumulated
  <1> DEFINE r == Reading(w)
             cell == CellOf[r]
             new == Updated(snapshot[w], r)
  <1>1. r \in Readings /\ cell \in Cells /\ ModalityOf[r] \in Modalities
    BY AtPut
  <1>2. /\ table' = [table EXCEPT ![cell] = new]
        /\ lastScore' = [lastScore EXCEPT ![cell][ModalityOf[r]] = ScoreOf[r]]
        /\ lastStatus' = lastStatus
        /\ overwritten \subseteq overwritten'
        /\ cell \notin overwritten' => table[cell] = snapshot[w]
    BY DEF Put
  <1>3. /\ new.score = [snapshot[w].score EXCEPT ![ModalityOf[r]] = ScoreOf[r]]
        /\ new.status = snapshot[w].status
    BY <1>1 DEF Updated, TypeOK, Item
  <1> HIDE DEF r, cell, new
  <1>4. \A c \in Cells \ overwritten' : c # cell => Accumulated(c)'
    BY <1>1, <1>2 DEF TypeOK
  <1>5. ASSUME NEW c \in Cells, c = cell, c \notin overwritten'
        PROVE  Accumulated(c)'
    <2>1. table[c] = snapshot[w] /\ Accumulated(c)
      BY <1>2, <1>5
    <2>2. table'[c] = new /\ lastStatus'[c] = lastStatus[c]
      BY <1>2, <1>5 DEF TypeOK
    <2>3. lastScore'[c] = [lastScore[c] EXCEPT ![ModalityOf[r]] = ScoreOf[r]]
      BY <1>2, <1>5 DEF TypeOK
    <2> QED
      BY <1>3, <2>1, <2>2, <2>3
  <1> QED
    BY <1>4, <1>5

LEMMA ExactStep == Shape /\ ExactWithoutOverlap /\ [Next]_vars => ExactWithoutOverlap'
  <1> SUFFICES ASSUME Shape, ExactWithoutOverlap, [Next]_vars
               PROVE  ExactWithoutOverlap'
    OBVIOUS
  <1> USE DEF Shape, ExactWithoutOverlap, Accumulated
  <1>1. ASSUME NEW k \in Copies, NEW r \in Readings, Ingest(k, r)
        PROVE  ExactWithoutOverlap'
    BY <1>1 DEF Ingest, Send, sqs, worker, written, history
  <1>2. ASSUME NEW k \in Copies, Redrive(k)
        PROVE  ExactWithoutOverlap'
    BY <1>2 DEF Redrive, sqs, worker, written, history
  <1>3. ASSUME NEW k \in Copies, ReplayReceive(k)
        PROVE  ExactWithoutOverlap'
    BY <1>3 DEF ReplayReceive, sqs, worker, written, history
  <1>4. ASSUME NEW k \in Copies, NEW n \in Copies, ReplaySend(k, n)
        PROVE  ExactWithoutOverlap'
    BY <1>4 DEF ReplaySend, Send, sqs, worker, written, history
  <1>5. ASSUME NEW k \in Copies, ReplayDelete(k)
        PROVE  ExactWithoutOverlap'
    BY <1>5 DEF ReplayDelete, sqs, worker, written, history
  <1>6. ASSUME NEW k \in Copies, ReplayFails(k)
        PROVE  ExactWithoutOverlap'
    BY <1>6 DEF ReplayFails, sqs, worker, written, history
  <1>7. ASSUME NEW w \in Workers, NEW B \in SUBSET Copies, Receive(w, B)
        PROVE  ExactWithoutOverlap'
    BY <1>7 DEF Receive, sqs, worker, written, history
  <1>8. ASSUME NEW w \in Workers, NEW k \in Copies, Skip(w, k)
        PROVE  ExactWithoutOverlap'
    BY <1>8 DEF Skip, sqs, worker, written, history
  <1>9. ASSUME NEW w \in Workers, NEW k \in Copies, HandlerRaises(w, k)
        PROVE  ExactWithoutOverlap'
    BY <1>9 DEF HandlerRaises, Release, written
  <1>10. ASSUME NEW w \in Workers, NEW k \in Copies, GetItem(w, k)
        PROVE  ExactWithoutOverlap'
    BY <1>10 DEF GetItem, sqs, worker, written, history
  <1>11. ASSUME NEW w \in Workers, PutItem(w)
        PROVE  ExactWithoutOverlap'
    BY <1>11, PutExact DEF PutItem
  <1>12. ASSUME NEW w \in Workers, PublishAlert(w)
        PROVE  ExactWithoutOverlap'
    BY <1>12 DEF PublishAlert, NextRecord, written, history
  <1>13. ASSUME NEW w \in Workers, AlertFails(w)
        PROVE  ExactWithoutOverlap'
    BY <1>13 DEF AlertFails, NextRecord, written, history
  <1>14. ASSUME NEW w \in Workers, TransientError(w)
        PROVE  ExactWithoutOverlap'
    <2>1. CASE UNCHANGED Stored
      BY <1>14, <2>1 DEF TransientError, Stored
    <2>2. CASE Put(w, TRUE)
      BY <1>14, <2>2, PutExact DEF TransientError
    <2> QED
      BY <1>14, <2>1, <2>2 DEF TransientError, Raises
  <1>15. ASSUME NEW w \in Workers, OtherError(w)
        PROVE  ExactWithoutOverlap'
    <2>1. CASE UNCHANGED Stored
      BY <1>15, <2>1 DEF OtherError, Stored
    <2>2. CASE Put(w, TRUE)
      BY <1>15, <2>2, PutExact DEF OtherError
    <2> QED
      BY <1>15, <2>1, <2>2 DEF OtherError, Raises
  <1>16. ASSUME NEW w \in Workers, Finish(w)
        PROVE  ExactWithoutOverlap'
    BY <1>16 DEF Finish, Release, written
  <1>17. ASSUME NEW w \in Workers, Kill(w)
        PROVE  ExactWithoutOverlap'
    BY <1>17 DEF Kill, Release, written
  <1>18. ASSUME NEW c \in Cells, NEW status \in OperatorStatus,
               NEW by \in BOOLEAN, UpdateStatus(c, status, by)
        PROVE  ExactWithoutOverlap'
    <2>1. /\ table' = [table EXCEPT ![c] = StatusSet(table[c], status, by)]
          /\ lastStatus' = [lastStatus EXCEPT ![c] = status]
          /\ lastScore' = lastScore /\ overwritten' = overwritten
      BY <1>18 DEF UpdateStatus
    <2>2. /\ StatusSet(table[c], status, by).score = table[c].score
          /\ StatusSet(table[c], status, by).status = status
      BY DEF StatusSet
    <2> QED
      BY <2>1, <2>2 DEF TypeOK
  <1>19. CASE UNCHANGED vars
    BY <1>19 DEF vars, sqs, worker, written, history
  <1> HIDE DEF Shape, ExactWithoutOverlap, Accumulated
  <1> QED
    BY <1>1, <1>2, <1>3, <1>4, <1>5, <1>6, <1>7, <1>8, <1>9, <1>10, <1>11, <1>12, <1>13,
       <1>14, <1>15, <1>16, <1>17, <1>18, <1>19 DEF Next, WorkerStep, ReplayStep

-----------------------------------------------------------------------------
LEMMA PipelineInit ==
    Init => /\ Shape /\ Handled /\ LiveOrDone /\ ItemsInv /\ AlertsInv /\ AttemptPending
            /\ ExactWithoutOverlap
  <1> SUFFICES ASSUME Init
               PROVE  /\ Shape /\ Handled /\ LiveOrDone /\ ItemsInv /\ AlertsInv
                      /\ AttemptPending /\ ExactWithoutOverlap
    OBVIOUS
  <1>1. TypeOK
    <2>1. NewItem.score \in [Modalities -> Score] /\ NewItem.status \in Status
      BY NewItemOK DEF Item
    <2>2. 0 \in 0 .. MaxReceive /\ 0 \in Nat
      OBVIOUS
    <2> QED
      BY <2>1, <2>2, NewItemOK DEF Init, TypeOK, Place
  <1>2. Shape
    BY <1>1 DEF Init, Shape, BodiesKnown, BatchesHeld, BatchesDisjoint
  <1>3. Handled /\ LiveOrDone /\ AlertsInv /\ AttemptPending /\ ExactWithoutOverlap
    BY DEF Init, Handled, LiveOrDone, AlertsInv, AlertsAreCorroborated, AttemptPending,
           ExactWithoutOverlap, Accumulated
  <1>4. ItemsInv
    BY NewItemConsistent DEF Init, ItemsInv
  <1> QED
    BY <1>2, <1>3, <1>4

LEMMA ShapeAlways == Spec => []Shape
  BY PipelineInit, ShapeStep, PTL DEF Spec

\* Every value the pipeline stores has the type the code gives it: no stored
\* score and no fused probability exceeds one, whatever is reported and however
\* the writes of an item interleave (nothing keeps them from being negative),
\* and no message is received more than MaxReceive times.
THEOREM PipelineTypes == Spec => []TypeOK
  <1>1. Shape => TypeOK
    BY DEF Shape
  <1> QED
    BY <1>1, ShapeAlways, PTL

\* No retry, kill, redrive or replay loses a reading that entered the queue.
THEOREM NoReadingLost == Spec => []EveryReadingAccountedFor
  <1>1. Shape /\ LiveOrDone => EveryReadingAccountedFor
    BY DEF EveryReadingAccountedFor, LiveOrDone, Sent, Waiting, Shape, TypeOK, Place
  <1>2. Spec => []Handled
    BY PipelineInit, ShapeAlways, HandledStep, PTL DEF Spec
  <1>3. Spec => []LiveOrDone
    BY <1>2, PipelineInit, ShapeAlways, LiveOrDoneStep, PTL DEF Spec
  <1> QED
    BY <1>1, <1>3, ShapeAlways, PTL

\* Whatever interleaves, an item's fused probability is that of its scores and
\* a confirmed cell names who confirmed it.
THEOREM ItemsStayConsistent == Spec => []ItemsAreConsistent
  <1>1. ItemsInv => ItemsAreConsistent
    BY DEF ItemsInv, ConsistentItem, ItemsAreConsistent
  <1>2. Spec => []ItemsInv
    BY PipelineInit, ShapeAlways, ItemsStep, PTL DEF Spec
  <1> QED
    BY <1>1, <1>2, PTL

\* With a threshold above 0.58, no alert rests on one modality alone.
THEOREM AlertsNeedCorroboration ==
    ASSUME HighThreshold
    PROVE  Spec => []AlertsAreCorroborated
  <1>1. Shape /\ ItemsInv /\ AlertsInv /\ [Next]_vars => AlertsInv'
    BY AlertsStep
  <1>2. AlertsInv => AlertsAreCorroborated
    BY DEF AlertsInv
  <1>3. Spec => []ItemsInv
    BY PipelineInit, ShapeAlways, ItemsStep, PTL DEF Spec
  <1>4. Spec => []AlertsInv
    BY <1>1, <1>3, PipelineInit, ShapeAlways, PTL DEF Spec
  <1> QED
    BY <1>2, <1>4, PTL

\* A message whose last high-confidence put was not cut off is deleted only after
\* the alert of that put was attempted.
THEOREM AlertBeforeAck == Spec => []AlertAttemptedBeforeAck
  <1>1. Shape /\ AttemptPending => AlertAttemptedBeforeAck
    BY DEF Shape, TypeOK, BatchesHeld, AttemptPending, AlertAttemptedBeforeAck
  <1>2. Spec => []AttemptPending
    BY PipelineInit, ShapeAlways, AttemptStep, PTL DEF Spec
  <1> QED
    BY <1>1, <1>2, ShapeAlways, PTL

\* A cell is exact as long as no put overlapped another write of it: the lost
\* update is the only way to lose a score or a status.
THEOREM ExactUnlessOverlapped == Spec => []ExactWithoutOverlap
  BY PipelineInit, ShapeAlways, ExactStep, PTL DEF Spec
=============================================================================
