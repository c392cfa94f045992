------------------------- MODULE RoundJudgingProofs -------------------------
(***************************************************************************)
(* What RoundJudging keeps for any number of teams, judges and overlapping *)
(* requests: no score of a judge who stepped aside, kept scores that are   *)
(* the reviews', reviews that stay, published results that stand, and one  *)
(* rubric while nobody saves an old copy of the round.                     *)
(***************************************************************************)
EXTENDS RoundJudging, FiniteSetTheorems, TLAPS

-----------------------------------------------------------------------------
(* The rows and how they refer to one another. *)

\* What _fill adds is for the teams and judges it was asked about.
LEMMA FillType ==
    ASSUME NEW T, NEW judges, NEW given, NEW active, NEW new \in Fill(T, judges, given, active)
    PROVE  new \subseteq T \X judges
BY DEF Fill

\* The part of TypeOK that needs no arithmetic, and the disjointness that makes
\* it inductive: a review's assignment exists and is not stepped aside from.
RowsOK ==
    /\ team \in [Teams -> {"IN", "WAITING", "OUT", "DELETED"}]
    /\ entries \subseteq Teams
    /\ panel \subseteq Judges
    /\ assigned \subseteq entries \X Judges
    /\ recused \subseteq assigned
    /\ DOMAIN review \subseteq assigned \ recused
    /\ settings \in Settings
    /\ evaluation \in {"NOT_STARTED", "IN_PROGRESS", "CLOSED"}
    /\ published \in BOOLEAN
    /\ busy \in [Workers -> Requests]

\* Rows refer to rows that exist, through every overlap of requests.
LEMMA RowsStay == Spec => []RowsOK
<1>1. Init => RowsOK
  <2>1. DOMAIN <<>> = {}
    OBVIOUS
  <2> QED
    BY <2>1, RoundAssumption DEF Init, RowsOK, Requests
<1>2. RowsOK /\ [Next]_vars => RowsOK'
  <2> SUFFICES ASSUME RowsOK, [Next]_vars PROVE RowsOK'
    OBVIOUS
  <2> USE DEF RowsOK, entryRows, pairRows, roundRow, rubrics, vars
  <2>1. ASSUME NEW s \in Settings, Configure(s) PROVE RowsOK'
    BY <2>1 DEF Configure
  <2>2. ASSUME NEW r \in Rubrics \cup {NoRubric}, SetCriteria(r) \/ ReplaceCriteria(r)
        PROVE  RowsOK'
    BY <2>2 DEF SetCriteria, ReplaceCriteria
  <2>3. ASSUME NEW P \in SUBSET Judges, SetPanel(P) PROVE RowsOK'
    <3> DEFINE gone == panel \ P
               kept(pairs) == {p \in pairs : p[2] \notin gone}
    <3>1. PICK new \in IF Filling
                       THEN Fill(Live(entries), P, kept(assigned), kept(assigned \ recused))
                       ELSE {{}} : assigned' = kept(assigned) \cup new
      BY <2>3 DEF SetPanel
    <3>2. new \subseteq entries \X Judges
      BY <3>1, FillType DEF Live
    <3>3. recused' = kept(recused) /\ review' = review /\ DOMAIN review \subseteq kept(assigned)
      BY <2>3 DEF SetPanel
    <3>4. DOMAIN review' \subseteq assigned' \ recused'
      BY <3>1, <3>3
    <3>5. assigned' \subseteq entries \X Judges /\ recused' \subseteq assigned'
      BY <3>1, <3>2, <3>3
    <3> QED
      BY <2>3, <3>4, <3>5 DEF SetPanel
  <2>4. CASE Assign
    <3>1. PICK new \in Fill(Live(entries), panel, assigned, assigned \ recused) :
              assigned' = assigned \cup new
      BY <2>4 DEF Assign
    <3>2. new \subseteq entries \X Judges
      BY <3>1, FillType DEF Live
    <3> QED
      BY <2>4, <3>1, <3>2 DEF Assign
  <2>5. ASSUME NEW t \in Teams, NEW wanted \in SUBSET Judges, AssignByHand(t, wanted)
        PROVE  RowsOK'
    BY <2>5 DEF AssignByHand, Live
  <2>6. CASE Start
    <3>1. PICK new \in IF settings.mode = "MANUAL" THEN {{}}
                       ELSE Fill(Live(entries), panel, assigned, assigned \ recused) :
              assigned' = assigned \cup new
      BY <2>6 DEF Start
    <3>2. new \subseteq entries \X Judges
      BY <3>1, FillType DEF Live
    <3> QED
      BY <2>6, <3>1, <3>2 DEF Start
  <2>7. ASSUME NEW t \in Teams, NEW j \in Judges, NEW s \in Scores, SubmitReview(t, j, s)
        PROVE  RowsOK'
    BY <2>7 DEF SubmitReview
  <2>8. ASSUME NEW t \in Teams, NEW j \in Judges, Recuse(t, j) PROVE RowsOK'
    <3> DEFINE load(k) == Load(k, assigned \ recused')
               others == {k \in panel : <<t, k>> \notin assigned}
               least == {k \in others : \A i \in others \ {k} : Before(k, load(k), i, load(i))}
    <3>1. assigned' = assigned \cup IF settings.mode # "BALANCED" THEN {}
                                    ELSE {<<t, k>> : k \in least}
      BY <2>8 DEF Recuse
    <3>2. recused' = recused \cup {<<t, j>>} /\ <<t, j>> \in assigned \ (recused \cup DOMAIN review)
      BY <2>8 DEF Recuse
    <3>3. t \in entries /\ least \subseteq Judges
      BY <3>2
    <3> HIDE DEF least
    <3>4. assigned \subseteq assigned' /\ assigned' \subseteq entries \X Judges
      BY <3>1, <3>3
    <3>5. recused' \subseteq assigned' /\ DOMAIN review \subseteq assigned' \ recused'
      BY <3>2, <3>4
    <3> QED
      BY <2>8, <3>4, <3>5 DEF Recuse
  <2>9. ASSUME NEW force \in BOOLEAN, Close(force) \/ Reopen PROVE RowsOK'
    BY <2>9 DEF Close, Reopen
  <2>10. CASE Publish \/ Unpublish
    BY <2>10 DEF Publish, Unpublish
  <2>11. ASSUME NEW w \in Workers, NEW T \in SUBSET Teams, NEW U, BeginAdd(w, T, Plans(U)) \/ BeginAdd(w, T, {{}}),
                U = T
         PROVE  RowsOK'
    <3>1. PICK plan \in Plans(T) \cup {{}} : busy' = [busy EXCEPT ![w] = Adding(T, plan)]
      BY <2>11 DEF BeginAdd
    <3>2. plan \subseteq Pairs
      BY <3>1, FillType DEF Plans, Live, Pairs
    <3>3. Adding(T, plan) \in Requests
      BY <3>2 DEF Adding, Requests
    <3> QED
      BY <2>11, <3>1, <3>3 DEF BeginAdd
  <2>12. ASSUME NEW w \in Workers, CommitAdd(w) PROVE RowsOK'
    <3>1. busy[w] \in [step : {"ADDING"}, teams : SUBSET Teams, plan : SUBSET Pairs]
      BY <2>12 DEF CommitAdd, Requests, Idle, Removing, Editing
    <3>2. \A p \in busy[w].plan : p \in entries' \X Judges
      BY <2>12, <3>1 DEF CommitAdd, Pairs
    <3> QED
      BY <2>12, <3>1, <3>2 DEF CommitAdd, Requests
  <2>13. ASSUME NEW w \in Workers, FailAdd(w) PROVE RowsOK'
    BY <2>13 DEF FailAdd, Requests
  <2>14. ASSUME NEW w \in Workers, NEW t \in Teams, BeginRemove(w, t) PROVE RowsOK'
    BY <2>14 DEF BeginRemove, Requests
  <2>15. ASSUME NEW w \in Workers, CommitRemove(w) PROVE RowsOK'
    BY <2>15 DEF CommitRemove, DropEntry, Requests
  <2>16. ASSUME NEW w \in Workers, BeginEdit(w) PROVE RowsOK'
    BY <2>16 DEF BeginEdit, Requests, Rows
  <2>17. ASSUME NEW w \in Workers, CommitEdit(w) PROVE RowsOK'
    <3>1. busy[w].row \in Rows
      BY <2>17 DEF CommitEdit, Requests, Idle, Removing, Editing
    <3> QED
      BY <2>17, <3>1 DEF CommitEdit, Requests, Rows
  <2>18. ASSUME NEW t \in Teams, DeleteTeam(t) PROVE RowsOK'
    BY <2>18 DEF DeleteTeam, DropEntry
  <2>19. ASSUME NEW t \in Teams, NEW s \in {"IN", "WAITING", "OUT"}, ChangeTeam(t, s) PROVE RowsOK'
    BY <2>19 DEF ChangeTeam
  <2>20. CASE UNCHANGED vars
    BY <2>20
  <2> QED
    BY <2>1, <2>2, <2>3, <2>4, <2>5, <2>6, <2>7, <2>8, <2>9, <2>10, <2>11, <2>12, <2>13,
       <2>14, <2>15, <2>16, <2>17, <2>18, <2>19, <2>20
    DEF Next, SetUp, Judge, Decide, EditTeams, Populate, AddTeam, Advance
<1> QED
  BY <1>1, <1>2, PTL DEF Spec

\* No judge has both scored a team and stepped aside from it (submit_review,
\* recuse).
THEOREM NoScoreFromRecusedHolds == Spec => []NoScoreFromRecused
<1>1. RowsOK => NoScoreFromRecused
  BY DEF RowsOK, NoScoreFromRecused
<1> QED
  BY <1>1, RowsStay, PTL
-----------------------------------------------------------------------------
(* The scores kept on entries. *)

\* With RowsOK, ReviewsOf(t): no review is of a judge who stepped aside.
ReviewsAbout(t) == {p \in DOMAIN review : p[1] = t}

\* EntryMatchesReviews of every team: one outside the round has the scores, and
\* the lack of reviews, that it would have if it entered.
ScoresOK ==
    /\ result = [t \in Teams |-> [count |-> result[t].count, score |-> result[t].score,
                                  rank |-> result[t].rank]]
    /\ \A t \in Teams :
           /\ result[t].count = Cardinality(ReviewsAbout(t))
           /\ result[t].score = Score(review, ReviewsAbout(t))

LEMMA ReviewsOfEntry ==
    ASSUME RowsOK, NEW t \in Teams
    PROVE  ReviewsOf(t) = ReviewsAbout(t)
BY DEF RowsOK, ReviewsOf, ReviewsAbout

\* A score depends on no reviews but those it is the score of.
LEMMA SameScore ==
    ASSUME NEW rev1, NEW rev2, NEW pairs, \A p \in pairs : rev1[p] = rev2[p]
    PROVE  /\ Score(rev1, pairs) = Score(rev2, pairs)
           /\ Heaviest(rev1, pairs) = Heaviest(rev2, pairs)
<1>1. {x \in pairs \X (1..MaxScore) : x[2] <= rev1[x[1]].score.total}
        = {x \in pairs \X (1..MaxScore) : x[2] <= rev2[x[1]].score.total}
  OBVIOUS
<1>2. {x \in pairs \X (1..MaxScore) : x[2] <= rev1[x[1]].score.heaviest}
        = {x \in pairs \X (1..MaxScore) : x[2] <= rev2[x[1]].score.heaviest}
  OBVIOUS
<1> QED
  BY <1>1, <1>2 DEF Score, Heaviest, TotalPoints, HeaviestPoints

\* An average of points is a number, whatever the reviews hold.
LEMMA AverageType ==
    ASSUME NEW sum \in Nat, NEW n \in Nat
    PROVE  Average(sum, n) \in Nat
<1>1. ASSUME NEW a \in Nat, NEW b \in Nat, b > 0 PROVE a \div b \in Nat
  <2> DEFINE q == a \div b
             m == a % b
  <2>1. q \in Int /\ m \in 0..b-1 /\ a = b * q + m
    BY <1>1
  <2>2. ASSUME q < 0 PROVE FALSE
    <3>1. q + 1 <= 0
      BY <2>1, <2>2
    <3> HIDE DEF q, m
    <3>2. b * (q + 1) <= 0
      BY <1>1, <2>1, <3>1
    <3>3. b * (q + 1) = b * q + b
      BY <1>1, <2>1
    <3> QED
      BY <1>1, <2>1, <3>2, <3>3
  <2> QED
    BY <2>1, <2>2
<1>2. CASE n = 0
  BY <1>2 DEF Average
<1>3. CASE n # 0
  BY <1>1, <1>3 DEF Average
<1> QED
  BY <1>2, <1>3

LEMMA ScoreType ==
    ASSUME NEW rev, NEW pairs \in SUBSET Pairs
    PROVE  Score(rev, pairs) \in Nat /\ Heaviest(rev, pairs) \in Nat
<1>1. IsFiniteSet(pairs) /\ Cardinality(pairs) \in Nat
  BY RoundAssumption, FS_Product, FS_Subset, FS_CardinalityType DEF Pairs
<1>2. IsFiniteSet(1..MaxScore)
  BY RoundAssumption, FS_Interval
<1>3. IsFiniteSet(pairs \X (1..MaxScore))
  BY <1>1, <1>2, FS_Product
<1>4. /\ Cardinality({x \in pairs \X (1..MaxScore) : x[2] <= rev[x[1]].score.total}) \in Nat
      /\ Cardinality({x \in pairs \X (1..MaxScore) : x[2] <= rev[x[1]].score.heaviest}) \in Nat
  BY <1>3, FS_Subset, FS_CardinalityType
<1> QED
  BY <1>1, <1>4, AverageType DEF Score, Heaviest, TotalPoints, HeaviestPoints

LEMMA ScoreOfNone ==
    ASSUME NEW rev
    PROVE  Score(rev, {}) = 0 /\ Cardinality({}) = 0
BY FS_EmptySet DEF Score, Average, TotalPoints

\* A team that leaves the round takes its reviews along, and no other's.
LEMMA ScoresAfterDrop ==
    ASSUME ScoresOK, NEW t \in Teams, DropEntry(t)
    PROVE  ScoresOK'
<1> USE DEF DropEntry
<1>1. result' = [result EXCEPT ![t] = Unscored]
  OBVIOUS
<1>2. ReviewsAbout(t)' = {}
  BY DEF ReviewsAbout
<1>3. result'[t].count = Cardinality(ReviewsAbout(t)') /\ result'[t].score = Score(review', ReviewsAbout(t)')
  BY <1>1, <1>2, ScoreOfNone DEF Unscored, Entry, ScoresOK
<1>4. ASSUME NEW u \in Teams \ {t}
      PROVE  result'[u].count = Cardinality(ReviewsAbout(u)') /\ result'[u].score = Score(review', ReviewsAbout(u)')
  <2>1. ReviewsAbout(u)' = ReviewsAbout(u)
    BY DEF ReviewsAbout
  <2>2. Score(review', ReviewsAbout(u)) = Score(review, ReviewsAbout(u))
    <3>1. \A p \in ReviewsAbout(u) : review'[p] = review[p]
      BY DEF ReviewsAbout
    <3> HIDE DEF DropEntry
    <3> QED
      BY <3>1, SameScore
  <2> QED
    BY <1>1, <2>1, <2>2 DEF ScoresOK
<1>5. result' = [u \in Teams |-> [count |-> result'[u].count, score |-> result'[u].score,
                                  rank |-> result'[u].rank]]
  BY <1>1 DEF ScoresOK, Unscored, Entry
<1> QED
  BY <1>3, <1>4, <1>5 DEF ScoresOK

LEMMA ScoresUnchanged ==
    ASSUME ScoresOK, UNCHANGED <<review, result>>
    PROVE  ScoresOK'
BY DEF ScoresOK, ReviewsAbout

LEMMA ScoresStay == Spec => []ScoresOK
<1>1. Init => ScoresOK
  <2> SUFFICES ASSUME Init PROVE ScoresOK
    OBVIOUS
  <2>1. \A t \in Teams : ReviewsAbout(t) = {}
    BY DEF Init, ReviewsAbout
  <2> QED
    BY <2>1, ScoreOfNone DEF Init, Unscored, Entry, ScoresOK
<1>2. RowsOK /\ ScoresOK /\ [Next]_vars => ScoresOK'
  <2> SUFFICES ASSUME RowsOK, ScoresOK, [Next]_vars PROVE ScoresOK'
    OBVIOUS
  <2> USE DEF entryRows, pairRows, roundRow, rubrics, vars
  <2>1. CASE SetUp
    BY <2>1, ScoresUnchanged DEF SetUp, Configure, SetCriteria, ReplaceCriteria, SetPanel, Assign,
                                 AssignByHand, Start
  <2>2. ASSUME NEW t \in Teams, NEW j \in Judges, NEW s \in Scores, SubmitReview(t, j, s)
        PROVE  ScoresOK'
    <3>1. ReviewsAbout(t)' = ReviewsOf(t) \cup {<<t, j>>}
      BY <2>2, ReviewsOfEntry DEF SubmitReview, ReviewsAbout
    <3>2. ASSUME NEW u \in Teams \ {t}
          PROVE  /\ ReviewsAbout(u)' = ReviewsAbout(u)
                 /\ Score(review', ReviewsAbout(u)) = Score(review, ReviewsAbout(u))
      <4>1. ReviewsAbout(u)' = ReviewsAbout(u) /\ \A p \in ReviewsAbout(u) : review'[p] = review[p]
        BY <2>2 DEF SubmitReview, ReviewsAbout
      <4> QED
        BY <4>1, SameScore
    <3>3. result' = [result EXCEPT ![t] =
                       Entry(Cardinality(ReviewsOf(t) \cup {<<t, j>>}),
                             Score(review', ReviewsOf(t) \cup {<<t, j>>}), @.rank)]
      BY <2>2 DEF SubmitReview
    <3>4. /\ result'[t].count = Cardinality(ReviewsAbout(t)')
          /\ result'[t].score = Score(review', ReviewsAbout(t)')
      BY <3>1, <3>3 DEF ScoresOK, Entry
    <3>5. \A u \in Teams \ {t} : result'[u] = result[u]
      BY <3>3 DEF ScoresOK
    <3>6. result' = [u \in Teams |-> [count |-> result'[u].count, score |-> result'[u].score,
                                      rank |-> result'[u].rank]]
      BY <3>3 DEF ScoresOK, Entry
    <3> QED
      BY <3>2, <3>4, <3>5, <3>6 DEF ScoresOK
  <2>3. ASSUME NEW t \in Teams, NEW j \in Judges, Recuse(t, j) PROVE ScoresOK'
    BY <2>3, ScoresUnchanged DEF Recuse
  <2>4. ASSUME NEW force \in BOOLEAN, Close(force) PROVE ScoresOK'
    <3>1. \A t \in Teams : ReviewsAbout(t)' = ReviewsAbout(t) /\ ReviewsOf(t) = ReviewsAbout(t)
      BY <2>4, ReviewsOfEntry DEF Close, ReviewsAbout
    <3> QED
      BY <2>4, <3>1 DEF Close, ScoresOK, Entry
  <2>5. CASE Reopen
    <3>1. \A t \in Teams : ReviewsAbout(t)' = ReviewsAbout(t)
      BY <2>5 DEF Reopen, ReviewsAbout
    <3> QED
      BY <2>5, <3>1 DEF Reopen, ScoresOK, Entry
  <2>6. CASE Publish \/ Unpublish
    BY <2>6, ScoresUnchanged DEF Publish, Unpublish
  <2>7. ASSUME NEW w \in Workers, CommitRemove(w) PROVE ScoresOK'
    <3>1. busy[w].team \in Teams
      BY <2>7 DEF CommitRemove, RowsOK, Requests, Idle, Editing, Removing
    <3> QED
      BY <2>7, <3>1, ScoresAfterDrop DEF CommitRemove
  <2>8. ASSUME NEW t \in Teams, DeleteTeam(t) PROVE ScoresOK'
    BY <2>8, ScoresAfterDrop DEF DeleteTeam
  <2>9. ASSUME NEW w \in Workers,
               \/ \E T \in SUBSET Teams : Populate(w, T) \/ Advance(w, T)
               \/ \E t \in Teams : AddTeam(w, t) \/ BeginRemove(w, t)
               \/ CommitAdd(w) \/ FailAdd(w) \/ BeginEdit(w) \/ CommitEdit(w)
        PROVE  ScoresOK'
    BY <2>9, ScoresUnchanged DEF Populate, Advance, AddTeam, BeginAdd, BeginRemove, CommitAdd,
                                 FailAdd, BeginEdit, CommitEdit
  <2>10. ASSUME NEW t \in Teams, NEW s \in {"IN", "WAITING", "OUT"}, ChangeTeam(t, s) PROVE ScoresOK'
    BY <2>10, ScoresUnchanged DEF ChangeTeam
  <2>11. CASE UNCHANGED vars
    BY <2>11, ScoresUnchanged
  <2> QED
    BY <2>1, <2>2, <2>3, <2>4, <2>5, <2>6, <2>7, <2>8, <2>9, <2>10, <2>11
    DEF Next, Judge, Decide, EditTeams
<1> QED
  BY <1>1, <1>2, RowsStay, PTL DEF Spec

\* The score and the number of reviews kept on an entry are those of its reviews,
\* whatever requests overlap (_refresh_entry, _rank).
THEOREM EntryMatchesReviewsHolds == Spec => []EntryMatchesReviews
<1>1. RowsOK /\ ScoresOK => EntryMatchesReviews
  BY ReviewsOfEntry DEF RowsOK, ScoresOK, EntryMatchesReviews
<1> QED
  BY <1>1, RowsStay, ScoresStay, PTL

\* What an entry is ranked by is what its judges gave it, and none of them had
\* stepped aside (_refresh_entry, recuse).
THEOREM ScoresAreSoundHolds == Spec => []ScoresAreSound
<1>1. EntryMatchesReviews /\ NoScoreFromRecused => ScoresAreSound
  BY DEF ScoresAreSound
<1> QED
  BY <1>1, EntryMatchesReviewsHolds, NoScoreFromRecusedHolds, PTL
\* While the results of a closed round are published its scores and ranks stand,
\* except of teams that leave it (reopen, close, submit_review).
THEOREM PublishedResultsStandHolds == Spec => PublishedResultsStand
<1> DEFINE Stand == published /\ published' /\ evaluation = "CLOSED" =>
                        \A t \in entries \cap entries' : result'[t] = result[t]
<1>1. RowsOK /\ ScoresOK /\ [Next]_vars => [Stand]_vars
  <2> SUFFICES ASSUME RowsOK, ScoresOK, Next, published, published', evaluation = "CLOSED",
                      NEW t \in entries \cap entries', result' # result
               PROVE  result'[t] = result[t]
    BY DEF vars, entryRows
  <2>1. PICK u \in Teams : DropEntry(u)
    <3>1. ~SetUp /\ ~Judge /\ ~Decide
      BY DEF SetUp, Configure, SetCriteria, ReplaceCriteria, SetPanel, Assign, AssignByHand, Start,
             Judge, SubmitReview, Recuse, Decide, Close, Reopen, Publish, Unpublish, entryRows
    <3>2. EditTeams
      BY <3>1 DEF Next
    <3>3. CASE \E w \in Workers : CommitRemove(w)
      BY <3>3 DEF CommitRemove, RowsOK, Requests, Idle, Editing, Removing
    <3> QED
      BY <3>2, <3>3 DEF EditTeams, Populate, Advance, AddTeam, BeginAdd, BeginRemove, CommitAdd,
                        FailAdd, BeginEdit, CommitEdit, DeleteTeam, ChangeTeam, entryRows
  <2>2. t # u /\ t \in Teams
    BY <2>1 DEF DropEntry, RowsOK
  <2> QED
    BY <2>1, <2>2 DEF DropEntry, ScoresOK
<1> QED
  BY <1>1, RowsStay, ScoresStay, PTL DEF Spec, PublishedResultsStand

\* A review stays as long as its team is in the round, and changes only while
\* judging is open (set_panel, _apply_manual, recuse, close).
THEOREM ReviewsAreKeptHolds == Spec => ReviewsAreKept
<1> DEFINE Kept == \A p \in DOMAIN review : p[1] \in entries' =>
                       /\ p \in DOMAIN review'
                       /\ review'[p] # review[p] => evaluation = "IN_PROGRESS"
<1>1. RowsOK /\ [Next]_vars => [Kept]_vars
  <2> SUFFICES ASSUME RowsOK, Next, NEW p \in DOMAIN review, p[1] \in entries', review' # review
               PROVE  p \in DOMAIN review' /\ (review'[p] # review[p] => evaluation = "IN_PROGRESS")
    BY DEF vars, pairRows
  <2>1. CASE \E t \in Teams, j \in Judges, s \in Scores : SubmitReview(t, j, s)
    BY <2>1 DEF SubmitReview
  <2>2. ASSUME NEW t, DropEntry(t)
        PROVE  p \in DOMAIN review' /\ review'[p] = review[p]
    BY <2>2 DEF DropEntry
  <2>3. ~SetUp /\ ~Decide /\ ~\E t \in Teams, j \in Judges : Recuse(t, j)
    BY DEF SetUp, Configure, SetCriteria, ReplaceCriteria, SetPanel, Assign, AssignByHand, Start,
           Recuse, Decide, Close, Reopen, Publish, Unpublish, pairRows
  <2>4. CASE EditTeams
    BY <2>2, <2>4 DEF EditTeams, Populate, Advance, AddTeam, BeginAdd, BeginRemove, CommitAdd,
                      FailAdd, CommitRemove, BeginEdit, CommitEdit, DeleteTeam, ChangeTeam, pairRows
  <2> QED
    BY <2>1, <2>3, <2>4 DEF Next, Judge
<1> QED
  BY <1>1, RowsStay, PTL DEF Spec, ReviewsAreKept
-----------------------------------------------------------------------------
(* While nobody saves an old copy of the round (Edits = FALSE). *)

\* Judging has a rubric from its start, and no review before it.
RubricOK ==
    /\ \A w \in Workers : busy[w].step # "EDITING"
    /\ evaluation = "NOT_STARTED" => DOMAIN review = {}
    /\ evaluation # "NOT_STARTED" => own # NoRubric
    /\ OneRubric

\* What a removal does to the reviews that stay.
LEMMA RubricAfterDrop ==
    ASSUME RubricOK, NEW t, DropEntry(t), UNCHANGED <<evaluation, own>>,
           \A w \in Workers : busy'[w].step # "EDITING"
    PROVE  RubricOK'
BY DEF RubricOK, OneRubric, DropEntry

\* Nobody saves an old copy of the round: what a worker has begun is no edit.
LEMMA RubricStays ==
    ASSUME Edits = FALSE
    PROVE  Spec => []RubricOK
<1>1. Init => RubricOK
  BY DEF Init, Idle, RubricOK, OneRubric
<1>2. RowsOK /\ RubricOK /\ [Next]_vars => RubricOK'
  <2> SUFFICES ASSUME RowsOK, RubricOK, [Next]_vars PROVE RubricOK'
    OBVIOUS
  <2> USE DEF entryRows, pairRows, roundRow, rubrics, vars
  <2>1. CASE SetUp
    BY <2>1 DEF SetUp, Configure, SetCriteria, ReplaceCriteria, SetPanel, Assign, AssignByHand,
                Start, RubricOK, OneRubric
  <2>2. ASSUME NEW t \in Teams, NEW j \in Judges, NEW s \in Scores, SubmitReview(t, j, s)
        PROVE  RubricOK'
    <3>1. Rubric = own
      BY <2>2 DEF SubmitReview, RubricOK, Rubric
    <3> QED
      BY <2>2, <3>1 DEF SubmitReview, RubricOK, OneRubric
  <2>3. ASSUME NEW t \in Teams, NEW j \in Judges, Recuse(t, j) PROVE RubricOK'
    BY <2>3 DEF Recuse, RubricOK, OneRubric
  <2>4. CASE Decide
    BY <2>4 DEF Decide, Close, Reopen, Publish, Unpublish, RubricOK, OneRubric
  <2>5. ASSUME NEW w \in Workers, CommitRemove(w) PROVE RubricOK'
    <3>1. \A v \in Workers : busy'[v].step # "EDITING"
      BY <2>5 DEF CommitRemove, RowsOK, RubricOK, Idle
    <3> QED
      BY <2>5, <3>1, RubricAfterDrop DEF CommitRemove
  <2>6. ASSUME NEW t \in Teams, DeleteTeam(t) PROVE RubricOK'
    BY <2>6, RubricAfterDrop DEF DeleteTeam, RubricOK
  <2>7. ASSUME NEW w \in Workers,
               \/ \E T \in SUBSET Teams : Populate(w, T) \/ Advance(w, T)
               \/ \E t \in Teams : AddTeam(w, t) \/ BeginRemove(w, t)
               \/ CommitAdd(w) \/ FailAdd(w) \/ BeginEdit(w) \/ CommitEdit(w)
        PROVE  RubricOK'
    <3>1. ~BeginEdit(w) /\ ~CommitEdit(w)
      BY DEF BeginEdit, CommitEdit, RubricOK
    <3>2. UNCHANGED <<evaluation, own, review>>
      BY <2>7, <3>1 DEF Populate, Advance, AddTeam, BeginAdd, BeginRemove, CommitAdd, FailAdd
    <3>3. \E request : request.step # "EDITING" /\ busy' = [busy EXCEPT ![w] = request]
      BY <2>7, <3>1 DEF Populate, Advance, AddTeam, BeginAdd, BeginRemove, CommitAdd, FailAdd,
                        Idle, Adding, Removing
    <3>4. \A v \in Workers : busy'[v].step # "EDITING"
      BY <3>3 DEF RowsOK, RubricOK
    <3> QED
      BY <3>2, <3>4 DEF RubricOK, OneRubric
  <2>8. ASSUME NEW t \in Teams, NEW s \in {"IN", "WAITING", "OUT"}, ChangeTeam(t, s) PROVE RubricOK'
    BY <2>8 DEF ChangeTeam, RubricOK, OneRubric
  <2>9. CASE UNCHANGED vars
    BY <2>9 DEF RubricOK, OneRubric
  <2> QED
    BY <2>1, <2>2, <2>3, <2>4, <2>5, <2>6, <2>7, <2>8, <2>9 DEF Next, Judge, EditTeams
<1> QED
  BY <1>1, <1>2, RowsStay, PTL DEF Spec

\* All reviews of a round that nobody edits score one rubric, the round's own
\* (set_criteria, start, submit_review).
THEOREM OneRubricHolds ==
    ASSUME Edits = FALSE
    PROVE  Spec => []OneRubric
<1>1. RubricOK => OneRubric
  BY DEF RubricOK
<1> QED
  BY <1>1, RubricStays, PTL
\* RankedEnough of every team: one outside the round has no rank to come in with.
\* Ranks wait for the round to be closed, so close starts from none.
RankOK ==
    /\ evaluation # "CLOSED" => \A t \in Teams : result[t].rank = 0
    /\ evaluation = "CLOSED" /\ ~forced =>
           \A t \in Teams : result[t].rank # 0 =>
               Cardinality(ReviewsAbout(t)) >= settings.minReviews

LEMMA CountType ==
    ASSUME RowsOK, NEW t \in Teams
    PROVE  Cardinality(ReviewsAbout(t)) \in Nat
<1>1. ReviewsAbout(t) \subseteq Pairs
  BY DEF RowsOK, ReviewsAbout, Pairs
<1>2. IsFiniteSet(Pairs)
  BY RoundAssumption, FS_Product DEF Pairs
<1> QED
  BY <1>1, <1>2, FS_Subset, FS_CardinalityType

LEMMA RankAfterDrop ==
    ASSUME ScoresOK, RankOK, NEW t \in Teams, DropEntry(t), UNCHANGED roundRow
    PROVE  RankOK'
<1>1. result'[t].rank = 0
  BY DEF DropEntry, ScoresOK, Unscored, Entry
<1>2. \A u \in Teams \ {t} : result'[u] = result[u]
  BY DEF DropEntry, ScoresOK
<1>3. \A u \in Teams \ {t} : ReviewsAbout(u)' = ReviewsAbout(u)
  BY DEF DropEntry, ReviewsAbout
<1> QED
  BY <1>1, <1>2, <1>3 DEF RankOK, roundRow

LEMMA RankStays ==
    ASSUME Edits = FALSE
    PROVE  Spec => []RankOK
<1>1. Init => RankOK
  BY DEF Init, RankOK, Unscored, Entry
<1>2. RowsOK /\ ScoresOK /\ RubricOK /\ RankOK /\ [Next]_vars => RankOK'
  <2> SUFFICES ASSUME RowsOK, ScoresOK, RubricOK, RankOK, [Next]_vars PROVE RankOK'
    OBVIOUS
  <2> USE DEF entryRows, pairRows, roundRow, rubrics, vars
  <2>1. ASSUME UNCHANGED <<review, result, evaluation, forced, settings>> PROVE RankOK'
    BY <2>1 DEF RankOK, ReviewsAbout
  <2>2. ASSUME NEW s \in Settings, Configure(s) PROVE RankOK'
    BY <2>2 DEF Configure, RankOK
  <2>3. CASE Start
    BY <2>3 DEF Start, RankOK
  <2>4. CASE SetUp
    BY <2>1, <2>2, <2>3, <2>4 DEF SetUp, SetCriteria, ReplaceCriteria, SetPanel, Assign, AssignByHand
  <2>5. ASSUME NEW t \in Teams, NEW j \in Judges, NEW s \in Scores, SubmitReview(t, j, s)
        PROVE  RankOK'
    BY <2>5 DEF SubmitReview, RankOK, ScoresOK, Entry
  <2>6. ASSUME NEW t \in Teams, NEW j \in Judges, Recuse(t, j) PROVE RankOK'
    BY <2>1, <2>6 DEF Recuse
  <2>7. ASSUME NEW force \in BOOLEAN, Close(force) PROVE RankOK'
    <3> SUFFICES ASSUME ~forced', NEW t \in Teams, result'[t].rank # 0
                 PROVE  Cardinality(ReviewsAbout(t)') >= settings.minReviews
      BY <2>7 DEF Close, RankOK
    <3>1. t \in Live(entries)
      BY <2>7 DEF Close, RankOK
    <3>2. ~(Cardinality(ReviewsOf(t)) < settings.minReviews)
      BY <2>7, <3>1 DEF Close, UnderReviewed
    <3>3. ReviewsAbout(t)' = ReviewsAbout(t) /\ ReviewsOf(t) = ReviewsAbout(t)
      BY <2>7, ReviewsOfEntry DEF Close, ReviewsAbout
    <3>4. settings.minReviews \in Nat
      BY RoundAssumption DEF RowsOK
    <3> QED
      BY <3>2, <3>3, <3>4, CountType
  <2>8. CASE Reopen
    BY <2>8 DEF Reopen, RankOK, Entry
  <2>9. CASE Publish \/ Unpublish
    BY <2>1, <2>9 DEF Publish, Unpublish
  <2>10. ASSUME NEW w \in Workers, CommitRemove(w) PROVE RankOK'
    <3>1. busy[w].team \in Teams
      BY <2>10 DEF CommitRemove, RowsOK, Requests, Idle, Editing, Removing
    <3> QED
      BY <2>10, <3>1, RankAfterDrop DEF CommitRemove
  <2>11. ASSUME NEW t \in Teams, DeleteTeam(t) PROVE RankOK'
    BY <2>11, RankAfterDrop DEF DeleteTeam
  <2>12. ASSUME NEW w \in Workers,
                \/ \E T \in SUBSET Teams : Populate(w, T) \/ Advance(w, T)
                \/ \E t \in Teams : AddTeam(w, t) \/ BeginRemove(w, t)
                \/ CommitAdd(w) \/ FailAdd(w) \/ BeginEdit(w) \/ CommitEdit(w)
         PROVE  RankOK'
    <3>1. ~CommitEdit(w)
      BY DEF CommitEdit, RubricOK
    <3> QED
      BY <2>1, <2>12, <3>1 DEF Populate, Advance, AddTeam, BeginAdd, BeginRemove, CommitAdd,
                               FailAdd, BeginEdit
  <2>13. ASSUME NEW t \in Teams, NEW s \in {"IN", "WAITING", "OUT"}, ChangeTeam(t, s) PROVE RankOK'
    BY <2>1, <2>13 DEF ChangeTeam
  <2>14. CASE UNCHANGED vars
    BY <2>1, <2>14
  <2> QED
    BY <2>4, <2>5, <2>6, <2>7, <2>8, <2>9, <2>10, <2>11, <2>12, <2>13, <2>14
    DEF Next, Judge, Decide, EditTeams
<1> QED
  BY <1>1, <1>2, RowsStay, ScoresStay, RubricStays, PTL DEF Spec

\* A round nobody edits that was not forced closed ranks no team on fewer reviews
\* than it needs, whatever became of its teams and panel since (close, reopen).
THEOREM RankedEnoughHolds ==
    ASSUME Edits = FALSE
    PROVE  Spec => []RankedEnough
<1>1. RowsOK /\ RankOK => RankedEnough
  <2> SUFFICES ASSUME RowsOK, RankOK, evaluation = "CLOSED", ~forced,
                      NEW t \in entries, result[t].rank > 0
               PROVE  Cardinality(ReviewsOf(t)) >= settings.minReviews
    BY DEF RankedEnough
  <2>1. t \in Teams /\ result[t].rank # 0
    BY DEF RowsOK
  <2> QED
    BY <2>1, ReviewsOfEntry DEF RankOK
<1> QED
  BY <1>1, RowsStay, RankStays, PTL

-----------------------------------------------------------------------------
(* The types that RowsOK and ScoresOK leave open. *)

ValuesOK ==
    /\ review \in [DOMAIN review -> [score : Scores, rubric : Rubrics]]
    /\ own \in Rubrics \cup {NoRubric}
    /\ shared \in Rubrics \cup {NoRubric}
    /\ forced \in BOOLEAN
    /\ \A t \in Teams : result[t].rank \in Nat

\* A rank is a number.
LEMMA RankType == ASSUME RowsOK, NEW t PROVE Rank(t) \in Nat
<1> DEFINE ranked == {u \in Live(entries) : ReviewsOf(u) # {}}
<1>1. {u \in ranked : Beats(u, t)} \subseteq Teams
  BY DEF Live, RowsOK
<1>2. Cardinality({u \in ranked : Beats(u, t)}) \in Nat
  BY <1>1, RoundAssumption, FS_Subset, FS_CardinalityType
<1> QED
  BY <1>2 DEF Rank

LEMMA ValuesAfterDrop ==
    ASSUME ScoresOK, ValuesOK, NEW t \in Teams, DropEntry(t), UNCHANGED <<forced, rubrics>>
    PROVE  ValuesOK'
<1>1. \A u \in Teams : result'[u].rank \in Nat
  BY DEF DropEntry, ScoresOK, ValuesOK, Unscored, Entry
<1>2. review' \in [DOMAIN review' -> [score : Scores, rubric : Rubrics]]
  <2>1. review' = [p \in {p \in DOMAIN review : p[1] # t} |-> review[p]]
    BY DEF DropEntry
  <2> QED
    BY <2>1 DEF ValuesOK
<1> QED
  BY <1>1, <1>2 DEF ValuesOK, rubrics

LEMMA ValuesStay == Spec => []ValuesOK
<1>1. Init => ValuesOK
  <2>1. DOMAIN <<>> = {}
    OBVIOUS
  <2>2. \A t \in Teams : Unscored.rank \in Nat
    BY DEF Unscored, Entry
  <2>3. ASSUME review = <<>>
        PROVE  review \in [DOMAIN review -> [score : Scores, rubric : Rubrics]]
    BY <2>1, <2>3
  <2> QED
    BY <2>2, <2>3 DEF Init, ValuesOK
<1>2. RowsOK /\ ScoresOK /\ ValuesOK /\ [Next]_vars => ValuesOK'
  <2> SUFFICES ASSUME RowsOK, ScoresOK, ValuesOK, [Next]_vars PROVE ValuesOK'
    OBVIOUS
  <2> USE DEF entryRows, pairRows, roundRow, rubrics, vars
  <2>1. ASSUME UNCHANGED <<review, result, own, shared, forced>> PROVE ValuesOK'
    BY <2>1 DEF ValuesOK
  <2>2. ASSUME NEW r \in Rubrics \cup {NoRubric}, SetCriteria(r) \/ ReplaceCriteria(r)
        PROVE  ValuesOK'
    BY <2>2 DEF SetCriteria, ReplaceCriteria, ValuesOK
  <2>3. CASE Start
    BY <2>3 DEF Start, Rubric, ValuesOK
  <2>4. CASE SetUp
    BY <2>1, <2>2, <2>3, <2>4 DEF SetUp, Configure, SetPanel, Assign, AssignByHand
  <2>5. ASSUME NEW t \in Teams, NEW j \in Judges, NEW s \in Scores, SubmitReview(t, j, s)
        PROVE  ValuesOK'
    <3>1. Rubric \in Rubrics
      BY <2>5 DEF SubmitReview, Rubric, ValuesOK
    <3>2. \A u \in Teams : result'[u].rank = result[u].rank
      BY <2>5 DEF SubmitReview, ScoresOK, Entry
    <3> DEFINE D == DOMAIN review \cup {<<t, j>>}
    <3>3. review' = [p \in D |-> IF p = <<t, j>> THEN [score |-> s, rubric |-> Rubric] ELSE review[p]]
      BY <2>5 DEF SubmitReview
    <3>4. review' \in [D -> [score : Scores, rubric : Rubrics]]
      BY <3>1, <3>3 DEF ValuesOK
    <3>5. DOMAIN review' = D
      BY <3>3
    <3>6. own' = own /\ shared' = shared /\ forced' = forced
      BY <2>5 DEF SubmitReview
    <3> QED
      BY <3>2, <3>4, <3>5, <3>6 DEF ValuesOK
  <2>6. ASSUME NEW t \in Teams, NEW j \in Judges, Recuse(t, j) PROVE ValuesOK'
    BY <2>1, <2>6 DEF Recuse
  <2>7. ASSUME NEW force \in BOOLEAN, Close(force) PROVE ValuesOK'
    <3>1. \A t \in Teams : result'[t].rank \in Nat
      BY <2>7, RankType DEF Close, ValuesOK, Entry
    <3> QED
      BY <2>7, <3>1 DEF Close, ValuesOK
  <2>8. CASE Reopen
    BY <2>8 DEF Reopen, ValuesOK, Entry
  <2>9. CASE Publish \/ Unpublish
    BY <2>1, <2>9 DEF Publish, Unpublish
  <2>10. ASSUME NEW w \in Workers, CommitRemove(w) PROVE ValuesOK'
    <3>1. busy[w].team \in Teams
      BY <2>10 DEF CommitRemove, RowsOK, Requests, Idle, Editing, Removing
    <3> QED
      BY <2>10, <3>1, ValuesAfterDrop DEF CommitRemove
  <2>11. ASSUME NEW t \in Teams, DeleteTeam(t) PROVE ValuesOK'
    BY <2>11, ValuesAfterDrop DEF DeleteTeam
  <2>12. ASSUME NEW w \in Workers,
                \/ \E T \in SUBSET Teams : Populate(w, T) \/ Advance(w, T)
                \/ \E t \in Teams : AddTeam(w, t) \/ BeginRemove(w, t)
                \/ CommitAdd(w) \/ FailAdd(w) \/ BeginEdit(w) \/ CommitEdit(w)
         PROVE  ValuesOK'
    BY <2>1, <2>12 DEF Populate, Advance, AddTeam, BeginAdd, BeginRemove, CommitAdd, FailAdd,
                       BeginEdit, CommitEdit
  <2>13. ASSUME NEW t \in Teams, NEW s \in {"IN", "WAITING", "OUT"}, ChangeTeam(t, s) PROVE ValuesOK'
    BY <2>1, <2>13 DEF ChangeTeam
  <2>14. CASE UNCHANGED vars
    BY <2>1, <2>14
  <2> QED
    BY <2>4, <2>5, <2>6, <2>7, <2>8, <2>9, <2>10, <2>11, <2>12, <2>13, <2>14
    DEF Next, Judge, Decide, EditTeams
<1> QED
  BY <1>1, <1>2, RowsStay, ScoresStay, PTL DEF Spec

\* Every row keeps its type and refers to rows that exist, whatever requests
\* overlap, and scores stay numbers (_rank, and the commits of populate_entries).
THEOREM TypeCorrect == Spec => []TypeOK
<1>1. RowsOK /\ ScoresOK /\ ValuesOK => TypeOK
  <2> SUFFICES ASSUME RowsOK, ScoresOK, ValuesOK PROVE TypeOK
    OBVIOUS
  <2>1. \A t \in Teams : result[t].count \in Nat /\ result[t].score \in Nat
    <3> SUFFICES ASSUME NEW t \in Teams
                 PROVE  result[t].count \in Nat /\ result[t].score \in Nat
      OBVIOUS
    <3>1. ReviewsAbout(t) \subseteq Pairs
      BY DEF RowsOK, ReviewsAbout, Pairs
    <3> QED
      BY <3>1, CountType, ScoreType DEF ScoresOK
  <2>2. result \in [Teams -> [count : Nat, score : Nat, rank : Nat]]
    BY <2>1 DEF ScoresOK, ValuesOK
  <2> QED
    BY <2>2 DEF TypeOK, RowsOK, ValuesOK
<1> QED
  BY <1>1, RowsStay, ScoresStay, ValuesStay, PTL

-----------------------------------------------------------------------------
(* Ranks. *)

\* Beats, of the reviews that no removal of another team touches.
Above(t, u) ==
    LET a == Score(review, ReviewsAbout(t))
        b == Score(review, ReviewsAbout(u))
    IN  \/ a > b
        \/ /\ a = b
           /\ settings.byCriteria
           /\ Heaviest(review, ReviewsAbout(t)) > Heaviest(review, ReviewsAbout(u))

OrderOK ==
    evaluation = "CLOSED" =>
        \A t, u \in Teams :
            result[t].rank # 0 /\ result[u].rank # 0 =>
                (Above(t, u) <=> result[t].rank < result[u].rank)

LEMMA BeatsIsAbove ==
    ASSUME RowsOK, NEW t \in Teams, NEW u \in Teams
    PROVE  Beats(t, u) <=> Above(t, u)
BY ReviewsOfEntry DEF Beats, Above

\* Being above is an order in which ties are ties with everybody else too.
LEMMA AboveIsOrder ==
    ASSUME RowsOK, NEW t \in Teams, NEW u \in Teams, NEW v \in Teams
    PROVE  /\ ~Above(t, t)
           /\ Above(v, t) /\ Above(t, u) => Above(v, u)
           /\ Above(v, u) /\ ~Above(t, u) => Above(v, t)
<1>1. \A x \in Teams : /\ Score(review, ReviewsAbout(x)) \in Nat
                       /\ Heaviest(review, ReviewsAbout(x)) \in Nat
  <2>1. \A x \in Teams : ReviewsAbout(x) \subseteq Pairs
    BY DEF RowsOK, ReviewsAbout, Pairs
  <2> QED
    BY <2>1, ScoreType
<1> QED
  BY <1>1 DEF Above

\* Counting those above gives ranks in the same order, ties included.
LEMMA RanksOrder ==
    ASSUME RowsOK, NEW t \in Teams, NEW u \in Teams, Rank(t) # 0, Rank(u) # 0
    PROVE  Above(t, u) <=> Rank(t) < Rank(u)
<1> DEFINE ranked == {x \in Live(entries) : ReviewsOf(x) # {}}
           better(y) == {x \in ranked : Beats(x, y)}
<1>1. /\ t \in ranked /\ u \in ranked /\ ranked \subseteq Teams
      /\ Rank(t) = 1 + Cardinality(better(t))
      /\ Rank(u) = 1 + Cardinality(better(u))
  BY DEF Rank, Live, RowsOK
<1>2. \A y : better(y) \subseteq Teams
  BY <1>1
<1>3. \A y : IsFiniteSet(better(y)) /\ Cardinality(better(y)) \in Nat
  BY <1>2, RoundAssumption, FS_Subset, FS_CardinalityType
<1>4. \A y \in {t, u} : better(y) = {x \in ranked : Above(x, y)}
  BY <1>1, BeatsIsAbove
<1> HIDE DEF ranked, better
<1>5. CASE Above(t, u)
  <2>1. better(t) \subseteq better(u)
    BY <1>1, <1>4, <1>5, AboveIsOrder
  <2>2. t \in better(u) /\ t \notin better(t)
    BY <1>1, <1>4, <1>5, AboveIsOrder
  <2>3. /\ Cardinality(better(t)) <= Cardinality(better(u))
        /\ Cardinality(better(t)) # Cardinality(better(u))
    BY <1>3, <2>1, <2>2, FS_Subset
  <2> QED
    BY <1>1, <1>3, <1>5, <2>3
<1>6. CASE ~Above(t, u)
  <2>1. better(u) \subseteq better(t)
    BY <1>1, <1>4, <1>6, AboveIsOrder
  <2>2. Cardinality(better(u)) <= Cardinality(better(t))
    BY <1>3, <2>1, FS_Subset
  <2> QED
    BY <1>1, <1>3, <1>6, <2>2
<1> QED
  BY <1>5, <1>6

\* Two teams keep their order while their reviews and the rule for ties stay.
LEMMA OrderKept ==
    ASSUME NEW t, NEW u, settings' = settings,
           \A x \in {t, u} : /\ ReviewsAbout(x)' = ReviewsAbout(x)
                             /\ \A p \in ReviewsAbout(x) : review'[p] = review[p]
    PROVE  Above(t, u)' <=> Above(t, u)
<1>1. \A x \in {t, u} : /\ Score(review', ReviewsAbout(x)) = Score(review, ReviewsAbout(x))
                        /\ Heaviest(review', ReviewsAbout(x)) = Heaviest(review, ReviewsAbout(x))
  BY SameScore
<1> QED
  BY <1>1 DEF Above

LEMMA OrderAfterDrop ==
    ASSUME ScoresOK, OrderOK, NEW t \in Teams, DropEntry(t), UNCHANGED roundRow
    PROVE  OrderOK'
<1>1. result'[t].rank = 0
  BY DEF DropEntry, ScoresOK, Unscored, Entry
<1>2. \A u \in Teams \ {t} : result'[u] = result[u]
  BY DEF DropEntry, ScoresOK
<1>3. \A u \in Teams \ {t} : ReviewsAbout(u)' = ReviewsAbout(u)
                             /\ \A p \in ReviewsAbout(u) : review'[p] = review[p]
  BY DEF DropEntry, ReviewsAbout
<1>4. \A u, v \in Teams \ {t} : Above(u, v)' <=> Above(u, v)
  BY <1>3, OrderKept DEF roundRow
<1> QED
  BY <1>1, <1>2, <1>4 DEF OrderOK, roundRow

LEMMA OrderStays ==
    ASSUME Edits = FALSE
    PROVE  Spec => []OrderOK
<1>1. Init => OrderOK
  BY DEF Init, OrderOK
<1>2. RowsOK /\ ScoresOK /\ RubricOK /\ RankOK /\ OrderOK /\ [Next]_vars => OrderOK'
  <2> SUFFICES ASSUME RowsOK, ScoresOK, RubricOK, RankOK, OrderOK, [Next]_vars
               PROVE  OrderOK'
    OBVIOUS
  <2> USE DEF entryRows, pairRows, roundRow, rubrics, vars
  <2>1. ASSUME UNCHANGED <<review, result, evaluation, settings>> PROVE OrderOK'
    BY <2>1 DEF OrderOK, Above, ReviewsAbout
  <2>2. ASSUME evaluation' # "CLOSED" PROVE OrderOK'
    BY <2>2 DEF OrderOK
  <2>3. CASE SetUp
    <3>1. ASSUME NEW s \in Settings, Configure(s) PROVE evaluation' # "CLOSED"
      BY <3>1 DEF Configure
    <3>2. CASE Start
      BY <2>2, <3>2 DEF Start
    <3> QED
      BY <2>1, <2>2, <2>3, <3>1, <3>2 DEF SetUp, SetCriteria, ReplaceCriteria, SetPanel, Assign, AssignByHand
  <2>4. CASE Judge
    BY <2>2, <2>4 DEF Judge, SubmitReview, Recuse
  <2>5. ASSUME NEW force \in BOOLEAN, Close(force) PROVE OrderOK'
    <3>1. \A t \in Teams : result[t].rank = 0
      BY <2>5 DEF Close, RankOK
    <3>2. /\ review' = review /\ settings' = settings
          /\ \A t \in Teams : result'[t].rank # 0 => result'[t].rank = Rank(t)
      BY <2>5, <3>1 DEF Close, Entry
    <3>3. \A t, u \in Teams : Above(t, u)' <=> Above(t, u)
      BY <3>2 DEF Above, ReviewsAbout
    <3>4. \A t, u \in Teams : Rank(t) # 0 /\ Rank(u) # 0 => (Above(t, u) <=> Rank(t) < Rank(u))
      BY RanksOrder
    <3> QED
      BY <3>2, <3>3, <3>4 DEF OrderOK
  <2>6. CASE Reopen
    BY <2>2, <2>6 DEF Reopen
  <2>7. CASE Publish \/ Unpublish
    BY <2>1, <2>7 DEF Publish, Unpublish
  <2>8. ASSUME NEW w \in Workers, CommitRemove(w) PROVE OrderOK'
    <3>1. busy[w].team \in Teams
      BY <2>8 DEF CommitRemove, RowsOK, Requests, Idle, Editing, Removing
    <3> QED
      BY <2>8, <3>1, OrderAfterDrop DEF CommitRemove
  <2>9. ASSUME NEW t \in Teams, DeleteTeam(t) PROVE OrderOK'
    BY <2>9, OrderAfterDrop DEF DeleteTeam
  <2>10. ASSUME NEW w \in Workers,
                \/ \E T \in SUBSET Teams : Populate(w, T) \/ Advance(w, T)
                \/ \E t \in Teams : AddTeam(w, t) \/ BeginRemove(w, t)
                \/ CommitAdd(w) \/ FailAdd(w) \/ BeginEdit(w) \/ CommitEdit(w)
         PROVE  OrderOK'
    <3>1. ~CommitEdit(w)
      BY DEF CommitEdit, RubricOK
    <3> QED
      BY <2>1, <2>10, <3>1 DEF Populate, Advance, AddTeam, BeginAdd, BeginRemove, CommitAdd,
                               FailAdd, BeginEdit
  <2>11. ASSUME NEW t \in Teams, NEW s \in {"IN", "WAITING", "OUT"}, ChangeTeam(t, s) PROVE OrderOK'
    BY <2>1, <2>11 DEF ChangeTeam
  <2>12. CASE UNCHANGED vars
    BY <2>1, <2>12
  <2> QED
    BY <2>3, <2>4, <2>5, <2>6, <2>7, <2>8, <2>9, <2>10, <2>11, <2>12
    DEF Next, Decide, EditTeams
<1> QED
  BY <1>1, <1>2, RowsStay, ScoresStay, RubricStays, RankStays, PTL DEF Spec

\* In a round nobody edits, ranks exist only while it is closed, order the ranked
\* teams exactly as their reviews do, ties included, and come from enough reviews,
\* whoever left or joined since (_rank, close, reopen).
THEOREM RanksAreEarnedHolds ==
    ASSUME Edits = FALSE
    PROVE  Spec => []RanksAreEarned
<1>1. RowsOK /\ RankOK /\ OrderOK /\ ValuesOK => RanksFollowReviews
  <2> SUFFICES ASSUME RowsOK, RankOK, OrderOK, ValuesOK PROVE RanksFollowReviews
    OBVIOUS
  <2>1. \A t \in entries : t \in Teams /\ (result[t].rank > 0 <=> result[t].rank # 0)
    BY DEF RowsOK, ValuesOK
  <2>2. \A t \in entries : result[t].rank > 0 => evaluation = "CLOSED"
    BY <2>1 DEF RankOK
  <2> QED
    BY <2>1, <2>2, BeatsIsAbove DEF RanksFollowReviews, OrderOK
<1>2. Spec => []RanksFollowReviews
  BY <1>1, RowsStay, RankStays, OrderStays, ValuesStay, PTL
<1> QED
  BY <1>2, RankedEnoughHolds, PTL DEF RanksAreEarned
=============================================================================
