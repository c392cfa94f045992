------------------------------ MODULE Judging ------------------------------
(***************************************************************************)
(* Hackathon-wide judging of projects (judging.py, access.py,              *)
(* submissions.py): the rubric, the judges, their reviews, the score and   *)
(* the number of reviews kept on each project, the leaderboard and its     *)
(* publication.  Ideas are scored by the same code against a rubric of     *)
(* their own.                                                              *)
(*                                                                         *)
(* Nothing here locks a row.  A review is written and averaged with the    *)
(* reviews committed by then, and a new rubric re-totals the reviews it    *)
(* had read: each is two steps, taken by one of Requests, so with several  *)
(* of these what one read may be old when it commits.                      *)
(*                                                                         *)
(* A review gives each criterion all its points or none, criteria weigh    *)
(* the same, and totals and averages are rounded down to whole points.     *)
(***************************************************************************)
EXTENDS Integers, FiniteSets

CONSTANTS Teams, People, Criteria, Requests

VARIABLES
    rubric,    \* the criteria of this hackathon's projects
    judge,     \* who holds the permission to score
    on,        \* the team each person is on, or NoTeam
    project,   \* per team: none, on the leaderboard, or of a team that is out
    review,    \* SubmissionReview: what it credits and its total, or NoReview
    kept,      \* Submission.score and review_count
    published, \* Hackathon.results_published_at is set
    awarded,   \* Hackathon.winners is not empty
    req        \* what each request has read and not committed

vars == <<rubric, judge, on, project, review, kept, published, awarded, req>>

NoTeam   == "NO_TEAM"
NoReview == [credits |-> {}, total |-> -1]
Idle     == [op |-> "IDLE"]
Points   == 0 .. 100
Kept     == [score : Points, count : 0 .. Cardinality(People)]
Reviews  == [credits : SUBSET Criteria, total : Points] \cup {NoReview}

TypeOK ==
    /\ rubric \subseteq Criteria
    /\ judge \subseteq People
    /\ on \in [People -> Teams \cup {NoTeam}]
    /\ project \in [Teams -> {"NONE", "LISTED", "OUT"}]
    /\ review \in [Teams \X People -> Reviews]
    /\ kept \in [Teams -> Kept]
    /\ published \in BOOLEAN
    /\ awarded \in BOOLEAN
    /\ \A k \in Requests : \/ req[k] = Idle
                           \/ req[k].op = "REVIEW" /\ req[k].kept \in Kept
                           \/ req[k].op = "RUBRIC" /\ req[k].review \in [Teams \X People -> Reviews]

Init ==
    /\ rubric = {} /\ judge = {} /\ awarded = FALSE
    /\ on = [p \in People |-> NoTeam]
    /\ project = [t \in Teams |-> "NONE"]
    /\ review = [x \in Teams \X People |-> NoReview]
    /\ kept = [t \in Teams |-> [score |-> 0, count |-> 0]]
    /\ published = FALSE
    /\ req = [k \in Requests |-> Idle]

-----------------------------------------------------------------------------
\* weighted_total: the share of the rubric that is credited, of 100.
Total(credits, criteria) ==
    IF criteria = {} THEN 0 ELSE (100 * Cardinality(credits)) \div Cardinality(criteria)

\* recalculate: the average and the number of the reviews of a project.  The
\* sum of the totals is that of their points, counted one by one.
Stats(reviews, t) ==
    LET given == {p \in People : reviews[<<t, p>>] # NoReview}
        sum   == Cardinality({x \in given \X Points : 0 < x[2] /\ x[2] <= reviews[<<t, x[1]>>].total})
    IN  [score |-> IF given = {} THEN 0 ELSE sum \div Cardinality(given),
         count |-> Cardinality(given)]

Written(t, p, credits) ==
    [review EXCEPT ![<<t, p>>] = [credits |-> credits, total |-> Total(credits, rubric)]]

\* Two reviews of one judge wait for each other on their unique row.
BeginReview(k, t, p, credits) ==
    /\ req[k] = Idle
    /\ project[t] # "NONE" /\ p \in judge /\ ~published
    /\ on[p] # t /\ rubric # {} /\ credits \subseteq rubric
    /\ \A l \in Requests : req[l].op = "REVIEW" => <<req[l].team, req[l].by>> # <<t, p>>
    /\ LET after == Written(t, p, credits)
       IN  req' = [req EXCEPT ![k] = [op |-> "REVIEW", team |-> t, by |-> p,
                                      wrote |-> after[<<t, p>>], kept |-> Stats(after, t)]]
    /\ UNCHANGED <<rubric, judge, on, project, review, kept, published, awarded>>

CommitReview(k) ==
    /\ req[k].op = "REVIEW"
    /\ review' = [review EXCEPT ![<<req[k].team, req[k].by>>] = req[k].wrote]
    /\ kept' = [kept EXCEPT ![req[k].team] = req[k].kept]
    /\ req' = [req EXCEPT ![k] = Idle]
    /\ UNCHANGED <<rubric, judge, on, project, published, awarded>>

\* CriteriaService.replace: the reviews are read, then re-totalled and saved.
BeginReplace(k, criteria) ==
    /\ req[k] = Idle /\ criteria # rubric
    /\ req' = [req EXCEPT ![k] = [op |-> "RUBRIC", criteria |-> criteria, review |-> review]]
    /\ UNCHANGED <<rubric, judge, on, project, review, kept, published, awarded>>

\* Mutant: the totals change, the averages kept on the projects do not.
CommitReplaceReviewsOnly(k) ==
    /\ req[k].op = "RUBRIC"
    /\ LET c == req[k].criteria
           read == req[k].review
       IN  /\ rubric' = c
           /\ review' = [x \in Teams \X People |->
                  IF read[x] = NoReview THEN review[x]
                  ELSE [credits |-> read[x].credits \cap c, total |-> Total(read[x].credits \cap c, c)]]
    /\ req' = [req EXCEPT ![k] = Idle]
    /\ UNCHANGED <<judge, on, project, kept, published, awarded>>

CommitReplace(k) ==
    /\ req[k].op = "RUBRIC"
    /\ LET c == req[k].criteria
           read == req[k].review
       IN  /\ rubric' = c
           /\ review' = [x \in Teams \X People |->
                  IF read[x] = NoReview THEN review[x]
                  ELSE [credits |-> read[x].credits \cap c, total |-> Total(read[x].credits \cap c, c)]]
    /\ kept' = [t \in Teams |-> Stats(review', t)]
    /\ req' = [req EXCEPT ![k] = Idle]
    /\ UNCHANGED <<judge, on, project, published, awarded>>

-----------------------------------------------------------------------------
\* StaffService: participants cannot be given the permission; removing it
\* keeps the reviews.
SetJudge(p) ==
    /\ p \notin judge => on[p] = NoTeam
    /\ judge' = IF p \in judge THEN judge \ {p} ELSE judge \cup {p}
    /\ UNCHANGED <<rubric, on, project, review, kept, published, awarded, req>>

JoinTeam(p, t) ==
    /\ on[p] = NoTeam
    /\ on' = [on EXCEPT ![p] = t]
    /\ UNCHANGED <<rubric, judge, project, review, kept, published, awarded, req>>

\* SubmissionService.save, by a registered team whose idea lets it.
SubmitProject(t) ==
    /\ project[t] = "NONE"
    /\ project' = [project EXCEPT ![t] = "LISTED"]
    /\ UNCHANGED <<rubric, judge, on, review, kept, published, awarded, req>>

\* The team is waitlisted, withdrawn or disqualified, or comes back.
SetTeam(t, state) ==
    /\ project[t] # "NONE" /\ state \in {"LISTED", "OUT"} \ {project[t]}
    /\ project' = [project EXCEPT ![t] = state]
    /\ UNCHANGED <<rubric, judge, on, review, kept, published, awarded, req>>

\* A request that would save a row of a deleted team fails and changes nothing.
Fails(k, t) ==
    \/ req[k].op = "REVIEW" /\ req[k].team = t
    \/ req[k].op = "RUBRIC" /\ \E p \in People : req[k].review[<<t, p>>] # NoReview

\* The team's row takes its project, reviews and awards with it.
DeleteTeam(t) ==
    /\ project[t] # "NONE"
    /\ project' = [project EXCEPT ![t] = "NONE"]
    /\ review' = [x \in Teams \X People |-> IF x[1] = t THEN NoReview ELSE review[x]]
    /\ kept' = [kept EXCEPT ![t] = [score |-> 0, count |-> 0]]
    /\ on' = [p \in People |-> IF on[p] = t THEN NoTeam ELSE on[p]]
    /\ awarded' \in {awarded, FALSE}
    /\ req' = [k \in Requests |-> IF Fails(k, t) THEN Idle ELSE req[k]]
    /\ UNCHANGED <<rubric, judge, published>>

\* ResultsService: winners may be set at any time, published ones too.
SetWinners(some) ==
    /\ some # awarded
    /\ awarded' = some
    /\ UNCHANGED <<rubric, judge, on, project, review, kept, published, req>>

Publish(showLeaderboard) ==
    /\ ~published
    /\ awarded \/ showLeaderboard
    /\ published' = TRUE
    /\ UNCHANGED <<rubric, judge, on, project, review, kept, awarded, req>>

Unpublish ==
    /\ published
    /\ published' = FALSE
    /\ UNCHANGED <<rubric, judge, on, project, review, kept, awarded, req>>

JudgeStep(k) ==
    \/ \E t \in Teams, p \in People, c \in SUBSET Criteria : BeginReview(k, t, p, c)
    \/ \E c \in SUBSET Criteria : BeginReplace(k, c)
    \/ CommitReview(k)
    \/ CommitReplace(k)
TeamStep(t) == \/ SubmitProject(t) \/ DeleteTeam(t)
               \/ \E s \in {"LISTED", "OUT"} : SetTeam(t, s)
               \/ \E p \in People : JoinTeam(p, t)

Next == \/ \E k \in Requests : JudgeStep(k)
        \/ \E t \in Teams : TeamStep(t)
        \/ \E p \in People : SetJudge(p)
        \/ \E b \in BOOLEAN : SetWinners(b)
        \/ \E b \in BOOLEAN : Publish(b)
        \/ Unpublish
Spec == Init /\ [][Next]_vars

-----------------------------------------------------------------------------
\* JudgingService.leaderboard: by score, equal scores share the first rank.
Listed   == {t \in Teams : project[t] = "LISTED"}
Place(t) == 1 + Cardinality({u \in Listed : kept[u].score > kept[t].score})

(* The leaderboard ranks projects by the reviews that stand: a project is  *)
(* behind exactly those with a better average over their own reviews, and  *)
(* shows as many reviews as it has, whatever was re-scored, whichever      *)
(* rubric is in force and whoever has left.  (models.Submission.score is   *)
(* the "Average judge score out of 100"; recalculate, recalculate_all.)    *)
LeaderboardFollowsReviews ==
    \A t \in Listed :
        /\ Place(t) = 1 + Cardinality({u \in Listed : Stats(review, u).score > Stats(review, t).score})
        /\ kept[t].count = Stats(review, t).count
=============================================================================
