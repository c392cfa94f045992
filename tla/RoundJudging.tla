---------------------------- MODULE RoundJudging ----------------------------
(***************************************************************************)
(* One round judged by a panel (round_judging.py), and the organizers'     *)
(* requests that put teams in the round, take them out of it, publish its  *)
(* results (RoundService in services.py) and edit it (views.py).           *)
(*                                                                         *)
(* Every operation of RoundJudgingService locks the round's row and is one *)
(* step. The organizers' other requests do not lock it: they work on the   *)
(* round as the view loaded it, so adding and removing teams and editing   *)
(* the round are two steps each, a request that reads and a commit that    *)
(* writes, and judging goes on in between. A commit that the database      *)
(* refuses (a row it refers to is gone) changes nothing.                   *)
(*                                                                         *)
(* What can only refuse a request, and changes nothing else here, is left  *)
(* out: the scoring deadline, the judges' and organizers' permissions, a   *)
(* judge who takes part in the hackathon, the wording of reasons.  A       *)
(* review's score is its weighted total; of the criteria it only keeps the *)
(* heaviest one's, the first to break a tie.                               *)
(***************************************************************************)
EXTENDS Integers, FiniteSetsExt

CONSTANTS Teams,      \* the hackathon's teams, numbered in the order of names
          Judges,     \* users who may judge it, by their id
          Workers,    \* those that serve a request which takes no lock
          Rubrics,    \* lists of criteria
          NoRubric,   \* the empty one
          MaxScore,   \* the highest weighted total
          Scores,     \* what a judge may give: [total, heaviest]
          Settings,   \* how a round may be judged:
                      \* [mode, perTeam, minReviews, byCriteria]
          First,      \* how it is when the round is created
          Queues,     \* whether the hackathon has a waitlist
          Edits       \* whether the round's name or dates are edited meanwhile

ASSUME RoundAssumption ==
    /\ Teams \subseteq Nat /\ IsFiniteSet(Teams)
    /\ Judges \subseteq Nat /\ IsFiniteSet(Judges)
    /\ NoRubric \notin Rubrics
    /\ MaxScore \in Nat
    /\ Scores \subseteq [total : 0..MaxScore, heaviest : 0..MaxScore]
    /\ Settings \subseteq [mode : {"ALL", "BALANCED", "MANUAL"}, perTeam : Nat \ {0},
                           minReviews : Nat \ {0}, byCriteria : BOOLEAN]
    /\ First \in Settings
    /\ Queues \in BOOLEAN /\ Edits \in BOOLEAN

VARIABLES
    team,        \* whether each team is IN the hackathon, WAITING in its queue
                 \* (REGISTERED and waitlisted), OUT of it or DELETED
    entries,     \* the teams with a RoundEntry
    result,      \* RoundEntry's review_count, score and final_rank (0 for none)
    panel,       \* the RoundJudges
    assigned,    \* the RoundAssignments, <<team, judge>>
    recused,     \* those whose judge stepped aside
    review,      \* the RoundReview of each assignment that has one
    settings,    \* how the round is judged
    own,         \* the round's own criteria
    shared,      \* the hackathon-wide criteria
    evaluation,  \* Round.evaluation_status
    forced,      \* whether the round was closed with teams under-reviewed
    published,   \* Round.results_published
    busy         \* the request each of the workers has begun and not ended

entryRows == <<team, entries, result>>
pairRows  == <<assigned, recused, review>>
roundRow  == <<settings, evaluation, forced, published>>
rubrics   == <<own, shared>>
vars == <<entryRows, panel, pairRows, roundRow, rubrics, busy>>

Pairs == Teams \X Judges

\* The judging columns of a RoundEntry, and what they start with.
Entry(count, score, rank) == [count |-> count, score |-> score, rank |-> rank]
Unscored == Entry(0, 0, 0)

Idle              == [step |-> "IDLE"]
Adding(T, plan)   == [step |-> "ADDING", teams |-> T, plan |-> plan]
Removing(t)       == [step |-> "REMOVING", team |-> t]
Editing(row)      == [step |-> "EDITING", row |-> row]

\* The columns of the round that a stale copy of it may carry.
Rows == [settings : Settings, evaluation : {"NOT_STARTED", "IN_PROGRESS", "CLOSED"},
         published : BOOLEAN]

Requests ==
    {Idle} \cup {Removing(t) : t \in Teams} \cup {Editing(row) : row \in Rows}
    \cup [step : {"ADDING"}, teams : SUBSET Teams, plan : SUBSET Pairs]

TypeOK ==
    /\ team \in [Teams -> {"IN", "WAITING", "OUT", "DELETED"}]
    /\ entries \subseteq Teams
    /\ result \in [Teams -> [count : Nat, score : Nat, rank : Nat]]
    /\ panel \subseteq Judges
    /\ assigned \subseteq entries \X Judges
    /\ recused \subseteq assigned
    /\ DOMAIN review \subseteq assigned
    /\ review \in [DOMAIN review -> [score : Scores, rubric : Rubrics]]
    /\ settings \in Settings
    /\ own \in Rubrics \cup {NoRubric}
    /\ shared \in Rubrics \cup {NoRubric}
    /\ evaluation \in {"NOT_STARTED", "IN_PROGRESS", "CLOSED"}
    /\ forced \in BOOLEAN
    /\ published \in BOOLEAN
    /\ busy \in [Workers -> Requests]

Init ==
    /\ team = [t \in Teams |-> "IN"]
    /\ entries = {}
    /\ result = [t \in Teams |-> Unscored]
    /\ panel = {}
    /\ assigned = {}
    /\ recused = {}
    /\ review = <<>>
    /\ settings = First
    /\ own = NoRubric
    /\ shared \in Rubrics \cup {NoRubric}
    /\ evaluation = "NOT_STARTED"
    /\ forced = FALSE
    /\ published = FALSE
    /\ busy = [w \in Workers |-> Idle]

-----------------------------------------------------------------------------
(* Who scores whom. *)

\* _active_entries, of the teams T of the round.
Live(T) == {t \in T : team[t] = "IN"}

Rubric == IF own = NoRubric THEN shared ELSE own   \* criteria_of

JudgesOf(t, pairs) == {j \in Judges : <<t, j>> \in pairs}
Load(j, pairs)     == Cardinality({t \in Teams : <<t, j>> \in pairs})

\* j is asked before k: it has fewer teams, or as many and a smaller id.
Before(j, loadJ, k, loadK) == loadJ < loadK \/ (loadJ = loadK /\ j < k)

\* coverage: no live team of the round has too few judges.
Covered(pairs) ==
    \A t \in Live(entries) : Cardinality(JudgesOf(t, pairs)) >= settings.minReviews

\* _fill in BALANCED mode gave team t of T its part of `new`, in the order of
\* names: the judges it lacks, the least busy of those who never had it.
Shared(t, T, new, judges, given, active) ==
    LET picked == JudgesOf(t, new)
        others == {j \in judges : <<t, j>> \notin given} \ picked
        wanted == Min({settings.perTeam, Cardinality(judges)})
                      - Cardinality(JudgesOf(t, active))
        load(j) == Load(j, active) + Cardinality({u \in T : u < t /\ <<u, j>> \in new})
    IN  /\ wanted <= 0 => picked = {}
        /\ wanted > 0 => Cardinality(picked)
                           = Min({wanted, Cardinality(picked \cup others)})
        /\ \A j \in picked, k \in others : Before(j, load(j), k, load(k))

\* _fill: the assignments to add, for the live teams T, the panel `judges` and
\* the assignments `given`, of which `active` are not stepped aside from.
\* There is exactly one such set.
Fill(T, judges, given, active) ==
    LET missing == (T \X judges) \ given
    IN  IF settings.mode = "ALL"
        THEN {missing}
        ELSE {new \in SUBSET missing :
                \A t \in T : Shared(t, T, new, judges, given, active)}

Filling == evaluation = "IN_PROGRESS" /\ settings.mode # "MANUAL"

-----------------------------------------------------------------------------
(* What the reviews come to. *)

ReviewsOf(t) == {p \in DOMAIN review : p[1] = t /\ p \notin recused}

\* An average, rounded to the unit scores are kept in; 0 of nothing.
Average(sum, n) == IF n = 0 THEN 0 ELSE (2 * sum + n) \div (2 * n)

\* The sums of what the pairs' reviews give, as rev holds them, their points
\* counted one by one.
TotalPoints(rev, pairs) ==
    Cardinality({x \in pairs \X (1..MaxScore) : x[2] <= rev[x[1]].score.total})
HeaviestPoints(rev, pairs) ==
    Cardinality({x \in pairs \X (1..MaxScore) : x[2] <= rev[x[1]].score.heaviest})

Score(rev, pairs)    == Average(TotalPoints(rev, pairs), Cardinality(pairs))
Heaviest(rev, pairs) == Average(HeaviestPoints(rev, pairs), Cardinality(pairs))

\* Team t's key in _rank is above team u's.
Beats(t, u) ==
    LET a == Score(review, ReviewsOf(t))
        b == Score(review, ReviewsOf(u))
    IN  \/ a > b
        \/ /\ a = b
           /\ settings.byCriteria
           /\ Heaviest(review, ReviewsOf(t)) > Heaviest(review, ReviewsOf(u))

\* Mutant: ties are broken whatever the organizer chose.
RankAlwaysByTotal(t) ==
    LET ranked == {u \in Live(entries) : ReviewsOf(u) # {}}
    IN  IF t \in ranked
        THEN 1 + Cardinality({u \in ranked : Score(review, ReviewsOf(u)) > Score(review, ReviewsOf(t))})
        ELSE 0

\* _rank: equal teams share a rank (1, 2, 2, 4); no review, no rank.
Rank(t) ==
    LET ranked == {u \in Live(entries) : ReviewsOf(u) # {}}
    IN  IF t \in ranked THEN 1 + Cardinality({u \in ranked : Beats(u, t)}) ELSE 0

-----------------------------------------------------------------------------
(* Setting the round up. *)

Configure(s) ==
    /\ evaluation = "NOT_STARTED"
    /\ s.mode = "BALANCED" => s.minReviews <= s.perTeam
    /\ settings' = s
    /\ UNCHANGED <<entryRows, panel, pairRows, evaluation, forced, published,
                   rubrics, busy>>

\* Mutant: the rubric may change while judges score.
SetCriteriaLate(r) ==
    /\ evaluation # "CLOSED"
    /\ own' = r
    /\ UNCHANGED <<entryRows, panel, pairRows, roundRow, shared, busy>>

SetCriteria(r) ==
    /\ evaluation = "NOT_STARTED"
    /\ own' = r
    /\ UNCHANGED <<entryRows, panel, pairRows, roundRow, shared, busy>>

\* CriteriaService.replace, of the hackathon-wide rubric.
ReplaceCriteria(r) ==
    /\ shared' = r
    /\ UNCHANGED <<entryRows, panel, pairRows, roundRow, own, busy>>

\* Mutant: a judge may leave the panel with the reviews they have made.
SetPanelFreely(P) ==
    LET gone == panel \ P
        kept(pairs) == {p \in pairs : p[2] \notin gone}
    IN  /\ evaluation # "CLOSED"
        /\ panel' = P
        /\ recused' = kept(recused)
        /\ review' = [p \in kept(DOMAIN review) |-> review[p]]
        /\ \E new \in IF Filling
                      THEN Fill(Live(entries), P, kept(assigned), kept(assigned \ recused))
                      ELSE {{}} :
               assigned' = kept(assigned) \cup new
        /\ UNCHANGED <<entryRows, roundRow, rubrics, busy>>

\* Assignments of judges who are not on the panel (nor were) stay.
SetPanel(P) ==
    LET gone == panel \ P
        kept(pairs) == {p \in pairs : p[2] \notin gone}
    IN  /\ evaluation # "CLOSED"
        /\ \A p \in DOMAIN review : p[2] \notin gone
        /\ panel' = P
        /\ recused' = kept(recused)
        /\ \E new \in IF Filling
                      THEN Fill(Live(entries), P, kept(assigned), kept(assigned \ recused))
                      ELSE {{}} :
               assigned' = kept(assigned) \cup new
        /\ UNCHANGED <<entryRows, review, roundRow, rubrics, busy>>

Assign ==
    /\ evaluation # "CLOSED"
    /\ settings.mode # "MANUAL"
    /\ panel # {}
    /\ \E new \in Fill(Live(entries), panel, assigned, assigned \ recused) :
           assigned' = assigned \cup new
    /\ UNCHANGED <<entryRows, panel, recused, review, roundRow, rubrics, busy>>

\* assign in MANUAL mode, one team of the list: a judge who has scored it or
\* stepped aside from it keeps the row.
AssignByHand(t, wanted) ==
    /\ evaluation # "CLOSED"
    /\ settings.mode = "MANUAL"
    /\ panel # {}
    /\ t \in Live(entries)
    /\ wanted \subseteq panel
    /\ LET dropped == {p \in assigned \ (recused \cup DOMAIN review) :
                          p[1] = t /\ p[2] \notin wanted}
       IN  assigned' = (assigned \ dropped) \cup ({t} \X wanted)
    /\ UNCHANGED <<entryRows, panel, recused, review, roundRow, rubrics, busy>>

-----------------------------------------------------------------------------
(* Scoring. *)

Start ==
    /\ evaluation = "NOT_STARTED"
    /\ panel # {}
    /\ Live(entries) # {}
    /\ Rubric # NoRubric
    /\ \E new \in IF settings.mode = "MANUAL" THEN {{}}
                  ELSE Fill(Live(entries), panel, assigned, assigned \ recused) :
           /\ Covered((assigned \cup new) \ recused)
           /\ assigned' = assigned \cup new
    /\ own' = Rubric
    /\ evaluation' = "IN_PROGRESS"
    /\ UNCHANGED <<entryRows, panel, recused, review, settings, forced, published,
                   shared, busy>>

\* Mutant: the entry's score is not brought up to date.
SubmitOnly(t, j, s) ==
    /\ evaluation = "IN_PROGRESS"
    /\ <<t, j>> \in assigned \ recused
    /\ Rubric # NoRubric
    /\ review' = [p \in DOMAIN review \cup {<<t, j>>} |->
                    IF p = <<t, j>> THEN [score |-> s, rubric |-> Rubric] ELSE review[p]]
    /\ UNCHANGED <<entryRows, panel, assigned, recused, roundRow, rubrics, busy>>

\* submit_review, with _refresh_entry.
SubmitReview(t, j, s) ==
    /\ evaluation = "IN_PROGRESS"
    /\ <<t, j>> \in assigned \ recused
    /\ Rubric # NoRubric
    /\ review' = [p \in DOMAIN review \cup {<<t, j>>} |->
                    IF p = <<t, j>> THEN [score |-> s, rubric |-> Rubric] ELSE review[p]]
    /\ LET scored == ReviewsOf(t) \cup {<<t, j>>}
       IN  result' = [result EXCEPT ![t] =
                        Entry(Cardinality(scored), Score(review', scored), @.rank)]
    /\ UNCHANGED <<team, entries, panel, assigned, recused, roundRow, rubrics, busy>>

\* recuse, with _replace_judge in BALANCED mode.
Recuse(t, j) ==
    LET others == {k \in panel : <<t, k>> \notin assigned}
        load(k) == Load(k, assigned \ recused')
    IN  /\ evaluation = "IN_PROGRESS"
        /\ <<t, j>> \in assigned \ (recused \cup DOMAIN review)
        /\ recused' = recused \cup {<<t, j>>}
        /\ assigned' = assigned \cup
             IF settings.mode # "BALANCED" THEN {}
             ELSE {<<t, k>> : k \in {k \in others : \A i \in others \ {k} :
                                        Before(k, load(k), i, load(i))}}
        /\ UNCHANGED <<entryRows, panel, review, roundRow, rubrics, busy>>

UnderReviewed ==
    {t \in Live(entries) : Cardinality(ReviewsOf(t)) < settings.minReviews}

Close(force) ==
    /\ evaluation = "IN_PROGRESS"
    /\ UnderReviewed # {} => force
    /\ result' = [t \in Teams |->
                    IF t \in Live(entries)
                    THEN Entry(Cardinality(ReviewsOf(t)), Score(review, ReviewsOf(t)), Rank(t))
                    ELSE result[t]]
    /\ evaluation' = "CLOSED"
    /\ forced' = (UnderReviewed # {})
    /\ UNCHANGED <<team, entries, panel, pairRows, settings, published, rubrics, busy>>

\* Mutant: published results may be reopened.
ReopenAnyTime ==
    /\ evaluation = "CLOSED"
    /\ evaluation' = "IN_PROGRESS"
    /\ result' = [t \in Teams |-> Entry(result[t].count, result[t].score, 0)]
    /\ UNCHANGED <<team, entries, panel, pairRows, settings, forced, published,
                   rubrics, busy>>

Reopen ==
    /\ evaluation = "CLOSED"
    /\ ~published
    /\ evaluation' = "IN_PROGRESS"
    /\ result' = [t \in Teams |-> Entry(result[t].count, result[t].score, 0)]
    /\ UNCHANGED <<team, entries, panel, pairRows, settings, forced, published,
                   rubrics, busy>>

-----------------------------------------------------------------------------
(* The requests that take no lock. *)

\* The view reads the round, makes the entries of T and, when the round it read
\* is being judged, the assignments they need; nobody sees them before the commit.
BeginAdd(w, T, plans) ==
    /\ busy[w] = Idle
    /\ \E plan \in plans : busy' = [busy EXCEPT ![w] = Adding(T, plan)]
    /\ UNCHANGED <<entryRows, panel, pairRows, roundRow, rubrics>>

\* on_entries_added.
Plans(T) ==
    IF Filling THEN Fill(Live(entries \cup T), panel, assigned, assigned \ recused)
               ELSE {{}}

\* populate_entries: T are the teams that are new, of the hackathon's or of
\* those the round before shortlisted.
Populate(w, T) ==
    /\ T # {}
    /\ T \subseteq Live(Teams) \ entries
    /\ BeginAdd(w, T, Plans(T))

\* add_team_entry takes any team.
AddTeam(w, t) ==
    /\ t \notin entries
    /\ team[t] # "DELETED"
    /\ BeginAdd(w, {t}, Plans({t}))

\* advance_shortlisted of the round before takes teams that are REGISTERED, those
\* of the queue too, and gives no judges.
Advance(w, T) ==
    /\ T # {}
    /\ T \cap entries = {}
    /\ \A t \in T : team[t] \in {"IN", "WAITING"}
    /\ BeginAdd(w, T, {{}})

\* Mutant: nothing keeps the rows that refer to a team that is gone.
CommitAddBlindly(w) ==
    /\ busy[w].step = "ADDING"
    /\ entries' = entries \cup busy[w].teams
    /\ assigned' = assigned \cup busy[w].plan
    /\ busy' = [busy EXCEPT ![w] = Idle]
    /\ UNCHANGED <<team, result, panel, recused, review, roundRow, rubrics>>

CommitAdd(w) ==
    /\ busy[w].step = "ADDING"
    /\ entries' = entries \cup busy[w].teams
    /\ \A t \in busy[w].teams \cup {p[1] : p \in busy[w].plan} :
           t \in entries' /\ team[t] # "DELETED"
    /\ assigned' = assigned \cup busy[w].plan
    /\ busy' = [busy EXCEPT ![w] = Idle]
    /\ UNCHANGED <<team, result, panel, recused, review, roundRow, rubrics>>

FailAdd(w) ==
    /\ busy[w].step = "ADDING"
    /\ busy' = [busy EXCEPT ![w] = Idle]
    /\ \E t \in busy[w].teams \cup {p[1] : p \in busy[w].plan} :
           t \notin entries \cup busy[w].teams \/ team[t] = "DELETED"
    /\ UNCHANGED <<entryRows, panel, pairRows, roundRow, rubrics>>

\* remove_team_entry, up to guard_remove.
BeginRemove(w, t) ==
    /\ busy[w] = Idle
    /\ t \in entries
    /\ \A p \in DOMAIN review : p[1] # t
    /\ busy' = [busy EXCEPT ![w] = Removing(t)]
    /\ UNCHANGED <<entryRows, panel, pairRows, roundRow, rubrics>>

\* The entry goes, and by CASCADE what refers to it.
DropEntry(t) ==
    /\ entries' = entries \ {t}
    /\ result' = [result EXCEPT ![t] = Unscored]
    /\ assigned' = {p \in assigned : p[1] # t}
    /\ recused' = {p \in recused : p[1] # t}
    /\ review' = [p \in {p \in DOMAIN review : p[1] # t} |-> review[p]]

CommitRemove(w) ==
    /\ busy[w].step = "REMOVING"
    /\ DropEntry(busy[w].team)
    /\ busy' = [busy EXCEPT ![w] = Idle]
    /\ UNCHANGED <<team, panel, roundRow, rubrics>>

\* RoundDetailView.patch loads the round for its serializer...
BeginEdit(w) ==
    /\ Edits
    /\ busy[w] = Idle
    /\ busy' = [busy EXCEPT ![w] = Editing(
           [settings |-> settings, evaluation |-> evaluation, published |-> published])]
    /\ UNCHANGED <<entryRows, panel, pairRows, roundRow, rubrics>>

\* ...whose save writes back every column, those it did not edit as they were.
CommitEdit(w) ==
    /\ busy[w].step = "EDITING"
    /\ settings' = busy[w].row.settings
    /\ evaluation' = busy[w].row.evaluation
    /\ published' = busy[w].row.published
    /\ busy' = [busy EXCEPT ![w] = Idle]
    /\ UNCHANGED <<entryRows, panel, pairRows, forced, rubrics>>

Publish ==
    /\ ~published
    /\ published' = TRUE
    /\ UNCHANGED <<entryRows, panel, pairRows, settings, evaluation, forced, rubrics, busy>>

Unpublish ==
    /\ published
    /\ published' = FALSE
    /\ UNCHANGED <<entryRows, panel, pairRows, settings, evaluation, forced, rubrics, busy>>

\* A team withdraws, is disqualified or queues; an organizer brings it back.
ChangeTeam(t, s) ==
    /\ team[t] # "DELETED"
    /\ team[t] # s /\ (s = "WAITING" => Queues)
    /\ team' = [team EXCEPT ![t] = s]
    /\ UNCHANGED <<entries, result, panel, pairRows, roundRow, rubrics, busy>>

DeleteTeam(t) ==
    /\ team[t] # "DELETED"
    /\ team' = [team EXCEPT ![t] = "DELETED"]
    /\ DropEntry(t)
    /\ UNCHANGED <<panel, roundRow, rubrics, busy>>

-----------------------------------------------------------------------------

SetUp ==
    \/ \E s \in Settings : Configure(s)
    \/ \E r \in Rubrics \cup {NoRubric} : SetCriteria(r) \/ ReplaceCriteria(r)
    \/ \E P \in SUBSET Judges : SetPanel(P)
    \/ Assign
    \/ \E t \in Teams, wanted \in SUBSET Judges : AssignByHand(t, wanted)
    \/ Start

Judge ==
    \E t \in Teams, j \in Judges :
        \/ \E s \in Scores : SubmitReview(t, j, s)
        \/ Recuse(t, j)

Decide ==
    \/ \E force \in BOOLEAN : Close(force)
    \/ Reopen
    \/ Publish
    \/ Unpublish

EditTeams ==
    \/ \E w \in Workers, T \in SUBSET Teams : Populate(w, T) \/ Advance(w, T)
    \/ \E w \in Workers, t \in Teams : AddTeam(w, t) \/ BeginRemove(w, t)
    \/ \E w \in Workers : CommitAdd(w) \/ FailAdd(w) \/ CommitRemove(w)
                         \/ BeginEdit(w) \/ CommitEdit(w)
    \/ \E t \in Teams : DeleteTeam(t) \/ \E s \in {"IN", "WAITING", "OUT"} : ChangeTeam(t, s)

Next == SetUp \/ Judge \/ Decide \/ EditTeams

Spec == Init /\ [][Next]_vars

-----------------------------------------------------------------------------
(* Safety. *)

\* The score and the number of reviews kept on an entry, which shortlist rules
\* and screens read, are those of its reviews, through every edit, recusal,
\* removal, close and reopening (_refresh_entry, _rank).
EntryMatchesReviews ==
    \A t \in entries :
        /\ result[t].count = Cardinality(ReviewsOf(t))
        /\ result[t].score = Score(review, ReviewsOf(t))

\* Ranks exist only while the round is closed, and then they order the ranked
\* teams as their reviews do, ties included, whoever left or joined since
\* (close, reopen, submit_review).
RanksFollowReviews ==
    LET ranked == {t \in entries : result[t].rank > 0}
    IN  /\ ranked # {} => evaluation = "CLOSED"
        /\ \A t, u \in ranked : Beats(t, u) <=> result[t].rank < result[u].rank

\* A round that was not forced closed ranks no team on fewer reviews than the
\* round needs, though its settings, panel and teams may have changed since.
RankedEnough ==
    evaluation = "CLOSED" /\ ~forced =>
        \A t \in entries :
            result[t].rank > 0 => Cardinality(ReviewsOf(t)) >= settings.minReviews

\* A team's rank is earned: it follows from its reviews, and there are enough of them.
RanksAreEarned == RanksFollowReviews /\ RankedEnough

\* No judge has both scored a team and stepped aside from it, in either order
\* (submit_review, recuse).
NoScoreFromRecused == DOMAIN review \cap recused = {}

\* What an entry is ranked by is what its judges gave it, and none of them had
\* stepped aside (_refresh_entry, recuse).
ScoresAreSound == EntryMatchesReviews /\ NoScoreFromRecused

\* While the results of a closed round are published its scores and ranks stand,
\* except of teams that leave it (reopen, close, submit_review).
PublishedResultsStand ==
    [][published /\ published' /\ evaluation = "CLOSED" =>
           \A t \in entries \cap entries' : result'[t] = result[t]]_vars

\* A review stays as long as its team is in the round, and changes only while
\* judging is open (set_panel, _apply_manual, recuse, close).
ReviewsAreKept ==
    [][\A p \in DOMAIN review : p[1] \in entries' =>
           /\ p \in DOMAIN review'
           /\ review'[p] # review[p] => evaluation = "IN_PROGRESS"]_vars

-----------------------------------------------------------------------------
(* What a comment of the code says and an edit of the round undoes. *)

\* set_criteria: "The rubric is frozen once judging has started."  (Checked of
\* rounds nobody edits too, where it holds.)  All reviews of a round score the
\* same rubric, the round's own, whatever becomes of the hackathon's.
OneRubric == \A p \in DOMAIN review : review[p].rubric = own
=============================================================================
