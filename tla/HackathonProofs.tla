--------------------------- MODULE HackathonProofs ---------------------------
(***************************************************************************)
(* Theorems about Hackathon, for every size of every part.  Each part has  *)
(* its own inductive invariant (DecisionProofs, ParticipantProofs); here   *)
(* they are put together: a behaviour is that of one part, of one size.    *)
(***************************************************************************)
EXTENDS DecisionProofs, ParticipantProofs

PartsHold ==
    /\ \A s \in ShortlistSizes : Playing("SHORTLISTS", s) => ListInv(s)
    /\ \A s \in CheckInSizes : Playing("CHECK_IN", s) => DeskInv(s)
    /\ \A s \in IdeaSizes : Playing("IDEAS", s) => IdeaInv(s)
    /\ \A s \in JudgingSizes : Playing("JUDGING", s) => JudgeInv(s)
    /\ \A s \in AttendanceSizes : Playing("ATTENDANCE", s) => ScanInv(s)
    /\ \A s \in WithdrawalSizes : Playing("WITHDRAWALS", s) => LeaderInv(s)
    /\ \A s \in ProblemSizes : Playing("PROBLEMS", s) => TopicInv(s)

-----------------------------------------------------------------------------
(* A step that changes nothing of a part keeps its invariant. *)

LEMMA ListStutters == ASSUME NEW s \in ShortlistSizes, ListInv(s), UNCHANGED <<order, published, entry, team, card, due, dropped>>
    PROVE ListInv(s)'
BY DEF ListInv, ListTypes, OrdersOK, AwardsAreDue, CardInv, Lists!Existing, Lists!Exists, Lists!Awarded, Lists!CardsAreTrue

LEMMA DeskStutters == ASSUME NEW s \in CheckInSizes, DeskInv(s), UNCHANGED <<session, record, member, standing, request, orphaned>>
    PROVE DeskInv(s)'
BY DEF DeskInv, DeskTypes, LookedUp, LookUpsHold, Desk!ArrivedFirst, Desk!Arrived, Desk!Present, Desk!Later

LEMMA IdeaStutters == ASSUME NEW s \in IdeaSizes, IdeaInv(s), UNCHANGED <<idea, file, bucket, due, edits, save>>
    PROVE IdeaInv(s)'
BY DEF IdeaInv, Idea!TypeOK, Idea!HeldFilesExist, IdeaLocks, FileLocks, DeletesAreSafe, Idea!Decided

LEMMA JudgeStutters == ASSUME NEW s \in JudgingSizes, JudgeInv(s), UNCHANGED <<rubric, judge, on, project, review, kept, published, awarded, req>>
    PROVE JudgeInv(s)'
<1>1. /\ rubric' = rubric /\ judge' = judge /\ on' = on /\ project' = project /\ review' = review
      /\ kept' = kept /\ published' = published /\ awarded' = awarded /\ req' = req
  OBVIOUS
<1>2. /\ rubric \subseteq s.criteria /\ judge \subseteq s.people
      /\ on \in [s.people -> s.teams \cup {Judges(s)!NoTeam}]
      /\ project \in [s.teams -> {"NONE", "LISTED", "OUT"}]
      /\ published \in BOOLEAN /\ awarded \in BOOLEAN
  BY DEF JudgeInv, Judges!TypeOK
<1> QED
  BY <1>1, <1>2, JudgeRest

LEMMA ScanStutters == ASSUME NEW s \in AttendanceSizes, ScanInv(s), UNCHANGED <<config, session, badge, record, welcomed, saving, made>>
    PROVE ScanInv(s)'
BY DEF ScanInv, Scans!TypeOK, Scans!Rows

LEMMA LeaderStutters == ASSUME NEW s \in WithdrawalSizes, LeaderInv(s), UNCHANGED <<team, request, extra, proof, spent, minSize>>
    PROVE LeaderInv(s)'
BY DEF LeaderInv, Leaders!TypeOK

LEMMA TopicStutters == ASSUME NEW s \in ProblemSizes, TopicInv(s), UNCHANGED <<statement, team, req, drop>>
    PROVE TopicInv(s)'
BY DEF TopicInv, Topics!TypeOK, Topics!Holders, Topics!Counted, Topics!Kept, Topics!HasRoom, Topics!Active

-----------------------------------------------------------------------------
(* The parts together. *)

\* What a step of each part may do.
PartsAct ==
    /\ \A s \in CheckInSizes : Playing("CHECK_IN", s) => Desk(s)!KeepsCheckIns
    /\ \A s \in IdeaSizes : Playing("IDEAS", s) => Idea(s)!SaveRespectsDecision
    /\ \A s \in WithdrawalSizes : Playing("WITHDRAWALS", s) => Leaders(s)!OrganizersLetGo
    /\ \A s \in ProblemSizes :
           Playing("PROBLEMS", s) => Topics(s)!ChoicesFit /\ Topics(s)!DeletesFree

LEMMA InitHolds == Init => PartsHold
<1>1. ASSUME NEW s \in ShortlistSizes, Playing("SHORTLISTS", s), Lists(s)!Init PROVE PartsHold
  BY <1>1, ListInit DEF PartsHold, Playing
<1>2. ASSUME NEW s \in CheckInSizes, Playing("CHECK_IN", s), Desk(s)!Init PROVE PartsHold
  BY <1>2, DeskInit DEF PartsHold, Playing
<1>3. ASSUME NEW s \in IdeaSizes, Playing("IDEAS", s), Idea(s)!Init PROVE PartsHold
  BY <1>3, IdeaInit DEF PartsHold, Playing
<1>4. ASSUME NEW s \in JudgingSizes, Playing("JUDGING", s), Judges(s)!Init PROVE PartsHold
  BY <1>4, JudgeInit DEF PartsHold, Playing
<1>5. ASSUME NEW s \in AttendanceSizes, Playing("ATTENDANCE", s), Scans(s)!Init PROVE PartsHold
  BY <1>5, ScanInit DEF PartsHold, Playing
<1>6. ASSUME NEW s \in WithdrawalSizes, Playing("WITHDRAWALS", s), Leaders(s)!Init PROVE PartsHold
  BY <1>6, LeaderInit DEF PartsHold, Playing
<1>7. ASSUME NEW s \in ProblemSizes, Playing("PROBLEMS", s), Topics(s)!Init PROVE PartsHold
  BY <1>7, TopicInit DEF PartsHold, Playing
<1> QED
  BY <1>1, <1>2, <1>3, <1>4, <1>5, <1>6, <1>7 DEF Init

LEMMA StepsHold == ASSUME PartsHold, Next PROVE PartsHold' /\ PartsAct
<1>1. part' = part /\ size' = size
  BY DEF Next
<1>2. ASSUME NEW s \in ShortlistSizes, Playing("SHORTLISTS", s), Lists(s)!Next PROVE PartsHold' /\ PartsAct
  <2>1. ListInv(s)'
    BY <1>2, ListStep DEF PartsHold
  <2> QED
    BY <1>1, <1>2, <2>1 DEF PartsHold, PartsAct, Playing
<1>3. ASSUME NEW s \in CheckInSizes, Playing("CHECK_IN", s), Desk(s)!Next PROVE PartsHold' /\ PartsAct
  <2>1. DeskInv(s)' /\ Desk(s)!KeepsCheckIns
    BY <1>3, DeskStep DEF PartsHold
  <2> QED
    BY <1>1, <1>3, <2>1 DEF PartsHold, PartsAct, Playing
<1>4. ASSUME NEW s \in IdeaSizes, Playing("IDEAS", s), Idea(s)!Next PROVE PartsHold' /\ PartsAct
  <2>1. IdeaInv(s)' /\ Idea(s)!SaveRespectsDecision
    BY <1>4, IdeaStep DEF PartsHold
  <2> QED
    BY <1>1, <1>4, <2>1 DEF PartsHold, PartsAct, Playing
<1>5. ASSUME NEW s \in JudgingSizes, Playing("JUDGING", s), Judges(s)!Next PROVE PartsHold' /\ PartsAct
  <2>1. JudgeInv(s)'
    BY <1>5, JudgeStep DEF PartsHold
  <2> QED
    BY <1>1, <1>5, <2>1 DEF PartsHold, PartsAct, Playing
<1>6. ASSUME NEW s \in AttendanceSizes, Playing("ATTENDANCE", s), Scans(s)!Next PROVE PartsHold' /\ PartsAct
  <2>1. ScanInv(s)'
    BY <1>6, ScanStep DEF PartsHold
  <2> QED
    BY <1>1, <1>6, <2>1 DEF PartsHold, PartsAct, Playing
<1>7. ASSUME NEW s \in WithdrawalSizes, Playing("WITHDRAWALS", s), Leaders(s)!Next PROVE PartsHold' /\ PartsAct
  <2>1. LeaderInv(s)' /\ Leaders(s)!OrganizersLetGo
    BY <1>7, LeaderStep DEF PartsHold
  <2> QED
    BY <1>1, <1>7, <2>1 DEF PartsHold, PartsAct, Playing
<1>8. ASSUME NEW s \in ProblemSizes, Playing("PROBLEMS", s), Topics(s)!Next PROVE PartsHold' /\ PartsAct
  <2>1. TopicInv(s)' /\ Topics(s)!ChoicesFit /\ Topics(s)!DeletesFree
    BY <1>8, TopicStep DEF PartsHold
  <2> QED
    BY <1>1, <1>8, <2>1 DEF PartsHold, PartsAct, Playing
<1> QED
  BY <1>2, <1>3, <1>4, <1>5, <1>6, <1>7, <1>8 DEF Next

LEMMA StutterHolds == ASSUME PartsHold, UNCHANGED vars PROVE PartsHold'
<1>1. part' = part /\ size' = size
  BY DEF vars
<1>2. \A s \in ShortlistSizes : Playing("SHORTLISTS", s) => ListInv(s)'
  BY ListStutters DEF PartsHold, vars, shortlistVars, checkInVars, rowVars, ideaVars, judgingVars,
     scanVars, leaderVars, topicVars
<1>3. \A s \in CheckInSizes : Playing("CHECK_IN", s) => DeskInv(s)'
  BY DeskStutters DEF PartsHold, vars, shortlistVars, checkInVars, rowVars, ideaVars, judgingVars,
     scanVars, leaderVars, topicVars
<1>4. \A s \in IdeaSizes : Playing("IDEAS", s) => IdeaInv(s)'
  BY IdeaStutters DEF PartsHold, vars, shortlistVars, checkInVars, rowVars, ideaVars, judgingVars,
     scanVars, leaderVars, topicVars
<1>5. \A s \in JudgingSizes : Playing("JUDGING", s) => JudgeInv(s)'
  BY JudgeStutters DEF PartsHold, vars, shortlistVars, checkInVars, rowVars, ideaVars, judgingVars,
     scanVars, leaderVars, topicVars
<1>6. \A s \in AttendanceSizes : Playing("ATTENDANCE", s) => ScanInv(s)'
  BY ScanStutters DEF PartsHold, vars, shortlistVars, checkInVars, rowVars, ideaVars, judgingVars,
     scanVars, leaderVars, topicVars
<1>7. \A s \in WithdrawalSizes : Playing("WITHDRAWALS", s) => LeaderInv(s)'
  BY LeaderStutters DEF PartsHold, vars, shortlistVars, checkInVars, rowVars, ideaVars, judgingVars,
     scanVars, leaderVars, topicVars
<1>8. \A s \in ProblemSizes : Playing("PROBLEMS", s) => TopicInv(s)'
  BY TopicStutters DEF PartsHold, vars, shortlistVars, checkInVars, rowVars, ideaVars, judgingVars,
     scanVars, leaderVars, topicVars
<1> QED
  BY <1>1, <1>2, <1>3, <1>4, <1>5, <1>6, <1>7, <1>8 DEF PartsHold, Playing

\* Every part keeps its invariant.
LEMMA AlwaysHolds == Spec => []PartsHold
<1>1. PartsHold /\ [Next]_vars => PartsHold'
  BY StepsHold, StutterHolds
<1> QED
  BY <1>1, InitHolds, PTL DEF Spec

-----------------------------------------------------------------------------
(* The properties. *)

\* Every part of a hackathon keeps its types, whatever its size: the fields of
\* rows stay among the choices of models.py, scores within 100, and what a
\* request looked up is of its hackathon.
THEOREM TypeCorrect == Spec => []TypeOK
<1>1. PartsHold => TypeOK
  BY ListTypeOK, DeskTypeOK, LeaderTypeOK, TopicTypeOK DEF PartsHold, TypeOK, IdeaInv, JudgeInv, ScanInv
<1> QED
  BY <1>1, AlwaysHolds, PTL

\* celebrations.award and retract, called around bulk_decide, publish,
\* unpublish and the deletion of rounds, entries and teams: an unseen card says
\* what the round still says, unless the entry went after the decision.
THEOREM CardsStayTrue == Spec => []CardsAreTrue
<1>1. PartsHold => CardsAreTrue
  BY DEF PartsHold, ListInv, CardsAreTrue
<1> QED
  BY <1>1, AlwaysHolds, PTL

\* CheckInService.scan, undo and delete_session, one at a time: whoever is in a
\* session that needed arrival has arrived, or lost that with a team.
THEOREM ArrivalsComeFirst == Spec => []ArrivedFirst
<1>1. PartsHold => ArrivedFirst
  BY DEF PartsHold, DeskInv, OneAtDesk, ArrivedFirst
<1> QED
  BY <1>1, AlwaysHolds, PTL

\* IdeaService.save and the clean-up of replaced files: a file an idea holds
\* is attached to it and in the bucket, whichever requests overlap.
THEOREM HeldFilesStay == Spec => []HeldFilesExist
<1>1. PartsHold => HeldFilesExist
  BY DEF PartsHold, IdeaInv, HeldFilesExist
<1> QED
  BY <1>1, AlwaysHolds, PTL

\* judging.recalculate and recalculate_all, one request at a time: the kept
\* scores, and so the leaderboard, are those of the reviews there are.
THEOREM LeaderboardIsCurrent == Spec => []LeaderboardFollowsReviews
<1>1. PartsHold => LeaderboardFollowsReviews
  BY JudgeLeaders DEF PartsHold, LeaderboardFollowsReviews
<1> QED
  BY <1>1, AlwaysHolds, PTL

\* sync_sessions of check-in and of the forms' attendance: no change of a
\* session or a schedule loses the record of a scan.
THEOREM CheckInsStay == Spec => CheckInsAreKept
<1>1. PartsHold /\ [Next]_vars =>
        [/\ \A s \in CheckInSizes : Playing("CHECK_IN", s) => Desk(s)!KeepsCheckIns
         /\ \A s \in AttendanceSizes : Playing("ATTENDANCE", s) => Scans(s)!ScansAreReported]_vars
  BY StepsHold, ScanReports DEF PartsHold, PartsAct
<1> QED
  BY <1>1, AlwaysHolds, PTL DEF Spec, CheckInsAreKept

\* IdeaService.save under the idea's lock, WithdrawalService.decide and
\* needs_approval, _resolve_problem under the statement's lock: a save cannot
\* change an idea decided meanwhile, a team that holds a place is given up only
\* by approving the request of its last member, and a choice never fills a
\* statement past its maximum.
THEOREM DecisionsHold == Spec => DecisionsStand
<1>1. PartsHold /\ [Next]_vars =>
        [/\ \A s \in IdeaSizes : Playing("IDEAS", s) => Idea(s)!SaveRespectsDecision
         /\ \A s \in WithdrawalSizes : Playing("WITHDRAWALS", s) => Leaders(s)!OrganizersLetGo
         /\ \A s \in ProblemSizes :
                Playing("PROBLEMS", s) => Topics(s)!ChoicesFit /\ Topics(s)!DeletesFree]_vars
  BY StepsHold DEF PartsAct
<1> QED
  BY <1>1, AlwaysHolds, PTL DEF Spec, DecisionsStand

-----------------------------------------------------------------------------
(* Withdrawals implements Membership. *)

NewRows == \A s \in WithdrawalSizes : Playing("WITHDRAWALS", s) => NewRowsEmpty(s)

\* Module Membership's variables.
Members == [t \in TeamRow |-> IF part = "WITHDRAWALS" /\ t \in size.slots THEN team[t].members ELSE {}]
Leading == [t \in TeamRow |-> IF part = "WITHDRAWALS" /\ t \in size.slots THEN team[t].lead ELSE "NOBODY"]

LEMMA MembersInit == Init => NewRows /\ Roster!Init
<1>1. ASSUME NEW s \in WithdrawalSizes, Playing("WITHDRAWALS", s), Leaders(s)!Init
      PROVE  NewRows /\ Roster!Init
  <2>1. \A t \in s.slots : team[t].members = {} /\ team[t].lead = "NOBODY"
    BY <1>1 DEF Leaders!Init, Leaders!Blank, Leaders!Row, Leaders!Nobody
  <2> QED
    BY <1>1, <2>1 DEF NewRows, NewRowsEmpty, Playing, Roster!Init, Leaders!Nobody
<1>2. ASSUME part # "WITHDRAWALS" PROVE NewRows /\ Roster!Init
  BY <1>2 DEF NewRows, Playing, Roster!Init
<1> QED
  BY <1>1, <1>2 DEF Init, Playing

\* What a team of Withdrawals may do, module Membership's team of that row does.
LEMMA RowMovesAsMembership ==
    ASSUME NEW s \in WithdrawalSizes, Playing("WITHDRAWALS", s), part' = part, size' = size,
           NEW t \in s.slots, RowMoves(s, t), \A u \in s.slots \ {t} : RowStays(u)
    PROVE  Roster!Next
<1>1. /\ t \in TeamRow /\ \A u \in s.slots : u \in TeamRow
      /\ \A p \in s.people : p \in UNION {x.people : x \in WithdrawalSizes}
  BY DEF TeamRow
<1>2. /\ Members = [u \in TeamRow |-> IF u \in s.slots THEN team[u].members ELSE {}]
      /\ Leading = [u \in TeamRow |-> IF u \in s.slots THEN team[u].lead ELSE "NOBODY"]
      /\ Members' = [u \in TeamRow |-> IF u \in s.slots THEN team'[u].members ELSE {}]
      /\ Leading' = [u \in TeamRow |-> IF u \in s.slots THEN team'[u].lead ELSE "NOBODY"]
  BY DEF Members, Leading, Playing
<1>3. /\ Members' = [Members EXCEPT ![t] = team'[t].members]
      /\ Leading' = [Leading EXCEPT ![t] = team'[t].lead]
      /\ Members[t] = team[t].members /\ Leading[t] = team[t].lead
  BY <1>1, <1>2 DEF RowStays
<1>4. /\ team'[t].members = Members[t] => Members' = Members
      /\ team'[t].lead = Leading[t] => Leading' = Leading
  BY <1>2, <1>3
<1>5. ASSUME NEW p \in s.people, Leaders(s)!Free(p), team'[t].members = team[t].members \cup {p},
             \/ team'[t].lead = team[t].lead
             \/ team[t].lead = Leaders(s)!Nobody /\ team'[t].lead = p
      PROVE  Roster!Join(t, p)
  <2>1. \A u \in TeamRow : p \notin Members[u]
    BY <1>2, <1>5 DEF Leaders!Free
  <2>2. Members' = [Members EXCEPT ![t] = Members[t] \cup {p}]
    BY <1>3, <1>5
  <2>3. Leading' = Leading \/ (Leading[t] = "NOBODY" /\ Leading' = [Leading EXCEPT ![t] = p])
    BY <1>3, <1>4, <1>5 DEF Leaders!Nobody
  <2> QED
    BY <2>1, <2>2, <2>3 DEF Roster!Join, Roster!Unattached, Members, Leading
<1>6. ASSUME NEW p \in s.people, p \in team[t].members, p # team[t].lead,
             team'[t].members = team[t].members \ {p}, team'[t].lead = team[t].lead
      PROVE  Roster!Leave(t, p)
  <2>1. Members' = [Members EXCEPT ![t] = Members[t] \ {p}] /\ Leading' = Leading
    BY <1>3, <1>4, <1>6
  <2>2. p \in Members[t] /\ p # Leading[t]
    BY <1>3, <1>6
  <2> QED
    BY <2>1, <2>2 DEF Roster!Leave, Members, Leading
<1>7. ASSUME NEW p \in s.people, p \in team[t].members, team'[t].members = team[t].members,
             team'[t].lead = p
      PROVE  Roster!HandOver(t, p)
  <2>1. Members' = Members /\ Leading' = [Leading EXCEPT ![t] = p] /\ p \in Members[t]
    BY <1>3, <1>4, <1>7
  <2> QED
    BY <2>1 DEF Roster!HandOver, Members, Leading
<1>8. ASSUME team'[t].members = {}, team'[t].lead = Leaders(s)!Nobody
      PROVE  Roster!Disband(t)
  <2>1. Members' = [Members EXCEPT ![t] = {}] /\ Leading' = [Leading EXCEPT ![t] = "NOBODY"]
    BY <1>3, <1>8 DEF Leaders!Nobody
  <2> QED
    BY <2>1 DEF Roster!Disband, Members, Leading
<1> QED
  BY <1>1, <1>5, <1>6, <1>7, <1>8 DEF RowMoves, Roster!Next

LEMMA StepsAsMembership ==
    ASSUME PartsHold, NewRows, [Next]_vars
    PROVE  NewRows' /\ (Roster!Next \/ UNCHANGED <<Members, Leading>>)
<1>1. part' = part /\ size' = size
  BY DEF Next, vars
<1>2. CASE part # "WITHDRAWALS"
  BY <1>1, <1>2 DEF NewRows, Playing, Members, Leading
<1>3. ASSUME NEW s \in WithdrawalSizes, Playing("WITHDRAWALS", s), Leaders(s)!Next
      PROVE  NewRows' /\ (Roster!Next \/ UNCHANGED <<Members, Leading>>)
  <2>1. LeaderInv(s) /\ NewRowsEmpty(s)
    BY <1>3 DEF PartsHold, NewRows
  <2>2. /\ NewRowsEmpty(s)'
        /\ \/ \A u \in s.slots : RowStays(u)
           \/ \E t \in s.slots : RowMoves(s, t) /\ \A u \in s.slots \ {t} : RowStays(u)
    BY <1>3, <2>1, MembersMove
  <2>3. NewRows'
    BY <1>1, <1>3, <2>2 DEF NewRows, Playing
  <2>4. CASE \A u \in s.slots : RowStays(u)
    BY <1>1, <1>3, <2>3, <2>4 DEF RowStays, Members, Leading, Playing
  <2>5. CASE \E t \in s.slots : RowMoves(s, t) /\ \A u \in s.slots \ {t} : RowStays(u)
    BY <1>1, <1>3, <2>3, <2>5, RowMovesAsMembership
  <2> QED
    BY <2>2, <2>4, <2>5
<1>4. CASE UNCHANGED vars
  <2>1. team' = team
    BY <1>4 DEF vars
  <2> QED
    BY <1>1, <2>1 DEF NewRows, NewRowsEmpty, Leaders!Nobody, Playing, Members, Leading
<1> QED
  BY <1>2, <1>3, <1>4 DEF Next, Playing

\* create_team with a payment or without, cancel_pending, leave_team, transfer_leadership,
\* admin_add_member and _finish_withdrawal, at once or when WithdrawalService.decide approves:
\* for every number of teams and people they are moves of module Membership, so a team
\* loses its leader only with its last member.
THEOREM WithdrawalsImplementMembership == Spec => ImplementsMembership
<1>1. PartsHold /\ NewRows /\ [Next]_vars => NewRows'
  BY StepsAsMembership
<1>2. PartsHold /\ NewRows /\ [Next]_vars => [Roster!Next]_<<Members, Leading>>
  BY StepsAsMembership
<1>3. Init => NewRows /\ Roster!Init
  BY MembersInit
<1> QED
  BY <1>1, <1>2, <1>3, AlwaysHolds, PTL DEF Spec, ImplementsMembership, Roster!Spec, Members, Leading
==============================================================================
