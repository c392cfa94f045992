----------------------------- MODULE Hackathon -----------------------------
(***************************************************************************)
(* The parts of a hackathon that keep their own rows, side by side: a      *)
(* behaviour is one part's, of one of the sizes that part is given, both   *)
(* picked at the start, and the variables of the other parts are Unused.   *)
(* Attendance, the scans of an event's form, is the counterpart of CheckIn *)
(* elsewhere.                                                              *)
(*                                                                         *)
(* A size is a record of the values of the part's constants.               *)
(***************************************************************************)
EXTENDS Integers, FiniteSets

CONSTANTS ShortlistSizes, CheckInSizes, IdeaSizes, JudgingSizes, AttendanceSizes,
          WithdrawalSizes, ProblemSizes

VARIABLES
    part, size,
    order, published, entry, team, card, due, dropped,             \* Shortlists
    session, record, member, standing, request, orphaned,          \* CheckIn
    idea, file, bucket, edits, save,                               \* Ideas, with due
    rubric, judge, on, project, review, kept, awarded, req,        \* Judging, with published
    config, badge, welcomed, saving, made,                         \* Attendance, with session, record
    extra, proof, spent, minSize,                                  \* Withdrawals, with team, request
    statement, drop                                                \* Problems, with team, req

Unused == "UNUSED"

Lists(s)   == INSTANCE Shortlists WITH Teams <- s.teams, Rounds <- s.rounds, Score <- s.score,
                                       Limit <- s.limit
Desk(s)    == INSTANCE CheckIn WITH People <- s.people, Teams <- s.teams, Scheduled <- s.scheduled,
                                    Custom <- s.custom, Staff <- s.staff
Idea(s)    == INSTANCE Ideas WITH Decks <- s.decks, Proofs <- s.proofs
Judges(s)  == INSTANCE Judging WITH Teams <- s.teams, People <- s.people, Criteria <- s.criteria,
                                    Requests <- s.requests
Scans(s)   == INSTANCE Attendance WITH Responses <- s.responses, Starts <- s.starts,
                                       MaxDays <- s.maxDays, Labels <- s.labels, Overlap <- FALSE
Leaders(s) == INSTANCE Withdrawals WITH People <- s.people, Slots <- s.slots, Refs <- s.refs,
                                        MaxSelfCreated <- s.maxSelfCreated, MaxExtra <- s.maxExtra
Topics(s)  == INSTANCE Problems WITH Teams <- s.teams, MaxCode <- s.maxCode, Maxima <- s.maxima,
                                     Overlap <- FALSE

ASSUME HackathonAssumption ==
    /\ \A s \in ShortlistSizes : IsFiniteSet(s.rounds)
    /\ \A s \in CheckInSizes : Desk(s)!TeamsNamed
    /\ \A s \in IdeaSizes : Idea(s)!FilesDiffer
    /\ \A s \in JudgingSizes : IsFiniteSet(s.people) /\ IsFiniteSet(s.criteria)
    /\ \A s \in AttendanceSizes : Scans(s)!DaysCount
    /\ \A s \in WithdrawalSizes : Leaders(s)!LeadersNamed /\ s.maxExtra \in Nat
    /\ \A s \in ProblemSizes : IsFiniteSet(s.teams) /\ Topics(s)!MaximaCount

shortlistVars == <<order, entry, card, dropped>>
checkInVars   == <<member, standing, orphaned>>
rowVars       == <<session, record>>
ideaVars      == <<idea, file, bucket, edits, save>>
judgingVars   == <<rubric, judge, on, project, review, kept, awarded>>
scanVars      == <<config, badge, welcomed, saving, made>>
leaderVars    == <<extra, proof, spent, minSize>>
topicVars     == <<statement, drop>>
vars == <<part, size, published, due, rowVars, team, request, req,
          shortlistVars, checkInVars, ideaVars, judgingVars, scanVars, leaderVars, topicVars>>

NoShortlists == order = Unused /\ entry = Unused /\ card = Unused /\ dropped = Unused
NoCheckIn    == member = Unused /\ standing = Unused /\ orphaned = Unused
NoRows       == session = Unused /\ record = Unused
NoIdeas      == idea = Unused /\ file = Unused /\ bucket = Unused /\ edits = Unused /\ save = Unused
NoJudging    == /\ rubric = Unused /\ judge = Unused /\ on = Unused /\ project = Unused
                /\ review = Unused /\ kept = Unused /\ awarded = Unused
NoScans      == config = Unused /\ badge = Unused /\ welcomed = Unused /\ saving = Unused /\ made = Unused
NoLeaders    == extra = Unused /\ proof = Unused /\ spent = Unused /\ minSize = Unused
NoTopics     == statement = Unused /\ drop = Unused

\* The behaviour is that of part p, of size s.
Playing(p, s) == part = p /\ size = s

Init ==
    \/ /\ \E s \in ShortlistSizes : Playing("SHORTLISTS", s) /\ Lists(s)!Init
       /\ NoCheckIn /\ NoIdeas /\ NoJudging /\ NoScans /\ NoRows /\ NoLeaders /\ NoTopics
       /\ request = Unused /\ req = Unused
    \/ /\ \E s \in CheckInSizes : Playing("CHECK_IN", s) /\ Desk(s)!Init
       /\ NoShortlists /\ NoIdeas /\ NoJudging /\ NoScans /\ NoLeaders /\ NoTopics
       /\ published = Unused /\ due = Unused /\ team = Unused /\ req = Unused
    \/ /\ \E s \in IdeaSizes : Playing("IDEAS", s) /\ Idea(s)!Init
       /\ NoShortlists /\ NoCheckIn /\ NoJudging /\ NoScans /\ NoRows /\ NoLeaders /\ NoTopics
       /\ published = Unused /\ team = Unused /\ request = Unused /\ req = Unused
    \/ /\ \E s \in JudgingSizes : Playing("JUDGING", s) /\ Judges(s)!Init
       /\ NoShortlists /\ NoCheckIn /\ NoIdeas /\ NoScans /\ NoRows /\ NoLeaders /\ NoTopics
       /\ due = Unused /\ team = Unused /\ request = Unused
    \/ /\ \E s \in AttendanceSizes : Playing("ATTENDANCE", s) /\ Scans(s)!Init
       /\ NoShortlists /\ NoCheckIn /\ NoIdeas /\ NoJudging /\ NoLeaders /\ NoTopics
       /\ published = Unused /\ due = Unused /\ team = Unused /\ request = Unused /\ req = Unused
    \/ /\ \E s \in WithdrawalSizes : Playing("WITHDRAWALS", s) /\ Leaders(s)!Init
       /\ NoShortlists /\ NoCheckIn /\ NoIdeas /\ NoJudging /\ NoScans /\ NoRows /\ NoTopics
       /\ published = Unused /\ due = Unused /\ req = Unused
    \/ /\ \E s \in ProblemSizes : Playing("PROBLEMS", s) /\ Topics(s)!Init
       /\ NoShortlists /\ NoCheckIn /\ NoIdeas /\ NoJudging /\ NoScans /\ NoRows /\ NoLeaders
       /\ published = Unused /\ due = Unused /\ request = Unused

Next ==
    /\ UNCHANGED <<part, size>>
    /\ \/ /\ \E s \in ShortlistSizes : Playing("SHORTLISTS", s) /\ Lists(s)!Next
          /\ UNCHANGED <<rowVars, request, req, checkInVars, ideaVars, judgingVars, scanVars,
                         leaderVars, topicVars>>
       \/ /\ \E s \in CheckInSizes : Playing("CHECK_IN", s) /\ Desk(s)!Next
          /\ UNCHANGED <<published, due, team, req, shortlistVars, ideaVars, judgingVars, scanVars,
                         leaderVars, topicVars>>
       \/ /\ \E s \in IdeaSizes : Playing("IDEAS", s) /\ Idea(s)!Next
          /\ UNCHANGED <<published, rowVars, team, request, req, shortlistVars, checkInVars,
                         judgingVars, scanVars, leaderVars, topicVars>>
       \/ /\ \E s \in JudgingSizes : Playing("JUDGING", s) /\ Judges(s)!Next
          /\ UNCHANGED <<due, rowVars, team, request, shortlistVars, checkInVars, ideaVars,
                         scanVars, leaderVars, topicVars>>
       \/ /\ \E s \in AttendanceSizes : Playing("ATTENDANCE", s) /\ Scans(s)!Next
          /\ UNCHANGED <<published, due, team, request, req, shortlistVars, checkInVars, ideaVars,
                         judgingVars, leaderVars, topicVars>>
       \/ /\ \E s \in WithdrawalSizes : Playing("WITHDRAWALS", s) /\ Leaders(s)!Next
          /\ UNCHANGED <<published, due, rowVars, req, shortlistVars, checkInVars, ideaVars,
                         judgingVars, scanVars, topicVars>>
       \/ /\ \E s \in ProblemSizes : Playing("PROBLEMS", s) /\ Topics(s)!Next
          /\ UNCHANGED <<published, due, rowVars, request, shortlistVars, checkInVars, ideaVars,
                         judgingVars, scanVars, leaderVars>>
Spec == Init /\ [][Next]_vars

-----------------------------------------------------------------------------
(* Every part keeps its types (see the module each instance names). *)
TypeOK ==
    /\ \A s \in ShortlistSizes : Playing("SHORTLISTS", s) => Lists(s)!TypeOK
    /\ \A s \in CheckInSizes : Playing("CHECK_IN", s) => Desk(s)!TypeOK
    /\ \A s \in IdeaSizes : Playing("IDEAS", s) => Idea(s)!TypeOK
    /\ \A s \in JudgingSizes : Playing("JUDGING", s) => Judges(s)!TypeOK
    /\ \A s \in AttendanceSizes : Playing("ATTENDANCE", s) => Scans(s)!TypeOK
    /\ \A s \in WithdrawalSizes : Playing("WITHDRAWALS", s) => Leaders(s)!TypeOK
    /\ \A s \in ProblemSizes : Playing("PROBLEMS", s) => Topics(s)!TypeOK

(* Shortlists: an unseen shortlist card is true of its team and round. *)
CardsAreTrue == \A s \in ShortlistSizes : Playing("SHORTLISTS", s) => Lists(s)!CardsAreTrue

(* CheckIn, one request at a time: who is in a session that needed arrival *)
(* has arrived. *)
ArrivedFirst ==
    \A s \in CheckInSizes :
        Playing("CHECK_IN", s) /\ (\A j, k \in s.staff : j = k) => Desk(s)!ArrivedFirst

(* CheckIn, requests that overlap: no change of the sessions loses a row.  *)
(* Attendance, one request at a time: nor does a change of the schedule.   *)
CheckInsAreKept ==
    [][/\ \A s \in CheckInSizes : Playing("CHECK_IN", s) => Desk(s)!KeepsCheckIns
       /\ \A s \in AttendanceSizes : Playing("ATTENDANCE", s) => Scans(s)!ScansAreReported]_vars

(* Ideas: the files an idea holds are attached and in the bucket. *)
HeldFilesExist == \A s \in IdeaSizes : Playing("IDEAS", s) => Idea(s)!HeldFilesExist

(* Ideas: a team's save cannot change what was decided meanwhile.          *)
(* Withdrawals: a team that holds a place goes only by an approval.        *)
(* Problems: a choice fits its statement and outlives unforced deletions.  *)
DecisionsStand ==
    [][/\ \A s \in IdeaSizes : Playing("IDEAS", s) => Idea(s)!SaveRespectsDecision
       /\ \A s \in WithdrawalSizes : Playing("WITHDRAWALS", s) => Leaders(s)!OrganizersLetGo
       /\ \A s \in ProblemSizes :
              Playing("PROBLEMS", s) => Topics(s)!ChoicesFit /\ Topics(s)!DeletesFree]_vars

(* Judging, one request at a time: the leaderboard is that of the reviews. *)
LeaderboardFollowsReviews ==
    \A s \in JudgingSizes :
        Playing("JUDGING", s) /\ (\A j, k \in s.requests : j = k)
            => Judges(s)!LeaderboardFollowsReviews

-----------------------------------------------------------------------------
(* Membership seen through the teams of Withdrawals; the other parts have  *)
(* no members.                                                             *)
TeamRow == UNION {s.slots : s \in WithdrawalSizes}

Roster == INSTANCE Membership WITH
              Teams <- TeamRow, Users <- UNION {s.people : s \in WithdrawalSizes}, Nobody <- "NOBODY",
              roster <- [t \in TeamRow |-> IF part = "WITHDRAWALS" /\ t \in size.slots
                                          THEN team[t].members ELSE {}],
              lead   <- [t \in TeamRow |-> IF part = "WITHDRAWALS" /\ t \in size.slots
                                          THEN team[t].lead ELSE "NOBODY"]

(* Withdrawals: paid, cancelled, withdrawn at once or by an approval that  *)
(* comes later, teams' members and leaders only move as module Membership  *)
(* says, as they do in TeamFormation: nobody is left on a team that was    *)
(* given up, and no lead is lost while others stay.                        *)
ImplementsMembership == Roster!Spec
=============================================================================
