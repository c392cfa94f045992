--------------------------- MODULE TeamFormation ---------------------------
(***************************************************************************)
(* Teams of one hackathon: who leads them, who is on them, and who has     *)
(* been asked to join (apps/hackathons/services.py TeamService, finder.py, *)
(* finder_admin.py, signals.py, and withdrawals.py for its outcome).       *)
(*                                                                         *)
(* One action is one database transaction.  _lock_team selects the team    *)
(* FOR UPDATE joined with its hackathon, so PostgreSQL locks both rows and *)
(* the team transactions of a hackathon run one after the other.  What is  *)
(* not covered by that lock is split: an account is created without it,    *)
(* its post_save hook claims e-mailed invites after the commit, and        *)
(* invite_by_email reads the accounts before its insert is visible.        *)
(*                                                                         *)
(* The hackathon has no max_teams, no max_participants and no registration *)
(* fee (module SeatAllocation).  When a withdrawal needs an approval, and  *)
(* how many teams one person may create, is module Withdrawals.  The 24    *)
(* hours after a declined request are a delay, which an untimed model does *)
(* not see.  Participants are not organizers.                              *)
(***************************************************************************)
EXTENDS Naturals, FiniteSets

CONSTANTS Users,        \* participants, with or without an account
          Teams,        \* team rows
          Existing,     \* participants whose account exists at the start
          Nobody,       \* a NULL foreign key
          Organizer,    \* anybody holding the "teams" permission
          MinSize,      \* Hackathon.min_team_size
          MaxSize,      \* Hackathon.max_team_size
          MaxRequests,  \* MAX_PENDING_REQUESTS
          Phases,       \* what the organizers set registration to
          Failures      \* whether an account's claim may be lost

ASSUME ActorsAssumption ==
    /\ Existing \subseteq Users
    /\ Nobody \notin Users
    /\ Organizer \notin Users
    /\ Nobody # Organizer

ASSUME SizesAssumption ==
    /\ MinSize \in Nat \ {0}
    /\ MaxSize \in Nat
    /\ MinSize <= MaxSize
    /\ MaxRequests \in Nat

ASSUME SettingsAssumption ==
    /\ Phases \subseteq {"OPEN", "LOCKED", "CLOSED"}
    /\ "OPEN" \in Phases
    /\ Failures \in BOOLEAN

VARIABLES
    status,       \* Team.status, "ABSENT" when there is no such row
    leader,       \* Team.leader
    recruiting,   \* teams with looking_for_members
    members,      \* TeamMember rows of each team
    leaderRole,   \* those of them whose role is LEADER
    invites,      \* PENDING TeamInvite rows, as <<team, user>>
    requests,     \* PENDING TeamJoinRequest rows
    emailInvites, \* PENDING TeamEmailInvite rows, the address as its user
    accounts,     \* users whose account exists
    claiming,     \* new accounts whose claim_email_invites hook is still to run
    emailing,     \* the invite_by_email that has read the accounts and not committed
    phase         \* "LOCKED" is team_edits_locked, "CLOSED" is not is_registration_open

rows    == <<status, leader>>
places  == <<members, leaderRole>>
waiting == <<invites, requests>>
signUps == <<accounts, claiming, emailInvites, emailing>>
vars    == <<rows, places, waiting, signUps, recruiting, phase>>

ActiveStatuses == {"FORMING", "REGISTERED"}
TeamStatuses   == ActiveStatuses \cup {"DISQUALIFIED", "WITHDRAWN"}
Pairs          == Teams \X Users

TypeOK ==
    /\ status \in [Teams -> TeamStatuses \cup {"ABSENT"}]
    /\ leader \in [Teams -> Users \cup {Nobody}]
    /\ recruiting \subseteq Teams
    /\ members \in [Teams -> SUBSET Users]
    /\ leaderRole \in [Teams -> SUBSET Users]
    /\ invites \subseteq Pairs
    /\ requests \subseteq Pairs
    /\ emailInvites \subseteq Pairs
    /\ accounts \subseteq Users
    /\ claiming \subseteq accounts
    /\ emailing \subseteq Pairs
    /\ phase \in Phases

Init ==
    /\ status = [t \in Teams |-> "ABSENT"]
    /\ leader = [t \in Teams |-> Nobody]
    /\ recruiting = {}
    /\ members = [t \in Teams |-> {}]
    /\ leaderRole = [t \in Teams |-> {}]
    /\ invites = {}
    /\ requests = {}
    /\ emailInvites = {}
    /\ accounts = Existing
    /\ claiming = {}
    /\ emailing = {}
    /\ phase = "OPEN"

-----------------------------------------------------------------------------
(* Guards and effects the handlers share. *)

Active(t) == status[t] \in ActiveStatuses
Exists(t) == status[t] # "ABSENT"
\* Mutant: only leaders count as being on a team.
LeadsATeam(u) == \E t \in Teams : u = leader[t]

OnATeam(u) == \E t \in Teams : u \in members[t]
Actors(t) == {Organizer, leader[t]} \ {Nobody}

\* No transaction holds the hackathon's row.
HackathonFree == emailing = {}

\* No transaction holds the team's row.
TeamFree(t) == \A p \in emailing : p[1] # t

\* _require_leader.
Leads(t, a) == a \in Actors(t)

\* _require_team_editable: organizers bypass every check.
Editable(t, a) == a = Organizer \/ (Active(t) /\ phase = "OPEN")

\* _recompute_status: the status of a team that now has these members.
Recomputed(s, people) ==
    IF s \notin ActiveStatuses THEN s
    ELSE IF Cardinality(people) >= MinSize THEN "REGISTERED" ELSE "FORMING"

InvitesOf(t) == {p \in invites : p[1] = t}
EmailInvitesOf(t) == {p \in emailInvites : p[1] = t}

\* _slots_used.
SlotsUsed(t) ==
    Cardinality(members[t]) + Cardinality(InvitesOf(t)) + Cardinality(EmailInvitesOf(t))

WithoutUser(pairs, u) == {p \in pairs : p[2] # u}
WithoutTeam(pairs, t) == {p \in pairs : p[1] # t}

\* The member u leaves team t.
Drop(t, u) ==
    /\ members' = [members EXCEPT ![t] = @ \ {u}]
    /\ leaderRole' = [leaderRole EXCEPT ![t] = @ \ {u}]

\* _admit: every check that applies to somebody joining, then the membership,
\* the end of everything else they were waiting on, and the team's status.
Admit(t, u) ==
    /\ Active(t)
    /\ phase = "OPEN"
    /\ ~OnATeam(u)
    /\ Cardinality(members[t]) < MaxSize
    /\ members' = [members EXCEPT ![t] = @ \cup {u}]
    /\ invites' = WithoutUser(invites, u)
    /\ requests' = WithoutUser(requests, u)
    /\ status' = [status EXCEPT ![t] = Recomputed(@, members[t] \cup {u})]
    /\ UNCHANGED <<leader, leaderRole>>

\* Mutant: the creator's pending invites stay.
NewTeamKeepingInvites(t, u) ==
    /\ status[t] = "ABSENT"
    /\ ~OnATeam(u)
    /\ status' = [status EXCEPT ![t] = Recomputed("FORMING", {u})]
    /\ leader' = [leader EXCEPT ![t] = u]
    /\ members' = [members EXCEPT ![t] = {u}]
    /\ leaderRole' = [leaderRole EXCEPT ![t] = {u}]
    /\ UNCHANGED <<invites, requests, signUps, phase, recruiting>>

\* The rows a newly created team starts from.
NewTeam(t, u) ==
    /\ status[t] = "ABSENT"
    /\ ~OnATeam(u)
    /\ status' = [status EXCEPT ![t] = Recomputed("FORMING", {u})]
    /\ leader' = [leader EXCEPT ![t] = u]
    /\ members' = [members EXCEPT ![t] = {u}]
    /\ leaderRole' = [leaderRole EXCEPT ![t] = {u}]
    /\ invites' = WithoutUser(invites, u)
    /\ UNCHANGED <<requests, signUps, phase, recruiting>>

-----------------------------------------------------------------------------
(* Creating and editing a team. *)

CreateTeam(t, u) ==
    /\ HackathonFree
    /\ u \in accounts
    /\ phase = "OPEN"
    /\ NewTeam(t, u)

\* create_team for an organizer: no window, no limit, no creator.
AdminCreateTeam(t, u) ==
    /\ HackathonFree
    /\ u \in accounts
    /\ NewTeam(t, u)

\* update_team: of what it changes, only whether the team is recruiting matters here.
UpdateTeam(t, a) ==
    /\ HackathonFree
    /\ Exists(t)
    /\ Leads(t, a)
    /\ Editable(t, a)
    /\ recruiting' = IF t \in recruiting THEN recruiting \ {t} ELSE recruiting \cup {t}
    /\ UNCHANGED <<rows, places, waiting, signUps, phase>>

\* The delete handler of TeamDetailView: the rows that point at the team go with it.
DeleteTeam(t) ==
    /\ TeamFree(t)
    /\ Exists(t)
    /\ status' = [status EXCEPT ![t] = "ABSENT"]
    /\ leader' = [leader EXCEPT ![t] = Nobody]
    /\ members' = [members EXCEPT ![t] = {}]
    /\ leaderRole' = [leaderRole EXCEPT ![t] = {}]
    /\ recruiting' = recruiting \ {t}
    /\ invites' = WithoutTeam(invites, t)
    /\ requests' = WithoutTeam(requests, t)
    /\ emailInvites' = WithoutTeam(emailInvites, t)
    /\ UNCHANGED <<accounts, claiming, emailing, phase>>

-----------------------------------------------------------------------------
(* Invites to accounts. *)

\* Mutant: e-mailed invites are not counted.
InviteIgnoringEmails(t, a, u) ==
    /\ HackathonFree
    /\ Exists(t)
    /\ Leads(t, a)
    /\ Editable(t, a)
    /\ u \in accounts
    /\ ~OnATeam(u)
    /\ <<t, u>> \notin invites
    /\ Cardinality(members[t]) + Cardinality(InvitesOf(t)) < MaxSize
    /\ invites' = invites \cup {<<t, u>>}
    /\ UNCHANGED <<rows, places, requests, signUps, recruiting, phase>>

\* invite and invite_eligibility.
Invite(t, a, u) ==
    /\ HackathonFree
    /\ Exists(t)
    /\ Leads(t, a)
    /\ Editable(t, a)
    /\ u \in accounts
    /\ ~OnATeam(u)
    /\ <<t, u>> \notin invites
    /\ SlotsUsed(t) < MaxSize
    /\ invites' = invites \cup {<<t, u>>}
    /\ UNCHANGED <<rows, places, requests, signUps, phase, recruiting>>

AcceptInvite(t, u) ==
    /\ HackathonFree
    /\ <<t, u>> \in invites
    /\ Admit(t, u)
    /\ UNCHANGED <<signUps, phase, recruiting>>

\* cancel_invite by whoever leads the team, decline_invite by the person asked.
CloseInvite(t, u) ==
    /\ HackathonFree
    /\ <<t, u>> \in invites
    /\ invites' = invites \ {<<t, u>>}
    /\ UNCHANGED <<rows, places, requests, signUps, phase, recruiting>>

-----------------------------------------------------------------------------
(* Invites to addresses without an account. *)

\* invite_by_email up to its insert: it holds the team and the hackathon, but
\* nothing keeps the account from being created before it commits.
InviteByEmail(t, a, u) ==
    /\ HackathonFree
    /\ Exists(t)
    /\ Leads(t, a)
    /\ Editable(t, a)
    /\ u \notin accounts
    /\ SlotsUsed(t) < MaxSize
    /\ <<t, u>> \notin emailInvites
    /\ emailing' = {<<t, u>>}
    /\ UNCHANGED <<rows, places, waiting, accounts, claiming, emailInvites, phase,
                    recruiting>>

CommitEmailInvite ==
    /\ emailing # {}
    /\ emailInvites' = emailInvites \cup emailing
    /\ emailing' = {}
    /\ UNCHANGED <<rows, places, waiting, accounts, claiming, phase,
                    recruiting>>

CancelEmailInvite(t, u) ==
    /\ HackathonFree
    /\ <<t, u>> \in emailInvites
    /\ emailInvites' = emailInvites \ {<<t, u>>}
    /\ UNCHANGED <<rows, places, waiting, accounts, claiming, emailing, phase,
                    recruiting>>

\* Mutant: the hook runs before the account's commit.
SignUpUncommitted(u) ==
    /\ u \notin accounts
    /\ claiming' = claiming \cup {u}
    /\ UNCHANGED <<rows, places, waiting, accounts, emailInvites, emailing, phase, recruiting>>

\* The account is created; its post_save hook runs once that has committed.
SignUp(u) ==
    /\ u \notin accounts
    /\ accounts' = accounts \cup {u}
    /\ claiming' = claiming \cup {u}
    /\ UNCHANGED <<rows, places, waiting, emailInvites, emailing, phase,
                    recruiting>>

\* Teams whose e-mailed invite still leads somewhere when the account claims it.
\* The e-mailed invite itself is one of the slots in use.
Usable(u) ==
    {t \in Teams : /\ <<t, u>> \in emailInvites
                   /\ Active(t)
                   /\ phase = "OPEN"
                   /\ ~OnATeam(u)
                   /\ SlotsUsed(t) - 1 < MaxSize}

\* claim_email_invites.  A pending invite of the same team makes the insert
\* fail: the whole transaction is rolled back and the hook logs the exception.
ClaimEmailInvites(u) ==
    LET mine   == {p \in emailInvites : p[2] = u}
        new    == Usable(u) \X {u}
    IN  /\ u \in claiming
        /\ mine = {} \/ HackathonFree
        /\ claiming' = claiming \ {u}
        /\ IF new \cap invites = {}
           THEN /\ emailInvites' = emailInvites \ mine
                /\ invites' = invites \cup new
           ELSE UNCHANGED <<emailInvites, invites>>
        /\ UNCHANGED <<rows, places, requests, accounts, emailing, phase,
                        recruiting>>

\* The process dies after the account's commit, or the hook's exception is logged.
LoseClaim(u) ==
    /\ Failures
    /\ u \in claiming
    /\ claiming' = claiming \ {u}
    /\ UNCHANGED <<rows, places, waiting, accounts, emailInvites, emailing, phase,
                    recruiting>>

-----------------------------------------------------------------------------
(* Requests to join a recruiting team (finder.py, finder_admin.py). *)

RequestToJoin(t, u) ==
    /\ TeamFree(t)
    /\ u \in accounts
    /\ phase # "CLOSED"
    /\ t \in recruiting
    /\ Active(t)
    /\ leader[t] # Nobody
    /\ ~OnATeam(u)
    /\ Cardinality(members[t]) < MaxSize
    /\ <<t, u>> \notin requests
    /\ Cardinality({p \in requests : p[2] = u}) < MaxRequests
    /\ requests' = requests \cup {<<t, u>>}
    /\ UNCHANGED <<rows, places, invites, signUps, phase, recruiting>>

\* decide_request, accepting.
AcceptRequest(t, u) ==
    /\ HackathonFree
    /\ <<t, u>> \in requests
    /\ Admit(t, u)
    /\ UNCHANGED <<signUps, phase, recruiting>>

\* decide_request declining, and both cancel_request: the sender's and the organizers'.
CloseRequest(t, u) ==
    /\ TeamFree(t)
    /\ <<t, u>> \in requests
    /\ requests' = requests \ {<<t, u>>}
    /\ UNCHANGED <<rows, places, invites, signUps, phase, recruiting>>

\* place_seeker: the checks of a join, without an invite or a request.
PlaceSeeker(t, u) ==
    /\ HackathonFree
    /\ u \in accounts
    /\ Admit(t, u)
    /\ UNCHANGED <<signUps, phase, recruiting>>

\* remove_seeker: the person's open requests are withdrawn with their listing.
RemoveSeeker(u) ==
    /\ requests' = WithoutUser(requests, u)
    /\ UNCHANGED <<rows, places, invites, signUps, phase, recruiting>>

StopRecruiting(t) ==
    /\ TeamFree(t)
    /\ Exists(t)
    /\ recruiting' = recruiting \ {t}
    /\ requests' = WithoutTeam(requests, t)
    /\ UNCHANGED <<rows, places, invites, signUps, phase>>

-----------------------------------------------------------------------------
(* Leaving, leading and being removed. *)

\* Mutant: the leader may be removed too.
RemoveAnybody(t, a, u) ==
    /\ HackathonFree
    /\ Leads(t, a)
    /\ Editable(t, a)
    /\ u \in members[t]
    /\ Drop(t, u)
    /\ status' = [status EXCEPT ![t] = Recomputed(@, members[t] \ {u})]
    /\ UNCHANGED <<leader, waiting, signUps, phase, recruiting>>

RemoveMember(t, a, u) ==
    /\ HackathonFree
    /\ Leads(t, a)
    /\ Editable(t, a)
    /\ u \in members[t]
    /\ u # leader[t]
    /\ Drop(t, u)
    /\ status' = [status EXCEPT ![t] = Recomputed(@, members[t] \ {u})]
    /\ UNCHANGED <<leader, waiting, signUps, phase,
                    recruiting>>

\* leave_team by somebody who does not lead the team.
LeaveTeam(t, u) ==
    /\ HackathonFree
    /\ u \in members[t]
    /\ u # leader[t]
    /\ Editable(t, u)
    /\ Drop(t, u)
    /\ status' = [status EXCEPT ![t] = Recomputed(@, members[t] \ {u})]
    /\ UNCHANGED <<leader, waiting, signUps, phase,
                    recruiting>>

\* transfer_leadership: no window for it, and a participant's team must be active.
TransferLeadership(t, a, u) ==
    /\ HackathonFree
    /\ Leads(t, a)
    /\ a = Organizer \/ Active(t)
    /\ u \in members[t]
    /\ u # leader[t]
    /\ leaderRole' = [leaderRole EXCEPT ![t] = {u}]
    /\ leader' = [leader EXCEPT ![t] = u]
    /\ UNCHANGED <<status, members, waiting, signUps, phase,
                    recruiting>>

-----------------------------------------------------------------------------
(* Withdrawing a team (withdrawals.py). *)

\* Mutant: an approved withdrawal does not look for other members.
WithdrawAnyTeam(t, u) ==
    /\ HackathonFree
    /\ Active(t)
    /\ u \in members[t]
    /\ Drop(t, u)
    /\ leader' = [leader EXCEPT ![t] = Nobody]
    /\ status' = [status EXCEPT ![t] = "WITHDRAWN"]
    /\ invites' = WithoutTeam(invites, t)
    /\ UNCHANGED <<requests, signUps, recruiting, phase>>

\* _finish_withdrawal, for u who leads the team alone or whose request is approved
\* (withdraw, decide; in any phase then, and even when nobody is left on the team):
\* the row stays, without leader and invites.
WithdrawTeam(t, u) ==
    /\ HackathonFree
    /\ Active(t)
    /\ members[t] \subseteq {u}
    /\ Drop(t, u)
    /\ leader' = [leader EXCEPT ![t] = Nobody]
    /\ status' = [status EXCEPT ![t] = "WITHDRAWN"]
    /\ invites' = WithoutTeam(invites, t)
    /\ UNCHANGED <<requests, signUps, recruiting, phase>>

-----------------------------------------------------------------------------
(* The organizers. *)

\* admin_add_member: no window, no size, any status; a team without a leader gets one.
AdminAddMember(t, u) ==
    /\ HackathonFree
    /\ Exists(t)
    /\ u \in accounts
    /\ ~OnATeam(u)
    /\ members' = [members EXCEPT ![t] = @ \cup {u}]
    /\ IF leader[t] = Nobody
       THEN /\ leader' = [leader EXCEPT ![t] = u]
            /\ leaderRole' = [leaderRole EXCEPT ![t] = @ \cup {u}]
       ELSE UNCHANGED <<leader, leaderRole>>
    /\ invites' = WithoutUser(invites, u)
    /\ status' = [status EXCEPT ![t] = Recomputed(@, members[t] \cup {u})]
    /\ UNCHANGED <<requests, signUps, phase,
                    recruiting>>

AdminSetStatus(t, s) ==
    /\ HackathonFree
    /\ Exists(t)
    /\ status' = [status EXCEPT ![t] = Recomputed(s, members[t])]
    /\ UNCHANGED <<leader, places, waiting, signUps, recruiting, phase>>

\* The settings are saved with an UPDATE of the hackathon's row; an opening or
\* closing date that passes changes registration in the same way.
SetRegistration(ph) ==
    /\ HackathonFree
    /\ phase' = ph
    /\ UNCHANGED <<rows, places, waiting, signUps, recruiting>>

-----------------------------------------------------------------------------
(* The system. *)

ParticipantStep(t, u) ==
    \/ CreateTeam(t, u)
    \/ AcceptInvite(t, u)
    \/ CloseInvite(t, u)
    \/ CancelEmailInvite(t, u)
    \/ RequestToJoin(t, u)
    \/ AcceptRequest(t, u)
    \/ CloseRequest(t, u)
    \/ LeaveTeam(t, u)
    \/ WithdrawTeam(t, u)

LeaderStep(t, a) ==
    \/ UpdateTeam(t, a)
    \/ \E u \in Users : \/ Invite(t, a, u)
                        \/ InviteByEmail(t, a, u)
                        \/ RemoveMember(t, a, u)
                        \/ TransferLeadership(t, a, u)

OrganizerStep(t) ==
    \/ DeleteTeam(t)
    \/ StopRecruiting(t)
    \/ \E s \in TeamStatuses : AdminSetStatus(t, s)
    \/ \E u \in Users : \/ AdminCreateTeam(t, u)
                        \/ PlaceSeeker(t, u)
                        \/ AdminAddMember(t, u)

AccountStep(u) ==
    \/ SignUp(u)
    \/ ClaimEmailInvites(u)
    \/ LoseClaim(u)
    \/ RemoveSeeker(u)

Next ==
    \/ \E t \in Teams :
          \/ \E u \in Users : ParticipantStep(t, u)
          \/ \E a \in Actors(t) : LeaderStep(t, a)
          \/ OrganizerStep(t)
    \/ \E u \in Users : AccountStep(u)
    \/ CommitEmailInvite
    \/ \E ph \in Phases : SetRegistration(ph)

Spec == Init /\ [][Next]_vars

-----------------------------------------------------------------------------
(* Safety. *)

\* Nobody is on two teams of the hackathon, whichever of the seven ways onto a
\* team (create, invite, claimed invite, request, placement, organizer) they took.
OneTeamPerUser ==
    \A u \in Users, t, other \in Teams :
        u \in members[t] /\ u \in members[other] => t = other

\* Team.leader and the LEADER role of the memberships, which are written
\* separately, always name the same person, who is on the team.
LeaderIsTheLeadingMember ==
    \A t \in Teams : /\ leaderRole[t] = {leader[t]} \ {Nobody}
                     /\ leaderRole[t] \subseteq members[t]

\* A team that has a leader keeps one as long as anybody is on it: an approved
\* withdrawal takes nobody's team away who joined while it was waiting.
LeaderStaysWithMembers ==
    [][\A t \in Teams :
          leader[t] # Nobody /\ members'[t] # {} => leader'[t] # Nobody]_vars

\* An active team is REGISTERED exactly while it has the minimum size: every
\* change of its members, and every reinstatement, re-evaluates it.
StatusFollowsSize ==
    \A t \in Teams :
        Active(t) => (status[t] = "REGISTERED" <=> Cardinality(members[t]) >= MinSize)

\* What is stored twice, or stored though it could be counted, agrees with the
\* memberships after every handler: who leads a team, and whether it is big enough.
RowsAgree == LeaderIsTheLeadingMember /\ StatusFollowsSize

\* Whoever is on a team has no invite left to accept: the ways onto a team cancel
\* them, and neither inviting nor claiming an e-mailed invite makes a new one.
NoInviteForMember ==
    \A p \in invites : ~OnATeam(p[2])

\* No invite, to an account or to an address, and no claim of one, lets members
\* and pending invites together outgrow max_team_size.
InvitesReserveSlots ==
    [][\A t \in Teams :
          (\E u \in Users : \/ <<t, u>> \in invites' \ invites
                           \/ <<t, u>> \in emailInvites' \ emailInvites)
          => SlotsUsed(t)' <= MaxSize]_vars

\* Only an organizer adding somebody by hand takes a team over max_team_size.
SizeWithinLimit ==
    [][\A t \in Teams :
          ~(members'[t] \subseteq members[t]) /\ Cardinality(members'[t]) > MaxSize
          => \E u \in Users : AdminAddMember(t, u)]_vars

\* A team outgrows max_team_size by an organizer's hand alone, neither through its
\* members nor through what it has promised to people it invited.
SizesHold == InvitesReserveSlots /\ SizeWithinLimit

\* Membership seen through the TeamMember rows and Team.leader.
Roster == INSTANCE Membership WITH roster <- members, lead <- leader

\* Whatever invites, requests, statuses and overrides lead there, teams' members and
\* leaders only ever move as module Membership says: one person at a time or a whole
\* team, nobody onto a second team, and no lead lost while others stay.
ImplementsMembership == Roster!Spec

=============================================================================
