------------------------ MODULE TeamFormationProofs ------------------------
(***************************************************************************)
(* The safety of TeamFormation for every number of participants and teams  *)
(* and every team size: type correctness, then the invariants that the     *)
(* runs of MCTeamFormation check on two teams and three participants.      *)
(***************************************************************************)
EXTENDS TeamFormation, FiniteSetTheorems, TLAPS

-----------------------------------------------------------------------------
(* Lemmas about the operators of the model. *)

\* Re-evaluating a team's status gives a team status again.
LEMMA RecomputedType ==
    ASSUME NEW s \in TeamStatuses, NEW people
    PROVE  Recomputed(s, people) \in TeamStatuses
BY DEF Recomputed, TeamStatuses, ActiveStatuses

\* A re-evaluated status is active only if it was, and then it says whether the
\* minimum size is reached.
LEMMA RecomputedFollowsSize ==
    ASSUME NEW s, NEW people, Recomputed(s, people) \in ActiveStatuses
    PROVE  Recomputed(s, people) = "REGISTERED" <=> Cardinality(people) >= MinSize
BY DEF Recomputed, ActiveStatuses

\* Whoever acts on a team they lead is a participant or an organizer.
LEMMA ActorsType ==
    ASSUME TypeOK, NEW t \in Teams
    PROVE  Actors(t) \subseteq Users \cup {Organizer}
BY DEF TypeOK, Actors

-----------------------------------------------------------------------------
(* Type correctness. *)

\* Every row keeps the type of its column, and no account is claimed for before
\* it exists: services.py and signals.py.
THEOREM TypeCorrect == Spec => []TypeOK
<1>1. Init => TypeOK
  BY ActorsAssumption, SettingsAssumption DEF Init, TypeOK, TeamStatuses, ActiveStatuses
<1>2. TypeOK /\ [Next]_vars => TypeOK'
  <2> SUFFICES ASSUME TypeOK, [Next]_vars PROVE TypeOK'
    OBVIOUS
  <2> USE DEF TypeOK, rows, places, waiting, signUps, vars
  <2>1. ASSUME NEW t \in Teams, NEW u \in Users, CreateTeam(t, u) \/ AdminCreateTeam(t, u)
        PROVE  TypeOK'
    <3>1. Recomputed("FORMING", {u}) \in TeamStatuses
      BY RecomputedType DEF TeamStatuses, ActiveStatuses
    <3> QED
      BY <2>1, <3>1 DEF CreateTeam, AdminCreateTeam, NewTeam, WithoutUser, Pairs
  <2>2. ASSUME NEW t \in Teams, NEW u \in Users,
               AcceptInvite(t, u) \/ AcceptRequest(t, u) \/ PlaceSeeker(t, u)
        PROVE  TypeOK'
    <3>1. Admit(t, u) /\ UNCHANGED <<signUps, phase, recruiting>>
      BY <2>2 DEF AcceptInvite, AcceptRequest, PlaceSeeker
    <3>2. Recomputed(status[t], members[t] \cup {u}) \in TeamStatuses
      BY <3>1, RecomputedType DEF Admit, Active, TeamStatuses
    <3> QED
      BY <3>1, <3>2 DEF Admit, WithoutUser, Pairs
  <2>3. ASSUME NEW t \in Teams, NEW u \in Users,
               CloseInvite(t, u) \/ CancelEmailInvite(t, u) \/ CloseRequest(t, u)
        PROVE  TypeOK'
    BY <2>3 DEF CloseInvite, CancelEmailInvite, CloseRequest
  <2>4. ASSUME NEW t \in Teams, NEW u \in Users, RequestToJoin(t, u)
        PROVE  TypeOK'
    BY <2>4 DEF RequestToJoin, Pairs
  <2>5. ASSUME NEW t \in Teams, NEW u \in Users, LeaveTeam(t, u)
        PROVE  TypeOK'
    <3>1. status[t] \in TeamStatuses
      BY <2>5, ActorsAssumption DEF LeaveTeam, Editable, Active, TeamStatuses
    <3>2. Recomputed(status[t], members[t] \ {u}) \in TeamStatuses
      BY <3>1, RecomputedType
    <3> QED
      BY <2>5, <3>2 DEF LeaveTeam, Drop
  <2>6. ASSUME NEW t \in Teams, NEW u \in Users, WithdrawTeam(t, u)
        PROVE  TypeOK'
    BY <2>6 DEF WithdrawTeam, Drop, WithoutTeam, Pairs, TeamStatuses
  <2>7. ASSUME NEW t \in Teams, NEW a \in Actors(t), UpdateTeam(t, a)
        PROVE  TypeOK'
    BY <2>7 DEF UpdateTeam
  <2>8. ASSUME NEW t \in Teams, NEW a \in Actors(t), NEW u \in Users,
               Invite(t, a, u) \/ InviteByEmail(t, a, u)
        PROVE  TypeOK'
    BY <2>8 DEF Invite, InviteByEmail, Pairs
  <2>9. ASSUME NEW t \in Teams, NEW a \in Actors(t), NEW u \in Users, RemoveMember(t, a, u)
        PROVE  TypeOK'
    <3>1. Recomputed(status[t], members[t] \ {u}) \in TeamStatuses \cup {"ABSENT"}
      BY RecomputedType DEF Recomputed, ActiveStatuses
    <3> QED
      BY <2>9, <3>1 DEF RemoveMember, Drop
  <2>10. ASSUME NEW t \in Teams, NEW a \in Actors(t), NEW u \in Users,
                TransferLeadership(t, a, u)
         PROVE  TypeOK'
    BY <2>10 DEF TransferLeadership
  <2>11. ASSUME NEW t \in Teams, DeleteTeam(t) \/ StopRecruiting(t)
         PROVE  TypeOK'
    BY <2>11 DEF DeleteTeam, StopRecruiting, WithoutTeam, Pairs
  <2>12. ASSUME NEW t \in Teams, NEW s \in TeamStatuses, AdminSetStatus(t, s)
         PROVE  TypeOK'
    BY <2>12, RecomputedType DEF AdminSetStatus
  <2>13. ASSUME NEW t \in Teams, NEW u \in Users, AdminAddMember(t, u)
         PROVE  TypeOK'
    <3>1. Recomputed(status[t], members[t] \cup {u}) \in TeamStatuses
      BY <2>13, RecomputedType DEF AdminAddMember, Exists
    <3> QED
      BY <2>13, <3>1 DEF AdminAddMember, WithoutUser, Pairs
  <2>14. ASSUME NEW u \in Users, SignUp(u) \/ LoseClaim(u) \/ RemoveSeeker(u)
         PROVE  TypeOK'
    BY <2>14 DEF SignUp, LoseClaim, RemoveSeeker, WithoutUser, Pairs
  <2>15. ASSUME NEW u \in Users, ClaimEmailInvites(u)
         PROVE  TypeOK'
    <3>1. Usable(u) \X {u} \subseteq Pairs
      BY DEF Usable, Pairs
    <3>2. emailInvites' \subseteq emailInvites /\ invites' \subseteq invites \cup (Usable(u) \X {u})
      BY <2>15 DEF ClaimEmailInvites
    <3> QED
      BY <2>15, <3>1, <3>2 DEF ClaimEmailInvites
  <2>16. ASSUME CommitEmailInvite
         PROVE  TypeOK'
    BY <2>16 DEF CommitEmailInvite
  <2>17. ASSUME NEW ph \in Phases, SetRegistration(ph)
         PROVE  TypeOK'
    BY <2>17 DEF SetRegistration
  <2>18. CASE UNCHANGED vars
    BY <2>18
  <2> QED
    BY <2>1, <2>2, <2>3, <2>4, <2>5, <2>6, <2>7, <2>8, <2>9, <2>10, <2>11, <2>12, <2>13,
       <2>14, <2>15, <2>16, <2>17, <2>18
    DEF Next, ParticipantStep, LeaderStep, OrganizerStep, AccountStep
<1> QED
  BY <1>1, <1>2, PTL DEF Spec

-----------------------------------------------------------------------------
(* How a step may change who is on the teams. *)

\* The steps that touch a team's status, leader or members: every way onto a team
\* ends in NewTeam, Admit or AdminAddMember.
LEMMA TeamChanges ==
    ASSUME [Next]_vars
    PROVE  \/ UNCHANGED <<rows, places>> /\ invites' \subseteq invites
           \/ UNCHANGED <<rows, places>> /\
              \E u \in Users : ~OnATeam(u) /\ invites' \subseteq invites \cup (Teams \X {u})
           \/ \E t \in Teams, u \in Users :
                 \/ NewTeam(t, u)
                 \/ Admit(t, u)
                 \/ AdminAddMember(t, u)
                 \/ WithdrawTeam(t, u)
                 \/ LeaveTeam(t, u)
                 \/ \E a \in Actors(t) : RemoveMember(t, a, u) \/ TransferLeadership(t, a, u)
           \/ \E t \in Teams : \/ DeleteTeam(t)
                              \/ \E s \in TeamStatuses : AdminSetStatus(t, s)
<1> USE DEF rows, places, waiting, signUps, vars
<1>1. ASSUME NEW t \in Teams, NEW u \in Users,
             CloseInvite(t, u) \/ CancelEmailInvite(t, u) \/ RequestToJoin(t, u)
                \/ CloseRequest(t, u)
      PROVE  UNCHANGED <<rows, places>> /\ invites' \subseteq invites
  BY <1>1 DEF CloseInvite, CancelEmailInvite, RequestToJoin, CloseRequest
<1>2. ASSUME NEW t \in Teams, NEW a, NEW u \in Users, Invite(t, a, u)
      PROVE  /\ UNCHANGED <<rows, places>>
             /\ ~OnATeam(u)
             /\ invites' \subseteq invites \cup (Teams \X {u})
  BY <1>2 DEF Invite
<1>3. ASSUME NEW t \in Teams, NEW a, UpdateTeam(t, a) \/ StopRecruiting(t)
                \/ \E u \in Users : InviteByEmail(t, a, u)
      PROVE  UNCHANGED <<rows, places>> /\ invites' \subseteq invites
  BY <1>3 DEF UpdateTeam, StopRecruiting, InviteByEmail
<1>4. ASSUME NEW u \in Users, SignUp(u) \/ LoseClaim(u) \/ RemoveSeeker(u)
      PROVE  UNCHANGED <<rows, places>> /\ invites' \subseteq invites
  BY <1>4 DEF SignUp, LoseClaim, RemoveSeeker
<1>5. ASSUME NEW u \in Users, ClaimEmailInvites(u)
      PROVE  /\ UNCHANGED <<rows, places>>
             /\ \/ invites' \subseteq invites
                \/ ~OnATeam(u) /\ invites' \subseteq invites \cup (Teams \X {u})
  <2>1. UNCHANGED <<rows, places>> /\ invites' \subseteq invites \cup (Usable(u) \X {u})
    BY <1>5 DEF ClaimEmailInvites
  <2>2. Usable(u) \subseteq Teams
    BY DEF Usable
  <2>3. CASE Usable(u) = {}
    BY <2>1, <2>3
  <2>4. CASE Usable(u) # {}
    BY <2>1, <2>2, <2>4 DEF Usable
  <2> QED
    BY <2>3, <2>4
<1>6. ASSUME CommitEmailInvite \/ \E ph \in Phases : SetRegistration(ph)
      PROVE  UNCHANGED <<rows, places>> /\ invites' \subseteq invites
  BY <1>6 DEF CommitEmailInvite, SetRegistration
<1>7. CASE UNCHANGED vars
  BY <1>7
<1>8. ASSUME NEW t \in Teams, NEW u \in Users, ParticipantStep(t, u)
      PROVE  \/ UNCHANGED <<rows, places>> /\ invites' \subseteq invites
             \/ NewTeam(t, u) \/ Admit(t, u) \/ LeaveTeam(t, u) \/ WithdrawTeam(t, u)
  BY <1>1, <1>8 DEF ParticipantStep, CreateTeam, AcceptInvite, AcceptRequest
<1>9. ASSUME NEW t \in Teams, OrganizerStep(t)
      PROVE  \/ UNCHANGED <<rows, places>> /\ invites' \subseteq invites
             \/ DeleteTeam(t) \/ \E s \in TeamStatuses : AdminSetStatus(t, s)
             \/ \E u \in Users : NewTeam(t, u) \/ Admit(t, u) \/ AdminAddMember(t, u)
  BY <1>3, <1>9 DEF OrganizerStep, AdminCreateTeam, PlaceSeeker
<1> QED
  BY <1>2, <1>3, <1>4, <1>5, <1>6, <1>7, <1>8, <1>9
  DEF Next, LeaderStep, AccountStep

\* Nobody but one person, who was on no team, gets onto a team in a step.
LEMMA OneJoins ==
    ASSUME TypeOK, [Next]_vars
    PROVE  \/ \A t \in Teams : members'[t] \subseteq members[t]
           \/ \E t \in Teams, u \in Users :
                 /\ ~OnATeam(u)
                 /\ \A other \in Teams :
                       members'[other] \subseteq
                           members[other] \cup (IF other = t THEN {u} ELSE {})
<1> USE DEF TypeOK, rows, places
<1>1. ASSUME NEW t \in Teams, NEW u \in Users,
             NewTeam(t, u) \/ Admit(t, u) \/ AdminAddMember(t, u)
      PROVE  /\ ~OnATeam(u)
             /\ \A other \in Teams :
                   members'[other] \subseteq
                       members[other] \cup (IF other = t THEN {u} ELSE {})
  BY <1>1 DEF NewTeam, Admit, AdminAddMember
<1>2. ASSUME NEW t \in Teams, NEW u \in Users,
             \/ LeaveTeam(t, u)
             \/ WithdrawTeam(t, u)
             \/ \E a \in Actors(t) : RemoveMember(t, a, u) \/ TransferLeadership(t, a, u)
      PROVE  \A other \in Teams : members'[other] \subseteq members[other]
  BY <1>2 DEF LeaveTeam, WithdrawTeam, RemoveMember, TransferLeadership, Drop
<1>3. ASSUME NEW t \in Teams, DeleteTeam(t) \/ \E s \in TeamStatuses : AdminSetStatus(t, s)
      PROVE  \A other \in Teams : members'[other] \subseteq members[other]
  BY <1>3 DEF DeleteTeam, AdminSetStatus
<1> QED
  BY <1>1, <1>2, <1>3, TeamChanges

-----------------------------------------------------------------------------
(* Safety. *)

\* Nobody is on two teams of a hackathon, whichever way they took onto one.
THEOREM OneTeamPerUserHolds == Spec => []OneTeamPerUser
<1>1. Init => OneTeamPerUser
  BY DEF Init, OneTeamPerUser
<1>2. TypeOK /\ OneTeamPerUser /\ [Next]_vars => OneTeamPerUser'
  BY OneJoins DEF OneTeamPerUser, OnATeam
<1> QED
  BY <1>1, <1>2, TypeCorrect, PTL DEF Spec

\* Team.leader and the LEADER role name the same person, who is on the team.
THEOREM LeaderIsTheLeadingMemberHolds == Spec => []LeaderIsTheLeadingMember
<1>1. Init => LeaderIsTheLeadingMember
  BY DEF Init, LeaderIsTheLeadingMember
<1>2. TypeOK /\ LeaderIsTheLeadingMember /\ [Next]_vars => LeaderIsTheLeadingMember'
  <2> SUFFICES ASSUME TypeOK, LeaderIsTheLeadingMember, [Next]_vars
               PROVE  LeaderIsTheLeadingMember'
    OBVIOUS
  <2> USE ActorsAssumption DEF TypeOK, LeaderIsTheLeadingMember, rows, places
  <2>1. ASSUME NEW t \in Teams, NEW u \in Users, NewTeam(t, u)
        PROVE  LeaderIsTheLeadingMember'
    BY <2>1 DEF NewTeam
  <2>2. ASSUME NEW t \in Teams, NEW u \in Users, Admit(t, u)
        PROVE  LeaderIsTheLeadingMember'
    BY <2>2 DEF Admit
  <2>3. ASSUME NEW t \in Teams, NEW u \in Users, AdminAddMember(t, u)
        PROVE  LeaderIsTheLeadingMember'
    BY <2>3 DEF AdminAddMember
  <2>4. ASSUME NEW t \in Teams, NEW u \in Users, WithdrawTeam(t, u)
        PROVE  LeaderIsTheLeadingMember'
    BY <2>4 DEF WithdrawTeam, Drop
  <2>5. ASSUME NEW t \in Teams, NEW u \in Users,
               LeaveTeam(t, u) \/ \E a \in Actors(t) : RemoveMember(t, a, u)
        PROVE  LeaderIsTheLeadingMember'
    BY <2>5 DEF LeaveTeam, RemoveMember, Drop
  <2>6. ASSUME NEW t \in Teams, NEW u \in Users, NEW a \in Actors(t),
               TransferLeadership(t, a, u)
        PROVE  LeaderIsTheLeadingMember'
    BY <2>6 DEF TransferLeadership
  <2>7. ASSUME NEW t \in Teams, DeleteTeam(t) \/ \E s \in TeamStatuses : AdminSetStatus(t, s)
        PROVE  LeaderIsTheLeadingMember'
    BY <2>7 DEF DeleteTeam, AdminSetStatus
  <2>8. CASE UNCHANGED <<rows, places>>
    BY <2>8
  <2> QED
    BY <2>1, <2>2, <2>3, <2>4, <2>5, <2>6, <2>7, <2>8, TeamChanges
<1> QED
  BY <1>1, <1>2, TypeCorrect, PTL DEF Spec

\* A team that has a leader keeps one as long as anybody is on it.
THEOREM LeaderStays == Spec => LeaderStaysWithMembers
<1>1. TypeOK /\ [Next]_vars =>
        [\A t \in Teams :
            leader[t] # Nobody /\ members'[t] # {} => leader'[t] # Nobody]_vars
  <2> SUFFICES ASSUME TypeOK, [Next]_vars, NEW x \in Teams,
                      leader[x] # Nobody, members'[x] # {}
               PROVE  leader'[x] # Nobody
    OBVIOUS
  <2> USE ActorsAssumption DEF TypeOK, rows, places
  <2>1. ASSUME NEW t \in Teams, NEW u \in Users,
               NewTeam(t, u) \/ Admit(t, u) \/ AdminAddMember(t, u)
        PROVE  leader'[x] # Nobody
    BY <2>1 DEF NewTeam, Admit, AdminAddMember
  <2>2. ASSUME NEW t \in Teams, NEW u \in Users, WithdrawTeam(t, u)
        PROVE  leader'[x] # Nobody
    BY <2>2 DEF WithdrawTeam, Drop
  <2>3. ASSUME NEW t \in Teams, NEW u \in Users,
               \/ LeaveTeam(t, u)
               \/ \E a \in Actors(t) : RemoveMember(t, a, u) \/ TransferLeadership(t, a, u)
        PROVE  leader'[x] # Nobody
    BY <2>3 DEF LeaveTeam, RemoveMember, TransferLeadership
  <2>4. ASSUME NEW t \in Teams, DeleteTeam(t) \/ \E s \in TeamStatuses : AdminSetStatus(t, s)
        PROVE  leader'[x] # Nobody
    BY <2>4 DEF DeleteTeam, AdminSetStatus
  <2>5. CASE UNCHANGED <<rows, places>>
    BY <2>5
  <2> QED
    BY <2>1, <2>2, <2>3, <2>4, <2>5, TeamChanges
<1> QED
  BY <1>1, TypeCorrect, PTL DEF Spec, LeaderStaysWithMembers

\* An active team is REGISTERED exactly while it has the minimum size.
THEOREM StatusFollowsSizeHolds == Spec => []StatusFollowsSize
<1>1. Init => StatusFollowsSize
  BY DEF Init, StatusFollowsSize, Active, ActiveStatuses
<1>2. TypeOK /\ StatusFollowsSize /\ [Next]_vars => StatusFollowsSize'
  <2> SUFFICES ASSUME TypeOK, StatusFollowsSize, [Next]_vars, NEW x \in Teams, Active(x)'
               PROVE  status'[x] = "REGISTERED" <=> Cardinality(members'[x]) >= MinSize
    BY DEF StatusFollowsSize
  <2> USE DEF TypeOK, rows, places
  <2>1. ASSUME status'[x] = status[x], members'[x] = members[x]
        PROVE  status'[x] = "REGISTERED" <=> Cardinality(members'[x]) >= MinSize
    BY <2>1 DEF StatusFollowsSize, Active
  <2>2. ASSUME NEW s, status'[x] = Recomputed(s, members'[x])
        PROVE  status'[x] = "REGISTERED" <=> Cardinality(members'[x]) >= MinSize
    BY <2>2, RecomputedFollowsSize DEF Active
  <2>3. ASSUME NEW t \in Teams, NEW u \in Users,
               NewTeam(t, u) \/ Admit(t, u) \/ AdminAddMember(t, u)
        PROVE  \/ status'[x] = status[x] /\ members'[x] = members[x]
               \/ \E s : status'[x] = Recomputed(s, members'[x])
    <3>1. CASE x # t
      BY <2>3, <3>1 DEF NewTeam, Admit, AdminAddMember
    <3>2. CASE NewTeam(t, u) /\ x = t
      <4>1. status'[x] = Recomputed("FORMING", {u}) /\ members'[x] = {u}
        BY <3>2 DEF NewTeam
      <4> QED
        BY <4>1
    <3>3. CASE (Admit(t, u) \/ AdminAddMember(t, u)) /\ x = t
      <4>1. /\ status'[x] = Recomputed(status[x], members[x] \cup {u})
            /\ members'[x] = members[x] \cup {u}
        BY <3>3 DEF Admit, AdminAddMember
      <4> QED
        BY <4>1
    <3> QED
      BY <2>3, <3>1, <3>2, <3>3
  <2>4. ASSUME NEW t \in Teams, NEW u \in Users, WithdrawTeam(t, u)
        PROVE  status'[x] = status[x] /\ members'[x] = members[x]
    BY <2>4 DEF WithdrawTeam, Drop, Active, ActiveStatuses
  <2>5. ASSUME NEW t \in Teams, NEW u \in Users,
               LeaveTeam(t, u) \/ \E a \in Actors(t) : RemoveMember(t, a, u)
        PROVE  \/ status'[x] = status[x] /\ members'[x] = members[x]
               \/ \E s : status'[x] = Recomputed(s, members'[x])
    BY <2>5 DEF LeaveTeam, RemoveMember, Drop
  <2>6. ASSUME NEW t \in Teams, NEW u \in Users, NEW a \in Actors(t),
               TransferLeadership(t, a, u)
        PROVE  status'[x] = status[x] /\ members'[x] = members[x]
    BY <2>6 DEF TransferLeadership
  <2>7. ASSUME NEW t \in Teams, DeleteTeam(t)
        PROVE  status'[x] = status[x] /\ members'[x] = members[x]
    BY <2>7 DEF DeleteTeam, Active, ActiveStatuses
  <2>8. ASSUME NEW t \in Teams, NEW s \in TeamStatuses, AdminSetStatus(t, s)
        PROVE  \/ status'[x] = status[x] /\ members'[x] = members[x]
               \/ status'[x] = Recomputed(s, members'[x])
    BY <2>8 DEF AdminSetStatus
  <2>9. CASE UNCHANGED <<rows, places>>
    BY <2>1, <2>9
  <2> QED
    BY <2>1, <2>2, <2>3, <2>4, <2>5, <2>6, <2>7, <2>8, <2>9, TeamChanges
<1> QED
  BY <1>1, <1>2, TypeCorrect, PTL DEF Spec

\* The leader and the status kept on a team agree with its memberships.
THEOREM RowsAgreeHolds == Spec => []RowsAgree
BY LeaderIsTheLeadingMemberHolds, StatusFollowsSizeHolds, PTL DEF RowsAgree

\* Whoever is on a team has no invite left to accept.
THEOREM NoInviteForMemberHolds == Spec => []NoInviteForMember
<1>1. Init => NoInviteForMember
  BY DEF Init, NoInviteForMember
<1>2. TypeOK /\ NoInviteForMember /\ [Next]_vars => NoInviteForMember'
  <2> SUFFICES ASSUME TypeOK, NoInviteForMember, [Next]_vars
               PROVE  NoInviteForMember'
    OBVIOUS
  <2> USE DEF TypeOK, NoInviteForMember, OnATeam, rows, places, waiting
  <2>1. ASSUME NEW t \in Teams, NEW u \in Users,
               NewTeam(t, u) \/ Admit(t, u) \/ AdminAddMember(t, u)
        PROVE  NoInviteForMember'
    <3>1. /\ invites' = WithoutUser(invites, u)
          /\ \A other \in Teams : members'[other] \subseteq members[other] \cup {u}
      BY <2>1 DEF NewTeam, Admit, AdminAddMember
    <3> QED
      BY <3>1 DEF WithoutUser
  <2>2. ASSUME invites' \subseteq invites,
               \A t \in Teams : members'[t] \subseteq members[t]
        PROVE  NoInviteForMember'
    BY <2>2
  <2>3. ASSUME NEW t \in Teams, NEW u \in Users,
               \/ WithdrawTeam(t, u)
               \/ LeaveTeam(t, u)
               \/ \E a \in Actors(t) : RemoveMember(t, a, u) \/ TransferLeadership(t, a, u)
        PROVE  invites' \subseteq invites /\ \A x \in Teams : members'[x] \subseteq members[x]
    BY <2>3 DEF WithdrawTeam, LeaveTeam, RemoveMember, TransferLeadership, Drop, WithoutTeam
  <2>4. ASSUME NEW t \in Teams, DeleteTeam(t) \/ \E s \in TeamStatuses : AdminSetStatus(t, s)
        PROVE  invites' \subseteq invites /\ \A x \in Teams : members'[x] \subseteq members[x]
    BY <2>4 DEF DeleteTeam, AdminSetStatus, WithoutTeam
  <2>5. ASSUME NEW u \in Users, UNCHANGED <<rows, places>>, ~OnATeam(u),
               invites' \subseteq invites \cup (Teams \X {u})
        PROVE  NoInviteForMember'
    BY <2>5
  <2>6. CASE UNCHANGED <<rows, places>> /\ invites' \subseteq invites
    BY <2>6
  <2> QED
    BY <2>1, <2>2, <2>3, <2>4, <2>5, <2>6, TeamChanges
<1> QED
  BY <1>1, <1>2, TypeCorrect, PTL DEF Spec

-----------------------------------------------------------------------------
(* Sizes.  Nothing is assumed finite: a team's rows are, since they come one *)
(* at a time.                                                                *)

LEMMA AddOne ==
    ASSUME NEW S, NEW x, IsFiniteSet(S)
    PROVE  /\ IsFiniteSet(S \cup {x})
           /\ Cardinality(S) \in Nat
           /\ Cardinality(S \cup {x}) \in Nat
           /\ Cardinality(S \cup {x}) <= Cardinality(S) + 1
<1>1. Cardinality(S) \in Nat
  BY FS_CardinalityType
<1>2. IsFiniteSet(S \cup {x}) /\ Cardinality(S \cup {x}) =
          IF x \in S THEN Cardinality(S) ELSE Cardinality(S) + 1
  BY FS_AddElement
<1> QED
  BY <1>1, <1>2

FiniteTeams == \A t \in Teams : IsFiniteSet(members[t])

LEMMA TeamsStayFinite == Spec => []FiniteTeams
<1>1. Init => FiniteTeams
  BY FS_EmptySet DEF Init, FiniteTeams
<1>2. TypeOK /\ FiniteTeams /\ [Next]_vars => FiniteTeams'
  <2> SUFFICES ASSUME TypeOK, FiniteTeams, [Next]_vars, NEW x \in Teams
               PROVE  IsFiniteSet(members'[x])
    BY DEF FiniteTeams
  <2>1. PICK u : members'[x] \subseteq members[x] \cup {u}
    BY OneJoins
  <2>2. IsFiniteSet(members[x] \cup {u})
    BY FS_AddElement DEF FiniteTeams
  <2> QED
    BY <2>1, <2>2, FS_Subset
<1> QED
  BY <1>1, <1>2, TypeCorrect, PTL DEF Spec

\* Only an organizer adding somebody by hand takes a team over max_team_size.
THEOREM SizeWithinLimitHolds == Spec => SizeWithinLimit
<1>1. TypeOK /\ FiniteTeams /\ [Next]_vars =>
        [\A t \in Teams :
            ~(members'[t] \subseteq members[t]) /\ Cardinality(members'[t]) > MaxSize
            => \E u \in Users : AdminAddMember(t, u)]_vars
  <2> SUFFICES ASSUME TypeOK, FiniteTeams, [Next]_vars, NEW x \in Teams,
                      ~(members'[x] \subseteq members[x]), Cardinality(members'[x]) > MaxSize
               PROVE  \E u \in Users : AdminAddMember(x, u)
    OBVIOUS
  <2> USE DEF TypeOK, rows, places
  <2>1. ASSUME NEW t \in Teams, NEW u \in Users, NewTeam(t, u)
        PROVE  FALSE
    <3>1. members'[x] = {u}
      BY <2>1 DEF NewTeam
    <3>2. Cardinality({u}) = 1
      BY FS_Singleton
    <3> QED
      BY <3>1, <3>2, SizesAssumption
  <2>2. ASSUME NEW t \in Teams, NEW u \in Users, Admit(t, u)
        PROVE  FALSE
    <3>1. members'[x] = members[x] \cup {u} /\ Cardinality(members[x]) < MaxSize
      BY <2>2 DEF Admit
    <3>2. /\ Cardinality(members[x]) \in Nat
          /\ Cardinality(members[x] \cup {u}) \in Nat
          /\ Cardinality(members[x] \cup {u}) <= Cardinality(members[x]) + 1
      BY AddOne DEF FiniteTeams
    <3> QED
      BY <3>1, <3>2, SizesAssumption
  <2>3. ASSUME NEW t \in Teams, NEW u \in Users, AdminAddMember(t, u)
        PROVE  x = t
    BY <2>3 DEF AdminAddMember
  <2>4. ASSUME NEW t \in Teams, NEW u \in Users,
               \/ WithdrawTeam(t, u)
               \/ LeaveTeam(t, u)
               \/ \E a \in Actors(t) : RemoveMember(t, a, u) \/ TransferLeadership(t, a, u)
        PROVE  FALSE
    BY <2>4 DEF WithdrawTeam, LeaveTeam, RemoveMember, TransferLeadership, Drop
  <2>5. ASSUME NEW t \in Teams, DeleteTeam(t) \/ \E s \in TeamStatuses : AdminSetStatus(t, s)
        PROVE  FALSE
    BY <2>5 DEF DeleteTeam, AdminSetStatus
  <2>6. CASE UNCHANGED <<rows, places>>
    BY <2>6
  <2> QED
    BY <2>1, <2>2, <2>3, <2>4, <2>5, <2>6, TeamChanges
<1> QED
  BY <1>1, TypeCorrect, TeamsStayFinite, PTL DEF Spec, SizeWithinLimit

-----------------------------------------------------------------------------
(* Invites and the places they reserve. *)

\* Besides the members of each team, the pending invites to it are finite.
FiniteInvites ==
    \A t \in Teams : IsFiniteSet(InvitesOf(t)) /\ IsFiniteSet(EmailInvitesOf(t))

\* The invite_by_email in flight, if any, holds a place of a team that has one left.
PlaceHeldByEmail ==
    \/ emailing = {}
    \/ \E t \in Teams, u \in Users :
          emailing = {<<t, u>>} /\ <<t, u>> \notin emailInvites /\ SlotsUsed(t) < MaxSize

\* The steps after which some team may have more invites than before.
LEMMA InvitingSteps ==
    ASSUME TypeOK, [Next]_vars
    PROVE  \/ invites' \subseteq invites /\ emailInvites' \subseteq emailInvites
           \/ \E t \in Teams, u \in Users : \E a \in Actors(t) : Invite(t, a, u)
           \/ \E u \in Users : ClaimEmailInvites(u)
           \/ CommitEmailInvite
<1> USE DEF rows, places, waiting, signUps, vars
<1>1. ASSUME NEW t \in Teams, NEW u \in Users, ParticipantStep(t, u)
      PROVE  invites' \subseteq invites /\ emailInvites' \subseteq emailInvites
  BY <1>1 DEF ParticipantStep, CreateTeam, NewTeam, AcceptInvite, Admit, CloseInvite,
     CancelEmailInvite, RequestToJoin, AcceptRequest, CloseRequest, LeaveTeam, WithdrawTeam,
     WithoutUser, WithoutTeam
<1>2. ASSUME NEW t \in Teams, NEW a \in Actors(t), UpdateTeam(t, a) \/
                \E u \in Users : InviteByEmail(t, a, u) \/ RemoveMember(t, a, u)
                                 \/ TransferLeadership(t, a, u)
      PROVE  invites' \subseteq invites /\ emailInvites' \subseteq emailInvites
  BY <1>2 DEF UpdateTeam, InviteByEmail, RemoveMember, TransferLeadership
<1>3. ASSUME NEW t \in Teams, OrganizerStep(t)
      PROVE  invites' \subseteq invites /\ emailInvites' \subseteq emailInvites
  BY <1>3 DEF OrganizerStep, DeleteTeam, StopRecruiting, AdminSetStatus, AdminCreateTeam,
     NewTeam, PlaceSeeker, Admit, AdminAddMember, WithoutUser, WithoutTeam
<1>4. ASSUME NEW u \in Users, SignUp(u) \/ LoseClaim(u) \/ RemoveSeeker(u)
      PROVE  invites' \subseteq invites /\ emailInvites' \subseteq emailInvites
  BY <1>4 DEF SignUp, LoseClaim, RemoveSeeker
<1>5. ASSUME NEW ph \in Phases, SetRegistration(ph)
      PROVE  invites' \subseteq invites /\ emailInvites' \subseteq emailInvites
  BY <1>5 DEF SetRegistration
<1>6. CASE UNCHANGED vars
  BY <1>6
<1> QED
  BY <1>1, <1>2, <1>3, <1>4, <1>5, <1>6 DEF Next, LeaderStep, AccountStep

\* An account's claim turns its e-mailed invite of a team into an invite, or drops it,
\* or leaves everything as it was.
LEMMA ClaimMovesInvites ==
    ASSUME TypeOK, NEW u \in Users, ClaimEmailInvites(u), NEW t \in Teams
    PROVE  /\ UNCHANGED members
           /\ \/ InvitesOf(t)' = InvitesOf(t) /\ EmailInvitesOf(t)' \subseteq EmailInvitesOf(t)
              \/ /\ <<t, u>> \in EmailInvitesOf(t)
                 /\ SlotsUsed(t) - 1 < MaxSize
                 /\ InvitesOf(t)' = InvitesOf(t) \cup {<<t, u>>}
                 /\ EmailInvitesOf(t)' = EmailInvitesOf(t) \ {<<t, u>>}
<1> USE DEF TypeOK, rows, places, Pairs, InvitesOf, EmailInvitesOf
<1> DEFINE mine == {p \in emailInvites : p[2] = u}
           new  == Usable(u) \X {u}
<1>1. UNCHANGED members
  BY DEF ClaimEmailInvites
<1>2. CASE emailInvites' = emailInvites /\ invites' = invites
  BY <1>1, <1>2
<1>3. CASE emailInvites' = emailInvites \ mine /\ invites' = invites \cup new /\ t \in Usable(u)
  <2>1. <<t, u>> \in EmailInvitesOf(t) /\ SlotsUsed(t) - 1 < MaxSize
    BY <1>3 DEF Usable
  <2>2. {p \in new : p[1] = t} = {<<t, u>>}
    BY <1>3
  <2>3. {p \in mine : p[1] = t} = {<<t, u>>}
    BY <2>1
  <2>4. InvitesOf(t)' = InvitesOf(t) \cup {<<t, u>>}
    BY <1>3, <2>2
  <2>5. EmailInvitesOf(t)' = EmailInvitesOf(t) \ {<<t, u>>}
    BY <1>3, <2>3
  <2> QED
    BY <1>1, <2>1, <2>4, <2>5
<1>4. CASE emailInvites' = emailInvites \ mine /\ invites' = invites \cup new /\ t \notin Usable(u)
  <2>1. InvitesOf(t)' = InvitesOf(t)
    BY <1>4
  <2>2. EmailInvitesOf(t)' \subseteq EmailInvitesOf(t)
    BY <1>4
  <2> QED
    BY <1>1, <2>1, <2>2
<1> QED
  BY <1>2, <1>3, <1>4 DEF ClaimEmailInvites

LEMMA EmailingChanges ==
    ASSUME [Next]_vars
    PROVE  \/ emailing' = emailing
           \/ emailing' = {}
           \/ \E t \in Teams, u \in Users : \E a \in Actors(t) : InviteByEmail(t, a, u)
<1> USE DEF rows, places, waiting, signUps, vars
<1>1. ASSUME NEW t \in Teams, NEW u \in Users, ParticipantStep(t, u)
      PROVE  emailing' = emailing
  BY <1>1 DEF ParticipantStep, CreateTeam, NewTeam, AcceptInvite, CloseInvite,
     CancelEmailInvite, RequestToJoin, AcceptRequest, CloseRequest, LeaveTeam, WithdrawTeam
<1>2. ASSUME NEW t \in Teams, NEW a \in Actors(t), UpdateTeam(t, a) \/
                \E u \in Users : Invite(t, a, u) \/ RemoveMember(t, a, u)
                                 \/ TransferLeadership(t, a, u)
      PROVE  emailing' = emailing
  BY <1>2 DEF UpdateTeam, Invite, RemoveMember, TransferLeadership
<1>3. ASSUME NEW t \in Teams, OrganizerStep(t)
      PROVE  emailing' = emailing
  BY <1>3 DEF OrganizerStep, DeleteTeam, StopRecruiting, AdminSetStatus, AdminCreateTeam,
     NewTeam, PlaceSeeker, AdminAddMember
<1>4. ASSUME NEW u \in Users, AccountStep(u)
      PROVE  emailing' = emailing
  BY <1>4 DEF AccountStep, SignUp, ClaimEmailInvites, LoseClaim, RemoveSeeker
<1>5. ASSUME CommitEmailInvite \/ \E ph \in Phases : SetRegistration(ph)
      PROVE  emailing' \in {emailing, {}}
  BY <1>5 DEF CommitEmailInvite, SetRegistration
<1>6. CASE UNCHANGED vars
  BY <1>6
<1> QED
  BY <1>1, <1>2, <1>3, <1>4, <1>5, <1>6 DEF Next, LeaderStep

\* While an invite_by_email holds the team and the hackathon, the team's members
\* and invites stay as they are until it commits.
LEMMA EmailingContinues ==
    ASSUME TypeOK, [Next]_vars, ~HackathonFree, NEW t \in Teams, ~TeamFree(t)
    PROVE  \/ emailing' = {}
           \/ /\ emailing' = emailing
              /\ members'[t] = members[t]
              /\ InvitesOf(t)' = InvitesOf(t)
              /\ EmailInvitesOf(t)' = EmailInvitesOf(t)
<1> DEFINE Still == /\ emailing' = emailing
                    /\ members'[t] = members[t]
                    /\ InvitesOf(t)' = InvitesOf(t)
                    /\ EmailInvitesOf(t)' = EmailInvitesOf(t)
<1> USE DEF TypeOK, rows, places, waiting, signUps, vars, InvitesOf, EmailInvitesOf
<1>1. ASSUME NEW x \in Teams, NEW u \in Users, ParticipantStep(x, u)
      PROVE  Still
  BY <1>1 DEF ParticipantStep, CreateTeam, AcceptInvite, CloseInvite, CancelEmailInvite,
     RequestToJoin, AcceptRequest, CloseRequest, LeaveTeam, WithdrawTeam
<1>2. ASSUME NEW x \in Teams, NEW a \in Actors(x), LeaderStep(x, a)
      PROVE  FALSE
  BY <1>2 DEF LeaderStep, UpdateTeam, Invite, InviteByEmail, RemoveMember, TransferLeadership
<1>3. ASSUME NEW x \in Teams, DeleteTeam(x)
      PROVE  Still
  <2>1. x # t
    BY <1>3 DEF DeleteTeam
  <2> QED
    BY <1>3, <2>1 DEF DeleteTeam, WithoutTeam
<1>4. ASSUME NEW x \in Teams, OrganizerStep(x), ~DeleteTeam(x)
      PROVE  Still
  BY <1>4 DEF OrganizerStep, StopRecruiting, AdminSetStatus, AdminCreateTeam, PlaceSeeker,
     AdminAddMember
<1>5. ASSUME NEW u \in Users, SignUp(u) \/ LoseClaim(u) \/ RemoveSeeker(u)
      PROVE  Still
  BY <1>5 DEF SignUp, LoseClaim, RemoveSeeker
<1>6. ASSUME NEW u \in Users, ClaimEmailInvites(u)
      PROVE  Still
  <2>1. {p \in emailInvites : p[2] = u} = {}
    BY <1>6 DEF ClaimEmailInvites
  <2>2. Usable(u) = {}
    BY <2>1 DEF Usable
  <2>3. emailInvites' = emailInvites /\ invites' = invites
    BY <1>6, <2>1, <2>2 DEF ClaimEmailInvites
  <2> QED
    BY <1>6, <2>3 DEF ClaimEmailInvites
<1>7. ASSUME CommitEmailInvite
      PROVE  emailing' = {}
  BY <1>7 DEF CommitEmailInvite
<1>8. ASSUME NEW ph \in Phases, SetRegistration(ph)
      PROVE  FALSE
  BY <1>8 DEF SetRegistration
<1>9. CASE UNCHANGED vars
  BY <1>9
<1> QED
  BY <1>1, <1>2, <1>3, <1>4, <1>5, <1>6, <1>7, <1>8, <1>9 DEF Next, AccountStep

LEMMA EmailHoldsPlace == Spec => []PlaceHeldByEmail
<1>1. Init => PlaceHeldByEmail
  BY DEF Init, PlaceHeldByEmail
<1>2. TypeOK /\ PlaceHeldByEmail /\ [Next]_vars => PlaceHeldByEmail'
  <2> SUFFICES ASSUME TypeOK, PlaceHeldByEmail, [Next]_vars
               PROVE  PlaceHeldByEmail'
    OBVIOUS
  <2>1. CASE emailing' = {}
    BY <2>1 DEF PlaceHeldByEmail
  <2>2. ASSUME NEW t \in Teams, NEW u \in Users, NEW a, InviteByEmail(t, a, u)
        PROVE  PlaceHeldByEmail'
    <3>1. /\ emailing' = {<<t, u>>}
          /\ <<t, u>> \notin emailInvites'
          /\ SlotsUsed(t)' = SlotsUsed(t)
          /\ SlotsUsed(t) < MaxSize
      BY <2>2 DEF InviteByEmail, SlotsUsed, InvitesOf, EmailInvitesOf, rows, places, waiting
    <3> QED
      BY <3>1 DEF PlaceHeldByEmail
  <2>3. CASE emailing' = emailing /\ emailing # {}
    <3>1. PICK t \in Teams, u \in Users :
              /\ emailing = {<<t, u>>}
              /\ <<t, u>> \notin emailInvites
              /\ SlotsUsed(t) < MaxSize
      BY <2>3 DEF PlaceHeldByEmail
    <3>2. /\ members'[t] = members[t]
          /\ InvitesOf(t)' = InvitesOf(t)
          /\ EmailInvitesOf(t)' = EmailInvitesOf(t)
      BY <2>3, <3>1, EmailingContinues DEF HackathonFree, TeamFree
    <3>3. SlotsUsed(t)' = SlotsUsed(t)
      BY <3>2 DEF SlotsUsed
    <3>4. <<t, u>> \notin emailInvites'
      BY <3>1, <3>2 DEF EmailInvitesOf
    <3> QED
      BY <2>3, <3>1, <3>3, <3>4 DEF PlaceHeldByEmail
  <2> QED
    BY <2>1, <2>2, <2>3, EmailingChanges
<1> QED
  BY <1>1, <1>2, TypeCorrect, PTL DEF Spec

LEMMA InvitesStayFinite == Spec => []FiniteInvites
<1>1. Init => FiniteInvites
  BY FS_EmptySet DEF Init, FiniteInvites, InvitesOf, EmailInvitesOf
<1>2. TypeOK /\ FiniteInvites /\ PlaceHeldByEmail /\ [Next]_vars => FiniteInvites'
  <2> SUFFICES ASSUME TypeOK, FiniteInvites, PlaceHeldByEmail, [Next]_vars, NEW x \in Teams
               PROVE  (IsFiniteSet(InvitesOf(x)) /\ IsFiniteSet(EmailInvitesOf(x)))'
    BY DEF FiniteInvites
  <2>1. ASSUME invites' \subseteq invites, emailInvites' \subseteq emailInvites
        PROVE  InvitesOf(x)' \subseteq InvitesOf(x) /\ EmailInvitesOf(x)' \subseteq EmailInvitesOf(x)
    BY <2>1 DEF InvitesOf, EmailInvitesOf
  <2>2. ASSUME NEW t \in Teams, NEW u \in Users, NEW a, Invite(t, a, u)
        PROVE  /\ InvitesOf(x)' \subseteq InvitesOf(x) \cup {<<t, u>>}
               /\ EmailInvitesOf(x)' \subseteq EmailInvitesOf(x)
    BY <2>2 DEF Invite, InvitesOf, EmailInvitesOf, signUps
  <2>3. ASSUME NEW u \in Users, ClaimEmailInvites(u)
        PROVE  /\ InvitesOf(x)' \subseteq InvitesOf(x) \cup {<<x, u>>}
               /\ EmailInvitesOf(x)' \subseteq EmailInvitesOf(x)
    BY <2>3, ClaimMovesInvites
  <2>4. ASSUME CommitEmailInvite
        PROVE  /\ InvitesOf(x)' \subseteq InvitesOf(x)
               /\ \E p : EmailInvitesOf(x)' \subseteq EmailInvitesOf(x) \cup {p}
    BY <2>4 DEF CommitEmailInvite, PlaceHeldByEmail, InvitesOf, EmailInvitesOf, waiting
  <2>5. /\ \E p : InvitesOf(x)' \subseteq InvitesOf(x) \cup {p}
        /\ \E p : EmailInvitesOf(x)' \subseteq EmailInvitesOf(x) \cup {p}
    BY <2>1, <2>2, <2>3, <2>4, InvitingSteps
  <2>6. PICK p : InvitesOf(x)' \subseteq InvitesOf(x) \cup {p}
    BY <2>5
  <2>7. PICK q : EmailInvitesOf(x)' \subseteq EmailInvitesOf(x) \cup {q}
    BY <2>5
  <2>8. IsFiniteSet(InvitesOf(x) \cup {p}) /\ IsFiniteSet(EmailInvitesOf(x) \cup {q})
    BY FS_AddElement DEF FiniteInvites
  <2>9. IsFiniteSet(InvitesOf(x)')
    BY <2>6, <2>8, FS_Subset
  <2>10. IsFiniteSet(EmailInvitesOf(x)')
    BY <2>7, <2>8, FS_Subset
  <2> QED
    BY <2>9, <2>10
<1> QED
  BY <1>1, <1>2, TypeCorrect, EmailHoldsPlace, PTL DEF Spec

\* No invite and no claim of one lets members and pending invites outgrow the team.
THEOREM InvitesReserveSlotsHolds == Spec => InvitesReserveSlots
<1>1. TypeOK /\ FiniteTeams /\ FiniteInvites /\ PlaceHeldByEmail /\ [Next]_vars =>
        [\A t \in Teams :
            (\E u \in Users : \/ <<t, u>> \in invites' \ invites
                             \/ <<t, u>> \in emailInvites' \ emailInvites)
            => SlotsUsed(t)' <= MaxSize]_vars
  <2> SUFFICES ASSUME TypeOK, FiniteTeams, FiniteInvites, PlaceHeldByEmail, [Next]_vars,
                      NEW x \in Teams, NEW u \in Users,
                      \/ <<x, u>> \in invites' \ invites
                      \/ <<x, u>> \in emailInvites' \ emailInvites
               PROVE  SlotsUsed(x)' <= MaxSize
    OBVIOUS
  <2> DEFINE Members == Cardinality(members[x])
             Invited == Cardinality(InvitesOf(x))
             Mailed  == Cardinality(EmailInvitesOf(x))
  <2>1. Members \in Nat /\ Invited \in Nat /\ Mailed \in Nat
    BY FS_CardinalityType DEF FiniteTeams, FiniteInvites
  <2>2. ASSUME NEW t \in Teams, NEW v \in Users, NEW a, Invite(t, a, v)
        PROVE  SlotsUsed(x)' <= MaxSize
    <3>1. t = x /\ v = u /\ SlotsUsed(x) < MaxSize
      BY <2>2 DEF Invite, signUps
    <3>2. /\ members'[x] = members[x]
          /\ InvitesOf(x)' = InvitesOf(x) \cup {<<x, u>>}
          /\ EmailInvitesOf(x)' = EmailInvitesOf(x)
      BY <2>2, <3>1 DEF Invite, InvitesOf, EmailInvitesOf, places, signUps
    <3>3. /\ Cardinality(InvitesOf(x)') \in Nat
          /\ Cardinality(InvitesOf(x)') <= Invited + 1
      BY <3>2, AddOne DEF FiniteInvites
    <3> QED
      BY <2>1, <3>1, <3>2, <3>3, SizesAssumption DEF SlotsUsed
  <2>3. ASSUME NEW v \in Users, ClaimEmailInvites(v)
        PROVE  SlotsUsed(x)' <= MaxSize
    <3>1. ~(InvitesOf(x)' = InvitesOf(x) /\ EmailInvitesOf(x)' \subseteq EmailInvitesOf(x))
      BY DEF InvitesOf, EmailInvitesOf
    <3>2. /\ members' = members
          /\ <<x, v>> \in EmailInvitesOf(x)
          /\ SlotsUsed(x) - 1 < MaxSize
          /\ InvitesOf(x)' = InvitesOf(x) \cup {<<x, v>>}
          /\ EmailInvitesOf(x)' = EmailInvitesOf(x) \ {<<x, v>>}
      BY <2>3, <3>1, ClaimMovesInvites
    <3>3. /\ Cardinality(InvitesOf(x)') \in Nat
          /\ Cardinality(InvitesOf(x)') <= Invited + 1
      BY <3>2, AddOne DEF FiniteInvites
    <3>4. Cardinality(EmailInvitesOf(x)') = Mailed - 1
      BY <3>2, FS_RemoveElement DEF FiniteInvites
    <3> QED
      BY <2>1, <3>2, <3>3, <3>4, SizesAssumption DEF SlotsUsed
  <2>4. ASSUME CommitEmailInvite
        PROVE  SlotsUsed(x)' <= MaxSize
    <3>1. <<x, u>> \in emailing
      BY <2>4 DEF CommitEmailInvite, waiting
    <3>2. emailing = {<<x, u>>} /\ SlotsUsed(x) < MaxSize
      <4>1. PICK t \in Teams, v \in Users : emailing = {<<t, v>>} /\ SlotsUsed(t) < MaxSize
        BY <3>1 DEF PlaceHeldByEmail
      <4>2. t = x /\ v = u
        BY <3>1, <4>1
      <4> QED
        BY <4>1, <4>2
    <3>3. /\ members'[x] = members[x]
          /\ InvitesOf(x)' = InvitesOf(x)
          /\ EmailInvitesOf(x)' = EmailInvitesOf(x) \cup {<<x, u>>}
      BY <2>4, <3>2 DEF CommitEmailInvite, InvitesOf, EmailInvitesOf, places, waiting
    <3>4. /\ Cardinality(EmailInvitesOf(x)') \in Nat
          /\ Cardinality(EmailInvitesOf(x)') <= Mailed + 1
      BY <3>3, AddOne DEF FiniteInvites
    <3> QED
      BY <2>1, <3>2, <3>3, <3>4, SizesAssumption DEF SlotsUsed
  <2> QED
    BY <2>2, <2>3, <2>4, InvitingSteps
<1> QED
  BY <1>1, TypeCorrect, TeamsStayFinite, InvitesStayFinite, EmailHoldsPlace, PTL
  DEF Spec, InvitesReserveSlots

\* Neither members nor promises outgrow a team, but by an organizer's addition.
THEOREM SizesHoldAlways == Spec => SizesHold
BY InvitesReserveSlotsHolds, SizeWithinLimitHolds DEF SizesHold

-----------------------------------------------------------------------------
(* The refinement of module Membership. *)

\* A team whose row does not exist has neither members nor a leader: what a new team
\* starts from.
AbsentTeamsAreEmpty ==
    \A t \in Teams : status[t] = "ABSENT" => members[t] = {} /\ leader[t] = Nobody

LEMMA AbsentTeamsStayEmpty == Spec => []AbsentTeamsAreEmpty
<1>1. Init => AbsentTeamsAreEmpty
  BY DEF Init, AbsentTeamsAreEmpty
<1>2. TypeOK /\ AbsentTeamsAreEmpty /\ [Next]_vars => AbsentTeamsAreEmpty'
  <2> SUFFICES ASSUME TypeOK, AbsentTeamsAreEmpty, [Next]_vars, NEW x \in Teams,
                      status'[x] = "ABSENT"
               PROVE  members'[x] = {} /\ leader'[x] = Nobody
    BY DEF AbsentTeamsAreEmpty
  <2> USE DEF TypeOK, AbsentTeamsAreEmpty, rows, places
  <2>1. ASSUME NEW t \in Teams, NEW u \in Users, NewTeam(t, u)
        PROVE  members'[x] = {} /\ leader'[x] = Nobody
    <3>1. x # t
      BY <2>1 DEF NewTeam, Recomputed, ActiveStatuses
    <3> QED
      BY <2>1, <3>1 DEF NewTeam
  <2>2. ASSUME NEW t \in Teams, NEW u \in Users, Admit(t, u) \/ AdminAddMember(t, u)
        PROVE  members'[x] = {} /\ leader'[x] = Nobody
    <3>1. x # t
      BY <2>2 DEF Admit, AdminAddMember, Active, Exists, Recomputed, ActiveStatuses
    <3> QED
      BY <2>2, <3>1 DEF Admit, AdminAddMember
  <2>3. ASSUME NEW t \in Teams, NEW u \in Users,
               WithdrawTeam(t, u) \/ LeaveTeam(t, u) \/
                   \E a \in Actors(t) : RemoveMember(t, a, u)
        PROVE  members'[x] = {} /\ leader'[x] = Nobody
    BY <2>3 DEF WithdrawTeam, LeaveTeam, RemoveMember, Drop, Recomputed, ActiveStatuses
  <2>4. ASSUME NEW t \in Teams, NEW u \in Users, NEW a \in Actors(t),
               TransferLeadership(t, a, u)
        PROVE  members'[x] = {} /\ leader'[x] = Nobody
    BY <2>4 DEF TransferLeadership
  <2>5. ASSUME NEW t \in Teams, DeleteTeam(t)
        PROVE  members'[x] = {} /\ leader'[x] = Nobody
    BY <2>5 DEF DeleteTeam
  <2>6. ASSUME NEW t \in Teams, NEW s \in TeamStatuses, AdminSetStatus(t, s)
        PROVE  members'[x] = {} /\ leader'[x] = Nobody
    <3>1. Recomputed(s, members[t]) # "ABSENT"
      BY RecomputedType DEF TeamStatuses, ActiveStatuses
    <3> QED
      BY <2>6, <3>1 DEF AdminSetStatus
  <2>7. CASE UNCHANGED <<rows, places>>
    BY <2>7
  <2> QED
    BY <2>1, <2>2, <2>3, <2>4, <2>5, <2>6, <2>7, TeamChanges
<1> QED
  BY <1>1, <1>2, TypeCorrect, PTL DEF Spec

\* Team formation implements Membership: every handler that touches a team's members or
\* leader is one of its moves, and every other handler leaves both alone.
THEOREM ImplementsMembershipHolds == Spec => ImplementsMembership
<1>1. Init => Roster!Init
  BY DEF Init, Roster!Init
<1>2. TypeOK /\ LeaderIsTheLeadingMember /\ AbsentTeamsAreEmpty /\ [Next]_vars
      => [Roster!Next]_<<members, leader>>
  <2> SUFFICES ASSUME TypeOK, LeaderIsTheLeadingMember, AbsentTeamsAreEmpty, [Next]_vars
               PROVE  Roster!Next \/ UNCHANGED <<members, leader>>
    OBVIOUS
  <2> USE DEF TypeOK, rows, places
  <2>1. ASSUME NEW t \in Teams, NEW u \in Users, NewTeam(t, u)
        PROVE  Roster!Join(t, u)
    <3>1. members[t] = {} /\ leader[t] = Nobody
      BY <2>1 DEF NewTeam, AbsentTeamsAreEmpty
    <3> QED
      BY <2>1, <3>1 DEF NewTeam, OnATeam, Roster!Join, Roster!Unattached
  <2>2. ASSUME NEW t \in Teams, NEW u \in Users, Admit(t, u) \/ AdminAddMember(t, u)
        PROVE  Roster!Join(t, u)
    BY <2>2 DEF Admit, AdminAddMember, OnATeam, Roster!Join, Roster!Unattached
  <2>3. ASSUME NEW t \in Teams, NEW u \in Users, WithdrawTeam(t, u)
        PROVE  Roster!Disband(t)
    BY <2>3 DEF WithdrawTeam, Drop, Roster!Disband
  <2>4. ASSUME NEW t \in Teams, NEW u \in Users,
               LeaveTeam(t, u) \/ \E a \in Actors(t) : RemoveMember(t, a, u)
        PROVE  Roster!Leave(t, u)
    BY <2>4 DEF LeaveTeam, RemoveMember, Drop, Roster!Leave
  <2>5. ASSUME NEW t \in Teams, NEW u \in Users, NEW a \in Actors(t),
               TransferLeadership(t, a, u)
        PROVE  Roster!HandOver(t, u)
    BY <2>5 DEF TransferLeadership, Roster!HandOver
  <2>6. ASSUME NEW t \in Teams, DeleteTeam(t)
        PROVE  Roster!Disband(t)
    BY <2>6 DEF DeleteTeam, Roster!Disband
  <2>7. ASSUME NEW t \in Teams, NEW s \in TeamStatuses, AdminSetStatus(t, s)
        PROVE  UNCHANGED <<members, leader>>
    BY <2>7 DEF AdminSetStatus
  <2>8. CASE UNCHANGED <<rows, places>>
    BY <2>8
  <2> QED
    BY <2>1, <2>2, <2>3, <2>4, <2>5, <2>6, <2>7, <2>8, TeamChanges DEF Roster!Next
<1> QED
  BY <1>1, <1>2, TypeCorrect, LeaderIsTheLeadingMemberHolds, AbsentTeamsStayEmpty, PTL
  DEF Spec, ImplementsMembership, Roster!Spec

=============================================================================
