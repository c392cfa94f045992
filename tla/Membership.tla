----------------------------- MODULE Membership -----------------------------
(***************************************************************************)
(* What team formation promises about who is on a team and who leads it,   *)
(* whatever invites, requests, statuses and windows lead there: a roster   *)
(* changes by one person joining or leaving or by the whole team going,    *)
(* one person is on one team, and a lead is only handed to a member, taken *)
(* with a leaderless team's next member, or given up with the team.        *)
(***************************************************************************)
CONSTANTS Teams, Users, Nobody

VARIABLES roster,  \* the people on each team
          lead     \* who leads it, or Nobody

Init ==
    /\ roster = [t \in Teams |-> {}]
    /\ lead = [t \in Teams |-> Nobody]

Unattached(u) == \A t \in Teams : u \notin roster[t]

\* The first member of a new team leads it, and an organizer's addition to a team
\* without a leader does; nobody else's arrival moves the lead.
Join(t, u) ==
    /\ Unattached(u)
    /\ roster' = [roster EXCEPT ![t] = @ \cup {u}]
    /\ \/ UNCHANGED lead
       \/ lead[t] = Nobody /\ lead' = [lead EXCEPT ![t] = u]

Leave(t, u) ==
    /\ u \in roster[t]
    /\ u # lead[t]
    /\ roster' = [roster EXCEPT ![t] = @ \ {u}]
    /\ UNCHANGED lead

HandOver(t, u) ==
    /\ u \in roster[t]
    /\ lead' = [lead EXCEPT ![t] = u]
    /\ UNCHANGED roster

Disband(t) ==
    /\ roster' = [roster EXCEPT ![t] = {}]
    /\ lead' = [lead EXCEPT ![t] = Nobody]

Next ==
    \E t \in Teams :
        \/ \E u \in Users : Join(t, u) \/ Leave(t, u) \/ HandOver(t, u)
        \/ Disband(t)

Spec == Init /\ [][Next]_<<roster, lead>>
=============================================================================
