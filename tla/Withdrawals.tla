---------------------------- MODULE Withdrawals ----------------------------
(***************************************************************************)
(* Creating teams, paid for or not, and giving them up (withdrawals.py and *)
(* the leader's side of payments.py): how many teams one person may        *)
(* create, the pause after withdrawing one, and the requests of leaders    *)
(* whose team an organizer has to let go.                                  *)
(*                                                                         *)
(* Every operation locks the team or the hackathon, so it is one step.     *)
(* Settings that are only read (whether a fee is asked, the withdrawal     *)
(* policy and deadline) are chosen where they are read: an organizer may   *)
(* change them between any two steps.  A capacity is one of them: whether  *)
(* a team is placed or queued is module SeatAllocation, as joining by      *)
(* invitation is TeamFormation.                                            *)
(***************************************************************************)
EXTENDS Naturals, FiniteSets

CONSTANTS
    People,
    Slots,          \* team rows; a deleted row is not used again
    Refs,           \* transaction ids of payments
    MaxSelfCreated, \* MAX_SELF_CREATED_TEAMS
    MaxExtra        \* bound on TeamAllowance.extra

VARIABLES
    team,    \* the row of each slot, with its members, rounds, check-ins and payment
    request, \* who asked in the team's pending WithdrawalRequest, or Nobody
    extra,   \* TeamAllowance.extra
    proof,   \* who has a finished upload of the screenshot that no team holds yet
    spent,   \* references of verified payments whose team was deleted
    minSize  \* Hackathon.min_team_size

vars == <<team, request, extra, proof, spent, minSize>>

Nobody  == "NOBODY"
NoRef   == "NO_REF"

\* A team without a leader is led by no user.
LeadersNamed == Nobody \notin People

Active  == {"FORMING", "REGISTERED"}
Unpaid  == {"PAYMENT_PENDING", "PAYMENT_REJECTED"}
Ended   == {"WITHDRAWN", "DISQUALIFIED"}
NoRow   == {"NONE", "DELETED"}
Row(s, p, by, w, ref) ==
    [status |-> s, lead |-> p, members |-> {p} \ {Nobody}, by |-> by, waits |-> w, entered |-> FALSE,
     arrived |-> FALSE, quit |-> Nobody, fresh |-> FALSE, ref |-> ref]
Blank(s) == Row(s, Nobody, Nobody, FALSE, NoRef)

TypeOK ==
    /\ team \in [Slots -> [status : Active \cup Unpaid \cup Ended \cup NoRow,
                           lead : People \cup {Nobody}, members : SUBSET People, by : People \cup {Nobody},
                           waits : BOOLEAN, entered : BOOLEAN, arrived : BOOLEAN,
                           quit : People \cup {Nobody}, fresh : BOOLEAN, ref : Refs \cup {NoRef}]]
    /\ request \in [Slots -> People \cup {Nobody}]
    /\ extra \in [People -> 0..MaxExtra]
    /\ proof \subseteq People
    /\ spent \subseteq Refs
    /\ minSize \in 1..2

Init ==
    /\ team = [t \in Slots |-> Blank("NONE")]
    /\ request = [t \in Slots |-> Nobody]
    /\ extra = [p \in People |-> 0]
    /\ proof = {}
    /\ spent = {}
    /\ minSize \in 1..2

-----------------------------------------------------------------------------
Is(t, ss)   == team[t].status \in ss
Free(p)     == \A t \in Slots : p \notin team[t].members
Created(p)  == {t \in Slots : team[t].by = p}
LastOf(t, p) == team[t].members \subseteq {p}
Taken       == spent \cup {team[t].ref : t \in Slots}

\* _recompute_status
Recomputed(r, min) ==
    IF r.status \notin Active THEN r
    ELSE [r EXCEPT !.status = IF Cardinality(r.members) >= min THEN "REGISTERED" ELSE "FORMING"]

Put(t, r) == team' = [team EXCEPT ![t] = Recomputed(r, minSize)]

-----------------------------------------------------------------------------
(* The screenshot, while a fee is asked and the person has no team.  Its   *)
(* upload and check are those of the files of module Ideas.                *)

UploadProof(p) ==
    /\ p \notin proof /\ Free(p)
    /\ proof' = proof \cup {p}
    /\ UNCHANGED <<team, request, extra, spent, minSize>>

\* Discarded by its person, or replaced by an upload that fails, or swept.
DropProof(p) ==
    /\ p \in proof
    /\ proof' = proof \ {p}
    /\ UNCHANGED <<team, request, extra, spent, minSize>>

-----------------------------------------------------------------------------
(* create_team *)

MayCreate(p) ==
    /\ Cardinality(Created(p)) < MaxSelfCreated + extra[p]
    /\ ~\E t \in Slots : team[t].quit = p /\ team[t].fresh

\* Rows are used in order.
NextRow(t) == Is(t, {"NONE"}) /\ \A s \in Slots : s < t => ~Is(s, {"NONE"})

CreateTeam(t, p) ==
    /\ NextRow(t) /\ Free(p) /\ MayCreate(p)
    /\ \E waits \in BOOLEAN : Put(t, Row("FORMING", p, p, waits, NoRef))
    /\ UNCHANGED <<request, extra, proof, spent, minSize>>

\* The same payment sent again finds the team it made (existing_submission): no step.
CreatePaidTeam(t, p, ref) ==
    /\ NextRow(t) /\ Free(p) /\ MayCreate(p)
    /\ p \in proof /\ ref \notin Taken
    /\ team' = [team EXCEPT ![t] = Row("PAYMENT_PENDING", p, p, FALSE, ref)]
    /\ proof' = proof \ {p}
    /\ UNCHANGED <<request, extra, spent, minSize>>

\* An organizer is not held to the limit, and the team is not counted.
AdminCreateTeam(t, p) ==
    /\ NextRow(t) /\ Free(p)
    /\ Put(t, Row("FORMING", p, Nobody, FALSE, NoRef))
    /\ UNCHANGED <<request, extra, proof, spent, minSize>>

\* A deleted row takes its request, members, entries and check-ins with it.
Erase(t) == /\ team' = [team EXCEPT ![t] = Blank("DELETED")]
            /\ request' = [request EXCEPT ![t] = Nobody]

\* cancel_pending by the leader, or remove by an organizer: the reference is freed.
EraseUnpaid(t) ==
    /\ Is(t, Unpaid)
    /\ Erase(t)
    /\ UNCHANGED <<extra, proof, spent, minSize>>

CheckPayment(t) ==
    /\ \/ Is(t, {"PAYMENT_PENDING"}) /\ \E waits \in BOOLEAN :
            Put(t, [team[t] EXCEPT !.status = "FORMING", !.waits = waits])
       \/ Is(t, {"PAYMENT_PENDING"}) /\ Put(t, [team[t] EXCEPT !.status = "PAYMENT_REJECTED"])
       \/ Is(t, {"PAYMENT_REJECTED"}) /\ Put(t, [team[t] EXCEPT !.status = "PAYMENT_PENDING"])
    /\ UNCHANGED <<request, extra, proof, spent, minSize>>

-----------------------------------------------------------------------------
(* Members, and what makes a team hold a place.                            *)

\* admin_add_member leads a team that has no leader.
AddMember(t, p) ==
    /\ Is(t, Active \cup Ended) /\ Free(p)
    /\ Put(t, [team[t] EXCEPT !.members = @ \cup {p}, !.lead = IF @ = Nobody THEN p ELSE @])
    /\ UNCHANGED <<request, extra, proof, spent, minSize>>

Transfer(t, p) ==
    /\ Is(t, Active) /\ p \in team[t].members /\ team[t].lead \notin {Nobody, p}
    /\ Put(t, [team[t] EXCEPT !.lead = p])
    /\ UNCHANGED <<request, extra, proof, spent, minSize>>

\* Rounds, check-in and the waitlist: each has a module of its own.
Hold(t) ==
    /\ Is(t, Active)
    /\ \/ /\ Is(t, {"REGISTERED"}) /\ ~team[t].waits
          /\ \E b \in BOOLEAN : Put(t, [team[t] EXCEPT !.entered = b])
       \/ /\ team[t].members # {}
          /\ \E b \in BOOLEAN : Put(t, [team[t] EXCEPT !.arrived = b])
       \/ Put(t, [team[t] EXCEPT !.waits = FALSE])
    /\ UNCHANGED <<request, extra, proof, spent, minSize>>

-----------------------------------------------------------------------------
(* leave_team: a member goes; the sole leader gives the team up.           *)

Placed(t)     == Is(t, {"REGISTERED"}) /\ ~team[t].waits
HoldsPlace(t) == Is(t, {"REGISTERED"}) \/ team[t].entered

NeedsApproval(t, policy) ==
    IF policy = "INSTANT" THEN team[t].entered \/ team[t].arrived
    ELSE Placed(t) \/ team[t].entered

CheckOpen(t, policy, due) ==
    \/ due = "OPEN" /\ policy # "LOCKED"
    \/ due # "ENDED" /\ ~HoldsPlace(t)

\* Mutant: whoever leaves is a member like any other.
LeaveAsAnybody(t, p) ==
    /\ Is(t, Active) /\ p \in team[t].members
    /\ Put(t, [team[t] EXCEPT !.members = @ \ {p}])
    /\ UNCHANGED <<request, extra, proof, spent, minSize>>

LeaveTeam(t, p) ==
    /\ Is(t, Active) /\ p \in team[t].members /\ team[t].lead # p
    /\ Put(t, [team[t] EXCEPT !.members = @ \ {p}])
    /\ UNCHANGED <<request, extra, proof, spent, minSize>>

\* _finish_withdrawal
Finish(t, p) ==
    team' = [team EXCEPT ![t].members = @ \ {p}, ![t].lead = Nobody, ![t].status = "WITHDRAWN",
                         ![t].quit = p, ![t].fresh = TRUE]

Withdraw(t, p, policy, due) ==
    /\ Is(t, Active) /\ team[t].lead = p /\ p \in team[t].members /\ LastOf(t, p)
    /\ CheckOpen(t, policy, due)
    /\ IF NeedsApproval(t, policy)
       THEN /\ request[t] = Nobody
            /\ request' = [request EXCEPT ![t] = p]
            /\ UNCHANGED team
       ELSE Finish(t, p) /\ UNCHANGED request
    /\ UNCHANGED <<extra, proof, spent, minSize>>

\* The leader takes the request back, or an organizer denies it.
DropRequest(t) ==
    /\ request[t] # Nobody
    /\ request' = [request EXCEPT ![t] = Nobody]
    /\ UNCHANGED <<team, extra, proof, spent, minSize>>

Approve(t) ==
    /\ request[t] # Nobody /\ Is(t, Active) /\ LastOf(t, request[t])
    /\ Finish(t, request[t])
    /\ request' = [request EXCEPT ![t] = Nobody]
    /\ UNCHANGED <<extra, proof, spent, minSize>>

-----------------------------------------------------------------------------
(* Organizers *)

SetStatus(t, s) ==
    /\ Is(t, Active \cup Ended)
    /\ Put(t, [team[t] EXCEPT !.status = s])
    /\ request' = [request EXCEPT ![t] = IF s \in Active THEN @ ELSE Nobody]
    /\ UNCHANGED <<extra, proof, spent, minSize>>

DeleteTeam(t) ==
    /\ ~Is(t, NoRow)
    /\ Erase(t)
    /\ spent' = spent \cup ({team[t].ref} \ {NoRef})
    /\ UNCHANGED <<extra, proof, minSize>>

SetMinSize(n) ==
    /\ n # minSize
    /\ minSize' = n
    /\ team' = [t \in Slots |-> Recomputed(team[t], n)]
    /\ UNCHANGED <<request, extra, proof, spent>>

Grant(p, n) ==
    /\ extra' = [extra EXCEPT ![p] = n]
    /\ UNCHANGED <<team, request, proof, spent, minSize>>

CooldownEnds(t) ==
    /\ team[t].fresh
    /\ team' = [team EXCEPT ![t].fresh = FALSE]
    /\ UNCHANGED <<request, extra, proof, spent, minSize>>

TeamStep(t, p) ==
    \/ CreateTeam(t, p) \/ LeaveTeam(t, p) \/ Transfer(t, p)
    \/ \E ref \in Refs : CreatePaidTeam(t, p, ref)
    \/ \E policy \in {"INSTANT", "APPROVAL", "LOCKED"}, due \in {"OPEN", "DEADLINE", "ENDED"} :
           Withdraw(t, p, policy, due)

OrganizerStep(t) ==
    \/ \E p \in People : AdminCreateTeam(t, p) \/ AddMember(t, p)
    \/ CheckPayment(t) \/ EraseUnpaid(t) \/ Hold(t) \/ Approve(t) \/ DropRequest(t) \/ DeleteTeam(t)
    \/ \E s \in Active \cup Ended : SetStatus(t, s)

Next == \/ \E t \in Slots, p \in People : TeamStep(t, p)
        \/ \E t \in Slots : OrganizerStep(t) \/ CooldownEnds(t)
        \/ \E p \in People : UploadProof(p) \/ DropProof(p) \/ \E n \in 1..MaxExtra : Grant(p, n)
        \/ \E n \in 1..2 : SetMinSize(n)
Spec == Init /\ [][Next]_vars

-----------------------------------------------------------------------------
\* The members leave, and the team is withdrawn by one of them.
GivenUp(t) == team[t].members # {} /\ team[t].status \in Active /\ team'[t].status = "WITHDRAWN" /\ team'[t].lead = Nobody

OrganizersLetGo ==
    \A t \in Slots :
        GivenUp(t) =>
            /\ team'[t].members = {}
            /\ team[t].entered \/ (Placed(t) /\ team[t].arrived)
                  => request[t] \in team[t].members /\ request'[t] = Nobody

(* Nobody is left on a team that is given up, and one that is in a round,  *)
(* or placed and checked in, goes only by approving the request of its     *)
(* last member: whatever the policy was and becomes, whoever joined, left, *)
(* took over the lead or was placed since the request was made.            *)
(* (needs_approval, WithdrawalService.decide.)                             *)
OrganizersDecide == [][OrganizersLetGo]_vars

(* A waiting request is about a team that can still be withdrawn.          *)
(* (WithdrawalRequest: a leader asking to withdraw a team that already     *)
(* holds a place; close_pending.)                                          *)
RequestsAwaitATeam == \A t \in Slots : request[t] # Nobody => Is(t, Active)
=============================================================================
