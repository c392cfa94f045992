--------------------------- MODULE SeatAllocation ---------------------------
(***************************************************************************)
(* Who holds a place in a hackathon and who queues for one: the capacity   *)
(* checks of registration.py, WaitlistService and the admin overrides of   *)
(* services.py, the registration fee of payments.py, and the settings and  *)
(* delete handlers of views.py.                                            *)
(*                                                                         *)
(* Most handlers lock the hackathon's row (create_team, _locked) or lock   *)
(* it with the team's (_lock_team).  Two do not: WaitlistService.promote   *)
(* locks only the teams it finds waiting, and the delete handler only the  *)
(* team.  What such a transaction can overlap is therefore two steps here, *)
(* the reads and the commit, and a request in flight belongs to a worker.  *)
(* A promotion runs after its transaction has committed, with the settings *)
(* that the request had loaded.                                            *)
(*                                                                         *)
(* FORMING and REGISTERED are one status here, "ACTIVE", and DISQUALIFIED  *)
(* and WITHDRAWN one, "OUT": capacity does not tell them apart (module     *)
(* TeamFormation does).  A team's row is used once, so a deleted team      *)
(* stays "DELETED" and its payment can still be seen.                      *)
(***************************************************************************)
EXTENDS Naturals, FiniteSets

CONSTANTS Teams,      \* rows of the team table
          Workers,    \* requests the web process serves at one time
          Settings,   \* the [cap, queueing, fee] organizers choose from; cap 0 is none
          First,      \* the settings at the start
          MaxPeople,  \* Hackathon.max_participants, 0 for none
          MaxSize,    \* Hackathon.max_team_size, which organizers need not respect
          SizeBound,  \* how many people organizers may put on a team, a bound of the model
          Overrides,  \* whether organizers place teams and people by hand
          Failures    \* whether a promotion may be lost with its process

ASSUME TeamsAssumption == IsFiniteSet(Teams)

ASSUME SettingsAssumption ==
    /\ Settings \subseteq [cap : Nat, queueing : BOOLEAN, fee : BOOLEAN]
    /\ First \in Settings
    /\ MaxPeople \in Nat
    /\ MaxSize \in Nat \ {0}
    /\ SizeBound \in Nat /\ SizeBound >= MaxSize
    /\ Overrides \in BOOLEAN
    /\ Failures \in BOOLEAN

VARIABLES
    status,    \* Team.status
    size,      \* how many TeamMember rows each team has
    headless,  \* teams whose leader is NULL
    line,      \* the order of queued_at on the teams with is_waitlisted
    payment,   \* TeamPayment.status of the payment made for each team
    settings,  \* max_teams, waitlist_enabled and whether a fee is due
    busy       \* the transaction each worker has started and not ended

teamRows == <<status, size, headless, line, payment>>
vars     == <<teamRows, settings, busy>>

Gone            == {"ABSENT", "DELETED"}
PaymentStatuses == {"PAYMENT_PENDING", "PAYMENT_REJECTED"}
Decided         == {"ACTIVE", "OUT"}

Idle              == [step |-> "IDLE"]
Placing(t, waits) == [step |-> "PLACING", team |-> t, waits |-> waits]
Joining(t)        == [step |-> "JOINING", team |-> t]
Saving(s, due)    == [step |-> "SAVING", settings |-> s, due |-> due]
Due(s)            == [step |-> "DUE", settings |-> s]
Promoting(s, held, left, chosen) ==
    [step |-> "PROMOTING", settings |-> s, held |-> held, left |-> left, chosen |-> chosen]

Promotions == [step : {"PROMOTING"}, settings : Settings, held : SUBSET Teams,
               left : SUBSET Teams, chosen : SUBSET Teams]

Transactions ==
    {Idle}
    \cup {Placing(t, b) : t \in Teams, b \in BOOLEAN}
    \cup {Joining(t) : t \in Teams}
    \cup {Saving(s, b) : s \in Settings, b \in BOOLEAN}
    \cup {Due(s) : s \in Settings}
    \cup Promotions

TypeOK ==
    /\ status \in [Teams -> Gone \cup PaymentStatuses \cup Decided]
    /\ size \in [Teams -> 0..SizeBound]
    /\ headless \subseteq Teams
    /\ line \subseteq Teams \X Teams
    /\ payment \in [Teams -> {"NONE", "PENDING", "VERIFIED", "REJECTED",
                              "CANCELLED", "REMOVED"}]
    /\ settings \in Settings
    /\ busy \in [Workers -> Transactions]

Init ==
    /\ status = [t \in Teams |-> "ABSENT"]
    /\ size = [t \in Teams |-> 0]
    /\ headless = {}
    /\ line = {}
    /\ payment = [t \in Teams |-> "NONE"]
    /\ settings = First
    /\ busy = [w \in Workers |-> Idle]

-----------------------------------------------------------------------------
(* Locks. *)

\* The team's row is locked: by the request deciding about it, or by a
\* promotion, which locks every team it found waiting.
Held(t) ==
    \E w \in Workers :
        \/ busy[w].step \in {"PLACING", "JOINING"} /\ busy[w].team = t
        \/ busy[w].step = "PROMOTING" /\ t \in busy[w].held

\* The hackathon's row is not.
HackathonFree == \A w \in Workers : busy[w].step \notin {"PLACING", "JOINING"}

\* _lock_team gets both rows.
Lockable(t) == HackathonFree /\ ~Held(t)

-----------------------------------------------------------------------------
(* Capacity (registration.py). *)

Active(t) == status[t] = "ACTIVE"
Exists(t) == status[t] \notin Gone

\* <<t, u>> is in line when both wait and t queued no later than u.
Waitlisted(t) == <<t, t>> \in line
Waiting == {t \in Teams : Waitlisted(t)}

\* is_waitlisted is set for a new team, and cleared for some.
Queued(t) == line \cup ((Waiting \cup {t}) \X {t})
Unqueued(teams) == {p \in line : p[1] \notin teams /\ p[2] \notin teams}

\* placed_teams.
Placed == {t \in Teams : Active(t) /\ ~Waitlisted(t)}

\* The TeamMember rows of some teams; placed_participants counts them.
Members(teams) == {m \in Teams \X (1..SizeBound) : m[1] \in teams /\ m[2] <= size[m[1]]}
People(teams) == Cardinality(Members(teams))

TeamsFull(s, teams) == s.cap > 0 /\ Cardinality(teams) >= s.cap
PeopleWouldExceed(teams, extra) == MaxPeople > 0 /\ People(teams) + extra > MaxPeople

\* should_waitlist_new_team.
Full == TeamsFull(settings, Placed) \/ PeopleWouldExceed(Placed, 1)

-----------------------------------------------------------------------------
(* New teams.  The worker that decides holds the hackathon until its commit. *)

\* create_team without a fee, up to its inserts.
CreateTeam(w, t) ==
    /\ busy[w] = Idle
    /\ HackathonFree
    /\ status[t] = "ABSENT"
    /\ ~settings.fee
    /\ Full => settings.queueing
    /\ busy' = [busy EXCEPT ![w] = Placing(t, Full)]
    /\ UNCHANGED <<teamRows, settings>>

\* create_team with a fee: refused like the others when nobody may queue, but the
\* team holds no place until its payment is verified.
CreatePaidTeam(t) ==
    /\ Lockable(t)
    /\ status[t] = "ABSENT"
    /\ settings.fee
    /\ Full => settings.queueing
    /\ status' = [status EXCEPT ![t] = "PAYMENT_PENDING"]
    /\ size' = [size EXCEPT ![t] = 1]
    /\ payment' = [payment EXCEPT ![t] = "PENDING"]
    /\ UNCHANGED <<headless, line, settings, busy>>

\* create_team for an organizer: no fee and no capacity.
AdminCreateTeam(t) ==
    /\ Overrides
    /\ Lockable(t)
    /\ status[t] = "ABSENT"
    /\ status' = [status EXCEPT ![t] = "ACTIVE"]
    /\ size' = [size EXCEPT ![t] = 1]
    /\ UNCHANGED <<headless, line, payment, settings, busy>>

\* verify, up to its updates.
VerifyPayment(w, t) ==
    /\ busy[w] = Idle
    /\ Lockable(t)
    /\ status[t] = "PAYMENT_PENDING"
    /\ payment[t] = "PENDING"
    /\ Full => settings.queueing
    /\ busy' = [busy EXCEPT ![w] = Placing(t, Full)]
    /\ UNCHANGED <<teamRows, settings>>

\* The commit of create_team or of verify.
CommitPlace(w) ==
    LET t == busy[w].team IN
    /\ busy[w].step = "PLACING"
    /\ status' = [status EXCEPT ![t] = "ACTIVE"]
    /\ size' = [size EXCEPT ![t] = IF status[t] = "ABSENT" THEN 1 ELSE @]
    /\ payment' = [payment EXCEPT ![t] = IF @ = "PENDING" THEN "VERIFIED" ELSE @]
    /\ line' = IF busy[w].waits THEN Queued(t) ELSE line
    /\ busy' = [busy EXCEPT ![w] = Idle]
    /\ UNCHANGED <<headless, settings>>

-----------------------------------------------------------------------------
(* Payments (payments.py). *)

RejectPayment(t) ==
    /\ Lockable(t)
    /\ status[t] = "PAYMENT_PENDING"
    /\ payment[t] = "PENDING"
    /\ status' = [status EXCEPT ![t] = "PAYMENT_REJECTED"]
    /\ payment' = [payment EXCEPT ![t] = "REJECTED"]
    /\ UNCHANGED <<size, headless, line, settings, busy>>

ReopenPayment(t) ==
    /\ Lockable(t)
    /\ status[t] = "PAYMENT_REJECTED"
    /\ payment[t] = "REJECTED"
    /\ status' = [status EXCEPT ![t] = "PAYMENT_PENDING"]
    /\ payment' = [payment EXCEPT ![t] = "PENDING"]
    /\ UNCHANGED <<size, headless, line, settings, busy>>

\* The team's row and its members go; the payment stays with its last status.
EraseTeam(t, last) ==
    /\ status' = [status EXCEPT ![t] = "DELETED"]
    /\ size' = [size EXCEPT ![t] = 0]
    /\ headless' = headless \ {t}
    /\ line' = Unqueued({t})
    /\ payment' = [payment EXCEPT ![t] = last]

RemovePayment(t) ==
    /\ Lockable(t)
    /\ status[t] \in PaymentStatuses
    /\ payment[t] # "VERIFIED"
    /\ EraseTeam(t, "REMOVED")
    /\ UNCHANGED <<settings, busy>>

\* cancel_pending, by the leader.
CancelPending(t) ==
    /\ Lockable(t)
    /\ t \notin headless
    /\ status[t] = "PAYMENT_PENDING"
    /\ EraseTeam(t, "CANCELLED")
    /\ UNCHANGED <<settings, busy>>

-----------------------------------------------------------------------------
(* Members of a team. *)

\* _admit, up to its insert.
JoinTeam(w, t) ==
    /\ busy[w] = Idle
    /\ Lockable(t)
    /\ Active(t)
    /\ size[t] < MaxSize
    /\ Waitlisted(t) \/ ~PeopleWouldExceed(Placed, 1)
    /\ busy' = [busy EXCEPT ![w] = Joining(t)]
    /\ UNCHANGED <<teamRows, settings>>

CommitJoin(w) ==
    /\ busy[w].step = "JOINING"
    /\ size' = [size EXCEPT ![busy[w].team] = @ + 1]
    /\ busy' = [busy EXCEPT ![w] = Idle]
    /\ UNCHANGED <<status, headless, line, payment, settings>>

\* admin_add_member, for a team in any status and beyond its size.
AdminAddMember(t) ==
    /\ Overrides
    /\ Lockable(t)
    /\ Exists(t)
    /\ size[t] < SizeBound
    /\ size' = [size EXCEPT ![t] = @ + 1]
    /\ headless' = headless \ {t}
    /\ UNCHANGED <<status, line, payment, settings, busy>>

\* Mutant: whoever is removed need not be there any more.
MemberLeavesAgain(w, t) ==
    /\ busy[w] = Idle
    /\ Lockable(t)
    /\ Exists(t)
    /\ size' = [size EXCEPT ![t] = @ - 1]
    /\ busy' = [busy EXCEPT ![w] = Due(settings)]
    /\ UNCHANGED <<status, headless, line, payment, settings>>

\* remove_member, by an organizer whatever the team's status, and leave_team.
MemberLeaves(w, t) ==
    /\ busy[w] = Idle
    /\ Lockable(t)
    /\ Exists(t)
    /\ size[t] > (IF t \in headless THEN 0 ELSE 1)
    /\ size' = [size EXCEPT ![t] = @ - 1]
    /\ busy' = [busy EXCEPT ![w] = Due(settings)]
    /\ UNCHANGED <<status, headless, line, payment, settings>>

\* _finish_withdrawal: the leader was alone, or nobody is left.
WithdrawTeam(w, t) ==
    /\ busy[w] = Idle
    /\ Lockable(t)
    /\ Active(t)
    /\ size[t] = (IF t \in headless THEN 0 ELSE 1)
    /\ status' = [status EXCEPT ![t] = "OUT"]
    /\ size' = [size EXCEPT ![t] = 0]
    /\ headless' = headless \cup {t}
    /\ busy' = [busy EXCEPT ![w] = Due(settings)]
    /\ UNCHANGED <<line, payment, settings>>

-----------------------------------------------------------------------------
(* Organizers. *)

\* Mutant: teams waiting for their payment are not left to the payments page.
AdminSetAnyStatus(w, t, s) ==
    /\ Overrides \/ s # "ACTIVE"
    /\ busy[w] = Idle
    /\ Lockable(t)
    /\ Exists(t)
    /\ status' = [status EXCEPT ![t] = s]
    /\ busy' = [busy EXCEPT ![w] = IF s = "ACTIVE" THEN Idle ELSE Due(settings)]
    /\ UNCHANGED <<size, headless, line, payment, settings>>

AdminSetStatus(w, t, s) ==
    /\ Overrides \/ s # "ACTIVE"
    /\ busy[w] = Idle
    /\ Lockable(t)
    /\ status[t] \in Decided
    /\ status' = [status EXCEPT ![t] = s]
    /\ busy' = [busy EXCEPT ![w] = IF s = "ACTIVE" THEN Idle ELSE Due(settings)]
    /\ UNCHANGED <<size, headless, line, payment, settings>>

\* The delete handler of TeamDetailView, which locks the team's row alone.
DeleteTeam(w, t) ==
    /\ busy[w] = Idle
    /\ Exists(t)
    /\ ~Held(t)
    /\ EraseTeam(t, payment[t])
    /\ busy' = [busy EXCEPT ![w] = Due(settings)]
    /\ UNCHANGED settings

\* The validation of a settings change, against the settings the request loaded.
EditSettings(w, s) ==
    /\ busy[w] = Idle
    /\ s # settings
    /\ s.cap \in {settings.cap, 0} \/ s.cap >= Cardinality(Placed)
    /\ settings.fee /\ ~s.fee => \A t \in Teams : status[t] # "PAYMENT_PENDING"
    /\ busy' = [busy EXCEPT ![w] =
                    Saving(s, s.cap # settings.cap \/ s.queueing # settings.queueing)]
    /\ UNCHANGED <<teamRows, settings>>

\* perform_update saves the whole row; a changed capacity promotes at once.
SaveSettings(w) ==
    /\ busy[w].step = "SAVING"
    /\ HackathonFree
    /\ settings' = busy[w].settings
    /\ busy' = [busy EXCEPT ![w] = IF @.due THEN Due(@.settings) ELSE Idle]
    /\ UNCHANGED teamRows

-----------------------------------------------------------------------------
(* WaitlistService.promote. *)

Queue == {t \in Waiting : Active(t)}

Oldest(t, teams) == t \in teams /\ \A u \in teams : <<t, u>> \in line

\* Mutant: the teams are read without FOR UPDATE.
StartUnlocked(w) ==
    /\ busy[w].step = "DUE"
    /\ busy' = [busy EXCEPT ![w] =
                    IF Queue = {} THEN Idle
                    ELSE Promoting(@.settings, Queue, Queue, {})]
    /\ UNCHANGED <<teamRows, settings>>

\* The waiting teams are read and locked, or there is nothing to do.
StartPromotion(w) ==
    /\ busy[w].step = "DUE"
    /\ \A t \in Queue : ~Held(t)
    /\ busy' = [busy EXCEPT ![w] =
                    IF Queue = {} THEN Idle
                    ELSE Promoting(@.settings, Queue, Queue, {})]
    /\ UNCHANGED <<teamRows, settings>>

\* Mutant: the participants' limit is not looked at.
ConsiderAnySize(w) ==
    LET p == busy[w] IN
    /\ p.step = "PROMOTING"
    /\ \E t \in p.left :
          /\ Oldest(t, p.left)
          /\ busy' = [busy EXCEPT ![w] =
                IF TeamsFull(p.settings, Placed \cup p.chosen) THEN [p EXCEPT !.left = {}]
                ELSE [p EXCEPT !.left = @ \ {t}, !.chosen = @ \cup {t}]]
    /\ UNCHANGED <<teamRows, settings>>

\* Mutant: one team at most is placed.
ConsiderOne(w) ==
    LET p == busy[w] IN
    /\ p.step = "PROMOTING"
    /\ \E t \in p.left :
          /\ Oldest(t, p.left)
          /\ busy' = [busy EXCEPT ![w] =
                IF TeamsFull(p.settings, Placed) THEN [p EXCEPT !.left = {}]
                ELSE [p EXCEPT !.left = {}, !.chosen = {t}]]
    /\ UNCHANGED <<teamRows, settings>>

\* The oldest team not yet looked at is chosen, skipped for its size, or the
\* loop ends because no place is left.
ConsiderNext(w) ==
    LET p     == busy[w]
        taken == Placed \cup p.chosen
    IN  /\ p.step = "PROMOTING"
        /\ \E t \in p.left :
              /\ Oldest(t, p.left)
              /\ busy' = [busy EXCEPT ![w] =
                    IF TeamsFull(p.settings, taken) THEN [p EXCEPT !.left = {}]
                    ELSE IF PeopleWouldExceed(taken, size[t]) THEN [p EXCEPT !.left = @ \ {t}]
                    ELSE [p EXCEPT !.left = @ \ {t}, !.chosen = @ \cup {t}]]
        /\ UNCHANGED <<teamRows, settings>>

CommitPromotion(w) ==
    /\ busy[w].step = "PROMOTING"
    /\ busy[w].left = {}
    /\ line' = Unqueued(busy[w].chosen)
    /\ busy' = [busy EXCEPT ![w] = Idle]
    /\ UNCHANGED <<status, size, headless, payment, settings>>

\* The process ends before the promotion has committed; nothing runs it again.
LosePromotion(w) ==
    /\ Failures
    /\ busy[w].step \in {"DUE", "PROMOTING"}
    /\ busy' = [busy EXCEPT ![w] = Idle]
    /\ UNCHANGED <<teamRows, settings>>

-----------------------------------------------------------------------------
(* The system. *)

\* A request that is a single step.
TeamStep(t) ==
    \/ CreatePaidTeam(t)
    \/ AdminCreateTeam(t)
    \/ RejectPayment(t)
    \/ ReopenPayment(t)
    \/ RemovePayment(t)
    \/ CancelPending(t)
    \/ AdminAddMember(t)

\* A request that decides, or that must promote once it has committed.
Request(w, t) ==
    \/ CreateTeam(w, t)
    \/ VerifyPayment(w, t)
    \/ JoinTeam(w, t)
    \/ MemberLeaves(w, t)
    \/ WithdrawTeam(w, t)
    \/ \E s \in Decided : AdminSetStatus(w, t, s)
    \/ DeleteTeam(w, t)

\* What a worker goes on with by itself.
Continue(w) ==
    \/ CommitPlace(w)
    \/ CommitJoin(w)
    \/ SaveSettings(w)
    \/ StartPromotion(w)
    \/ ConsiderNext(w)
    \/ CommitPromotion(w)

Next ==
    \/ \E w \in Workers :
          \/ \E t \in Teams : Request(w, t) \/ (busy[w] = Idle /\ TeamStep(t))
          \/ \E s \in Settings : EditSettings(w, s)
          \/ Continue(w)
          \/ LosePromotion(w)

Spec == Init /\ [][Next]_vars

\* A worker finishes the request it has begun.
FairSpec == Spec /\ \A w \in Workers : WF_vars(Continue(w))

-----------------------------------------------------------------------------
(* Properties. *)

\* A team waits for its payment, or was turned down, exactly while its payment
\* says so, and a payment is closed only together with its team.
PaymentMatchesTeam ==
    \A t \in Teams :
        /\ status[t] = "PAYMENT_PENDING" => payment[t] = "PENDING"
        /\ status[t] = "PAYMENT_REJECTED" => payment[t] = "REJECTED"
        /\ status[t] \in Decided => payment[t] \in {"NONE", "VERIFIED"}
        /\ payment[t] \in {"CANCELLED", "REMOVED"} => status[t] = "DELETED"

\* Two transactions never hold the same team, so no team is promoted twice and
\* none is promoted after an organizer has taken it out of the running.
PromotionHoldsItsTeams ==
    \A w \in Workers :
        busy[w].step = "PROMOTING" =>
            /\ \A t \in busy[w].chosen : Active(t) /\ Waitlisted(t)
            /\ \A v \in Workers \ {w} :
                  busy[v].step = "PROMOTING" => busy[w].held \cap busy[v].held = {}

\* docs/modules/hackathon.md: max_teams caps the placed teams, whoever places
\* them, except an organizer by hand.
TeamsWithinCap ==
    [][~(Placed' \subseteq Placed) /\ settings.cap > 0
          /\ Cardinality(Placed') > settings.cap
       => \E t \in Teams : \/ AdminCreateTeam(t)
                           \/ \E w \in Workers : AdminSetStatus(w, t, "ACTIVE")]_vars

\* max_participants caps the people on placed teams, whether they come with a new
\* team, by joining one or with one from the waitlist.
PeopleWithinCap ==
    [][MaxPeople > 0 /\ People(Placed)' > People(Placed) /\ People(Placed)' > MaxPeople
       => \E t \in Teams : \/ AdminCreateTeam(t)
                           \/ AdminAddMember(t)
                           \/ \E w \in Workers : \/ AdminSetStatus(w, t, "ACTIVE")
                                                 \/ (size[t] > 1 /\ CommitPlace(w))]_vars

\* max_team_size caps the members of a team, except those an organizer adds:
\* whoever is admitted had room when the request decided and still has it when
\* the request commits (_admit).
SizesWithinCap ==
    [][\A t \in Teams :
          size'[t] > size[t] /\ size'[t] > MaxSize => AdminAddMember(t)]_vars

\* None of the limits is ever passed, except by an organizer's own hand.
PlacesWithinCaps == TeamsWithinCap /\ PeopleWithinCap /\ SizesWithinCap

\* A promotion passes over an older waiting team only when that team is too big
\* for the participants' limit.
OldestFirst ==
    [][\A t, u \in Teams :
          /\ t # u
          /\ <<t, u>> \in line
          /\ Active(t)
          /\ Waitlisted(t)'
          /\ ~Waitlisted(u)'
          /\ status'[u] = "ACTIVE"
          => PeopleWouldExceed(Placed, size[t]) \/ size[u] < size[t]]_vars

\* registration.py and WaitlistService.promote together: places are given within
\* the limits and, to teams that wait, in the order in which they came.
PlacesAreFair == PlacesWithinCaps /\ OldestFirst

\* A team that waits, with room for it, is placed once the request that made the
\* room goes on to promote: unless its place is taken first, or it leaves.
HasRoom(t) ==
    /\ Waitlisted(t)
    /\ Active(t)
    /\ ~TeamsFull(settings, Placed)
    /\ ~PeopleWouldExceed(Placed, size[t])

RoomIsFilled ==
    \A t \in Teams :
        (HasRoom(t) /\ \E w \in Workers : busy[w] = Due(settings)) ~> ~HasRoom(t)

\* Module Places seen through the rows: who takes part, with how many people, and
\* in which order they queue.
Desk == INSTANCE Places WITH
            running <- {t \in Teams : Active(t)},
            size    <- [t \in Teams |-> IF Active(t) THEN size[t] ELSE 0]

\* A request that reads and then commits, and a promotion that goes through the
\* queue team by team and may be cut short, give places as if each were one step.
ImplementsPlaces == Desk!Spec
=============================================================================
