----------------------------- MODULE Shortlists -----------------------------
(***************************************************************************)
(* Who goes through a round, when the teams may see it, and the card that  *)
(* congratulates them: RoundService of services.py, the rules that pick    *)
(* teams (round_rules.py), the round handlers of views.py, and the         *)
(* celebrations app with the calls hackathons/celebrate.py makes to it.    *)
(*                                                                         *)
(* One organizer works at a time, so a request is one step, except for its *)
(* cards: they are awarded after the commit, when a team may already have  *)
(* withdrawn, and are lost with the process.  (RoundJudging overlaps the   *)
(* requests of several organizers on one round.)  A team stands for one of *)
(* its members: all of them get the same card.                             *)
(***************************************************************************)
EXTENDS Naturals, FiniteSets, FiniteSetsExt

CONSTANTS Teams,
          Rounds,  \* rows of the round table
          Score,   \* the score of every team that has one
          Limit    \* Round.shortlist_limit, 0 for none

VARIABLES
    order,      \* Round.order, 0 while there is no such round
    published,  \* Round.results_published
    entry,      \* RoundEntry.status, "NONE" without an entry
    team,       \* Team.status, "WAITING" if it is waitlisted
    card,       \* the shortlisted:<round>:<team> Celebration of each team
    due,        \* the awards registered on_commit and not yet run
    dropped     \* entries deleted while their card was unseen or due

rows == <<order, published, entry, team>>
vars == <<rows, card, due, dropped>>

Keys    == Rounds \X Teams
NoAward == [round |-> 0, teams |-> {}]

TypeOK ==
    /\ order \in [Rounds -> 0..Cardinality(Rounds)]
    /\ published \in [Rounds -> BOOLEAN]
    /\ entry \in [Keys -> {"NONE", "PENDING", "SHORTLISTED", "REJECTED"}]
    /\ team \in [Teams -> {"REGISTERED", "WAITING", "OUT", "DELETED"}]
    /\ card \in [Keys -> {"NONE", "UNSEEN", "SEEN"}]
    /\ due = NoAward \/ (due.round \in Rounds /\ due.teams \subseteq Teams)
    /\ dropped \subseteq Keys

Init ==
    /\ order = [r \in Rounds |-> 0]
    /\ published = [r \in Rounds |-> FALSE]
    /\ entry = [k \in Keys |-> "NONE"]
    /\ team \in [Teams -> {"REGISTERED", "WAITING"}]
    /\ card = [k \in Keys |-> "NONE"]
    /\ due = NoAward
    /\ dropped = {}

-----------------------------------------------------------------------------
(* What the handlers read. *)

Exists(r)    == order[r] # 0
Existing     == {r \in Rounds : Exists(r)}
Earlier(r)   == {q \in Existing : order[q] < order[r]}
Later(r)     == {q \in Existing : order[q] > order[r]}
Latest(qs)   == CHOOSE q \in qs : \A p \in qs : order[p] <= order[q]
Following(r) == CHOOSE q \in Later(r) : \A p \in Later(r) : order[p] >= order[q]
Entered(r)   == {t \in Teams : entry[r, t] # "NONE"}
With(r, s)   == {t \in Teams : entry[r, t] = s}

\* RoundService.eligible_teams: all of them, or who the round before sent on.
Eligible(before) ==
    {t \in Teams : /\ team[t] = "REGISTERED"
                   /\ before = {} \/ entry[Latest(before), t] = "SHORTLISTED"}

\* round_rules.evaluate: all ties at the cut-off of a "top n" go through.
Selected(r, rule, n) ==
    LET scored == Entered(r) \cap DOMAIN Score
    IN  CASE rule = "FLAG" -> scored
          [] rule = "MIN"  -> {t \in scored : Score[t] >= n}
          [] rule = "TOP"  ->
                {t \in scored : Cardinality({u \in scored : Score[u] > Score[t]}) < n}

-----------------------------------------------------------------------------
(* The cards. *)

\* celebrations.retract: an unseen card is deleted, a seen one stays.
Retract(ks) ==
    [k \in Keys |-> IF k \in ks /\ card[k] = "UNSEEN" THEN "NONE" ELSE card[k]]

Awarded == {due.round} \X due.teams

\* get_or_create by key: who has the card, seen or not, gets no other.
RunAward ==
    /\ due # NoAward
    /\ card' = [k \in Keys |->
                  IF k \in Awarded /\ card[k] = "NONE" THEN "UNSEEN" ELSE card[k]]
    /\ dropped' = dropped \ {k \in Awarded : entry[k] # "NONE"}
    /\ due' = NoAward
    /\ UNCHANGED rows

\* The process ends between the commit and the award.
LoseAward ==
    /\ due # NoAward
    /\ due' = NoAward
    /\ UNCHANGED <<rows, card, dropped>>

See(k) ==
    /\ card[k] = "UNSEEN"
    /\ card' = [card EXCEPT ![k] = "SEEN"]
    /\ UNCHANGED <<rows, due, dropped>>

\* celebrations.sweep: expired unseen, or seen long ago.
Sweep(k) ==
    /\ card[k] # "NONE"
    /\ card' = [card EXCEPT ![k] = "NONE"]
    /\ UNCHANGED <<rows, due, dropped>>

-----------------------------------------------------------------------------
(* The rounds. *)

Add(r, ts) == [k \in Keys |-> IF k \in {r} \X ts /\ entry[k] = "NONE"
                              THEN "PENDING" ELSE entry[k]]
Drop(ks)   == /\ entry' = [k \in Keys |-> IF k \in ks THEN "NONE" ELSE entry[k]]
              /\ dropped' = dropped \cup {k \in ks : card[k] = "UNSEEN" \/ k \in Awarded}

\* The row is a new one: the cards of a deleted round are followed no longer.
Forget(r) == /\ card' = [k \in Keys |-> IF k[1] = r THEN "NONE" ELSE card[k]]
             /\ dropped' = {k \in dropped : k[1] # r}

CreateRound(r, populate) ==
    /\ ~Exists(r)
    /\ order' = [order EXCEPT ![r] = Max({order[q] : q \in Rounds}) + 1]
    /\ entry' = IF populate THEN Add(r, Eligible(Existing)) ELSE entry
    /\ Forget(r)
    /\ UNCHANGED <<published, team, due>>

Populate(r) ==
    /\ Exists(r)
    /\ entry' = Add(r, Eligible(Earlier(r)))
    /\ UNCHANGED <<order, published, team, card, due, dropped>>

\* Mutant: a round that others follow is deleted too.
DeleteAnyRound(r) ==
    /\ Exists(r)
    /\ order' = [order EXCEPT ![r] = 0]
    /\ published' = [published EXCEPT ![r] = FALSE]
    /\ Drop({r} \X Entered(r))
    /\ UNCHANGED <<team, card, due>>

\* The cards of the round's entries stay.
DeleteRound(r) ==
    /\ Exists(r) /\ Later(r) = {}
    /\ order' = [order EXCEPT ![r] = 0]
    /\ published' = [published EXCEPT ![r] = FALSE]
    /\ Drop({r} \X Entered(r))
    /\ UNCHANGED <<team, card, due>>

\* RoundService.reorder: refused once any team of the hackathon is decided.
Reorder(p) ==
    /\ \A k \in Keys : entry[k] \in {"NONE", "PENDING"}
    /\ order' = [r \in Rounds |-> IF Exists(r) THEN p[r] ELSE 0]
    /\ UNCHANGED <<published, entry, team, card, due, dropped>>

Permuted == {p \in [Existing -> 1..Cardinality(Existing)] :
                \A q, r \in Existing : p[q] = p[r] => q = r}

\* Every shortlisted team, in a new round when this is the last one.
Advance(r, new) ==
    /\ Exists(r)
    /\ IF Later(r) = {}
       THEN ~Exists(new) /\ order' = [order EXCEPT ![new] = order[r] + 1] /\ Forget(new)
       ELSE new = Following(r) /\ UNCHANGED <<order, card, dropped>>
    /\ entry' = Add(new, {t \in With(r, "SHORTLISTED") : team[t] \in {"REGISTERED", "WAITING"}})
    /\ UNCHANGED <<published, team, due>>

AddTeam(r, t) ==
    /\ Exists(r) /\ team[t] # "DELETED"
    /\ entry' = Add(r, {t})
    /\ UNCHANGED <<order, published, team, card, due, dropped>>

\* remove_team_entry retracts nothing either.
RemoveTeam(r, t) ==
    /\ entry[r, t] # "NONE"
    /\ Drop({<<r, t>>})
    /\ UNCHANGED <<order, published, team, card, due>>

-----------------------------------------------------------------------------
(* The decisions. *)

OverLimit(r, ts) ==
    Limit # 0 /\ Cardinality(With(r, "SHORTLISTED") \cup (ts \cap Entered(r))) > Limit

\* What RoundService.decide may refuse, and what the organizer may confirm.
MayDecide(r, ts, s, overLimit, visible) ==
    /\ Exists(r)
    /\ s = "SHORTLISTED" /\ OverLimit(r, ts) => overLimit
    /\ published[r] => visible

Changed(r, ts, s) == {t \in ts \cap Entered(r) : entry[r, t] # s}

\* What it does: `yes` are shortlisted, `no` rejected, `open` set back.
Decided(r, yes, no, open) ==
    /\ entry' = [k \in Keys |->
          IF entry[k] = "NONE" THEN "NONE"
          ELSE IF k \in {r} \X no THEN "REJECTED"
          ELSE IF k \in {r} \X yes THEN "SHORTLISTED"
          ELSE IF k \in {r} \X open THEN "PENDING" ELSE entry[k]]
    /\ IF published[r]
       THEN /\ due' = [round |-> r, teams |-> Changed(r, yes, "SHORTLISTED")]
            /\ card' = Retract({r} \X (Changed(r, no, "REJECTED") \cup Changed(r, open, "PENDING")))
       ELSE UNCHANGED <<due, card>>
    /\ UNCHANGED <<order, published, team, dropped>>

Decide(r, ts, s, overLimit, visible) ==
    /\ MayDecide(r, ts, s, overLimit, visible)
    /\ Decided(r, IF s = "SHORTLISTED" THEN ts ELSE {},
                  IF s = "REJECTED" THEN ts ELSE {}, IF s = "PENDING" THEN ts ELSE {})

AutoShortlist(r, rule, n, rejectRest, overLimit, visible) ==
    LET yes == Selected(r, rule, n)
    IN  /\ yes # {}
        /\ MayDecide(r, yes, "SHORTLISTED", overLimit, visible)
        /\ Decided(r, yes, IF rejectRest THEN With(r, "PENDING") \ yes ELSE {}, {})

Publish(r) ==
    /\ Exists(r) /\ ~published[r]
    /\ published' = [published EXCEPT ![r] = TRUE]
    /\ due' = [round |-> r, teams |-> With(r, "SHORTLISTED")]
    /\ UNCHANGED <<order, entry, team, card, dropped>>

\* Mutant: the results are taken back and the cards are left.
UnpublishOnly(r) ==
    /\ Exists(r)
    /\ published' = [published EXCEPT ![r] = FALSE]
    /\ UNCHANGED <<order, entry, team, card, due, dropped>>

Unpublish(r) ==
    /\ Exists(r)
    /\ published' = [published EXCEPT ![r] = FALSE]
    /\ card' = Retract({r} \X Entered(r))
    /\ UNCHANGED <<order, entry, team, due, dropped>>

-----------------------------------------------------------------------------
(* The teams, whatever the organizer's request is doing. *)

\* Withdrawn or disqualified: celebrate.team_gone.
Leave(t) ==
    /\ team[t] \in {"REGISTERED", "WAITING"}
    /\ team' = [team EXCEPT ![t] = "OUT"]
    /\ card' = Retract({r \in Rounds : entry[r, t] # "NONE"} \X {t})
    /\ UNCHANGED <<order, published, entry, due, dropped>>

\* Reinstated, or promoted from the waitlist.
Return(t) ==
    /\ team[t] \in {"OUT", "WAITING"}
    /\ team' = [team EXCEPT ![t] = "REGISTERED"]
    /\ UNCHANGED <<order, published, entry, card, due, dropped>>

DeleteTeam(t) ==
    /\ team[t] # "DELETED"
    /\ team' = [team EXCEPT ![t] = "DELETED"]
    /\ Drop({r \in Rounds : entry[r, t] # "NONE"} \X {t})
    /\ UNCHANGED <<order, published, card, due>>

-----------------------------------------------------------------------------
\* The organizer's next request starts when the last one has run its awards.
Organize ==
    /\ due = NoAward
    /\ \/ \E r \in Rounds : \/ \E b \in BOOLEAN : CreateRound(r, b)
                            \/ Populate(r)
                            \/ DeleteRound(r)
                            \/ Publish(r)
                            \/ Unpublish(r)
                            \/ \E q \in Rounds : Advance(r, q)
                            \/ \E t \in Teams : AddTeam(r, t) \/ RemoveTeam(r, t)
       \/ \E p \in Permuted : Reorder(p)

Shortlist ==
    /\ due = NoAward
    /\ \E r \in Rounds, over, visible \in BOOLEAN :
          \/ \E ts \in SUBSET Teams \ {{}}, s \in {"PENDING", "SHORTLISTED", "REJECTED"} :
                Decide(r, ts, s, over, visible)
          \/ \E rule \in {"FLAG", "MIN", "TOP"}, n \in 1..2, rest \in BOOLEAN :
                AutoShortlist(r, rule, n, rest, over, visible)

Celebrate == RunAward \/ LoseAward \/ \E k \in Keys : See(k) \/ Sweep(k)

Manage == \E t \in Teams : Leave(t) \/ Return(t) \/ DeleteTeam(t)

Next == Organize \/ Shortlist \/ Celebrate \/ Manage
Spec == Init /\ [][Next]_vars

-----------------------------------------------------------------------------
(* An unseen "you are shortlisted" card tells the truth: its team is       *)
(* shortlisted and the round's results are published, through any mix of   *)
(* publishing, taking results back, changed decisions and automatic        *)
(* shortlists, unless the entry itself was deleted, which retracts no      *)
(* card.  (celebrate.py: a result that was taken back or changed is        *)
(* nothing to celebrate any more.)                                         *)
CardsAreTrue ==
    \A k \in Keys : card[k] = "UNSEEN" =>
        k \in dropped \/ (published[k[1]] /\ entry[k] = "SHORTLISTED")
=============================================================================
