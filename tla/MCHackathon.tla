---------------------------- MODULE MCHackathon ----------------------------
(* The sizes of the parts; Shortlists, CheckIn, Judging and Withdrawals are checked at two each. *)
EXTENDS Hackathon, TLC

CONSTANTS t1, t2, p1, m1, m2, r1, r2, k1, k2, s1, c1

ListSize(teams, rounds) == [teams |-> teams, rounds |-> rounds, score |-> t1 :> 2, limit |-> 1]
DeskSize(teams, scheduled, custom, staff) ==
    [people |-> {p1}, teams |-> teams, scheduled |-> scheduled, custom |-> custom, staff |-> staff]

MCShortlistSizes  == {ListSize({t1}, {r1, r2}), ListSize({t1, t2}, {r1})}
MCCheckInSizes    == {DeskSize({t1, t2}, {"DAY2"}, {}, {k1}), DeskSize({t1}, {}, {"LUNCH"}, {k1, k2})}
MCIdeaSizes       == {[decks |-> {m1, m2}, proofs |-> {s1}]}
MCJudgingSizes    == {[teams |-> {m1, m2}, people |-> {p1}, criteria |-> {c1}, requests |-> {k1}],
                      [teams |-> {t1}, people |-> {m1, m2}, criteria |-> {c1}, requests |-> {k1}]}
MCAttendanceSizes == {[responses |-> 1..2, starts |-> 1..2, maxDays |-> 2, labels |-> 1]}
MCWithdrawalSizes == {[people |-> {m1, m2}, slots |-> {1}, refs |-> {s1}, maxSelfCreated |-> 1,
                       maxExtra |-> 1],
                      [people |-> {p1}, slots |-> 1..2, refs |-> {}, maxSelfCreated |-> 1, maxExtra |-> 0]}
MCProblemSizes    == {[teams |-> {m1, m2}, maxCode |-> 2, maxima |-> {0, 1}]}

\* Two decks, two judged teams, two teams with a statement and two people are
\* alike: the same two values, to keep the symmetry group small.
Symmetry == Permutations({m1, m2})
=============================================================================
