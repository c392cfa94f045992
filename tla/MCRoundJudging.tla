--------------------------- MODULE MCRoundJudging ---------------------------
(* Two teams and two judges whose scores tie but for the heaviest criterion. *)
EXTENDS RoundJudging, TLC

CONSTANTS w1, r1, r2

Given(t, h) == [total |-> t, heaviest |-> h]
Setting(m, n, k, b) == [mode |-> m, perTeam |-> n, minReviews |-> k, byCriteria |-> b]

MCScores == {Given(2, 1), Given(2, 2)}

\* One judge for each team, and one more to replace them; or by hand, two each.
MCFirst == Setting("BALANCED", 1, 1, TRUE)
MCSettings == {MCFirst, Setting("MANUAL", 1, 2, TRUE)}

\* One judge for each team, or every judge for every team.
MCEverybody == {MCFirst, Setting("ALL", 1, 2, TRUE)}

MCRubrics == {r1, r2}
MCSymmetry == Permutations(MCRubrics)
=============================================================================
