-------------------------- MODULE MCSeatAllocation --------------------------
(* Three teams that compete for one place or for two. *)
EXTENDS SeatAllocation, TLC

CONSTANTS t1, t2, t3, w1, w2

Setting(c, q, f) == [cap |-> c, queueing |-> q, fee |-> f]

MCFirst == Setting(1, TRUE, FALSE)
MCSettings == {MCFirst, Setting(2, TRUE, TRUE), Setting(1, FALSE, TRUE)}
MCRaised == {MCFirst, Setting(2, TRUE, FALSE)}

MCTeams == {t1, t2, t3}
MCSymmetry == Permutations(MCTeams)
=============================================================================
