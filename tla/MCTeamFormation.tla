-------------------------- MODULE MCTeamFormation --------------------------
(* Two teams and three participants, one of them without an account yet. *)
EXTENDS TeamFormation, TLC

CONSTANTS u1, u2, u3, t1, t2

MCUsers == {u1, u2, u3}
MCTeams == {t1, t2}
MCExisting == {u1, u2}
MCSymmetry == Permutations(MCTeams) \cup Permutations(MCExisting)

CONSTANT MaxPending  \* bound on invites and requests waiting at one time

PendingBound ==
    Cardinality(invites) + Cardinality(requests) + Cardinality(emailInvites \cup emailing)
        <= MaxPending
=============================================================================
