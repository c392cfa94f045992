------------------------------ MODULE MCForms ------------------------------
(* The sizes of the parts, with requests one at a time and overlapping. *)
EXTENDS Forms, TLC

CONSTANTS p1, p2, r1, r2, w1, w2, w3, s1

Ps == {p1, p2}
Rs == {r1, r2}
Ws == {w1, w2, w3}

Always == {"ALWAYS"}
SeatSize(requests, capacities, perUser, editing, picks, optionLimit, windows, overlap) ==
    [people |-> Ps, requests |-> requests, rows |-> Ws, capacities |-> capacities,
     perUser |-> perUser, editing |-> editing, picks |-> picks, optionLimit |-> optionLimit,
     windows |-> windows, overlap |-> overlap]
UploadSize(maxFiles, requests, swaps, overlap) ==
    [own |-> Ps, swaps |-> swaps, maxFiles |-> maxFiles, requests |-> requests, overlap |-> overlap]
LogicSize(last, breaks, actions) == [last |-> last, breaks |-> breaks, actions |-> actions]

\* The first question can be a number or text, the second also a formula of it
\* or a question that watches it.
Plain(t)   == [type |-> t, watches |-> {}, uses |-> {}]
Plains     == {Plain("NONE"), Plain("NUMBER")}
MCPayloads == {<<p, q>> : p \in Plains \cup {Plain("TEXT")},
                          q \in Plains \cup {[Plain("TEXT") EXCEPT !.watches = {1}],
                                             [Plain("CALCULATED") EXCEPT !.uses = {1}]}}

MCSeatSizes ==
    {SeatSize({r1}, {0, 1, 2}, 1, FALSE, {"OTHER"}, 3, {"ALWAYS", "BEFORE", "WITHIN", "AFTER"}, FALSE),
     SeatSize(Rs, {2}, 1, TRUE, {"LIMITED", "OTHER"}, 1, Always, TRUE),
     SeatSize(Rs, {1, 2}, 2, TRUE, {"OTHER"}, 1, Always, TRUE)}
MCReminderSizes == {[people |-> Ps, runs |-> Rs, maxMoves |-> 1]}
MCUploadSizes   == {UploadSize(2, Rs, {s1}, FALSE), UploadSize(1, {r1}, {s1}, FALSE),
                    UploadSize(1, {r1}, {}, TRUE)}
MCLogicSizes    == {LogicSize(5, {2, 4}, {"show"}),
                    LogicSize(3, {}, {"show", "hide", "require", "optional"})}
MCHistorySizes  == {[fields |-> 1..2, payloads |-> MCPayloads, respondents |-> {p1},
                     kept |-> 2, maxVersion |-> 3]}

\* The bounds of a question lie below, at and above the limits of the platform.
WrittenBounds ==
    [TEXT |-> 0..4, PARAGRAPH |-> 0..3, NUMBER |-> {-2, 0, 2}, COMPARED |-> {0, 2},
     SCALE |-> {0, 6, 12}, CHECKBOX |-> 0..3, PHONE |-> {6, 7, 15, 16},
     DATE |-> {"PAST", "NOW", "FUTURE", "today"}, TIME |-> {"09:00", "9:00", "10:00"},
     FILES |-> 0..3]
Moment(at, text) == [at |-> at, text |-> text]
MCMoments ==
    [b \in WrittenBounds["DATE"] \cup WrittenBounds["TIME"] |->
        CASE b = "PAST" -> Moment(-1, 1) [] b = "NOW" -> Moment(0, 2) [] b = "FUTURE" -> Moment(1, 3)
          [] b = "today" -> Moment(0, 4)
          [] b = "09:00" -> Moment(9, 1) [] b = "10:00" -> Moment(10, 2) [] b = "9:00" -> Moment(9, 3)]
MCRuleSizes     == {[kinds |-> DOMAIN WrittenBounds, written |-> WrittenBounds, moments |-> MCMoments,
                     limits |-> [length |-> 3, options |-> 2, files |-> 2, defaultSize |-> 1, size |-> 2,
                                 total |-> 3, span |-> 3],
                     reach |-> 16]}

\* People, requests, rows and the two files of a person (p1, p2 as well, to
\* keep the symmetry group small) are alike.
Symmetry == Permutations(Ps) \cup Permutations(Rs) \cup Permutations(Ws)
=============================================================================
