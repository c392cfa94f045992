----------------------------- MODULE MCAccounts -----------------------------
(* The sizes of the parts, with requests one at a time and overlapping. *)
EXTENDS Accounts, TLC

CONSTANTS a1, a2, b1, b2, c1, c2, d1, d2

As == {a1, a2}
Bs == {b1, b2}

IdSize(people, maxId, requests) == [people |-> people, maxId |-> maxId, requests |-> requests]
SheetSize(people, maxId, lines, requests) ==
    [people |-> people, maxId |-> maxId, lines |-> lines, requests |-> requests]
LinkSize(accounts, links, setups, overlap) ==
    [accounts |-> accounts, addresses |-> Bs, links |-> links, setups |-> setups, overlap |-> overlap]
FileSize(rows, keys, domains, overlap) ==
    [attempts |-> As, rows |-> rows, keys |-> keys, domains |-> domains, overlap |-> overlap]
JobSize(people, exports, runs, overlap) ==
    [people |-> people, exports |-> exports, runs |-> runs, seconds |-> {"FIRST", "SECOND"},
     overlap |-> overlap]

MCIdSizes    == {IdSize(As, 2, {c1}), IdSize(As, 1, Bs)}
MCSheetSizes == {SheetSize(As, 2, {1}, {c1}), SheetSize({a1}, 1, {1, 2}, {c1}),
                 SheetSize({a1}, 1, {1}, Bs)}
MCLinkSizes  == {LinkSize(As, {c1, c2}, {d1}, FALSE), LinkSize({a1}, {c1}, {d1, d2}, TRUE)}
MCFileSizes  == {FileSize({1, 2}, Bs, {"USERS", "MEMBERS", "EVENTS"}, FALSE),
                 FileSize({1, 2}, {b1}, {"USERS", "FORMS", "RAW"}, FALSE),
                 FileSize({1}, {b1}, {"USERS", "EVENTS"}, TRUE)}
MCJobSizes   == {JobSize(As, {}, Bs, FALSE), JobSize({}, Bs, {a1}, FALSE), JobSize({}, {}, As, TRUE)}

\* People, accounts, attempts and recipients are alike, and so are addresses,
\* keys, exports and runs, and two requests.  Links and setups are too, but a
\* small symmetry group is faster.
Symmetry == Permutations(As) \cup Permutations(Bs)
=============================================================================
