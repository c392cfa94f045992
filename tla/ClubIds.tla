------------------------------ MODULE ClubIds ------------------------------
(***************************************************************************)
(* Who holds which club id: accounts/services/club_id_registry.py, the     *)
(* yearly counter of club_id_service.py, membership requests, and the      *)
(* three doors ids come in by from outside the registry: registration, a   *)
(* club lead's edit of a member, and upsert_member (imports and forms).    *)
(*                                                                         *)
(* Whether an id may be given is looked up with no lock on the id, and it  *)
(* is written later: a request begins, keeps what it has found in pend,    *)
(* and commits.  Until then it may hold the lock of its person's row or of *)
(* the counter, and an IntegrityError or a refusal rolls it back.  A save  *)
(* and what the signals write after it are one step.  What locks all it    *)
(* reads is done at once.  With one member in Requests they take turns.    *)
(*                                                                         *)
(* An id is its number under the year's counter.  MaxId bounds them.       *)
(***************************************************************************)
EXTENDS Integers, FiniteSets, FiniteSetsExt

CONSTANTS
    People,    \* e-mail addresses, with an account or without
    MaxId,
    Requests   \* at most as many run at once

VARIABLES
    id,        \* User.club_id, 0 for none
    role,      \* User.role, "ABSENT" without an account
    hold,      \* ClubIdReservation: whom a RESERVED row keeps each id for
    retired,   \* ids with a CLEARED event
    counter,   \* ClubIDSequence.next_sequence
    waiting,   \* people whose membership request is PENDING
    pend       \* what each request is about to write

vars == <<id, role, hold, retired, counter, waiting, pend>>

Ids      == 1 .. MaxId
None     == 0
Nobody   == "NOBODY"
Anyone   == "ANYONE"    \* held back without an address
AsItIs   == "AS_IT_IS"  \* the role the row has when it is saved
Idle     == [op |-> "IDLE"]
Roles    == {"AFFILIATE", "NON_AFFILIATE"}

\* The requests that lock their person's row, and those that lock the counter.
RowLocking == {"ALLOCATE", "APPROVE", "ASSIGN", "REPLACE", "JOIN"}
Numbering  == {"ALLOCATE", "APPROVE", "RESERVE_NEXT", "UPSERT_GIVEN", "UPSERT_NEXT"}
Unlocked   == {"RESERVE", "REGISTER", "REGISTERED", "ATTACH", "EDIT", "UPSERT"}

PeopleNamed == People \cap {Nobody, Anyone} = {} /\ MaxId \in Nat
OneAtATime  == \A r, q \in Requests : r = q

TypeOK ==
    /\ id \in [People -> Ids \cup {None}]
    /\ role \in [People -> Roles \cup {"ABSENT"}]
    /\ hold \in [Ids -> People \cup {Nobody, Anyone}]
    /\ retired \subseteq Ids /\ waiting \subseteq People
    /\ counter \in 1 .. MaxId + 1
    /\ pend \in [Requests -> {Idle} \cup
           [op : RowLocking \cup Numbering \cup Unlocked, who : People \cup {Anyone},
            id : Ids \cup {None}, role : Roles \cup {AsItIs}]]

Init ==
    /\ id = [p \in People |-> None]
    /\ role = [p \in People |-> "ABSENT"]
    /\ hold = [x \in Ids |-> Nobody]
    /\ retired = {} /\ waiting = {}
    /\ counter = 1
    /\ pend = [r \in Requests |-> Idle]

-----------------------------------------------------------------------------
(* What is read                                                            *)

Exists(p)  == role[p] # "ABSENT"
Held(x)    == \E p \in People : id[p] = x

\* Mutant: reserved numbers are not looked at.
AvailableUnreserved(x, e, allowRetired) ==
    /\ \A p \in People \ {e} : id[p] # x
    /\ allowRetired \/ x \notin retired

\* why_unavailable, for the person e ("" from the counter is Anyone's).
Available(x, e, allowRetired) ==
    /\ \A p \in People \ {e} : id[p] # x
    /\ hold[x] \in {Nobody, e} \ {Anyone}
    /\ allowRetired \/ x \notin retired

\* No other request has the lock of p's row, or of the counter.
RowFree(r, p)  == \A q \in Requests \ {r} : pend[q].op \in RowLocking => pend[q].who # p
CounterFree(r) == \A q \in Requests \ {r} : pend[q].op \notin Numbering

Free    == {x \in Ids : x >= counter /\ Available(x, Anyone, FALSE)}
NextId  == Min(Free)

-----------------------------------------------------------------------------
(* What every write of a club id brings with it (the signals)              *)

\* _claim_reservation: whoever gets the id, its reservation is over.
Claimed(x) == IF x = None THEN hold ELSE [hold EXCEPT ![x] = Nobody]

\* log_change: an id that is taken away and not replaced is retired.
Retire(old, new) == IF old # None /\ new = None THEN retired \cup {old} ELSE retired

Write(p, x, ro) ==
    /\ x # None => \A q \in People \ {p} : id[q] # x     \* User.club_id is unique
    /\ id' = [id EXCEPT ![p] = x]
    /\ role' = [role EXCEPT ![p] = ro]
    /\ hold' = IF id[p] = x THEN hold ELSE Claimed(x)
    /\ retired' = Retire(id[p], x)

Begin(r, op, p, x, ro) ==
    /\ pend[r] = Idle
    /\ pend' = [pend EXCEPT ![r] = [op |-> op, who |-> p, id |-> x, role |-> ro]]
    /\ UNCHANGED <<id, role, hold, retired, counter, waiting>>

End(r) == pend' = [pend EXCEPT ![r] = Idle]

AtOnce(r) == pend[r] = Idle /\ UNCHANGED pend

-----------------------------------------------------------------------------
(* The registry                                                            *)

BeginAllocate(r, p) ==
    /\ RowFree(r, p) /\ CounterFree(r)
    /\ Exists(p) /\ id[p] = None /\ Free # {}
    /\ Begin(r, "ALLOCATE", p, NextId, AsItIs)

BeginAssign(r, p, x, allowRetired) ==
    /\ RowFree(r, p) /\ Exists(p) /\ id[p] = None
    /\ Available(x, p, allowRetired)
    /\ Begin(r, "ASSIGN", p, x, AsItIs)

BeginReplace(r, p, x) ==
    /\ RowFree(r, p) /\ Exists(p) /\ id[p] \notin {None, x}
    /\ Available(x, p, FALSE)
    /\ Begin(r, "REPLACE", p, x, AsItIs)

WithoutId(p) == IF role[p] = "AFFILIATE" THEN "NON_AFFILIATE" ELSE role[p]

\* The id moves: it is not retired.
Reassign(r, p, q) ==
    /\ AtOnce(r) /\ RowFree(r, p) /\ RowFree(r, q)
    /\ p # q /\ id[p] # None /\ Exists(q) /\ id[q] = None
    /\ id' = [id EXCEPT ![p] = None, ![q] = id[p]]
    /\ role' = [role EXCEPT ![p] = WithoutId(p)]
    /\ hold' = Claimed(id[p])
    /\ UNCHANGED <<retired, counter, waiting>>

\* Mutant: the affiliate who loses the id stays an affiliate.
ClearOnly(r, p) ==
    /\ AtOnce(r) /\ RowFree(r, p) /\ id[p] # None
    /\ Write(p, None, role[p])
    /\ UNCHANGED <<counter, waiting>>

Clear(r, p) ==
    /\ AtOnce(r) /\ RowFree(r, p) /\ id[p] # None
    /\ Write(p, None, WithoutId(p))
    /\ UNCHANGED <<counter, waiting>>

\* A given id, or (None) the next number.
BeginReserve(r, e, given) ==
    /\ e # Anyone => id[e] = None /\ \A x \in Ids : hold[x] # e
    /\ \/ /\ given # None /\ Available(given, e, FALSE) /\ hold[given] = Nobody
          /\ Begin(r, "RESERVE", e, given, AsItIs)
       \/ /\ given = None /\ CounterFree(r) /\ Free # {}
          /\ Begin(r, "RESERVE_NEXT", e, NextId, AsItIs)

Release(r, x) ==
    /\ AtOnce(r) /\ hold[x] # Nobody
    /\ hold' = [hold EXCEPT ![x] = Nobody]
    /\ UNCHANGED <<id, role, retired, counter, waiting>>

\* Forward only, and past every number that is held or reserved.
SetCounter(r, n) ==
    /\ AtOnce(r) /\ CounterFree(r) /\ n > counter
    /\ \A x \in Ids : Held(x) \/ hold[x] # Nobody => n > x
    /\ counter' = n
    /\ UNCHANGED <<id, role, hold, retired, waiting>>

-----------------------------------------------------------------------------
(* Membership requests                                                     *)

\* attach_reserved: what a person without an id gets.
KeptFor(p) == {x \in Ids : hold[x] = p /\ ~Held(x)}
OrNone(S)  == IF S = {} THEN {None} ELSE S

\* An id kept for the address is attached at once; else organizers decide.
BeginJoin(r, p) ==
    /\ RowFree(r, p) /\ Exists(p) /\ id[p] = None /\ p \notin waiting
    /\ \E x \in OrNone(KeptFor(p)) : Begin(r, "JOIN", p, x, "AFFILIATE")

BeginApprove(r, p) ==
    /\ RowFree(r, p) /\ CounterFree(r)
    /\ p \in waiting /\ Exists(p) /\ id[p] = None /\ Free # {}
    /\ Begin(r, "APPROVE", p, NextId, "AFFILIATE")

\* reject, or the person's own cancel, under the lock of the request's row.
EndRequest(r, p) ==
    /\ AtOnce(r) /\ p \in waiting
    /\ \A q \in Requests : pend[q].op = "APPROVE" => pend[q].who # p
    /\ waiting' = waiting \ {p}
    /\ UNCHANGED <<id, role, hold, retired, counter>>

-----------------------------------------------------------------------------
(* The doors from outside                                                  *)

\* The form is checked, the account made, and an id kept for it looked up.
BeginRegister(r, p, given, ro) ==
    /\ ~Exists(p)
    /\ IF given = None THEN ro # "AFFILIATE" ELSE Available(given, p, TRUE)
    /\ Begin(r, "REGISTER", p, given, ro)

SaveAccount(r) ==
    /\ pend[r].op = "REGISTER" /\ ~Exists(pend[r].who)     \* User.email is unique
    /\ Write(pend[r].who, pend[r].id, pend[r].role)
    /\ IF pend[r].id = None THEN pend' = [pend EXCEPT ![r].op = "REGISTERED"] ELSE End(r)
    /\ UNCHANGED <<counter, waiting>>

FindKept(r) ==
    /\ pend[r].op = "REGISTERED"
    /\ \E x \in OrNone(KeptFor(pend[r].who)) :
          IF x = None THEN End(r)
          ELSE pend' = [pend EXCEPT ![r] = [op |-> "ATTACH", who |-> pend[r].who, id |-> x, role |-> AsItIs]]
    /\ UNCHANGED <<id, role, hold, retired, counter, waiting>>

\* A club lead edits a member: the row is read, checked, and saved whole.
BeginEdit(r, p, x, ro) ==
    /\ Exists(p)
    /\ x \notin {None, id[p]} => Available(x, p, TRUE)
    /\ ro = "AFFILIATE" => x # None
    /\ Begin(r, "EDIT", p, x, ro)

\* upsert_member: a row of an import, or an answered form.  A person found
\* with an id keeps it, and another is refused: nothing is written.
BeginUpsert(r, p, given) ==
    /\ id[p] = None
    /\ given # None => Available(given, p, TRUE)
    /\ Begin(r, "UPSERT", p, given, IF Exists(p) THEN AsItIs ELSE "AFFILIATE")

\* Mutant: the counter moves whatever the number.
UpsertedBlindly(x) == counter + 1

\* Past the number the counter gave, or sync_sequence_watermark of a given one.
Upserted(x) == IF x >= counter THEN x + 1 ELSE counter

\* The counter is locked, for the next number or to move it past a given one.
TakeNumber(r) ==
    /\ pend[r].op = "UPSERT" /\ CounterFree(r)
    /\ \/ /\ pend[r].id # None
          /\ pend' = [pend EXCEPT ![r].op = "UPSERT_GIVEN"]
       \/ /\ pend[r].id = None /\ Free # {}
          /\ pend' = [pend EXCEPT ![r].op = "UPSERT_NEXT", ![r].id = NextId]
    /\ UNCHANGED <<id, role, hold, retired, counter, waiting>>

\* Another request has made the account: its row is looked at again.
FindMade(r) ==
    /\ pend[r].op \in {"UPSERT_GIVEN", "UPSERT_NEXT"} /\ pend[r].role # AsItIs /\ Exists(pend[r].who)
    /\ IF id[pend[r].who] = None
       THEN pend' = [pend EXCEPT ![r] = [op |-> "UPSERT", who |-> pend[r].who, role |-> AsItIs,
                                         id |-> IF pend[r].op = "UPSERT_NEXT" THEN None ELSE pend[r].id]]
       ELSE End(r)
    /\ UNCHANGED <<id, role, hold, retired, counter, waiting>>

-----------------------------------------------------------------------------
(* What has begun is written, or rolled back                               *)

SaveMember(r) ==
    /\ pend[r].op \in {"ASSIGN", "REPLACE", "EDIT", "ATTACH"}
    /\ RowFree(r, pend[r].who)
    /\ Write(pend[r].who, pend[r].id, IF pend[r].role = AsItIs THEN role[pend[r].who] ELSE pend[r].role)
    /\ End(r)
    /\ UNCHANGED <<counter, waiting>>

SaveNumber(r) ==
    /\ pend[r].op \in {"ALLOCATE", "UPSERT_GIVEN", "UPSERT_NEXT"}
    /\ RowFree(r, pend[r].who)
    /\ \/ /\ pend[r].role = AsItIs
          /\ Write(pend[r].who, pend[r].id, role[pend[r].who])
       \/ /\ pend[r].role # AsItIs /\ ~Exists(pend[r].who)
          /\ Write(pend[r].who, pend[r].id, pend[r].role)
    /\ counter' = Upserted(pend[r].id)
    /\ End(r)
    /\ UNCHANGED waiting

SaveReservation(r) ==
    /\ pend[r].op \in {"RESERVE", "RESERVE_NEXT"}
    /\ hold[pend[r].id] = Nobody                            \* one RESERVED row of each id,
    /\ pend[r].who # Anyone => \A x \in Ids : hold[x] # pend[r].who    \* and for each address
    /\ hold' = [hold EXCEPT ![pend[r].id] = pend[r].who]
    /\ counter' = IF pend[r].op = "RESERVE" THEN counter ELSE Upserted(pend[r].id)
    /\ End(r)
    /\ UNCHANGED <<id, role, retired, waiting>>

SaveJoin(r) ==
    /\ pend[r].op = "JOIN"
    /\ \/ /\ pend[r].id = None
          /\ waiting' = waiting \cup {pend[r].who}
          /\ UNCHANGED <<id, role, hold, retired>>
       \/ /\ pend[r].id # None
          /\ Write(pend[r].who, pend[r].id, "AFFILIATE")
          /\ UNCHANGED waiting
    /\ End(r)
    /\ UNCHANGED counter

SaveApproval(r) ==
    /\ pend[r].op = "APPROVE"
    /\ Write(pend[r].who, pend[r].id, "AFFILIATE")
    /\ counter' = Upserted(pend[r].id)
    /\ waiting' = waiting \ {pend[r].who}
    /\ End(r)

RollBack(r) ==
    /\ pend[r] # Idle
    /\ End(r)
    /\ UNCHANGED <<id, role, hold, retired, counter, waiting>>

-----------------------------------------------------------------------------
Registry(r) ==
    \/ \E p \in People :
          \/ BeginAllocate(r, p) \/ Clear(r, p)
          \/ \E x \in Ids : BeginReplace(r, p, x) \/ \E allowRetired \in BOOLEAN : BeginAssign(r, p, x, allowRetired)
          \/ \E q \in People : Reassign(r, p, q)
    \/ \E e \in People \cup {Anyone}, given \in Ids \cup {None} : BeginReserve(r, e, given)
    \/ \E x \in Ids : Release(r, x) \/ SetCounter(r, x)

Membership(r) ==
    \E p \in People : BeginJoin(r, p) \/ BeginApprove(r, p) \/ EndRequest(r, p)

Registration(r) ==
    \E p \in People, x \in Ids \cup {None}, ro \in Roles : BeginRegister(r, p, x, ro)

Doors(r) ==
    \/ Registration(r)
    \/ \E p \in People, x \in Ids \cup {None} :
          BeginUpsert(r, p, x) \/ \E ro \in Roles : BeginEdit(r, p, x, ro)

GoOn(r) ==
    \/ SaveAccount(r) \/ FindKept(r) \/ TakeNumber(r) \/ FindMade(r)
    \/ SaveMember(r) \/ SaveNumber(r) \/ SaveReservation(r) \/ SaveJoin(r) \/ SaveApproval(r)
    \/ RollBack(r)

Next == \E r \in Requests : Registry(r) \/ Membership(r) \/ Doors(r) \/ GoOn(r)
Spec == Init /\ [][Next]_vars

-----------------------------------------------------------------------------
(* Nobody is an affiliate without a club id, whatever an edit, an import,  *)
(* a move or a clearing did in between (accounts/models.py: "AFFILIATE     *)
(* always has a club_id").                                                 *)
AffiliatesHaveIds ==
    \A p \in People : role[p] = "AFFILIATE" => id[p] # None

(* A number kept back is neither somebody's nor retired, whichever door it *)
(* was given out by.  It holds of requests that take turns: a reservation  *)
(* that overlaps an assignment keeps back a number that is just given.     *)
KeptIdsAreFree ==
    \A x \in Ids : hold[x] # Nobody => ~Held(x) /\ x \notin retired

IdsAreSound == AffiliatesHaveIds /\ (OneAtATime => KeptIdsAreFree)
=============================================================================
