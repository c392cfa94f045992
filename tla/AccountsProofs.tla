--------------------------- MODULE AccountsProofs ---------------------------
(***************************************************************************)
(* Theorems about Accounts, for every size of every part: the inductive    *)
(* invariant of each part, then the parts together.                        *)
(***************************************************************************)
EXTENDS Accounts, FiniteSetTheorems, WellFoundedInduction, NaturalsInduction, TLAPS

-----------------------------------------------------------------------------
(* ClubIds. *)

IdsUpTo(s) == 1..s.maxId
IdsOrNone(s) == IdsUpTo(s) \cup {0}
Standing == {"AFFILIATE", "NON_AFFILIATE", "ABSENT"}
Pending(s) == {[op |-> "IDLE"]}
    \cup [op : Ids(s)!RowLocking \cup Ids(s)!Numbering \cup Ids(s)!Unlocked, who : s.people \cup {"ANYONE"},
          id : IdsOrNone(s), role : {"AFFILIATE", "NON_AFFILIATE", "AS_IT_IS"}]

\* Of requests that take turns, a number kept back is nobody's: whoever gets
\* it claims it, whoever loses it held it unkept.
IdRows(s) ==
    /\ id \in [s.people -> IdsOrNone(s)]
    /\ role \in [s.people -> Standing]
    /\ hold \in [IdsUpTo(s) -> s.people \cup {"NOBODY", "ANYONE"}]
    /\ retired \subseteq IdsUpTo(s)
    /\ Ids(s)!AffiliatesHaveIds
    /\ Ids(s)!OneAtATime => Ids(s)!KeptIdsAreFree

\* What a request is about to write: only a reservation may be for no address,
\* and an edit or a registration that makes an affiliate brings an id.
WellFormed(s, w) ==
    /\ w.op \notin {"IDLE", "RESERVE", "RESERVE_NEXT"} => w.who \in s.people
    /\ w.op \notin {"IDLE", "JOIN", "EDIT", "REGISTER", "REGISTERED", "UPSERT"} => w.id # 0
    /\ w.op \in {"EDIT", "REGISTER"} => w.role # "AS_IT_IS" /\ (w.role = "AFFILIATE" => w.id # 0)

\* A locked row stays as it was found.
RowStands(s, r) ==
    pend[r].op \in Ids(s)!RowLocking =>
        /\ role[pend[r].who] # "ABSENT"
        /\ Ids(s)!RowFree(r, pend[r].who)
        /\ pend[r].op = "ASSIGN" => id[pend[r].who] = 0
        /\ pend[r].op = "REPLACE" => id[pend[r].who] # pend[r].id

\* So does a number, while nobody else is at work.
NumberStands(s, r) ==
    /\ pend[r].op \in {"RESERVE", "RESERVE_NEXT"} =>
          (\A p \in s.people : id[p] # pend[r].id) /\ pend[r].id \notin retired
    /\ pend[r].op \in {"ASSIGN", "REPLACE"} => hold[pend[r].id] \in {"NOBODY", pend[r].who}

IdInv(s) ==
    /\ IdRows(s)
    /\ counter \in 1..s.maxId + 1 /\ waiting \subseteq s.people
    /\ pend \in [s.requests -> Pending(s)]
    /\ \A r \in s.requests : WellFormed(s, pend[r]) /\ RowStands(s, r)
    /\ Ids(s)!OneAtATime => \A r \in s.requests : NumberStands(s, r)

LEMMA LeastNumber ==
    ASSUME NEW T \in SUBSET Nat, T # {}
    PROVE  \E x \in T : \A y \in T : x <= y
<1>1. PICK x \in T : \A y \in T : ~(<<y, x>> \in OpToRel(<, Nat))
  BY WFMin, NatLessThanWellFounded
<1>2. \A y \in T : ~(y < x)
  BY <1>1 DEF OpToRel
<1> QED
  BY <1>2

LEMMA IdInvGives ==
    ASSUME NEW s, IdInv(s)
    PROVE  Ids(s)!TypeOK /\ Ids(s)!IdsAreSound
BY DEF IdInv, IdRows, Ids!TypeOK, Ids!Ids, Ids!Roles, Ids!None, Ids!Nobody, Ids!Anyone, Ids!Idle, Ids!AsItIs,
       IdsUpTo, IdsOrNone, Pending, Standing, Ids!IdsAreSound

LEMMA NextIdIsFree ==
    ASSUME NEW s, Ids(s)!PeopleNamed, Ids(s)!Free # {}
    PROVE  /\ Ids(s)!NextId \in IdsUpTo(s) /\ Ids(s)!NextId # 0 /\ Ids(s)!NextId \in IdsOrNone(s)
           /\ (\A p \in s.people : id[p] # Ids(s)!NextId) /\ Ids(s)!NextId \notin retired
<1>0. Ids(s)!Free \subseteq IdsUpTo(s) /\ s.maxId \in Nat
  BY DEF Ids!Free, Ids!Ids, Ids!PeopleNamed, IdsUpTo
<1>1. Ids(s)!Free \in SUBSET Nat /\ Ids(s)!Free \subseteq IdsUpTo(s)
  BY <1>0 DEF IdsUpTo
<1>2. PICK x \in Ids(s)!Free : \A y \in Ids(s)!Free : x <= y
  BY <1>1, LeastNumber
<1>3. Ids(s)!NextId \in Ids(s)!Free
  BY <1>2 DEF Ids!NextId, Ids!Min
<1>4. \A y \in Ids(s)!Free : (\A p \in s.people : id[p] # y) /\ y \notin retired
  BY DEF Ids!Free, Ids!Available, Ids!Anyone, Ids!PeopleNamed
<1>5. \A y \in IdsUpTo(s) : y # 0 /\ y \in IdsOrNone(s)
  BY <1>0 DEF IdsUpTo, IdsOrNone
<1> QED
  BY <1>1, <1>3, <1>4, <1>5

\* Whoever is written an id ends with a number nobody holds or is kept.
LEMMA RowsWritten ==
    ASSUME NEW s, Ids(s)!PeopleNamed, IdRows(s), NEW p \in s.people, NEW x \in IdsOrNone(s),
           NEW r \in Standing, Ids(s)!Write(p, x, r), r = "AFFILIATE" => x # 0
    PROVE  IdRows(s)'
<1> USE DEF IdRows, Ids!Write, Ids!None, Ids!Nobody, Ids!Ids, IdsUpTo, IdsOrNone
<1>1. id' \in [s.people -> IdsOrNone(s)] /\ role' \in [s.people -> Standing]
  OBVIOUS
<1>2. hold' \in [IdsUpTo(s) -> s.people \cup {"NOBODY", "ANYONE"}]
  BY DEF Ids!Claimed
<1>3. retired' \subseteq IdsUpTo(s)
  BY DEF Ids!Retire
<1>4. Ids(s)!AffiliatesHaveIds'
  BY DEF Ids!AffiliatesHaveIds
<1>5. ASSUME Ids(s)!OneAtATime PROVE Ids(s)!KeptIdsAreFree'
  <2>1. ASSUME NEW y \in IdsUpTo(s), hold'[y] # "NOBODY"
        PROVE  (\A q \in s.people : id'[q] # y) /\ y \notin retired'
    <3>1. hold[y] # "NOBODY" /\ (y # x \/ id[p] = x)
      BY <2>1 DEF Ids!Claimed
    <3>2. (\A q \in s.people : id[q] # y) /\ y \notin retired
      BY <1>5, <3>1 DEF Ids!KeptIdsAreFree, Ids!Held
    <3>3. y # x
      BY <3>1, <3>2
    <3> QED
      BY <3>2, <3>3 DEF Ids!Retire
  <2> QED
    BY <2>1 DEF Ids!KeptIdsAreFree, Ids!Held
<1> QED
  BY <1>1, <1>2, <1>3, <1>4, <1>5 DEF Ids!OneAtATime

LEMMA RowsMoved ==
    ASSUME NEW s, Ids(s)!PeopleNamed, IdRows(s), NEW r, NEW p \in s.people, NEW q \in s.people,
           Ids(s)!Reassign(r, p, q)
    PROVE  IdRows(s)'
<1> USE DEF IdRows, Ids!Reassign, Ids!None, Ids!Nobody, Ids!Ids, IdsUpTo, IdsOrNone
<1>1. id' \in [s.people -> IdsOrNone(s)]
  OBVIOUS
<1>2. role' \in [s.people -> Standing]
  BY DEF Ids!WithoutId, Standing
<1>3. hold' \in [IdsUpTo(s) -> s.people \cup {"NOBODY", "ANYONE"}]
  BY DEF Ids!Claimed
<1>4. Ids(s)!AffiliatesHaveIds'
  BY DEF Ids!AffiliatesHaveIds, Ids!WithoutId
<1>5. ASSUME Ids(s)!OneAtATime PROVE Ids(s)!KeptIdsAreFree'
  BY <1>5 DEF Ids!KeptIdsAreFree, Ids!Held, Ids!Claimed
<1> QED
  BY <1>1, <1>2, <1>3, <1>4, <1>5 DEF Ids!OneAtATime

LEMMA RowsKept ==
    ASSUME NEW s, Ids(s)!PeopleNamed, IdRows(s), NEW y \in IdsUpTo(s),
           NEW e \in s.people \cup {"NOBODY", "ANYONE"}, hold' = [hold EXCEPT ![y] = e],
           UNCHANGED <<id, role, retired>>,
           Ids(s)!OneAtATime /\ e # "NOBODY" => (\A q \in s.people : id[q] # y) /\ y \notin retired
    PROVE  IdRows(s)'
<1> USE DEF IdRows, Ids!None, Ids!Nobody, Ids!Ids, IdsUpTo, IdsOrNone
<1>1. hold' \in [IdsUpTo(s) -> s.people \cup {"NOBODY", "ANYONE"}]
  OBVIOUS
<1>2. Ids(s)!AffiliatesHaveIds'
  BY DEF Ids!AffiliatesHaveIds
<1>3. ASSUME Ids(s)!OneAtATime PROVE Ids(s)!KeptIdsAreFree'
  BY <1>3 DEF Ids!KeptIdsAreFree, Ids!Held
<1> QED
  BY <1>1, <1>2, <1>3 DEF Ids!OneAtATime

LEMMA RowsStay ==
    ASSUME NEW s, IdRows(s), UNCHANGED <<id, role, hold, retired>>
    PROVE  IdRows(s)'
BY DEF IdRows, Ids!AffiliatesHaveIds, Ids!KeptIdsAreFree, Ids!Held, Ids!Ids, Ids!None, Ids!OneAtATime

LEMMA IdStutter ==
    ASSUME NEW s, IdInv(s), UNCHANGED <<id, role, hold, retired, counter, waiting, pend>>
    PROVE  IdInv(s)'
BY RowsStay DEF IdInv, WellFormed, RowStands, NumberStands, Ids!RowFree, Ids!OneAtATime, Pending, Ids!RowLocking,
    Ids!Numbering, Ids!Unlocked

\* A step of request r: the rows that others have locked stay, and what r is
\* about to write after it is sound.
OthersKept(s, r) ==
    \A q \in s.requests \ {r} :
        /\ pend'[q] = pend[q]
        /\ pend[q].op \in Ids(s)!RowLocking =>
              /\ id'[pend[q].who] = id[pend[q].who] /\ role'[pend[q].who] # "ABSENT"
              /\ pend'[r].op \in Ids(s)!RowLocking => pend'[r].who # pend[q].who

LEMMA IdsGoOn ==
    ASSUME NEW s, IdInv(s), NEW r \in s.requests,
           IdRows(s)', counter' \in 1..s.maxId + 1, waiting' \subseteq s.people,
           pend' \in [s.requests -> Pending(s)], WellFormed(s, pend'[r]), OthersKept(s, r),
           pend'[r].op \in Ids(s)!RowLocking =>
              /\ role'[pend'[r].who] # "ABSENT"
              /\ pend'[r].op = "ASSIGN" => id'[pend'[r].who] = 0
              /\ pend'[r].op = "REPLACE" => id'[pend'[r].who] # pend'[r].id,
           Ids(s)!OneAtATime => NumberStands(s, r)'
    PROVE  IdInv(s)'
<1> USE DEF Ids!RowLocking
<1>1. RowStands(s, r)'
  BY DEF RowStands, OthersKept, Ids!RowFree
<1>2. ASSUME NEW q \in s.requests, q # r PROVE WellFormed(s, pend[q])' /\ RowStands(s, q)'
  BY <1>2 DEF IdInv, WellFormed, RowStands, OthersKept, Ids!RowFree
<1>3. (Ids(s)!OneAtATime)' => \A q \in s.requests : NumberStands(s, q)'
  BY DEF Ids!OneAtATime
<1> QED
  BY <1>1, <1>2, <1>3 DEF IdInv, WellFormed

\* How requests begin, go on and end.
LEMMA IdsBegin ==
    ASSUME NEW s, IdInv(s), NEW r \in s.requests,
           NEW op \in Ids(s)!RowLocking \cup Ids(s)!Numbering \cup Ids(s)!Unlocked,
           NEW p \in s.people \cup {"ANYONE"}, NEW x \in IdsOrNone(s),
           NEW ro \in {"AFFILIATE", "NON_AFFILIATE", "AS_IT_IS"},
           Ids(s)!Begin(r, op, p, x, ro),
           op \notin {"RESERVE", "RESERVE_NEXT"} => p \in s.people,
           op \notin {"JOIN", "EDIT", "REGISTER", "UPSERT"} => x # 0,
           op # "REGISTERED",
           op \in {"EDIT", "REGISTER"} => ro # "AS_IT_IS" /\ (ro = "AFFILIATE" => x # 0),
           op \in Ids(s)!RowLocking => role[p] # "ABSENT" /\ Ids(s)!RowFree(r, p),
           op = "ASSIGN" => id[p] = 0, op = "REPLACE" => id[p] # x,
           op \in {"RESERVE", "RESERVE_NEXT"} => (\A q \in s.people : id[q] # x) /\ x \notin retired,
           op \in {"ASSIGN", "REPLACE"} => hold[x] \in {"NOBODY", p}
    PROVE  IdInv(s)'
<1>1. /\ pend' = [pend EXCEPT ![r] = [op |-> op, who |-> p, id |-> x, role |-> ro]]
      /\ UNCHANGED <<id, role, hold, retired, counter, waiting>>
  BY DEF Ids!Begin
<1>2. pend' \in [s.requests -> Pending(s)] /\ pend'[r] = [op |-> op, who |-> p, id |-> x, role |-> ro]
      /\ \A q \in s.requests \ {r} : pend'[q] = pend[q]
  BY <1>1 DEF IdInv, Pending
<1>3. IdRows(s)' /\ counter' \in 1..s.maxId + 1 /\ waiting' \subseteq s.people
  BY <1>1, RowsStay DEF IdInv
<1>4. op # "IDLE"
  BY DEF Ids!RowLocking, Ids!Numbering, Ids!Unlocked
<1>5. WellFormed(s, pend'[r])
  BY <1>2, <1>4 DEF WellFormed
<1>6. OthersKept(s, r)
  BY <1>1, <1>2 DEF OthersKept, IdInv, RowStands, Ids!RowFree
<1>7. NumberStands(s, r)'
  BY <1>1, <1>2 DEF NumberStands
<1>8. pend'[r].op \in Ids(s)!RowLocking =>
          /\ role'[pend'[r].who] # "ABSENT"
          /\ pend'[r].op = "ASSIGN" => id'[pend'[r].who] = 0
          /\ pend'[r].op = "REPLACE" => id'[pend'[r].who] # pend'[r].id
  BY <1>1, <1>2
<1> QED
  BY <1>2, <1>3, <1>5, <1>6, <1>7, <1>8, IdsGoOn

\* What r is about to do next locks no row and keeps no number back.
Turned(s, r) ==
    /\ pend' \in [s.requests -> Pending(s)] /\ \A q \in s.requests \ {r} : pend'[q] = pend[q]
    /\ WellFormed(s, pend'[r])
    /\ pend'[r].op \notin Ids(s)!RowLocking \cup {"RESERVE", "RESERVE_NEXT"}

LEMMA EndTurns ==
    ASSUME NEW s, IdInv(s), NEW r \in s.requests, Ids(s)!End(r)
    PROVE  Turned(s, r)
BY DEF IdInv, Turned, Ids!End, Ids!Idle, Pending, WellFormed, Ids!RowLocking

LEMMA AtOnceTurns ==
    ASSUME NEW s, IdInv(s), NEW r \in s.requests, Ids(s)!AtOnce(r)
    PROVE  Turned(s, r) /\ UNCHANGED pend
BY DEF IdInv, Turned, Ids!AtOnce, Ids!Idle, Pending, WellFormed, Ids!RowLocking

LEMMA TurnedUnwritten ==
    ASSUME NEW s, IdInv(s), NEW r \in s.requests, Turned(s, r), UNCHANGED <<id, role>>,
           IdRows(s)', counter' \in 1..s.maxId + 1, waiting' \subseteq s.people
    PROVE  IdInv(s)'
<1>1. OthersKept(s, r)
  BY DEF OthersKept, IdInv, RowStands, Turned
<1>2. NumberStands(s, r)' /\ pend'[r].op \notin Ids(s)!RowLocking
  BY DEF NumberStands, Turned, Ids!RowLocking
<1> QED
  BY <1>1, <1>2, IdsGoOn DEF Turned

LEMMA TurnedRows ==
    ASSUME NEW s, IdInv(s), NEW r \in s.requests, Turned(s, r), IdRows(s)',
           counter' \in 1..s.maxId + 1, waiting' \subseteq s.people,
           NEW P \in SUBSET s.people, \A p \in P : Ids(s)!RowFree(r, p),
           \A u \in s.people \ P : id'[u] = id[u] /\ role'[u] = role[u]
    PROVE  IdInv(s)'
<1>1. OthersKept(s, r)
  <2>1. ASSUME NEW q \in s.requests \ {r}, pend[q].op \in Ids(s)!RowLocking
        PROVE  id'[pend[q].who] = id[pend[q].who] /\ role'[pend[q].who] # "ABSENT"
    <3>1. pend[q].who \in s.people /\ role[pend[q].who] # "ABSENT"
      BY <2>1 DEF IdInv, WellFormed, RowStands, Ids!RowLocking
    <3>2. pend[q].who \notin P
      BY <2>1 DEF Ids!RowFree
    <3> QED
      BY <3>1, <3>2
  <2> QED
    BY <2>1 DEF OthersKept, Turned
<1>2. NumberStands(s, r)' /\ pend'[r].op \notin Ids(s)!RowLocking
  BY DEF NumberStands, Turned, Ids!RowLocking
<1> QED
  BY <1>1, <1>2, IdsGoOn DEF Turned

LEMMA TurnedWritten ==
    ASSUME NEW s, Ids(s)!PeopleNamed, IdInv(s), NEW r \in s.requests, Turned(s, r),
           NEW p \in s.people, NEW x \in IdsOrNone(s), NEW ro \in Standing,
           Ids(s)!Write(p, x, ro), Ids(s)!RowFree(r, p), ro = "AFFILIATE" => x # 0,
           counter' \in 1..s.maxId + 1, waiting' \subseteq s.people
    PROVE  IdInv(s)'
<1>1. IdRows(s)'
  BY RowsWritten DEF IdInv
<1>2. \A u \in s.people \ {p} : id'[u] = id[u] /\ role'[u] = role[u]
  BY DEF Ids!Write, IdInv, IdRows
<1>3. {p} \in SUBSET s.people /\ \A u \in {p} : Ids(s)!RowFree(r, u)
  OBVIOUS
<1> QED
  BY <1>1, <1>2, <1>3, TurnedRows

LEMMA RegistryKeepsIds ==
    ASSUME NEW s, Ids(s)!PeopleNamed, IdInv(s), NEW r \in s.requests, Ids(s)!Registry(r)
    PROVE  IdInv(s)'
<1> DEFINE Goal == IdInv(s)'
<1> SUFFICES Goal
  OBVIOUS
<1>a. IdRows(s) /\ s.maxId \in Nat /\ counter \in 1..s.maxId + 1 /\ waiting \subseteq s.people
  BY DEF Ids!PeopleNamed, IdInv
<1>b. \A p \in s.people : role[p] \in Standing /\ id[p] \in IdsOrNone(s)
  BY <1>a DEF IdRows
<1>c. \A x \in IdsUpTo(s) : x # 0 /\ x \in IdsOrNone(s)
  BY <1>a DEF IdsUpTo, IdsOrNone
<1>1. ASSUME NEW p \in s.people, Ids(s)!BeginAllocate(r, p) PROVE Goal
  <2>1. Ids(s)!Begin(r, "ALLOCATE", p, Ids(s)!NextId, "AS_IT_IS") /\ role[p] # "ABSENT" /\ Ids(s)!RowFree(r, p)
    BY <1>1 DEF Ids!BeginAllocate, Ids!Exists, Ids!AsItIs
  <2>2. Ids(s)!NextId \in IdsOrNone(s) /\ Ids(s)!NextId # 0
    BY <1>1, NextIdIsFree DEF Ids!BeginAllocate
  <2> QED
    BY <2>1, <2>2, IdsBegin DEF Ids!RowLocking
<1>2. ASSUME NEW p \in s.people, Ids(s)!Clear(r, p) PROVE Goal
  <2>1. Ids(s)!WithoutId(p) \in Standing /\ Ids(s)!WithoutId(p) # "AFFILIATE"
    BY <1>b DEF Ids!WithoutId, Standing
  <2>2. Turned(s, r) /\ UNCHANGED pend
    BY <1>2, AtOnceTurns DEF Ids!Clear
  <2>3. /\ Ids(s)!Write(p, 0, Ids(s)!WithoutId(p)) /\ 0 \in IdsOrNone(s)
        /\ Ids(s)!RowFree(r, p) /\ counter' \in 1..s.maxId + 1 /\ waiting' \subseteq s.people
    BY <1>2, <1>a DEF Ids!Clear, Ids!None, IdsOrNone
  <2> QED
    BY <2>1, <2>2, <2>3, TurnedWritten
<1>3. ASSUME NEW p \in s.people, NEW x \in IdsUpTo(s), Ids(s)!BeginReplace(r, p, x) PROVE Goal
  <2>1. /\ Ids(s)!Begin(r, "REPLACE", p, x, "AS_IT_IS") /\ role[p] # "ABSENT" /\ Ids(s)!RowFree(r, p)
        /\ id[p] # x /\ hold[x] \in {"NOBODY", p}
    BY <1>3 DEF Ids!BeginReplace, Ids!Exists, Ids!AsItIs, Ids!Available, Ids!Nobody
  <2> QED
    BY <1>c, <2>1, IdsBegin DEF Ids!RowLocking
<1>4. ASSUME NEW p \in s.people, NEW x \in IdsUpTo(s), NEW b \in BOOLEAN, Ids(s)!BeginAssign(r, p, x, b)
      PROVE  Goal
  <2>1. /\ Ids(s)!Begin(r, "ASSIGN", p, x, "AS_IT_IS") /\ role[p] # "ABSENT" /\ Ids(s)!RowFree(r, p)
        /\ id[p] = 0 /\ hold[x] \in {"NOBODY", p}
    BY <1>4 DEF Ids!BeginAssign, Ids!Exists, Ids!AsItIs, Ids!Available, Ids!Nobody, Ids!None
  <2> QED
    BY <1>c, <2>1, IdsBegin DEF Ids!RowLocking
<1>5. ASSUME NEW p \in s.people, NEW q \in s.people, Ids(s)!Reassign(r, p, q) PROVE Goal
  <2>1. IdRows(s)'
    BY <1>5, <1>a, RowsMoved
  <2>2. Turned(s, r)
    BY <1>5, AtOnceTurns DEF Ids!Reassign
  <2>3. /\ \A u \in {p, q} : Ids(s)!RowFree(r, u)
        /\ \A u \in s.people \ {p, q} : id'[u] = id[u] /\ role'[u] = role[u]
        /\ counter' \in 1..s.maxId + 1 /\ waiting' \subseteq s.people
    BY <1>5, <1>a DEF Ids!Reassign, IdRows
  <2>4. {p, q} \in SUBSET s.people
    OBVIOUS
  <2> QED
    BY <2>1, <2>2, <2>3, <2>4, TurnedRows
<1>6. ASSUME NEW e \in s.people \cup {"ANYONE"}, NEW x \in IdsOrNone(s), Ids(s)!BeginReserve(r, e, x) PROVE Goal
  <2>1. CASE /\ x # 0 /\ Ids(s)!Available(x, e, FALSE) /\ hold[x] = "NOBODY"
             /\ Ids(s)!Begin(r, "RESERVE", e, x, "AS_IT_IS")
    <3>1. e \in s.people => id[e] = 0
      BY <1>6 DEF Ids!BeginReserve, Ids!Anyone, Ids!None, Ids!PeopleNamed
    <3>2. (\A q \in s.people : id[q] # x) /\ x \notin retired
      BY <2>1, <3>1 DEF Ids!Available
    <3> QED
      BY <2>1, <3>2, IdsBegin DEF Ids!Unlocked, Ids!RowLocking
  <2>2. CASE Ids(s)!Free # {} /\ Ids(s)!Begin(r, "RESERVE_NEXT", e, Ids(s)!NextId, "AS_IT_IS")
    <3>1. /\ Ids(s)!NextId \in IdsOrNone(s) /\ Ids(s)!NextId # 0
          /\ (\A p \in s.people : id[p] # Ids(s)!NextId) /\ Ids(s)!NextId \notin retired
      BY <2>2, NextIdIsFree
    <3> QED
      BY <2>2, <3>1, IdsBegin DEF Ids!Numbering, Ids!RowLocking
  <2> QED
    BY <1>6, <2>1, <2>2 DEF Ids!BeginReserve, Ids!None, Ids!Nobody, Ids!AsItIs
<1>7. ASSUME NEW x \in IdsUpTo(s), Ids(s)!Release(r, x) PROVE Goal
  <2>1. IdRows(s)'
    BY <1>7, <1>a, RowsKept DEF Ids!Release, Ids!Nobody
  <2>2. Turned(s, r)
    BY <1>7, AtOnceTurns DEF Ids!Release
  <2> QED
    BY <1>7, <1>a, <2>1, <2>2, TurnedUnwritten DEF Ids!Release
<1>8. ASSUME NEW x \in IdsUpTo(s), Ids(s)!SetCounter(r, x) PROVE Goal
  <2>1. IdRows(s)' /\ counter' \in 1..s.maxId + 1
    BY <1>8, <1>a, RowsStay DEF Ids!SetCounter, IdsUpTo
  <2>2. Turned(s, r)
    BY <1>8, AtOnceTurns DEF Ids!SetCounter
  <2> QED
    BY <1>8, <1>a, <2>1, <2>2, TurnedUnwritten DEF Ids!SetCounter
<1> HIDE DEF Goal
<1> QED
  BY <1>1, <1>2, <1>3, <1>4, <1>5, <1>6, <1>7, <1>8
     DEF Ids!Registry, Ids!Ids, Ids!None, Ids!Anyone, IdsUpTo, IdsOrNone

LEMMA KeptForIsIds ==
    ASSUME NEW s, Ids(s)!PeopleNamed, NEW p, NEW x \in Ids(s)!OrNone(Ids(s)!KeptFor(p))
    PROVE  x \in IdsOrNone(s)
BY DEF Ids!KeptFor, Ids!OrNone, Ids!Ids, Ids!None, IdsUpTo, IdsOrNone

LEMMA MembershipKeepsIds ==
    ASSUME NEW s, Ids(s)!PeopleNamed, IdInv(s), NEW r \in s.requests, Ids(s)!Membership(r)
    PROVE  IdInv(s)'
<1> DEFINE Goal == IdInv(s)'
<1> SUFFICES Goal
  OBVIOUS
<1>a. IdRows(s) /\ counter \in 1..s.maxId + 1 /\ waiting \subseteq s.people
  BY DEF IdInv
<1>1. ASSUME NEW p \in s.people, Ids(s)!BeginJoin(r, p) PROVE Goal
  <2>1. PICK x \in Ids(s)!OrNone(Ids(s)!KeptFor(p)) : Ids(s)!Begin(r, "JOIN", p, x, "AFFILIATE")
    BY <1>1 DEF Ids!BeginJoin
  <2>2. x \in IdsOrNone(s)
    BY KeptForIsIds
  <2>3. role[p] # "ABSENT" /\ Ids(s)!RowFree(r, p)
    BY <1>1 DEF Ids!BeginJoin, Ids!Exists
  <2> QED
    BY <2>1, <2>2, <2>3, IdsBegin DEF Ids!RowLocking
<1>2. ASSUME NEW p \in s.people, Ids(s)!BeginApprove(r, p) PROVE Goal
  <2>1. Ids(s)!Begin(r, "APPROVE", p, Ids(s)!NextId, "AFFILIATE") /\ role[p] # "ABSENT" /\ Ids(s)!RowFree(r, p)
    BY <1>2 DEF Ids!BeginApprove, Ids!Exists
  <2>2. Ids(s)!NextId \in IdsOrNone(s) /\ Ids(s)!NextId # 0
    BY <1>2, NextIdIsFree DEF Ids!BeginApprove
  <2> QED
    BY <2>1, <2>2, IdsBegin DEF Ids!RowLocking
<1>3. ASSUME NEW p \in s.people, Ids(s)!EndRequest(r, p) PROVE Goal
  <2>1. IdRows(s)'
    BY <1>3, <1>a, RowsStay DEF Ids!EndRequest
  <2>2. Turned(s, r)
    BY <1>3, AtOnceTurns DEF Ids!EndRequest
  <2> QED
    BY <1>3, <1>a, <2>1, <2>2, TurnedUnwritten DEF Ids!EndRequest
<1> HIDE DEF Goal
<1> QED
  BY <1>1, <1>2, <1>3 DEF Ids!Membership

LEMMA RegistrationKeepsIds ==
    ASSUME NEW s, Ids(s)!PeopleNamed, IdInv(s), NEW r \in s.requests, Ids(s)!Registration(r)
    PROVE  IdInv(s)'
<1>1. PICK p \in s.people, x \in IdsOrNone(s), ro \in {"AFFILIATE", "NON_AFFILIATE"} :
         Ids(s)!BeginRegister(r, p, x, ro)
  BY DEF Ids!Registration, Ids!Ids, Ids!None, Ids!Roles, IdsUpTo, IdsOrNone
<1>2. Ids(s)!Begin(r, "REGISTER", p, x, ro) /\ (ro = "AFFILIATE" => x # 0)
  BY <1>1 DEF Ids!BeginRegister, Ids!None
<1> QED
  BY <1>2, IdsBegin DEF Ids!Unlocked, Ids!RowLocking

LEMMA DoorsKeepIds ==
    ASSUME NEW s, Ids(s)!PeopleNamed, IdInv(s), NEW r \in s.requests, Ids(s)!Doors(r)
    PROVE  IdInv(s)'
<1> DEFINE Goal == IdInv(s)'
<1> SUFFICES Goal
  OBVIOUS
<1>1. ASSUME NEW p \in s.people, NEW x \in IdsOrNone(s), NEW ro \in {"AFFILIATE", "NON_AFFILIATE"},
             Ids(s)!BeginEdit(r, p, x, ro)
      PROVE  Goal
  <2>1. Ids(s)!Begin(r, "EDIT", p, x, ro) /\ (ro = "AFFILIATE" => x # 0)
    BY <1>1 DEF Ids!BeginEdit, Ids!None
  <2> QED
    BY <2>1, IdsBegin DEF Ids!Unlocked, Ids!RowLocking
<1>2. ASSUME NEW p \in s.people, NEW x \in IdsOrNone(s), Ids(s)!BeginUpsert(r, p, x) PROVE Goal
  <2>1. \/ Ids(s)!Begin(r, "UPSERT", p, x, "AS_IT_IS")
        \/ Ids(s)!Begin(r, "UPSERT", p, x, "AFFILIATE")
    BY <1>2 DEF Ids!BeginUpsert, Ids!AsItIs
  <2> QED
    BY <2>1, IdsBegin DEF Ids!Unlocked, Ids!RowLocking
<1>3. ASSUME Ids(s)!Registration(r) PROVE Goal
  BY <1>3, RegistrationKeepsIds
<1> HIDE DEF Goal
<1> QED
  BY <1>1, <1>2, <1>3 DEF Ids!Doors, Ids!Ids, Ids!None, Ids!Roles, IdsUpTo, IdsOrNone

\* What is written at the end of a request, or on the way, and of what is not.
LEMMA SaveMemberKeepsIds ==
    ASSUME NEW s, Ids(s)!PeopleNamed, IdInv(s), NEW r \in s.requests, Ids(s)!SaveMember(r)
    PROVE  IdInv(s)'
<1>a. IdRows(s) /\ counter \in 1..s.maxId + 1 /\ waiting \subseteq s.people
  BY DEF IdInv
<1>1. PICK w \in Pending(s) : w = pend[r]
  BY DEF IdInv
<1>2. /\ w.op \in {"ASSIGN", "REPLACE", "EDIT", "ATTACH"} /\ w.who \in s.people /\ w.id \in IdsOrNone(s)
      /\ w.role \in {"AFFILIATE", "NON_AFFILIATE", "AS_IT_IS"}
      /\ w.op = "EDIT" => w.role # "AS_IT_IS" /\ (w.role = "AFFILIATE" => w.id # 0)
      /\ w.op # "EDIT" => w.id # 0
  BY <1>1 DEF Ids!SaveMember, IdInv, WellFormed, Pending
<1>3. PICK ro \in Standing : ro = IF w.role = "AS_IT_IS" THEN role[w.who] ELSE w.role
  BY <1>a, <1>2 DEF IdRows, Standing
<1>4. /\ Ids(s)!Write(w.who, w.id, ro) /\ Ids(s)!RowFree(r, w.who) /\ Ids(s)!End(r)
      /\ UNCHANGED <<counter, waiting>>
  BY <1>1, <1>3 DEF Ids!SaveMember, Ids!AsItIs
<1>5. ro = "AFFILIATE" => w.id # 0
  BY <1>2, <1>3
<1>6. Turned(s, r) /\ counter' \in 1..s.maxId + 1 /\ waiting' \subseteq s.people
  BY <1>a, <1>4, EndTurns
<1> QED
  BY <1>2, <1>4, <1>5, <1>6, TurnedWritten

LEMMA SaveNumberKeepsIds ==
    ASSUME NEW s, Ids(s)!PeopleNamed, IdInv(s), NEW r \in s.requests, Ids(s)!SaveNumber(r)
    PROVE  IdInv(s)'
<1>a. IdRows(s) /\ s.maxId \in Nat /\ counter \in 1..s.maxId + 1 /\ waiting \subseteq s.people
  BY DEF IdInv, Ids!PeopleNamed
<1>1. PICK w \in Pending(s) : w = pend[r]
  BY DEF IdInv
<1>2. /\ w.who \in s.people /\ w.id \in IdsOrNone(s) /\ w.id # 0
      /\ w.role \in {"AFFILIATE", "NON_AFFILIATE", "AS_IT_IS"}
  BY <1>1 DEF Ids!SaveNumber, IdInv, WellFormed, Pending
<1>3. PICK ro \in Standing : ro = IF w.role = "AS_IT_IS" THEN role[w.who] ELSE w.role
  BY <1>a, <1>2 DEF IdRows, Standing
<1>4. /\ Ids(s)!Write(w.who, w.id, ro) /\ Ids(s)!RowFree(r, w.who) /\ Ids(s)!End(r)
      /\ counter' = Ids(s)!Upserted(w.id) /\ UNCHANGED waiting
  BY <1>1, <1>3 DEF Ids!SaveNumber, Ids!AsItIs
<1>5. Turned(s, r) /\ waiting' \subseteq s.people
  BY <1>a, <1>4, EndTurns
<1>6. counter' \in 1..s.maxId + 1
  BY <1>a, <1>2, <1>4 DEF Ids!Upserted, IdsUpTo, IdsOrNone
<1> QED
  BY <1>2, <1>4, <1>5, <1>6, TurnedWritten

LEMMA SaveReservationKeepsIds ==
    ASSUME NEW s, Ids(s)!PeopleNamed, IdInv(s), NEW r \in s.requests, Ids(s)!SaveReservation(r)
    PROVE  IdInv(s)'
<1>a. IdRows(s) /\ s.maxId \in Nat /\ counter \in 1..s.maxId + 1 /\ waiting \subseteq s.people
  BY DEF IdInv, Ids!PeopleNamed
<1>1. PICK w \in Pending(s) : w = pend[r]
  BY DEF IdInv
<1>2. w.who \in s.people \cup {"ANYONE"} /\ w.id \in IdsUpTo(s)
  BY <1>1 DEF Ids!SaveReservation, IdInv, WellFormed, Pending, IdsOrNone
<1>3. /\ hold' = [hold EXCEPT ![w.id] = w.who] /\ Ids(s)!End(r)
      /\ counter' \in {counter, Ids(s)!Upserted(w.id)} /\ UNCHANGED <<id, role, retired, waiting>>
  BY <1>1 DEF Ids!SaveReservation
<1>4. Ids(s)!OneAtATime => (\A q \in s.people : id[q] # w.id) /\ w.id \notin retired
  BY <1>1 DEF Ids!SaveReservation, IdInv, NumberStands
<1>5. IdRows(s)'
  BY <1>a, <1>2, <1>3, <1>4, RowsKept
<1>6. Turned(s, r) /\ waiting' \subseteq s.people
  BY <1>a, <1>3, EndTurns
<1>7. counter' \in 1..s.maxId + 1
  BY <1>a, <1>2, <1>3 DEF Ids!Upserted, IdsUpTo
<1> QED
  BY <1>3, <1>5, <1>6, <1>7, TurnedUnwritten

\* A row that was locked is still free of everybody else's locks.
LEMMA SaveLockedKeepsIds ==
    ASSUME NEW s, Ids(s)!PeopleNamed, IdInv(s), NEW r \in s.requests,
           Ids(s)!SaveJoin(r) \/ Ids(s)!SaveApproval(r)
    PROVE  IdInv(s)'
<1>a. IdRows(s) /\ s.maxId \in Nat /\ counter \in 1..s.maxId + 1 /\ waiting \subseteq s.people
  BY DEF IdInv, Ids!PeopleNamed
<1>1. PICK w \in Pending(s) : w = pend[r]
  BY DEF IdInv
<1>2. w.op \in {"JOIN", "APPROVE"} /\ w.who \in s.people /\ w.id \in IdsOrNone(s)
  BY <1>1 DEF Ids!SaveJoin, Ids!SaveApproval, IdInv, WellFormed, Pending
<1>3. Ids(s)!RowFree(r, w.who)
  BY <1>1, <1>2 DEF IdInv, RowStands, Ids!RowLocking
<1>4. Ids(s)!End(r) /\ Turned(s, r)
  BY EndTurns DEF Ids!SaveJoin, Ids!SaveApproval
<1>5. CASE w.op = "JOIN" /\ w.id = 0
  <2>1. UNCHANGED <<id, role, hold, retired, counter>> /\ waiting' \subseteq s.people
    BY <1>a, <1>1, <1>2, <1>5 DEF Ids!SaveJoin, Ids!SaveApproval, Ids!None
  <2>2. IdRows(s)'
    BY <1>a, <2>1, RowsStay
  <2> QED
    BY <1>a, <1>4, <2>1, <2>2, TurnedUnwritten
<1>6. CASE w.id # 0
  <2>1. /\ Ids(s)!Write(w.who, w.id, "AFFILIATE") /\ waiting' \subseteq s.people
        /\ counter' \in {counter, Ids(s)!Upserted(w.id)}
    BY <1>a, <1>1, <1>6 DEF Ids!SaveJoin, Ids!SaveApproval, Ids!None
  <2>2. counter' \in 1..s.maxId + 1
    BY <1>a, <1>2, <1>6, <2>1 DEF Ids!Upserted, IdsUpTo, IdsOrNone
  <2> QED
    BY <1>2, <1>3, <1>4, <1>6, <2>1, <2>2, TurnedWritten DEF Standing
<1>7. w.op = "APPROVE" => w.id # 0
  BY <1>1 DEF IdInv, WellFormed
<1> QED
  BY <1>2, <1>5, <1>6, <1>7

LEMMA SaveAccountKeepsIds ==
    ASSUME NEW s, Ids(s)!PeopleNamed, IdInv(s), NEW r \in s.requests, Ids(s)!SaveAccount(r)
    PROVE  IdInv(s)'
<1>a. IdRows(s) /\ counter \in 1..s.maxId + 1 /\ waiting \subseteq s.people
  BY DEF IdInv
<1>1. PICK w \in Pending(s) : w = pend[r]
  BY DEF IdInv
<1>2. /\ w.op = "REGISTER" /\ w.who \in s.people /\ w.id \in IdsOrNone(s)
      /\ w.role \in {"AFFILIATE", "NON_AFFILIATE"} /\ (w.role = "AFFILIATE" => w.id # 0)
  BY <1>1 DEF Ids!SaveAccount, IdInv, WellFormed, Pending
<1>3. /\ role[w.who] = "ABSENT" /\ Ids(s)!Write(w.who, w.id, w.role) /\ UNCHANGED <<counter, waiting>>
  BY <1>1 DEF Ids!SaveAccount, Ids!Exists
<1>4. Ids(s)!RowFree(r, w.who)
  BY <1>3 DEF IdInv, RowStands, Ids!RowFree
<1>5. Turned(s, r)
  <2>1. CASE Ids(s)!End(r)
    BY <2>1, EndTurns
  <2>2. CASE pend' = [pend EXCEPT ![r].op = "REGISTERED"]
    <3>1. /\ pend'[r] = [w EXCEPT !.op = "REGISTERED"] /\ pend'[r] \in Pending(s)
          /\ pend' \in [s.requests -> Pending(s)] /\ \A q \in s.requests \ {r} : pend'[q] = pend[q]
      BY <1>1, <1>2, <2>2 DEF IdInv, Pending, Ids!Unlocked
    <3>2. pend'[r].op = "REGISTERED" /\ pend'[r].who \in s.people
      BY <1>2, <3>1 DEF Pending
    <3> QED
      BY <3>1, <3>2 DEF Turned, WellFormed, Ids!RowLocking
  <2> QED
    BY <2>1, <2>2 DEF Ids!SaveAccount
<1> QED
  BY <1>a, <1>2, <1>3, <1>4, <1>5, TurnedWritten DEF Standing

\* What only moves the request itself.
LEMMA MovesKeepIds ==
    ASSUME NEW s, Ids(s)!PeopleNamed, IdInv(s), NEW r \in s.requests,
           Ids(s)!FindKept(r) \/ Ids(s)!TakeNumber(r) \/ Ids(s)!FindMade(r) \/ Ids(s)!RollBack(r)
    PROVE  IdInv(s)'
<1> DEFINE Goal == Turned(s, r)
<1>a. UNCHANGED <<id, role, hold, retired, counter, waiting>>
  BY DEF Ids!FindKept, Ids!TakeNumber, Ids!FindMade, Ids!RollBack
<1>1. PICK w \in Pending(s) : w = pend[r]
  BY DEF IdInv
<1>2. ASSUME NEW v \in Pending(s), pend' = [pend EXCEPT ![r] = v], WellFormed(s, v),
             v.op \notin Ids(s)!RowLocking \cup {"RESERVE", "RESERVE_NEXT"}
      PROVE  Goal
  BY <1>2 DEF Turned, IdInv
<1>3. ASSUME Ids(s)!FindKept(r) PROVE Goal
  <2>1. PICK x \in IdsOrNone(s) :
           \/ Ids(s)!End(r)
           \/ x # 0 /\ pend' = [pend EXCEPT ![r] = [op |-> "ATTACH", who |-> w.who, id |-> x, role |-> "AS_IT_IS"]]
    BY <1>1, <1>3, KeptForIsIds DEF Ids!FindKept, Ids!None, Ids!AsItIs
  <2>2. w.who \in s.people
    BY <1>1, <1>3 DEF Ids!FindKept, IdInv, WellFormed
  <2>3. PICK v : v = [op |-> "ATTACH", who |-> w.who, id |-> x, role |-> "AS_IT_IS"]
    OBVIOUS
  <2>4. x # 0 => v \in Pending(s) /\ WellFormed(s, v)
    BY <2>2, <2>3 DEF Pending, WellFormed, Ids!Unlocked
  <2>5. v.op = "ATTACH"
    BY <2>3
  <2> QED
    BY <1>2, <2>1, <2>3, <2>4, <2>5, EndTurns DEF Ids!RowLocking
<1>4. ASSUME Ids(s)!TakeNumber(r) PROVE Goal
  <2>1. w.op = "UPSERT" /\ w.who \in s.people /\ w.id \in IdsOrNone(s)
    BY <1>1, <1>4 DEF Ids!TakeNumber, IdInv, WellFormed, Pending
  <2>2. \/ w.id # 0 /\ pend' = [pend EXCEPT ![r].op = "UPSERT_GIVEN"]
        \/ /\ pend' = [pend EXCEPT ![r].op = "UPSERT_NEXT", ![r].id = Ids(s)!NextId]
           /\ Ids(s)!NextId \in IdsOrNone(s) /\ Ids(s)!NextId # 0
    BY <1>1, <1>4, NextIdIsFree DEF Ids!TakeNumber, Ids!None
  <2>3. w \in [op : Ids(s)!RowLocking \cup Ids(s)!Numbering \cup Ids(s)!Unlocked, who : s.people \cup {"ANYONE"},
               id : IdsOrNone(s), role : {"AFFILIATE", "NON_AFFILIATE", "AS_IT_IS"}]
    BY <2>1 DEF Pending
  <2>4. ASSUME NEW op \in {"UPSERT_GIVEN", "UPSERT_NEXT"}, NEW y \in IdsOrNone(s) \ {0},
               pend' = [pend EXCEPT ![r] = [w EXCEPT !.op = op, !.id = y]]
        PROVE  Goal
    <3>1. PICK v : v = [w EXCEPT !.op = op, !.id = y]
      OBVIOUS
    <3>2. op \in Ids(s)!Numbering
      BY DEF Ids!Numbering
    <3>3. v.op = op /\ v.who = w.who /\ v.id = y /\ v \in Pending(s)
      BY <2>3, <3>1, <3>2 DEF Pending
    <3> QED
      BY <1>2, <2>1, <2>4, <3>1, <3>3 DEF WellFormed, Ids!RowLocking
  <2>5. ASSUME w.id # 0 /\ pend' = [pend EXCEPT ![r].op = "UPSERT_GIVEN"] PROVE Goal
    <3>1. [w EXCEPT !.op = "UPSERT_GIVEN"] = [w EXCEPT !.op = "UPSERT_GIVEN", !.id = w.id]
      BY <2>3
    <3> QED
      BY <1>1, <2>1, <2>4, <2>5, <3>1
  <2>6. ASSUME /\ pend' = [pend EXCEPT ![r].op = "UPSERT_NEXT", ![r].id = Ids(s)!NextId]
             /\ Ids(s)!NextId \in IdsOrNone(s) /\ Ids(s)!NextId # 0
        PROVE  Goal
    <3>1. pend' = [pend EXCEPT ![r] = [w EXCEPT !.op = "UPSERT_NEXT", !.id = Ids(s)!NextId]]
      BY <1>1, <2>6
    <3> QED
      BY <2>4, <2>6, <3>1
  <2> QED
    BY <2>2, <2>5, <2>6
<1>5. ASSUME Ids(s)!FindMade(r) PROVE Goal
  <2>1. w.who \in s.people /\ w.id \in IdsOrNone(s)
    BY <1>1, <1>5 DEF Ids!FindMade, IdInv, WellFormed, Pending
  <2>2. PICK x \in IdsOrNone(s) :
           \/ Ids(s)!End(r)
           \/ pend' = [pend EXCEPT ![r] = [op |-> "UPSERT", who |-> w.who, role |-> "AS_IT_IS", id |-> x]]
    BY <1>1, <1>5, <2>1 DEF Ids!FindMade, Ids!None, Ids!AsItIs, IdsOrNone
  <2>3. PICK v : v = [op |-> "UPSERT", who |-> w.who, role |-> "AS_IT_IS", id |-> x]
    OBVIOUS
  <2>4. v \in Pending(s) /\ WellFormed(s, v) /\ v.op = "UPSERT"
    BY <2>1, <2>3 DEF Pending, WellFormed, Ids!Unlocked
  <2> QED
    BY <1>2, <2>2, <2>3, <2>4, EndTurns DEF Ids!RowLocking
<1>6. ASSUME Ids(s)!RollBack(r) PROVE Goal
  BY <1>6, EndTurns DEF Ids!RollBack
<1>7. IdRows(s)' /\ counter' \in 1..s.maxId + 1 /\ waiting' \subseteq s.people
  BY <1>a, RowsStay DEF IdInv
<1> HIDE DEF Goal
<1>8. Goal
  BY <1>3, <1>4, <1>5, <1>6
<1> QED
  BY <1>a, <1>7, <1>8, TurnedUnwritten DEF Goal

LEMMA GoOnKeepsIds ==
    ASSUME NEW s, Ids(s)!PeopleNamed, IdInv(s), NEW r \in s.requests, Ids(s)!GoOn(r)
    PROVE  IdInv(s)'
BY SaveMemberKeepsIds, SaveNumberKeepsIds, SaveReservationKeepsIds, SaveLockedKeepsIds, SaveAccountKeepsIds,
   MovesKeepIds DEF Ids!GoOn

LEMMA IdInitHolds ==
    ASSUME NEW s, Ids(s)!PeopleNamed, Ids(s)!Init
    PROVE  IdInv(s)
BY DEF Ids!Init, Ids!PeopleNamed, IdInv, IdRows, Ids!None, Ids!Nobody, Ids!Ids, Ids!Idle, IdsUpTo, IdsOrNone,
       Pending, Standing, Ids!AffiliatesHaveIds, Ids!KeptIdsAreFree, WellFormed, RowStands, NumberStands,
       Ids!RowLocking

LEMMA IdStep ==
    ASSUME NEW s, Ids(s)!PeopleNamed, IdInv(s), Ids(s)!Next
    PROVE  IdInv(s)'
BY RegistryKeepsIds, MembershipKeepsIds, DoorsKeepIds, GoOnKeepsIds DEF Ids!Next

-----------------------------------------------------------------------------
(* Reconciliation, over the club ids.                                      *)

\* A line that is acted on has a request that will write what it says.
LineStands(s, q) ==
    acting[q].how # "NOTHING" =>
        /\ sheet # <<>>
        /\ acting[q].how = "LINKED" => pend[q].op = "ASSIGN"
        /\ acting[q].how = "USED_SHEET" => pend[q].op = "REPLACE"
        /\ acting[q].how = "INVITED" => pend[q].op = "RESERVE"
        /\ pend[q].who = sheet[acting[q].line].email
        /\ pend[q].id = sheet[acting[q].line].id

ActingRow(s) == {[how |-> "NOTHING"]} \cup [line : s.lines, how : {"LINKED", "USED_SHEET", "INVITED"}]

SheetInv(s) ==
    /\ IdInv(s)
    /\ sheet \in {<<>>} \cup [s.lines -> Sheet(s)!Says]
    /\ outcome \in [s.lines -> Sheet(s)!Outcomes]
    /\ resolution \in [s.lines -> {"PENDING", "LINKED", "USED_SHEET", "INVITED"} \cup Sheet(s)!Verdicts]
    /\ invited \subseteq s.lines /\ batch \subseteq s.lines
    /\ batch # {} => sheet # <<>>
    /\ acting \in [s.requests -> ActingRow(s)]
    /\ \A q \in s.requests : LineStands(s, q)

\* The instance of Reconciliation has club ids of its own: they are the same.
LEMMA SameNames ==
    ASSUME NEW s
    PROVE  /\ Sheet(s)!Ids = Ids(s)!Ids /\ Sheet(s)!None = Ids(s)!None /\ Sheet(s)!Nobody = Ids(s)!Nobody
           /\ Sheet(s)!Anyone = Ids(s)!Anyone /\ Sheet(s)!AsItIs = Ids(s)!AsItIs /\ Sheet(s)!Idle = Ids(s)!Idle
           /\ Sheet(s)!Roles = Ids(s)!Roles /\ Sheet(s)!RowLocking = Ids(s)!RowLocking
           /\ Sheet(s)!Numbering = Ids(s)!Numbering /\ Sheet(s)!Unlocked = Ids(s)!Unlocked
           /\ (Sheet(s)!OneAtATime <=> Ids(s)!OneAtATime)
BY DEF Sheet!Ids, Ids!Ids, Sheet!None, Ids!None, Sheet!Nobody, Ids!Nobody, Sheet!Anyone, Ids!Anyone,
       Sheet!AsItIs, Ids!AsItIs, Sheet!Idle, Ids!Idle, Sheet!Roles, Ids!Roles, Sheet!RowLocking, Ids!RowLocking,
       Sheet!Numbering, Ids!Numbering, Sheet!Unlocked, Ids!Unlocked, Sheet!OneAtATime, Ids!OneAtATime

LEMMA SameReads ==
    ASSUME NEW s
    PROVE  /\ Sheet(s)!Free = Ids(s)!Free /\ Sheet(s)!NextId = Ids(s)!NextId
           /\ \A x, p, b : Sheet(s)!Available(x, p, b) <=> Ids(s)!Available(x, p, b)
           /\ \A p : Sheet(s)!KeptFor(p) = Ids(s)!KeptFor(p)
           /\ \A r, p : Sheet(s)!RowFree(r, p) <=> Ids(s)!RowFree(r, p)
           /\ \A r : Sheet(s)!CounterFree(r) <=> Ids(s)!CounterFree(r)
           /\ \A x : Sheet(s)!Upserted(x) = Ids(s)!Upserted(x)
BY DEF Sheet!Free, Ids!Free, Sheet!NextId, Ids!NextId, Sheet!Min, Ids!Min, Sheet!Available, Ids!Available,
       Sheet!Ids, Ids!Ids, Sheet!Anyone, Ids!Anyone, Sheet!Nobody, Ids!Nobody, Sheet!KeptFor, Ids!KeptFor,
       Sheet!Held, Ids!Held, Sheet!RowFree, Ids!RowFree, Sheet!RowLocking, Ids!RowLocking,
       Sheet!CounterFree, Ids!CounterFree, Sheet!Numbering, Ids!Numbering, Sheet!Upserted, Ids!Upserted

LEMMA SameWrites ==
    ASSUME NEW s
    PROVE  /\ \A p, x, ro : Sheet(s)!Write(p, x, ro) <=> Ids(s)!Write(p, x, ro)
           /\ \A r, op, p, x, ro : Sheet(s)!Begin(r, op, p, x, ro) <=> Ids(s)!Begin(r, op, p, x, ro)
           /\ \A r : Sheet(s)!End(r) <=> Ids(s)!End(r)
           /\ \A r : Sheet(s)!AtOnce(r) <=> Ids(s)!AtOnce(r)
BY DEF Sheet!Write, Ids!Write, Sheet!Claimed, Ids!Claimed, Sheet!Retire, Ids!Retire,
       Sheet!None, Ids!None, Sheet!Nobody, Ids!Nobody, Sheet!Begin, Ids!Begin, Sheet!Idle, Ids!Idle,
       Sheet!End, Ids!End, Sheet!AtOnce, Ids!AtOnce

LEMMA SameBegins ==
    ASSUME NEW s
    PROVE  /\ \A r, p, x, b : Sheet(s)!BeginAssign(r, p, x, b) <=> Ids(s)!BeginAssign(r, p, x, b)
           /\ \A r, p, x : Sheet(s)!BeginReplace(r, p, x) <=> Ids(s)!BeginReplace(r, p, x)
           /\ \A r, e, x : Sheet(s)!BeginReserve(r, e, x) <=> Ids(s)!BeginReserve(r, e, x)
<1>1. \A r, p, x, b : Sheet(s)!BeginAssign(r, p, x, b) <=> Ids(s)!BeginAssign(r, p, x, b)
  BY SameNames, SameReads, SameWrites DEF Sheet!BeginAssign, Ids!BeginAssign, Sheet!Exists, Ids!Exists
<1>2. \A r, p, x : Sheet(s)!BeginReplace(r, p, x) <=> Ids(s)!BeginReplace(r, p, x)
  BY SameNames, SameReads, SameWrites DEF Sheet!BeginReplace, Ids!BeginReplace, Sheet!Exists, Ids!Exists
<1>3. \A r, e, x : Sheet(s)!BeginReserve(r, e, x) <=> Ids(s)!BeginReserve(r, e, x)
  BY SameNames, SameReads, SameWrites DEF Sheet!BeginReserve, Ids!BeginReserve
<1> QED
  BY <1>1, <1>2, <1>3

LEMMA SameRegistry ==
    ASSUME NEW s, NEW r
    PROVE  /\ Sheet(s)!Registry(r) <=> Ids(s)!Registry(r)
           /\ Sheet(s)!Registration(r) <=> Ids(s)!Registration(r)
<1> USE SameNames, SameReads, SameWrites
<1>1. \A p : Sheet(s)!BeginAllocate(r, p) <=> Ids(s)!BeginAllocate(r, p)
  BY DEF Sheet!BeginAllocate, Ids!BeginAllocate, Sheet!Exists, Ids!Exists
<1>2. \A p : Sheet(s)!Clear(r, p) <=> Ids(s)!Clear(r, p)
  BY DEF Sheet!Clear, Ids!Clear, Sheet!WithoutId, Ids!WithoutId
<1>3. \A p, q : Sheet(s)!Reassign(r, p, q) <=> Ids(s)!Reassign(r, p, q)
  BY DEF Sheet!Reassign, Ids!Reassign, Sheet!WithoutId, Ids!WithoutId, Sheet!Exists, Ids!Exists,
         Sheet!Claimed, Ids!Claimed
<1>4. \A x : Sheet(s)!Release(r, x) <=> Ids(s)!Release(r, x)
  BY DEF Sheet!Release, Ids!Release
<1>5. \A n : Sheet(s)!SetCounter(r, n) <=> Ids(s)!SetCounter(r, n)
  BY DEF Sheet!SetCounter, Ids!SetCounter, Sheet!Held, Ids!Held
<1>6. ASSUME NEW p, NEW x, NEW ro
      PROVE  Sheet(s)!BeginRegister(r, p, x, ro) <=> Ids(s)!BeginRegister(r, p, x, ro)
  <2>1. Sheet(s)!Available(x, p, TRUE) <=> Ids(s)!Available(x, p, TRUE)
    OBVIOUS
  <2>2. Sheet(s)!Begin(r, "REGISTER", p, x, ro) <=> Ids(s)!Begin(r, "REGISTER", p, x, ro)
    OBVIOUS
  <2> QED
    BY <2>1, <2>2 DEF Sheet!BeginRegister, Ids!BeginRegister, Sheet!Exists, Ids!Exists
<1>7. Sheet(s)!Registry(r) <=> Ids(s)!Registry(r)
  BY <1>1, <1>2, <1>3, <1>4, <1>5, SameBegins DEF Sheet!Registry, Ids!Registry
<1> QED
  BY <1>6, <1>7 DEF Sheet!Registration, Ids!Registration

LEMMA SameGoOn ==
    ASSUME NEW s, NEW r
    PROVE  /\ Sheet(s)!SaveMember(r) <=> Ids(s)!SaveMember(r)
           /\ Sheet(s)!SaveReservation(r) <=> Ids(s)!SaveReservation(r)
           /\ Sheet(s)!RollBack(r) <=> Ids(s)!RollBack(r)
           /\ Sheet(s)!GoOn(r) <=> Ids(s)!GoOn(r)
<1> USE SameNames, SameReads, SameWrites
<1>1. Sheet(s)!SaveMember(r) <=> Ids(s)!SaveMember(r)
  BY DEF Sheet!SaveMember, Ids!SaveMember
<1>2. Sheet(s)!SaveReservation(r) <=> Ids(s)!SaveReservation(r)
  BY DEF Sheet!SaveReservation, Ids!SaveReservation
<1>3. Sheet(s)!RollBack(r) <=> Ids(s)!RollBack(r)
  BY DEF Sheet!RollBack, Ids!RollBack
<1>4. Sheet(s)!SaveAccount(r) <=> Ids(s)!SaveAccount(r)
  BY DEF Sheet!SaveAccount, Ids!SaveAccount, Sheet!Exists, Ids!Exists
<1>5. Sheet(s)!FindKept(r) <=> Ids(s)!FindKept(r)
  BY DEF Sheet!FindKept, Ids!FindKept, Sheet!OrNone, Ids!OrNone
<1>6. Sheet(s)!TakeNumber(r) <=> Ids(s)!TakeNumber(r)
  BY DEF Sheet!TakeNumber, Ids!TakeNumber
<1>7. Sheet(s)!FindMade(r) <=> Ids(s)!FindMade(r)
  BY DEF Sheet!FindMade, Ids!FindMade, Sheet!Exists, Ids!Exists
<1>8. Sheet(s)!SaveNumber(r) <=> Ids(s)!SaveNumber(r)
  BY DEF Sheet!SaveNumber, Ids!SaveNumber, Sheet!Exists, Ids!Exists
<1>9. Sheet(s)!SaveJoin(r) <=> Ids(s)!SaveJoin(r)
  BY DEF Sheet!SaveJoin, Ids!SaveJoin
<1>10. Sheet(s)!SaveApproval(r) <=> Ids(s)!SaveApproval(r)
  BY DEF Sheet!SaveApproval, Ids!SaveApproval
<1> QED
  BY <1>1, <1>2, <1>3, <1>4, <1>5, <1>6, <1>7, <1>8, <1>9, <1>10 DEF Sheet!GoOn, Ids!GoOn

\* Only an idle request begins, and it moves itself alone.
LEMMA BeginsIdle ==
    ASSUME NEW s, IdInv(s), NEW r \in s.requests, Ids(s)!Registry(r) \/ Ids(s)!Registration(r)
    PROVE  pend[r].op = "IDLE" /\ \A q \in s.requests \ {r} : pend'[q] = pend[q]
<1>1. ASSUME NEW op, NEW p, NEW x, NEW ro, Ids(s)!Begin(r, op, p, x, ro)
      PROVE  pend[r].op = "IDLE" /\ \A q \in s.requests \ {r} : pend'[q] = pend[q]
  BY <1>1 DEF Ids!Begin, Ids!Idle, IdInv
<1>2. ASSUME Ids(s)!AtOnce(r)
      PROVE  pend[r].op = "IDLE" /\ \A q \in s.requests \ {r} : pend'[q] = pend[q]
  BY <1>2 DEF Ids!AtOnce, Ids!Idle
<1> QED
  BY <1>1, <1>2 DEF Ids!Registry, Ids!Registration, Ids!BeginAllocate, Ids!Clear, Ids!BeginReplace,
     Ids!BeginAssign, Ids!Reassign, Ids!BeginReserve, Ids!Release, Ids!SetCounter, Ids!BeginRegister

LEMMA GoesOnAlone ==
    ASSUME NEW s, IdInv(s), NEW r \in s.requests, Ids(s)!GoOn(r)
    PROVE  \A q \in s.requests \ {r} : pend'[q] = pend[q]
BY DEF IdInv, Ids!GoOn, Ids!SaveAccount, Ids!FindKept, Ids!TakeNumber, Ids!FindMade, Ids!SaveMember,
       Ids!SaveNumber, Ids!SaveReservation, Ids!SaveJoin, Ids!SaveApproval, Ids!RollBack, Ids!End

\* What a line comes to says what is known of its address and its id.
LEMMA ClassifyTypes ==
    ASSUME NEW s, NEW e, NEW x
    PROVE  Sheet(s)!Classify(e, x) \in Sheet(s)!Outcomes
BY DEF Sheet!Classify, Sheet!Compared, Sheet!Unheld, Sheet!Outcomes

LEMMA RereadTypes ==
    ASSUME NEW s, NEW r
    PROVE  Sheet(s)!Reread(r)' \in Sheet(s)!Outcomes
BY DEF Sheet!Reread, Sheet!Classify, Sheet!Compared, Sheet!Unheld, Sheet!Outcomes

LEMMA NowTypes ==
    ASSUME NEW s, NEW r
    PROVE  Sheet(s)!Now(r) \in Sheet(s)!Outcomes
BY DEF Sheet!Now, Sheet!Reread, Sheet!Classify, Sheet!Compared, Sheet!Unheld, Sheet!Outcomes

LEMMA ActedOnHasBoth ==
    ASSUME NEW s, NEW r, Sheet(s)!Now(r) \in {"ID_MISSING_IN_APP", "ID_RETIRED", "ID_MISMATCH"}
    PROVE  sheet[r].email # Sheet(s)!NoEmail /\ sheet[r].id # 0
BY DEF Sheet!Now, Sheet!Reread, Sheet!Classify, Sheet!Compared, Sheet!Unheld, Sheet!None

LEMMA NoAccountHasId ==
    ASSUME NEW s, NEW r, Sheet(s)!Now(r) = "NO_ACCOUNT"
    PROVE  sheet[r].id # 0
BY DEF Sheet!Now, Sheet!Reread, Sheet!Classify, Sheet!Compared, Sheet!Unheld, Sheet!None

LEMMA LineSays ==
    ASSUME NEW s, SheetInv(s), sheet # <<>>, NEW r \in s.lines
    PROVE  sheet[r].email \in s.people \cup {Sheet(s)!NoEmail} /\ sheet[r].id \in IdsOrNone(s)
BY DEF SheetInv, Sheet!Says, Sheet!Ids, Sheet!None, IdsUpTo, IdsOrNone

LEMMA SamePeople ==
    ASSUME NEW s, Sheet(s)!PeopleNamed, SheetInv(s)
    PROVE  Ids(s)!PeopleNamed /\ IdInv(s)
BY SameNames DEF Sheet!PeopleNamed, Ids!PeopleNamed, SheetInv

\* A line that is followed ends with its person holding, or being kept, what
\* was nobody else's.
Gained(s, r) ==
    LET e == sheet[r].email  x == sheet[r].id
    IN  /\ resolution'[r] \in {"LINKED", "USED_SHEET"} =>
              /\ id'[e] = x /\ hold'[x] = "NOBODY" /\ (\A p \in s.people : id[p] # x)
              /\ Ids(s)!OneAtATime => hold[x] \in {"NOBODY", e}
        /\ resolution'[r] = "INVITED" => hold'[x] = e

Followed(s) == \A r \in s.lines : resolution'[r] # resolution[r] => Gained(s, r)

LEMMA FollowedTakesFromNobody ==
    ASSUME NEW s, Followed(s)
    PROVE  Sheet(s)!TakesFromNobody
BY SameNames DEF Followed, Gained, Sheet!TakesFromNobody, Ids!Nobody, Sheet!Held

\* What an action leaves of the sheet when it has given or kept an id.
LEMMA DoneKeepsTypes ==
    ASSUME NEW s, SheetInv(s), NEW r \in s.lines,
           NEW how \in {"PENDING", "LINKED", "USED_SHEET", "INVITED"} \cup Sheet(s)!Verdicts,
           Sheet(s)!Done(r, how)
    PROVE  /\ outcome' \in [s.lines -> Sheet(s)!Outcomes]
           /\ resolution' \in [s.lines -> {"PENDING", "LINKED", "USED_SHEET", "INVITED"} \cup Sheet(s)!Verdicts]
           /\ sheet' = sheet /\ resolution'[r] = how
           /\ \A q \in s.lines : resolution'[q] # resolution[q] => q = r
<1>1. Sheet(s)!Reread(r)' \in Sheet(s)!Outcomes
  BY RereadTypes
<1> DEFINE now == Sheet(s)!Reread(r)'
<1>2. outcome' = [outcome EXCEPT ![r] = IF outcome[r] = "DUPLICATE" THEN outcome[r] ELSE now]
  BY DEF Sheet!Done
<1>3. now \in Sheet(s)!Outcomes
  BY <1>1
<1> HIDE DEF now
<1>4. outcome' \in [s.lines -> Sheet(s)!Outcomes]
  BY <1>2, <1>3 DEF SheetInv
<1> QED
  BY <1>4 DEF SheetInv, Sheet!Done

\* The requests that act on lines go on while others read, act and decide.
LEMMA LinesStand ==
    ASSUME NEW s, SheetInv(s), NEW q \in s.requests,
           sheet' = sheet, \A p \in s.requests \ {q} : pend'[p] = pend[p] /\ acting'[p] = acting[p],
           LineStands(s, q)'
    PROVE  \A p \in s.requests : LineStands(s, p)'
<1>1. ASSUME NEW p \in s.requests, p # q PROVE LineStands(s, p)'
  BY <1>1 DEF SheetInv, LineStands
<1> QED
  BY <1>1

LEMMA LinesKept ==
    ASSUME NEW s, SheetInv(s), UNCHANGED <<sheet, pend, acting>>
    PROVE  \A p \in s.requests : LineStands(s, p)'
BY DEF SheetInv, LineStands

\* What changes the sheet alone, and follows no line.
LEMMA ReadingKeepsSheet ==
    ASSUME NEW s, SheetInv(s), UNCHANGED <<id, role, hold, retired, counter, waiting, pend, acting>>,
           sheet' \in {<<>>} \cup [s.lines -> Sheet(s)!Says],
           sheet' = sheet \/ \A q \in s.requests : acting[q].how = "NOTHING",
           outcome' \in [s.lines -> Sheet(s)!Outcomes],
           resolution' = resolution \/ resolution' = [r \in s.lines |-> "PENDING"],
           invited' \subseteq s.lines, batch' \subseteq s.lines, batch' # {} => sheet' # <<>>
    PROVE  SheetInv(s)' /\ Followed(s)
<1>1. IdInv(s)'
  BY IdStutter DEF SheetInv
<1>2. Followed(s)
  BY DEF Followed, Gained, SheetInv
<1>3. \A q \in s.requests : LineStands(s, q)'
  BY LinesKept DEF LineStands
<1> QED
  BY <1>1, <1>2, <1>3 DEF SheetInv, ActingRow, Sheet!Says, Sheet!Outcomes, Sheet!Verdicts

LEMMA RecheckKeepsSheet ==
    ASSUME NEW s, SheetInv(s), NEW rows, Sheet(s)!Recheck(rows)
    PROVE  SheetInv(s)' /\ Followed(s)
<1>1. outcome' \in [s.lines -> Sheet(s)!Outcomes]
  BY NowTypes DEF Sheet!Recheck, SheetInv
<1> QED
  BY <1>1, ReadingKeepsSheet DEF Sheet!Recheck, Sheet!idVars, Sheet!vars, SheetInv

LEMMA RunKeepsSheet ==
    ASSUME NEW s, SheetInv(s), NEW q \in s.requests, Sheet(s)!Run(q)
    PROVE  SheetInv(s)' /\ Followed(s)
<1> DEFINE Goal == SheetInv(s)' /\ Followed(s)
<1>1. ASSUME NEW f \in [s.lines -> Sheet(s)!Says], Sheet(s)!CreateRun(f) PROVE Goal
  <2>1. outcome' \in [s.lines -> Sheet(s)!Outcomes]
    <3>1. "DUPLICATE" \in Sheet(s)!Outcomes
      BY DEF Sheet!Outcomes
    <3> QED
      BY <1>1, <3>1, ClassifyTypes DEF Sheet!CreateRun
  <2>2. \A p \in s.requests : acting[p].how = "NOTHING"
    BY <1>1 DEF SheetInv, LineStands, Sheet!CreateRun, Sheet!NoSheet
  <2> QED
    BY <1>1, <2>1, <2>2, ReadingKeepsSheet DEF Sheet!CreateRun, Sheet!idVars, Sheet!vars, Sheet!Undecided
<1>2. ASSUME Sheet(s)!DeleteRun PROVE Goal
  <2>1. outcome' \in [s.lines -> Sheet(s)!Outcomes]
    BY <1>2 DEF Sheet!DeleteRun, Sheet!Unread, Sheet!Outcomes
  <2>2. \A p \in s.requests : acting[p].how = "NOTHING"
    BY <1>2 DEF SheetInv, ActingRow, Sheet!DeleteRun, Sheet!LineFree, Sheet!NoLine
  <2> QED
    BY <1>2, <2>1, <2>2, ReadingKeepsSheet
       DEF Sheet!DeleteRun, Sheet!idVars, Sheet!vars, Sheet!Undecided, Sheet!NoSheet
<1>3. ASSUME NEW rows, Sheet(s)!Recheck(rows) PROVE Goal
  BY <1>3, RecheckKeepsSheet
<1> HIDE DEF Goal
<1>4. Goal
  BY <1>1, <1>2, <1>3 DEF Sheet!Run
<1> QED
  BY <1>4 DEF Goal

\* An action on a line begins.
LEMMA BegunOnLine ==
    ASSUME NEW s, Ids(s)!PeopleNamed, SheetInv(s), sheet # <<>>, NEW q \in s.requests, NEW r \in s.lines,
           NEW how \in {"LINKED", "USED_SHEET", "INVITED"}, Sheet(s)!Lock(q, r, how), batch' \subseteq batch,
           NEW op \in {"ASSIGN", "REPLACE", "RESERVE"},
           how = "LINKED" => op = "ASSIGN", how = "USED_SHEET" => op = "REPLACE",
           how = "INVITED" => op = "RESERVE",
           Ids(s)!Begin(q, op, sheet[r].email, sheet[r].id, "AS_IT_IS"), IdInv(s)'
    PROVE  SheetInv(s)' /\ Followed(s)
<1>1. /\ acting' = [acting EXCEPT ![q] = [line |-> r, how |-> how]]
      /\ pend' = [pend EXCEPT ![q] = [op |-> op, who |-> sheet[r].email, id |-> sheet[r].id, role |-> "AS_IT_IS"]]
      /\ UNCHANGED <<sheet, outcome, resolution, invited>>
  BY DEF Sheet!Lock, Ids!Begin
<1>2. /\ acting' \in [s.requests -> ActingRow(s)] /\ acting'[q] = [line |-> r, how |-> how]
      /\ \A p \in s.requests \ {q} : acting'[p] = acting[p]
  BY <1>1 DEF SheetInv, ActingRow
<1>3. /\ pend'[q] = [op |-> op, who |-> sheet[r].email, id |-> sheet[r].id, role |-> "AS_IT_IS"]
      /\ \A p \in s.requests \ {q} : pend'[p] = pend[p]
  BY <1>1 DEF SheetInv, IdInv
<1>4. LineStands(s, q)'
  BY <1>1, <1>2, <1>3 DEF LineStands
<1>5. \A p \in s.requests : LineStands(s, p)'
  BY <1>1, <1>2, <1>3, <1>4, LinesStand
<1>6. Followed(s)
  BY <1>1 DEF Followed
<1> QED
  BY <1>1, <1>2, <1>5, <1>6 DEF SheetInv, ActingRow, Sheet!Says, Sheet!Outcomes, Sheet!Verdicts

LEMMA LinkBegins ==
    ASSUME NEW s, Ids(s)!PeopleNamed, SheetInv(s), sheet # <<>>, NEW q \in s.requests, NEW r \in s.lines,
           NEW b \in BOOLEAN, Sheet(s)!BeginLink(q, r, b), batch' \subseteq batch
    PROVE  SheetInv(s)' /\ Followed(s)
<1>1. Sheet(s)!Now(r) \in {"ID_MISSING_IN_APP", "ID_RETIRED"}
  BY DEF Sheet!BeginLink
<1>2. sheet[r].email \in s.people /\ sheet[r].id \in IdsUpTo(s)
  BY <1>1, ActedOnHasBoth, LineSays DEF IdsOrNone
<1>3. Ids(s)!BeginAssign(q, sheet[r].email, sheet[r].id, b)
  BY SameBegins DEF Sheet!BeginLink
<1>4. IdInv(s)'
  <2>1. Ids(s)!Registry(q)
    BY <1>2, <1>3 DEF Ids!Registry, Ids!Ids, IdsUpTo
  <2> QED
    BY <2>1, RegistryKeepsIds DEF SheetInv
<1>5. Ids(s)!Begin(q, "ASSIGN", sheet[r].email, sheet[r].id, "AS_IT_IS") /\ Sheet(s)!Lock(q, r, "LINKED")
  BY <1>3 DEF Ids!BeginAssign, Ids!AsItIs, Sheet!BeginLink
<1> QED
  BY <1>4, <1>5, BegunOnLine

LEMMA UseBegins ==
    ASSUME NEW s, Ids(s)!PeopleNamed, SheetInv(s), sheet # <<>>, NEW q \in s.requests, NEW r \in s.lines,
           Sheet(s)!BeginUse(q, r), batch' \subseteq batch
    PROVE  SheetInv(s)' /\ Followed(s)
<1>1. Sheet(s)!Now(r) = "ID_MISMATCH"
  BY DEF Sheet!BeginUse
<1>2. sheet[r].email \in s.people /\ sheet[r].id \in IdsUpTo(s)
  BY <1>1, ActedOnHasBoth, LineSays DEF IdsOrNone
<1>3. Ids(s)!BeginReplace(q, sheet[r].email, sheet[r].id)
  BY SameBegins DEF Sheet!BeginUse
<1>4. IdInv(s)'
  <2>1. Ids(s)!Registry(q)
    BY <1>2, <1>3 DEF Ids!Registry, Ids!Ids, IdsUpTo
  <2> QED
    BY <2>1, RegistryKeepsIds DEF SheetInv
<1>5. Ids(s)!Begin(q, "REPLACE", sheet[r].email, sheet[r].id, "AS_IT_IS") /\ Sheet(s)!Lock(q, r, "USED_SHEET")
  BY <1>3 DEF Ids!BeginReplace, Ids!AsItIs, Sheet!BeginUse
<1> QED
  BY <1>4, <1>5, BegunOnLine

LEMMA InviteBegins ==
    ASSUME NEW s, Ids(s)!PeopleNamed, SheetInv(s), sheet # <<>>, NEW q \in s.requests, NEW r \in s.lines,
           Sheet(s)!BeginInvite(q, r), batch' \subseteq batch
    PROVE  SheetInv(s)' /\ Followed(s)
<1>1. Sheet(s)!Now(r) = "NO_ACCOUNT" /\ sheet[r].email # Sheet(s)!NoEmail
  BY DEF Sheet!BeginInvite, Sheet!MayInvite
<1>2. sheet[r].email \in s.people /\ sheet[r].id \in IdsUpTo(s) /\ sheet[r].id # 0
  BY <1>1, NoAccountHasId, LineSays DEF IdsOrNone
<1>3. Ids(s)!BeginReserve(q, sheet[r].email, sheet[r].id)
  BY SameBegins DEF Sheet!BeginInvite
<1>4. IdInv(s)'
  <2>1. Ids(s)!Registry(q)
    BY <1>2, <1>3 DEF Ids!Registry, Ids!Ids, IdsUpTo
  <2> QED
    BY <2>1, RegistryKeepsIds DEF SheetInv
<1>5. Ids(s)!Begin(q, "RESERVE", sheet[r].email, sheet[r].id, "AS_IT_IS") /\ Sheet(s)!Lock(q, r, "INVITED")
  BY <1>2, <1>3 DEF Ids!BeginReserve, Ids!AsItIs, Ids!None, Sheet!BeginInvite
<1> QED
  BY <1>4, <1>5, BegunOnLine

\* What is decided about a line at once.
LEMMA DecidedKeepsSheet ==
    ASSUME NEW s, SheetInv(s), sheet # <<>>, NEW r \in s.lines, NEW how \in {"INVITED"} \cup Sheet(s)!Verdicts,
           UNCHANGED <<id, role, hold, retired, counter, waiting, pend, acting>>,
           Sheet(s)!Done(r, how), invited' \subseteq s.lines, batch' \subseteq batch,
           how = "INVITED" => hold[sheet[r].id] = sheet[r].email
    PROVE  SheetInv(s)' /\ Followed(s)
<1>1. /\ outcome' \in [s.lines -> Sheet(s)!Outcomes]
      /\ resolution' \in [s.lines -> {"PENDING", "LINKED", "USED_SHEET", "INVITED"} \cup Sheet(s)!Verdicts]
      /\ sheet' = sheet /\ resolution'[r] = how
      /\ \A q \in s.lines : resolution'[q] # resolution[q] => q = r
  BY DoneKeepsTypes
<1>2. Followed(s)
  BY <1>1 DEF Followed, Gained, Sheet!Verdicts
<1>3. IdInv(s)'
  BY IdStutter DEF SheetInv
<1>4. \A p \in s.requests : LineStands(s, p)'
  BY <1>1, LinesKept
<1> QED
  BY <1>1, <1>2, <1>3, <1>4 DEF SheetInv, ActingRow, Sheet!Says, Sheet!Outcomes, Sheet!Verdicts

LEMMA KeptInviteKeepsSheet ==
    ASSUME NEW s, SheetInv(s), sheet # <<>>, NEW q, NEW r \in s.lines, Sheet(s)!InviteKept(q, r),
           batch' \subseteq batch
    PROVE  SheetInv(s)' /\ Followed(s)
<1>1. /\ UNCHANGED <<id, role, hold, retired, counter, waiting, pend, acting>>
      /\ Sheet(s)!Done(r, "INVITED") /\ invited' \subseteq s.lines /\ hold[sheet[r].id] = sheet[r].email
  BY DEF Sheet!InviteKept, Sheet!idVars, Sheet!vars, SheetInv
<1> QED
  BY <1>1, DecidedKeepsSheet

LEMMA ActKeepsSheet ==
    ASSUME NEW s, Ids(s)!PeopleNamed, SheetInv(s), NEW q \in s.requests, NEW r \in s.lines, Sheet(s)!Act(q, r)
    PROVE  SheetInv(s)' /\ Followed(s)
<1> DEFINE Goal == SheetInv(s)' /\ Followed(s)
<1>a. sheet # <<>> /\ batch' \subseteq batch
  BY DEF Sheet!Act, Sheet!NoSheet
<1>1. ASSUME NEW b \in BOOLEAN, Sheet(s)!BeginLink(q, r, b) PROVE Goal
  BY <1>1, <1>a, LinkBegins
<1>2. ASSUME Sheet(s)!BeginUse(q, r) PROVE Goal
  BY <1>2, <1>a, UseBegins
<1>3. ASSUME Sheet(s)!BeginInvite(q, r) PROVE Goal
  BY <1>3, <1>a, InviteBegins
<1>4. ASSUME Sheet(s)!InviteKept(q, r) PROVE Goal
  BY <1>4, <1>a, KeptInviteKeepsSheet
<1>5. ASSUME NEW verdict \in Sheet(s)!Verdicts, Sheet(s)!Decide(q, r, verdict) PROVE Goal
  <2>1. /\ UNCHANGED <<id, role, hold, retired, counter, waiting, pend, acting>>
        /\ Sheet(s)!Done(r, verdict) /\ invited' \subseteq s.lines /\ verdict # "INVITED"
    BY <1>5 DEF Sheet!Decide, Sheet!idVars, Sheet!vars, SheetInv, Sheet!Verdicts
  <2> QED
    BY <1>a, <2>1, DecidedKeepsSheet
<1> HIDE DEF Goal
<1>6. Goal
  BY <1>1, <1>2, <1>3, <1>4, <1>5 DEF Sheet!Act
<1> QED
  BY <1>6 DEF Goal

\* It ends: the id is written as the line says.
LEMMA FinishKeepsSheet ==
    ASSUME NEW s, Ids(s)!PeopleNamed, SheetInv(s), NEW q \in s.requests, NEW r \in s.lines,
           Sheet(s)!FinishLine(q, r)
    PROVE  SheetInv(s)' /\ Followed(s)
<1>1. PICK how \in {"LINKED", "USED_SHEET", "INVITED"} : acting[q].how = how
  BY DEF Sheet!FinishLine, Sheet!NoLine, SheetInv, ActingRow
<1>2. /\ sheet # <<>> /\ pend[q].who = sheet[r].email /\ pend[q].id = sheet[r].id
      /\ how = "LINKED" => pend[q].op = "ASSIGN"
      /\ how = "USED_SHEET" => pend[q].op = "REPLACE"
      /\ how = "INVITED" => pend[q].op = "RESERVE"
  BY <1>1 DEF SheetInv, LineStands, Sheet!FinishLine
<1>3. /\ Sheet(s)!Done(r, how) /\ invited' \subseteq s.lines /\ batch' = batch
      /\ acting' = [acting EXCEPT ![q] = [how |-> "NOTHING"]]
  BY <1>1 DEF Sheet!FinishLine, Sheet!NoLine, SheetInv
<1>4. Ids(s)!SaveMember(q) \/ Ids(s)!SaveReservation(q)
  BY SameGoOn DEF Sheet!FinishLine
<1>5. IdInv(s)' /\ \A p \in s.requests \ {q} : pend'[p] = pend[p]
  BY <1>4, GoOnKeepsIds, GoesOnAlone DEF Ids!GoOn, SheetInv
<1>6. /\ outcome' \in [s.lines -> Sheet(s)!Outcomes]
      /\ resolution' \in [s.lines -> {"PENDING", "LINKED", "USED_SHEET", "INVITED"} \cup Sheet(s)!Verdicts]
      /\ sheet' = sheet /\ resolution'[r] = how
      /\ \A p \in s.lines : resolution'[p] # resolution[p] => p = r
  BY <1>3, DoneKeepsTypes
<1>7. /\ acting' \in [s.requests -> ActingRow(s)] /\ acting'[q] = [how |-> "NOTHING"]
      /\ \A p \in s.requests \ {q} : acting'[p] = acting[p]
  BY <1>3 DEF SheetInv, ActingRow
<1>8. \A p \in s.requests : LineStands(s, p)'
  <2>1. LineStands(s, q)'
    BY <1>7 DEF LineStands
  <2> QED
    BY <1>5, <1>6, <1>7, <2>1, LinesStand
<1>9. Gained(s, r)
  <2> DEFINE e == sheet[r].email
             x == sheet[r].id
  <2>1. CASE how \in {"LINKED", "USED_SHEET"}
    <3>1. pend[q].op \in {"ASSIGN", "REPLACE"}
      BY <1>2, <2>1
    <3>2. e \in s.people /\ x \in IdsOrNone(s) /\ x # 0 /\ id[e] # x
      BY <1>2, <3>1 DEF SheetInv, IdInv, WellFormed, RowStands, Pending, Ids!RowLocking
    <3>3. Ids(s)!OneAtATime => hold[x] \in {"NOBODY", e}
      BY <1>2, <3>1 DEF SheetInv, IdInv, NumberStands
    <3>4. PICK ro : Ids(s)!Write(e, x, ro)
      BY <1>2, <1>4, <3>1 DEF Ids!SaveMember, Ids!SaveReservation
    <3>5. /\ id' = [id EXCEPT ![e] = x] /\ hold' = [hold EXCEPT ![x] = "NOBODY"]
          /\ \A p \in s.people : id[p] # x
      BY <3>2, <3>4 DEF Ids!Write, Ids!Claimed, Ids!None, Ids!Nobody
    <3>6. id'[e] = x /\ hold'[x] = "NOBODY"
      BY <3>2, <3>5 DEF SheetInv, IdInv, IdRows, IdsOrNone
    <3> QED
      BY <1>6, <2>1, <3>3, <3>5, <3>6 DEF Gained
  <2>2. CASE how = "INVITED"
    <3>1. hold' = [hold EXCEPT ![x] = e] /\ x \in IdsUpTo(s)
      BY <1>2, <1>4, <2>2 DEF Ids!SaveMember, Ids!SaveReservation, SheetInv, IdInv, WellFormed, Pending, IdsOrNone
    <3>2. hold'[x] = e
      BY <3>1 DEF SheetInv, IdInv, IdRows
    <3> QED
      BY <1>6, <2>2, <3>2 DEF Gained
  <2> QED
    BY <2>1, <2>2
<1>10. Followed(s)
  BY <1>6, <1>9 DEF Followed
<1> QED
  BY <1>3, <1>5, <1>6, <1>7, <1>8, <1>10 DEF SheetInv, ActingRow, Sheet!Says, Sheet!Outcomes, Sheet!Verdicts

LEMMA RefuseKeepsSheet ==
    ASSUME NEW s, Ids(s)!PeopleNamed, SheetInv(s), NEW q \in s.requests, Sheet(s)!RefuseLine(q)
    PROVE  SheetInv(s)' /\ Followed(s)
<1>1. /\ acting' = [acting EXCEPT ![q] = [how |-> "NOTHING"]]
      /\ UNCHANGED <<sheet, outcome, resolution, invited, batch>>
  BY DEF Sheet!RefuseLine, Sheet!NoLine
<1>2. Ids(s)!RollBack(q)
  BY SameGoOn DEF Sheet!RefuseLine
<1>3. IdInv(s)' /\ \A p \in s.requests \ {q} : pend'[p] = pend[p]
  BY <1>2, GoOnKeepsIds, GoesOnAlone DEF Ids!GoOn, SheetInv
<1>4. /\ acting' \in [s.requests -> ActingRow(s)] /\ acting'[q] = [how |-> "NOTHING"]
      /\ \A p \in s.requests \ {q} : acting'[p] = acting[p]
  BY <1>1 DEF SheetInv, ActingRow
<1>5. LineStands(s, q)'
  BY <1>4 DEF LineStands
<1>6. \A p \in s.requests : LineStands(s, p)'
  BY <1>1, <1>3, <1>4, <1>5, LinesStand
<1>7. Followed(s)
  BY <1>1 DEF Followed
<1> QED
  BY <1>1, <1>3, <1>4, <1>6, <1>7 DEF SheetInv, ActingRow, Sheet!Says, Sheet!Outcomes, Sheet!Verdicts

LEMMA BulkKeepsSheet ==
    ASSUME NEW s, Ids(s)!PeopleNamed, SheetInv(s), NEW q \in s.requests, NEW r \in s.lines,
           Sheet(s)!BulkStep(q, r)
    PROVE  SheetInv(s)' /\ Followed(s)
<1> DEFINE Goal == SheetInv(s)' /\ Followed(s)
<1>a. sheet # <<>> /\ batch' \subseteq batch
  BY DEF Sheet!BulkStep, SheetInv
<1>1. ASSUME Sheet(s)!BeginLink(q, r, FALSE) PROVE Goal
  BY <1>1, <1>a, LinkBegins
<1>2. ASSUME Sheet(s)!BeginInvite(q, r) PROVE Goal
  BY <1>2, <1>a, InviteBegins
<1>3. ASSUME Sheet(s)!InviteKept(q, r) PROVE Goal
  BY <1>3, <1>a, KeptInviteKeepsSheet
<1>4. ASSUME outcome' = [outcome EXCEPT ![r] = Sheet(s)!Now(r)],
             UNCHANGED <<Sheet(s)!idVars, sheet, resolution, invited, acting>>
      PROVE  Goal
  <2>1. outcome' \in [s.lines -> Sheet(s)!Outcomes]
    BY <1>4, NowTypes DEF SheetInv
  <2> QED
    BY <1>a, <1>4, <2>1, ReadingKeepsSheet DEF Sheet!idVars, Sheet!vars, SheetInv
<1> HIDE DEF Goal
<1>5. Goal
  BY <1>1, <1>2, <1>3, <1>4 DEF Sheet!BulkStep
<1> QED
  BY <1>5 DEF Goal

\* What goes on beside the sheet: lines that are acted on are others'.
LEMMA BesideKeepsSheet ==
    ASSUME NEW s, Ids(s)!PeopleNamed, SheetInv(s), NEW q \in s.requests, UNCHANGED Sheet(s)!sheetVars,
           Sheet(s)!Elsewhere(q) \/ (acting[q] = Sheet(s)!NoLine /\ Sheet(s)!GoOn(q))
    PROVE  SheetInv(s)' /\ Followed(s)
<1>1. /\ IdInv(s)' /\ acting[q].how = "NOTHING" /\ \A p \in s.requests \ {q} : pend'[p] = pend[p]
  <2>1. CASE Sheet(s)!Elsewhere(q)
    <3>1. Ids(s)!Registry(q) \/ Ids(s)!Registration(q)
      BY <2>1, SameRegistry DEF Sheet!Elsewhere
    <3>2. IdInv(s)' /\ pend[q].op = "IDLE" /\ \A p \in s.requests \ {q} : pend'[p] = pend[p]
      BY <3>1, RegistryKeepsIds, RegistrationKeepsIds, BeginsIdle DEF SheetInv
    <3>3. acting[q].how = "NOTHING"
      BY <3>2 DEF SheetInv, LineStands, ActingRow
    <3> QED
      BY <3>2, <3>3
  <2>2. CASE acting[q] = Sheet(s)!NoLine /\ Sheet(s)!GoOn(q)
    BY <2>2, SameGoOn, GoOnKeepsIds, GoesOnAlone DEF SheetInv, Sheet!NoLine
  <2> QED
    BY <2>1, <2>2
<1>2. UNCHANGED <<sheet, outcome, resolution, invited, batch, acting>>
  BY DEF Sheet!sheetVars
<1>3. LineStands(s, q)'
  BY <1>1, <1>2 DEF LineStands
<1>4. \A p \in s.requests : LineStands(s, p)'
  BY <1>1, <1>2, <1>3, LinesStand
<1>5. Followed(s)
  BY <1>2 DEF Followed
<1> QED
  BY <1>1, <1>2, <1>4, <1>5 DEF SheetInv, ActingRow, Sheet!Says, Sheet!Outcomes, Sheet!Verdicts

LEMMA SheetStutter ==
    ASSUME NEW s, SheetInv(s), UNCHANGED <<idVars, sheetVars>>
    PROVE  SheetInv(s)' /\ Sheet(s)!TakesFromNobody
<1>1. SheetInv(s)' /\ Followed(s)
  BY ReadingKeepsSheet DEF SheetInv, idVars, sheetVars
<1> QED
  BY <1>1, FollowedTakesFromNobody

LEMMA SheetStep ==
    ASSUME NEW s, Sheet(s)!PeopleNamed, Sheet(s)!LinesNumbered, SheetInv(s), Sheet(s)!ReconNext
    PROVE  SheetInv(s)' /\ Sheet(s)!TakesFromNobody
<1> DEFINE Goal == SheetInv(s)' /\ Followed(s)
<1>a. Ids(s)!PeopleNamed
  BY SamePeople
<1>0. PICK q \in s.requests :
        \/ Sheet(s)!Elsewhere(q) /\ UNCHANGED Sheet(s)!sheetVars
        \/ Sheet(s)!Run(q)
        \/ \E r \in s.lines : Sheet(s)!Act(q, r)
        \/ \E which : Sheet(s)!ListOpen(q, which)
        \/ acting[q] = Sheet(s)!NoLine /\ Sheet(s)!GoOn(q) /\ UNCHANGED Sheet(s)!sheetVars
        \/ Sheet(s)!RefuseLine(q)
        \/ \E r \in s.lines : Sheet(s)!FinishLine(q, r) \/ Sheet(s)!BulkStep(q, r)
  BY DEF Sheet!ReconNext
<1>1. ASSUME UNCHANGED Sheet(s)!sheetVars,
             Sheet(s)!Elsewhere(q) \/ (acting[q] = Sheet(s)!NoLine /\ Sheet(s)!GoOn(q))
      PROVE  Goal
  BY <1>1, <1>a, BesideKeepsSheet
<1>2. ASSUME Sheet(s)!Run(q) PROVE Goal
  BY <1>2, RunKeepsSheet
<1>3. ASSUME NEW r \in s.lines, Sheet(s)!Act(q, r) PROVE Goal
  BY <1>3, <1>a, ActKeepsSheet
<1>4. ASSUME NEW which, Sheet(s)!ListOpen(q, which) PROVE Goal
  BY <1>4, ReadingKeepsSheet DEF Sheet!ListOpen, Sheet!idVars, Sheet!vars, Sheet!NoSheet, SheetInv
<1>5. ASSUME Sheet(s)!RefuseLine(q) PROVE Goal
  BY <1>5, <1>a, RefuseKeepsSheet
<1>6. ASSUME NEW r \in s.lines, Sheet(s)!FinishLine(q, r) PROVE Goal
  BY <1>6, <1>a, FinishKeepsSheet
<1>7. ASSUME NEW r \in s.lines, Sheet(s)!BulkStep(q, r) PROVE Goal
  BY <1>7, <1>a, BulkKeepsSheet
<1> HIDE DEF Goal
<1>8. Goal
  BY <1>0, <1>1, <1>2, <1>3, <1>4, <1>5, <1>6, <1>7
<1> QED
  BY <1>8, FollowedTakesFromNobody DEF Goal

LEMMA SheetInitHolds ==
    ASSUME NEW s, Sheet(s)!PeopleNamed, Sheet(s)!ReconInit
    PROVE  SheetInv(s)
<1>1. Ids(s)!PeopleNamed /\ Ids(s)!Init
  BY SameNames DEF Sheet!PeopleNamed, Ids!PeopleNamed, Sheet!ReconInit, Sheet!Init, Ids!Init
<1>2. IdInv(s)
  BY <1>1, IdInitHolds
<1> QED
  BY <1>2 DEF SheetInv, LineStands, ActingRow, Sheet!ReconInit, Sheet!NoSheet, Sheet!NoLine, Sheet!Unread,
              Sheet!Undecided, Sheet!Outcomes

LEMMA SheetInvGives ==
    ASSUME NEW s, SheetInv(s)
    PROVE  Sheet(s)!ReconTypeOK /\ Sheet(s)!IdsAreSound
<1>1. Ids(s)!TypeOK /\ Ids(s)!IdsAreSound
  BY IdInvGives DEF SheetInv
<1>2. Sheet(s)!TypeOK
  BY <1>1, SameNames DEF Sheet!TypeOK, Ids!TypeOK
<1>3. Sheet(s)!IdsAreSound
  BY <1>1, SameNames DEF Sheet!IdsAreSound, Ids!IdsAreSound, Sheet!AffiliatesHaveIds, Ids!AffiliatesHaveIds,
     Sheet!KeptIdsAreFree, Ids!KeptIdsAreFree, Sheet!Held, Ids!Held
<1> QED
  BY <1>2, <1>3 DEF SheetInv, ActingRow, Sheet!ReconTypeOK, Sheet!NoSheet, Sheet!NoLine

-----------------------------------------------------------------------------
(* AccountLinks.                                                           *)

AccountRow(s) == [email : s.addresses \cup {"NO_ADDRESS"}, verified : BOOLEAN,
                  active : BOOLEAN, hasPassword : BOOLEAN]
MailRow(s)  == {[state |-> "NEW"]} \cup Links(s)!LinkRow
SetupRow(s) == {[state |-> "NEW"]} \cup Links(s)!SetupRow
New == [state |-> "NEW"]

LinkTypes(s) ==
    /\ account \in [s.accounts -> AccountRow(s)]
    /\ link \in [s.links -> MailRow(s)]
    /\ setup \in [s.setups -> SetupRow(s)]
    /\ quiet \subseteq s.addresses
    /\ invite \in [s.accounts -> {"NONE", "SENT", "ACCEPTED", "REVOKED"}]
    /\ toVerify \subseteq s.setups
    /\ proved \subseteq s.accounts \X s.addresses

\* Who can sign in, or is invited, has an account.
UsersExist(s) ==
    \A u \in s.accounts :
        account[u].active \/ invite[u] # "NONE" => account[u].email # "NO_ADDRESS"

\* A link proves the address it asks for.
MailedWhereAsked(s) == \A l \in s.links : link[l] # New => link[l].email = link[l].mailed

\* A setup was mailed where its account is, or the account has moved to an
\* address that is proved.
SetupsReachOwner(s) ==
    \A t \in s.setups : setup[t] # New =>
        LET u == setup[t].user
        IN  /\ account[u].email # "NO_ADDRESS"
            /\ account[u].email = setup[t].mailed \/ <<u, account[u].email>> \in proved

\* What is about to be marked verified is proved already.
MarkedLater(s) ==
    \A t \in toVerify : setup[t] # New /\ <<setup[t].user, account[setup[t].user].email>> \in proved

OneAtATime(s) ==
    s.overlap \/ (Links(s)!OneLiveSetup /\ \A t \in s.setups : setup[t].state # "SENDING")

LinkInv(s) ==
    /\ LinkTypes(s) /\ UsersExist(s) /\ MailedWhereAsked(s) /\ SetupsReachOwner(s) /\ MarkedLater(s)
    /\ Links(s)!VerifiedMeansProved /\ OneAtATime(s)

LEMMA LinkInvGives ==
    ASSUME NEW s, LinkInv(s)
    PROVE  Links(s)!TypeOK /\ Links(s)!LinksProve
BY DEF LinkInv, LinkTypes, AccountRow, MailRow, SetupRow, OneAtATime, Links!TypeOK, Links!LinksProve,
       Links!NoAddress, Links!NewLink

LEMMA LinkInitHolds ==
    ASSUME NEW s, Links(s)!AddressesNamed, Links(s)!Init
    PROVE  LinkInv(s)
<1> USE DEF Links!Init, Links!NoAccount, Links!NoAddress, Links!NewLink, New
<1>1. LinkTypes(s)
  BY DEF LinkTypes, AccountRow, MailRow, SetupRow
<1>2. UsersExist(s)
  BY DEF UsersExist
<1>3. MailedWhereAsked(s) /\ SetupsReachOwner(s) /\ MarkedLater(s)
  BY DEF MailedWhereAsked, SetupsReachOwner, MarkedLater
<1>4. Links(s)!VerifiedMeansProved
  BY DEF Links!VerifiedMeansProved
<1>5. OneAtATime(s)
  BY DEF OneAtATime, Links!OneLiveSetup
<1> QED
  BY <1>1, <1>2, <1>3, <1>4, <1>5 DEF LinkInv

\* An address is left only for a proved one, and what was proved stays so:
\* then links already sent and marks still to come stay sound.
LEMMA AddressesProved ==
    ASSUME NEW s, LinkInv(s), LinkTypes(s)',
           \A u \in s.accounts : account[u].email # "NO_ADDRESS" =>
               /\ account'[u].email # "NO_ADDRESS"
               /\ account'[u].email = account[u].email \/ <<u, account'[u].email>> \in proved',
           proved \subseteq proved',
           \A u \in s.accounts : account'[u].verified =>
               \/ account[u].verified /\ account'[u].email = account[u].email
               \/ <<u, account'[u].email>> \in proved',
           \A t \in s.setups : setup'[t] # New =>
               \/ setup[t] # New /\ setup'[t].user = setup[t].user /\ setup'[t].mailed = setup[t].mailed
               \/ /\ account'[setup'[t].user].email = setup'[t].mailed
                  /\ setup'[t].mailed # "NO_ADDRESS",
           \A t \in toVerify' : setup'[t] # New /\
               \/ t \in toVerify /\ setup'[t].user = setup[t].user
               \/ <<setup'[t].user, account'[setup'[t].user].email>> \in proved'
    PROVE  SetupsReachOwner(s)' /\ MarkedLater(s)' /\ Links(s)!VerifiedMeansProved'
<1>1. \A t \in s.setups : setup[t] # New => setup[t].user \in s.accounts
  BY DEF LinkInv, LinkTypes, SetupRow, Links!SetupRow, New
<1>2. SetupsReachOwner(s)'
  BY <1>1 DEF SetupsReachOwner, LinkInv
<1>3. MarkedLater(s)'
  <2> SUFFICES ASSUME NEW t \in toVerify'
               PROVE  setup'[t] # New /\ <<setup'[t].user, account'[setup'[t].user].email>> \in proved'
    BY DEF MarkedLater
  <2>1. CASE <<setup'[t].user, account'[setup'[t].user].email>> \in proved'
    BY <2>1
  <2>2. CASE t \in toVerify /\ setup'[t].user = setup[t].user
    <3>1. setup[t] # New /\ <<setup[t].user, account[setup[t].user].email>> \in proved /\ t \in s.setups
      BY <2>2 DEF MarkedLater, LinkInv, LinkTypes
    <3>2. setup[t].user \in s.accounts /\ account[setup[t].user].email # "NO_ADDRESS"
      BY <1>1, <3>1 DEF SetupsReachOwner, LinkInv
    <3> QED
      BY <2>2, <3>1, <3>2
  <2> QED
    BY <2>1, <2>2
<1>4. Links(s)!VerifiedMeansProved'
  BY DEF Links!VerifiedMeansProved, LinkInv
<1> QED
  BY <1>2, <1>3, <1>4

LEMMA UsersStay ==
    ASSUME NEW s, UsersExist(s), UNCHANGED <<account, invite>>
    PROVE  UsersExist(s)'
BY DEF UsersExist

LEMMA OneStays ==
    ASSUME NEW s, OneAtATime(s), UNCHANGED setup
    PROVE  OneAtATime(s)'
BY DEF OneAtATime, Links!OneLiveSetup

LEMMA LinkStutter ==
    ASSUME NEW s, LinkInv(s), UNCHANGED <<account, link, setup, quiet, invite, toVerify, proved>>
    PROVE  LinkInv(s)'
<1>1. LinkTypes(s)'
  BY DEF LinkInv, LinkTypes, AccountRow, MailRow, SetupRow, Links!LinkRow, Links!SetupRow
<1>2. UsersExist(s)' /\ MailedWhereAsked(s)' /\ OneAtATime(s)'
  BY UsersStay, OneStays DEF LinkInv, MailedWhereAsked
<1>3. SetupsReachOwner(s)' /\ MarkedLater(s)' /\ Links(s)!VerifiedMeansProved'
  BY DEF LinkInv, SetupsReachOwner, MarkedLater, Links!VerifiedMeansProved
<1> QED
  BY <1>1, <1>2, <1>3 DEF LinkInv

-----------------------------------------------------------------------------
\* What changes links only.
LEMMA OnlyLinks ==
    ASSUME NEW s, LinkInv(s), link' \in [s.links -> MailRow(s)], quiet' \subseteq s.addresses,
           \A l \in s.links : link'[l] # New => link'[l].email = link'[l].mailed,
           UNCHANGED <<account, setup, invite, toVerify, proved>>
    PROVE  LinkInv(s)'
<1>1. LinkTypes(s)'
  BY DEF LinkInv, LinkTypes, AccountRow, MailRow, SetupRow, Links!LinkRow, Links!SetupRow
<1>2. UsersExist(s)' /\ MailedWhereAsked(s)' /\ OneAtATime(s)'
  BY UsersStay, OneStays DEF LinkInv, MailedWhereAsked
<1>3. SetupsReachOwner(s)' /\ MarkedLater(s)' /\ Links(s)!VerifiedMeansProved'
  BY DEF LinkInv, SetupsReachOwner, MarkedLater, Links!VerifiedMeansProved
<1> QED
  BY <1>1, <1>2, <1>3 DEF LinkInv

\* A link that ends keeps its addresses.
LEMMA EndedRow ==
    ASSUME NEW s, NEW r \in Links(s)!LinkRow, NEW st \in {"PENDING", "USED", "SUPERSEDED", "DISPUTED"}
    PROVE  /\ [r EXCEPT !.state = st] \in Links(s)!LinkRow
           /\ [r EXCEPT !.state = st] # New /\ [r EXCEPT !.state = st] \in MailRow(s)
           /\ [r EXCEPT !.state = st].email = r.email /\ [r EXCEPT !.state = st].mailed = r.mailed
           /\ [r EXCEPT !.state = st].user = r.user
BY DEF Links!LinkRow, New, MailRow

LEMMA OlderLinksEnd ==
    ASSUME NEW s, LinkInv(s), NEW u, NEW which
    PROVE  /\ Links(s)!Superseding(u, which) \in [s.links -> MailRow(s)]
           /\ \A l \in s.links : Links(s)!Superseding(u, which)[l] # New =>
                 Links(s)!Superseding(u, which)[l].email = Links(s)!Superseding(u, which)[l].mailed
<1> DEFINE f == Links(s)!Superseding(u, which)
<1>1. \A l \in s.links : f[l] = IF link[l].state = "PENDING" /\ link[l].user = u /\ link[l].change \in which
                                THEN [link[l] EXCEPT !.state = "SUPERSEDED"] ELSE link[l]
  BY DEF Links!Superseding
<1>2. ASSUME NEW l \in s.links
      PROVE  f[l] \in MailRow(s) /\ (f[l] # New => f[l].email = f[l].mailed)
  <2>1. link[l] \in MailRow(s) /\ (link[l] # New => link[l].email = link[l].mailed)
    BY DEF LinkInv, LinkTypes, MailedWhereAsked
  <2>2. CASE link[l].state = "PENDING"
    <3>1. link[l] \in Links(s)!LinkRow /\ link[l] # New
      BY <2>1, <2>2 DEF MailRow, New
    <3> DEFINE q == [link[l] EXCEPT !.state = "SUPERSEDED"]
    <3>2. q \in MailRow(s) /\ q.email = link[l].email /\ q.mailed = link[l].mailed
      BY <3>1, EndedRow
    <3>3. f[l] = q \/ f[l] = link[l]
      BY <1>1
    <3> HIDE DEF q, f
    <3> QED
      BY <2>1, <3>1, <3>2, <3>3
  <2>3. CASE link[l].state # "PENDING"
    BY <1>1, <2>1, <2>3
  <2> QED
    BY <2>2, <2>3
<1>3. f = [l \in s.links |-> f[l]]
  BY DEF Links!Superseding
<1> HIDE DEF f
<1>4. f \in [s.links -> MailRow(s)]
  BY <1>2, <1>3
<1>5. \A l \in s.links : f[l] # New => f[l].email = f[l].mailed
  BY <1>2
<1> QED
  BY <1>4, <1>5 DEF f

LEMMA IssueKeeps ==
    ASSUME NEW s, Links(s)!AddressesNamed, LinkInv(s), NEW u \in s.accounts, NEW l \in s.links,
           NEW a \in s.addresses, NEW change \in BOOLEAN, Links(s)!Issue(u, l, a, change, a)
    PROVE  LinkInv(s)'
<1> DEFINE f == Links(s)!Superseding(u, {change})
           r == [state |-> "PENDING", user |-> u, change |-> change, email |-> a,
                 mailed |-> a, expired |-> FALSE]
<1>1. /\ f \in [s.links -> MailRow(s)]
      /\ \A k \in s.links : f[k] # New => f[k].email = f[k].mailed
  BY OlderLinksEnd
<1>2. r \in MailRow(s) /\ r.email = r.mailed
  BY DEF MailRow, Links!LinkRow
<1>3. link' = [f EXCEPT ![l] = r] /\ UNCHANGED <<account, setup, quiet, invite, toVerify, proved>>
  BY DEF Links!Issue
<1> HIDE DEF f, r
<1>4. link' \in [s.links -> MailRow(s)] /\ \A k \in s.links : link'[k] # New => link'[k].email = link'[k].mailed
  BY <1>1, <1>2, <1>3
<1>5. quiet' \subseteq s.addresses
  BY <1>3 DEF LinkInv, LinkTypes
<1> QED
  BY <1>3, <1>4, <1>5, OnlyLinks

\* The link that is used, answered or ends, is one that was mailed.
LEMMA LinkRows ==
    ASSUME NEW s, LinkInv(s), NEW l \in s.links, link[l].state # "NEW"
    PROVE  /\ link[l] \in Links(s)!LinkRow /\ link[l].user \in s.accounts
           /\ link[l].email \in s.addresses /\ link[l].email = link[l].mailed
<1>1. link[l] \in MailRow(s) /\ link[l] # New
  BY DEF LinkInv, LinkTypes, New
<1> QED
  BY <1>1 DEF LinkInv, MailedWhereAsked, MailRow, New, Links!LinkRow

\* One link changes its state, the others may end.
LEMMA OneEnds ==
    ASSUME NEW s, LinkInv(s), NEW l \in s.links, link[l].state # "NEW",
           NEW st \in {"PENDING", "USED", "SUPERSEDED", "DISPUTED"}, NEW f \in [s.links -> MailRow(s)],
           \A k \in s.links : f[k] # New => f[k].email = f[k].mailed,
           link' = [f EXCEPT ![l] = [link[l] EXCEPT !.state = st]]
    PROVE  link' \in [s.links -> MailRow(s)] /\ MailedWhereAsked(s)'
<1> DEFINE q == [link[l] EXCEPT !.state = st]
<1>0. link[l] \in Links(s)!LinkRow /\ link[l].email = link[l].mailed
  BY LinkRows
<1>1. q \in MailRow(s) /\ q.email = link[l].email /\ q.mailed = link[l].mailed
  <2> DEFINE r == link[l]
  <2>1. r \in Links(s)!LinkRow
    BY <1>0
  <2> HIDE DEF r
  <2>2. /\ [r EXCEPT !.state = st] \in MailRow(s)
        /\ [r EXCEPT !.state = st].email = r.email /\ [r EXCEPT !.state = st].mailed = r.mailed
    BY <2>1 DEF MailRow, Links!LinkRow
  <2> QED
    BY <2>2 DEF r
<1> HIDE DEF q
<1>2. link' = [f EXCEPT ![l] = q]
  BY DEF q
<1> QED
  BY <1>0, <1>1, <1>2 DEF MailedWhereAsked

LEMMA LinksAsTheyAre ==
    ASSUME NEW s, LinkInv(s)
    PROVE  link \in [s.links -> MailRow(s)] /\ \A k \in s.links : link[k] # New => link[k].email = link[k].mailed
BY DEF LinkInv, LinkTypes, MailedWhereAsked

LEMMA ExpireKeeps ==
    ASSUME NEW s, LinkInv(s), NEW l \in s.links, Links(s)!Expire(l)
    PROVE  LinkInv(s)'
<1>1. link[l] \in Links(s)!LinkRow /\ link[l].email = link[l].mailed
  BY LinkRows DEF Links!Expire
<1> DEFINE q == [link[l] EXCEPT !.expired = TRUE]
<1>2. q \in MailRow(s) /\ q.email = q.mailed
  BY <1>1 DEF MailRow, Links!LinkRow
<1>3. link' = [link EXCEPT ![l] = q]
  BY Zenon DEF Links!Expire
<1>4. UNCHANGED <<account, setup, quiet, invite, toVerify, proved>>
  BY DEF Links!Expire
<1> HIDE DEF q
<1>5. link' \in [s.links -> MailRow(s)] /\ \A k \in s.links : link'[k] # New => link'[k].email = link'[k].mailed
  BY <1>2, <1>3, LinksAsTheyAre
<1>6. quiet' \subseteq s.addresses
  BY <1>4 DEF LinkInv, LinkTypes
<1> QED
  BY <1>4, <1>5, <1>6, OnlyLinks

LEMMA DisputeChangeKeeps ==
    ASSUME NEW s, LinkInv(s), NEW l \in s.links, Links(s)!DisputeChange(l)
    PROVE  LinkInv(s)'
<1>1. link[l].state # "NEW" /\ link[l].email \in s.addresses
  BY LinkRows DEF Links!DisputeChange
<1>2. link' = [link EXCEPT ![l] = [link[l] EXCEPT !.state = "DISPUTED"]]
  BY Zenon DEF Links!DisputeChange
<1>3. link' \in [s.links -> MailRow(s)] /\ MailedWhereAsked(s)'
  BY <1>1, <1>2, OneEnds, LinksAsTheyAre
<1>4. quiet' \subseteq s.addresses /\ UNCHANGED <<account, setup, invite, toVerify, proved>>
  BY <1>1 DEF LinkInv, LinkTypes, Links!DisputeChange
<1> QED
  BY <1>3, <1>4, OnlyLinks DEF MailedWhereAsked

-----------------------------------------------------------------------------
(* What changes accounts.                                                  *)

AccountSet(a, v, o) == [a EXCEPT !.verified = v, !.email = o]

LEMMA AccountRows ==
    ASSUME NEW s, NEW a \in AccountRow(s), NEW v \in BOOLEAN, NEW e \in s.addresses
    PROVE  /\ [a EXCEPT !.verified = v] \in AccountRow(s)
           /\ [a EXCEPT !.verified = v].email = a.email /\ [a EXCEPT !.verified = v].verified = v
           /\ [a EXCEPT !.verified = v].active = a.active
           /\ [a EXCEPT !.active = v] \in AccountRow(s)
           /\ [a EXCEPT !.active = v].email = a.email /\ [a EXCEPT !.active = v].verified = a.verified
           /\ [a EXCEPT !.active = v].active = v
           /\ [a EXCEPT !.hasPassword = v] \in AccountRow(s)
           /\ [a EXCEPT !.hasPassword = v].email = a.email
           /\ [a EXCEPT !.hasPassword = v].verified = a.verified
           /\ [a EXCEPT !.hasPassword = v].active = a.active
           /\ AccountSet(a, v, e) \in AccountRow(s)
           /\ AccountSet(a, v, e).email = e /\ AccountSet(a, v, e).verified = v
           /\ AccountSet(a, v, e).active = a.active
BY DEF AccountRow, AccountSet

\* One account gets a row of which what changed is proved.
LEMMA OneAccount ==
    ASSUME NEW s, Links(s)!AddressesNamed, LinkInv(s), NEW u \in s.accounts, NEW a \in AccountRow(s),
           account' = [account EXCEPT ![u] = a],
           a.email # "NO_ADDRESS" \/ (a.email = account[u].email /\ ~a.active),
           \/ a.email = account[u].email \/ account[u].email = "NO_ADDRESS" \/ <<u, a.email>> \in proved',
           a.verified => \/ account[u].verified /\ a.email = account[u].email
                         \/ <<u, a.email>> \in proved',
           proved \subseteq proved', proved' \subseteq s.accounts \X s.addresses,
           quiet' \subseteq s.addresses, toVerify' \subseteq toVerify, UNCHANGED <<setup, invite>>,
           link' \in [s.links -> MailRow(s)], MailedWhereAsked(s)'
    PROVE  LinkInv(s)'
<1>1. LinkTypes(s)'
  BY DEF LinkInv, LinkTypes, AccountRow, MailRow, SetupRow, Links!LinkRow, Links!SetupRow
<1>2. (a.active \/ account[u].email # "NO_ADDRESS") => a.email # "NO_ADDRESS"
  OBVIOUS
<1>3. account'[u] = a /\ \A v \in s.accounts \ {u} : account'[v] = account[v]
  BY DEF LinkInv, LinkTypes
<1>4. UsersExist(s)'
  BY <1>2, <1>3 DEF UsersExist, LinkInv
<1>5. OneAtATime(s)'
  BY OneStays DEF LinkInv
<1>6. \A v \in s.accounts : account[v].email # "NO_ADDRESS" =>
          /\ account'[v].email # "NO_ADDRESS"
          /\ account'[v].email = account[v].email \/ <<v, account'[v].email>> \in proved'
  BY <1>2, <1>3
<1>7. \A v \in s.accounts : account'[v].verified =>
          \/ account[v].verified /\ account'[v].email = account[v].email
          \/ <<v, account'[v].email>> \in proved'
  BY <1>3
<1>8. \A t \in s.setups : setup'[t] # New =>
          \/ setup[t] # New /\ setup'[t].user = setup[t].user /\ setup'[t].mailed = setup[t].mailed
          \/ account'[setup'[t].user].email = setup'[t].mailed /\ setup'[t].mailed # "NO_ADDRESS"
  OBVIOUS
<1>9. \A t \in toVerify' : setup'[t] # New /\
          \/ t \in toVerify /\ setup'[t].user = setup[t].user
          \/ <<setup'[t].user, account'[setup'[t].user].email>> \in proved'
  BY DEF LinkInv, MarkedLater
<1>10. SetupsReachOwner(s)' /\ MarkedLater(s)' /\ Links(s)!VerifiedMeansProved'
  BY <1>1, <1>6, <1>7, <1>8, <1>9, AddressesProved
<1> QED
  BY <1>1, <1>4, <1>5, <1>10 DEF LinkInv

LEMMA KeptRows ==
    ASSUME NEW s, LinkInv(s), UNCHANGED link
    PROVE  link' \in [s.links -> MailRow(s)] /\ MailedWhereAsked(s)'
BY DEF LinkInv, LinkTypes, MailedWhereAsked, MailRow, Links!LinkRow

LEMMA CreateKeeps ==
    ASSUME NEW s, Links(s)!AddressesNamed, LinkInv(s), NEW u \in s.accounts, NEW a \in s.addresses,
           NEW own \in BOOLEAN, Links(s)!Create(u, a, own)
    PROVE  LinkInv(s)'
<1> DEFINE r == Links(s)!NewAccount(a, own)
<1>1. r \in AccountRow(s) /\ r.email = a /\ ~r.verified
  BY DEF Links!NewAccount, AccountRow
<1>2. /\ account' = [account EXCEPT ![u] = r] /\ account[u].email = "NO_ADDRESS"
      /\ UNCHANGED <<link, setup, quiet, invite, toVerify, proved>>
  BY DEF Links!Create, Links!Exists, Links!NoAddress
<1> HIDE DEF r
<1>3. link' \in [s.links -> MailRow(s)] /\ MailedWhereAsked(s)'
  BY <1>2, KeptRows
<1>4. proved' \subseteq s.accounts \X s.addresses /\ quiet' \subseteq s.addresses
  BY <1>2 DEF LinkInv, LinkTypes
<1>5. a # "NO_ADDRESS"
  BY DEF Links!AddressesNamed, Links!NoAddress
<1> QED
  BY <1>1, <1>2, <1>3, <1>4, <1>5, OneAccount

LEMMA VouchKeeps ==
    ASSUME NEW s, Links(s)!AddressesNamed, LinkInv(s), NEW u \in s.accounts, Links(s)!Vouch(u)
    PROVE  LinkInv(s)'
<1> DEFINE r == [account[u] EXCEPT !.verified = TRUE]
<1>1. account[u] \in AccountRow(s) /\ account[u].email \in s.addresses
  BY DEF LinkInv, LinkTypes, Links!Vouch, Links!Exists, Links!NoAddress, AccountRow
<1>2. r \in AccountRow(s) /\ r.email = account[u].email
  BY <1>1 DEF AccountRow
<1>3. account' = [account EXCEPT ![u] = r]
  BY Zenon DEF Links!Vouch
<1>4. proved' = proved \cup {<<u, account[u].email>>} /\ UNCHANGED <<link, setup, quiet, invite, toVerify>>
  BY DEF Links!Vouch
<1> HIDE DEF r
<1>5. link' \in [s.links -> MailRow(s)] /\ MailedWhereAsked(s)'
  BY <1>4, KeptRows
<1>6. proved' \subseteq s.accounts \X s.addresses /\ quiet' \subseteq s.addresses
  BY <1>1, <1>4 DEF LinkInv, LinkTypes
<1>7. account[u].email # "NO_ADDRESS"
  BY <1>1 DEF Links!AddressesNamed, Links!NoAddress
<1> QED
  BY <1>1, <1>2, <1>3, <1>4, <1>5, <1>6, <1>7, OneAccount

LEMMA ConfirmVerifyKeeps ==
    ASSUME NEW s, Links(s)!AddressesNamed, LinkInv(s), NEW l \in s.links, Links(s)!ConfirmVerify(l)
    PROVE  LinkInv(s)'
<1> DEFINE u == link[l].user
           r == [account[u] EXCEPT !.verified = TRUE]
<1>1. /\ link[l].state # "NEW" /\ u \in s.accounts /\ link[l].email \in s.addresses
      /\ link[l].email = link[l].mailed /\ account[u].email = link[l].email
  BY LinkRows DEF Links!ConfirmVerify, Links!Open
<1>2. account[u] \in AccountRow(s)
  BY <1>1 DEF LinkInv, LinkTypes
<1>3. r \in AccountRow(s) /\ r.email = account[u].email
  BY <1>2 DEF AccountRow
<1>4. account' = [account EXCEPT ![u] = r]
  BY Zenon DEF Links!ConfirmVerify
<1>5. proved' = proved \cup {<<u, link[l].mailed>>} /\ UNCHANGED <<setup, quiet, invite, toVerify>>
  BY DEF Links!ConfirmVerify
<1>6. link' = [link EXCEPT ![l] = [link[l] EXCEPT !.state = "USED"]]
  BY Zenon DEF Links!ConfirmVerify
<1> HIDE DEF r, u
<1>7. link' \in [s.links -> MailRow(s)] /\ MailedWhereAsked(s)'
  <2>1. link[l].state # "NEW"
    BY <1>1
  <2>2. link \in [s.links -> MailRow(s)] /\ \A k \in s.links : link[k] # New => link[k].email = link[k].mailed
    BY LinksAsTheyAre
  <2> QED
    BY <1>6, <2>1, <2>2, OneEnds
<1>8. proved' \subseteq s.accounts \X s.addresses /\ quiet' \subseteq s.addresses
  BY <1>1, <1>5 DEF LinkInv, LinkTypes
<1>9. link[l].email # "NO_ADDRESS"
  BY <1>1 DEF Links!AddressesNamed, Links!NoAddress
<1> QED
  BY <1>1, <1>3, <1>4, <1>5, <1>7, <1>8, <1>9, OneAccount

LEMMA ConfirmChangeKeeps ==
    ASSUME NEW s, Links(s)!AddressesNamed, LinkInv(s), NEW l \in s.links, Links(s)!ConfirmChange(l)
    PROVE  LinkInv(s)'
<1> DEFINE u == link[l].user
           r == AccountSet(account[u], TRUE, link[l].email)
           f == Links(s)!Superseding(u, BOOLEAN)
<1>1. /\ link[l].state # "NEW" /\ u \in s.accounts /\ link[l].email \in s.addresses
      /\ link[l].email = link[l].mailed
  BY LinkRows DEF Links!ConfirmChange, Links!Open
<1>2. account[u] \in AccountRow(s)
  BY <1>1 DEF LinkInv, LinkTypes
<1>3. r \in AccountRow(s) /\ r.email = link[l].email
  BY <1>1, <1>2 DEF AccountRow, AccountSet
<1>4. account' = [account EXCEPT ![u] = r]
  BY Zenon DEF Links!ConfirmChange, AccountSet
<1>5. proved' = proved \cup {<<u, link[l].mailed>>} /\ UNCHANGED <<setup, quiet, invite, toVerify>>
  BY DEF Links!ConfirmChange
<1>6. link' = [f EXCEPT ![l] = [link[l] EXCEPT !.state = "USED"]]
  BY DEF Links!ConfirmChange
<1>7. f \in [s.links -> MailRow(s)] /\ \A k \in s.links : f[k] # New => f[k].email = f[k].mailed
  BY OlderLinksEnd
<1> HIDE DEF r, u, f
<1>8. link' \in [s.links -> MailRow(s)] /\ MailedWhereAsked(s)'
  BY <1>1, <1>6, <1>7, OneEnds
<1>9. proved' \subseteq s.accounts \X s.addresses /\ quiet' \subseteq s.addresses
  BY <1>1, <1>5 DEF LinkInv, LinkTypes
<1>10. link[l].email # "NO_ADDRESS"
  BY <1>1 DEF Links!AddressesNamed, Links!NoAddress
<1> QED
  BY <1>1, <1>3, <1>4, <1>5, <1>8, <1>9, <1>10, OneAccount

\* The disputed account is switched off ...
LEMMA SwitchOffKeeps ==
    ASSUME NEW s, Links(s)!AddressesNamed, LinkInv(s), NEW l \in s.links, Links(s)!DisputeSignUp(l, FALSE)
    PROVE  LinkInv(s)'
<1> DEFINE u == link[l].user
           r == [account[u] EXCEPT !.active = FALSE]
           f == Links(s)!Superseding(u, BOOLEAN)
<1>1. link[l].state # "NEW" /\ u \in s.accounts /\ link[l].email \in s.addresses
  BY LinkRows DEF Links!DisputeSignUp
<1>2. account[u] \in AccountRow(s)
  BY <1>1 DEF LinkInv, LinkTypes
<1>3. r \in AccountRow(s) /\ r.email = account[u].email /\ r.verified = account[u].verified /\ ~r.active
  BY <1>2 DEF AccountRow
<1>4. account' = [account EXCEPT ![u] = r]
  BY Zenon DEF Links!DisputeSignUp
<1>5. quiet' = quiet \cup {link[l].email} /\ UNCHANGED <<setup, proved, toVerify, invite>>
  BY DEF Links!DisputeSignUp
<1>6. link' = [f EXCEPT ![l] = [link[l] EXCEPT !.state = "DISPUTED"]]
  BY DEF Links!DisputeSignUp
<1>7. f \in [s.links -> MailRow(s)] /\ \A k \in s.links : f[k] # New => f[k].email = f[k].mailed
  BY OlderLinksEnd
<1> HIDE DEF r, u, f
<1>8. link' \in [s.links -> MailRow(s)] /\ MailedWhereAsked(s)'
  BY <1>1, <1>6, <1>7, OneEnds
<1>9. proved' \subseteq s.accounts \X s.addresses /\ quiet' \subseteq s.addresses
  BY <1>1, <1>5 DEF LinkInv, LinkTypes
<1> QED
  BY <1>1, <1>3, <1>4, <1>5, <1>8, <1>9, OneAccount

\* ... or removed, and all that was of it.
LEMMA RemovalKeeps ==
    ASSUME NEW s, Links(s)!AddressesNamed, LinkInv(s), NEW l \in s.links, Links(s)!DisputeSignUp(l, TRUE)
    PROVE  LinkInv(s)'
<1> DEFINE u == link[l].user
<1>1. u \in s.accounts /\ link[l].email \in s.addresses
  BY LinkRows DEF Links!DisputeSignUp
<1>2. /\ invite[u] = "NONE" /\ UNCHANGED invite /\ quiet' = quiet \cup {link[l].email}
      /\ account' = [account EXCEPT ![u] = Links(s)!NoAccount]
      /\ link' = [k \in DOMAIN link |-> IF link[k] # New /\ link[k].user = u THEN New ELSE link[k]]
      /\ setup' = [k \in DOMAIN setup |-> IF setup[k] # New /\ setup[k].user = u THEN New ELSE setup[k]]
      /\ proved' = {p \in proved : p[1] # u}
      /\ toVerify' = {t \in toVerify : setup[t].user # u}
  BY DEF Links!DisputeSignUp, Links!NewLink, New
<1> DEFINE nobody == Links(s)!NoAccount
<1>3. nobody \in AccountRow(s) /\ ~nobody.active /\ ~nobody.verified /\ nobody.email = "NO_ADDRESS"
  BY DEF Links!NoAccount, AccountRow, Links!NoAddress
<1> HIDE DEF u, nobody
<1>4. New \in MailRow(s) /\ New \in SetupRow(s)
  BY DEF New, MailRow, SetupRow
<1>5. /\ account' = [account EXCEPT ![u] = nobody]
      /\ link' = [k \in s.links |-> IF link[k] # New /\ link[k].user = u THEN New ELSE link[k]]
      /\ setup' = [k \in s.setups |-> IF setup[k] # New /\ setup[k].user = u THEN New ELSE setup[k]]
  BY <1>2 DEF LinkInv, LinkTypes, nobody
<1>6. LinkTypes(s)'
  <2>1. account' \in [s.accounts -> AccountRow(s)]
    BY <1>3, <1>5 DEF LinkInv, LinkTypes
  <2>2. link' \in [s.links -> MailRow(s)]
    BY <1>4, <1>5 DEF LinkInv, LinkTypes
  <2>3. setup' \in [s.setups -> SetupRow(s)]
    BY <1>4, <1>5 DEF LinkInv, LinkTypes
  <2>4. /\ quiet' \subseteq s.addresses /\ toVerify' \subseteq s.setups
        /\ invite' \in [s.accounts -> {"NONE", "SENT", "ACCEPTED", "REVOKED"}]
    BY <1>1, <1>2 DEF LinkInv, LinkTypes
  <2>5. proved' \subseteq s.accounts \X s.addresses
    BY <1>2 DEF LinkInv, LinkTypes
  <2> QED
    BY <2>1, <2>2, <2>3, <2>4, <2>5 DEF LinkTypes, AccountRow, MailRow, SetupRow, Links!LinkRow, Links!SetupRow
<1>7. account'[u] = nobody /\ \A v \in s.accounts \ {u} : account'[v] = account[v]
  BY <1>1, <1>5 DEF LinkInv, LinkTypes
<1>8. \A t \in s.setups : setup'[t] # New => setup'[t] = setup[t] /\ setup[t].user # u
  BY <1>5
<1>9. \A v, a : v # u /\ <<v, a>> \in proved => <<v, a>> \in proved'
  BY <1>2
<1>10. \A t \in s.setups : setup[t] # New => setup[t].user \in s.accounts
  BY DEF LinkInv, LinkTypes, SetupRow, Links!SetupRow, New
<1>11. UsersExist(s)'
  BY <1>2, <1>3, <1>7 DEF UsersExist, LinkInv
<1>12. MailedWhereAsked(s)'
  BY <1>5 DEF MailedWhereAsked, LinkInv
<1>13. SetupsReachOwner(s)'
  BY <1>7, <1>8, <1>9, <1>10 DEF SetupsReachOwner, LinkInv
<1>14. MarkedLater(s)'
  <2> SUFFICES ASSUME NEW t \in toVerify'
               PROVE  setup'[t] # New /\ <<setup'[t].user, account'[setup'[t].user].email>> \in proved'
    BY DEF MarkedLater
  <2>1. t \in toVerify /\ setup[t].user # u /\ t \in s.setups
    BY <1>2 DEF LinkInv, LinkTypes
  <2>2. setup[t] # New /\ <<setup[t].user, account[setup[t].user].email>> \in proved
    BY <2>1 DEF LinkInv, MarkedLater
  <2>3. setup'[t] = setup[t]
    BY <1>5, <2>1
  <2> QED
    BY <1>7, <1>9, <1>10, <2>1, <2>2, <2>3
<1>15. Links(s)!VerifiedMeansProved'
  BY <1>3, <1>7, <1>9 DEF Links!VerifiedMeansProved, LinkInv
<1>16. OneAtATime(s)'
  <2>1. \A t \in s.setups : setup'[t] = New \/ setup'[t] = setup[t]
    BY <1>5
  <2>2. New.state # "LIVE" /\ New.state # "SENDING"
    BY DEF New
  <2> QED
    BY <2>1, <2>2 DEF OneAtATime, Links!OneLiveSetup, LinkInv
<1> QED
  BY <1>6, <1>11, <1>12, <1>13, <1>14, <1>15, <1>16 DEF LinkInv

-----------------------------------------------------------------------------
(* What changes setups.                                                    *)

\* Setups are sent where their account is, and no account moves.
LEMMA SetupsSent ==
    ASSUME NEW s, LinkInv(s), LinkTypes(s)', UsersExist(s)', OneAtATime(s)', UNCHANGED <<link, proved>>,
           \A u \in s.accounts : account[u].email # "NO_ADDRESS" => account'[u] = account[u],
           \A u \in s.accounts : account'[u].verified => account'[u] = account[u],
           toVerify' \subseteq toVerify,
           \A t \in s.setups : setup[t] # New => setup'[t] # New /\ setup'[t].user = setup[t].user
                                                 /\ setup'[t].mailed = setup[t].mailed,
           \A t \in s.setups : setup'[t] # New /\ setup[t] = New =>
               account'[setup'[t].user].email = setup'[t].mailed /\ setup'[t].mailed # "NO_ADDRESS"
    PROVE  LinkInv(s)'
<1>1. \A v \in s.accounts : account[v].email # "NO_ADDRESS" =>
          /\ account'[v].email # "NO_ADDRESS"
          /\ account'[v].email = account[v].email \/ <<v, account'[v].email>> \in proved'
  OBVIOUS
<1>2. \A v \in s.accounts : account'[v].verified =>
          \/ account[v].verified /\ account'[v].email = account[v].email
          \/ <<v, account'[v].email>> \in proved'
  OBVIOUS
<1>3. \A t \in s.setups : setup'[t] # New =>
          \/ setup[t] # New /\ setup'[t].user = setup[t].user /\ setup'[t].mailed = setup[t].mailed
          \/ account'[setup'[t].user].email = setup'[t].mailed /\ setup'[t].mailed # "NO_ADDRESS"
  OBVIOUS
<1>4. \A t \in toVerify' : setup'[t] # New /\
          \/ t \in toVerify /\ setup'[t].user = setup[t].user
          \/ <<setup'[t].user, account'[setup'[t].user].email>> \in proved'
  BY DEF LinkInv, MarkedLater, LinkTypes
<1>5. SetupsReachOwner(s)' /\ MarkedLater(s)' /\ Links(s)!VerifiedMeansProved'
  BY <1>1, <1>2, <1>3, <1>4, AddressesProved
<1>6. MailedWhereAsked(s)'
  BY DEF MailedWhereAsked, LinkInv
<1> QED
  BY <1>5, <1>6 DEF LinkInv

LEMMA SetupEnds ==
    ASSUME NEW s, NEW r \in Links(s)!SetupRow, NEW st \in {"SENDING", "LIVE", "SPENT"}
    PROVE  /\ [r EXCEPT !.state = st] \in SetupRow(s) /\ [r EXCEPT !.state = st] # New
           /\ [r EXCEPT !.state = st].state = st
           /\ [r EXCEPT !.state = st].user = r.user /\ [r EXCEPT !.state = st].mailed = r.mailed
BY DEF Links!SetupRow, New, SetupRow

LEMMA SetupRows ==
    ASSUME NEW s, LinkInv(s), NEW t \in s.setups
    PROVE  /\ setup[t] \in SetupRow(s)
           /\ setup[t].state = "NEW" <=> setup[t] = New
           /\ setup[t] # New => /\ setup[t] \in Links(s)!SetupRow /\ setup[t].user \in s.accounts
                                /\ setup[t].mailed \in s.addresses
BY DEF LinkInv, LinkTypes, New, SetupRow, Links!SetupRow

\* The live setups of a person end, and no others.
LEMMA LiveOnesEnd ==
    ASSUME NEW s, LinkInv(s), NEW u
    PROVE  /\ Links(s)!Spending(u) \in [s.setups -> SetupRow(s)]
           /\ \A t \in s.setups :
                 LET now == Links(s)!Spending(u)[t]
                 IN  /\ setup[t] = New => now = New
                     /\ setup[t] # New => now # New /\ now.user = setup[t].user /\ now.mailed = setup[t].mailed
                     /\ now.state = "LIVE" => setup[t].state = "LIVE" /\ setup[t].user # u
                     /\ now.state = "SENDING" => setup[t].state = "SENDING"
<1> DEFINE f == Links(s)!Spending(u)
<1>1. f = [t \in s.setups |-> IF setup[t].state = "LIVE" /\ setup[t].user = u
                              THEN [setup[t] EXCEPT !.state = "SPENT"] ELSE setup[t]]
  BY DEF Links!Spending
<1> HIDE DEF f
<1>2. ASSUME NEW t \in s.setups
      PROVE  /\ f[t] \in SetupRow(s)
             /\ setup[t] = New => f[t] = New
             /\ setup[t] # New => f[t] # New /\ f[t].user = setup[t].user /\ f[t].mailed = setup[t].mailed
             /\ f[t].state = "LIVE" => setup[t].state = "LIVE" /\ setup[t].user # u
             /\ f[t].state = "SENDING" => setup[t].state = "SENDING"
  <2> DEFINE r == setup[t]
             q == [r EXCEPT !.state = "SPENT"]
  <2>1. r \in SetupRow(s) /\ (r.state = "NEW" <=> r = New) /\ (r # New => r \in Links(s)!SetupRow)
    BY SetupRows
  <2>2. f[t] = IF r.state = "LIVE" /\ r.user = u THEN q ELSE r
    BY <1>1
  <2> HIDE DEF r
  <2>3. r # New => /\ q \in SetupRow(s) /\ q # New /\ q.state = "SPENT"
                   /\ q.user = r.user /\ q.mailed = r.mailed
    BY <2>1, SetupEnds
  <2> HIDE DEF q
  <2>4. New.state = "NEW"
    BY DEF New
  <2> QED
    BY <2>1, <2>2, <2>3, <2>4 DEF r
<1>3. f \in [s.setups -> SetupRow(s)]
  BY <1>1, <1>2
<1> QED
  BY <1>2, <1>3 DEF f

\* A new setup ends those before it.
LEMMA SendingKeeps ==
    ASSUME NEW s, LinkInv(s), NEW u \in s.accounts, NEW t \in s.setups, NEW a \in s.addresses,
           NEW st \in {"SENDING", "LIVE"}, st = "SENDING" => s.overlap,
           setup[t] = New, Links(s)!Sending(u, t, st, a)
    PROVE  /\ setup' \in [s.setups -> SetupRow(s)] /\ OneAtATime(s)'
           /\ \A k \in s.setups : setup[k] # New => setup'[k] # New /\ setup'[k].user = setup[k].user
                                                    /\ setup'[k].mailed = setup[k].mailed
           /\ \A k \in s.setups : setup'[k] # New /\ setup[k] = New =>
                 setup'[k].user = u /\ setup'[k].mailed = a
<1> DEFINE f == Links(s)!Spending(u)
           r == [state |-> st, user |-> u, mailed |-> a]
<1>1. setup' = [f EXCEPT ![t] = r]
  BY DEF Links!Sending
<1>2. r \in SetupRow(s) /\ r.user = u /\ r.mailed = a /\ r.state = st /\ r # New
  BY DEF SetupRow, Links!SetupRow, New
<1>3. /\ f \in [s.setups -> SetupRow(s)]
      /\ \A k \in s.setups :
            /\ setup[k] = New => f[k] = New
            /\ setup[k] # New => f[k] # New /\ f[k].user = setup[k].user /\ f[k].mailed = setup[k].mailed
            /\ f[k].state = "LIVE" => setup[k].state = "LIVE" /\ setup[k].user # u
            /\ f[k].state = "SENDING" => setup[k].state = "SENDING"
  BY LiveOnesEnd
<1> HIDE DEF f, r
<1>4. setup' \in [s.setups -> SetupRow(s)] /\ setup'[t] = r /\ \A k \in s.setups \ {t} : setup'[k] = f[k]
  BY <1>1, <1>2, <1>3
<1>5. ASSUME ~s.overlap
      PROVE  Links(s)!OneLiveSetup' /\ \A k \in s.setups : setup'[k].state # "SENDING"
  <2>1. \A k \in s.setups : setup[k].state # "SENDING"
    BY <1>5 DEF LinkInv, OneAtATime
  <2>2. st = "LIVE" /\ \A k \in s.setups : setup'[k].state # "SENDING"
    BY <1>2, <1>3, <1>4, <1>5, <2>1
  <2>3. \A k \in s.setups : setup'[k].state = "LIVE" =>
            k = t \/ (setup[k].state = "LIVE" /\ setup'[k].user = setup[k].user /\ setup[k].user # u)
    <3>1. ASSUME NEW k \in s.setups \ {t}, setup'[k].state = "LIVE"
          PROVE  setup[k].state = "LIVE" /\ setup'[k].user = setup[k].user /\ setup[k].user # u
      <4>1. setup[k].state = "LIVE" /\ setup[k].user # u
        BY <1>3, <1>4, <3>1
      <4>2. setup[k] # New
        BY <4>1 DEF New
      <4> QED
        BY <1>3, <1>4, <4>1, <4>2
    <3> QED
      BY <3>1
  <2>4. Links(s)!OneLiveSetup
    BY <1>5 DEF LinkInv, OneAtATime
  <2> QED
    BY <1>2, <1>4, <2>2, <2>3, <2>4 DEF Links!OneLiveSetup
<1>6. OneAtATime(s)'
  BY <1>5 DEF OneAtATime
<1> QED
  BY <1>2, <1>3, <1>4, <1>6

LEMMA UnsentMeans ==
    ASSUME NEW s, LinkInv(s)
    PROVE  \A t \in s.setups : setup[t].state = "SENDING" => s.overlap
BY DEF LinkInv, OneAtATime

\* A setup is mailed to where the account is, and nothing else changes.
LEMMA SentToOwner ==
    ASSUME NEW s, Links(s)!AddressesNamed, LinkInv(s), NEW u \in s.accounts, NEW t \in s.setups,
           account[u].email # "NO_ADDRESS", NEW st \in {"SENDING", "LIVE"}, st = "SENDING" => s.overlap,
           setup[t] = New, Links(s)!Sending(u, t, st, account[u].email),
           UNCHANGED <<account, link, quiet, invite, toVerify, proved>>
    PROVE  LinkInv(s)'
<1> DEFINE a == account[u].email
<1>1. a \in s.addresses /\ a # "NO_ADDRESS" /\ a = account[u].email
  BY DEF LinkInv, LinkTypes, AccountRow
<1>2. Links(s)!Sending(u, t, st, a)
  OBVIOUS
<1> HIDE DEF a
<1>3. /\ setup' \in [s.setups -> SetupRow(s)] /\ OneAtATime(s)'
      /\ \A k \in s.setups : setup[k] # New => setup'[k] # New /\ setup'[k].user = setup[k].user
                                               /\ setup'[k].mailed = setup[k].mailed
      /\ \A k \in s.setups : setup'[k] # New /\ setup[k] = New =>
            setup'[k].user = u /\ setup'[k].mailed = a
  BY <1>1, <1>2, SendingKeeps
<1>4. LinkTypes(s)'
  BY <1>3 DEF LinkInv, LinkTypes, AccountRow, MailRow, SetupRow, Links!LinkRow, Links!SetupRow
<1>5. UsersExist(s)'
  BY UsersStay DEF LinkInv
<1>6. \A k \in s.setups : setup'[k] # New /\ setup[k] = New =>
          account'[setup'[k].user].email = setup'[k].mailed /\ setup'[k].mailed # "NO_ADDRESS"
  BY <1>1, <1>3
<1> QED
  BY <1>3, <1>4, <1>5, <1>6, SetupsSent

LEMMA IssueSetupKeeps ==
    ASSUME NEW s, Links(s)!AddressesNamed, LinkInv(s), NEW u \in s.accounts, NEW t \in s.setups,
           Links(s)!IssueSetup(u, t)
    PROVE  LinkInv(s)'
<1>1. account[u].email # "NO_ADDRESS"
  BY DEF Links!IssueSetup, LinkInv, UsersExist
<1> DEFINE st == IF s.overlap THEN "SENDING" ELSE "LIVE"
<1>2. st \in {"SENDING", "LIVE"} /\ (st = "SENDING" => s.overlap)
  OBVIOUS
<1>3. /\ setup[t] = New /\ Links(s)!Sending(u, t, st, account[u].email)
      /\ UNCHANGED <<account, link, quiet, invite, toVerify, proved>>
  BY DEF Links!IssueSetup, Links!NewLink, New
<1> HIDE DEF st
<1> QED
  BY <1>1, <1>2, <1>3, SentToOwner

LEMMA ResendKeeps ==
    ASSUME NEW s, Links(s)!AddressesNamed, LinkInv(s), NEW u \in s.accounts, NEW t \in s.setups,
           Links(s)!Resend(u, t)
    PROVE  LinkInv(s)'
<1>1. account[u].email # "NO_ADDRESS"
  BY DEF Links!Resend, LinkInv, UsersExist
<1>2. /\ setup[t] = New /\ Links(s)!Sending(u, t, "LIVE", account[u].email)
      /\ UNCHANGED <<account, link, quiet, invite, toVerify, proved>>
  BY DEF Links!Resend, Links!NewLink, New
<1> QED
  BY <1>1, <1>2, SentToOwner

\* Setups that are there change their state.
LEMMA SetupsChangeState ==
    ASSUME NEW s, LinkInv(s), setup' \in [s.setups -> SetupRow(s)], OneAtATime(s)',
           \A k \in s.setups : setup[k] = New => setup'[k] = New,
           \A k \in s.setups : setup[k] # New => setup'[k] # New /\ setup'[k].user = setup[k].user
                                                 /\ setup'[k].mailed = setup[k].mailed,
           invite' \in [s.accounts -> {"NONE", "SENT", "ACCEPTED", "REVOKED"}],
           \A u \in s.accounts : invite'[u] # "NONE" => invite[u] # "NONE",
           UNCHANGED <<account, link, quiet, toVerify, proved>>
    PROVE  LinkInv(s)'
<1>1. LinkTypes(s)'
  BY DEF LinkInv, LinkTypes, AccountRow, MailRow, SetupRow, Links!LinkRow, Links!SetupRow
<1>2. UsersExist(s)'
  BY DEF UsersExist, LinkInv
<1> QED
  BY <1>1, <1>2, SetupsSent

LEMMA StoreKeeps ==
    ASSUME NEW s, LinkInv(s), NEW t \in s.setups, Links(s)!StoreSetup(t)
    PROVE  LinkInv(s)'
<1> DEFINE r == [setup[t] EXCEPT !.state = "LIVE"]
<1>1. setup[t].state = "SENDING" /\ UNCHANGED <<account, link, quiet, invite, toVerify, proved>>
  BY DEF Links!StoreSetup
<1>2. setup[t] # New /\ setup[t] \in Links(s)!SetupRow
  BY <1>1, SetupRows DEF New
<1>3. r \in SetupRow(s) /\ r # New /\ r.user = setup[t].user /\ r.mailed = setup[t].mailed
  BY <1>2 DEF Links!SetupRow, SetupRow, New
<1>4. setup' = [setup EXCEPT ![t] = r]
  BY Zenon DEF Links!StoreSetup
<1> HIDE DEF r
<1>5. setup \in [s.setups -> SetupRow(s)]
  BY DEF LinkInv, LinkTypes
<1>6. OneAtATime(s)'
  BY <1>1, UnsentMeans DEF OneAtATime
<1> QED
  BY <1>1, <1>2, <1>3, <1>4, <1>5, <1>6, SetupsChangeState DEF LinkInv, LinkTypes

LEMMA EndKeeps ==
    ASSUME NEW s, LinkInv(s), NEW t \in s.setups, Links(s)!EndSetup(t)
    PROVE  LinkInv(s)'
<1> DEFINE r == [setup[t] EXCEPT !.state = "SPENT"]
<1>1. setup[t].state = "LIVE" /\ UNCHANGED <<account, link, quiet, invite, toVerify, proved>>
  BY DEF Links!EndSetup
<1>2. setup[t] # New /\ setup[t] \in Links(s)!SetupRow
  BY <1>1, SetupRows DEF New
<1>3. r \in SetupRow(s) /\ r # New /\ r.user = setup[t].user /\ r.mailed = setup[t].mailed /\ r.state = "SPENT"
  BY <1>2 DEF Links!SetupRow, SetupRow, New
<1>4. setup' = [setup EXCEPT ![t] = r]
  BY Zenon DEF Links!EndSetup
<1> HIDE DEF r
<1>5. setup \in [s.setups -> SetupRow(s)]
  BY DEF LinkInv, LinkTypes
<1>6. OneAtATime(s)'
  BY <1>3, <1>4, <1>5 DEF OneAtATime, Links!OneLiveSetup, LinkInv
<1> QED
  BY <1>1, <1>2, <1>3, <1>4, <1>5, <1>6, SetupsChangeState DEF LinkInv, LinkTypes

LEMMA SpentIsOne ==
    ASSUME NEW s, LinkInv(s), NEW u, setup' = Links(s)!Spending(u)
    PROVE  OneAtATime(s)'
<1>1. \A k \in s.setups :
          /\ setup'[k].state = "LIVE" => setup[k].state = "LIVE" /\ setup[k].user = setup'[k].user
          /\ setup'[k].state = "SENDING" => setup[k].state = "SENDING"
  <2> SUFFICES ASSUME NEW k \in s.setups
               PROVE  /\ setup'[k].state = "LIVE" => setup[k].state = "LIVE" /\ setup[k].user = setup'[k].user
                      /\ setup'[k].state = "SENDING" => setup[k].state = "SENDING"
    OBVIOUS
  <2>1. /\ setup'[k].state = "LIVE" => setup[k].state = "LIVE"
        /\ setup'[k].state = "SENDING" => setup[k].state = "SENDING"
        /\ setup[k] # New => setup'[k].user = setup[k].user
    BY LiveOnesEnd
  <2>2. setup[k].state = "LIVE" => setup[k] # New
    BY DEF New
  <2> QED
    BY <2>1, <2>2
<1> QED
  BY <1>1 DEF OneAtATime, Links!OneLiveSetup, LinkInv

LEMMA RevokeKeeps ==
    ASSUME NEW s, LinkInv(s), NEW u \in s.accounts, Links(s)!Revoke(u)
    PROVE  LinkInv(s)'
<1>1. /\ invite[u] \in {"SENT", "ACCEPTED"} /\ invite' = [invite EXCEPT ![u] = "REVOKED"]
      /\ setup' = setup \/ setup' = Links(s)!Spending(u)
      /\ UNCHANGED <<account, link, quiet, toVerify, proved>>
  BY DEF Links!Revoke
<1>2. OneAtATime(s)'
  BY <1>1, SpentIsOne, OneStays DEF LinkInv
<1>3. invite' \in [s.accounts -> {"NONE", "SENT", "ACCEPTED", "REVOKED"}]
      /\ \A v \in s.accounts : invite'[v] # "NONE" => invite[v] # "NONE"
  BY <1>1 DEF LinkInv, LinkTypes
<1>4. setup' \in [s.setups -> SetupRow(s)]
  BY <1>1, LiveOnesEnd DEF LinkInv, LinkTypes
<1>5. \A k \in s.setups :
          /\ setup[k] = New => setup'[k] = New
          /\ setup[k] # New => setup'[k] # New /\ setup'[k].user = setup[k].user /\ setup'[k].mailed = setup[k].mailed
  BY <1>1, LiveOnesEnd
<1> QED
  BY <1>1, <1>2, <1>3, <1>4, <1>5, SetupsChangeState

LEMMA ConfirmSetupKeeps ==
    ASSUME NEW s, LinkInv(s), NEW t \in s.setups, Links(s)!ConfirmSetup(t)
    PROVE  LinkInv(s)'
<1> DEFINE u == setup[t].user
           r == [account[u] EXCEPT !.hasPassword = TRUE]
<1>1. /\ setup[t].state = "LIVE" /\ setup' = Links(s)!Spending(u) /\ UNCHANGED <<link, quiet, invite>>
      /\ proved' = proved \cup {<<u, setup[t].mailed>>} /\ toVerify' = toVerify \cup {t}
  BY DEF Links!ConfirmSetup
<1>2. setup[t] # New /\ u \in s.accounts /\ setup[t].mailed \in s.addresses
  BY <1>1, SetupRows DEF New
<1>3. /\ account[u] \in AccountRow(s) /\ account[u].email # "NO_ADDRESS"
      /\ account[u].email = setup[t].mailed \/ <<u, account[u].email>> \in proved
  BY <1>2 DEF LinkInv, LinkTypes, SetupsReachOwner
<1>4. /\ r \in AccountRow(s) /\ r.email = account[u].email /\ r.verified = account[u].verified
      /\ r.active = account[u].active
  BY <1>3 DEF AccountRow
<1>5. account' = [account EXCEPT ![u] = r]
  BY Zenon DEF Links!ConfirmSetup
<1>6. setup' \in [s.setups -> SetupRow(s)]
      /\ \A k \in s.setups : (setup[k] = New => setup'[k] = New) /\
            (setup[k] # New => setup'[k] # New /\ setup'[k].user = setup[k].user /\ setup'[k].mailed = setup[k].mailed)
  BY <1>1, LiveOnesEnd
<1>7. OneAtATime(s)'
  BY <1>1, SpentIsOne
<1> HIDE DEF r
<1>8. \A v \in s.accounts : /\ account'[v].email = account[v].email /\ account'[v].active = account[v].active
                            /\ account'[v].verified = account[v].verified
  BY <1>2, <1>4, <1>5 DEF LinkInv, LinkTypes
<1>9. LinkTypes(s)'
  <2>1. account' \in [s.accounts -> AccountRow(s)]
    BY <1>2, <1>4, <1>5 DEF LinkInv, LinkTypes
  <2>2. proved' \subseteq s.accounts \X s.addresses /\ toVerify' \subseteq s.setups
    BY <1>1, <1>2 DEF LinkInv, LinkTypes
  <2> QED
    BY <1>1, <1>6, <2>1, <2>2 DEF LinkInv, LinkTypes, AccountRow, MailRow, SetupRow, Links!LinkRow, Links!SetupRow
<1>10. UsersExist(s)' /\ MailedWhereAsked(s)'
  BY <1>1, <1>8 DEF UsersExist, MailedWhereAsked, LinkInv
<1>11. \A v \in s.accounts : account[v].email # "NO_ADDRESS" =>
          /\ account'[v].email # "NO_ADDRESS"
          /\ account'[v].email = account[v].email \/ <<v, account'[v].email>> \in proved'
  BY <1>8
<1>12. \A v \in s.accounts : account'[v].verified =>
          \/ account[v].verified /\ account'[v].email = account[v].email
          \/ <<v, account'[v].email>> \in proved'
  BY <1>8
<1>13. \A k \in s.setups : setup'[k] # New =>
          \/ setup[k] # New /\ setup'[k].user = setup[k].user /\ setup'[k].mailed = setup[k].mailed
          \/ account'[setup'[k].user].email = setup'[k].mailed /\ setup'[k].mailed # "NO_ADDRESS"
  BY <1>6
<1>14. \A k \in toVerify' : setup'[k] # New /\
          \/ k \in toVerify /\ setup'[k].user = setup[k].user
          \/ <<setup'[k].user, account'[setup'[k].user].email>> \in proved'
  <2>1. <<setup'[t].user, account'[setup'[t].user].email>> \in proved' /\ setup'[t] # New
    BY <1>1, <1>2, <1>3, <1>6, <1>8
  <2>2. \A k \in toVerify : k \in s.setups /\ setup[k] # New
    BY DEF LinkInv, LinkTypes, MarkedLater
  <2> QED
    BY <1>1, <1>6, <2>1, <2>2
<1>15. proved \subseteq proved'
  BY <1>1
<1>16. SetupsReachOwner(s)' /\ MarkedLater(s)' /\ Links(s)!VerifiedMeansProved'
  BY <1>9, <1>11, <1>12, <1>13, <1>14, <1>15, AddressesProved
<1> QED
  BY <1>7, <1>9, <1>10, <1>16 DEF LinkInv

LEMMA MarkKeeps ==
    ASSUME NEW s, Links(s)!AddressesNamed, LinkInv(s), NEW t \in s.setups, Links(s)!MarkVerified(t)
    PROVE  LinkInv(s)'
<1> DEFINE u == setup[t].user
           r == [account[u] EXCEPT !.verified = TRUE]
<1>1. /\ t \in toVerify /\ toVerify' = toVerify \ {t}
      /\ UNCHANGED <<link, setup, quiet, invite, proved>>
  BY DEF Links!MarkVerified
<1>2. setup[t] # New /\ u \in s.accounts /\ <<u, account[u].email>> \in proved
  BY <1>1, SetupRows DEF LinkInv, MarkedLater
<1>3. account[u] \in AccountRow(s) /\ account[u].email # "NO_ADDRESS"
  BY <1>2 DEF LinkInv, LinkTypes, SetupsReachOwner
<1>4. r \in AccountRow(s) /\ r.email = account[u].email
  BY <1>3 DEF AccountRow
<1>5. account' = [account EXCEPT ![u] = r]
  BY Zenon DEF Links!MarkVerified
<1> HIDE DEF r, u
<1>6. link' \in [s.links -> MailRow(s)] /\ MailedWhereAsked(s)'
  BY <1>1, KeptRows
<1>7. proved' \subseteq s.accounts \X s.addresses /\ quiet' \subseteq s.addresses
  BY <1>1 DEF LinkInv, LinkTypes
<1> QED
  BY <1>1, <1>2, <1>3, <1>4, <1>5, <1>6, <1>7, OneAccount

LEMMA DieKeeps ==
    ASSUME NEW s, LinkInv(s), Links(s)!Die
    PROVE  LinkInv(s)'
<1>1. toVerify' = {} /\ UNCHANGED <<account, link, setup, quiet, invite, proved>>
  BY DEF Links!Die
<1>2. LinkTypes(s)'
  BY <1>1 DEF LinkInv, LinkTypes, AccountRow, MailRow, SetupRow, Links!LinkRow, Links!SetupRow
<1>3. UsersExist(s)' /\ MailedWhereAsked(s)' /\ OneAtATime(s)'
  BY <1>1, UsersStay, OneStays DEF LinkInv, MailedWhereAsked
<1>4. SetupsReachOwner(s)' /\ MarkedLater(s)' /\ Links(s)!VerifiedMeansProved'
  BY <1>1 DEF LinkInv, SetupsReachOwner, MarkedLater, Links!VerifiedMeansProved
<1> QED
  BY <1>2, <1>3, <1>4 DEF LinkInv

LEMMA InviteKeeps ==
    ASSUME NEW s, Links(s)!AddressesNamed, LinkInv(s), NEW u \in s.accounts, NEW t \in s.setups,
           NEW a \in s.addresses, Links(s)!Invite(u, t, a)
    PROVE  LinkInv(s)'
<1> DEFINE r == Links(s)!NewAccount(a, FALSE)
<1>1. r \in AccountRow(s) /\ r.email = a /\ ~r.verified
  BY DEF Links!NewAccount, AccountRow
<1>2. a # "NO_ADDRESS"
  BY DEF Links!AddressesNamed, Links!NoAddress
<1>3. /\ \/ account[u].email = a /\ account' = account
         \/ account[u].email = "NO_ADDRESS" /\ account' = [account EXCEPT ![u] = r]
      /\ UNCHANGED <<link, quiet, toVerify, proved>>
      /\ \/ invite' = [invite EXCEPT ![u] = "ACCEPTED"] /\ setup' = setup
         \/ invite' = [invite EXCEPT ![u] = "SENT"] /\ setup[t] = New /\ Links(s)!Sending(u, t, "LIVE", a)
  BY DEF Links!Invite, Links!Exists, Links!NoAddress, Links!NewLink, New
<1> HIDE DEF r
<1>4. account'[u].email = a /\ \A v \in s.accounts \ {u} : account'[v] = account[v]
  BY <1>1, <1>3 DEF LinkInv, LinkTypes
<1>5. /\ \A v \in s.accounts : account[v].email # "NO_ADDRESS" => account'[v] = account[v]
      /\ \A v \in s.accounts : account'[v].verified => account'[v] = account[v]
  BY <1>1, <1>2, <1>3, <1>4 DEF LinkInv, LinkTypes
<1>6. invite' \in [s.accounts -> {"NONE", "SENT", "ACCEPTED", "REVOKED"}]
      /\ \A v \in s.accounts \ {u} : invite'[v] = invite[v]
  BY <1>3 DEF LinkInv, LinkTypes
<1>7. /\ setup' \in [s.setups -> SetupRow(s)] /\ OneAtATime(s)'
      /\ \A k \in s.setups : setup[k] # New => setup'[k] # New /\ setup'[k].user = setup[k].user
                                               /\ setup'[k].mailed = setup[k].mailed
      /\ \A k \in s.setups : setup'[k] # New /\ setup[k] = New =>
            setup'[k].user = u /\ setup'[k].mailed = a
  <2>1. CASE setup' = setup
    BY <2>1, OneStays DEF LinkInv, LinkTypes, SetupRow, Links!SetupRow
  <2>2. CASE setup[t] = New /\ Links(s)!Sending(u, t, "LIVE", a)
    BY <2>2, SendingKeeps
  <2> QED
    BY <1>3, <2>1, <2>2
<1>8. LinkTypes(s)'
  <2>1. account' \in [s.accounts -> AccountRow(s)]
    BY <1>1, <1>3 DEF LinkInv, LinkTypes
  <2> QED
    BY <1>3, <1>6, <1>7, <2>1 DEF LinkInv, LinkTypes, AccountRow, MailRow, SetupRow, Links!LinkRow, Links!SetupRow
<1>9. UsersExist(s)'
  BY <1>2, <1>4, <1>6 DEF UsersExist, LinkInv
<1>10. \A k \in s.setups : setup'[k] # New /\ setup[k] = New =>
          account'[setup'[k].user].email = setup'[k].mailed /\ setup'[k].mailed # "NO_ADDRESS"
  BY <1>2, <1>4, <1>7
<1> QED
  BY <1>3, <1>5, <1>7, <1>8, <1>9, <1>10, SetupsSent

LEMMA SignedInHasAddress ==
    ASSUME NEW s, LinkInv(s), NEW u \in s.accounts, account[u].active
    PROVE  account[u].email \in s.addresses
BY DEF LinkInv, LinkTypes, UsersExist, AccountRow

LEMMA LinkStep ==
    ASSUME NEW s, Links(s)!AddressesNamed, LinkInv(s), Links(s)!Next
    PROVE  LinkInv(s)'
<1> DEFINE Goal == LinkInv(s)'
<1> SUFFICES Goal
  OBVIOUS
<1>1. ASSUME NEW u \in s.accounts, Links(s)!Vouch(u) \/ Links(s)!Revoke(u) PROVE Goal
  BY <1>1, VouchKeeps, RevokeKeeps
<1>2. ASSUME NEW u \in s.accounts, NEW a \in s.addresses, NEW own \in BOOLEAN, Links(s)!Create(u, a, own)
      PROVE  Goal
  BY <1>2, CreateKeeps
<1>3. ASSUME NEW u \in s.accounts, NEW l \in s.links, Links(s)!RequestLink(u, l) PROVE Goal
  <2> DEFINE a == account[u].email
  <2>1. a \in s.addresses
    BY <1>3, SignedInHasAddress DEF Links!RequestLink, Links!Issue, Links!SignedIn
  <2>2. Links(s)!Issue(u, l, a, FALSE, a)
    BY <1>3 DEF Links!RequestLink
  <2> HIDE DEF a
  <2> QED
    BY <2>1, <2>2, IssueKeeps
<1>4. ASSUME NEW u \in s.accounts, NEW l \in s.links, NEW a \in s.addresses, Links(s)!RequestChange(u, l, a)
      PROVE  Goal
  BY <1>4, IssueKeeps DEF Links!RequestChange
<1>5. ASSUME NEW l \in s.links, Links(s)!Expire(l) \/ Links(s)!ConfirmVerify(l) \/ Links(s)!ConfirmChange(l)
                                 \/ Links(s)!DisputeChange(l)
      PROVE  Goal
  BY <1>5, ExpireKeeps, ConfirmVerifyKeeps, ConfirmChangeKeeps, DisputeChangeKeeps
<1>6. ASSUME NEW l \in s.links, NEW removed \in BOOLEAN, Links(s)!DisputeSignUp(l, removed) PROVE Goal
  <2>1. CASE removed = TRUE
    BY <1>6, <2>1, RemovalKeeps
  <2>2. CASE removed = FALSE
    BY <1>6, <2>2, SwitchOffKeeps
  <2> QED
    BY <2>1, <2>2
<1>7. ASSUME NEW u \in s.accounts, NEW t \in s.setups, Links(s)!IssueSetup(u, t) \/ Links(s)!Resend(u, t)
      PROVE  Goal
  BY <1>7, IssueSetupKeeps, ResendKeeps
<1>8. ASSUME NEW u \in s.accounts, NEW t \in s.setups, NEW a \in s.addresses, Links(s)!Invite(u, t, a)
      PROVE  Goal
  BY <1>8, InviteKeeps
<1>9. ASSUME NEW t \in s.setups, \/ Links(s)!StoreSetup(t) \/ Links(s)!EndSetup(t)
                                 \/ Links(s)!ConfirmSetup(t) \/ Links(s)!MarkVerified(t)
      PROVE  Goal
  BY <1>9, StoreKeeps, EndKeeps, ConfirmSetupKeeps, MarkKeeps
<1>10. CASE Links(s)!Die
  BY <1>10, DieKeeps
<1> HIDE DEF Goal
<1>11. CASE Links(s)!Verification
  BY <1>3, <1>4, <1>5, <1>6, <1>11 DEF Links!Verification
<1>12. CASE Links(s)!Passwords
  BY <1>7, <1>8, <1>9, <1>10, <1>12 DEF Links!Passwords
<1> QED
  BY <1>1, <1>2, <1>11, <1>12 DEF Links!Next

-----------------------------------------------------------------------------
(* Imports.                                                                *)

NoTry == [status |-> "NEW"]
TryRow(s) == {NoTry} \cup
    [status : {"PREVIEWED", "COMMITTED"}, domain : s.domains, eligible : BOOLEAN, expired : BOOLEAN]
MarkNames == {"NONE", "VALID", "INVALID", "DONE", "CONFLICT"}

FileTypes(s) ==
    /\ file \in [s.rows -> s.keys \cup {"BLANK"}] /\ undated \subseteq s.keys
    /\ attempt \in [s.attempts -> TryRow(s)]
    /\ progress \in [s.attempts -> {"NEW", "SAVED", "CUT", "CREATED", "FILLED"}]
    /\ row \in [s.attempts -> [s.rows -> MarkNames]]
    /\ checked \subseteq s.attempts /\ unseen \in [s.attempts -> SUBSET s.keys]
    /\ count \in [{"USERS", "EVENTS"} -> [s.keys -> Nat]]
    /\ made \in [s.attempts -> [s.rows -> Nat]]
    /\ backup \in {"AWAITING", "READY", "PARTIALLY_IMPORTED", "ARCHIVED_RAW"}
    /\ formGone \in BOOLEAN

\* Rows recognised by a key, and found valid or imported, have one.
ValidRowsNamed(s) ==
    \A t \in s.attempts, r \in s.rows :
        attempt[t] # NoTry /\ attempt[t].domain \in Files(s)!Keyed /\ row[t][r] \in {"VALID", "DONE"}
            => file[r] # "BLANK"

\* An attempt is stored before anything is done for it.
NewIsEmpty(s) ==
    \A t \in s.attempts :
        /\ progress[t] = "NEW" <=> attempt[t] = NoTry
        /\ attempt[t] = NoTry => \A r \in s.rows : row[t][r] = "NONE" /\ made[t][r] = 0

CheckedAreGood(s) == \A t \in checked : attempt[t] # NoTry /\ attempt[t].eligible

\* One request at a time: no preview meets a commit, so no commit is undone
\* by a preview that saves its attempt, and none is accepted twice.
OneRequestRuns(s) ==
    /\ checked = {} \/ \A t \in s.attempts : progress[t] \in {"NEW", "SAVED", "CUT"}
    /\ \A t \in checked : attempt[t].status = "PREVIEWED"
    /\ \A t \in s.attempts : progress[t] \in {"CREATED", "FILLED"} => attempt[t].status = "PREVIEWED"

FileInv(s) ==
    /\ FileTypes(s) /\ ValidRowsNamed(s) /\ NewIsEmpty(s) /\ CheckedAreGood(s)
    /\ Files(s)!KeyedOnce /\ Files(s)!DoneIsThere
    /\ s.overlap \/ (OneRequestRuns(s) /\ Files(s)!CommitIsWhole)

LEMMA FileInvGives ==
    ASSUME NEW s, FileInv(s)
    PROVE  Files(s)!TypeOK /\ Files(s)!ImportsAreWhole
BY DEF FileInv, FileTypes, TryRow, NoTry, MarkNames, Files!TypeOK, Files!ImportsAreWhole, Files!Blank,
       Files!NoAttempt, Files!Kinds, Files!Ended, Files!Marks

LEMMA FileInitHolds ==
    ASSUME NEW s, Files(s)!KeysNamed, Files(s)!Init
    PROVE  FileInv(s)
<1> USE DEF Files!Init, Files!Blank, Files!NoAttempt, Files!Kinds, NoTry
<1>0. count \in [{"USERS", "EVENTS"} -> [s.keys -> Nat]]
  <2>1. PICK known : count = [k \in {"USERS", "EVENTS"} |-> [x \in s.keys |-> IF x \in known THEN 1 ELSE 0]]
    OBVIOUS
  <2> QED
    BY <2>1
<1>00. undated \subseteq s.keys
  BY DEF Files!KeysNamed
<1>1. FileTypes(s)
  BY <1>0, <1>00 DEF FileTypes, TryRow, MarkNames
<1>2. ValidRowsNamed(s) /\ NewIsEmpty(s) /\ CheckedAreGood(s)
  BY DEF ValidRowsNamed, NewIsEmpty, CheckedAreGood
<1>3. Files(s)!KeyedOnce /\ Files(s)!DoneIsThere
  BY DEF Files!KeyedOnce, Files!DoneIsThere
<1>4. OneRequestRuns(s) /\ Files(s)!CommitIsWhole
  BY DEF OneRequestRuns, Files!CommitIsWhole
<1> QED
  BY <1>1, <1>2, <1>3, <1>4 DEF FileInv

LEMMA FileStutter ==
    ASSUME NEW s, FileInv(s),
           UNCHANGED <<file, undated, attempt, progress, row, checked, unseen, count, made, backup, formGone>>
    PROVE  FileInv(s)'
BY DEF FileInv, FileTypes, TryRow, ValidRowsNamed, NewIsEmpty, CheckedAreGood, OneRequestRuns,
       Files!KeyedOnce, Files!DoneIsThere, Files!CommitIsWhole, Files!Keyed, Files!Kinds, Files!KindOf

LEMMA MarksAreMarks ==
    ASSUME NEW s, NEW valid
    PROVE  /\ Files(s)!Marked(valid) \in [s.rows -> MarkNames]
           /\ \A r \in s.rows : /\ Files(s)!Marked(valid)[r] \in {"VALID", "INVALID"}
                                /\ Files(s)!Marked(valid)[r] = "VALID" => r \in valid
BY DEF Files!Marked, MarkNames

LEMMA ValidMeansNamed ==
    ASSUME NEW s, NEW d \in Files(s)!Keyed, NEW valid \in Files(s)!Valid(d), NEW r \in valid
    PROVE  file[r] # "BLANK"
BY DEF Files!Keyed, Files!Valid, Files!ValidUsers, Files!ValidEvents, Files!Blank

\* A preview begins, of a kind that stores its rows at once or of another.
LEMMA AttemptStored ==
    ASSUME NEW s, FileInv(s), NEW t \in s.attempts, NEW d \in s.domains, NEW eligible \in BOOLEAN,
           NEW p \in {"CREATED", "SAVED"}, s.overlap \/ p = "SAVED" \/ checked = {},
           attempt[t] = NoTry, attempt' = [attempt EXCEPT ![t] = Files(s)!NewAttempt(d, eligible)],
           progress' = [progress EXCEPT ![t] = p],
           \/ row' = row
           \/ \E valid \in Files(s)!Valid(d) : row' = [row EXCEPT ![t] = Files(s)!Marked(valid)],
           UNCHANGED <<file, undated, checked, unseen, count, made, backup, formGone>>
    PROVE  FileInv(s)'
<1> DEFINE a == Files(s)!NewAttempt(d, eligible)
<1>1. a \in TryRow(s) /\ a # NoTry /\ a.status = "PREVIEWED" /\ a.domain = d
  BY DEF Files!NewAttempt, TryRow, NoTry
<1> HIDE DEF a
<1>2. /\ attempt' = [attempt EXCEPT ![t] = a]
      /\ attempt'[t] = a /\ \A q \in s.attempts \ {t} : attempt'[q] = attempt[q]
  BY DEF FileInv, FileTypes, a
<1>3. progress'[t] = p /\ \A q \in s.attempts \ {t} : progress'[q] = progress[q]
  BY DEF FileInv, FileTypes
<1>4. /\ row' \in [s.attempts -> [s.rows -> MarkNames]]
      /\ \A q \in s.attempts \ {t} : row'[q] = row[q]
      /\ \A r \in s.rows : /\ row'[t][r] \in {"NONE", "VALID", "INVALID"}
                           /\ row'[t][r] = "VALID" /\ d \in Files(s)!Keyed => file[r] # "BLANK"
  <2>1. CASE row' = row
    BY <2>1 DEF FileInv, FileTypes, NewIsEmpty
  <2>2. CASE \E valid \in Files(s)!Valid(d) : row' = [row EXCEPT ![t] = Files(s)!Marked(valid)]
    <3>1. PICK valid \in Files(s)!Valid(d) : row' = [row EXCEPT ![t] = Files(s)!Marked(valid)]
      BY <2>2
    <3>2. row'[t] = Files(s)!Marked(valid)
      BY <3>1 DEF FileInv, FileTypes
    <3> QED
      BY <3>1, <3>2, MarksAreMarks, ValidMeansNamed DEF FileInv, FileTypes
  <2> QED
    BY <2>1, <2>2
<1>5. FileTypes(s)'
  BY <1>1, <1>2, <1>4 DEF FileInv, FileTypes, TryRow
<1>6. ValidRowsNamed(s)'
  BY <1>1, <1>2, <1>4 DEF FileInv, ValidRowsNamed, Files!Keyed
<1>7. NewIsEmpty(s)' /\ CheckedAreGood(s)'
  BY <1>1, <1>2, <1>3, <1>4 DEF FileInv, NewIsEmpty, CheckedAreGood, FileTypes
<1>8. Files(s)!KeyedOnce' /\ Files(s)!DoneIsThere'
  BY <1>2, <1>4 DEF FileInv, Files!KeyedOnce, Files!DoneIsThere, Files!Keyed, Files!KindOf, Files!Kinds
<1>9. ASSUME ~s.overlap PROVE OneRequestRuns(s)' /\ Files(s)!CommitIsWhole'
  <2>1. OneRequestRuns(s)'
    BY <1>1, <1>2, <1>3, <1>9 DEF FileInv, OneRequestRuns, CheckedAreGood, FileTypes
  <2>2. \A q \in s.attempts : attempt[q].status = "COMMITTED" => attempt'[q] = attempt[q]
    BY <1>2 DEF NoTry
  <2>3. \A r \in s.rows : made[t][r] = 0
    BY DEF FileInv, NewIsEmpty
  <2>4. \A q \in s.attempts : attempt'[q].status = "COMMITTED" => q # t
    BY <1>1, <1>2
  <2> QED
    BY <1>2, <1>4, <1>9, <2>1, <2>2, <2>3, <2>4 DEF FileInv, Files!CommitIsWhole
<1> QED
  BY <1>5, <1>6, <1>7, <1>8, <1>9 DEF FileInv

LEMMA QuietMeans ==
    ASSUME NEW s, Files(s)!Quiet
    PROVE  s.overlap \/ (checked = {} /\ \A t \in s.attempts : progress[t] \in {"NEW", "SAVED", "CUT"})
BY DEF Files!Quiet, Files!Ended

LEMMA FillKeeps ==
    ASSUME NEW s, FileInv(s), NEW t \in s.attempts, Files(s)!FillRows(t)
    PROVE  FileInv(s)'
<1>1. PICK valid \in Files(s)!Valid(attempt[t].domain) : row' = [row EXCEPT ![t] = Files(s)!Marked(valid)]
  BY DEF Files!FillRows
<1>2. /\ progress[t] = "CREATED" /\ progress' = [progress EXCEPT ![t] = "FILLED"]
      /\ UNCHANGED <<file, undated, attempt, checked, unseen, count, made, backup, formGone>>
  BY DEF Files!FillRows
<1>3. progress'[t] = "FILLED" /\ \A q \in s.attempts \ {t} : progress'[q] = progress[q]
  BY <1>2 DEF FileInv, FileTypes
<1>4. /\ row' \in [s.attempts -> [s.rows -> MarkNames]]
      /\ \A q \in s.attempts \ {t} : row'[q] = row[q]
      /\ \A r \in s.rows : /\ row'[t][r] \in {"VALID", "INVALID"}
                           /\ row'[t][r] = "VALID" /\ attempt[t].domain \in Files(s)!Keyed => file[r] # "BLANK"
  <2>1. row'[t] = Files(s)!Marked(valid)
    BY <1>1 DEF FileInv, FileTypes
  <2> QED
    BY <1>1, <2>1, MarksAreMarks, ValidMeansNamed DEF FileInv, FileTypes
<1>5. FileTypes(s)'
  BY <1>2, <1>4 DEF FileInv, FileTypes, TryRow
<1>6. ValidRowsNamed(s)'
  BY <1>2, <1>4 DEF FileInv, ValidRowsNamed, Files!Keyed
<1>7. NewIsEmpty(s)' /\ CheckedAreGood(s)'
  BY <1>2, <1>3, <1>4 DEF FileInv, NewIsEmpty, CheckedAreGood, FileTypes
<1>8. Files(s)!KeyedOnce' /\ Files(s)!DoneIsThere'
  BY <1>2, <1>4 DEF FileInv, Files!KeyedOnce, Files!DoneIsThere, Files!Keyed, Files!KindOf, Files!Kinds
<1>9. ASSUME ~s.overlap PROVE OneRequestRuns(s)' /\ Files(s)!CommitIsWhole'
  <2>1. attempt[t].status = "PREVIEWED"
    BY <1>2, <1>9 DEF FileInv, OneRequestRuns
  <2> QED
    BY <1>2, <1>3, <1>4, <1>9, <2>1 DEF FileInv, OneRequestRuns, Files!CommitIsWhole
<1> QED
  BY <1>5, <1>6, <1>7, <1>8, <1>9 DEF FileInv

LEMMA TryRows ==
    ASSUME NEW s, NEW a \in TryRow(s), a # NoTry, NEW st \in {"PREVIEWED", "COMMITTED"}
    PROVE  /\ [a EXCEPT !.status = st] \in TryRow(s) /\ [a EXCEPT !.status = st] # NoTry
           /\ [a EXCEPT !.status = st].status = st /\ [a EXCEPT !.status = st].domain = a.domain
           /\ [a EXCEPT !.status = st].eligible = a.eligible
           /\ [a EXCEPT !.expired = TRUE] \in TryRow(s) /\ [a EXCEPT !.expired = TRUE] # NoTry
           /\ [a EXCEPT !.expired = TRUE].status = a.status /\ [a EXCEPT !.expired = TRUE].domain = a.domain
           /\ [a EXCEPT !.expired = TRUE].eligible = a.eligible
BY DEF TryRow, NoTry

\* What keeps the domain, the verdict and the status of every attempt.
LEMMA AttemptsKeep ==
    ASSUME NEW s, FileInv(s), attempt' \in [s.attempts -> TryRow(s)],
           progress' \in [s.attempts -> {"NEW", "SAVED", "CUT", "CREATED", "FILLED"}],
           \A q \in s.attempts :
              /\ attempt'[q] = NoTry <=> attempt[q] = NoTry
              /\ attempt[q] # NoTry => /\ attempt'[q].domain = attempt[q].domain
                                       /\ attempt'[q].eligible = attempt[q].eligible
              /\ ~s.overlap => attempt'[q].status = attempt[q].status
              /\ progress'[q] = "NEW" <=> progress[q] = "NEW"
              /\ progress'[q] \in {"CREATED", "FILLED"} => progress[q] \in {"CREATED", "FILLED"},
           checked' \subseteq s.attempts, CheckedAreGood(s)', unseen' \in [s.attempts -> SUBSET s.keys],
           ~s.overlap => \A q \in checked' : attempt[q].status = "PREVIEWED",
           ~s.overlap => \/ checked' \subseteq checked
                         \/ \A q \in s.attempts : progress[q] \in {"NEW", "SAVED", "CUT"},
           backup' = backup \/ backup' = "READY",
           UNCHANGED <<file, undated, row, count, made, formGone>>
    PROVE  FileInv(s)'
<1>1. FileTypes(s)'
  BY DEF FileInv, FileTypes, TryRow
<1>2. ValidRowsNamed(s)'
  BY DEF FileInv, ValidRowsNamed, Files!Keyed
<1>3. NewIsEmpty(s)'
  BY DEF FileInv, NewIsEmpty
<1>4. Files(s)!KeyedOnce'
  BY DEF FileInv, Files!KeyedOnce, Files!Kinds
<1>5. Files(s)!DoneIsThere'
  <2>1. \A t \in s.attempts, r \in s.rows : row[t][r] = "DONE" => attempt'[t].domain = attempt[t].domain
    BY DEF FileInv, NewIsEmpty
  <2> QED
    BY <2>1 DEF FileInv, Files!DoneIsThere, Files!Keyed, Files!KindOf
<1>6. ASSUME ~s.overlap PROVE OneRequestRuns(s)' /\ Files(s)!CommitIsWhole'
  <2>1. OneRequestRuns(s)'
    BY <1>6 DEF FileInv, FileTypes, OneRequestRuns
  <2>2. \A q \in s.attempts : attempt[q].status = "COMMITTED" =>
            attempt'[q].domain = attempt[q].domain /\ attempt'[q].eligible = attempt[q].eligible
    BY DEF NoTry
  <2> QED
    BY <1>6, <2>1, <2>2 DEF FileInv, Files!CommitIsWhole
<1> QED
  BY <1>1, <1>2, <1>3, <1>4, <1>5, <1>6 DEF FileInv

LEMMA SaveKeeps ==
    ASSUME NEW s, FileInv(s), NEW t \in s.attempts, Files(s)!SavePreview(t)
    PROVE  FileInv(s)'
<1> DEFINE a == [attempt[t] EXCEPT !.status = "PREVIEWED"]
<1>1. /\ progress[t] = "FILLED" /\ progress' = [progress EXCEPT ![t] = "SAVED"] /\ backup' = "READY"
      /\ UNCHANGED <<file, undated, row, checked, unseen, count, made, formGone>>
  BY DEF Files!SavePreview
<1>2. attempt' = attempt \/ attempt' = [attempt EXCEPT ![t] = a]
  BY Zenon DEF Files!SavePreview
<1>3. attempt[t] \in TryRow(s) /\ attempt[t] # NoTry
  BY <1>1 DEF FileInv, FileTypes, NewIsEmpty
<1>4. /\ a \in TryRow(s) /\ a # NoTry /\ a.status = "PREVIEWED"
      /\ a.domain = attempt[t].domain /\ a.eligible = attempt[t].eligible
  BY <1>3 DEF TryRow, NoTry
<1>5. ~s.overlap => a.status = attempt[t].status
  BY <1>1, <1>4 DEF FileInv, OneRequestRuns
<1> HIDE DEF a
<1>6. attempt' \in [s.attempts -> TryRow(s)]
  BY <1>2, <1>4 DEF FileInv, FileTypes
<1>7. progress' \in [s.attempts -> {"NEW", "SAVED", "CUT", "CREATED", "FILLED"}]
  BY <1>1 DEF FileInv, FileTypes
<1>8. \A q \in s.attempts :
         /\ attempt'[q] = NoTry <=> attempt[q] = NoTry
         /\ attempt[q] # NoTry => /\ attempt'[q].domain = attempt[q].domain
                                  /\ attempt'[q].eligible = attempt[q].eligible
         /\ ~s.overlap => attempt'[q].status = attempt[q].status
         /\ progress'[q] = "NEW" <=> progress[q] = "NEW"
         /\ progress'[q] \in {"CREATED", "FILLED"} => progress[q] \in {"CREATED", "FILLED"}
  BY <1>1, <1>2, <1>3, <1>4, <1>5 DEF FileInv, FileTypes
<1>9. /\ checked' \subseteq s.attempts /\ CheckedAreGood(s)' /\ checked' \subseteq checked
      /\ unseen' \in [s.attempts -> SUBSET s.keys]
  BY <1>1, <1>8 DEF FileInv, FileTypes, CheckedAreGood
<1>10. ~s.overlap => \A q \in checked' : attempt[q].status = "PREVIEWED"
  BY <1>1 DEF FileInv, OneRequestRuns
<1> QED
  BY <1>1, <1>6, <1>7, <1>8, <1>9, <1>10, AttemptsKeep

LEMMA CutKeeps ==
    ASSUME NEW s, FileInv(s), NEW t \in s.attempts, Files(s)!CutPreview(t)
    PROVE  FileInv(s)'
<1>1. /\ progress[t] \in {"CREATED", "FILLED"} /\ progress' = [progress EXCEPT ![t] = "CUT"]
      /\ UNCHANGED <<file, undated, attempt, row, checked, unseen, count, made, backup, formGone>>
  BY DEF Files!CutPreview
<1>2. attempt' \in [s.attempts -> TryRow(s)]
      /\ progress' \in [s.attempts -> {"NEW", "SAVED", "CUT", "CREATED", "FILLED"}]
  BY <1>1 DEF FileInv, FileTypes, TryRow
<1>3. \A q \in s.attempts :
         /\ attempt'[q] = NoTry <=> attempt[q] = NoTry
         /\ attempt[q] # NoTry => /\ attempt'[q].domain = attempt[q].domain
                                  /\ attempt'[q].eligible = attempt[q].eligible
         /\ ~s.overlap => attempt'[q].status = attempt[q].status
         /\ progress'[q] = "NEW" <=> progress[q] = "NEW"
         /\ progress'[q] \in {"CREATED", "FILLED"} => progress[q] \in {"CREATED", "FILLED"}
  BY <1>1 DEF FileInv, FileTypes
<1>4. /\ checked' \subseteq s.attempts /\ CheckedAreGood(s)' /\ checked' \subseteq checked
      /\ unseen' \in [s.attempts -> SUBSET s.keys]
  BY <1>1 DEF FileInv, FileTypes, CheckedAreGood
<1>5. ~s.overlap => \A q \in checked' : attempt[q].status = "PREVIEWED"
  BY <1>1 DEF FileInv, OneRequestRuns
<1> QED
  BY <1>1, <1>2, <1>3, <1>4, <1>5, AttemptsKeep

LEMMA ExpiryKeeps ==
    ASSUME NEW s, FileInv(s), NEW t \in s.attempts, Files(s)!Expire(t)
    PROVE  FileInv(s)'
<1> DEFINE a == [attempt[t] EXCEPT !.expired = TRUE]
<1>1. /\ attempt[t].status = "PREVIEWED"
      /\ UNCHANGED <<file, undated, progress, row, checked, unseen, count, made, backup, formGone>>
  BY DEF Files!Expire
<1>2. attempt' = [attempt EXCEPT ![t] = a]
  BY Zenon DEF Files!Expire
<1>3. attempt[t] \in TryRow(s) /\ attempt[t] # NoTry
  BY <1>1 DEF FileInv, FileTypes, NoTry
<1>4. /\ a \in TryRow(s) /\ a # NoTry /\ a.status = attempt[t].status
      /\ a.domain = attempt[t].domain /\ a.eligible = attempt[t].eligible
  BY <1>3 DEF TryRow, NoTry
<1> HIDE DEF a
<1>5. attempt' \in [s.attempts -> TryRow(s)]
      /\ progress' \in [s.attempts -> {"NEW", "SAVED", "CUT", "CREATED", "FILLED"}]
  BY <1>1, <1>2, <1>4 DEF FileInv, FileTypes
<1>6. \A q \in s.attempts :
         /\ attempt'[q] = NoTry <=> attempt[q] = NoTry
         /\ attempt[q] # NoTry => /\ attempt'[q].domain = attempt[q].domain
                                  /\ attempt'[q].eligible = attempt[q].eligible
         /\ ~s.overlap => attempt'[q].status = attempt[q].status
         /\ progress'[q] = "NEW" <=> progress[q] = "NEW"
         /\ progress'[q] \in {"CREATED", "FILLED"} => progress[q] \in {"CREATED", "FILLED"}
  BY <1>1, <1>2, <1>3, <1>4 DEF FileInv, FileTypes
<1>7. /\ checked' \subseteq s.attempts /\ CheckedAreGood(s)' /\ checked' \subseteq checked
      /\ unseen' \in [s.attempts -> SUBSET s.keys]
  BY <1>1, <1>6 DEF FileInv, FileTypes, CheckedAreGood
<1>8. ~s.overlap => \A q \in checked' : attempt[q].status = "PREVIEWED"
  BY <1>1 DEF FileInv, OneRequestRuns
<1> QED
  BY <1>1, <1>5, <1>6, <1>7, <1>8, AttemptsKeep

LEMMA CheckKeeps ==
    ASSUME NEW s, FileInv(s), NEW t \in s.attempts, Files(s)!BeginCommit(t) \/ Files(s)!AbandonCommit(t)
    PROVE  FileInv(s)'
<1>1. UNCHANGED <<file, undated, attempt, progress, row, count, made, backup, formGone>>
  BY DEF Files!BeginCommit, Files!AbandonCommit
<1>2. attempt' \in [s.attempts -> TryRow(s)]
      /\ progress' \in [s.attempts -> {"NEW", "SAVED", "CUT", "CREATED", "FILLED"}]
  BY <1>1 DEF FileInv, FileTypes, TryRow
<1>3. \A q \in s.attempts :
         /\ attempt'[q] = NoTry <=> attempt[q] = NoTry
         /\ attempt[q] # NoTry => /\ attempt'[q].domain = attempt[q].domain
                                  /\ attempt'[q].eligible = attempt[q].eligible
         /\ ~s.overlap => attempt'[q].status = attempt[q].status
         /\ progress'[q] = "NEW" <=> progress[q] = "NEW"
         /\ progress'[q] \in {"CREATED", "FILLED"} => progress[q] \in {"CREATED", "FILLED"}
  BY <1>1
<1>6. unseen' \in [s.attempts -> SUBSET s.keys]
  <2>1. PICK new \in SUBSET s.keys : unseen' = [unseen EXCEPT ![t] = new]
    BY DEF Files!BeginCommit, Files!AbandonCommit, Files!NoEvents
  <2> QED
    BY <2>1 DEF FileInv, FileTypes
<1>4. CASE Files(s)!BeginCommit(t)
  <2>1. /\ checked' = checked \cup {t} /\ attempt[t].status = "PREVIEWED" /\ attempt[t].eligible
        /\ s.overlap \/ (checked = {} /\ \A q \in s.attempts : progress[q] \in {"NEW", "SAVED", "CUT"})
    BY <1>4, QuietMeans DEF Files!BeginCommit, Files!AcceptCommit
  <2>2. attempt[t] # NoTry
    BY <2>1 DEF NoTry
  <2>3. checked' \subseteq s.attempts /\ CheckedAreGood(s)'
    BY <1>1, <2>1, <2>2 DEF FileInv, FileTypes, CheckedAreGood
  <2>4. ~s.overlap => /\ \A q \in checked' : attempt[q].status = "PREVIEWED"
                      /\ \A q \in s.attempts : progress[q] \in {"NEW", "SAVED", "CUT"}
    BY <2>1
  <2> QED
    BY <1>1, <1>2, <1>3, <1>6, <2>3, <2>4, AttemptsKeep
<1>5. CASE Files(s)!AbandonCommit(t)
  <2>1. checked' = checked \ {t}
    BY <1>5 DEF Files!AbandonCommit
  <2>2. checked' \subseteq s.attempts /\ CheckedAreGood(s)' /\ checked' \subseteq checked
    BY <1>1, <2>1 DEF FileInv, FileTypes, CheckedAreGood
  <2>3. ~s.overlap => \A q \in checked' : attempt[q].status = "PREVIEWED"
    BY <2>1 DEF FileInv, OneRequestRuns
  <2> QED
    BY <1>1, <1>2, <1>3, <1>6, <2>2, <2>3, AttemptsKeep
<1> QED
  BY <1>4, <1>5

-----------------------------------------------------------------------------
(* A commit                                                                *)

\* No count falls, and what the rows imported name is there.
Grown(s, kind, done) ==
    /\ count' \in [{"USERS", "EVENTS"} -> [s.keys -> Nat]]
    /\ \A k \in {"USERS", "EVENTS"}, x \in s.keys : count'[k][x] >= count[k][x]
    /\ \A r \in done : file[r] # "BLANK" => count'[kind][file[r]] >= 1

LEMMA UsersGrow ==
    ASSUME NEW s, FileInv(s), NEW done \in SUBSET s.rows, Files(s)!GetOrMakeUsers(done), undated' = undated
    PROVE  Grown(s, "USERS", done) /\ Files(s)!KeyedOnce'
<1> DEFINE new == [x \in s.keys |-> IF count["USERS"][x] = 0 /\ \E r \in done : file[r] = x
                                    THEN 1 ELSE count["USERS"][x]]
<1>1. count' = [count EXCEPT !["USERS"] = new]
  BY DEF Files!GetOrMakeUsers
<1>2. \A x \in s.keys : count["USERS"][x] \in Nat /\ count["USERS"][x] <= 1
  BY DEF FileInv, FileTypes, Files!KeyedOnce
<1>3. \A x \in s.keys : /\ new[x] \in Nat /\ new[x] <= 1 /\ new[x] >= count["USERS"][x]
                        /\ (\E r \in done : file[r] = x) => new[x] >= 1
  BY <1>2
<1>4. new \in [s.keys -> Nat]
  BY <1>2
<1> HIDE DEF new
<1>5. /\ count' \in [{"USERS", "EVENTS"} -> [s.keys -> Nat]] /\ count'["USERS"] = new
      /\ count'["EVENTS"] = count["EVENTS"] /\ \A x \in s.keys : count["EVENTS"][x] \in Nat
  BY <1>1, <1>4 DEF FileInv, FileTypes
<1>6. \A r \in s.rows : file[r] # "BLANK" => file[r] \in s.keys
  BY DEF FileInv, FileTypes
<1>7. \A k \in {"USERS", "EVENTS"}, x \in s.keys : count'[k][x] >= count[k][x]
  BY <1>3, <1>5
<1>8. Grown(s, "USERS", done)
  BY <1>3, <1>5, <1>6, <1>7 DEF Grown
<1> QED
  BY <1>3, <1>5, <1>8 DEF FileInv, Files!KeyedOnce

LEMMA EventsGrow ==
    ASSUME NEW s, FileInv(s), NEW t, NEW done \in SUBSET s.rows, Files(s)!GetOrMakeEvents(t, done),
           undated' = undated
    PROVE  Grown(s, "EVENTS", done) /\ Files(s)!KeyedOnce'
<1>1. PICK more \in [s.keys -> 0..Files(s)!Cardinality(s.rows)] :
         /\ \A x \in s.keys : more[x] \in Files(s)!MadeWithKey(t, x, done)
         /\ count' = [count EXCEPT !["EVENTS"] = [x \in s.keys |-> count["EVENTS"][x] + more[x]]]
  BY DEF Files!GetOrMakeEvents
<1> DEFINE new == [x \in s.keys |-> count["EVENTS"][x] + more[x]]
<1>2. \A x \in s.keys :
         /\ count["EVENTS"][x] \in Nat /\ more[x] \in Nat
         /\ count["EVENTS"][x] = 0 /\ (\E r \in done : file[r] = x) => more[x] >= 1
         /\ x \notin undated /\ ~s.overlap =>
               count["EVENTS"][x] <= 1 /\ more[x] <= 1 /\ (more[x] = 0 \/ count["EVENTS"][x] = 0)
  <2> SUFFICES ASSUME NEW x \in s.keys
               PROVE  /\ count["EVENTS"][x] \in Nat /\ more[x] \in Nat
                      /\ count["EVENTS"][x] = 0 /\ (\E r \in done : file[r] = x) => more[x] >= 1
                      /\ x \notin undated /\ ~s.overlap =>
                            count["EVENTS"][x] <= 1 /\ more[x] <= 1 /\ (more[x] = 0 \/ count["EVENTS"][x] = 0)
    OBVIOUS
  <2>1. more[x] \in Files(s)!MadeWithKey(t, x, done)
    BY <1>1
  <2> QED
    BY <2>1 DEF Files!MadeWithKey, FileInv, FileTypes, Files!KeyedOnce
<1>3. \A x \in s.keys : /\ new[x] \in Nat /\ new[x] >= count["EVENTS"][x]
                        /\ (\E r \in done : file[r] = x) => new[x] >= 1
                        /\ x \notin undated /\ ~s.overlap => new[x] <= 1
  BY <1>2
<1>4. new \in [s.keys -> Nat] /\ count' = [count EXCEPT !["EVENTS"] = new]
  BY <1>1, <1>2
<1> HIDE DEF new
<1>5. /\ count' \in [{"USERS", "EVENTS"} -> [s.keys -> Nat]] /\ count'["EVENTS"] = new
      /\ count'["USERS"] = count["USERS"] /\ \A x \in s.keys : count["USERS"][x] \in Nat
  BY <1>4 DEF FileInv, FileTypes
<1>6. \A r \in s.rows : file[r] # "BLANK" => file[r] \in s.keys
  BY DEF FileInv, FileTypes
<1>7. \A k \in {"USERS", "EVENTS"}, x \in s.keys : count'[k][x] >= count[k][x]
  BY <1>3, <1>5
<1>8. Grown(s, "EVENTS", done)
  BY <1>3, <1>5, <1>6, <1>7 DEF Grown
<1> QED
  BY <1>3, <1>5, <1>8 DEF FileInv, Files!KeyedOnce

LEMMA KeyedIsThere ==
    ASSUME NEW s, Files(s)!DoneIsThere, NEW t \in s.attempts, NEW r \in s.rows, row[t][r] = "DONE",
           attempt[t].domain \in Files(s)!Keyed
    PROVE  count[Files(s)!KindOf(attempt[t].domain)][file[r]] >= 1
BY DEF Files!DoneIsThere, Files!Keyed, Files!KindOf

\* What the commit of an attempt does, whatever its kind.
LEMMA CommitKeeps ==
    ASSUME NEW s, FileInv(s), NEW t \in checked, NEW done \in SUBSET s.rows, NEW failed \in SUBSET s.rows,
           done \cap failed = {}, Files(s)!Settle(t, done, failed),
           \A r \in s.rows : row[t][r] \in {"VALID", "DONE"} => r \in done \cup failed,
           count' \in [{"USERS", "EVENTS"} -> [s.keys -> Nat]], Files(s)!KeyedOnce',
           \A k \in {"USERS", "EVENTS"}, x \in s.keys : count'[k][x] >= count[k][x],
           \/ /\ attempt[t].domain \in Files(s)!Keyed /\ made' = made
              /\ \A r \in done : /\ file[r] # "BLANK"
                                 /\ count'[Files(s)!KindOf(attempt[t].domain)][file[r]] >= 1
           \/ attempt[t].domain \in {"FORMS", "RAW"} /\ Files(s)!Make(t, done),
           \/ backup' = backup
           \/ backup' = "PARTIALLY_IMPORTED" /\ attempt[t].domain \notin {"MEMBERS", "RAW"}
           \/ backup' = "ARCHIVED_RAW" /\ attempt[t].domain = "RAW"
    PROVE  FileInv(s)'
<1> DEFINE a == [attempt[t] EXCEPT !.status = "COMMITTED"]
<1>0. t \in s.attempts /\ attempt[t] \in TryRow(s) /\ attempt[t] # NoTry /\ attempt[t].eligible
  BY DEF FileInv, FileTypes, CheckedAreGood
<1>1. /\ a \in TryRow(s) /\ a # NoTry /\ a.status = "COMMITTED"
      /\ a.domain = attempt[t].domain /\ a.eligible = attempt[t].eligible
  BY <1>0 DEF TryRow, NoTry
<1>2. attempt' = [attempt EXCEPT ![t] = a]
  BY Zenon DEF Files!Settle
<1>3. /\ UNCHANGED <<file, undated, progress, formGone>> /\ checked' \subseteq checked
      /\ ~s.overlap => checked' = checked \ {t}
  BY DEF Files!Settle
<1> HIDE DEF a
<1>4. attempt'[t] = a /\ \A q \in s.attempts \ {t} : attempt'[q] = attempt[q]
  BY <1>0, <1>2 DEF FileInv, FileTypes
<1> DEFINE marks == [r \in s.rows |-> CASE r \in done -> "DONE"
                                        [] r \in failed -> "CONFLICT"
                                        [] OTHER -> row[t][r]]
<1>5. row' = [row EXCEPT ![t] = marks]
  BY DEF Files!Settle
<1>6. \A r \in s.rows : /\ marks[r] \in MarkNames /\ marks[r] # "VALID"
                        /\ marks[r] = "DONE" <=> r \in done
  <2> SUFFICES ASSUME NEW r \in s.rows
               PROVE  marks[r] \in MarkNames /\ marks[r] # "VALID" /\ (marks[r] = "DONE" <=> r \in done)
    OBVIOUS
  <2>1. row[t][r] \in MarkNames /\ (row[t][r] \in {"VALID", "DONE"} => r \in done \cup failed)
    BY <1>0 DEF FileInv, FileTypes
  <2>2. CASE r \in done
    BY <2>2 DEF MarkNames
  <2>3. CASE r \notin done /\ r \in failed
    BY <2>3 DEF MarkNames
  <2>4. CASE r \notin done /\ r \notin failed
    BY <2>1, <2>4
  <2> QED
    BY <2>2, <2>3, <2>4
<1>7. marks \in [s.rows -> MarkNames]
  BY <1>6
<1> HIDE DEF marks
<1>8. /\ row' \in [s.attempts -> [s.rows -> MarkNames]] /\ row'[t] = marks
      /\ \A q \in s.attempts \ {t} : row'[q] = row[q]
  BY <1>0, <1>5, <1>7 DEF FileInv, FileTypes
<1>9. made' \in [s.attempts -> [s.rows -> Nat]] /\ \A q \in s.attempts \ {t} : made'[q] = made[q]
  <2>1. CASE made' = made
    BY <2>1 DEF FileInv, FileTypes
  <2>2. CASE Files(s)!Make(t, done)
    <3> DEFINE more == [r \in s.rows |-> made[t][r] + (IF r \in done THEN 1 ELSE 0)]
    <3>1. made' = [made EXCEPT ![t] = more]
      BY <2>2 DEF Files!Make
    <3>2. more \in [s.rows -> Nat]
      BY <1>0 DEF FileInv, FileTypes
    <3> HIDE DEF more
    <3> QED
      BY <3>1, <3>2 DEF FileInv, FileTypes
  <2> QED
    BY <2>1, <2>2
<1>13. unseen' \in [s.attempts -> SUBSET s.keys]
  BY DEF Files!Settle, FileInv, FileTypes
<1>10. FileTypes(s)'
  BY <1>1, <1>2, <1>3, <1>8, <1>9, <1>13 DEF FileInv, FileTypes, TryRow
<1>11. ValidRowsNamed(s)'
  BY <1>0, <1>1, <1>3, <1>4, <1>6, <1>8 DEF FileInv, ValidRowsNamed, Files!Keyed
<1>12. NewIsEmpty(s)' /\ CheckedAreGood(s)'
  <2>1. NewIsEmpty(s)'
    <3>1. \A q \in s.attempts : attempt'[q] = NoTry => q # t /\ attempt[q] = NoTry
      BY <1>1, <1>4
    <3>2. \A q \in s.attempts : attempt'[q] # NoTry => attempt[q] # NoTry
      BY <1>0, <1>4
    <3> QED
      BY <1>3, <1>8, <1>9, <3>1, <3>2 DEF FileInv, NewIsEmpty
  <2>2. CheckedAreGood(s)'
    BY <1>1, <1>3, <1>4 DEF FileInv, FileTypes, CheckedAreGood
  <2> QED
    BY <2>1, <2>2
<1>14. ASSUME ~s.overlap PROVE \A r \in s.rows : made[t][r] = 0 /\ row[t][r] \notin {"DONE", "CONFLICT"}
  BY <1>0, <1>14 DEF FileInv, OneRequestRuns, Files!CommitIsWhole
<1>15. Files(s)!DoneIsThere'
  <2> DEFINE Is(q, r) == LET d == attempt'[q].domain
                         IN  CASE d \in Files(s)!Keyed -> count'[Files(s)!KindOf(d)][file[r]] >= 1
                               [] d = "FORMS" -> formGone \/ s.overlap \/ made'[q][r] = 1
                               [] OTHER -> s.overlap \/ made'[q][r] = 1
  <2>1. ASSUME NEW q \in s.attempts, NEW r \in s.rows, row'[q][r] = "DONE" PROVE Is(q, r)
    <3>1. CASE q = t /\ attempt[t].domain \in Files(s)!Keyed
      BY <1>1, <1>4, <1>6, <1>8, <2>1, <3>1 DEF Files!Keyed
    <3>2. CASE q = t /\ attempt[t].domain \notin Files(s)!Keyed
      <4>1. r \in done
        BY <1>6, <1>8, <2>1, <3>2
      <4>2. s.overlap \/ made'[t][r] = 1
        <5>1. Files(s)!Make(t, done)
          BY <3>2
        <5> QED
          BY <1>0, <1>14, <4>1, <5>1 DEF Files!Make, FileInv, FileTypes
      <4> QED
        BY <1>1, <1>4, <3>2, <4>2
    <3>3. CASE q # t
      <4>1. row[q][r] = "DONE" /\ attempt'[q] = attempt[q] /\ attempt[q] # NoTry /\ made'[q] = made[q]
        BY <1>4, <1>8, <1>9, <2>1, <3>3 DEF FileInv, NewIsEmpty
      <4>2. CASE attempt[q].domain \in Files(s)!Keyed
        <5> DEFINE k == Files(s)!KindOf(attempt[q].domain)
        <5>1. file[r] \in s.keys /\ k \in {"USERS", "EVENTS"}
          BY <4>1, <4>2 DEF FileInv, FileTypes, ValidRowsNamed, Files!KindOf
        <5>2. count[k][file[r]] >= 1
          BY <4>1, <4>2, KeyedIsThere DEF FileInv
        <5> HIDE DEF k
        <5>3. count'[k][file[r]] \in Nat /\ count[k][file[r]] \in Nat /\ count'[k][file[r]] >= count[k][file[r]]
          BY <5>1 DEF FileInv, FileTypes
        <5>4. count'[k][file[r]] >= 1
          BY <5>2, <5>3
        <5>5. count'[Files(s)!KindOf(attempt'[q].domain)][file[r]] >= 1 /\ attempt'[q].domain \in Files(s)!Keyed
          BY <4>1, <4>2, <5>4 DEF k
        <5> QED
          BY <5>5 DEF Files!Keyed, Files!KindOf
      <4>3. CASE attempt[q].domain \notin Files(s)!Keyed
        BY <4>1, <4>3 DEF FileInv, Files!DoneIsThere
      <4> QED
        BY <4>2, <4>3
    <3> QED
      BY <3>1, <3>2, <3>3
  <2> QED
    BY <1>3, <2>1 DEF Files!DoneIsThere, Files!Keyed, Files!KindOf
<1>16. ASSUME ~s.overlap PROVE OneRequestRuns(s)' /\ Files(s)!CommitIsWhole'
  <2>1. checked # {} /\ \A q \in s.attempts : progress[q] \in {"NEW", "SAVED", "CUT"}
    BY <1>16 DEF FileInv, OneRequestRuns
  <2>2. OneRequestRuns(s)'
    BY <1>0, <1>3, <1>4, <1>16, <2>1 DEF FileInv, FileTypes, OneRequestRuns
  <2>3. \A q \in s.attempts : attempt'[q].status # "COMMITTED" =>
            \A r \in s.rows : made'[q][r] = 0 /\ row'[q][r] \notin {"DONE", "CONFLICT"}
    <3> SUFFICES ASSUME NEW q \in s.attempts, attempt'[q].status # "COMMITTED"
                 PROVE  \A r \in s.rows : made'[q][r] = 0 /\ row'[q][r] \notin {"DONE", "CONFLICT"}
      OBVIOUS
    <3>1. q # t
      BY <1>1, <1>4
    <3>2. attempt[q].status # "COMMITTED" /\ row'[q] = row[q] /\ made'[q] = made[q]
      BY <1>4, <1>8, <1>9, <3>1
    <3> QED
      BY <1>16, <3>2 DEF FileInv, Files!CommitIsWhole
  <2>4. \A q \in s.attempts : attempt'[q].status = "COMMITTED" =>
            attempt'[q].eligible /\ \A r \in s.rows : row'[q][r] # "VALID"
    <3> SUFFICES ASSUME NEW q \in s.attempts, attempt'[q].status = "COMMITTED"
                 PROVE  attempt'[q].eligible /\ \A r \in s.rows : row'[q][r] # "VALID"
      OBVIOUS
    <3>1. CASE q = t
      BY <1>0, <1>1, <1>4, <1>6, <1>8, <3>1
    <3>2. CASE q # t
      BY <1>4, <1>8, <1>16, <3>2 DEF FileInv, Files!CommitIsWhole
    <3> QED
      BY <3>1, <3>2
  <2>5. \A q \in s.attempts : attempt[q].status = "COMMITTED" => attempt'[q] = attempt[q]
    BY <1>3, <1>4, <1>16 DEF FileInv, OneRequestRuns
  <2>6. backup' = "PARTIALLY_IMPORTED" =>
            \E q \in s.attempts : attempt'[q].status = "COMMITTED" /\ attempt'[q].domain \notin {"MEMBERS", "RAW"}
    BY <1>0, <1>1, <1>4, <1>16, <2>5 DEF FileInv, Files!CommitIsWhole
  <2>7. backup' = "ARCHIVED_RAW" =>
            \E q \in s.attempts : attempt'[q].status = "COMMITTED" /\ attempt'[q].domain = "RAW"
    BY <1>0, <1>1, <1>4, <1>16, <2>5 DEF FileInv, Files!CommitIsWhole
  <2> QED
    BY <2>2, <2>3, <2>4, <2>6, <2>7 DEF Files!CommitIsWhole
<1> QED
  BY <1>10, <1>11, <1>12, <1>15, <1>16 DEF FileInv

\* Accounts or events are found or made by the key of each row.
LEMMA KeyedCommitKeeps ==
    ASSUME NEW s, FileInv(s), NEW t \in checked, NEW kind \in {"USERS", "EVENTS"},
           attempt[t].domain \in Files(s)!Keyed, kind = Files(s)!KindOf(attempt[t].domain),
           NEW failed \in SUBSET Files(s)!ValidRows(t),
           Grown(s, kind, Files(s)!ValidRows(t) \ failed), Files(s)!KeyedOnce',
           Files(s)!Settle(t, Files(s)!ValidRows(t) \ failed, failed),
           made' = made,
           \/ backup' = backup
           \/ backup' = "PARTIALLY_IMPORTED" /\ attempt[t].domain \notin {"MEMBERS", "RAW"}
    PROVE  FileInv(s)'
<1> DEFINE done == Files(s)!ValidRows(t) \ failed
<1>1. t \in s.attempts /\ attempt[t] # NoTry
  BY DEF FileInv, FileTypes, CheckedAreGood
<1>2. /\ done \in SUBSET s.rows /\ failed \in SUBSET s.rows /\ done \cap failed = {}
      /\ \A r \in done : row[t][r] \in {"VALID", "DONE"}
      /\ \A r \in s.rows : row[t][r] \in {"VALID", "DONE"} => r \in done \cup failed
  BY DEF Files!ValidRows
<1>3. Grown(s, kind, done) /\ Files(s)!Settle(t, done, failed)
  OBVIOUS
<1> HIDE DEF done
<1>4. /\ count' \in [{"USERS", "EVENTS"} -> [s.keys -> Nat]]
      /\ \A k \in {"USERS", "EVENTS"}, x \in s.keys : count'[k][x] >= count[k][x]
      /\ \A r \in done : file[r] # "BLANK" => count'[kind][file[r]] >= 1
  BY <1>3 DEF Grown
<1>5. \A r \in done : file[r] # "BLANK" /\ count'[kind][file[r]] >= 1
  BY <1>1, <1>2, <1>4 DEF FileInv, ValidRowsNamed
<1>6. \A r \in done : file[r] # "BLANK" /\ count'[Files(s)!KindOf(attempt[t].domain)][file[r]] >= 1
  BY <1>5
<1> QED
  BY <1>2, <1>3, <1>4, <1>6, CommitKeeps

\* Answers and vault rows are made, one of each row.
LEMMA MakingCommitKeeps ==
    ASSUME NEW s, FileInv(s), NEW t \in checked, attempt[t].domain \in {"FORMS", "RAW"},
           NEW done \in SUBSET s.rows, NEW failed \in SUBSET s.rows, done \cap failed = {},
           \A r \in s.rows : row[t][r] \in {"VALID", "DONE"} => r \in done \cup failed,
           Files(s)!Make(t, done), Files(s)!Settle(t, done, failed), count' = count,
           \/ backup' = "PARTIALLY_IMPORTED" /\ attempt[t].domain = "FORMS"
           \/ backup' = "ARCHIVED_RAW" /\ attempt[t].domain = "RAW"
    PROVE  FileInv(s)'
<1>1. /\ count' \in [{"USERS", "EVENTS"} -> [s.keys -> Nat]]
      /\ \A k \in {"USERS", "EVENTS"}, x \in s.keys : count'[k][x] >= count[k][x]
  BY DEF FileInv, FileTypes
<1>2. Files(s)!KeyedOnce'
  BY DEF FileInv, Files!KeyedOnce, Files!Settle
<1> QED
  BY <1>1, <1>2, CommitKeeps

LEMMA CommitsKeep ==
    ASSUME NEW s, FileInv(s), NEW t \in checked, Files(s)!Commit(t)
    PROVE  FileInv(s)'
<1> DEFINE Goal == FileInv(s)'
<1> SUFFICES Goal
  OBVIOUS
<1>1. ASSUME NEW failed \in SUBSET Files(s)!ValidRows(t), Files(s)!CommitUsers(t, failed) PROVE Goal
  <2>1. "USERS" = Files(s)!KindOf(attempt[t].domain) /\ attempt[t].domain \in Files(s)!Keyed
    BY <1>1 DEF Files!CommitUsers, Files!KindOf, Files!Keyed
  <2>2. /\ Files(s)!GetOrMakeUsers(Files(s)!ValidRows(t) \ failed)
        /\ Files(s)!Settle(t, Files(s)!ValidRows(t) \ failed, failed)
        /\ made' = made /\ backup' = "PARTIALLY_IMPORTED" /\ attempt[t].domain \notin {"MEMBERS", "RAW"}
    BY <1>1 DEF Files!CommitUsers
  <2>3. Grown(s, "USERS", Files(s)!ValidRows(t) \ failed) /\ Files(s)!KeyedOnce'
    BY <2>2, UsersGrow DEF Files!Settle, Files!ValidRows
  <2> QED
    BY <2>1, <2>2, <2>3, KeyedCommitKeeps
<1>2. ASSUME NEW failed \in SUBSET Files(s)!ValidRows(t), Files(s)!CommitMembers(t, failed) PROVE Goal
  <2>1. "USERS" = Files(s)!KindOf(attempt[t].domain) /\ attempt[t].domain \in Files(s)!Keyed
    BY <1>2 DEF Files!CommitMembers, Files!KindOf, Files!Keyed
  <2>2. /\ Files(s)!GetOrMakeUsers(Files(s)!ValidRows(t) \ failed)
        /\ Files(s)!Settle(t, Files(s)!ValidRows(t) \ failed, failed)
        /\ made' = made /\ backup' = backup
    BY <1>2 DEF Files!CommitMembers
  <2>3. Grown(s, "USERS", Files(s)!ValidRows(t) \ failed) /\ Files(s)!KeyedOnce'
    BY <2>2, UsersGrow DEF Files!Settle, Files!ValidRows
  <2> QED
    BY <2>1, <2>2, <2>3, KeyedCommitKeeps
<1>3. ASSUME NEW failed \in SUBSET Files(s)!ValidRows(t), Files(s)!CommitEvents(t, failed) PROVE Goal
  <2>1. "EVENTS" = Files(s)!KindOf(attempt[t].domain) /\ attempt[t].domain \in Files(s)!Keyed
    BY <1>3 DEF Files!CommitEvents, Files!KindOf, Files!Keyed
  <2>2. /\ Files(s)!GetOrMakeEvents(t, Files(s)!ValidRows(t) \ failed)
        /\ Files(s)!Settle(t, Files(s)!ValidRows(t) \ failed, failed)
        /\ made' = made /\ backup' = "PARTIALLY_IMPORTED" /\ attempt[t].domain \notin {"MEMBERS", "RAW"}
    BY <1>3 DEF Files!CommitEvents
  <2>3. Grown(s, "EVENTS", Files(s)!ValidRows(t) \ failed) /\ Files(s)!KeyedOnce'
    BY <2>2, EventsGrow DEF Files!Settle, Files!ValidRows
  <2> QED
    BY <2>1, <2>2, <2>3, KeyedCommitKeeps
<1>4. ASSUME NEW failed \in SUBSET Files(s)!ValidRows(t), Files(s)!CommitForms(t, failed) PROVE Goal
  <2> DEFINE done == Files(s)!ValidRows(t) \ failed
  <2>1. /\ done \in SUBSET s.rows /\ failed \in SUBSET s.rows /\ done \cap failed = {}
        /\ \A r \in s.rows : row[t][r] \in {"VALID", "DONE"} => r \in done \cup failed
    BY DEF Files!ValidRows
  <2>2. /\ Files(s)!Make(t, done) /\ Files(s)!Settle(t, done, failed) /\ count' = count
        /\ backup' = "PARTIALLY_IMPORTED" /\ attempt[t].domain = "FORMS"
    BY <1>4 DEF Files!CommitForms
  <2> HIDE DEF done
  <2> QED
    BY <2>1, <2>2, MakingCommitKeeps
<1>5. ASSUME Files(s)!CommitRaw(t) PROVE Goal
  <2> DEFINE all == {r \in s.rows : row[t][r] # "NONE"}
  <2>1. /\ all \in SUBSET s.rows /\ {} \in SUBSET s.rows /\ all \cap {} = {}
        /\ \A r \in s.rows : row[t][r] \in {"VALID", "DONE"} => r \in all \cup {}
    OBVIOUS
  <2>2. /\ Files(s)!Make(t, all) /\ Files(s)!Settle(t, all, {}) /\ count' = count
        /\ backup' = "ARCHIVED_RAW" /\ attempt[t].domain = "RAW"
    BY <1>5 DEF Files!CommitRaw
  <2> HIDE DEF all
  <2> QED
    BY <2>1, <2>2, MakingCommitKeeps
<1> HIDE DEF Goal
<1> QED
  BY <1>1, <1>2, <1>3, <1>4, <1>5 DEF Files!Commit

LEMMA DeleteFormKeeps ==
    ASSUME NEW s, FileInv(s), Files(s)!DeleteForm
    PROVE  FileInv(s)'
<1>1. /\ formGone' = TRUE
      /\ made' = [t \in s.attempts |-> IF attempt[t] # NoTry /\ attempt[t].domain = "FORMS"
                                       THEN [r \in s.rows |-> 0] ELSE made[t]]
      /\ UNCHANGED <<file, undated, attempt, progress, row, checked, unseen, count, backup>>
  BY DEF Files!DeleteForm, Files!NoAttempt, NoTry
<1>2. \A t \in s.attempts : /\ made'[t] \in [s.rows -> Nat]
                            /\ made'[t] = made[t] \/ \A r \in s.rows : made'[t][r] = 0
                            /\ attempt[t] # NoTry /\ attempt[t].domain # "FORMS" => made'[t] = made[t]
  BY <1>1 DEF FileInv, FileTypes
<1>3. made' \in [s.attempts -> [s.rows -> Nat]]
  BY <1>1, <1>2
<1>4. FileTypes(s)'
  BY <1>1, <1>3 DEF FileInv, FileTypes, TryRow
<1>5. ValidRowsNamed(s)' /\ CheckedAreGood(s)' /\ Files(s)!KeyedOnce'
  BY <1>1 DEF FileInv, ValidRowsNamed, CheckedAreGood, Files!KeyedOnce, Files!Keyed, Files!Kinds
<1>6. NewIsEmpty(s)'
  BY <1>1, <1>2 DEF FileInv, NewIsEmpty
<1>7. Files(s)!DoneIsThere'
  <2>1. \A t \in s.attempts, r \in s.rows : row[t][r] = "DONE" => attempt[t] # NoTry
    BY DEF FileInv, NewIsEmpty
  <2> QED
    BY <1>1, <1>2, <2>1 DEF FileInv, Files!DoneIsThere, Files!Keyed, Files!KindOf
<1>8. ASSUME ~s.overlap PROVE OneRequestRuns(s)' /\ Files(s)!CommitIsWhole'
  BY <1>1, <1>2, <1>8 DEF FileInv, OneRequestRuns, Files!CommitIsWhole
<1> QED
  BY <1>4, <1>5, <1>6, <1>7, <1>8 DEF FileInv

LEMMA FileStep ==
    ASSUME NEW s, FileInv(s), Files(s)!Next
    PROVE  FileInv(s)'
<1> DEFINE Goal == FileInv(s)'
<1> SUFFICES Goal
  OBVIOUS
<1>1. ASSUME NEW t \in s.attempts, NEW d \in s.domains, NEW eligible \in BOOLEAN,
             Files(s)!StartPreview(t, d, eligible)
      PROVE  Goal
  <2>1. s.overlap \/ checked = {}
    BY <1>1, QuietMeans DEF Files!StartPreview
  <2>2. /\ attempt[t] = NoTry /\ attempt' = [attempt EXCEPT ![t] = Files(s)!NewAttempt(d, eligible)]
        /\ progress' = [progress EXCEPT ![t] = "CREATED"] /\ row' = row
        /\ UNCHANGED <<file, undated, checked, unseen, count, made, backup, formGone>>
    BY <1>1 DEF Files!StartPreview, Files!NoAttempt, NoTry
  <2> QED
    BY <2>1, <2>2, AttemptStored
<1>2. ASSUME NEW t \in s.attempts, Files(s)!PreviewMembers(t) PROVE Goal
  <2> DEFINE d == "MEMBERS"
             eligible == TRUE
  <2>1. d \in s.domains /\ eligible \in BOOLEAN
    BY <1>2 DEF Files!PreviewMembers
  <2>2. /\ attempt[t] = NoTry /\ attempt' = [attempt EXCEPT ![t] = Files(s)!NewAttempt(d, eligible)]
        /\ progress' = [progress EXCEPT ![t] = "SAVED"]
        /\ \E valid \in Files(s)!Valid(d) : row' = [row EXCEPT ![t] = Files(s)!Marked(valid)]
        /\ UNCHANGED <<file, undated, checked, unseen, count, made, backup, formGone>>
    BY <1>2 DEF Files!PreviewMembers, Files!NoAttempt, NoTry
  <2> HIDE DEF d, eligible
  <2> QED
    BY <2>1, <2>2, AttemptStored
<1>3. ASSUME NEW t \in s.attempts, \/ Files(s)!FillRows(t) \/ Files(s)!SavePreview(t) \/ Files(s)!CutPreview(t)
                                   \/ Files(s)!Expire(t) \/ Files(s)!BeginCommit(t) \/ Files(s)!AbandonCommit(t)
      PROVE  Goal
  BY <1>3, FillKeeps, SaveKeeps, CutKeeps, ExpiryKeeps, CheckKeeps
<1>4. ASSUME NEW t \in checked, Files(s)!Commit(t) PROVE Goal
  BY <1>4, CommitsKeep
<1>5. ASSUME Files(s)!DeleteForm PROVE Goal
  BY <1>5, DeleteFormKeeps
<1> HIDE DEF Goal
<1> QED
  BY <1>1, <1>2, <1>3, <1>4, <1>5 DEF Files!Next

-----------------------------------------------------------------------------
(* Jobs.                                                                   *)

Unstarted == [status |-> "NEW"]
JobRow(s) == [status : {"NEW", "PENDING", "PROCESSING", "COMPLETED", "PARTIALLY_FAILED"},
                at : {"NONE", "DEAD", "MADE", "LISTED"} \cup s.people, failed : Nat]
ExportRow(s) == {Unstarted} \cup
    [status : {"QUEUED", "RUNNING", "COMPLETED", "FAILED", "EXPIRED"},
     name : s.seconds \cup {"NONE"}, at : {"START", "STREAM", "SAVE", "END", "DEAD"}]
RunRow == {Unstarted} \cup
    [status : {"RUNNING", "SUCCESS", "FAILED"}, stale : BOOLEAN, work : {"ALIVE", "DONE", "RAISED", "DEAD"}]

\* A job that is not being made has its recipients, and no mail went out before.
\* A mail that went out and is not settled is the one the thread is at, or
\* died at; the thread is at one as long as the job is PROCESSING.
MailInv(s) ==
    /\ mail \in JobRow(s)
    /\ delivery \in [s.people -> {"NONE", "PENDING", "SENT", "FAILED"}]
    /\ posted \in [s.people -> Nat]
    /\ \A p \in s.people :
          /\ posted[p] <= 1
          /\ delivery[p] = "SENT" => posted[p] = 1
          /\ delivery[p] = "NONE" => posted[p] = 0
          /\ delivery[p] = "FAILED" => mail.failed > 0
          /\ delivery[p] = "PENDING" /\ posted[p] # 0 => mail.at \in {p, "DEAD"}
    /\ mail.status = "NEW" \/ mail.at = "MADE" => \A p \in s.people : posted[p] = 0
    /\ mail.at = "MADE" => mail.status = "PENDING"
    /\ mail.status \notin {"NEW", "PENDING"} \/ (mail.status = "PENDING" /\ mail.at = "NONE") =>
          \A p \in s.people : delivery[p] # "NONE"
    /\ mail.at \in s.people => delivery[mail.at] = "PENDING" /\ posted[mail.at] = 1
    /\ mail.at \in s.people \cup {"LISTED"} => mail.status = "PROCESSING"
    /\ mail.status \in {"COMPLETED", "PARTIALLY_FAILED"} =>
          mail.at = "NONE" /\ \A p \in s.people : delivery[p] # "PENDING"
    /\ mail.status = "COMPLETED" => mail.failed = 0

\* Each second is one export's, so its file is too.
ExportInv(s) ==
    /\ export \in [s.exports -> ExportRow(s)]
    /\ disk \in [s.seconds -> s.exports \cup {"NONE"}]
    /\ \A e \in s.exports : export[e].status \in {"RUNNING", "COMPLETED"} => export[e].name # "NONE"
    /\ ~s.overlap =>
          /\ \A d, e \in s.exports :
                export[d] # Unstarted /\ export[e] # Unstarted /\ export[d].name = export[e].name
                   => d = e \/ export[e].name = "NONE"
          /\ \A e \in s.exports :
                export[e].status = "COMPLETED" \/ (export[e].status = "RUNNING" /\ export[e].at = "SAVE")
                   => disk[export[e].name] \in {e, "NONE"}

\* While a run is about to start none is running, and one starts at a time.
RunInv(s) ==
    /\ run \in [s.runs -> RunRow]
    /\ starting \subseteq s.runs
    /\ \A r \in s.runs : run[r].status = "SUCCESS" => run[r].work = "DONE"
    /\ ~s.overlap =>
          /\ \A q, r \in s.runs : run[q].status = "RUNNING" /\ run[r].status = "RUNNING" => q = r
          /\ \A q, r \in starting : q = r
          /\ starting # {} => \A r \in s.runs : run[r].status # "RUNNING"

JobInv(s) == MailInv(s) /\ ExportInv(s) /\ RunInv(s)

LEMMA JobInvGives ==
    ASSUME NEW s, JobInv(s)
    PROVE  Work(s)!TypeOK /\ Work(s)!JobsTellTruth
<1>1. Work(s)!TypeOK
  BY DEF JobInv, MailInv, ExportInv, RunInv, JobRow, ExportRow, RunRow, Unstarted, Work!TypeOK,
         Work!Settled, Work!None, Work!Dead, Work!NoRow
<1>2. Work(s)!MailTold
  BY DEF JobInv, MailInv, Work!MailTold, Work!Settled
<1>3. Work(s)!ExportTold /\ Work(s)!RunTold
  BY DEF JobInv, ExportInv, RunInv, Work!ExportTold, Work!RunTold, Work!None
<1> QED
  BY <1>1, <1>2, <1>3 DEF Work!JobsTellTruth

LEMMA JobInitHolds ==
    ASSUME NEW s, Work(s)!JobsNamed, Work(s)!Init
    PROVE  JobInv(s)
<1> USE DEF Work!Init, Work!JobsNamed, Work!None, Work!Dead, Work!NoRow
<1>1. MailInv(s)
  BY DEF MailInv, JobRow
<1>2. ExportInv(s)
  BY DEF ExportInv, ExportRow, Unstarted
<1>3. RunInv(s)
  BY DEF RunInv, RunRow, Unstarted
<1> QED
  BY <1>1, <1>2, <1>3 DEF JobInv

LEMMA MailStutter ==
    ASSUME NEW s, MailInv(s), UNCHANGED <<mail, delivery, posted>>
    PROVE  MailInv(s)'
BY DEF MailInv, JobRow

LEMMA ExportStutter ==
    ASSUME NEW s, ExportInv(s), UNCHANGED <<export, disk>>
    PROVE  ExportInv(s)'
BY DEF ExportInv, ExportRow, Unstarted

LEMMA RunStutter ==
    ASSUME NEW s, RunInv(s), UNCHANGED <<run, starting>>
    PROVE  RunInv(s)'
BY DEF RunInv, RunRow, Unstarted

-----------------------------------------------------------------------------
\* What a step makes of the row of the e-mail job.
Becomes(s, st, a, f) == mail' \in JobRow(s) /\ mail'.status = st /\ mail'.at = a /\ mail'.failed = f

LEMMA CreateJobWrites ==
    ASSUME NEW s, MailInv(s), Work(s)!CreateJob
    PROVE  Becomes(s, "PENDING", "MADE", mail.failed) /\ mail.status = "NEW" /\ UNCHANGED <<delivery, posted>>
BY DEF MailInv, JobRow, Work!CreateJob, Becomes

LEMMA AddWrites ==
    ASSUME NEW s, MailInv(s), Work(s)!AddRecipients
    PROVE  /\ Becomes(s, "PENDING", "NONE", mail.failed) /\ mail.at = "MADE"
           /\ delivery' = [p \in s.people |-> "PENDING"] /\ UNCHANGED posted
BY DEF MailInv, JobRow, Work!AddRecipients, Work!None, Becomes

LEMMA StartJobWrites ==
    ASSUME NEW s, MailInv(s), Work(s)!StartJob
    PROVE  /\ Becomes(s, "PROCESSING", "LISTED", mail.failed)
           /\ mail.status = "PENDING" /\ mail.at = "NONE" /\ UNCHANGED <<delivery, posted>>
BY DEF MailInv, JobRow, Work!StartJob, Work!None, Becomes

LEMMA PostWrites ==
    ASSUME NEW s, MailInv(s), NEW p \in s.people, Work(s)!Post(p)
    PROVE  /\ Becomes(s, mail.status, p, mail.failed)
           /\ mail.at = "LISTED" /\ delivery[p] = "PENDING"
           /\ posted' = [posted EXCEPT ![p] = posted[p] + 1] /\ UNCHANGED delivery
BY DEF MailInv, JobRow, Work!Post, Work!Working, Becomes

LEMMA FailWrites ==
    ASSUME NEW s, MailInv(s), NEW p \in s.people, Work(s)!FailDelivery(p)
    PROVE  /\ Becomes(s, mail.status, "LISTED", mail.failed + 1)
           /\ (mail.at = "LISTED" /\ delivery[p] = "PENDING") \/ mail.at = p
           /\ delivery' = [delivery EXCEPT ![p] = "FAILED"] /\ UNCHANGED posted
<1> DEFINE f == mail.failed + 1
<1>1. mail' = [mail EXCEPT !.at = "LISTED", !.failed = f]
  BY Zenon DEF Work!FailDelivery
<1>2. mail \in JobRow(s) /\ f \in Nat
  BY DEF MailInv, JobRow
<1> HIDE DEF f
<1>3. Becomes(s, mail.status, "LISTED", f)
  BY <1>1, <1>2 DEF Becomes, JobRow
<1>4. /\ (mail.at = "LISTED" /\ delivery[p] = "PENDING") \/ mail.at = p
      /\ delivery' = [delivery EXCEPT ![p] = "FAILED"] /\ UNCHANGED posted
  BY DEF Work!FailDelivery, Work!Working
<1> QED
  BY <1>3, <1>4 DEF f

LEMMA SaveWrites ==
    ASSUME NEW s, MailInv(s), Work(s)!SaveDelivery
    PROVE  /\ Becomes(s, mail.status, "LISTED", mail.failed) /\ mail.at \in s.people
           /\ delivery' = [delivery EXCEPT ![mail.at] = "SENT"] /\ UNCHANGED posted
BY DEF MailInv, JobRow, Work!SaveDelivery, Becomes

LEMMA FinishWrites ==
    ASSUME NEW s, MailInv(s), Work(s)!FinishJob
    PROVE  /\ Becomes(s, IF mail.failed = 0 THEN "COMPLETED" ELSE "PARTIALLY_FAILED", "NONE", mail.failed)
           /\ \A p \in s.people : delivery[p] # "PENDING"
           /\ UNCHANGED <<delivery, posted>>
BY DEF MailInv, JobRow, Work!FinishJob, Work!None, Becomes

LEMMA MailingKeeps ==
    ASSUME NEW s, Work(s)!JobsNamed, MailInv(s), Work(s)!Mailing
    PROVE  MailInv(s)'
<1> DEFINE Goal == MailInv(s)'
<1> SUFFICES Goal
  OBVIOUS
<1> USE DEF Becomes, Work!JobsNamed, Work!None, Work!Dead
<1>1. ASSUME Work(s)!CreateJob PROVE Goal
  BY <1>1, CreateJobWrites DEF MailInv, JobRow
<1>2. ASSUME Work(s)!StartJob PROVE Goal
  BY <1>2, StartJobWrites DEF MailInv, JobRow
<1>3. ASSUME NEW p \in s.people, Work(s)!Post(p) PROVE Goal
  <2>1. /\ Becomes(s, mail.status, p, mail.failed)
        /\ mail.at = "LISTED" /\ delivery[p] = "PENDING"
        /\ posted' = [posted EXCEPT ![p] = posted[p] + 1] /\ UNCHANGED delivery
    BY <1>3, PostWrites
  <2>2. posted[p] = 0
    BY <2>1 DEF MailInv
  <2>3. /\ posted' \in [s.people -> Nat] /\ posted'[p] = 1
        /\ \A q \in s.people \ {p} : posted'[q] = posted[q]
    BY <2>1, <2>2 DEF MailInv
  <2> QED
    BY <2>1, <2>2, <2>3 DEF MailInv, JobRow
<1>4. ASSUME NEW p \in s.people, Work(s)!FailDelivery(p) PROVE Goal
  <2>1. /\ Becomes(s, mail.status, "LISTED", mail.failed + 1)
        /\ (mail.at = "LISTED" /\ delivery[p] = "PENDING") \/ mail.at = p
        /\ delivery' = [delivery EXCEPT ![p] = "FAILED"] /\ UNCHANGED posted
    BY <1>4, FailWrites
  <2>2. /\ delivery' \in [s.people -> {"NONE", "PENDING", "SENT", "FAILED"}] /\ delivery'[p] = "FAILED"
        /\ \A q \in s.people \ {p} : delivery'[q] = delivery[q]
    BY <2>1 DEF MailInv
  <2>3. mail.failed \in Nat /\ mail.failed + 1 > 0 /\ mail.status = "PROCESSING"
    BY <2>1 DEF MailInv, JobRow
  <2> QED
    BY <2>1, <2>2, <2>3 DEF MailInv, JobRow
<1>5. ASSUME Work(s)!SaveDelivery PROVE Goal
  <2> DEFINE p == mail.at
  <2>1. /\ Becomes(s, mail.status, "LISTED", mail.failed) /\ p \in s.people
        /\ delivery' = [delivery EXCEPT ![p] = "SENT"] /\ UNCHANGED posted
    BY <1>5, SaveWrites
  <2>2. /\ delivery' \in [s.people -> {"NONE", "PENDING", "SENT", "FAILED"}] /\ delivery'[p] = "SENT"
        /\ \A q \in s.people \ {p} : delivery'[q] = delivery[q]
    BY <2>1 DEF MailInv
  <2>3. posted[p] = 1 /\ mail.status = "PROCESSING"
    BY <2>1 DEF MailInv
  <2> QED
    BY <2>1, <2>2, <2>3 DEF MailInv, JobRow
<1>6. ASSUME Work(s)!FinishJob PROVE Goal
  <2>1. /\ Becomes(s, IF mail.failed = 0 THEN "COMPLETED" ELSE "PARTIALLY_FAILED", "NONE", mail.failed)
        /\ \A p \in s.people : delivery[p] # "PENDING"
        /\ delivery' = delivery /\ posted' = posted /\ mail.status = "PROCESSING"
    BY <1>6, FinishWrites DEF Work!FinishJob, Work!Working
  <2>2. mail'.status \in {"COMPLETED", "PARTIALLY_FAILED"} /\ (mail'.status = "COMPLETED" => mail.failed = 0)
        /\ mail'.at = "NONE" /\ mail' \in JobRow(s)
    BY <2>1
  <2> HIDE DEF Becomes
  <2>3. \A p \in s.people : delivery[p] # "NONE"
    BY <2>1 DEF MailInv
  <2>4. mail'.failed = mail.failed
    BY <2>1 DEF Becomes
  <2>5. "NONE" \notin s.people
    BY DEF JobRow
  <2> QED
    BY <2>1, <2>2, <2>3, <2>4, <2>5 DEF MailInv
<1>7. ASSUME Work(s)!AddRecipients PROVE Goal
  BY <1>7, AddWrites DEF MailInv, JobRow
<1> HIDE DEF Goal
<1> QED
  BY <1>1, <1>2, <1>3, <1>4, <1>5, <1>6, <1>7 DEF Work!Mailing

-----------------------------------------------------------------------------
\* One export gets a row and, or, one file another content.
LEMMA OneExport ==
    ASSUME NEW s, Work(s)!JobsNamed, ExportInv(s), NEW e \in s.exports, NEW r \in ExportRow(s), r # Unstarted,
           export' = [export EXCEPT ![e] = r],
           r.status \in {"RUNNING", "COMPLETED"} => r.name # "NONE",
           s.overlap \/ r.name = "NONE"
                     \/ (export[e] # Unstarted /\ r.name = export[e].name)
                     \/ \A d \in s.exports : export[d] # Unstarted => export[d].name # r.name,
           \/ disk' = disk /\ (r.status = "COMPLETED" \/ (r.status = "RUNNING" /\ r.at = "SAVE") =>
                                  export[e].status = "RUNNING" /\ export[e].at = "SAVE" /\ r.name = export[e].name)
           \/ /\ export[e] # Unstarted /\ r.name = export[e].name /\ r.name # "NONE"
              /\ disk' = [disk EXCEPT ![r.name] = e]
    PROVE  ExportInv(s)'
<1>1. export' \in [s.exports -> ExportRow(s)] /\ export'[e] = r
      /\ \A d \in s.exports \ {e} : export'[d] = export[d]
  BY DEF ExportInv
<1>2. r.name \in s.seconds \cup {"NONE"}
  BY DEF ExportRow
<1>3. disk' \in [s.seconds -> s.exports \cup {"NONE"}]
  BY <1>2 DEF ExportInv
<1>4. \A d \in s.exports : export'[d].status \in {"RUNNING", "COMPLETED"} => export'[d].name # "NONE"
  BY <1>1 DEF ExportInv
<1>5. ASSUME ~s.overlap
      PROVE  \A c, d \in s.exports :
                export'[c] # Unstarted /\ export'[d] # Unstarted /\ export'[c].name = export'[d].name
                   => c = d \/ export'[d].name = "NONE"
  BY <1>1, <1>5 DEF ExportInv
<1>6. ASSUME ~s.overlap
      PROVE  \A d \in s.exports :
                export'[d].status = "COMPLETED" \/ (export'[d].status = "RUNNING" /\ export'[d].at = "SAVE")
                   => disk'[export'[d].name] \in {d, "NONE"}
  <2> SUFFICES ASSUME NEW d \in s.exports,
                      export'[d].status = "COMPLETED" \/ (export'[d].status = "RUNNING" /\ export'[d].at = "SAVE")
               PROVE  disk'[export'[d].name] \in {d, "NONE"}
    OBVIOUS
  <2>1. CASE d = e /\ disk' = disk /\ export[e].status = "RUNNING" /\ export[e].at = "SAVE" /\ r.name = export[e].name
    <3>1. disk[export[e].name] \in {e, "NONE"} /\ r.name = export[e].name
      BY <1>1, <1>6, <2>1 DEF ExportInv
    <3> QED
      BY <1>1, <2>1, <3>1
  <2>2. CASE d = e /\ disk' = [disk EXCEPT ![r.name] = e]
    BY <1>1, <1>2, <2>2 DEF ExportInv
  <2>3. CASE d # e
    <3>1. export'[d] = export[d] /\ disk[export[d].name] \in {d, "NONE"}
      BY <1>1, <1>6, <2>3 DEF ExportInv
    <3>2. export[d].name # "NONE" /\ export[d] # Unstarted /\ export[d].name \in s.seconds
      BY <3>1 DEF ExportInv, ExportRow, Unstarted
    <3>3. disk' = disk \/ (disk' = [disk EXCEPT ![r.name] = e] /\ r.name # export[d].name)
      BY <1>6, <2>3, <3>2 DEF ExportInv
    <3> QED
      BY <3>1, <3>2, <3>3 DEF ExportInv
  <2> QED
    BY <1>1, <2>1, <2>2, <2>3
<1> QED
  BY <1>1, <1>3, <1>4, <1>5, <1>6 DEF ExportInv, ExportRow

LEMMA ExportingKeeps ==
    ASSUME NEW s, Work(s)!JobsNamed, ExportInv(s), Work(s)!Exporting
    PROVE  ExportInv(s)'
<1> DEFINE Goal == ExportInv(s)'
<1> SUFFICES Goal
  OBVIOUS
<1>a. \A e \in s.exports : /\ export[e] \in ExportRow(s)
                           /\ export[e].status # "NEW" => export[e] # Unstarted
  BY DEF ExportInv, Unstarted
<1>1. ASSUME NEW e \in s.exports, Work(s)!Request(e) PROVE Goal
  <2> DEFINE r == [status |-> "QUEUED", name |-> "NONE", at |-> "START"]
  <2>1. r \in ExportRow(s) /\ r # Unstarted /\ r.status = "QUEUED" /\ r.name = "NONE"
    BY DEF ExportRow, Unstarted
  <2>2. export' = [export EXCEPT ![e] = r] /\ disk' = disk
    BY <1>1 DEF Work!Request, Work!None
  <2> HIDE DEF r
  <2> QED
    BY <2>1, <2>2, OneExport
<1>2. ASSUME NEW e \in s.exports, NEW k \in s.seconds, Work(s)!StartExport(e, k) PROVE Goal
  <2> DEFINE r == [status |-> "RUNNING", name |-> k, at |-> "STREAM"]
  <2>1. k # "NONE"
    BY DEF Work!JobsNamed, Work!None
  <2>2. r \in ExportRow(s) /\ r # Unstarted /\ r.status = "RUNNING" /\ r.name = k /\ r.at = "STREAM"
    BY DEF ExportRow, Unstarted
  <2>3. /\ export' = [export EXCEPT ![e] = r] /\ disk' = disk
        /\ s.overlap \/ \A d \in s.exports : export[d] # Unstarted => export[d].name # k
    BY <1>2 DEF Work!StartExport, Work!NoRow, Unstarted
  <2> HIDE DEF r
  <2> QED
    BY <2>1, <2>2, <2>3, OneExport
<1>3. ASSUME NEW e \in s.exports, Work(s)!WriteFile(e) PROVE Goal
  <2> DEFINE r == [export[e] EXCEPT !.at = "SAVE"]
  <2>1. export[e].status = "RUNNING" /\ disk' = [disk EXCEPT ![export[e].name] = e]
    BY <1>3 DEF Work!WriteFile
  <2>2. export' = [export EXCEPT ![e] = r]
    BY <1>3, Zenon DEF Work!WriteFile
  <2>3. r \in ExportRow(s) /\ r # Unstarted /\ r.status = "RUNNING" /\ r.name = export[e].name /\ r.at = "SAVE"
    BY <1>a, <2>1 DEF ExportRow, Unstarted
  <2>4. export[e] # Unstarted /\ export[e].name # "NONE"
    BY <1>a, <2>1 DEF ExportInv
  <2> HIDE DEF r
  <2>5. disk' = [disk EXCEPT ![r.name] = e]
    BY <2>1, <2>3
  <2> QED
    BY <2>2, <2>3, <2>4, <2>5, OneExport
<1>4. ASSUME NEW e \in s.exports, Work(s)!SaveExport(e) PROVE Goal
  <2> DEFINE r == [export[e] EXCEPT !.status = "COMPLETED", !.at = "END"]
  <2>1. export[e].status = "RUNNING" /\ export[e].at = "SAVE" /\ disk' = disk
    BY <1>4 DEF Work!SaveExport
  <2>2. export' = [export EXCEPT ![e] = r]
    BY <1>4, Zenon DEF Work!SaveExport
  <2>3. export[e] # Unstarted /\ export[e].name # "NONE"
    BY <1>a, <2>1 DEF ExportInv
  <2>4. r \in ExportRow(s) /\ r # Unstarted /\ r.status = "COMPLETED" /\ r.name = export[e].name /\ r.at = "END"
    BY <1>a, <2>3 DEF ExportRow, Unstarted
  <2> HIDE DEF r
  <2> QED
    BY <2>1, <2>2, <2>3, <2>4, OneExport
<1>5. ASSUME NEW e \in s.exports, Work(s)!FailExport(e) PROVE Goal
  <2> DEFINE r == [export[e] EXCEPT !.status = "FAILED", !.at = "END"]
  <2>1. export[e].status = "RUNNING" /\ disk' = disk
    BY <1>5 DEF Work!FailExport
  <2>2. export' = [export EXCEPT ![e] = r]
    BY <1>5, Zenon DEF Work!FailExport
  <2>3. export[e] # Unstarted
    BY <1>a, <2>1
  <2>4. r \in ExportRow(s) /\ r # Unstarted /\ r.status = "FAILED" /\ r.name = export[e].name
    BY <1>a, <2>3 DEF ExportRow, Unstarted
  <2> HIDE DEF r
  <2> QED
    BY <2>1, <2>2, <2>3, <2>4, OneExport
<1>6. ASSUME NEW e \in s.exports, Work(s)!Download(e) PROVE Goal
  <2> DEFINE r == [export[e] EXCEPT !.status = "EXPIRED"]
  <2>1. export[e].status = "COMPLETED" /\ disk' = disk
    BY <1>6 DEF Work!Download
  <2>2. export' = [export EXCEPT ![e] = r]
    BY <1>6, Zenon DEF Work!Download
  <2>3. export[e] # Unstarted
    BY <1>a, <2>1
  <2>4. r \in ExportRow(s) /\ r # Unstarted /\ r.status = "EXPIRED" /\ r.name = export[e].name
    BY <1>a, <2>3 DEF ExportRow, Unstarted
  <2> HIDE DEF r
  <2> QED
    BY <2>1, <2>2, <2>3, <2>4, OneExport
<1>7. ASSUME NEW k \in s.seconds, Work(s)!LoseFile(k) PROVE Goal
  <2>1. disk' = [disk EXCEPT ![k] = "NONE"] /\ export' = export
    BY <1>7 DEF Work!LoseFile, Work!None
  <2>2. \A x : x \in s.seconds => disk'[x] \in {disk[x], "NONE"}
    BY <2>1 DEF ExportInv
  <2>3. \A e \in s.exports : export[e].status \in {"RUNNING", "COMPLETED"} => export[e].name \in s.seconds
    BY DEF ExportInv, ExportRow, Unstarted
  <2> QED
    BY <2>1, <2>2, <2>3 DEF ExportInv, ExportRow
<1> HIDE DEF Goal
<1> QED
  BY <1>1, <1>2, <1>3, <1>4, <1>5, <1>6, <1>7 DEF Work!Exporting

-----------------------------------------------------------------------------
LEMMA StaleRunsFail ==
    ASSUME NEW s, RunInv(s)
    PROVE  /\ Work(s)!FailedStale \in [s.runs -> RunRow]
           /\ \A r \in s.runs :
                 /\ Work(s)!FailedStale[r].status = "RUNNING" => run[r].status = "RUNNING"
                 /\ Work(s)!FailedStale[r].status = "SUCCESS" => Work(s)!FailedStale[r].work = "DONE"
<1> DEFINE f == Work(s)!FailedStale
<1>1. f = [r \in s.runs |-> IF run[r] # Unstarted /\ run[r].status = "RUNNING" /\ run[r].stale
                            THEN [run[r] EXCEPT !.status = "FAILED"] ELSE run[r]]
  BY DEF Work!FailedStale, Work!NoRow, Unstarted
<1> HIDE DEF f
<1>2. ASSUME NEW r \in s.runs
      PROVE  /\ f[r] \in RunRow /\ (f[r].status = "RUNNING" => run[r].status = "RUNNING")
             /\ (f[r].status = "SUCCESS" => f[r].work = "DONE")
  <2> DEFINE q == run[r]
             x == [q EXCEPT !.status = "FAILED"]
  <2>1. q \in RunRow /\ (q.status = "SUCCESS" => q.work = "DONE")
    BY DEF RunInv
  <2>2. f[r] = q \/ (f[r] = x /\ q # Unstarted)
    BY <1>1
  <2> HIDE DEF q
  <2>3. q # Unstarted => x \in RunRow /\ x.status = "FAILED"
    BY <2>1 DEF RunRow, Unstarted
  <2> HIDE DEF x
  <2> QED
    BY <2>1, <2>2, <2>3 DEF q
<1>3. f \in [s.runs -> RunRow]
  BY <1>1, <1>2
<1> QED
  BY <1>2, <1>3 DEF f

LEMMA OneRun ==
    ASSUME NEW s, RunInv(s), NEW r \in s.runs, NEW x \in RunRow, run' = [run EXCEPT ![r] = x],
           x.status = "SUCCESS" => x.work = "DONE", starting' \subseteq starting,
           \/ x.status = "RUNNING" => run[r].status = "RUNNING"
           \/ r \in starting /\ starting' = starting \ {r}
    PROVE  RunInv(s)'
<1>1. /\ run' \in [s.runs -> RunRow] /\ run'[r] = x
      /\ \A q \in s.runs \ {r} : run'[q] = run[q]
  BY DEF RunInv
<1>2. ASSUME ~s.overlap
      PROVE  /\ \A p, q \in s.runs : run'[p].status = "RUNNING" /\ run'[q].status = "RUNNING" => p = q
             /\ \A p, q \in starting' : p = q
             /\ starting' # {} => \A q \in s.runs : run'[q].status # "RUNNING"
  <2>1. CASE x.status = "RUNNING" => run[r].status = "RUNNING"
    BY <1>1, <1>2, <2>1 DEF RunInv
  <2>2. CASE r \in starting /\ starting' = starting \ {r}
    <3>1. starting' = {} /\ \A q \in s.runs : run[q].status # "RUNNING"
      BY <1>2, <2>2 DEF RunInv
    <3> QED
      BY <1>1, <3>1
  <2> QED
    BY <2>1, <2>2
<1> QED
  BY <1>1, <1>2 DEF RunInv, RunRow

LEMMA MaintainingKeeps ==
    ASSUME NEW s, RunInv(s), Work(s)!Maintaining
    PROVE  RunInv(s)'
<1> DEFINE Goal == RunInv(s)'
<1> SUFFICES Goal
  OBVIOUS
<1>1. ASSUME Work(s)!Look PROVE Goal
  <2>1. run' = Work(s)!FailedStale /\ starting' = starting
    BY <1>1 DEF Work!Look
  <2> QED
    BY <2>1, StaleRunsFail DEF RunInv, RunRow
<1>2. ASSUME NEW r \in s.runs, Work(s)!CheckIdle(r) PROVE Goal
  <2>1. /\ run' = Work(s)!FailedStale /\ starting' = starting \cup {r} /\ (s.overlap \/ starting = {})
        /\ \A q \in s.runs : Work(s)!FailedStale[q].status # "RUNNING"
    BY <1>2 DEF Work!CheckIdle
  <2> QED
    BY <2>1, StaleRunsFail DEF RunInv, RunRow
<1>3. ASSUME NEW r \in s.runs, Work(s)!StartRun(r) PROVE Goal
  <2> DEFINE x == [status |-> "RUNNING", stale |-> FALSE, work |-> "ALIVE"]
  <2>1. x \in RunRow /\ x.status = "RUNNING"
    BY DEF RunRow
  <2>2. run' = [run EXCEPT ![r] = x] /\ r \in starting /\ starting' = starting \ {r}
    BY <1>3 DEF Work!StartRun
  <2> HIDE DEF x
  <2> QED
    BY <2>1, <2>2, OneRun
<1>4. ASSUME NEW r \in s.runs, Work(s)!GrowStale(r) PROVE Goal
  <2> DEFINE x == [run[r] EXCEPT !.stale = TRUE]
  <2>1. run[r].status = "RUNNING" /\ starting' = starting
    BY <1>4 DEF Work!GrowStale
  <2>2. run' = [run EXCEPT ![r] = x]
    BY <1>4, Zenon DEF Work!GrowStale
  <2>3. x \in RunRow /\ x.status = "RUNNING"
    BY <2>1 DEF RunInv, RunRow, Unstarted
  <2> HIDE DEF x
  <2> QED
    BY <2>1, <2>2, <2>3, OneRun
<1>5. ASSUME NEW r \in s.runs, NEW work \in {"DONE", "RAISED"}, Work(s)!FinishRun(r, work) PROVE Goal
  <2> DEFINE st == IF work = "DONE" THEN "SUCCESS" ELSE "FAILED"
             x == [run[r] EXCEPT !.work = work, !.status = st]
  <2>1. run[r] # Unstarted /\ starting' = starting
    BY <1>5 DEF Work!FinishRun, Work!NoRow, Unstarted
  <2>2. run' = [run EXCEPT ![r] = x]
    BY <1>5, Zenon DEF Work!FinishRun
  <2>3. x \in RunRow /\ x.status = st /\ x.work = work
    BY <2>1 DEF RunInv, RunRow, Unstarted
  <2> HIDE DEF x
  <2> QED
    BY <2>1, <2>2, <2>3, OneRun
<1> HIDE DEF Goal
<1> QED
  BY <1>1, <1>2, <1>3, <1>4, <1>5 DEF Work!Maintaining

-----------------------------------------------------------------------------
\* A restart ends the threads and writes no row.
LEMMA MailRestarts ==
    ASSUME NEW s, Work(s)!JobsNamed, MailInv(s), Work(s)!Restart
    PROVE  MailInv(s)'
<1> DEFINE n == [mail EXCEPT !.at = "DEAD"]
<1>1. /\ mail' = IF mail.status \in {"PENDING", "PROCESSING"} THEN n ELSE mail
      /\ UNCHANGED <<delivery, posted>>
  BY DEF Work!Restart, Work!Dead
<1>2. n \in JobRow(s) /\ n.status = mail.status /\ n.failed = mail.failed /\ n.at = "DEAD"
  BY DEF MailInv, JobRow
<1>3. "DEAD" \notin s.people
  BY DEF Work!JobsNamed, Work!Dead
<1> HIDE DEF n
<1>4. CASE mail' = mail
  BY <1>1, <1>4, MailStutter
<1>5. CASE mail.status \in {"PENDING", "PROCESSING"} /\ mail' = n
  BY <1>1, <1>2, <1>3, <1>5 DEF MailInv, JobRow
<1> QED
  BY <1>1, <1>4, <1>5

LEMMA ExportRestarts ==
    ASSUME NEW s, Work(s)!JobsNamed, ExportInv(s), Work(s)!Restart
    PROVE  ExportInv(s)'
<1>1. /\ export' = [e \in s.exports |-> IF export[e] = Unstarted \/ export[e].at = "END" THEN export[e]
                                        ELSE [export[e] EXCEPT !.at = "DEAD"]]
      /\ disk' = disk
  BY DEF Work!Restart, Work!Dead, Work!NoRow, Unstarted
<1>2. ASSUME NEW e \in s.exports
      PROVE  /\ export'[e] \in ExportRow(s) /\ (export'[e] = Unstarted <=> export[e] = Unstarted)
             /\ export[e] # Unstarted => /\ export'[e].status = export[e].status
                                         /\ export'[e].name = export[e].name
                                         /\ export'[e].at \in {export[e].at, "DEAD"}
  <2> DEFINE r == export[e]
             x == [r EXCEPT !.at = "DEAD"]
  <2>1. r \in ExportRow(s)
    BY DEF ExportInv
  <2>2. export'[e] = IF r = Unstarted \/ r.at = "END" THEN r ELSE x
    BY <1>1
  <2> HIDE DEF r
  <2>3. r # Unstarted => /\ x \in ExportRow(s) /\ x # Unstarted /\ x.status = r.status
                         /\ x.name = r.name /\ x.at = "DEAD"
    BY <2>1 DEF ExportRow, Unstarted
  <2> HIDE DEF x
  <2> QED
    BY <2>1, <2>2, <2>3 DEF r
<1>3. export' \in [s.exports -> ExportRow(s)]
  BY <1>1, <1>2
<1>4. Unstarted.status = "NEW"
  BY DEF Unstarted
<1>5. \A e \in s.exports : export'[e].status = export[e].status
  BY <1>2, <1>4
<1>6. ASSUME ~s.overlap
      PROVE  /\ \A c, d \in s.exports :
                   export'[c] # Unstarted /\ export'[d] # Unstarted /\ export'[c].name = export'[d].name
                      => c = d \/ export'[d].name = "NONE"
             /\ \A d \in s.exports :
                   export'[d].status = "COMPLETED" \/ (export'[d].status = "RUNNING" /\ export'[d].at = "SAVE")
                      => disk'[export'[d].name] \in {d, "NONE"}
  BY <1>1, <1>2, <1>4, <1>5, <1>6 DEF ExportInv
<1> QED
  BY <1>1, <1>2, <1>3, <1>4, <1>5, <1>6 DEF ExportInv, ExportRow

LEMMA RunRestarts ==
    ASSUME NEW s, RunInv(s), Work(s)!Restart
    PROVE  RunInv(s)'
<1>1. /\ run' = [r \in s.runs |-> IF run[r] = Unstarted \/ run[r].work # "ALIVE" THEN run[r]
                                  ELSE [run[r] EXCEPT !.work = "DEAD"]]
      /\ starting' = {}
  BY DEF Work!Restart, Work!Dead, Work!NoRow, Unstarted
<1>2. ASSUME NEW r \in s.runs
      PROVE  /\ run'[r] \in RunRow /\ run'[r].status = run[r].status
             /\ run'[r].status = "SUCCESS" => run'[r].work = "DONE"
  <2> DEFINE q == run[r]
             x == [q EXCEPT !.work = "DEAD"]
  <2>1. q \in RunRow /\ (q.status = "SUCCESS" => q.work = "DONE")
    BY DEF RunInv
  <2>2. run'[r] = IF q = Unstarted \/ q.work # "ALIVE" THEN q ELSE x
    BY <1>1
  <2> HIDE DEF q
  <2>3. q # Unstarted => x \in RunRow /\ x.status = q.status
    BY <2>1 DEF RunRow, Unstarted
  <2> HIDE DEF x
  <2> QED
    BY <2>1, <2>2, <2>3 DEF q
<1>3. run' \in [s.runs -> RunRow]
  BY <1>1, <1>2
<1> QED
  BY <1>1, <1>2, <1>3 DEF RunInv, RunRow

LEMMA JobStep ==
    ASSUME NEW s, Work(s)!JobsNamed, JobInv(s), Work(s)!Next
    PROVE  JobInv(s)'
<1> USE DEF JobInv
<1>1. CASE Work(s)!Mailing
  <2>1. UNCHANGED <<export, disk, run, starting>>
    BY <1>1 DEF Work!Mailing, Work!CreateJob, Work!AddRecipients, Work!StartJob, Work!SaveDelivery, Work!FinishJob, Work!Post,
       Work!FailDelivery, Work!exportVars, Work!runVars
  <2> QED
    BY <1>1, <2>1, MailingKeeps, ExportStutter, RunStutter
<1>2. CASE Work(s)!Exporting
  <2>1. UNCHANGED <<mail, delivery, posted, run, starting>>
    BY <1>2 DEF Work!Exporting, Work!Request, Work!WriteFile, Work!SaveExport, Work!FailExport, Work!Download,
       Work!StartExport, Work!LoseFile, Work!mailVars, Work!runVars
  <2> QED
    BY <1>2, <2>1, ExportingKeeps, MailStutter, RunStutter
<1>3. CASE Work(s)!Maintaining
  <2>1. UNCHANGED <<mail, delivery, posted, export, disk>>
    BY <1>3 DEF Work!Maintaining, Work!Look, Work!CheckIdle, Work!StartRun, Work!GrowStale, Work!FinishRun,
       Work!mailVars, Work!exportVars
  <2> QED
    BY <1>3, <2>1, MaintainingKeeps, MailStutter, ExportStutter
<1>4. CASE Work(s)!Restart
  BY <1>4, MailRestarts, ExportRestarts, RunRestarts
<1> QED
  BY <1>1, <1>2, <1>3, <1>4 DEF Work!Next

LEMMA JobStutter ==
    ASSUME NEW s, JobInv(s), UNCHANGED <<mail, delivery, posted, export, disk, run, starting>>
    PROVE  JobInv(s)'
BY MailStutter, ExportStutter, RunStutter DEF JobInv

-----------------------------------------------------------------------------
(* The parts together: a behaviour is that of one part, of one size.       *)

PartsHold ==
    /\ \A s \in IdSizes : Playing("IDS", s) => IdInv(s)
    /\ \A s \in SheetSizes : Playing("SHEET", s) => SheetInv(s)
    /\ \A s \in LinkSizes : Playing("LINKS", s) => LinkInv(s)
    /\ \A s \in FileSizes : Playing("FILES", s) => FileInv(s)
    /\ \A s \in JobSizes : Playing("JOBS", s) => JobInv(s)

\* What a step of the reconciliation may do.
PartsAct == \A s \in SheetSizes : Playing("SHEET", s) => Sheet(s)!TakesFromNobody

LEMMA InitHolds == Init => PartsHold
<1>1. ASSUME NEW s \in IdSizes, Playing("IDS", s), Ids(s)!Init PROVE PartsHold
  BY <1>1, AccountsAssumption, IdInitHolds DEF PartsHold, Playing
<1>2. ASSUME NEW s \in SheetSizes, Playing("SHEET", s), Sheet(s)!ReconInit PROVE PartsHold
  BY <1>2, AccountsAssumption, SheetInitHolds DEF PartsHold, Playing
<1>3. ASSUME NEW s \in LinkSizes, Playing("LINKS", s), Links(s)!Init PROVE PartsHold
  BY <1>3, AccountsAssumption, LinkInitHolds DEF PartsHold, Playing
<1>4. ASSUME NEW s \in FileSizes, Playing("FILES", s), Files(s)!Init PROVE PartsHold
  BY <1>4, AccountsAssumption, FileInitHolds DEF PartsHold, Playing
<1>5. ASSUME NEW s \in JobSizes, Playing("JOBS", s), Work(s)!Init PROVE PartsHold
  BY <1>5, AccountsAssumption, JobInitHolds DEF PartsHold, Playing
<1> QED
  BY <1>1, <1>2, <1>3, <1>4, <1>5 DEF Init

LEMMA StepsHold == ASSUME PartsHold, Next PROVE PartsHold' /\ PartsAct
<1>0. part' = part /\ size' = size
  BY DEF Next
<1>1. ASSUME NEW s \in IdSizes, Playing("IDS", s), Ids(s)!Next PROVE PartsHold' /\ PartsAct
  <2>1. IdInv(s)'
    BY <1>1, AccountsAssumption, IdStep DEF PartsHold
  <2> QED
    BY <1>0, <1>1, <2>1 DEF PartsHold, PartsAct, Playing
<1>2. ASSUME NEW s \in SheetSizes, Playing("SHEET", s), Sheet(s)!ReconNext PROVE PartsHold' /\ PartsAct
  <2>1. SheetInv(s)' /\ Sheet(s)!TakesFromNobody
    BY <1>2, AccountsAssumption, SheetStep DEF PartsHold
  <2> QED
    BY <1>0, <1>2, <2>1 DEF PartsHold, PartsAct, Playing
<1>3. ASSUME NEW s \in LinkSizes, Playing("LINKS", s), Links(s)!Next PROVE PartsHold' /\ PartsAct
  <2>1. LinkInv(s)'
    BY <1>3, AccountsAssumption, LinkStep DEF PartsHold
  <2> QED
    BY <1>0, <1>3, <2>1 DEF PartsHold, PartsAct, Playing
<1>4. ASSUME NEW s \in FileSizes, Playing("FILES", s), Files(s)!Next PROVE PartsHold' /\ PartsAct
  <2>1. FileInv(s)'
    BY <1>4, AccountsAssumption, FileStep DEF PartsHold
  <2> QED
    BY <1>0, <1>4, <2>1 DEF PartsHold, PartsAct, Playing
<1>5. ASSUME NEW s \in JobSizes, Playing("JOBS", s), Work(s)!Next PROVE PartsHold' /\ PartsAct
  <2>1. JobInv(s)'
    BY <1>5, AccountsAssumption, JobStep DEF PartsHold
  <2> QED
    BY <1>0, <1>5, <2>1 DEF PartsHold, PartsAct, Playing
<1> QED
  BY <1>1, <1>2, <1>3, <1>4, <1>5 DEF Next

LEMMA StutterHolds == ASSUME PartsHold, UNCHANGED vars PROVE PartsHold' /\ PartsAct
<1>0. part' = part /\ size' = size
  BY DEF vars
<1>1. \A s \in IdSizes : Playing("IDS", s) => IdInv(s)'
  BY IdStutter DEF PartsHold, vars, idVars, sheetVars, linkVars, fileVars, jobVars
<1>2. \A s \in SheetSizes : Playing("SHEET", s) => SheetInv(s)' /\ Sheet(s)!TakesFromNobody
  BY SheetStutter DEF PartsHold, vars, idVars, sheetVars, linkVars, fileVars, jobVars
<1>3. \A s \in LinkSizes : Playing("LINKS", s) => LinkInv(s)'
  BY LinkStutter DEF PartsHold, vars, idVars, sheetVars, linkVars, fileVars, jobVars
<1>4. \A s \in FileSizes : Playing("FILES", s) => FileInv(s)'
  BY FileStutter DEF PartsHold, vars, idVars, sheetVars, linkVars, fileVars, jobVars
<1>5. \A s \in JobSizes : Playing("JOBS", s) => JobInv(s)'
  BY JobStutter DEF PartsHold, vars, idVars, sheetVars, linkVars, fileVars, jobVars
<1> QED
  BY <1>0, <1>1, <1>2, <1>3, <1>4, <1>5 DEF PartsHold, PartsAct, Playing

\* Every part keeps its invariant.
LEMMA AlwaysHolds == Spec => []PartsHold
<1>1. PartsHold /\ [Next]_vars => PartsHold'
  BY StepsHold, StutterHolds
<1> QED
  BY <1>1, InitHolds, PTL DEF Spec

-----------------------------------------------------------------------------
(* The properties. *)

\* Every part of the accounts keeps its types, whatever its size: ids within
\* the registry, the verdicts, states and statuses of models.py.
THEOREM TypeCorrect == Spec => []TypeOK
<1>1. PartsHold => TypeOK
  BY IdInvGives, SheetInvGives, LinkInvGives, FileInvGives, JobInvGives DEF PartsHold, TypeOK
<1> QED
  BY <1>1, AlwaysHolds, PTL

\* The club-id registry, membership requests, registration, a club lead's edit,
\* upsert_member, and the reconciliation's link, use-sheet and invite.  However
\* they overlap, an affiliate has an id (models.py, MembershipStatus).  Of
\* requests that take turns, a number that is kept back is nobody's and not
\* retired; requests that overlap can break that, as reserve locks nothing.
THEOREM IdsStaySound == Spec => []IdsAreSound
<1>1. PartsHold => IdsAreSound
  BY IdInvGives, SheetInvGives DEF PartsHold, IdsAreSound
<1> QED
  BY <1>1, AlwaysHolds, PTL

\* classify, a line's actions and the bulk ones: an id that a line gives was
\* nobody's when it was given, and no reservation of it is left, however the
\* requests overlap.  Of requests that take turns, it was also kept for nobody
\* else, and an invited person has it kept for them.
THEOREM SheetTakesNothing == Spec => SheetIsFollowed
<1>1. PartsHold /\ [Next]_vars =>
        [\A s \in SheetSizes : Playing("SHEET", s) => Sheet(s)!TakesFromNobody]_vars
  BY StepsHold DEF PartsAct
<1> QED
  BY <1>1, AlwaysHolds, PTL DEF Spec, SheetIsFollowed

\* issue_verification, confirm_verification, the password setup and the
\* invitations: an address counts as verified only if its owner opened a link
\* sent to it, an account whose address changed needs a new proof, and an
\* account has at most one setup link that works.
THEOREM LinksStayProved == Spec => []LinksProve
<1>1. PartsHold => LinksProve
  BY LinkInvGives DEF PartsHold, LinksProve
<1> QED
  BY <1>1, AlwaysHolds, PTL

\* preview, commit, and the fill of a restored form: nobody gets a second
\* account by an import, however commits overlap.  With requests one at a time
\* an attempt makes all of its valid rows or nothing, each response and raw row
\* once, and an event once if every row of its title names the date.
THEOREM ImportsStayWhole == Spec => []ImportsAreWhole
<1>1. PartsHold => ImportsAreWhole
  BY FileInvGives DEF PartsHold, ImportsAreWhole
<1> QED
  BY <1>1, AlwaysHolds, PTL

\* The mail job, the archive export and the maintenance run, which end with
\* the process they run in: what the row of a job says has happened.
THEOREM JobsStayTruthful == Spec => []JobsTellTruth
<1>1. PartsHold => JobsTellTruth
  BY JobInvGives DEF PartsHold, JobsTellTruth
<1> QED
  BY <1>1, AlwaysHolds, PTL
=============================================================================
