---------------------------- MODULE FormsProofs ----------------------------
(***************************************************************************)
(* Theorems about Forms, for every size of every part: the inductive       *)
(* invariant of each part, then the parts together.                        *)
(***************************************************************************)
EXTENDS Forms, FiniteSetTheorems, TLAPS

-----------------------------------------------------------------------------
(* Submissions.                                                            *)

Resting == [op |-> "IDLE"]
Empty   == [by |-> "NOBODY", pick |-> "NONE"]
ResponseRow(s) == {Empty} \cup [by : s.people \cup {"NOBODY"}, pick : s.picks]
RequestRow(s) == {Resting}
    \cup [op : {"SUBMIT"}, by : s.people, pick : s.picks, cap : s.capacities]
    \cup [op : {"EDIT"}, id : s.rows, by : s.people, pick : s.picks, locked : BOOLEAN]
    \cup [op : {"CANCEL"}, by : s.people, ids : SUBSET s.rows, full : BOOLEAN,
          closed : BOOLEAN, cap : s.capacities]

FormTypes(s) ==
    /\ status \in {"DRAFT", "PUBLISHED", "SCHEDULED", "CLOSED"}
    /\ cap \in s.capacities /\ eventCap \in s.capacities
    /\ window \in s.windows
    /\ by \in {"ORGANIZER", "FULL", "ROOM", "CLOCK", "EMPTIED"}
SeatTypes(s) ==
    /\ FormTypes(s)
    /\ row \in [s.rows -> ResponseRow(s)]
    /\ req \in [s.requests -> RequestRow(s)]

\* What a request has read is so until it is done.
StillSo(s, r) ==
    /\ req[r].op = "SUBMIT" => req[r].cap = cap
    /\ req[r].op = "EDIT" => row[req[r].id] # Empty
    /\ req[r].op = "CANCEL" => /\ req[r].full = Seats(s)!IsFull(cap, row)
                               /\ req[r].closed = (status = "CLOSED") /\ req[r].cap = cap

OneByOne(s) ==
    /\ \A q, r \in s.requests : req[q] # Resting /\ req[r] # Resting => q = r
    /\ \A r \in s.requests : StillSo(s, r)
    /\ Seats(s)!ClosedFormIsFull

SeatInv(s) == SeatTypes(s) /\ (s.overlap \/ OneByOne(s))

LEMMA SeatInitHolds ==
    ASSUME NEW s, Seats(s)!LimitsNumbered, Seats(s)!Init
    PROVE  SeatInv(s)
<1> USE DEF Seats!Init, Seats!Idle, Seats!NoRow, Seats!Nobody, Resting, Empty
<1>1. SeatTypes(s)
  BY DEF SeatTypes, FormTypes, RequestRow, ResponseRow
<1>2. OneByOne(s)
  BY DEF OneByOne, StillSo, Seats!ClosedFormIsFull
<1> QED
  BY <1>1, <1>2 DEF SeatInv

LEMMA SeatInvGives ==
    ASSUME NEW s, SeatInv(s)
    PROVE  Seats(s)!TypeOK /\ (s.overlap \/ Seats(s)!ClosedFormIsFull)
BY DEF SeatInv, SeatTypes, FormTypes, OneByOne, Seats!TypeOK, Seats!Statuses, Seats!NoRow, Seats!Nobody, Seats!Idle,
       ResponseRow, RequestRow, Resting, Empty

LEMMA SeatsStay ==
    ASSUME NEW s, SeatInv(s), UNCHANGED <<status, cap, window, by, row, eventCap, req>>
    PROVE  SeatInv(s)'
BY DEF SeatInv, SeatTypes, FormTypes, OneByOne, StillSo, ResponseRow, RequestRow, Seats!ClosedFormIsFull,
       Seats!IsFull, Seats!Taken, Seats!NoRow, Seats!Nobody

-----------------------------------------------------------------------------
(* Counting. *)

LEMMA SeatCount ==
    ASSUME NEW s, NEW S
    PROVE  Seats(s)!Cardinality(S) = Cardinality(S) /\ Seats(s)!IsFiniteSet(S) = IsFiniteSet(S)
BY DEF Seats!Cardinality, Cardinality, Seats!IsFiniteSet, IsFiniteSet

\* A form that is full stays full as responses come.
LEMMA FullGrows ==
    ASSUME NEW s, Seats(s)!LimitsNumbered, NEW c \in s.capacities, NEW old, NEW new,
           \A i \in s.rows : old[i] # Empty => new[i] # Empty,
           Seats(s)!IsFull(c, old)
    PROVE  Seats(s)!IsFull(c, new)
<1> DEFINE T == Seats(s)!Taken(old)
           U == Seats(s)!Taken(new)
<1>1. IsFiniteSet(s.rows) /\ c \in Nat
  BY SeatCount DEF Seats!LimitsNumbered
<1>2. T \subseteq U /\ U \subseteq s.rows
  BY DEF Seats!Taken, Seats!NoRow, Seats!Nobody, Empty
<1> HIDE DEF T, U
<1>3. IsFiniteSet(U) /\ Cardinality(T) <= Cardinality(U) /\ Cardinality(U) \in Nat /\ Cardinality(T) \in Nat
  BY <1>1, <1>2, FS_Subset, FS_CardinalityType
<1>4. c # 0 /\ Cardinality(T) >= c
  BY SeatCount DEF Seats!IsFull, T
<1>5. Cardinality(U) >= c
  BY <1>1, <1>3, <1>4
<1> QED
  BY <1>4, <1>5, SeatCount DEF Seats!IsFull, U

\* One row more is one response more at most.
LEMMA OneMore ==
    ASSUME NEW S, IsFiniteSet(S), NEW T \in SUBSET S, NEW U, NEW i \in S, U \subseteq T \cup {i}
    PROVE  /\ Cardinality(T) \in Nat /\ Cardinality(U) \in Nat
           /\ Cardinality(U) <= Cardinality(T) + 1
<1>1. IsFiniteSet(T) /\ IsFiniteSet(T \cup {i})
  BY FS_Subset, FS_AddElement
<1>2. Cardinality(T \cup {i}) <= Cardinality(T) + 1 /\ Cardinality(T) \in Nat
  BY <1>1, FS_AddElement, FS_CardinalityType
<1>3. IsFiniteSet(U) /\ Cardinality(U) <= Cardinality(T \cup {i})
  BY <1>1, FS_Subset
<1> QED
  BY <1>1, <1>2, <1>3, FS_CardinalityType

-----------------------------------------------------------------------------
(* What the steps share. *)

LEMMA RestingSo ==
    ASSUME NEW s, NEW r, req[r] = Resting
    PROVE  StillSo(s, r)
BY DEF StillSo, Resting

\* Nothing is under way.
LEMMA AllRest ==
    ASSUME NEW s, \A r \in s.requests : req[r] = Resting, Seats(s)!ClosedFormIsFull
    PROVE  OneByOne(s)
BY RestingSo DEF OneByOne

\* The step of a request that ends with it.
LEMMA RequestEnds ==
    ASSUME NEW s, SeatInv(s), NEW r \in s.requests, req[r] # Resting, req' = [req EXCEPT ![r] = Resting],
           FormTypes(s)', row' \in [s.rows -> ResponseRow(s)],
           s.overlap \/ Seats(s)!ClosedFormIsFull'
    PROVE  SeatInv(s)'
<1>1. req' \in [s.requests -> RequestRow(s)]
  BY DEF SeatInv, SeatTypes, RequestRow
<1>2. SeatTypes(s)'
  BY <1>1 DEF SeatTypes, ResponseRow, RequestRow
<1>3. ASSUME ~s.overlap PROVE OneByOne(s)'
  <2>1. \A q \in s.requests : req'[q] = Resting
    BY <1>3 DEF SeatInv, SeatTypes, OneByOne
  <2>2. \A q \in s.requests : StillSo(s, q)'
    BY <2>1 DEF StillSo, Resting
  <2> QED
    BY <1>3, <2>1, <2>2 DEF OneByOne
<1> QED
  BY <1>2, <1>3 DEF SeatInv

\* A step of an organizer's, while no request is under way if none overlap.
LEMMA BetweenRequests ==
    ASSUME NEW s, SeatInv(s), Seats(s)!Free, req' = req,
           FormTypes(s)', row' \in [s.rows -> ResponseRow(s)],
           s.overlap \/ Seats(s)!ClosedFormIsFull'
    PROVE  SeatInv(s)'
<1>1. SeatTypes(s)'
  BY DEF SeatInv, SeatTypes, ResponseRow, RequestRow
<1>2. ASSUME ~s.overlap PROVE OneByOne(s)'
  <2>1. \A q \in s.requests : req'[q] = Resting
    BY <1>2 DEF Seats!Free, Seats!Idle, Resting
  <2>2. \A q \in s.requests : StillSo(s, q)'
    BY <2>1 DEF StillSo, Resting
  <2> QED
    BY <1>2, <2>1, <2>2 DEF OneByOne
<1> QED
  BY <1>1, <1>2 DEF SeatInv

\* A request begins.
LEMMA RequestBegins ==
    ASSUME NEW s, SeatInv(s), NEW r \in s.requests, NEW x \in RequestRow(s),
           Seats(s)!Begin(r, x), FormTypes(s)', row' = row,
           s.overlap \/ Seats(s)!ClosedFormIsFull',
           s.overlap \/ (/\ x.op = "SUBMIT" => x.cap = cap'
                         /\ x.op = "EDIT" => row[x.id] # Empty
                         /\ x.op = "CANCEL" => /\ x.full = Seats(s)!IsFull(cap', row')
                                               /\ x.closed = (status' = "CLOSED") /\ x.cap = cap')
    PROVE  SeatInv(s)'
<1>1. /\ req \in [s.requests -> RequestRow(s)] /\ req' = [req EXCEPT ![r] = x]
      /\ s.overlap \/ \A q \in s.requests : req[q] = Resting
  BY DEF SeatInv, SeatTypes, Seats!Begin, Seats!Free, Seats!Idle, Resting
<1>2. req' \in [s.requests -> RequestRow(s)] /\ req'[r] = x /\ \A q \in s.requests \ {r} : req'[q] = req[q]
  BY <1>1
<1>3. SeatTypes(s)'
  BY <1>2 DEF SeatInv, SeatTypes, ResponseRow, RequestRow
<1>4. ASSUME ~s.overlap PROVE OneByOne(s)'
  <2>1. \A q \in s.requests \ {r} : req'[q] = Resting
    BY <1>1, <1>2, <1>4
  <2>2. \A q \in s.requests \ {r} : StillSo(s, q)'
    BY <2>1 DEF StillSo, Resting
  <2>3. StillSo(s, r)'
    BY <1>2, <1>4 DEF StillSo
  <2> QED
    BY <1>4, <2>1, <2>2, <2>3 DEF OneByOne
<1> QED
  BY <1>3, <1>4 DEF SeatInv

LEMMA StatusTypes ==
    ASSUME NEW s, SeatInv(s)
    PROVE  FormTypes(s) /\ row \in [s.rows -> ResponseRow(s)] /\ req \in [s.requests -> RequestRow(s)]
BY DEF SeatInv, SeatTypes

LEMMA EvaluatedTypes ==
    ASSUME NEW s, SeatInv(s)
    PROVE  Seats(s)!Evaluated(status) \in {"DRAFT", "PUBLISHED", "SCHEDULED", "CLOSED"}
BY DEF SeatInv, SeatTypes, FormTypes, Seats!Evaluated

-----------------------------------------------------------------------------
(* Requests. *)

LEMMA BeginSubmitKeeps ==
    ASSUME NEW s, SeatInv(s), NEW r \in s.requests, NEW p \in s.people, NEW k \in s.picks,
           Seats(s)!BeginSubmit(r, p, k)
    PROVE  SeatInv(s)'
<1> DEFINE x == [op |-> "SUBMIT", by |-> p, pick |-> k, cap |-> cap]
           t == Seats(s)!Evaluated(status)
<1>1. /\ Seats(s)!Begin(r, x) /\ UNCHANGED <<cap, window, row, eventCap>>
      /\ status' = t /\ by' = IF t = status THEN by ELSE "CLOCK"
  BY DEF Seats!BeginSubmit, Seats!Evaluate, Seats!SetStatus
<1>2. x \in RequestRow(s) /\ x.op = "SUBMIT" /\ x.cap = cap
  BY DEF SeatInv, SeatTypes, FormTypes, RequestRow
<1>3. FormTypes(s)'
  BY <1>1, EvaluatedTypes, StatusTypes DEF FormTypes
<1>4. s.overlap \/ Seats(s)!ClosedFormIsFull'
  BY <1>1 DEF SeatInv, OneByOne, Seats!ClosedFormIsFull, Seats!IsFull, Seats!Taken, Seats!NoRow, Seats!Nobody
<1> HIDE DEF x, t
<1> QED
  BY <1>1, <1>2, <1>3, <1>4, RequestBegins

LEMMA BeginEditKeeps ==
    ASSUME NEW s, Seats(s)!LimitsNumbered, SeatInv(s), NEW r \in s.requests, NEW i \in s.rows, NEW k \in s.picks,
           Seats(s)!BeginEdit(r, i, k)
    PROVE  SeatInv(s)'
<1> DEFINE x == Seats(s)!Editing_(i, k, FALSE)
<1>1. /\ Seats(s)!Begin(r, x) /\ UNCHANGED <<status, cap, window, by, row, eventCap>>
      /\ row[i].by \in s.people
  BY DEF Seats!BeginEdit, Seats!formVars
<1>2. x \in RequestRow(s) /\ x.op = "EDIT" /\ x.id = i /\ row[i] # Empty
  BY <1>1 DEF Seats!Editing_, RequestRow, Empty, Seats!LimitsNumbered, Seats!Nobody
<1>3. FormTypes(s)'
  BY <1>1, StatusTypes DEF FormTypes
<1>4. s.overlap \/ Seats(s)!ClosedFormIsFull'
  BY <1>1 DEF SeatInv, OneByOne, Seats!ClosedFormIsFull, Seats!IsFull, Seats!Taken, Seats!NoRow, Seats!Nobody
<1> HIDE DEF x
<1> QED
  BY <1>1, <1>2, <1>3, <1>4, RequestBegins

LEMMA BeginCancelKeeps ==
    ASSUME NEW s, SeatInv(s), NEW r \in s.requests, NEW p \in s.people, Seats(s)!BeginCancel(r, p)
    PROVE  SeatInv(s)'
<1> DEFINE x == [op |-> "CANCEL", by |-> p, ids |-> Seats(s)!Of(p), full |-> Seats(s)!IsFull(cap, row),
                 closed |-> status = "CLOSED", cap |-> cap]
<1>1. Seats(s)!Begin(r, x) /\ UNCHANGED <<status, cap, window, by, row, eventCap>>
  BY DEF Seats!BeginCancel, Seats!formVars
<1>2. Seats(s)!IsFull(cap, row) \in BOOLEAN
  BY DEF Seats!IsFull
<1>3. x \in RequestRow(s)
  BY <1>2 DEF RequestRow, Seats!Of, SeatInv, SeatTypes, FormTypes
<1>4. x.op = "CANCEL" /\ x.full = Seats(s)!IsFull(cap', row') /\ x.closed = (status' = "CLOSED") /\ x.cap = cap'
  BY <1>1 DEF Seats!IsFull
<1>5. FormTypes(s)'
  BY <1>1, StatusTypes DEF FormTypes
<1>6. s.overlap \/ Seats(s)!ClosedFormIsFull'
  BY <1>1 DEF SeatInv, OneByOne, Seats!ClosedFormIsFull, Seats!IsFull, Seats!Taken, Seats!NoRow, Seats!Nobody
<1>7. row' = row
  BY <1>1
<1> HIDE DEF x
<1> QED
  BY <1>1, <1>3, <1>4, <1>5, <1>6, <1>7, RequestBegins

LEMMA SubmitAgainKeeps ==
    ASSUME NEW s, Seats(s)!LimitsNumbered, SeatInv(s), NEW r \in s.requests, Seats(s)!SubmitAgain(r)
    PROVE  SeatInv(s)'
<1>1. PICK i \in Seats(s)!Of(req[r].by) :
         req' = [req EXCEPT ![r] = IF s.editing /\ ~Seats(s)!OptionFull(i, req[r].pick)
                                   THEN Seats(s)!Editing_(i, req[r].pick, TRUE) ELSE Seats(s)!Idle]
  BY DEF Seats!SubmitAgain
<1>2. req[r].op = "SUBMIT" /\ UNCHANGED <<status, cap, window, by, row, eventCap>>
  BY DEF Seats!SubmitAgain, Seats!formVars
<1>3. i \in s.rows /\ row[i].by = req[r].by /\ req[r].by \in s.people /\ req[r].pick \in s.picks /\ row[i] # Empty
  BY <1>2 DEF Seats!Of, SeatInv, SeatTypes, RequestRow, Resting, Empty, Seats!LimitsNumbered, Seats!Nobody
<1> DEFINE x == IF s.editing /\ ~Seats(s)!OptionFull(i, req[r].pick)
                THEN Seats(s)!Editing_(i, req[r].pick, TRUE) ELSE Resting
<1>4. x \in RequestRow(s) /\ (x.op = "EDIT" => x.id = i) /\ x.op \in {"IDLE", "EDIT"}
  BY <1>3 DEF RequestRow, Resting, Seats!Editing_
<1>5. req' = [req EXCEPT ![r] = x] /\ req[r] # Resting
  BY <1>1, <1>2 DEF Seats!Idle, Resting
<1> HIDE DEF x
<1>6. req' \in [s.requests -> RequestRow(s)] /\ req'[r] = x /\ \A q \in s.requests \ {r} : req'[q] = req[q]
  BY <1>4, <1>5 DEF SeatInv, SeatTypes
<1>7. SeatTypes(s)'
  BY <1>2, <1>6 DEF SeatInv, SeatTypes, FormTypes, RequestRow, ResponseRow
<1>8. ASSUME ~s.overlap PROVE OneByOne(s)'
  <2>1. \A q \in s.requests \ {r} : req'[q] = Resting
    BY <1>5, <1>6, <1>8 DEF SeatInv, OneByOne
  <2>2. \A q \in s.requests \ {r} : StillSo(s, q)'
    BY <2>1 DEF StillSo, Resting
  <2>3. StillSo(s, r)'
    BY <1>2, <1>3, <1>4, <1>6 DEF StillSo
  <2>4. Seats(s)!ClosedFormIsFull'
    BY <1>2, <1>8 DEF SeatInv, OneByOne, Seats!ClosedFormIsFull, Seats!IsFull, Seats!Taken, Seats!NoRow, Seats!Nobody
  <2> QED
    BY <2>1, <2>2, <2>3, <2>4 DEF OneByOne
<1> QED
  BY <1>7, <1>8 DEF SeatInv

LEMMA CommitSubmitKeeps ==
    ASSUME NEW s, Seats(s)!LimitsNumbered, SeatInv(s), NEW r \in s.requests, Seats(s)!CommitSubmit(r)
    PROVE  SeatInv(s)'
<1>1. /\ req[r].op = "SUBMIT" /\ req[r] # Resting /\ req' = [req EXCEPT ![r] = Resting]
      /\ UNCHANGED <<cap, window, eventCap>>
  BY DEF Seats!CommitSubmit, Seats!Idle, Resting
<1>2. req[r].by \in s.people /\ req[r].pick \in s.picks
  BY <1>1 DEF SeatInv, SeatTypes, RequestRow, Resting
<1>3. CASE UNCHANGED <<status, by, row>>
  <2>1. FormTypes(s)' /\ row' \in [s.rows -> ResponseRow(s)]
    BY <1>1, <1>3, StatusTypes DEF FormTypes
  <2>2. s.overlap \/ Seats(s)!ClosedFormIsFull'
    BY <1>1, <1>3 DEF SeatInv, OneByOne, Seats!ClosedFormIsFull, Seats!IsFull, Seats!Taken, Seats!NoRow, Seats!Nobody
  <2> QED
    BY <1>1, <2>1, <2>2, RequestEnds
<1>4. ASSUME ~Seats(s)!Refused(r), NEW i \in Seats(s)!Fresh,
             row' = [row EXCEPT ![i] = Seats(s)!Row(req[r].by, req[r].pick)],
             IF Seats(s)!IsFull(req[r].cap, row') THEN Seats(s)!SetStatus("CLOSED", "FULL")
             ELSE UNCHANGED <<status, by>>
      PROVE  SeatInv(s)'
  <2>1. i \in s.rows /\ Seats(s)!Row(req[r].by, req[r].pick) \in ResponseRow(s)
    BY <1>2, <1>4 DEF Seats!Fresh, Seats!Row, ResponseRow
  <2>2. row' \in [s.rows -> ResponseRow(s)]
    BY <1>4, <2>1, StatusTypes
  <2>3. FormTypes(s)'
    BY <1>1, <1>4, StatusTypes DEF FormTypes, Seats!SetStatus
  <2>4. ASSUME ~s.overlap PROVE Seats(s)!ClosedFormIsFull'
    <3>1. req[r].cap = cap /\ ~Seats(s)!IsFull(cap, row) /\ Seats(s)!ClosedFormIsFull
      BY <1>1, <1>4, <2>4 DEF SeatInv, OneByOne, StillSo, Seats!Refused
    <3>2. Seats(s)!ClosedFormIsFull' =
            (status' = "CLOSED" /\ by' = "FULL" /\ window' # "AFTER" => Seats(s)!IsFull(cap', row'))
      BY DEF Seats!ClosedFormIsFull, Seats!IsFull, Seats!Taken, Seats!NoRow, Seats!Nobody
    <3>3. CASE Seats(s)!IsFull(req[r].cap, row')
      BY <1>1, <3>1, <3>2, <3>3
    <3>4. CASE ~Seats(s)!IsFull(req[r].cap, row')
      BY <1>1, <1>4, <3>1, <3>2, <3>4 DEF Seats!ClosedFormIsFull
    <3> QED
      BY <3>3, <3>4
  <2> QED
    BY <1>1, <2>2, <2>3, <2>4, RequestEnds
<1> QED
  BY <1>3, <1>4 DEF Seats!CommitSubmit

LEMMA CommitEditKeeps ==
    ASSUME NEW s, Seats(s)!LimitsNumbered, SeatInv(s), NEW r \in s.requests, Seats(s)!CommitEdit(r)
    PROVE  SeatInv(s)'
<1> DEFINE x == Seats(s)!Row(req[r].by, req[r].pick)
           i == req[r].id
<1>1. /\ req[r].op = "EDIT" /\ req[r] # Resting /\ req' = [req EXCEPT ![r] = Resting]
      /\ row' = [row EXCEPT ![i] = x] /\ UNCHANGED <<status, cap, window, by, eventCap>>
  BY DEF Seats!CommitEdit, Seats!Idle, Resting, Seats!formVars
<1>2. i \in s.rows /\ req[r].by \in s.people /\ req[r].pick \in s.picks
  BY <1>1 DEF SeatInv, SeatTypes, RequestRow, Resting
<1>3. x \in ResponseRow(s) /\ x # Empty
  BY <1>2 DEF Seats!Row, ResponseRow, Empty, Seats!LimitsNumbered, Seats!Nobody
<1>4. cap \in s.capacities
  BY StatusTypes DEF FormTypes
<1> HIDE DEF x, i
<1>5. /\ row' \in [s.rows -> ResponseRow(s)] /\ \A j \in s.rows : row[j] # Empty => row'[j] # Empty
  BY <1>1, <1>2, <1>3, StatusTypes
<1>6. FormTypes(s)'
  BY <1>1, StatusTypes DEF FormTypes
<1>7. s.overlap \/ Seats(s)!ClosedFormIsFull'
  <2>1. Seats(s)!IsFull(cap, row) => Seats(s)!IsFull(cap', row')
    BY <1>1, <1>4, <1>5, FullGrows
  <2>2. Seats(s)!ClosedFormIsFull' =
          (status' = "CLOSED" /\ by' = "FULL" /\ window' # "AFTER" => Seats(s)!IsFull(cap', row'))
    BY DEF Seats!ClosedFormIsFull, Seats!IsFull, Seats!Taken, Seats!NoRow, Seats!Nobody
  <2>3. s.overlap \/ Seats(s)!ClosedFormIsFull
    BY DEF SeatInv, OneByOne
  <2> QED
    BY <1>1, <2>1, <2>2, <2>3 DEF Seats!ClosedFormIsFull
<1> QED
  BY <1>1, <1>5, <1>6, <1>7, RequestEnds

\* A form that closed itself opens with the room there is.
LEMMA Reopened ==
    ASSUME NEW s, SeatInv(s), NEW full, NEW closed, NEW c, NEW rows,
           Seats(s)!ReopenIfRoom(full, closed, c, rows), window' = window, cap' = c, row' = rows,
           cap' \in s.capacities, eventCap' \in s.capacities,
           ~s.overlap => full = Seats(s)!IsFull(cap, row) /\ closed = (status = "CLOSED")
    PROVE  FormTypes(s)' /\ (s.overlap \/ Seats(s)!ClosedFormIsFull')
<1>1. FormTypes(s)'
  BY StatusTypes DEF FormTypes, Seats!ReopenIfRoom, Seats!SetStatus
<1>2. Seats(s)!ClosedFormIsFull' =
        (status' = "CLOSED" /\ by' = "FULL" /\ window' # "AFTER" => Seats(s)!IsFull(c, rows))
  BY DEF Seats!ClosedFormIsFull, Seats!IsFull, Seats!Taken, Seats!NoRow, Seats!Nobody
<1>3. ASSUME ~s.overlap PROVE Seats(s)!ClosedFormIsFull'
  <2>1. Seats(s)!ClosedFormIsFull /\ full = Seats(s)!IsFull(cap, row) /\ closed = (status = "CLOSED")
    BY <1>3 DEF SeatInv, OneByOne
  <2>2. CASE full /\ closed /\ ~Seats(s)!IsFull(c, rows) /\ window # "AFTER"
    BY <1>2, <2>2 DEF Seats!ReopenIfRoom, Seats!SetStatus
  <2>3. CASE ~(full /\ closed /\ ~Seats(s)!IsFull(c, rows) /\ window # "AFTER")
    <3>1. UNCHANGED <<status, by>>
      BY <2>3 DEF Seats!ReopenIfRoom
    <3> HIDE DEF Seats!IsFull
    <3> QED
      BY <1>2, <2>1, <2>3, <3>1 DEF Seats!ClosedFormIsFull
  <2> QED
    BY <2>2, <2>3
<1> QED
  BY <1>1, <1>3

LEMMA CommitCancelKeeps ==
    ASSUME NEW s, SeatInv(s), NEW r \in s.requests, Seats(s)!CommitCancel(r)
    PROVE  SeatInv(s)'
<1>1. /\ req[r].op = "CANCEL" /\ req[r] # Resting /\ req' = [req EXCEPT ![r] = Resting]
      /\ row' = [i \in s.rows |-> IF i \in req[r].ids THEN Empty ELSE row[i]]
      /\ Seats(s)!ReopenIfRoom(req[r].full, req[r].closed, req[r].cap, row')
      /\ UNCHANGED <<cap, window, eventCap>>
  BY DEF Seats!CommitCancel, Seats!Idle, Resting, Empty, Seats!NoRow, Seats!Nobody
<1>2. row' \in [s.rows -> ResponseRow(s)]
  BY <1>1, StatusTypes DEF ResponseRow
<1>3. CASE s.overlap
  <2>1. FormTypes(s)'
    BY <1>1, StatusTypes DEF FormTypes, Seats!ReopenIfRoom, Seats!SetStatus
  <2> QED
    BY <1>1, <1>2, <1>3, <2>1, RequestEnds
<1>4. CASE ~s.overlap
  <2>1. /\ req[r].full = Seats(s)!IsFull(cap, row) /\ req[r].closed = (status = "CLOSED") /\ req[r].cap = cap
    BY <1>1, <1>4 DEF SeatInv, OneByOne, StillSo
  <2>2. cap' = req[r].cap /\ cap' \in s.capacities /\ eventCap' \in s.capacities /\ window' = window
    BY <1>1, <2>1, StatusTypes DEF FormTypes
  <2>3. Seats(s)!ReopenIfRoom(req[r].full, req[r].closed, req[r].cap, row')
    BY <1>1
  <2>4. FormTypes(s)' /\ (s.overlap \/ Seats(s)!ClosedFormIsFull')
    BY <2>1, <2>2, <2>3, Reopened
  <2> QED
    BY <1>1, <1>2, <2>4, RequestEnds
<1> QED
  BY <1>3, <1>4

-----------------------------------------------------------------------------
(* Organizers and the clock. *)

LEMMA FormPressKeeps ==
    ASSUME NEW s, SeatInv(s),
           Seats(s)!CloseAgain \/ \E t \in Seats(s)!Statuses : Seats(s)!Press(t)
    PROVE  SeatInv(s)'
<1>1. /\ Seats(s)!Free /\ req' = req /\ row' = row /\ by' = "ORGANIZER"
      /\ status' \in Seats(s)!Statuses /\ (window' = window \/ window' \in s.windows)
      /\ UNCHANGED <<cap, eventCap>>
  BY StatusTypes DEF Seats!CloseAgain, Seats!Press, FormTypes, Seats!Statuses
<1>2. FormTypes(s)' /\ row' \in [s.rows -> ResponseRow(s)]
  BY <1>1, StatusTypes DEF FormTypes, Seats!Statuses
<1>3. Seats(s)!ClosedFormIsFull'
  BY <1>1 DEF Seats!ClosedFormIsFull
<1> QED
  BY <1>1, <1>2, <1>3, BetweenRequests

LEMMA SetEventCapacityKeeps ==
    ASSUME NEW s, SeatInv(s), NEW c \in s.capacities, Seats(s)!SetEventCapacity(c)
    PROVE  SeatInv(s)'
<1>1. /\ Seats(s)!Free /\ req' = req /\ row' = row /\ cap' = c /\ eventCap' = c /\ window' = window
      /\ IF c # cap THEN Seats(s)!ReopenIfRoom(Seats(s)!IsFull(cap, row), status = "CLOSED", c, row)
         ELSE UNCHANGED <<status, by>>
  BY DEF Seats!SetEventCapacity
<1>2. row' \in [s.rows -> ResponseRow(s)]
  BY <1>1, StatusTypes
<1>3. CASE c # cap
  <2>1. FormTypes(s)' /\ (s.overlap \/ Seats(s)!ClosedFormIsFull')
    BY <1>1, <1>3, Reopened
  <2> QED
    BY <1>1, <1>2, <2>1, BetweenRequests
<1>4. CASE c = cap
  <2>1. FormTypes(s)'
    BY <1>1, <1>4, StatusTypes DEF FormTypes
  <2>2. s.overlap \/ Seats(s)!ClosedFormIsFull'
    BY <1>1, <1>4 DEF SeatInv, OneByOne, Seats!ClosedFormIsFull, Seats!IsFull, Seats!Taken, Seats!NoRow, Seats!Nobody
  <2> QED
    BY <1>1, <1>2, <2>1, <2>2, BetweenRequests
<1> QED
  BY <1>3, <1>4

LEMMA BuilderKeeps ==
    ASSUME NEW s, SeatInv(s),
           (\E c \in s.capacities : Seats(s)!SetLimit(c)) \/ (\E ids \in SUBSET s.rows : Seats(s)!BulkDelete(ids))
    PROVE  SeatInv(s)'
<1> DEFINE Edited == /\ Seats(s)!Free /\ req' = req /\ window' = window /\ eventCap' = eventCap
                     /\ cap' \in s.capacities /\ row' \in [s.rows -> ResponseRow(s)] /\ Seats(s)!Emptied(cap', row')
<1>1. Edited
  <2>1. ASSUME NEW c \in s.capacities, Seats(s)!SetLimit(c) PROVE Edited
    BY <2>1, StatusTypes DEF Seats!SetLimit
  <2>2. ASSUME NEW ids \in SUBSET s.rows, Seats(s)!BulkDelete(ids) PROVE Edited
    BY <2>2, StatusTypes DEF Seats!BulkDelete, FormTypes, ResponseRow, Empty, Seats!NoRow, Seats!Nobody
  <2> HIDE DEF Edited
  <2> QED
    BY <2>1, <2>2
<1>2. FormTypes(s)'
  BY <1>1, StatusTypes DEF FormTypes, Seats!Emptied
<1>3. Seats(s)!ClosedFormIsFull'
  BY <1>1 DEF Seats!ClosedFormIsFull, Seats!Emptied, Seats!IsFull, Seats!Taken, Seats!NoRow, Seats!Nobody
<1> QED
  BY <1>1, <1>2, <1>3, BetweenRequests

LEMMA ManualEntryKeeps ==
    ASSUME NEW s, Seats(s)!LimitsNumbered, SeatInv(s), NEW k \in s.picks, Seats(s)!ManualEntry(k)
    PROVE  SeatInv(s)'
<1> DEFINE x == Seats(s)!Row("NOBODY", k)
<1>1. PICK i \in Seats(s)!Fresh : row' = [row EXCEPT ![i] = x]
  BY DEF Seats!ManualEntry, Seats!Nobody
<1>2. Seats(s)!Free /\ UNCHANGED <<status, cap, window, by, eventCap, req>>
  BY DEF Seats!ManualEntry, Seats!formVars
<1>3. i \in s.rows /\ x \in ResponseRow(s) /\ x # Empty /\ cap \in s.capacities
  BY <1>1, StatusTypes DEF Seats!Fresh, Seats!Row, ResponseRow, Empty, Seats!LimitsNumbered, FormTypes
<1> HIDE DEF x
<1>4. /\ row' \in [s.rows -> ResponseRow(s)] /\ \A j \in s.rows : row[j] # Empty => row'[j] # Empty
  BY <1>1, <1>3, StatusTypes
<1>5. FormTypes(s)'
  BY <1>2, StatusTypes DEF FormTypes
<1>6. s.overlap \/ Seats(s)!ClosedFormIsFull'
  <2>1. Seats(s)!IsFull(cap, row) => Seats(s)!IsFull(cap', row')
    BY <1>2, <1>3, <1>4, FullGrows
  <2>2. Seats(s)!ClosedFormIsFull' =
          (status' = "CLOSED" /\ by' = "FULL" /\ window' # "AFTER" => Seats(s)!IsFull(cap', row'))
    BY DEF Seats!ClosedFormIsFull, Seats!IsFull, Seats!Taken, Seats!NoRow, Seats!Nobody
  <2>3. s.overlap \/ Seats(s)!ClosedFormIsFull
    BY DEF SeatInv, OneByOne
  <2> QED
    BY <1>2, <2>1, <2>2, <2>3 DEF Seats!ClosedFormIsFull
<1> QED
  BY <1>2, <1>4, <1>5, <1>6, BetweenRequests

LEMMA ClockKeeps ==
    ASSUME NEW s, SeatInv(s), Seats(s)!Tick \/ Seats(s)!SyncStatuses
    PROVE  SeatInv(s)'
<1>1. CASE Seats(s)!Tick
  <2>1. UNCHANGED <<status, cap, by, row, eventCap, req>> /\ window' \in s.windows /\ (window' # "AFTER" => window # "AFTER")
    BY <1>1 DEF Seats!Tick
  <2> QED
    BY <2>1 DEF SeatInv, SeatTypes, FormTypes, OneByOne, StillSo, ResponseRow, RequestRow, Seats!ClosedFormIsFull,
       Seats!IsFull, Seats!Taken, Seats!NoRow, Seats!Nobody
<1>2. CASE Seats(s)!SyncStatuses
  <2>1. /\ Seats(s)!Free /\ UNCHANGED <<cap, window, row, eventCap, req>> /\ by' = "CLOCK"
        /\ status' = Seats(s)!Evaluated(status)
    BY <1>2 DEF Seats!SyncStatuses, Seats!Evaluate, Seats!SetStatus
  <2>2. FormTypes(s)' /\ row' \in [s.rows -> ResponseRow(s)]
    BY <2>1, StatusTypes, EvaluatedTypes DEF FormTypes
  <2>3. Seats(s)!ClosedFormIsFull'
    BY <2>1 DEF Seats!ClosedFormIsFull
  <2> QED
    BY <2>1, <2>2, <2>3, BetweenRequests
<1> QED
  BY <1>1, <1>2

-----------------------------------------------------------------------------
(* Limits. *)

\* What is added is within the limits that were read.
LEMMA AddedWithinLimits ==
    ASSUME NEW s, Seats(s)!LimitsNumbered, SeatInv(s), NEW r \in s.requests, Seats(s)!CommitSubmit(r), row' # row
    PROVE  /\ req[r].cap # 0 => Seats(s)!Cardinality(Seats(s)!Taken(row')) <= req[r].cap
           /\ Seats(s)!Cardinality({i \in s.rows : row'[i].by = req[r].by}) <= s.perUser
           /\ Seats(s)!Picked(row') # Seats(s)!Picked(row) => Seats(s)!Cardinality(Seats(s)!Picked(row')) <= s.optionLimit
<1> DEFINE p == req[r].by
           x == Seats(s)!Row(p, req[r].pick)
           mine == Seats(s)!Of(p)
           mineNow == {i \in s.rows : row'[i].by = p}
           all == Seats(s)!Taken(row)
           allNow == Seats(s)!Taken(row')
           picks == Seats(s)!Picked(row)
           picksNow == Seats(s)!Picked(row')
<1>1. ~Seats(s)!Refused(r) /\ req[r].op = "SUBMIT" /\ (s.perUser = 1 => mine = {})
  BY DEF Seats!CommitSubmit
<1>2. PICK i \in Seats(s)!Fresh : row' = [row EXCEPT ![i] = x]
  BY DEF Seats!CommitSubmit
<1>3. /\ IsFiniteSet(s.rows) /\ i \in s.rows /\ s.perUser \in Nat \ {0} /\ s.optionLimit \in Nat
      /\ req[r].cap \in Nat /\ row \in [s.rows -> ResponseRow(s)]
  BY <1>1, <1>2, SeatCount DEF Seats!LimitsNumbered, Seats!Fresh, SeatInv, SeatTypes, RequestRow, Resting
<1>4. row'[i] = x /\ \A j \in s.rows \ {i} : row'[j] = row[j]
  BY <1>2, <1>3
<1>5. x.by = p /\ x.pick = req[r].pick
  BY DEF Seats!Row
<1>6. mine \in SUBSET s.rows /\ mineNow \subseteq mine \cup {i}
  BY <1>4 DEF Seats!Of
<1>7. all \in SUBSET s.rows /\ allNow \subseteq all \cup {i}
  BY <1>4 DEF Seats!Taken
<1>8. picks \in SUBSET s.rows /\ picksNow \subseteq picks \cup {i}
  BY <1>4 DEF Seats!Picked
<1>9. row[i] = Empty
  BY <1>2, <1>3 DEF Seats!Fresh, Seats!Taken, Empty, Seats!NoRow, Seats!Nobody
<1>10. picksNow # picks => req[r].pick = "LIMITED"
  BY <1>3, <1>4, <1>5, <1>9 DEF Seats!Picked, Empty
<1>11. /\ mine # {} /\ s.perUser # 1 => ~(Cardinality(mine) >= s.perUser)
       /\ ~(req[r].cap # 0 /\ Cardinality(all) >= req[r].cap)
       /\ req[r].pick = "LIMITED" => ~(Cardinality(picks) >= s.optionLimit)
  BY <1>1, SeatCount DEF Seats!Refused, Seats!IsFull
<1> HIDE DEF x, mine, mineNow, all, allNow, picks, picksNow, p
<1>12. /\ Cardinality(mine) \in Nat /\ Cardinality(mineNow) \in Nat
       /\ Cardinality(mineNow) <= Cardinality(mine) + 1
  BY <1>3, <1>6, OneMore
<1>13. /\ Cardinality(all) \in Nat /\ Cardinality(allNow) \in Nat
       /\ Cardinality(allNow) <= Cardinality(all) + 1
  BY <1>3, <1>7, OneMore
<1>14. /\ Cardinality(picks) \in Nat /\ Cardinality(picksNow) \in Nat
       /\ Cardinality(picksNow) <= Cardinality(picks) + 1
  BY <1>3, <1>8, OneMore
<1>15. req[r].cap # 0 => Cardinality(allNow) <= req[r].cap
  BY <1>3, <1>11, <1>13
<1>16. picksNow # picks => Cardinality(picksNow) <= s.optionLimit
  BY <1>3, <1>10, <1>11, <1>14
<1>17. Cardinality(mineNow) <= s.perUser
  <2>1. CASE mine = {}
    <3>1. Cardinality(mine) = 0
      BY <2>1, FS_EmptySet
    <3> QED
      BY <1>3, <1>12, <3>1
  <2>2. CASE mine # {}
    BY <1>1, <1>3, <1>11, <1>12, <2>2
  <2> QED
    BY <2>1, <2>2
<1> QED
  BY <1>15, <1>16, <1>17, SeatCount DEF mineNow, allNow, picks, picksNow, p

LEMMA NothingAdded ==
    ASSUME NEW s, req' = req \/ row' = row
    PROVE  Seats(s)!SubmissionRespectsLimits
BY DEF Seats!SubmissionRespectsLimits, Seats!SubmissionAdds, Seats!Idle

\* The requests that end and are no submission.
LEMMA OthersAddNothing ==
    ASSUME NEW s, SeatInv(s), NEW r \in s.requests, req' = [req EXCEPT ![r] = Resting], req[r].op # "SUBMIT"
    PROVE  Seats(s)!SubmissionRespectsLimits
<1>1. \A q \in s.requests : ~Seats(s)!SubmissionAdds(q)
  BY DEF Seats!SubmissionAdds, Seats!Idle, Resting, SeatInv, SeatTypes
<1> QED
  BY <1>1 DEF Seats!SubmissionRespectsLimits

LEMMA SubmissionsRespect ==
    ASSUME NEW s, Seats(s)!LimitsNumbered, SeatInv(s), NEW r \in s.requests, Seats(s)!CommitSubmit(r)
    PROVE  Seats(s)!SubmissionRespectsLimits
<1>1. req' = [req EXCEPT ![r] = Resting] /\ req \in [s.requests -> RequestRow(s)]
  BY StatusTypes DEF Seats!CommitSubmit, Seats!Idle, Resting
<1>2. ASSUME NEW q \in s.requests, Seats(s)!SubmissionAdds(q) PROVE q = r /\ row' # row
  BY <1>1, <1>2 DEF Seats!SubmissionAdds, Seats!Idle
<1> QED
  BY <1>2, AddedWithinLimits DEF Seats!SubmissionRespectsLimits

LEMMA SeatStep ==
    ASSUME NEW s, Seats(s)!LimitsNumbered, SeatInv(s), Seats(s)!Next
    PROVE  SeatInv(s)' /\ Seats(s)!SubmissionRespectsLimits
<1> DEFINE Goal == SeatInv(s)' /\ Seats(s)!SubmissionRespectsLimits
<1> SUFFICES Goal
  OBVIOUS
<1>1. ASSUME NEW r \in s.requests, NEW p \in s.people, NEW k \in s.picks, Seats(s)!BeginSubmit(r, p, k) PROVE Goal
  BY <1>1, BeginSubmitKeeps, NothingAdded DEF Seats!BeginSubmit
<1>2. ASSUME NEW r \in s.requests, Seats(s)!CommitSubmit(r) PROVE Goal
  BY <1>2, CommitSubmitKeeps, SubmissionsRespect
<1>3. ASSUME NEW r \in s.requests, Seats(s)!SubmitAgain(r) PROVE Goal
  BY <1>3, SubmitAgainKeeps, NothingAdded DEF Seats!SubmitAgain
<1>4. ASSUME NEW r \in s.requests, NEW i \in s.rows, NEW k \in s.picks, Seats(s)!BeginEdit(r, i, k) PROVE Goal
  BY <1>4, BeginEditKeeps, NothingAdded DEF Seats!BeginEdit
<1>5. ASSUME NEW r \in s.requests, Seats(s)!CommitEdit(r) PROVE Goal
  <2>1. req' = [req EXCEPT ![r] = Resting] /\ req[r].op # "SUBMIT"
    BY <1>5 DEF Seats!CommitEdit, Seats!Idle, Resting
  <2> QED
    BY <1>5, <2>1, CommitEditKeeps, OthersAddNothing
<1>6. ASSUME NEW r \in s.requests, NEW p \in s.people, Seats(s)!BeginCancel(r, p) PROVE Goal
  BY <1>6, BeginCancelKeeps, NothingAdded DEF Seats!BeginCancel
<1>7. ASSUME NEW r \in s.requests, Seats(s)!CommitCancel(r) PROVE Goal
  <2>1. req' = [req EXCEPT ![r] = Resting] /\ req[r].op # "SUBMIT"
    BY <1>7 DEF Seats!CommitCancel, Seats!Idle, Resting
  <2> QED
    BY <1>7, <2>1, CommitCancelKeeps, OthersAddNothing
<1>8. CASE Seats(s)!CloseAgain \/ \E t \in Seats(s)!Statuses : Seats(s)!Press(t)
  BY <1>8, FormPressKeeps, NothingAdded DEF Seats!CloseAgain, Seats!Press
<1>9. ASSUME NEW c \in s.capacities, Seats(s)!SetEventCapacity(c) PROVE Goal
  BY <1>9, SetEventCapacityKeeps, NothingAdded DEF Seats!SetEventCapacity
<1>10. CASE (\E c \in s.capacities : Seats(s)!SetLimit(c)) \/ (\E ids \in SUBSET s.rows : Seats(s)!BulkDelete(ids))
  BY <1>10, BuilderKeeps, NothingAdded DEF Seats!SetLimit, Seats!BulkDelete
<1>11. ASSUME NEW k \in s.picks, Seats(s)!ManualEntry(k) PROVE Goal
  BY <1>11, ManualEntryKeeps, NothingAdded DEF Seats!ManualEntry
<1>12. CASE Seats(s)!Tick \/ Seats(s)!SyncStatuses
  BY <1>12, ClockKeeps, NothingAdded DEF Seats!Tick, Seats!SyncStatuses
<1> HIDE DEF Goal
<1>13. ASSUME NEW r \in s.requests, Seats(s)!Respond(r) PROVE Goal
  BY <1>1, <1>2, <1>3, <1>4, <1>5, <1>6, <1>7, <1>13 DEF Seats!Respond
<1>14. CASE Seats(s)!Organize
  BY <1>8, <1>9, <1>10, <1>11, <1>14 DEF Seats!Organize
<1> QED
  BY <1>12, <1>13, <1>14 DEF Seats!Next

LEMMA SeatStutter ==
    ASSUME NEW s, SeatInv(s), UNCHANGED <<status, cap, window, by, row, eventCap, req>>
    PROVE  SeatInv(s)' /\ Seats(s)!SubmissionRespectsLimits
BY SeatsStay, NothingAdded

-----------------------------------------------------------------------------
(* Reminders.                                                              *)

Due_(s)   == s.people \X {"DAY", "HOUR"}
RunRow(s) == [todo : SUBSET Due_(s), sending : SUBSET Due_(s)]

RemindTypes(s) ==
    /\ clock \in 1..4
    /\ since \in [s.people -> 0..4]
    /\ claimed \subseteq Due_(s)
    /\ sent \in [Due_(s) -> Nat]
    /\ run \in [s.runs -> RunRow(s)]
    /\ moves \in 0..s.maxMoves

\* What was sent is claimed, and what is being sent is claimed by that run and
\* not sent yet.
ClaimedFirst(s) ==
    /\ \A m \in Due_(s) : sent[m] <= 1 /\ (sent[m] = 1 => m \in claimed)
    /\ \A r \in s.runs : \A m \in run[r].sending :
          /\ m \in claimed /\ sent[m] = 0
          /\ \A n \in run[r].sending : n = m
          /\ \A q \in s.runs : m \in run[q].sending => q = r

RemindInv(s) == RemindTypes(s) /\ ClaimedFirst(s)

LEMMA RemindInitHolds ==
    ASSUME NEW s, Remind(s)!MovesBounded, Remind(s)!Init
    PROVE  RemindInv(s)
<1> USE DEF Remind!Init, Due_, RunRow, Remind!Leads, Remind!Stopped, Remind!MovesBounded
<1>1. RemindTypes(s)
  BY DEF RemindTypes
<1>2. ClaimedFirst(s)
  BY DEF ClaimedFirst
<1> QED
  BY <1>1, <1>2 DEF RemindInv

LEMMA RemindInvGives ==
    ASSUME NEW s, RemindInv(s)
    PROVE  Remind(s)!TypeOK /\ Remind(s)!RemindedOnce
BY DEF RemindInv, RemindTypes, ClaimedFirst, Due_, RunRow, Remind!TypeOK, Remind!RemindedOnce, Remind!Leads,
       Remind!Phases

LEMMA RemindStutter ==
    ASSUME NEW s, RemindInv(s), UNCHANGED <<clock, since, claimed, sent, run, moves>>
    PROVE  RemindInv(s)'
BY DEF RemindInv, RemindTypes, ClaimedFirst, Due_, RunRow

\* What the calendar does concerns no reminder.
LEMMA CalendarKeeps ==
    ASSUME NEW s, Remind(s)!MovesBounded, RemindInv(s),
           \/ \E p \in s.people : Remind(s)!Register(p) \/ Remind(s)!Cancel(p)
           \/ Remind(s)!Tick \/ Remind(s)!Postpone
    PROVE  RemindInv(s)'
<1>1. /\ clock' \in 1..4 /\ since' \in [s.people -> 0..4] /\ moves' \in 0..s.maxMoves
  BY DEF RemindInv, RemindTypes, Remind!Register, Remind!Cancel, Remind!Tick, Remind!Postpone,
     Remind!MovesBounded
<1>2. UNCHANGED <<claimed, sent, run>>
  BY DEF Remind!Register, Remind!Cancel, Remind!Tick, Remind!Postpone
<1> QED
  BY <1>1, <1>2 DEF RemindInv, RemindTypes, ClaimedFirst, Due_, RunRow

\* One run is written.
LEMMA OneRunWritten ==
    ASSUME NEW s, NEW r \in s.runs, NEW x \in RunRow(s), RemindInv(s),
           run' = [run EXCEPT ![r] = x], UNCHANGED <<clock, since, moves>>,
           claimed' \subseteq Due_(s), sent' \in [Due_(s) -> Nat],
           \A m \in Due_(s) : sent'[m] <= 1 /\ (sent'[m] = 1 => m \in claimed'),
           claimed \subseteq claimed',
           \A q \in s.runs \ {r} : \A m \in run[q].sending : sent'[m] = 0 /\ m \notin x.sending,
           \A m \in x.sending : m \in claimed' /\ sent'[m] = 0 /\ \A n \in x.sending : n = m
    PROVE  RemindInv(s)'
<1>1. /\ run' \in [s.runs -> RunRow(s)] /\ run'[r] = x
      /\ \A q \in s.runs \ {r} : run'[q] = run[q]
  BY DEF RemindInv, RemindTypes
<1>2. RemindTypes(s)'
  BY <1>1 DEF RemindInv, RemindTypes, Due_, RunRow
<1>3. ASSUME NEW q \in s.runs, NEW m \in run'[q].sending
      PROVE  /\ m \in claimed' /\ sent'[m] = 0
             /\ \A n \in run'[q].sending : n = m
             /\ \A p \in s.runs : m \in run'[p].sending => p = q
  BY <1>1, <1>3 DEF RemindInv, RemindTypes, ClaimedFirst
<1>4. ClaimedFirst(s)'
  BY <1>3 DEF ClaimedFirst, Due_
<1> QED
  BY <1>2, <1>4 DEF RemindInv

LEMMA ListKeeps ==
    ASSUME NEW s, RemindInv(s), NEW r \in s.runs, NEW lead \in {"DAY", "HOUR"}, Remind(s)!List(r, lead)
    PROVE  RemindInv(s)'
<1> DEFINE x == [run[r] EXCEPT !.todo = Remind(s)!Recipients(lead)]
<1>1. run' = [run EXCEPT ![r] = x]
  BY Zenon DEF Remind!List
<1>2. x \in RunRow(s) /\ x.sending = {}
  <2>1. Remind(s)!Recipients(lead) \subseteq Due_(s)
    BY DEF Remind!Recipients, Due_
  <2>2. run[r] \in RunRow(s) /\ run[r].sending = {}
    BY DEF RemindInv, RemindTypes, Remind!List, Remind!Stopped
  <2> HIDE DEF Remind!Recipients
  <2> QED
    BY <2>1, <2>2 DEF RunRow
<1>3. UNCHANGED <<clock, since, claimed, sent, moves>>
  BY DEF Remind!List
<1> HIDE DEF x
<1> QED
  BY <1>1, <1>2, <1>3, OneRunWritten DEF RemindInv, RemindTypes, ClaimedFirst

LEMMA ClaimKeeps ==
    ASSUME NEW s, RemindInv(s), NEW r \in s.runs, Remind(s)!Claim(r)
    PROVE  RemindInv(s)'
<1>1. PICK m \in run[r].todo :
        /\ run[r].sending = {}
        /\ claimed' = claimed \cup {m}
        /\ run' = [run EXCEPT ![r].todo = @ \ {m}, ![r].sending = IF m \in claimed THEN {} ELSE {m}]
        /\ UNCHANGED <<clock, since, sent, moves>>
  BY DEF Remind!Claim
<1> DEFINE now == IF m \in claimed THEN {} ELSE {m}
           x == [run[r] EXCEPT !.todo = @ \ {m}, !.sending = now]
<1>2. run[r] \in RunRow(s) /\ m \in Due_(s)
  BY DEF RemindInv, RemindTypes, RunRow
<1>3. run' = [run EXCEPT ![r] = x]
  BY <1>1, Zenon
<1>4. x \in RunRow(s) /\ x.sending = now
  BY <1>2 DEF RunRow
<1>5. /\ claimed' \subseteq Due_(s) /\ claimed \subseteq claimed' /\ sent' = sent
      /\ UNCHANGED <<clock, since, moves>>
  BY <1>1, <1>2 DEF RemindInv, RemindTypes
<1>6. sent \in [Due_(s) -> Nat] /\ \A n \in Due_(s) : sent[n] <= 1 /\ (sent[n] = 1 => n \in claimed')
  BY <1>5 DEF RemindInv, RemindTypes, ClaimedFirst
<1>7. \A q \in s.runs \ {r} : \A n \in run[q].sending : sent[n] = 0 /\ n \in claimed
  BY DEF RemindInv, ClaimedFirst
<1>8. \A n \in now : n = m /\ m \notin claimed /\ n \in claimed' /\ sent[n] = 0
  BY <1>1, <1>2 DEF RemindInv, RemindTypes, ClaimedFirst
<1>9. \A q \in s.runs \ {r} : \A n \in run[q].sending : n \notin now
  BY <1>7, <1>8
<1> HIDE DEF x, now
<1> QED
  BY <1>3, <1>4, <1>5, <1>6, <1>7, <1>8, <1>9, OneRunWritten

LEMMA SendKeeps ==
    ASSUME NEW s, RemindInv(s), NEW r \in s.runs, Remind(s)!Send(r)
    PROVE  RemindInv(s)'
<1>1. PICK m \in run[r].sending :
        /\ sent' = [sent EXCEPT ![m] = @ + 1]
        /\ run' = [run EXCEPT ![r].sending = {}]
        /\ UNCHANGED <<clock, since, claimed, moves>>
  BY DEF Remind!Send
<1> DEFINE x == [run[r] EXCEPT !.sending = {}]
<1>2. run[r] \in RunRow(s) /\ m \in Due_(s)
  BY DEF RemindInv, RemindTypes, RunRow
<1>3. run' = [run EXCEPT ![r] = x]
  BY <1>1, Zenon
<1>4. x \in RunRow(s) /\ x.sending = {}
  BY <1>2 DEF RunRow
<1>5. /\ m \in claimed /\ sent[m] = 0 /\ \A q \in s.runs \ {r} : m \notin run[q].sending
  BY DEF RemindInv, ClaimedFirst
<1>6. /\ sent' \in [Due_(s) -> Nat] /\ sent'[m] = 1 /\ \A n \in Due_(s) \ {m} : sent'[n] = sent[n]
  BY <1>1, <1>2, <1>5 DEF RemindInv, RemindTypes
<1>7. \A n \in Due_(s) : sent'[n] <= 1 /\ (sent'[n] = 1 => n \in claimed')
  BY <1>1, <1>5, <1>6 DEF RemindInv, ClaimedFirst
<1>8. \A q \in s.runs \ {r} : \A n \in run[q].sending : sent'[n] = 0
  BY <1>5, <1>6 DEF RemindInv, RemindTypes, ClaimedFirst, RunRow
<1>9. claimed' \subseteq Due_(s) /\ claimed \subseteq claimed' /\ UNCHANGED <<clock, since, moves>>
  BY <1>1 DEF RemindInv, RemindTypes
<1> HIDE DEF x
<1> QED
  BY <1>3, <1>4, <1>6, <1>7, <1>8, <1>9, OneRunWritten

LEMMA DieKeeps ==
    ASSUME NEW s, RemindInv(s), NEW r \in s.runs, Remind(s)!Die(r)
    PROVE  RemindInv(s)'
<1>1. Remind(s)!Stopped \in RunRow(s) /\ Remind(s)!Stopped.sending = {}
  BY DEF Remind!Stopped, RunRow
<1>2. run' = [run EXCEPT ![r] = Remind(s)!Stopped] /\ UNCHANGED <<clock, since, claimed, sent, moves>>
  BY DEF Remind!Die
<1> QED
  BY <1>1, <1>2, OneRunWritten DEF RemindInv, RemindTypes, ClaimedFirst

LEMMA RemindStep ==
    ASSUME NEW s, Remind(s)!MovesBounded, RemindInv(s), Remind(s)!Next
    PROVE  RemindInv(s)'
BY CalendarKeeps, ListKeeps, ClaimKeeps, SendKeeps, DieKeeps DEF Remind!Next, Remind!Leads

-----------------------------------------------------------------------------
(* Uploads.                                                                *)

FilesOf(s) == s.own \cup s.swaps
FileRow == [state : {"PENDING", "UPLOADED", "NEW", "ATTACHED", "REJECTED", "DELETED"},
            attached : BOOLEAN, expired : BOOLEAN]
KeysOf(s) == {"TMP", "FINAL"} \X FilesOf(s)

UploadTypes(s) ==
    /\ file \in [FilesOf(s) -> FileRow]
    /\ bucket \subseteq KeysOf(s) /\ due \subseteq KeysOf(s)
    /\ response \in BOOLEAN
    /\ answer \subseteq FilesOf(s) /\ swept \subseteq FilesOf(s)
    /\ req \in [s.requests -> {[op |-> "IDLE"]} \cup [op : {"WRITE"}, refs : SUBSET s.own]]
    /\ picking \in [FilesOf(s) -> {[op |-> "IDLE"]} \cup [op : {"PICK"}, earlier : SUBSET FilesOf(s)]]

\* The sweep, or a request for a new file, has read the row and will mark it.
Listed(s, f) == \/ f \in swept
                \/ \E g \in FilesOf(s) : picking[g] # Resting /\ f \in picking[g].earlier

\* A file the answer names is attached, or was and has been marked by a
\* request that overlapped; its object is in the bucket.  An object to delete
\* is of a file that is no longer named and never will be.  Of one request at
\* a time, what is listed is not attached.
FileSound(s, f) ==
    /\ file[f].state = "ATTACHED" /\ file[f].attached => f \in answer
    /\ f \in answer => /\ <<"FINAL", f>> \in bucket
                       /\ file[f].state \in {"ATTACHED", "DELETED"}
                       /\ s.overlap \/ (file[f].state = "ATTACHED" /\ file[f].attached)
    /\ <<"FINAL", f>> \in due => f \notin answer /\ file[f].state \in {"ATTACHED", "DELETED"}
    /\ Listed(s, f) => file[f].state # "NEW" /\ (s.overlap \/ file[f].state # "ATTACHED")
    /\ picking[f] # Resting => file[f].state = "NEW"

UploadInv(s) == UploadTypes(s) /\ \A f \in FilesOf(s) : FileSound(s, f)

LEMMA UploadInitHolds ==
    ASSUME NEW s, Files(s)!Init
    PROVE  UploadInv(s)
<1> USE DEF Files!Init, Files!File, Files!Files, Files!Idle, FilesOf, FileRow
<1>1. UploadTypes(s)
  BY DEF UploadTypes
<1>2. \A f \in FilesOf(s) : FileSound(s, f)
  BY DEF FileSound, Listed, Resting
<1> QED
  BY <1>1, <1>2 DEF UploadInv

LEMMA UploadInvGives ==
    ASSUME NEW s, UploadInv(s)
    PROVE  Files(s)!TypeOK /\ Files(s)!AnswerNamesItsFiles
<1>1. Files(s)!TypeOK
  BY DEF UploadInv, UploadTypes, FilesOf, FileRow, KeysOf, Files!TypeOK, Files!Files, Files!Active, Files!Idle
<1>2. ASSUME \A f \in FilesOf(s) : FileSound(s, f), UploadTypes(s) PROVE Files(s)!AnswerNamesItsFiles
  BY <1>2 DEF UploadTypes, FilesOf, FileSound, Files!AnswerNamesItsFiles, Files!Files, Files!Final
<1> QED
  BY <1>1, <1>2 DEF UploadInv

LEMMA ListedKept ==
    ASSUME NEW s, UNCHANGED <<picking, swept>>
    PROVE  \A f : Listed(s, f)' <=> Listed(s, f)
BY DEF Listed

LEMMA QuietGives ==
    ASSUME NEW s, Files(s)!Quiet
    PROVE  \A f : s.overlap \/ ~Listed(s, f)
BY DEF Files!Quiet, Files!Files, Files!Idle, Listed, Resting, FilesOf

LEMMA UploadStutter ==
    ASSUME NEW s, UploadInv(s), UNCHANGED <<file, bucket, response, answer, req, picking, swept, due>>
    PROVE  UploadInv(s)'
BY ListedKept DEF UploadInv, UploadTypes, FileSound, FilesOf, FileRow, KeysOf

\* What Mark does to the rows.
LEMMA Marks ==
    ASSUME NEW s, UploadTypes(s), NEW fs, NEW st \in {"UPLOADED", "REJECTED", "DELETED"}
    PROVE  LET g == Files(s)!Mark(fs, st)
           IN  /\ g \in [FilesOf(s) -> FileRow]
               /\ \A f \in FilesOf(s) : /\ g[f].attached = file[f].attached
                                        /\ f \in fs => g[f].state = st
                                        /\ f \notin fs => g[f] = file[f]
<1>1. ASSUME NEW f \in FilesOf(s)
      PROVE  /\ [file[f] EXCEPT !.state = st] \in FileRow
             /\ [file[f] EXCEPT !.state = st].state = st
             /\ [file[f] EXCEPT !.state = st].attached = file[f].attached
  BY DEF UploadTypes, FileRow
<1>2. \A f \in FilesOf(s) : file[f] \in FileRow
  BY DEF UploadTypes
<1> QED
  BY <1>1, <1>2 DEF Files!Mark, Files!Files, FilesOf

\* The types of a step, and the files it leaves sound.
LEMMA UploadKept ==
    ASSUME NEW s, UploadTypes(s)', \A f \in FilesOf(s) : FileSound(s, f)'
    PROVE  UploadInv(s)'
BY DEF UploadInv, FilesOf

LEMMA BeginPickKeeps ==
    ASSUME NEW s, Files(s)!FilesNamed, UploadInv(s), NEW f \in FilesOf(s), Files(s)!BeginPick(f)
    PROVE  UploadInv(s)'
<1> DEFINE earlier == IF s.maxFiles = 1 THEN Files(s)!Waiting(f) ELSE {}
           x == [op |-> "PICK", earlier |-> earlier]
<1>0. UploadTypes(s) /\ (\A h \in FilesOf(s) : FileSound(s, h))
  BY DEF UploadInv
<1>1. /\ picking' = [picking EXCEPT ![f] = x] /\ file[f].state = "NEW"
      /\ UNCHANGED <<file, bucket, response, answer, req, swept, due>>
  BY DEF Files!BeginPick
<1>2. earlier \subseteq FilesOf(s) /\ \A h \in earlier : file[h].state \in {"PENDING", "UPLOADED"}
  BY DEF Files!Waiting, Files!Active, FilesOf
<1>3. x \in [op : {"PICK"}, earlier : SUBSET FilesOf(s)] /\ x.earlier = earlier
  BY <1>2
<1> HIDE DEF earlier, x
<1>4. /\ picking' \in [FilesOf(s) -> {[op |-> "IDLE"]} \cup [op : {"PICK"}, earlier : SUBSET FilesOf(s)]]
      /\ picking'[f] = x /\ \A h \in FilesOf(s) \ {f} : picking'[h] = picking[h]
  BY <1>0, <1>1, <1>3 DEF UploadTypes
<1>5. UploadTypes(s)'
  BY <1>0, <1>1, <1>4 DEF UploadTypes, KeysOf, FilesOf, FileRow
<1>6. ASSUME NEW h \in FilesOf(s) PROVE FileSound(s, h)'
  <2>1. Listed(s, h)' => Listed(s, h) \/ h \in earlier
    BY <1>1, <1>3, <1>4 DEF Listed
  <2> QED
    BY <1>0, <1>1, <1>2, <1>4, <2>1 DEF FileSound
<1> QED
  BY <1>5, <1>6, UploadKept

LEMMA CommitPickKeeps ==
    ASSUME NEW s, Files(s)!FilesNamed, UploadInv(s), NEW f \in FilesOf(s), Files(s)!CommitPick(f)
    PROVE  UploadInv(s)'
<1> DEFINE earlier == picking[f].earlier
           g == Files(s)!Mark(earlier, "DELETED")
           x == Files(s)!File("PENDING")
<1>1. /\ file' = [g EXCEPT ![f] = x] /\ picking[f] # Resting
      /\ bucket' = bucket \ {<<"TMP", h>> : h \in earlier}
      /\ picking' = [picking EXCEPT ![f] = Resting]
      /\ UNCHANGED <<response, answer, req, swept, due>>
  BY DEF Files!CommitPick, Files!Tmp, Files!Idle, Resting
<1>2. UploadTypes(s) /\ \A h \in FilesOf(s) : FileSound(s, h)
  BY DEF UploadInv
<1>3. /\ g \in [FilesOf(s) -> FileRow]
      /\ \A h \in FilesOf(s) : /\ g[h].attached = file[h].attached
                               /\ h \in earlier => g[h].state = "DELETED"
                               /\ h \notin earlier => g[h] = file[h]
  BY <1>2, Marks
<1>4. \A h \in earlier : Listed(s, h)
  BY <1>1 DEF Listed
<1>5. x \in FileRow /\ x.state = "PENDING" /\ x.attached = FALSE
  BY DEF FileRow, Files!File
<1> HIDE DEF earlier, g, x
<1>6. /\ file' \in [FilesOf(s) -> FileRow] /\ file'[f] = x
      /\ \A h \in FilesOf(s) \ {f} : file'[h] = g[h]
  BY <1>1, <1>3, <1>5
<1>7. /\ picking' \in [FilesOf(s) -> {[op |-> "IDLE"]} \cup [op : {"PICK"}, earlier : SUBSET FilesOf(s)]]
      /\ picking'[f] = Resting /\ \A h \in FilesOf(s) \ {f} : picking'[h] = picking[h]
  BY <1>1, <1>2 DEF UploadTypes, Resting
<1>8. UploadTypes(s)'
  BY <1>1, <1>2, <1>6, <1>7 DEF UploadTypes, FilesOf, FileRow, KeysOf
<1>9. ASSUME NEW h \in FilesOf(s) PROVE FileSound(s, h)'
  <2>1. FileSound(s, h) /\ FileSound(s, f)
    BY <1>2
  <2>2. Listed(s, h)' => Listed(s, h)
    BY <1>1, <1>7 DEF Listed
  <2>3. <<"FINAL", h>> \in bucket' <=> <<"FINAL", h>> \in bucket
    BY <1>1
  <2>4. CASE h = f
    BY <1>1, <1>5, <1>6, <1>7, <2>1, <2>2, <2>3, <2>4 DEF FileSound
  <2>5. CASE h # f
    BY <1>1, <1>3, <1>4, <1>6, <1>7, <2>1, <2>2, <2>3, <2>5 DEF FileSound
  <2> QED
    BY <2>4, <2>5
<1> QED
  BY <1>8, <1>9, UploadKept

LEMMA BeforeKeeps ==
    ASSUME NEW s, UploadInv(s), NEW f \in FilesOf(s),
           \/ Files(s)!Post(f) \/ Files(s)!Discard(f)
           \/ \E ok \in BOOLEAN : Files(s)!Complete(f, ok)
    PROVE  UploadInv(s)'
<1>0. UploadTypes(s)
  BY DEF UploadInv
<1>1. CASE Files(s)!Post(f)
  <2>1. bucket' = bucket \cup {<<"TMP", f>>} /\ UNCHANGED <<file, response, answer, req, picking, swept, due>>
    BY <1>1 DEF Files!Post, Files!Tmp
  <2>2. UploadTypes(s)'
    BY <1>0, <2>1 DEF UploadTypes, KeysOf, FilesOf, FileRow
  <2> QED
    BY <2>1, <2>2, UploadKept, ListedKept DEF UploadInv, FileSound
<1>2. ASSUME NEW st \in {"UPLOADED", "REJECTED", "DELETED"},
             file[f].state \in {"PENDING", "UPLOADED"}, file' = Files(s)!Mark({f}, st),
             bucket' = bucket \/ bucket' = bucket \ {<<"TMP", f>>},
             UNCHANGED <<response, answer, req, picking, swept, due>>
      PROVE  UploadInv(s)'
  <2>1. /\ file' \in [FilesOf(s) -> FileRow] /\ file'[f].state = st
        /\ \A h \in FilesOf(s) \ {f} : file'[h] = file[h]
    BY <1>0, <1>2, Marks
  <2>2. UploadTypes(s)'
    BY <1>0, <1>2, <2>1 DEF UploadTypes, KeysOf, FilesOf, FileRow
  <2>3. ASSUME NEW h \in FilesOf(s) PROVE FileSound(s, h)'
    <3>1. FileSound(s, h) /\ (Listed(s, h)' <=> Listed(s, h))
      BY <1>2, ListedKept DEF UploadInv
    <3> QED
      BY <1>2, <2>1, <3>1 DEF FileSound
  <2> QED
    BY <2>2, <2>3, UploadKept
<1>3. CASE Files(s)!Discard(f)
  BY <1>2, <1>3 DEF Files!Discard, Files!Active, Files!Tmp
<1>4. ASSUME NEW ok \in BOOLEAN, Files(s)!Complete(f, ok) PROVE UploadInv(s)'
  BY <1>2, <1>4 DEF Files!Complete, Files!Active, Files!Tmp
<1> QED
  BY <1>1, <1>3, <1>4

LEMMA ExpireKeeps ==
    ASSUME NEW s, UploadInv(s), NEW f \in FilesOf(s), Files(s)!Expire(f)
    PROVE  UploadInv(s)'
<1> DEFINE x == [file[f] EXCEPT !.expired = TRUE]
<1>0. UploadTypes(s)
  BY DEF UploadInv
<1>1. file' = [file EXCEPT ![f] = x] /\ UNCHANGED <<bucket, response, answer, req, picking, swept, due>>
  BY Zenon DEF Files!Expire
<1>2. x \in FileRow /\ x.state = file[f].state /\ x.attached = file[f].attached
  <2>1. file[f] \in FileRow
    BY <1>0 DEF UploadTypes
  <2> QED
    BY <2>1 DEF FileRow
<1> HIDE DEF x
<1>3. /\ file' \in [FilesOf(s) -> FileRow]
      /\ \A h \in FilesOf(s) : file'[h].state = file[h].state /\ file'[h].attached = file[h].attached
  BY <1>0, <1>1, <1>2 DEF UploadTypes
<1>4. UploadTypes(s)'
  BY <1>0, <1>1, <1>3 DEF UploadTypes, KeysOf, FilesOf, FileRow
<1> QED
  BY <1>1, <1>3, <1>4, UploadKept, ListedKept DEF UploadInv, FileSound

LEMMA ResolveKeeps ==
    ASSUME NEW s, UploadInv(s), NEW r \in s.requests, NEW refs \in SUBSET s.own, Files(s)!Resolve(r, refs)
    PROVE  UploadInv(s)'
<1>1. UploadTypes(s)'
  BY DEF UploadInv, UploadTypes, Files!Resolve, FilesOf, FileRow, KeysOf
<1> QED
  BY <1>1, UploadKept, ListedKept DEF UploadInv, FileSound, Files!Resolve

LEMMA WriteKeeps ==
    ASSUME NEW s, UploadInv(s), NEW r \in s.requests, Files(s)!Attach(r)
    PROVE  UploadInv(s)'
<1>0. UploadTypes(s)
  BY DEF UploadInv
<1>1. req' = [req EXCEPT ![r] = [op |-> "IDLE"]] /\ UNCHANGED <<picking, swept>>
      /\ \A f : s.overlap \/ ~Listed(s, f)
  BY QuietGives DEF Files!Attach, Files!Idle
<1>2. req' \in [s.requests -> {[op |-> "IDLE"]} \cup [op : {"WRITE"}, refs : SUBSET s.own]]
  BY <1>0, <1>1 DEF UploadTypes
<1>3. CASE UNCHANGED <<file, bucket, response, answer, due, picking>>
  <2>1. UploadTypes(s)'
    BY <1>0, <1>1, <1>2, <1>3 DEF UploadTypes, KeysOf, FilesOf, FileRow
  <2> QED
    BY <1>1, <1>3, <2>1, UploadKept, ListedKept DEF UploadInv, FileSound
<1>4. ASSUME \A f \in req[r].refs : Files(s)!Usable(f), Files(s)!Written(r) PROVE UploadInv(s)'
  <2> DEFINE refs == req[r].refs
             moving == Files(s)!Moving(refs)
             dropped == {f \in FilesOf(s) \ refs : file[f].state = "ATTACHED" /\ file[f].attached}
  <2>1. refs \subseteq s.own /\ moving \subseteq refs
    BY <1>0, <1>4 DEF UploadTypes, Files!Attach, Files!Idle, Files!Moving, Files!Usable
  <2>2. /\ response' = TRUE /\ answer' = refs
        /\ file' = [f \in FilesOf(s) |->
               IF f \in moving THEN [state |-> "ATTACHED", attached |-> TRUE, expired |-> FALSE]
               ELSE IF f \in dropped THEN [file[f] EXCEPT !.state = "DELETED"] ELSE file[f]]
        /\ bucket' = bucket \cup {<<"FINAL", f>> : f \in moving}
        /\ due' = due \cup {<<"TMP", f>> : f \in moving} \cup {<<"FINAL", f>> : f \in dropped}
    BY <1>4 DEF Files!Written, Files!Files, FilesOf, Files!Final, Files!Tmp
  <2>3. \A f \in refs : /\ f \in moving <=> file[f].state = "UPLOADED"
                        /\ f \notin moving => file[f].state = "ATTACHED" /\ file[f].attached
    BY <1>4 DEF Files!Usable, Files!Moving
  <2>4. \A f \in dropped : f \notin refs /\ file[f].state = "ATTACHED" /\ file[f].attached
    OBVIOUS
  <2>5. \A f \in FilesOf(s) \ refs : f \notin dropped => ~(file[f].state = "ATTACHED" /\ file[f].attached)
    OBVIOUS
  <2>6. moving \subseteq FilesOf(s) /\ dropped \subseteq FilesOf(s) /\ refs \subseteq FilesOf(s)
    BY <2>1 DEF FilesOf
  <2> HIDE DEF moving, dropped, refs
  <2>7. ASSUME NEW f \in FilesOf(s)
        PROVE  /\ file'[f] \in FileRow
               /\ f \in moving => file'[f].state = "ATTACHED" /\ file'[f].attached
               /\ f \in dropped => file'[f].state = "DELETED"
               /\ f \notin moving \cup dropped => file'[f] = file[f]
    <3>1. file[f] \in FileRow
      BY <1>0 DEF UploadTypes
    <3>2. [file[f] EXCEPT !.state = "DELETED"] \in FileRow /\ [file[f] EXCEPT !.state = "DELETED"].state = "DELETED"
      BY <3>1 DEF FileRow
    <3>3. moving \cap dropped = {}
      BY <2>1, <2>4
    <3> QED
      BY <2>2, <3>1, <3>2, <3>3 DEF FileRow
  <2>8. file' \in [FilesOf(s) -> FileRow]
    BY <2>2, <2>7
  <2>9. UploadTypes(s)'
    <3>1. bucket' \subseteq KeysOf(s) /\ due' \subseteq KeysOf(s)
      BY <1>0, <2>2, <2>6 DEF UploadTypes, KeysOf
    <3> QED
      BY <1>0, <1>1, <1>2, <2>2, <2>6, <2>8, <3>1 DEF UploadTypes, KeysOf, FilesOf, FileRow
  <2>10. ASSUME NEW f \in FilesOf(s) PROVE FileSound(s, f)'
    <3>1. FileSound(s, f) /\ (Listed(s, f)' <=> Listed(s, f)) /\ (s.overlap \/ ~Listed(s, f))
      BY <1>1, <2>10, ListedKept DEF UploadInv
    <3>2. /\ <<"FINAL", f>> \in due' <=> <<"FINAL", f>> \in due \/ f \in dropped
          /\ <<"FINAL", f>> \in bucket' <=> <<"FINAL", f>> \in bucket \/ f \in moving
      BY <2>2
    <3>3. f \in answer' <=> f \in refs
      BY <2>2
    <3>4. CASE f \in moving
      BY <1>1, <2>1, <2>3, <2>4, <2>7, <3>1, <3>2, <3>3, <3>4 DEF FileSound
    <3>5. CASE f \in dropped
      BY <1>1, <2>4, <2>7, <3>1, <3>2, <3>3, <3>5, <2>1 DEF FileSound
    <3>6. CASE f \notin moving \cup dropped
      BY <1>1, <2>3, <2>5, <2>7, <3>1, <3>2, <3>3, <3>6 DEF FileSound
    <3> QED
      BY <3>4, <3>5, <3>6
  <2> QED
    BY <2>9, <2>10, UploadKept
<1> QED
  BY <1>3, <1>4 DEF Files!Attach

LEMMA FailKeeps ==
    ASSUME NEW s, UploadInv(s), NEW r \in s.requests, Files(s)!CopyFails(r)
    PROVE  UploadInv(s)'
<1>0. UploadTypes(s)
  BY DEF UploadInv
<1>1. PICK copied \in SUBSET Files(s)!Moving(req[r].refs) : bucket' = bucket \cup {<<"FINAL", f>> : f \in copied}
  BY DEF Files!CopyFails, Files!Final
<1>2. copied \subseteq FilesOf(s)
  BY <1>0, <1>1 DEF UploadTypes, Files!Moving, Files!CopyFails, Files!Idle, Files!Usable, FilesOf
<1>3. req' = [req EXCEPT ![r] = [op |-> "IDLE"]] /\ UNCHANGED <<file, response, answer, picking, swept, due>>
  BY DEF Files!CopyFails, Files!Idle
<1>4. bucket' \subseteq KeysOf(s) /\ bucket \subseteq bucket'
  BY <1>0, <1>1, <1>2 DEF UploadTypes, KeysOf
<1>5. UploadTypes(s)'
  BY <1>0, <1>3, <1>4 DEF UploadTypes, KeysOf, FilesOf, FileRow
<1> QED
  BY <1>3, <1>4, <1>5, UploadKept, ListedKept DEF UploadInv, FileSound

LEMMA DeletesKeep ==
    ASSUME NEW s, UploadInv(s), Files(s)!DeleteObjects \/ Files(s)!LoseDeletes
    PROVE  UploadInv(s)'
<1>1. /\ UNCHANGED <<file, response, answer, req, picking, swept>> /\ due' = {}
      /\ bucket' = bucket \/ bucket' = bucket \ due
  BY DEF Files!DeleteObjects, Files!LoseDeletes
<1>2. UploadTypes(s)'
  BY <1>1 DEF UploadInv, UploadTypes, KeysOf, FilesOf, FileRow
<1> QED
  BY <1>1, <1>2, UploadKept, ListedKept DEF UploadInv, FileSound

LEMMA ForgetKeeps ==
    ASSUME NEW s, UploadInv(s), NEW f \in FilesOf(s), Files(s)!Remove(f) \/ Files(s)!Quarantine(f)
    PROVE  UploadInv(s)'
<1>0. UploadTypes(s)
  BY DEF UploadInv
<1>1. /\ file' = Files(s)!Mark({f}, "DELETED") /\ answer' = answer \ {f}
      /\ due' = due \cup {Files(s)!Key(f)}
      /\ UNCHANGED <<bucket, response, req, picking, swept>>
  BY DEF Files!Remove, Files!Quarantine, Files!Forget
<1>2. /\ file' \in [FilesOf(s) -> FileRow] /\ file'[f].state = "DELETED"
      /\ \A h \in FilesOf(s) \ {f} : file'[h] = file[h]
  BY <1>0, <1>1, Marks
<1>3. Files(s)!Key(f) = <<"FINAL", f>> \/ Files(s)!Key(f) = <<"TMP", f>>
  BY DEF Files!Key, Files!Final, Files!Tmp
<1>4. UploadTypes(s)'
  <2>1. due' \subseteq KeysOf(s) /\ answer' \subseteq FilesOf(s)
    BY <1>0, <1>1, <1>3 DEF UploadTypes, KeysOf
  <2>2. UNCHANGED <<bucket, response, req, picking, swept>>
    BY <1>1
  <2> QED
    BY <1>0, <1>2, <2>1, <2>2 DEF UploadTypes, KeysOf, FilesOf, FileRow
<1>5. ASSUME NEW h \in FilesOf(s) PROVE FileSound(s, h)'
  <2>1. FileSound(s, h) /\ (Listed(s, h)' <=> Listed(s, h)) /\ file[f].state \in {"UPLOADED", "ATTACHED"}
    BY <1>1, <1>5, ListedKept DEF UploadInv, Files!Remove, Files!Quarantine, Files!Forget
  <2>2. h # f => (<<"FINAL", h>> \in due' <=> <<"FINAL", h>> \in due)
    BY <1>1, <1>3
  <2> QED
    BY <1>1, <1>2, <2>1, <2>2 DEF FileSound
<1> QED
  BY <1>4, <1>5, UploadKept

LEMMA ReplaceKeeps ==
    ASSUME NEW s, Files(s)!FilesNamed, UploadInv(s), NEW old \in FilesOf(s), NEW new \in s.swaps,
           Files(s)!Replace(old, new)
    PROVE  UploadInv(s)'
<1> DEFINE x == [state |-> "ATTACHED", attached |-> TRUE, expired |-> FALSE]
           g == Files(s)!Mark({old}, "DELETED")
<1>0. UploadTypes(s) /\ new \in FilesOf(s)
  BY DEF UploadInv, FilesOf
<1>1. /\ file' = [g EXCEPT ![new] = x]
      /\ answer' = {IF f = old THEN new ELSE f : f \in answer}
      /\ bucket' = bucket \cup {<<"FINAL", new>>}
      /\ due' = due \cup {<<"TMP", new>>, <<"FINAL", old>>}
      /\ \A f : s.overlap \/ ~Listed(s, f)
      /\ UNCHANGED <<response, req, picking, swept>>
      /\ file[old].state = "ATTACHED" /\ file[old].attached /\ file[new].state = "UPLOADED"
  BY QuietGives DEF Files!Replace, Files!Final, Files!Tmp
<1>2. /\ g \in [FilesOf(s) -> FileRow] /\ g[old].state = "DELETED"
      /\ \A h \in FilesOf(s) \ {old} : g[h] = file[h]
  BY <1>0, Marks
<1>3. x \in FileRow /\ x.state = "ATTACHED" /\ x.attached
  BY DEF FileRow
<1> HIDE DEF x, g
<1>4. /\ old # new /\ file' \in [FilesOf(s) -> FileRow] /\ file'[new] = x /\ file'[old].state = "DELETED"
      /\ \A h \in FilesOf(s) \ {old, new} : file'[h] = file[h]
  BY <1>0, <1>1, <1>2, <1>3
<1>5. UploadTypes(s)'
  <2>1. answer' \subseteq FilesOf(s) /\ bucket' \subseteq KeysOf(s) /\ due' \subseteq KeysOf(s)
    BY <1>0, <1>1 DEF UploadTypes, KeysOf
  <2> QED
    BY <1>0, <1>1, <1>4, <2>1 DEF UploadTypes, KeysOf, FilesOf, FileRow
<1>6. ASSUME NEW h \in FilesOf(s) PROVE FileSound(s, h)'
  <2>1. FileSound(s, h) /\ FileSound(s, old) /\ FileSound(s, new)
        /\ (Listed(s, h)' <=> Listed(s, h)) /\ (s.overlap \/ ~Listed(s, h))
    BY <1>0, <1>1, <1>6, ListedKept DEF UploadInv
  <2>2. h # old => (<<"FINAL", h>> \in due' <=> <<"FINAL", h>> \in due)
    BY <1>1
  <2>3. /\ h = new => h \in answer'
        /\ h \notin {old, new} => (h \in answer' <=> h \in answer)
        /\ h = old => h \notin answer'
    BY <1>1, <1>4, <2>1 DEF FileSound
  <2>4. CASE h = new
    BY <1>1, <1>3, <1>4, <2>1, <2>2, <2>3, <2>4 DEF FileSound
  <2>5. CASE h = old
    BY <1>1, <1>3, <1>4, <2>1, <2>2, <2>3, <2>5 DEF FileSound
  <2>6. CASE h \notin {old, new}
    BY <1>1, <1>3, <1>4, <2>1, <2>2, <2>3, <2>6 DEF FileSound
  <2> QED
    BY <2>4, <2>5, <2>6
<1> QED
  BY <1>5, <1>6, UploadKept

LEMMA ReleaseKeeps ==
    ASSUME NEW s, UploadInv(s), Files(s)!DeleteResponse
    PROVE  UploadInv(s)'
<1> DEFINE gone == {g \in FilesOf(s) : file[g].attached /\ file[g].state # "DELETED"}
<1>0. UploadTypes(s)
  BY DEF UploadInv
<1>1. /\ response' = FALSE /\ answer' = {} /\ UNCHANGED <<bucket, req, picking, swept>>
      /\ file' = [f \in FilesOf(s) |-> [file[f] EXCEPT !.attached = FALSE]]
      /\ due' = due \cup {Files(s)!Key(f) : f \in gone}
  BY DEF Files!DeleteResponse, Files!Files, FilesOf
<1>2. ASSUME NEW f \in FilesOf(s)
      PROVE  file'[f] \in FileRow /\ file'[f].state = file[f].state /\ file'[f].attached = FALSE
  <2>1. file[f] \in FileRow /\ file'[f] = [file[f] EXCEPT !.attached = FALSE]
    BY <1>0, <1>1 DEF UploadTypes
  <2> QED
    BY <2>1 DEF FileRow
<1>3. file' \in [FilesOf(s) -> FileRow]
  BY <1>1, <1>2
<1>4. \A f \in gone : Files(s)!Key(f) = IF file[f].state = "ATTACHED" THEN <<"FINAL", f>> ELSE <<"TMP", f>>
  BY DEF Files!Key, Files!Final, Files!Tmp
<1>5. due' \subseteq KeysOf(s)
  BY <1>0, <1>1, <1>4 DEF UploadTypes, KeysOf
<1>6. UploadTypes(s)'
  BY <1>0, <1>1, <1>3, <1>5 DEF UploadTypes, KeysOf, FilesOf, FileRow
<1>7. ASSUME NEW h \in FilesOf(s) PROVE FileSound(s, h)'
  <2>1. FileSound(s, h) /\ (Listed(s, h)' <=> Listed(s, h))
    BY <1>1, <1>7, ListedKept DEF UploadInv
  <2>2. <<"FINAL", h>> \in due' => <<"FINAL", h>> \in due \/ file[h].state = "ATTACHED"
    BY <1>1, <1>4
  <2> QED
    BY <1>1, <1>2, <2>1, <2>2 DEF FileSound
<1> QED
  BY <1>6, <1>7, UploadKept

LEMMA SweepKeeps ==
    ASSUME NEW s, UploadInv(s), Files(s)!ListExpired \/ Files(s)!Sweep
    PROVE  UploadInv(s)'
<1>0. UploadTypes(s)
  BY DEF UploadInv
<1>1. CASE Files(s)!ListExpired
  <2>1. /\ UNCHANGED <<file, bucket, response, answer, req, due, picking>> /\ swept' \subseteq FilesOf(s)
        /\ \A f \in swept' : file[f].state \in {"PENDING", "UPLOADED"}
    BY <1>1 DEF Files!ListExpired, Files!Files, FilesOf, Files!Active
  <2>2. UploadTypes(s)'
    BY <1>0, <2>1 DEF UploadTypes, KeysOf, FilesOf, FileRow
  <2> QED
    BY <2>1, <2>2, UploadKept DEF UploadInv, FileSound, Listed
<1>2. CASE Files(s)!Sweep
  <2>1. /\ file' = Files(s)!Mark(swept, "DELETED") /\ bucket' = bucket \ {<<"TMP", f>> : f \in swept}
        /\ swept' = {} /\ UNCHANGED <<response, answer, req, due, picking>>
    BY <1>2 DEF Files!Sweep, Files!Tmp
  <2>2. /\ file' \in [FilesOf(s) -> FileRow]
        /\ \A h \in FilesOf(s) : /\ h \in swept => file'[h].state = "DELETED"
                                 /\ h \notin swept => file'[h] = file[h]
    BY <1>0, <2>1, Marks
  <2>3. UploadTypes(s)'
    BY <1>0, <2>1, <2>2 DEF UploadTypes, KeysOf, FilesOf, FileRow
  <2>4. ASSUME NEW h \in FilesOf(s) PROVE FileSound(s, h)'
    <3>1. FileSound(s, h) /\ (h \in swept => Listed(s, h)) /\ (Listed(s, h)' => Listed(s, h))
      BY <2>1, <2>4 DEF UploadInv, Listed
    <3>2. <<"FINAL", h>> \in bucket' <=> <<"FINAL", h>> \in bucket
      BY <2>1
    <3> QED
      BY <2>1, <2>2, <3>1, <3>2 DEF FileSound
  <2> QED
    BY <2>3, <2>4, UploadKept
<1> QED
  BY <1>1, <1>2

LEMMA UploadStep ==
    ASSUME NEW s, Files(s)!FilesNamed, UploadInv(s), Files(s)!Next
    PROVE  UploadInv(s)'
<1>1. ASSUME NEW f \in FilesOf(s), Files(s)!Upload(f) PROVE UploadInv(s)'
  BY <1>1, BeginPickKeeps, CommitPickKeeps, BeforeKeeps, ExpireKeeps DEF Files!Upload
<1>2. ASSUME NEW f \in FilesOf(s), Files(s)!Manage(f) PROVE UploadInv(s)'
  BY <1>2, ForgetKeeps, ReplaceKeeps DEF Files!Manage
<1>3. ASSUME NEW r \in s.requests, Files(s)!Submit(r) PROVE UploadInv(s)'
  BY <1>3, ResolveKeeps, WriteKeeps, FailKeeps DEF Files!Submit
<1> QED
  BY <1>1, <1>2, <1>3, DeletesKeep, ReleaseKeeps, SweepKeeps DEF Files!Next, Files!Files, FilesOf

-----------------------------------------------------------------------------
(* Conditional logic.                                                      *)

LEMMA LogicCount ==
    ASSUME NEW s, NEW S
    PROVE  Logic(s)!Cardinality(S) = Cardinality(S)
BY DEF Logic!Cardinality, Cardinality, Logic!IsFiniteSet, IsFiniteSet

LEMMA UpTo ==
    ASSUME NEW n \in Nat
    PROVE  IsFiniteSet(1..n) /\ Cardinality(1..n) = n
BY FS_Interval

LEMMA BreaksFinite ==
    ASSUME NEW s, Logic(s)!FieldsNumbered
    PROVE  IsFiniteSet(s.breaks)
<1>1. s.last \in Int /\ s.breaks \in SUBSET (1..s.last)
  BY DEF Logic!FieldsNumbered
<1>2. IsFiniteSet(1..s.last)
  BY <1>1, FS_Interval
<1> QED
  BY <1>1, <1>2, FS_Subset

\* Page breaks number the pages: the k-th opens page k.
LEMMA PagesNumbered ==
    ASSUME NEW s, Logic(s)!FieldsNumbered
    PROVE  /\ Logic(s)!LastPage \in Nat /\ s.breaks \subseteq 1..s.last /\ s.last \in Nat
           /\ \A f \in Nat : Logic(s)!Page(f) \in 0..Logic(s)!LastPage
           /\ \A b \in s.breaks : Logic(s)!Page(b) \in 1..Logic(s)!LastPage
<1> DEFINE upTo(f) == {b \in s.breaks : b <= f}
<1>1. s.last \in Nat /\ s.breaks \subseteq 1..s.last
  BY DEF Logic!FieldsNumbered
<1>2. IsFiniteSet(s.breaks)
  BY BreaksFinite
<1>3. Logic(s)!LastPage = Cardinality(s.breaks) /\ \A f : Logic(s)!Page(f) = Cardinality(upTo(f))
  BY LogicCount DEF Logic!LastPage, Logic!Page
<1>4. Cardinality(s.breaks) \in Nat
  BY <1>2, FS_CardinalityType
<1>5. ASSUME NEW f \in Nat PROVE Cardinality(upTo(f)) \in 0..Cardinality(s.breaks) /\ IsFiniteSet(upTo(f))
  <2>1. upTo(f) \in SUBSET s.breaks
    OBVIOUS
  <2> HIDE DEF upTo
  <2>2. IsFiniteSet(upTo(f)) /\ Cardinality(upTo(f)) <= Cardinality(s.breaks)
    BY <1>2, <2>1, FS_Subset
  <2>3. Cardinality(upTo(f)) \in Nat
    BY <2>2, FS_CardinalityType
  <2> QED
    BY <1>4, <2>2, <2>3
<1>6. ASSUME NEW b \in s.breaks PROVE Cardinality(upTo(b)) \in 1..Cardinality(s.breaks)
  <2>1. b \in Nat /\ b \in upTo(b)
    BY <1>1
  <2> HIDE DEF upTo
  <2>2. Cardinality(upTo(b)) \in 0..Cardinality(s.breaks) /\ Cardinality(upTo(b)) # 0
    BY <1>5, <2>1, FS_EmptySet
  <2> QED
    BY <1>4, <2>2
<1> QED
  BY <1>1, <1>3, <1>4, <1>5, <1>6

LEMMA BreaksOpenPages ==
    ASSUME NEW s, Logic(s)!FieldsNumbered, NEW k \in 1..Logic(s)!LastPage
    PROVE  Logic(s)!BreakOf(k) \in s.breaks /\ Logic(s)!Page(Logic(s)!BreakOf(k)) = k
<1> DEFINE upTo(f) == {b \in s.breaks : b <= f}
           L == Logic(s)!LastPage
           page == [b \in s.breaks |-> Logic(s)!Page(b)]
<1>1. /\ L \in Nat /\ s.breaks \subseteq 1..s.last /\ s.last \in Nat
      /\ \A b \in s.breaks : Logic(s)!Page(b) \in 1..L
  BY PagesNumbered
<1>2. L = Cardinality(s.breaks) /\ \A f : Logic(s)!Page(f) = Cardinality(upTo(f))
  BY LogicCount DEF Logic!LastPage, Logic!Page
<1>3. IsFiniteSet(s.breaks)
  BY BreaksFinite
<1>4. ASSUME NEW b \in s.breaks, NEW c \in s.breaks, b < c PROVE Logic(s)!Page(b) # Logic(s)!Page(c)
  <2>1. c \in upTo(c) /\ c \notin upTo(b) /\ upTo(b) \in SUBSET upTo(c) /\ upTo(c) \in SUBSET s.breaks
    BY <1>1, <1>4
  <2> HIDE DEF upTo
  <2>2. IsFiniteSet(upTo(c))
    BY <1>3, <2>1, FS_Subset
  <2>3. Cardinality(upTo(c)) # Cardinality(upTo(b))
    BY <2>1, <2>2, FS_Subset
  <2> QED
    BY <1>2, <2>3
<1>5. \A b, c \in s.breaks : Logic(s)!Page(b) = Logic(s)!Page(c) => b = c
  <2> SUFFICES ASSUME NEW b \in s.breaks, NEW c \in s.breaks, b # c
               PROVE  Logic(s)!Page(b) # Logic(s)!Page(c)
    OBVIOUS
  <2>1. b < c \/ c < b
    BY <1>1
  <2> QED
    BY <1>4, <2>1
<1> HIDE DEF L
<1> HIDE DEF upTo
<1>6. page \in Injection(s.breaks, 1..L)
  <2>1. page \in [s.breaks -> 1..L]
    BY <1>1
  <2>2. \A a, b \in s.breaks : page[a] = page[b] => a = b
    BY <1>5
  <2> HIDE DEF page
  <2> QED
    BY <2>1, <2>2 DEF Injection, IsInjective
<1> HIDE DEF page
<1>7. IsFiniteSet(1..L) /\ Cardinality(1..L) = L
  BY <1>1, UpTo
<1>8. page \in Surjection(s.breaks, 1..L)
  <2> QED
    BY <1>2, <1>6, <1>7, FS_Injection
<1>9. \E b \in s.breaks : Logic(s)!Page(b) = k
  BY <1>8 DEF Surjection, L, page
<1> QED
  BY <1>9 DEF Logic!BreakOf

-----------------------------------------------------------------------------
\* What publishing has checked.
Published(s) ==
    /\ DOMAIN rule = 1..s.last /\ \A f \in 1..s.last : rule[f] \in Logic(s)!Rules(f)
    /\ ~Logic(s)!Circular /\ \A b \in s.breaks : Logic(s)!RouteAccepted(b)

\* A question shows while its page is not among the skipped and its rule says so.
Shows(s, f, V, S) == Logic(s)!Page(f) \notin S /\ Logic(s)!Shown(f, V)

\* A path of m questions each of which watches the next.
Deep(s, f, m) == \E c \in [1..m + 1 -> 1..s.last] :
    c[1] = f /\ \A i \in 1..m : c[i + 1] \in Logic(s)!Watches(c[i])

SettledTo(s, V, S, m) ==
    \A f \in 1..s.last : Logic(s)!Page(f) <= m => (f \in V <=> Shows(s, f, V, S))

\* Up to page n, the pages skipped are what any layout settled before it skips.
RightTo(s, S, n) == \A V \in SUBSET (1..s.last) :
    SettledTo(s, V, S, n - 1) => \A p \in 1..n : p \in Logic(s)!Skipped(V) <=> p \in S

Passing(s) == phase = "PASS" =>
    /\ passes <= s.last
    /\ \A f \in 1..s.last : (f \in visible <=> Shows(s, f, visible, skipped)) \/ Deep(s, f, passes)
Routing(s) == phase = "ROUTE" =>
    /\ \A f \in 1..s.last : f \in visible <=> Shows(s, f, visible, skipped)
    /\ \A q \in Logic(s)!Questions \cap visible : forced[q] = Logic(s)!Force(q, visible)

LogicInv(s) ==
    /\ Logic(s)!TypeOK
    /\ \E k \in 0..s.last : DOMAIN rule = 1..k
    /\ phase # "DRAFT" => Published(s)
    /\ phase \in {"DRAFT", "LIVE"} => rounds = 0 /\ skipped = {}
    /\ phase \in {"PASS", "ROUTE"} => rounds >= 1
    /\ Passing(s) /\ Routing(s)
    /\ phase \in {"PASS", "ROUTE"} /\ Logic(s)!LooksBack => RightTo(s, skipped, rounds - 1)
    /\ Logic(s)!LayoutSettles

LEMMA LogicInvGives ==
    ASSUME NEW s, LogicInv(s)
    PROVE  Logic(s)!TypeOK /\ Logic(s)!LayoutSettles
BY DEF LogicInv

LEMMA LogicInitHolds ==
    ASSUME NEW s, Logic(s)!FieldsNumbered, Logic(s)!Init
    PROVE  LogicInv(s)
<1>1. DOMAIN rule = {} /\ phase = "DRAFT" /\ answers = {} /\ visible = {} /\ skipped = {}
      /\ rounds = 0 /\ passes = 0 /\ forced = [q \in Logic(s)!Questions |-> "NONE"]
  BY DEF Logic!Init, Logic!Unforced
<1>2. s.last \in Nat /\ Logic(s)!LastPage \in Nat
  BY PagesNumbered
<1>3. Logic(s)!TypeOK
  BY <1>1, <1>2 DEF Logic!TypeOK
<1>4. \E k \in 0..s.last : DOMAIN rule = 1..k
  <2>1. 0 \in 0..s.last /\ 1..0 = {}
    BY <1>2
  <2> QED
    BY <1>1, <2>1
<1> QED
  BY <1>1, <1>3, <1>4 DEF LogicInv, Passing, Routing, Logic!LayoutSettles

-----------------------------------------------------------------------------
(* What a rule makes of two layouts that agree on the question it watches. *)

LEMMA WatchedDecides ==
    ASSUME NEW s, NEW f, NEW V, NEW W, \A g \in Logic(s)!Watches(f) : g \in V <=> g \in W
    PROVE  /\ Logic(s)!Fires(f, V) <=> Logic(s)!Fires(f, W)
           /\ Logic(s)!Shown(f, V) <=> Logic(s)!Shown(f, W)
           /\ Logic(s)!Force(f, V) = Logic(s)!Force(f, W)
<1>1. Logic(s)!Fires(f, V) <=> Logic(s)!Fires(f, W)
  BY DEF Logic!Fires, Logic!Watches
<1>2. Logic(s)!Shown(f, V) <=> Logic(s)!Shown(f, W)
  BY <1>1 DEF Logic!Shown, Logic!Does
<1>3. Logic(s)!Force(f, V) = Logic(s)!Force(f, W)
  BY <1>1 DEF Logic!Force
<1> QED
  BY <1>1, <1>2, <1>3

LEMMA WatchesFields ==
    ASSUME NEW s, Logic(s)!FieldsNumbered, Published(s), NEW f \in 1..s.last
    PROVE  Logic(s)!Watches(f) \subseteq 1..s.last
<1>1. rule[f] \in Logic(s)!Rules(f) /\ s.breaks \subseteq 1..s.last
  BY PagesNumbered DEF Published
<1> QED
  BY <1>1 DEF Logic!Watches, Logic!Rules, Logic!Leaf, Logic!Questions, Logic!Fields

\* A path as long as the form has fields runs in a circle.
LEMMA NoneSoDeep ==
    ASSUME NEW s, Logic(s)!FieldsNumbered, Published(s), NEW f \in 1..s.last, Deep(s, f, s.last)
    PROVE  FALSE
<1> DEFINE n == s.last
<1>1. n \in Nat
  BY PagesNumbered
<1>2. PICK c \in [1..n + 1 -> 1..n] : \A i \in 1..n : c[i + 1] \in Logic(s)!Watches(c[i])
  BY DEF Deep
<1> HIDE DEF n
<1>3. IsFiniteSet(1..n + 1) /\ IsFiniteSet(1..n) /\ Cardinality(1..n) < Cardinality(1..n + 1)
  BY <1>1, FS_Interval
<1>4. \E x, y \in 1..n + 1 : x # y /\ c[x] = c[y]
  BY <1>3, FS_PigeonHole
<1>5. PICK i \in 1..n + 1, j \in 1..n + 1 : i < j /\ c[i] = c[j]
  <2>1. PICK x \in 1..n + 1, y \in 1..n + 1 : x # y /\ c[x] = c[y]
    BY <1>4
  <2>2. x < y \/ y < x
    BY <1>1, <2>1
  <2> QED
    BY <2>1, <2>2
<1> DEFINE circle == {c[k] : k \in i..j - 1}
<1>6. circle \in SUBSET (1..n) /\ circle # {}
  <2>1. i \in i..j - 1 /\ \A k \in i..j - 1 : k \in 1..n + 1
    BY <1>1, <1>5
  <2> QED
    BY <2>1
<1>7. ASSUME NEW k \in i..j - 1 PROVE Logic(s)!Watches(c[k]) \cap circle # {}
  <2>1. k \in 1..n /\ (k + 1 \in i..j - 1 \/ k + 1 = j) /\ i \in i..j - 1
    BY <1>1, <1>5
  <2>2. c[k + 1] \in circle
    BY <1>5, <2>1
  <2> QED
    BY <1>2, <2>1, <2>2
<1>8. Logic(s)!Circular
  <2>1. \A g \in circle : Logic(s)!Watches(g) \cap circle # {}
    BY <1>7
  <2> HIDE DEF circle
  <2> QED
    BY <1>6, <2>1 DEF Logic!Circular, Logic!Fields, n
<1> QED
  BY <1>8 DEF Published

LEMMA WatchedLessDeep ==
    ASSUME NEW s, NEW m \in Nat, NEW f \in 1..s.last, NEW g \in Logic(s)!Watches(f), Deep(s, g, m)
    PROVE  Deep(s, f, m + 1)
<1>1. PICK c \in [1..m + 1 -> 1..s.last] :
          c[1] = g /\ \A i \in 1..m : c[i + 1] \in Logic(s)!Watches(c[i])
  BY DEF Deep
<1> DEFINE d == [i \in 1..m + 2 |-> IF i = 1 THEN f ELSE c[i - 1]]
<1>2. d \in [1..(m + 1) + 1 -> 1..s.last] /\ d[1] = f
  BY <1>1
<1>3. ASSUME NEW i \in 1..m + 1 PROVE d[i + 1] \in Logic(s)!Watches(d[i])
  <2>1. CASE i = 1
    <3>1. d[2] = c[1] /\ d[1] = f
      OBVIOUS
    <3> QED
      BY <1>1, <2>1, <3>1
  <2>2. CASE i # 1
    <3>1. i - 1 \in 1..m /\ (i - 1) + 1 = i /\ d[i + 1] = c[i] /\ d[i] = c[i - 1]
      BY <2>2
    <3> QED
      BY <1>1, <3>1
  <2> QED
    BY <2>1, <2>2
<1> HIDE DEF d
<1> QED
  BY <1>2, <1>3 DEF Deep

-----------------------------------------------------------------------------
(* Two layouts that have settled up to a page agree up to it.              *)

LEMMA SettledAgree ==
    ASSUME NEW s, Logic(s)!FieldsNumbered, Published(s), Logic(s)!LooksBack, NEW S, NEW m \in Int,
           NEW V, NEW W, SettledTo(s, V, S, m), SettledTo(s, W, S, m)
    PROVE  \A f \in 1..s.last : Logic(s)!Page(f) <= m => (f \in V <=> f \in W)
<1> DEFINE apart == {f \in 1..s.last : Logic(s)!Page(f) <= m /\ ~(f \in V <=> f \in W)}
<1>1. ASSUME NEW f \in apart PROVE Logic(s)!Watches(f) \cap apart # {}
  <2>1. ~(Logic(s)!Shown(f, V) <=> Logic(s)!Shown(f, W))
    BY DEF SettledTo, Shows
  <2>2. PICK g \in Logic(s)!Watches(f) : ~(g \in V <=> g \in W)
    BY <2>1, WatchedDecides
  <2>3. g \in 1..s.last /\ Logic(s)!Page(g) <= Logic(s)!Page(f)
    BY WatchesFields DEF Logic!LooksBack, Logic!Fields
  <2>4. \A h \in 1..s.last : Logic(s)!Page(h) \in Int
    BY PagesNumbered
  <2> QED
    BY <2>2, <2>3, <2>4
<1>2. apart = {}
  <2>1. apart \in SUBSET (1..s.last)
    OBVIOUS
  <2> HIDE DEF apart
  <2> QED
    BY <1>1, <2>1 DEF Published, Logic!Circular, Logic!Fields
<1> QED
  BY <1>2

\* From a page the route goes on to a later one, by the questions before.
LEMMA RouteGoesOn ==
    ASSUME NEW s, Logic(s)!FieldsNumbered, Published(s), NEW k \in Nat, k < Logic(s)!LastPage, NEW V
    PROVE  Logic(s)!Following(k, V) \in k + 1..Logic(s)!LastPage + 1
<1> DEFINE b == Logic(s)!BreakOf(k + 1)
           L == Logic(s)!LastPage
<1>1. L \in Nat /\ b \in s.breaks /\ Logic(s)!Page(b) = k + 1 /\ b \in 1..s.last
  BY PagesNumbered, BreaksOpenPages
<1>2. rule[b] \in Logic(s)!Rules(b) /\ Logic(s)!RouteAccepted(b)
  BY <1>1 DEF Published
<1>3. Logic(s)!Fires(b, V) => rule[b] # Logic(s)!NoRule
  BY DEF Logic!Fires
<1>4. Logic(s)!Fires(b, V) /\ ~Logic(s)!Does(b, "end_form") =>
          rule[b].action = "skip_to_section" /\ rule[b].target \in s.breaks
  <2> HIDE DEF b
  <2>1. CASE rule[b] \in {Logic(s)!Leaf("end_form", g, op, 0) : g \in Logic(s)!Questions, op \in {"ANSWERED", "EMPTY"}}
    BY <2>1 DEF Logic!Leaf, Logic!Does
  <2>2. CASE rule[b] \in {Logic(s)!Leaf("skip_to_section", g, op, t) :
                  g \in Logic(s)!Questions, op \in {"ANSWERED", "EMPTY"}, t \in s.breaks}
    BY <2>2 DEF Logic!Leaf
  <2> QED
    BY <1>1, <1>2, <1>3, <2>1, <2>2 DEF Logic!Rules
<1>5. Logic(s)!Fires(b, V) /\ ~Logic(s)!Does(b, "end_form") =>
          Logic(s)!Page(rule[b].target) \in k + 2..L
  <2>1. ASSUME NEW t \in s.breaks PROVE Logic(s)!Page(t) \in 1..L
    BY PagesNumbered
  <2> QED
    BY <1>1, <1>2, <1>3, <1>4, <2>1 DEF Logic!RouteAccepted
<1>6. Logic(s)!Following(k, V) =
          CASE ~Logic(s)!Fires(b, V) -> k + 1
            [] Logic(s)!Fires(b, V) /\ Logic(s)!Does(b, "end_form") -> L + 1
            [] OTHER -> Logic(s)!Page(rule[b].target)
  BY DEF Logic!Following
<1> HIDE DEF b, L
<1>7. CASE ~Logic(s)!Fires(b, V)
  <2>1. Logic(s)!Following(k, V) = k + 1
    BY <1>6, <1>7
  <2> QED
    BY <1>1, <2>1 DEF L
<1>8. CASE Logic(s)!Fires(b, V) /\ Logic(s)!Does(b, "end_form")
  <2>1. Logic(s)!Following(k, V) = L + 1
    BY <1>6, <1>8
  <2> QED
    BY <1>1, <2>1 DEF L
<1>9. CASE Logic(s)!Fires(b, V) /\ ~Logic(s)!Does(b, "end_form")
  <2>1. Logic(s)!Following(k, V) = Logic(s)!Page(rule[b].target)
    BY <1>6, <1>9
  <2> QED
    BY <1>1, <1>5, <1>9, <2>1 DEF L
<1> QED
  BY <1>7, <1>8, <1>9

LEMMA RouteLooksBack ==
    ASSUME NEW s, Logic(s)!FieldsNumbered, Published(s), NEW k \in Nat, k < Logic(s)!LastPage,
           NEW V, NEW W, \A f \in 1..s.last : Logic(s)!Page(f) <= k => (f \in V <=> f \in W)
    PROVE  Logic(s)!Following(k, V) = Logic(s)!Following(k, W)
<1> DEFINE b == Logic(s)!BreakOf(k + 1)
<1>1. b \in s.breaks /\ Logic(s)!Page(b) = k + 1 /\ b \in 1..s.last
  BY PagesNumbered, BreaksOpenPages
<1>2. ASSUME NEW g \in Logic(s)!Watches(b) PROVE g \in V <=> g \in W
  <2>1. g \in 1..s.last /\ Logic(s)!Page(g) < k + 1
    BY <1>1, WatchesFields DEF Published, Logic!RouteAccepted, Logic!Watches
  <2>2. Logic(s)!Page(g) \in Int
    BY <2>1, PagesNumbered
  <2> QED
    BY <2>1, <2>2
<1>3. Logic(s)!Fires(b, V) <=> Logic(s)!Fires(b, W)
  BY <1>2, WatchedDecides
<1> QED
  BY <1>3 DEF Logic!Following

LEMMA SkippedFrom ==
    ASSUME NEW s, Logic(s)!FieldsNumbered, Published(s), NEW m \in Nat,
           NEW V, NEW W, \A f \in 1..s.last : Logic(s)!Page(f) <= m => (f \in V <=> f \in W),
           NEW p \in 1..m + 1, p \in Logic(s)!Skipped(V)
    PROVE  p \in Logic(s)!Skipped(W)
<1> DEFINE L == Logic(s)!LastPage
<1>1. L \in Nat /\ p \in 1..L
  BY PagesNumbered DEF Logic!Skipped
<1>2. PICK C \in SUBSET (0..L + 1) : Logic(s)!Closed(C, V) /\ p \notin C
  BY DEF Logic!Skipped
<1> DEFINE D == {k \in 0..L + 1 : k <= m + 1 => k \in C}
<1>3. D \in SUBSET (0..L + 1) /\ p \notin D /\ 0 \in D
  BY <1>1, <1>2 DEF Logic!Closed
<1>4. ASSUME NEW k \in D, k < L PROVE Logic(s)!Following(k, W) \in D
  <2>1. k \in Nat /\ Logic(s)!Following(k, W) \in k + 1..L + 1
    BY <1>1, <1>4, RouteGoesOn
  <2>2. CASE k <= m
    <3>1. k \in C
      BY <2>1, <2>2
    <3>2. Logic(s)!Following(k, V) \in C
      BY <1>2, <1>4, <3>1 DEF Logic!Closed
    <3>3. \A f \in 1..s.last : Logic(s)!Page(f) <= k => (f \in V <=> f \in W)
      <4>1. \A f \in 1..s.last : Logic(s)!Page(f) \in Int
        BY PagesNumbered
      <4> QED
        BY <2>1, <2>2, <4>1
    <3>4. Logic(s)!Following(k, V) = Logic(s)!Following(k, W)
      BY <1>4, <2>1, <3>3, RouteLooksBack
    <3> QED
      BY <3>2, <3>4
  <2>3. CASE k > m
    BY <1>1, <2>1, <2>3
  <2> QED
    BY <2>1, <2>2, <2>3
<1> HIDE DEF D
<1>5. Logic(s)!Closed(D, W)
  BY <1>3, <1>4 DEF Logic!Closed, L
<1> QED
  BY <1>1, <1>3, <1>5 DEF Logic!Skipped, L

-----------------------------------------------------------------------------
(* Passes.                                                                 *)

LEMMA PassShows ==
    ASSUME NEW s, NEW V
    PROVE  \A f : f \in Logic(s)!PassOver(V) <=> f \in 1..s.last /\ Shows(s, f, V, skipped)
BY DEF Logic!PassOver, Logic!On, Shows, Logic!Fields

\* The rules and answers alone decide.
LEMMA RulesDecide ==
    ASSUME NEW s, UNCHANGED <<rule, answers>>
    PROVE  /\ \A f : Shows(s, f, visible, skipped)' <=> Shows(s, f, visible', skipped')
           /\ \A f : Deep(s, f, passes)' <=> Deep(s, f, passes')
           /\ \A f : Logic(s)!Force(f, visible)' = Logic(s)!Force(f, visible')
<1>1. \A f : Shows(s, f, visible, skipped)' <=> Shows(s, f, visible', skipped')
  BY DEF Shows, Logic!Page, Logic!Shown, Logic!Fires, Logic!Does, Logic!NoRule
<1>2. \A f : Deep(s, f, passes)' <=> Deep(s, f, passes')
  BY DEF Deep, Logic!Watches, Logic!NoRule
<1>3. \A f : Logic(s)!Force(f, visible)' = Logic(s)!Force(f, visible')
  BY DEF Logic!Force, Logic!Fires, Logic!Does, Logic!NoRule
<1> QED
  BY <1>1, <1>2, <1>3

LEMMA PublishedStays ==
    ASSUME NEW s, UNCHANGED rule
    PROVE  /\ Published(s)' <=> Published(s)
           /\ Logic(s)!LooksBack' <=> Logic(s)!LooksBack
<1>1. Published(s)' <=> Published(s)
  BY DEF Published, Logic!Rules, Logic!Circular, Logic!RouteAccepted, Logic!Watches, Logic!NoRule, Logic!Leaf,
     Logic!Questions, Logic!Fields, Logic!Page
<1>2. Logic(s)!LooksBack' <=> Logic(s)!LooksBack
  BY DEF Logic!LooksBack, Logic!Watches, Logic!NoRule, Logic!Fields, Logic!Page
<1> QED
  BY <1>1, <1>2

LEMMA RightStays ==
    ASSUME NEW s, UNCHANGED <<rule, answers>>
    PROVE  RightTo(s, skipped, rounds - 1)' <=> RightTo(s, skipped', rounds' - 1)
<1>1. \A V : Logic(s)!Skipped(V)' = Logic(s)!Skipped(V)
  BY DEF Logic!Skipped, Logic!Closed, Logic!Following, Logic!Fires, Logic!Does, Logic!NoRule,
     Logic!BreakOf, Logic!Page, Logic!LastPage
<1>2. \A V : SettledTo(s, V, skipped, (rounds - 1) - 1)' <=> SettledTo(s, V, skipped', (rounds' - 1) - 1)
  BY DEF SettledTo, Shows, Logic!Page, Logic!Shown, Logic!Fires, Logic!Does, Logic!NoRule
<1> QED
  BY <1>1, <1>2 DEF RightTo

LEMMA SettledStays ==
    ASSUME NEW s, Logic(s)!Settled, UNCHANGED <<rule, answers, visible, forced, skipped>>
    PROVE  Logic(s)!Settled'
<1>1. visible' = Logic(s)!PassOver(visible)'
  BY DEF Logic!Settled, Logic!PassOver, Logic!On, Logic!Fires, Logic!Does, Logic!NoRule, Logic!Page, Logic!Shown, Logic!Fields
<1>2. skipped' = Logic(s)!Skipped(visible)'
  BY DEF Logic!Settled, Logic!Skipped, Logic!Closed, Logic!Following, Logic!Fires, Logic!Does, Logic!NoRule,
     Logic!BreakOf, Logic!Page, Logic!LastPage
<1>3. (\A q \in Logic(s)!Questions \cap visible : forced[q] = Logic(s)!Force(q, visible))'
  BY DEF Logic!Settled, Logic!Fires, Logic!Does, Logic!NoRule, Logic!Force, Logic!Questions, Logic!Fields
<1> QED
  BY <1>1, <1>2, <1>3 DEF Logic!Settled

-----------------------------------------------------------------------------
(* The steps. *)

LEMMA SetRuleKeeps ==
    ASSUME NEW s, Logic(s)!FieldsNumbered, LogicInv(s), NEW r, Logic(s)!SetRule(r)
    PROVE  LogicInv(s)'
<1> DEFINE f == Logic(s)!Cardinality(DOMAIN rule) + 1
<1>1. /\ phase = "DRAFT" /\ phase' = "DRAFT" /\ f <= s.last /\ r \in Logic(s)!Rules(f)
      /\ rule' = [g \in 1..f |-> IF g = f THEN r ELSE rule[g]]
      /\ UNCHANGED <<phase, answers, visible, forced, skipped, rounds, passes>>
  BY DEF Logic!SetRule, Logic!layoutVars
<1>2. PICK k \in 0..s.last : DOMAIN rule = 1..k
  BY DEF LogicInv
<1>3. f = k + 1
  <2>1. k \in Nat /\ Cardinality(1..k) = k
    BY FS_Interval
  <2> QED
    BY <1>2, <2>1, LogicCount
<1> HIDE DEF f
<1>4. DOMAIN rule' = 1..k + 1 /\ k + 1 \in 0..s.last /\ \A g \in 1..k + 1 : rule'[g] \in Logic(s)!Rules(g)
  BY <1>1, <1>2, <1>3 DEF LogicInv, Logic!TypeOK
<1>5. \A g : Logic(s)!Rules(g)' = Logic(s)!Rules(g)
  BY DEF Logic!Rules, Logic!NoRule, Logic!Leaf, Logic!Questions, Logic!Fields
<1>6. Logic(s)!TypeOK'
  BY <1>1, <1>4, <1>5 DEF LogicInv, Logic!TypeOK, Logic!Questions, Logic!Fields, Logic!LastPage
<1> QED
  BY <1>1, <1>4, <1>6 DEF LogicInv, Passing, Routing, Logic!LayoutSettles

LEMMA PublishKeeps ==
    ASSUME NEW s, Logic(s)!FieldsNumbered, LogicInv(s), Logic(s)!Publish
    PROVE  LogicInv(s)'
<1>1. /\ phase = "DRAFT" /\ phase' = "LIVE" /\ DOMAIN rule = 1..s.last
      /\ ~Logic(s)!Circular /\ \A b \in s.breaks : Logic(s)!RouteAccepted(b)
      /\ UNCHANGED <<rule, answers, visible, forced, skipped, rounds, passes>>
  BY DEF Logic!Publish, Logic!layoutVars, Logic!Fields
<1>2. Published(s)
  BY <1>1 DEF Published, LogicInv, Logic!TypeOK
<1>3. Published(s)'
  BY <1>1, <1>2, PublishedStays
<1>4. Logic(s)!TypeOK'
  BY <1>1 DEF LogicInv, Logic!TypeOK, Logic!Questions, Logic!Fields, Logic!LastPage, Logic!Rules, Logic!NoRule, Logic!Leaf
<1> QED
  BY <1>1, <1>3, <1>4 DEF LogicInv, Passing, Routing, Logic!LayoutSettles

\* A round begins with no pass and nothing forced.
LEMMA RoundStarts ==
    ASSUME NEW s, Logic(s)!FieldsNumbered, LogicInv(s), NEW S, Logic(s)!StartRound(S), UNCHANGED rule,
           answers' \subseteq Logic(s)!Questions, skipped' \subseteq 1..Logic(s)!LastPage,
           rounds < Logic(s)!LastPage + 2, Published(s)',
           Logic(s)!LooksBack' => RightTo(s, skipped, rounds - 1)'
    PROVE  LogicInv(s)'
<1>1. /\ visible' = (1..s.last) \ Logic(s)!On(S) /\ passes' = 0 /\ rounds' = rounds + 1 /\ phase' = "PASS"
      /\ forced' = [q \in Logic(s)!Questions |-> "NONE"]
  BY DEF Logic!StartRound, Logic!Fields, Logic!Unforced
<1>2. s.last \in Nat /\ Logic(s)!LastPage \in Nat
  BY PagesNumbered
<1>3. rounds \in Nat /\ rounds' \in 0..Logic(s)!LastPage + 2 /\ rounds' >= 1
  BY <1>1, <1>2 DEF LogicInv, Logic!TypeOK
<1>4. Logic(s)!TypeOK'
  <2>1. \A f \in DOMAIN rule : rule[f] \in Logic(s)!Rules(f)
    BY DEF LogicInv, Logic!TypeOK
  <2>2. \A f : Logic(s)!Rules(f)' = Logic(s)!Rules(f)
    BY DEF Logic!Rules, Logic!NoRule, Logic!Leaf, Logic!Questions, Logic!Fields
  <2> QED
    BY <1>1, <1>2, <1>3, <2>1, <2>2 DEF Logic!TypeOK, Logic!Questions, Logic!Fields, Logic!LastPage
<1>5. Passing(s)'
  <2>1. ASSUME NEW f \in 1..s.last PROVE Deep(s, f, passes)'
    <3> DEFINE one == [i \in 1..0 + 1 |-> f]
    <3>1. one \in [1..0 + 1 -> 1..s.last] /\ one[1] = f /\ 1..0 = {}
      OBVIOUS
    <3> HIDE DEF one
    <3>2. \E c \in [1..0 + 1 -> 1..s.last] : c[1] = f /\ \A i \in 1..0 : c[i + 1] \in Logic(s)!Watches(c[i])'
      BY <3>1
    <3> QED
      BY <1>1, <3>2 DEF Deep
  <2> QED
    BY <1>1, <1>2, <2>1 DEF Passing
<1>6. \E k \in 0..s.last : DOMAIN rule' = 1..k
  BY DEF LogicInv
<1> QED
  BY <1>1, <1>3, <1>4, <1>5, <1>6 DEF LogicInv, Routing, Logic!LayoutSettles

LEMMA SubmitKeeps ==
    ASSUME NEW s, Logic(s)!FieldsNumbered, LogicInv(s), NEW given \in SUBSET Logic(s)!Questions, Logic(s)!Submit(given)
    PROVE  LogicInv(s)'
<1>1. phase = "LIVE" /\ answers' = given /\ Logic(s)!StartRound({}) /\ UNCHANGED <<rule, skipped>>
  BY DEF Logic!Submit
<1>2. Published(s) /\ rounds = 0 /\ skipped = {} /\ Logic(s)!LastPage \in Nat
  BY <1>1, PagesNumbered DEF LogicInv
<1>3. Published(s)'
  BY <1>1, <1>2, PublishedStays
<1>4. rounds' = 1
  BY <1>1, <1>2 DEF Logic!StartRound
<1>5. RightTo(s, skipped, rounds - 1)'
  BY <1>4 DEF RightTo
<1> QED
  BY <1>1, <1>2, <1>3, <1>5, RoundStarts

LEMMA PassKeeps ==
    ASSUME NEW s, Logic(s)!FieldsNumbered, LogicInv(s), Logic(s)!Pass
    PROVE  LogicInv(s)'
<1>1. /\ phase = "PASS" /\ visible' = Logic(s)!PassOver(visible) /\ passes' = passes + 1
      /\ forced' = [q \in Logic(s)!Questions |->
                        IF q \in Logic(s)!On(skipped) THEN "NONE" ELSE Logic(s)!Force(q, visible)]
      /\ phase' = IF (visible' = visible /\ forced' = forced) \/ passes' = s.last + 1 THEN "ROUTE" ELSE "PASS"
      /\ UNCHANGED <<rule, answers, skipped, rounds>>
  BY DEF Logic!Pass
<1>2. /\ s.last \in Nat /\ passes \in Nat /\ passes <= s.last /\ Published(s) /\ rounds >= 1
      /\ visible \in SUBSET (1..s.last) /\ Logic(s)!LastPage \in Nat
  <2>1. s.last \in Nat /\ Logic(s)!LastPage \in Nat
    BY PagesNumbered
  <2>2. passes \in Nat /\ visible \in SUBSET (1..s.last)
    BY <2>1 DEF LogicInv, Logic!TypeOK, Logic!Fields
  <2>3. passes <= s.last /\ Published(s) /\ rounds >= 1
    BY <1>1 DEF LogicInv, Passing
  <2> QED
    BY <2>1, <2>2, <2>3
<1>3. \A f : f \in visible' <=> f \in 1..s.last /\ Shows(s, f, visible, skipped)
  BY <1>1, PassShows
<1>4. ASSUME NEW f \in 1..s.last, ~Deep(s, f, passes) PROVE f \in visible <=> f \in visible'
  BY <1>1, <1>3, <1>4 DEF LogicInv, Passing
<1>5. ASSUME NEW f \in 1..s.last, ~Deep(s, f, passes') PROVE f \in visible' <=> Shows(s, f, visible', skipped)
  <2>1. ASSUME NEW g \in Logic(s)!Watches(f) PROVE g \in visible <=> g \in visible'
    <3>1. g \in 1..s.last
      BY <1>2, WatchesFields
    <3>2. ~Deep(s, g, passes)
      BY <1>1, <1>2, <1>5, WatchedLessDeep
    <3> QED
      BY <1>4, <3>1, <3>2
  <2>2. Logic(s)!Shown(f, visible) <=> Logic(s)!Shown(f, visible')
    BY <2>1, WatchedDecides
  <2> QED
    BY <1>3, <2>2 DEF Shows
<1>6. phase' = "ROUTE" => visible' = visible
  <2>1. ASSUME passes' = s.last + 1 PROVE visible' = visible
    <3>1. passes = s.last
      BY <1>1, <1>2, <2>1
    <3>2. \A f \in 1..s.last : f \in visible <=> f \in visible'
      BY <1>2, <1>4, <3>1, NoneSoDeep
    <3> QED
      BY <1>2, <1>3, <3>2
  <2> QED
    BY <1>1, <2>1
<1>7. phase' \in {"PASS", "ROUTE"} /\ (phase' = "PASS" => passes' <= s.last)
  BY <1>1, <1>2
<1>8. Published(s)' /\ (Logic(s)!LooksBack' <=> Logic(s)!LooksBack)
  BY <1>1, <1>2, PublishedStays
<1>9. Passing(s)'
  <2>1. ASSUME NEW f \in 1..s.last
        PROVE  (f \in visible' <=> Shows(s, f, visible, skipped)') \/ Deep(s, f, passes)'
    BY <1>1, <1>5, RulesDecide
  <2> QED
    BY <1>7, <2>1 DEF Passing
<1>10. Routing(s)'
  <2>1. ASSUME phase' = "ROUTE", NEW f \in 1..s.last PROVE f \in visible' <=> Shows(s, f, visible, skipped)'
    BY <1>1, <1>3, <1>6, <2>1, RulesDecide
  <2>2. ASSUME phase' = "ROUTE", NEW q \in Logic(s)!Questions, q \in visible'
        PROVE  forced'[q] = Logic(s)!Force(q, visible)'
    <3>1. q \notin Logic(s)!On(skipped)
      BY <1>3, <2>2 DEF Shows, Logic!On
    <3>2. forced'[q] = Logic(s)!Force(q, visible)
      BY <1>1, <2>2, <3>1
    <3> QED
      BY <1>1, <1>6, <2>2, <3>2, RulesDecide
  <2> QED
    BY <2>1, <2>2 DEF Routing, Logic!Questions, Logic!Fields
<1>11. Logic(s)!TypeOK'
  <2>1. \A q : Logic(s)!Force(q, visible) \in {"NONE", "REQUIRED", "OPTIONAL"}
    BY DEF Logic!Force
  <2>2. forced' \in [Logic(s)!Questions -> {"NONE", "REQUIRED", "OPTIONAL"}]
    BY <1>1, <2>1
  <2>3. visible' \subseteq 1..s.last /\ passes' \in 0..s.last + 1
    BY <1>1, <1>2, <1>3
  <2>4. \A f : Logic(s)!Rules(f)' = Logic(s)!Rules(f)
    BY DEF Logic!Rules, Logic!NoRule, Logic!Leaf, Logic!Questions, Logic!Fields
  <2> QED
    BY <1>1, <1>7, <2>2, <2>3, <2>4 DEF LogicInv, Logic!TypeOK, Logic!Questions, Logic!Fields, Logic!LastPage
<1>12. Logic(s)!LooksBack' => RightTo(s, skipped, rounds - 1)'
  <2>1. Logic(s)!LooksBack' => RightTo(s, skipped', rounds' - 1)
    BY <1>1, <1>8 DEF LogicInv
  <2> QED
    BY <1>1, <2>1, RightStays
<1>13. \E k \in 0..s.last : DOMAIN rule' = 1..k
  BY <1>1 DEF LogicInv
<1> QED
  BY <1>1, <1>2, <1>7, <1>8, <1>9, <1>10, <1>11, <1>12, <1>13 DEF LogicInv, Logic!LayoutSettles

LEMMA RouteKeeps ==
    ASSUME NEW s, Logic(s)!FieldsNumbered, LogicInv(s), Logic(s)!Route
    PROVE  LogicInv(s)'
<1> DEFINE S == Logic(s)!Skipped(visible)
           L == Logic(s)!LastPage
<1>1. /\ phase = "ROUTE" /\ skipped' = S /\ UNCHANGED <<rule, answers>>
      /\ IF S = skipped \/ rounds = L + 2
         THEN phase' = "DONE" /\ UNCHANGED <<visible, forced, rounds, passes>>
         ELSE Logic(s)!StartRound(S)
  BY DEF Logic!Route
<1>2. /\ Published(s) /\ visible \in SUBSET (1..s.last) /\ skipped \subseteq 1..L
      /\ answers \subseteq Logic(s)!Questions
  BY <1>1 DEF LogicInv, Logic!TypeOK, Logic!Fields
<1>3. L \in Nat /\ rounds \in 1..L + 2 /\ \A f \in 1..s.last : Logic(s)!Page(f) \in 0..L
  <2>1. L \in Nat /\ \A f \in 1..s.last : Logic(s)!Page(f) \in 0..L
    BY PagesNumbered
  <2>2. rounds \in 0..L + 2 /\ rounds >= 1
    BY <1>1 DEF LogicInv, Logic!TypeOK
  <2> QED
    BY <2>1, <2>2
<1>4. S \subseteq 1..L
  BY DEF Logic!Skipped
<1>5. \A f \in 1..s.last : f \in visible <=> Shows(s, f, visible, skipped)
  BY <1>1 DEF LogicInv, Routing
<1>6. \A m : SettledTo(s, visible, skipped, m)
  BY <1>5 DEF SettledTo
<1>7. Logic(s)!LooksBack => RightTo(s, skipped, rounds - 1)
  BY <1>1 DEF LogicInv
\* What this layout skips is right as far as what it was made with.
<1>8. Logic(s)!LooksBack => \A p \in 1..rounds - 1 : p \in S <=> p \in skipped
  BY <1>2, <1>6, <1>7 DEF RightTo
<1> HIDE DEF S, L
<1>9. (Logic(s)!LooksBack' <=> Logic(s)!LooksBack) /\ Published(s)'
  BY <1>1, <1>2, PublishedStays
<1>10. CASE S = skipped \/ rounds = L + 2
  <2>1. Logic(s)!LooksBack => S = skipped
    <3>1. rounds = L + 2 => \A p \in 1..L : p \in 1..rounds - 1
      BY <1>3
    <3> QED
      BY <1>2, <1>4, <1>8, <1>10, <3>1
  <2>2. Logic(s)!LooksBack => Logic(s)!Settled
    <3>1. Logic(s)!PassOver(visible) = visible
      BY <1>2, <1>5, PassShows
    <3>2. \A q \in Logic(s)!Questions \cap visible : forced[q] = Logic(s)!Force(q, visible)
      BY <1>1 DEF LogicInv, Routing
    <3> QED
      BY <2>1, <3>1, <3>2 DEF Logic!Settled, S
  <2>3. Logic(s)!LooksBack' => Logic(s)!Settled'
    BY <1>1, <1>9, <1>10, <2>1, <2>2, SettledStays
  <2>4. \A f : Logic(s)!Rules(f)' = Logic(s)!Rules(f)
    BY DEF Logic!Rules, Logic!NoRule, Logic!Leaf, Logic!Questions, Logic!Fields
  <2>5. Logic(s)!TypeOK'
    BY <1>1, <1>4, <1>10, <2>4 DEF LogicInv, Logic!TypeOK, Logic!Questions, Logic!Fields, Logic!LastPage, L
  <2>6. \E k \in 0..s.last : DOMAIN rule' = 1..k
    BY <1>1 DEF LogicInv
  <2> QED
    BY <1>1, <1>9, <1>10, <2>3, <2>5, <2>6 DEF LogicInv, Passing, Routing, Logic!LayoutSettles
<1>11. CASE ~(S = skipped \/ rounds = L + 2)
  <2>1. Logic(s)!StartRound(S) /\ rounds' = rounds + 1
    BY <1>1, <1>11 DEF Logic!StartRound
  <2>2. ASSUME Logic(s)!LooksBack PROVE RightTo(s, S, rounds)
    <3>1. SUFFICES ASSUME NEW V \in SUBSET (1..s.last), SettledTo(s, V, S, rounds - 1), NEW p \in 1..rounds
                   PROVE  p \in Logic(s)!Skipped(V) <=> p \in S
      BY DEF RightTo
    <3>2. SettledTo(s, V, skipped, rounds - 1)
      <4>1. ASSUME NEW f \in 1..s.last, Logic(s)!Page(f) <= rounds - 1
            PROVE  Logic(s)!Page(f) \in S <=> Logic(s)!Page(f) \in skipped
        BY <1>2, <1>3, <1>4, <1>8, <2>2, <4>1
      <4> QED
        BY <3>1, <4>1 DEF SettledTo, Shows
    <3>3. rounds - 1 \in Nat /\ p \in 1..(rounds - 1) + 1
      BY <1>3, <3>1
    <3>4. SettledTo(s, visible, skipped, rounds - 1)
      BY <1>6
    <3>5. \A f \in 1..s.last : Logic(s)!Page(f) <= rounds - 1 => (f \in V <=> f \in visible)
      BY <1>2, <2>2, <3>2, <3>3, <3>4, SettledAgree
    <3>6. p \in Logic(s)!Skipped(V) => p \in Logic(s)!Skipped(visible)
      BY <1>2, <3>3, <3>5, SkippedFrom
    <3>7. p \in Logic(s)!Skipped(visible) => p \in Logic(s)!Skipped(V)
      BY <1>2, <3>3, <3>5, SkippedFrom
    <3> QED
      BY <3>6, <3>7 DEF S
  <2>3. Logic(s)!LooksBack' => RightTo(s, skipped, rounds - 1)'
    <3>1. rounds' - 1 = rounds /\ skipped' = S
      BY <1>1, <1>3, <2>1
    <3>2. Logic(s)!LooksBack' => RightTo(s, skipped', rounds' - 1)
      BY <1>9, <2>2, <3>1
    <3> QED
      BY <1>1, <3>2, RightStays
  <2>4. rounds < Logic(s)!LastPage + 2 /\ skipped' \subseteq 1..Logic(s)!LastPage
    BY <1>1, <1>3, <1>4, <1>11 DEF L
  <2> QED
    BY <1>1, <1>2, <1>9, <2>1, <2>3, <2>4, RoundStarts
<1> QED
  BY <1>10, <1>11

LEMMA LogicStep ==
    ASSUME NEW s, Logic(s)!FieldsNumbered, LogicInv(s), Logic(s)!Next
    PROVE  LogicInv(s)'
<1> DEFINE Goal == LogicInv(s)'
<1> SUFFICES Goal
  OBVIOUS
<1>1. ASSUME NEW r, Logic(s)!SetRule(r) PROVE Goal
  BY <1>1, SetRuleKeeps
<1>2. CASE Logic(s)!Publish
  BY <1>2, PublishKeeps
<1>3. ASSUME NEW given \in SUBSET Logic(s)!Questions, Logic(s)!Submit(given) PROVE Goal
  BY <1>3, SubmitKeeps
<1>4. CASE Logic(s)!Pass
  BY <1>4, PassKeeps
<1>5. CASE Logic(s)!Route
  BY <1>5, RouteKeeps
<1> HIDE DEF Goal
<1> QED
  BY <1>1, <1>2, <1>3, <1>4, <1>5 DEF Logic!Next

LEMMA LogicStutter ==
    ASSUME NEW s, LogicInv(s),
           UNCHANGED <<rule, phase, answers, visible, forced, skipped, rounds, passes>>
    PROVE  LogicInv(s)'
<1>1. Logic(s)!TypeOK'
  BY DEF LogicInv, Logic!TypeOK, Logic!Rules, Logic!NoRule, Logic!Leaf, Logic!Questions, Logic!Fields, Logic!LastPage
<1>2. Passing(s)' /\ Routing(s)'
  BY RulesDecide DEF LogicInv, Passing, Routing, Logic!Questions, Logic!Fields
<1>3. (Published(s)' <=> Published(s)) /\ (Logic(s)!LooksBack' <=> Logic(s)!LooksBack)
  BY PublishedStays
<1>4. RightTo(s, skipped, rounds - 1)' <=> RightTo(s, skipped, rounds - 1)
  BY RightStays
<1>5. Logic(s)!Settled => Logic(s)!Settled'
  BY SettledStays
<1>6. (\E k \in 0..s.last : DOMAIN rule' = 1..k) /\ (phase # "DRAFT" => Published(s))
      /\ (phase \in {"DRAFT", "LIVE"} => rounds = 0 /\ skipped = {})
      /\ (phase \in {"PASS", "ROUTE"} => rounds >= 1)
      /\ (phase \in {"PASS", "ROUTE"} /\ Logic(s)!LooksBack => RightTo(s, skipped, rounds - 1))
      /\ Logic(s)!LayoutSettles
  BY DEF LogicInv
<1> QED
  BY <1>1, <1>2, <1>3, <1>4, <1>5, <1>6 DEF LogicInv, Logic!LayoutSettles

-----------------------------------------------------------------------------
(* The form's history.                                                     *)

AnyQuestion(s) == History(s)!Questions \cup {History(s)!NoQuestion}
Layouts(s) == [s.fields -> AnyQuestion(s)]
HistoryTypes(s) ==
    /\ status \in {"DRAFT", "LIVE", "CLOSED"} /\ vetted \in BOOLEAN
    /\ version \in 1..s.maxVersion
    /\ question \in Layouts(s)
    /\ deleted \subseteq History(s)!Asked(question)
    /\ history \in [1..s.maxVersion -> {History(s)!NoVersion} \cup Layouts(s)]
    /\ response \in [s.respondents -> History(s)!Answers \cup {History(s)!NoResponse}]

\* No response names a version that is still to come.
VersionsReached(s) == \A r \in s.respondents : response[r].version <= version

HistoryInv(s) ==
    /\ HistoryTypes(s) /\ VersionsReached(s)
    /\ History(s)!AnswersKeepType /\ History(s)!VersionsExplainAnswers /\ History(s)!ConditionsHold

LEMMA HistoryInvGives ==
    ASSUME NEW s, HistoryInv(s)
    PROVE  History(s)!TypeOK /\ History(s)!AnswersKeepMeaning
BY DEF HistoryInv, HistoryTypes, History!TypeOK, History!AnswersKeepMeaning, History!Asked, Layouts, AnyQuestion

LEMMA QuestionTypes ==
    ASSUME NEW s
    PROVE  /\ History(s)!NoQuestion \notin History(s)!Questions
           /\ \A q \in History(s)!Questions : q.type # "NONE" /\ q.type \in History(s)!Types
           /\ History(s)!Blank \notin History(s)!Types
           /\ History(s)!NoResponse \notin History(s)!Answers
BY DEF History!NoQuestion, History!Question, History!Questions, History!Types, History!Blank,
       History!NoResponse, History!Answers

\* A snapshot asks what is not gone.
LEMMA SnapshotAsks ==
    ASSUME NEW s, NEW qs \in Layouts(s), NEW gone
    PROVE  /\ History(s)!Snapshot(qs, gone) \in Layouts(s)
           /\ \A q \in s.fields \ gone : History(s)!Snapshot(qs, gone)[q] = qs[q]
           /\ History(s)!Asked(History(s)!Snapshot(qs, gone)) = History(s)!Asked(qs) \ gone
BY DEF Layouts, AnyQuestion, History!Snapshot, History!Asked

\* Recording a version loses old ones at most.
LEMMA RecordKeeps ==
    ASSUME NEW s, HistoryTypes(s), NEW v \in 1..s.maxVersion, NEW snap \in Layouts(s),
           History(s)!Record(v, snap)
    PROVE  /\ history' \in [1..s.maxVersion -> {History(s)!NoVersion} \cup Layouts(s)]
           /\ \A w \in 1..s.maxVersion \ {v} : history'[w] \in {history[w], History(s)!NoVersion}
           /\ history'[v] \in {snap, History(s)!NoVersion}
<1> DEFINE all == [history EXCEPT ![v] = snap]
<1>1. all \in [1..s.maxVersion -> {History(s)!NoVersion} \cup Layouts(s)]
  BY DEF HistoryTypes
<1>2. all[v] = snap /\ \A w \in 1..s.maxVersion \ {v} : all[w] = history[w]
  BY DEF HistoryTypes
<1> DEFINE dropped(w) == History(s)!Cardinality({x \in {y \in 1..s.maxVersion : all[y] # History(s)!NoVersion} : x > w}) >= s.kept
<1>3. history' = [w \in 1..s.maxVersion |-> IF dropped(w) THEN History(s)!NoVersion ELSE all[w]]
  BY DEF History!Record
<1> HIDE DEF all, dropped
<1> QED
  BY <1>1, <1>2, <1>3

-----------------------------------------------------------------------------

LEMMA HistoryInitHolds ==
    ASSUME NEW s, History(s)!QuestionsNamed, History(s)!Init
    PROVE  HistoryInv(s)
<1> DEFINE none == [q \in s.fields |-> History(s)!NoQuestion]
<1>1. question \in Layouts(s) /\ (vetted => question = none)
  <2>1. CASE status = "LIVE"
    BY <2>1 DEF History!Init, Layouts, AnyQuestion
  <2>2. CASE status = "DRAFT"
    <3>1. PICK qs \in s.payloads : question = History(s)!Materialized(qs)
      BY <2>2 DEF History!Init
    <3>2. qs \in [s.fields -> AnyQuestion(s)]
      BY DEF History!QuestionsNamed, AnyQuestion
    <3>3. ASSUME NEW q \in s.fields, qs[q] # History(s)!NoQuestion
          PROVE  [qs[q] EXCEPT !.watches = @ \cap History(s)!Asked(qs)] \in History(s)!Questions
      BY <3>2, <3>3 DEF AnyQuestion, History!Questions
    <3>4. question \in Layouts(s)
      BY <3>1, <3>3 DEF History!Materialized, Layouts, AnyQuestion
    <3> QED
      BY <2>2, <3>4 DEF History!Init
  <2> QED
    BY <2>1, <2>2 DEF History!Init
<1>2. 1 \in 1..s.maxVersion /\ version = 1 /\ deleted = {} /\ vetted \in BOOLEAN /\ status \in {"DRAFT", "LIVE"}
  BY DEF History!Init, History!QuestionsNamed
<1>3. /\ history \in [1..s.maxVersion -> {History(s)!NoVersion} \cup Layouts(s)]
      /\ history[1] \in {question, History(s)!NoVersion}
  BY <1>1, <1>2 DEF History!Init
<1>4. \A r \in s.respondents : response[r] = History(s)!NoResponse /\ response[r].version <= 1
  BY DEF History!Init, History!NoResponse
<1>5. HistoryTypes(s)
  BY <1>1, <1>2, <1>3 DEF HistoryTypes, History!Init
<1>6. VersionsReached(s) /\ History(s)!AnswersKeepType
  BY <1>2, <1>4 DEF VersionsReached, History!AnswersKeepType
<1>7. History(s)!VersionsExplainAnswers
  BY <1>2, <1>3, <1>4 DEF History!VersionsExplainAnswers, History!Asked
<1>8. History(s)!ConditionsHold
  BY <1>1 DEF History!ConditionsHold, History!Asked
<1> QED
  BY <1>5, <1>6, <1>7, <1>8 DEF HistoryInv

\* The next version asks what the form asks: its answers keep their meaning.
LEMMA NextVersion ==
    ASSUME NEW s, HistoryInv(s), version' = version + 1, version' <= s.maxVersion, response' = response,
           status' \in {"DRAFT", "LIVE", "CLOSED"}, vetted' \in BOOLEAN,
           question' \in Layouts(s), deleted' \subseteq History(s)!Asked(question)',
           History(s)!Record(version', History(s)!Snapshot(question', deleted')),
           History(s)!AnswersKeepType', History(s)!ConditionsHold'
    PROVE  HistoryInv(s)'
<1> DEFINE snap == History(s)!Snapshot(question', deleted')
<1>1. HistoryTypes(s) /\ VersionsReached(s) /\ History(s)!VersionsExplainAnswers
  BY DEF HistoryInv
<1>2. version \in 1..s.maxVersion /\ version' \in 1..s.maxVersion
  <2>1. version \in 1..s.maxVersion
    BY <1>1 DEF HistoryTypes
  <2> QED
    BY <2>1
<1>3. snap \in Layouts(s) /\ \A q \in s.fields \ deleted' : snap[q] = question'[q]
  BY SnapshotAsks
<1>4. History(s)!Record(version', snap)
  OBVIOUS
<1> HIDE DEF snap
<1>5. /\ history' \in [1..s.maxVersion -> {History(s)!NoVersion} \cup Layouts(s)]
      /\ \A w \in 1..s.maxVersion \ {version'} : history'[w] \in {history[w], History(s)!NoVersion}
      /\ history'[version'] \in {snap, History(s)!NoVersion}
  BY <1>1, <1>2, <1>3, <1>4, RecordKeeps
<1>6. HistoryTypes(s)'
  BY <1>1, <1>2, <1>5 DEF HistoryTypes, Layouts, AnyQuestion
<1>7. \A r \in s.respondents : response[r] # History(s)!NoResponse =>
          response[r].version \in 1..s.maxVersion /\ response[r].version <= version
  BY <1>1 DEF HistoryTypes, VersionsReached, History!Answers
<1>8. VersionsReached(s)'
  <2>1. \A r \in s.respondents : response[r].version \in Nat
    BY <1>1 DEF HistoryTypes, History!Answers, History!NoResponse
  <2> QED
    BY <1>1, <1>2, <2>1 DEF VersionsReached
<1>9. \A r \in s.respondents : response'[r] # History(s)!NoResponse /\ history'[response'[r].version] # History(s)!NoVersion =>
          \A q \in s.fields : response'[r].given[q] # History(s)!Blank =>
              /\ history'[response'[r].version][q] # History(s)!NoQuestion
              /\ history'[response'[r].version][q].type = response'[r].given[q]
  <2>1. ASSUME NEW r \in s.respondents, response[r] # History(s)!NoResponse,
               history'[response[r].version] # History(s)!NoVersion
        PROVE  history'[response[r].version] = history[response[r].version]
    <3>1. response[r].version \in 1..s.maxVersion \ {version'}
      BY <1>2, <1>7, <2>1
    <3> QED
      BY <1>5, <2>1, <3>1
  <2> QED
    BY <1>1, <2>1 DEF History!VersionsExplainAnswers
<1>10. history'[version'] # History(s)!NoVersion =>
          \A q \in History(s)!Asked(question') \ deleted' :
              /\ history'[version'][q] # History(s)!NoQuestion
              /\ history'[version'][q].type = question'[q].type
  BY <1>3, <1>5 DEF History!Asked
<1>11. History(s)!VersionsExplainAnswers'
  BY <1>9, <1>10 DEF History!VersionsExplainAnswers, History!Asked, History!NoVersion, History!NoQuestion,
     History!NoResponse, History!Question, History!Blank
<1> QED
  BY <1>6, <1>8, <1>11 DEF HistoryInv

LEMMA SaveFieldsKeeps ==
    ASSUME NEW s, HistoryInv(s), NEW qs \in Layouts(s), NEW t \in {"DRAFT", "LIVE", "CLOSED"},
           History(s)!SaveFields(qs, t)
    PROVE  HistoryInv(s)'
<1>1. /\ ~History(s)!TypeLocked(qs) /\ (t = "LIVE" => History(s)!Publishable(qs))
      /\ status' = t /\ vetted' = (t = "LIVE") /\ version' = version + 1 /\ version' <= s.maxVersion
      /\ question' = [q \in s.fields |-> IF qs[q] = History(s)!NoQuestion THEN question[q] ELSE qs[q]]
      /\ deleted' = History(s)!Asked(question) \ History(s)!Asked(qs)
      /\ History(s)!Record(version', History(s)!Snapshot(question', deleted')) /\ response' = response
  BY DEF History!SaveFields
<1>2. HistoryTypes(s) /\ History(s)!AnswersKeepType
  BY DEF HistoryInv
<1>3. question' \in Layouts(s)
  BY <1>1, <1>2 DEF HistoryTypes, Layouts
<1>4. History(s)!Asked(question)' = {q \in s.fields : question'[q] # History(s)!NoQuestion}
  BY DEF History!Asked, History!NoQuestion, History!Question
<1>5. deleted' \subseteq History(s)!Asked(question)'
  BY <1>1, <1>4 DEF History!Asked
<1>6. History(s)!Asked(question)' \ deleted' = History(s)!Asked(qs)
  BY <1>1, <1>4 DEF History!Asked
<1>7. History(s)!AnswersKeepType'
  <2>1. ASSUME NEW r \in s.respondents, response[r] # History(s)!NoResponse, NEW q \in s.fields,
               response[r].given[q] # History(s)!Blank
        PROVE  question'[q] # History(s)!NoQuestion /\ question'[q].type = response[r].given[q]
    <3>1. question[q] # History(s)!NoQuestion /\ question[q].type = response[r].given[q]
      BY <1>2, <2>1 DEF History!AnswersKeepType
    <3>2. q \in History(s)!Answered
      BY <2>1 DEF History!Answered
    <3>3. qs[q] # History(s)!NoQuestion => qs[q].type = question[q].type
      BY <1>1, <3>2 DEF History!TypeLocked, History!Asked
    <3> QED
      BY <1>1, <3>1, <3>3
  <2> QED
    BY <1>1, <2>1 DEF History!AnswersKeepType, History!NoResponse, History!Blank, History!NoQuestion, History!Question
<1>8. History(s)!ConditionsHold'
  <2>1. vetted' => \A q \in History(s)!Asked(qs) : question'[q].watches \subseteq History(s)!Asked(qs)
    BY <1>1 DEF History!Publishable, History!ConditionsResolve, History!Asked
  <2> QED
    BY <1>6, <2>1 DEF History!ConditionsHold, History!Asked, History!NoQuestion, History!Question
<1> QED
  BY <1>1, <1>3, <1>5, <1>7, <1>8, NextVersion

\* Settings saved, or the form published, with the questions as they are.
LEMMA AsItIsKeeps ==
    ASSUME NEW s, HistoryInv(s), UNCHANGED <<question, deleted, response>>,
           version' = version + 1, version' <= s.maxVersion,
           status' \in {"DRAFT", "LIVE", "CLOSED"}, vetted' \in BOOLEAN,
           History(s)!Record(version', History(s)!Snapshot(question, deleted)),
           vetted' => vetted \/ History(s)!ConditionsResolve(History(s)!Snapshot(question, deleted))
    PROVE  HistoryInv(s)'
<1>1. HistoryTypes(s) /\ History(s)!AnswersKeepType /\ History(s)!ConditionsHold
  BY DEF HistoryInv
<1>2. question' \in Layouts(s) /\ deleted' \subseteq History(s)!Asked(question)'
  BY <1>1 DEF HistoryTypes, History!Asked, History!NoQuestion, History!Question
<1>3. History(s)!AnswersKeepType'
  BY <1>1 DEF History!AnswersKeepType, History!NoResponse, History!Blank, History!NoQuestion, History!Question
<1>4. History(s)!ConditionsHold'
  <2> DEFINE snap == History(s)!Snapshot(question, deleted)
             asked == History(s)!Asked(question) \ deleted
  <2>1. History(s)!Asked(snap) = asked /\ \A q \in s.fields \ deleted : snap[q] = question[q]
    BY <1>1, SnapshotAsks DEF HistoryTypes
  <2> HIDE DEF snap
  <2>2. History(s)!ConditionsResolve(snap) => \A q \in asked : question[q].watches \subseteq asked
    BY <2>1 DEF History!ConditionsResolve, History!Asked
  <2>3. vetted' => \A q \in asked : question[q].watches \subseteq asked
    BY <1>1, <2>2 DEF History!ConditionsHold, snap
  <2> QED
    BY <2>3 DEF History!ConditionsHold, History!Asked, History!NoQuestion, History!Question
<1>5. History(s)!Record(version', History(s)!Snapshot(question', deleted'))
  OBVIOUS
<1> QED
  BY <1>2, <1>3, <1>4, <1>5, NextVersion

LEMMA PressKeeps ==
    ASSUME NEW s, HistoryInv(s), NEW t \in {"DRAFT", "LIVE", "CLOSED"}, History(s)!Press(t)
    PROVE  HistoryInv(s)'
BY DEF HistoryInv, HistoryTypes, VersionsReached, Layouts, AnyQuestion, History!Press, History!AnswersKeepType,
       History!VersionsExplainAnswers, History!ConditionsHold, History!Asked, History!Answers,
       History!NoQuestion, History!Question, History!Questions, History!Types, History!NoVersion,
       History!NoResponse, History!Blank

LEMMA SoftDeleteKeeps ==
    ASSUME NEW s, HistoryInv(s), NEW d \in s.fields, History(s)!SoftDelete(d)
    PROVE  HistoryInv(s)'
<1>1. /\ d \in History(s)!Asked(question) \ deleted /\ deleted' = deleted \cup {d}
      /\ question' = [p \in s.fields |->
             IF p \in History(s)!Asked(question) \ (deleted \cup {d})
             THEN [question[p] EXCEPT !.watches = @ \ {d}] ELSE question[p]]
      /\ UNCHANGED <<status, vetted, version, history, response>>
  BY DEF History!SoftDelete
<1>2. /\ HistoryTypes(s) /\ VersionsReached(s) /\ History(s)!AnswersKeepType
      /\ History(s)!VersionsExplainAnswers /\ History(s)!ConditionsHold
  BY DEF HistoryInv
<1>3. ASSUME NEW p \in s.fields
      PROVE  /\ question'[p] \in AnyQuestion(s) /\ question'[p].type = question[p].type
             /\ (question'[p] = History(s)!NoQuestion) <=> (question[p] = History(s)!NoQuestion)
             /\ p \in History(s)!Asked(question) \ (deleted \cup {d}) =>
                    question'[p].watches = question[p].watches \ {d}
  <2>1. question[p] \in AnyQuestion(s)
    BY <1>2 DEF HistoryTypes, Layouts
  <2>2. CASE p \in History(s)!Asked(question) \ (deleted \cup {d})
    <3>1. question[p] \in History(s)!Questions /\ question'[p] = [question[p] EXCEPT !.watches = @ \ {d}]
      BY <1>1, <2>1, <2>2 DEF AnyQuestion, History!Asked
    <3>2. /\ question'[p] \in History(s)!Questions /\ question'[p].type = question[p].type
          /\ question'[p].watches = question[p].watches \ {d}
      BY <3>1 DEF History!Questions
    <3> QED
      BY <3>1, <3>2, QuestionTypes DEF AnyQuestion
  <2>3. CASE p \notin History(s)!Asked(question) \ (deleted \cup {d})
    BY <1>1, <2>1, <2>3
  <2> QED
    BY <2>2, <2>3
<1>4. {q \in s.fields : question'[q] # History(s)!NoQuestion} = History(s)!Asked(question)
  BY <1>3 DEF History!Asked
<1>5. History(s)!Asked(question)' = History(s)!Asked(question)
  BY <1>4 DEF History!Asked, History!NoQuestion, History!Question
<1>6. HistoryTypes(s)'
  <2>1. question' \in Layouts(s)
    BY <1>1, <1>3 DEF Layouts
  <2>2. deleted' \subseteq History(s)!Asked(question)'
    BY <1>1, <1>2, <1>5 DEF HistoryTypes
  <2> QED
    BY <1>1, <1>2, <2>1, <2>2 DEF HistoryTypes, Layouts, AnyQuestion
<1>7. VersionsReached(s)'
  BY <1>1, <1>2 DEF VersionsReached
<1>8. History(s)!AnswersKeepType'
  <2>1. \A r \in s.respondents : response[r] # History(s)!NoResponse =>
            \A q \in s.fields : response[r].given[q] # History(s)!Blank =>
                question'[q] # History(s)!NoQuestion /\ question'[q].type = response[r].given[q]
    BY <1>2, <1>3 DEF History!AnswersKeepType
  <2> QED
    BY <1>1, <2>1 DEF History!AnswersKeepType, History!NoResponse, History!Blank, History!NoQuestion, History!Question
<1>9. History(s)!VersionsExplainAnswers'
  <2>1. history[version] # History(s)!NoVersion =>
            \A q \in History(s)!Asked(question) \ deleted' :
                history[version][q] # History(s)!NoQuestion /\ history[version][q].type = question'[q].type
    BY <1>1, <1>2, <1>3 DEF History!VersionsExplainAnswers, History!Asked
  <2> QED
    BY <1>1, <1>2, <1>5, <2>1 DEF History!VersionsExplainAnswers, History!NoResponse, History!Blank,
       History!NoQuestion, History!Question, History!NoVersion
<1>10. History(s)!ConditionsHold'
  <2>1. vetted => \A q \in History(s)!Asked(question) \ deleted' :
            question'[q].watches \subseteq History(s)!Asked(question) \ deleted'
    BY <1>1, <1>2, <1>3 DEF History!ConditionsHold, History!Asked
  <2> QED
    BY <1>1, <1>5, <2>1 DEF History!ConditionsHold
<1> QED
  BY <1>6, <1>7, <1>8, <1>9, <1>10 DEF HistoryInv

\* Everything but the responses stays, and those that changed are explained.
LEMMA AnswersChange ==
    ASSUME NEW s, HistoryInv(s), NEW r \in s.respondents, NEW a,
           UNCHANGED <<status, vetted, version, question, deleted, history>>,
           response' = [response EXCEPT ![r] = a],
           \/ a = History(s)!NoResponse
           \/ /\ a \in History(s)!Answers /\ a.version = version
              /\ \A q \in s.fields : a.given[q] # History(s)!Blank =>
                     q \in History(s)!Asked(question) \ deleted /\ a.given[q] = question[q].type
    PROVE  HistoryInv(s)'
<1>1. /\ HistoryTypes(s) /\ VersionsReached(s) /\ History(s)!AnswersKeepType
      /\ History(s)!VersionsExplainAnswers /\ History(s)!ConditionsHold
  BY DEF HistoryInv
<1>2. response' \in [s.respondents -> History(s)!Answers \cup {History(s)!NoResponse}]
  BY <1>1 DEF HistoryTypes
<1>3. response'[r] = a /\ \A p \in s.respondents \ {r} : response'[p] = response[p]
  BY <1>1 DEF HistoryTypes
<1>4. HistoryTypes(s)'
  BY <1>1, <1>2 DEF HistoryTypes, Layouts, AnyQuestion, History!Asked, History!NoQuestion, History!Question,
     History!Questions, History!Types, History!NoVersion, History!Answers, History!NoResponse, History!Blank
<1>5. VersionsReached(s)'
  <2>1. version \in 1..s.maxVersion /\ a.version <= version
    BY <1>1 DEF HistoryTypes, History!NoResponse
  <2> QED
    BY <1>1, <1>3, <2>1 DEF VersionsReached
<1>6. History(s)!AnswersKeepType'
  <2>1. \A p \in s.respondents : response'[p] # History(s)!NoResponse =>
            \A q \in s.fields : response'[p].given[q] # History(s)!Blank =>
                question[q] # History(s)!NoQuestion /\ question[q].type = response'[p].given[q]
    BY <1>1, <1>3 DEF History!AnswersKeepType, History!Asked
  <2> QED
    BY <2>1 DEF History!AnswersKeepType, History!NoResponse, History!Blank, History!NoQuestion, History!Question
<1>7. History(s)!VersionsExplainAnswers'
  <2>1. \A p \in s.respondents : response'[p] # History(s)!NoResponse /\ history[response'[p].version] # History(s)!NoVersion =>
            \A q \in s.fields : response'[p].given[q] # History(s)!Blank =>
                /\ history[response'[p].version][q] # History(s)!NoQuestion
                /\ history[response'[p].version][q].type = response'[p].given[q]
    BY <1>1, <1>3 DEF History!VersionsExplainAnswers
  <2> QED
    BY <1>1, <2>1 DEF History!VersionsExplainAnswers, History!NoResponse, History!Blank, History!NoQuestion,
       History!Question, History!NoVersion, History!Asked
<1>8. History(s)!ConditionsHold'
  BY <1>1 DEF History!ConditionsHold, History!Asked, History!NoQuestion, History!Question
<1> QED
  BY <1>4, <1>5, <1>6, <1>7, <1>8 DEF HistoryInv

LEMMA RespondKeeps ==
    ASSUME NEW s, HistoryInv(s), NEW r \in s.respondents, History(s)!Respond(r)
    PROVE  HistoryInv(s)'
<1>1. UNCHANGED <<status, vetted, version, question, deleted, history>>
  BY DEF History!Respond, History!formVars
<1>2. PICK answered \in SUBSET (History(s)!Asked(question) \ deleted) :
          response' = [response EXCEPT ![r] =
              [version |-> version,
               given |-> [q \in s.fields |-> IF q \in answered THEN question[q].type ELSE History(s)!Blank]]]
  BY DEF History!Respond
<1> DEFINE given == [q \in s.fields |-> IF q \in answered THEN question[q].type ELSE History(s)!Blank]
           a == [version |-> version, given |-> given]
<1>3. HistoryTypes(s)
  BY DEF HistoryInv
<1>4. \A q \in answered : q \in s.fields /\ question[q].type \in History(s)!Types
  BY <1>3, QuestionTypes DEF HistoryTypes, Layouts, AnyQuestion, History!Asked
<1>5. given \in [s.fields -> History(s)!Types \cup {History(s)!Blank}]
  BY <1>4
<1>6. \A q \in s.fields : given[q] # History(s)!Blank =>
          q \in History(s)!Asked(question) \ deleted /\ given[q] = question[q].type
  OBVIOUS
<1>7. a.version = version /\ a.given = given /\ response' = [response EXCEPT ![r] = a]
  BY <1>2
<1> HIDE DEF given
<1>8. a \in History(s)!Answers
  BY <1>3, <1>5 DEF HistoryTypes, History!Answers
<1> HIDE DEF a
<1>9. \A q \in s.fields : a.given[q] # History(s)!Blank =>
          q \in History(s)!Asked(question) \ deleted /\ a.given[q] = question[q].type
  BY <1>6, <1>7
<1> QED
  BY <1>1, <1>7, <1>8, <1>9, AnswersChange

LEMMA HistoryStep ==
    ASSUME NEW s, History(s)!QuestionsNamed, HistoryInv(s), History(s)!Next
    PROVE  HistoryInv(s)'
<1> DEFINE Goal == HistoryInv(s)'
<1> SUFFICES Goal
  OBVIOUS
<1>0. HistoryTypes(s) /\ s.payloads \subseteq Layouts(s)
  BY DEF HistoryInv, Layouts, AnyQuestion, History!QuestionsNamed
<1>1. ASSUME NEW qs \in s.payloads, NEW t \in {"DRAFT", "LIVE", "CLOSED"}, History(s)!Save(qs, t) PROVE Goal
  BY <1>0, <1>1, SaveFieldsKeeps DEF History!Save
<1>2. ASSUME NEW t \in {"DRAFT", "LIVE", "CLOSED"}, History(s)!SaveSettings(t) PROVE Goal
  <2>1. /\ UNCHANGED <<question, deleted, response>> /\ version' = version + 1 /\ version' <= s.maxVersion
        /\ status' \in {"DRAFT", "LIVE", "CLOSED"} /\ vetted' \in BOOLEAN
        /\ History(s)!Record(version', History(s)!Snapshot(question, deleted)) /\ (vetted' => vetted)
    BY <1>0, <1>2 DEF History!SaveSettings, HistoryTypes
  <2> QED
    BY <2>1, AsItIsKeeps
<1>3. ASSUME NEW t \in {"DRAFT", "LIVE", "CLOSED"}, History(s)!Press(t) PROVE Goal
  BY <1>3, PressKeeps
<1>4. ASSUME NEW v \in 1..s.maxVersion, History(s)!Restore(v) PROVE Goal
  <2>1. history[v] \in Layouts(s) /\ status \in {"DRAFT", "LIVE", "CLOSED"} /\ History(s)!SaveFields(history[v], status)
    BY <1>0, <1>4 DEF History!Restore, HistoryTypes
  <2> QED
    BY <2>1, SaveFieldsKeeps
<1>5. CASE History(s)!Publish
  <2>1. /\ UNCHANGED <<question, deleted, response>> /\ version' = version + 1 /\ version' <= s.maxVersion
        /\ status' \in {"DRAFT", "LIVE", "CLOSED"} /\ vetted' \in BOOLEAN
        /\ History(s)!Record(version', History(s)!Snapshot(question, deleted))
        /\ History(s)!ConditionsResolve(History(s)!Snapshot(question, deleted))
    BY <1>5 DEF History!Publish, History!Publishable
  <2> QED
    BY <2>1, AsItIsKeeps
<1>6. ASSUME NEW q \in s.fields, History(s)!SoftDelete(q) PROVE Goal
  BY <1>6, SoftDeleteKeeps
<1>7. ASSUME NEW r \in s.respondents, History(s)!Respond(r) PROVE Goal
  BY <1>7, RespondKeeps
<1>8. ASSUME NEW r \in s.respondents, History(s)!DeleteResponse(r) PROVE Goal
  <2>1. /\ UNCHANGED <<status, vetted, version, question, deleted, history>>
        /\ response' = [response EXCEPT ![r] = History(s)!NoResponse]
    BY <1>8 DEF History!DeleteResponse, History!formVars
  <2> QED
    BY <2>1, AnswersChange
<1> HIDE DEF Goal
<1> QED
  BY <1>1, <1>2, <1>3, <1>4, <1>5, <1>6, <1>7, <1>8 DEF History!Next, History!Build

LEMMA HistoryStutter ==
    ASSUME NEW s, HistoryInv(s), UNCHANGED <<status, vetted, version, question, deleted, history, response>>
    PROVE  HistoryInv(s)'
BY DEF HistoryInv, HistoryTypes, VersionsReached, Layouts, AnyQuestion, History!AnswersKeepType,
       History!VersionsExplainAnswers, History!ConditionsHold, History!Asked, History!Answers,
       History!NoQuestion, History!Question, History!Questions, History!Types, History!NoVersion,
       History!NoResponse, History!Blank

-----------------------------------------------------------------------------
(* The verdict on the rules of a question, kind by kind: which rules are   *)
(* refused, which overlooked, what an answer must meet, and an answer to   *)
(* those that are neither.                                                 *)

Refuses(s) == Rules(s)!Reversed \/ Rules(s)!OutOfScale \/ Rules(s)!Conflicts

\* What RulesJudged asks of the verdict that Check gives.
Judged(s) ==
    /\ ~Refuses(s) => (Rules(s)!Answerable <=> ~Rules(s)!Overlooked)
    /\ Refuses(s) /\ ~Rules(s)!Overcautious => ~Rules(s)!Answerable

RuleTypes(s) == Rules(s)!BoundsReadable /\ Rules(s)!TypeOK

Bound(k) == k \in DOMAIN rule

\* One bound is over another, by its meaning or as text.
Above(s, k, l) == Bound(k) /\ Bound(l) /\ Rules(s)!At(k) > Rules(s)!At(l)
Later(s, k, l) == Bound(k) /\ Bound(l) /\ s.moments[rule[k]].text > s.moments[rule[l]].text

LEMMA OverIsAbove ==
    ASSUME NEW s, NEW k, NEW l
    PROVE  /\ Rules(s)!Has(k) <=> Bound(k)
           /\ Rules(s)!Over(k, l) <=> Above(s, k, l)
           /\ Rules(s)!TextOver(k, l) <=> Later(s, k, l)
BY DEF Rules!Over, Rules!TextOver, Above, Later, Bound, Rules!Has

LEMMA ReversedMeans ==
    ASSUME NEW s
    PROVE  Rules(s)!Reversed <=>
             \/ Above(s, "minLength", "maxLength") \/ Above(s, "minWords", "maxWords")
             \/ Above(s, "minValue", "maxValue") \/ Above(s, "gte", "lte")
             \/ Above(s, "minSelected", "maxSelected") \/ Above(s, "minDigits", "maxDigits")
             \/ Above(s, "minFiles", "maxFiles")
             \/ Later(s, "minDate", "maxDate") \/ Later(s, "minTime", "maxTime")
BY OverIsAbove DEF Rules!Reversed

\* What a bound of each kind is.
LEMMA BoundTypes ==
    ASSUME NEW s, RuleTypes(s), NEW k, Bound(k)
    PROVE  /\ kind \in Rules(s)!Counted => Rules(s)!At(k) = rule[k] /\ rule[k] \in 0..s.reach
           /\ kind \in Rules(s)!Numbered => /\ Rules(s)!At(k) = rule[k]
                                            /\ rule[k] \in 4 - s.reach..s.reach - 4
                                            /\ rule[k] % 2 = 0
           /\ kind \in Rules(s)!Dated => /\ Rules(s)!At(k) = s.moments[rule[k]].at
                                         /\ Rules(s)!At(k) \in 1 - s.reach..s.reach - 1
<1>1. kind \in s.kinds /\ rule[k] \in s.written[kind]
  BY DEF Rules!TypeOK, RuleTypes, Bound
<1> QED
  BY <1>1 DEF Rules!BoundsReadable, RuleTypes, Rules!At, Rules!Counted, Rules!Numbered, Rules!Dated

LEMMA CeilingTypes ==
    ASSUME NEW s, RuleTypes(s)
    PROVE  /\ s.reach \in Nat /\ s.reach >= 16
           /\ s.limits["length"] \in Nat \ {0} /\ s.limits["options"] \in Nat \ {0}
           /\ s.limits["files"] \in Nat \ {0} /\ s.limits["size"] \in Nat \ {0}
           /\ s.limits["defaultSize"] \in Nat \ {0} /\ s.limits["total"] \in Nat \ {0}
           /\ s.limits["span"] \in Nat \ {0}
BY DEF RuleTypes, Rules!BoundsReadable, Rules!Ceilings

\* The checks of other kinds of question say nothing of this one.
LEMMA NoFileLimits ==
    ASSUME NEW s, RuleTypes(s), ~Bound("minFiles"), ~Bound("minFileSize")
    PROVE  ~ Rules(s)!Least("minFiles") * Rules(s)!Least("minFileSize") > s.limits["total"]
BY CeilingTypes, OverIsAbove DEF Rules!Least

LEMMA NoFileConflict ==
    ASSUME NEW s, ~Bound("maxFileSize"), flags \cap {"allowDOC", "allowEXE"} = {}
    PROVE  ~Rules(s)!FileConflict
BY OverIsAbove DEF Rules!FileConflict, Above, Rules!Allowed, Rules!Listed, Rules!On

LEMMA TextJudged == ASSUME NEW s, RuleTypes(s), kind = "TEXT" PROVE Judged(s)
<1> DEFINE Most == s.limits["length"]
<1>1. \A k : Bound(k) => k \in {"minLength", "maxLength", "exactLength"}
  BY DEF RuleTypes, Rules!TypeOK, Rules!Keys, Bound
<1>2. flags = {}
  BY DEF RuleTypes, Rules!TypeOK, Rules!Switches
<1>3. \A k : Bound(k) => Rules(s)!At(k) = rule[k] /\ rule[k] \in Nat
  BY BoundTypes, CeilingTypes DEF Rules!Counted
<1>4. Refuses(s) <=> \/ Above(s, "minLength", "maxLength") \/ Above(s, "exactLength", "maxLength")
                     \/ Above(s, "minLength", "exactLength")
                     \/ Bound("minLength") /\ rule["minLength"] > Most
                     \/ Bound("exactLength") /\ rule["exactLength"] > Most
  <2>1. Rules(s)!Reversed <=> Above(s, "minLength", "maxLength")
    BY <1>1, ReversedMeans DEF Above, Later
  <2>2. ~Rules(s)!OutOfScale /\ ~Rules(s)!PhoneConflict /\ ~Rules(s)!NumberConflict /\ ~Rules(s)!SelectionConflict
    BY <1>1, OverIsAbove DEF Rules!OutOfScale, Rules!PhoneConflict, Rules!NumberConflict, Rules!SelectionConflict, Above
  <2>3. ~Rules(s)!DateConflict /\ ~Rules(s)!FileConflict
    BY <1>1, <1>2, NoFileConflict DEF Rules!DateConflict, Rules!On
  <2>4. Rules(s)!LengthConflict <=> \/ Above(s, "exactLength", "maxLength") \/ Above(s, "minLength", "exactLength")
                                    \/ Bound("minLength") /\ rule["minLength"] > Most
                                    \/ Bound("exactLength") /\ rule["exactLength"] > Most
    BY <1>3, OverIsAbove DEF Rules!LengthConflict
  <2> QED
    BY <2>1, <2>2, <2>3, <2>4 DEF Refuses, Rules!Conflicts
<1>5. Rules(s)!Overlooked <=> \/ Bound("maxLength") /\ rule["maxLength"] = 0
                              \/ Bound("exactLength") /\ rule["exactLength"] = 0
  BY <1>1, <1>2, <1>3, OverIsAbove, NoFileLimits DEF Rules!Overlooked, Above, Bound, Rules!On, Rules!AtMost, Rules!Exactly
<1>6. ASSUME NEW v
      PROVE  Rules(s)!Accepted(v) <=> /\ Bound("minLength") => v.length >= rule["minLength"]
                                      /\ Bound("maxLength") => v.length <= rule["maxLength"]
                                      /\ Bound("exactLength") => v.length = rule["exactLength"]
  <2>1. Rules(s)!NumberSwitches(v) /\ Rules(s)!DateSwitches(v)
    BY <1>2 DEF Rules!NumberSwitches, Rules!DateSwitches, Rules!On
  <2>2. \A k \in DOMAIN rule : Rules(s)!Passes(k, v) <=> /\ k = "minLength" => v.length >= rule["minLength"]
                                                         /\ k = "maxLength" => v.length <= rule["maxLength"]
                                                         /\ k = "exactLength" => v.length = rule["exactLength"]
    BY <1>1, <1>3 DEF Rules!Passes, Rules!Measured, Rules!AtLeast, Rules!AtMost, Rules!Exactly, Bound
  <2> QED
    BY <1>1, <2>1, <2>2 DEF Rules!Accepted, Bound
<1>7. Rules(s)!Values = [length : 1..Most]
  BY DEF Rules!Values
<1>8. Most \in Nat \ {0}
  BY CeilingTypes
<1>9. ASSUME ~Refuses(s), ~Rules(s)!Overlooked PROVE Rules(s)!Answerable
  <2> DEFINE n == IF Bound("exactLength") THEN rule["exactLength"]
                  ELSE IF Bound("minLength") /\ rule["minLength"] > 1 THEN rule["minLength"] ELSE 1
             v == [length |-> n]
  <2>1. n \in 1..Most /\ v \in Rules(s)!Values
    BY <1>3, <1>4, <1>5, <1>7, <1>8, <1>9
  <2>2. Rules(s)!Accepted(v)
    BY <1>3, <1>4, <1>5, <1>6, <1>8, <1>9, <2>1 DEF Above
  <2> QED
    BY <2>1, <2>2 DEF Rules!Answerable
<1>10. ASSUME Refuses(s) \/ Rules(s)!Overlooked, NEW v \in Rules(s)!Values, Rules(s)!Accepted(v) PROVE FALSE
  <2>1. v.length \in 1..Most
    BY <1>7, <1>10
  <2> QED
    BY <1>3, <1>4, <1>5, <1>6, <1>8, <1>10, <2>1 DEF Above
<1> QED
  BY <1>9, <1>10 DEF Judged, Rules!Answerable

LEMMA ParagraphJudged == ASSUME NEW s, RuleTypes(s), kind = "PARAGRAPH" PROVE Judged(s)
<1> DEFINE Most == s.limits["length"]
<1>1. \A k : Bound(k) => k \in {"minLength", "maxLength", "exactLength", "minWords", "maxWords"}
  BY DEF RuleTypes, Rules!TypeOK, Rules!Keys, Bound
<1>2. flags = {}
  BY DEF RuleTypes, Rules!TypeOK, Rules!Switches
<1>3. \A k : Bound(k) => Rules(s)!At(k) = rule[k] /\ rule[k] \in Nat
  BY BoundTypes, CeilingTypes DEF Rules!Counted
<1>4. Refuses(s) <=> \/ Above(s, "minLength", "maxLength") \/ Above(s, "minWords", "maxWords")
                     \/ Above(s, "exactLength", "maxLength") \/ Above(s, "minLength", "exactLength")
                     \/ Bound("minLength") /\ rule["minLength"] > Most
                     \/ Bound("exactLength") /\ rule["exactLength"] > Most
  <2>1. Rules(s)!Reversed <=> Above(s, "minLength", "maxLength") \/ Above(s, "minWords", "maxWords")
    BY <1>1, ReversedMeans DEF Above, Later
  <2>2. ~Rules(s)!OutOfScale /\ ~Rules(s)!PhoneConflict /\ ~Rules(s)!NumberConflict /\ ~Rules(s)!SelectionConflict
    BY <1>1, OverIsAbove DEF Rules!OutOfScale, Rules!PhoneConflict, Rules!NumberConflict, Rules!SelectionConflict, Above
  <2>3. ~Rules(s)!DateConflict /\ ~Rules(s)!FileConflict
    BY <1>1, <1>2, NoFileConflict DEF Rules!DateConflict, Rules!On
  <2>4. Rules(s)!LengthConflict <=> \/ Above(s, "exactLength", "maxLength") \/ Above(s, "minLength", "exactLength")
                                    \/ Bound("minLength") /\ rule["minLength"] > Most
                                    \/ Bound("exactLength") /\ rule["exactLength"] > Most
    BY <1>3, OverIsAbove DEF Rules!LengthConflict
  <2> QED
    BY <2>1, <2>2, <2>3, <2>4 DEF Refuses, Rules!Conflicts
<1>5. Rules(s)!Overlooked <=> \/ Bound("maxLength") /\ rule["maxLength"] = 0
                              \/ Bound("exactLength") /\ rule["exactLength"] = 0
                              \/ Bound("maxWords") /\ rule["maxWords"] = 0
                              \/ Bound("minWords") /\ \/ 2 * rule["minWords"] - 1 > Most
                                                      \/ Bound("maxLength") /\ 2 * rule["minWords"] - 1 > rule["maxLength"]
                                                      \/ Bound("exactLength") /\ 2 * rule["minWords"] - 1 > rule["exactLength"]
  BY <1>1, <1>2, <1>3, OverIsAbove, NoFileLimits DEF Rules!Overlooked, Above, Bound, Rules!On, Rules!AtMost, Rules!Exactly
<1>6. ASSUME NEW v
      PROVE  Rules(s)!Accepted(v) <=> /\ Bound("minLength") => v.length >= rule["minLength"]
                                      /\ Bound("maxLength") => v.length <= rule["maxLength"]
                                      /\ Bound("exactLength") => v.length = rule["exactLength"]
                                      /\ Bound("minWords") => v.words >= rule["minWords"]
                                      /\ Bound("maxWords") => v.words <= rule["maxWords"]
  <2>1. Rules(s)!NumberSwitches(v) /\ Rules(s)!DateSwitches(v)
    BY <1>2 DEF Rules!NumberSwitches, Rules!DateSwitches, Rules!On
  <2>2. \A k \in DOMAIN rule : Rules(s)!Passes(k, v) <=> /\ k = "minLength" => v.length >= rule["minLength"]
                                                         /\ k = "maxLength" => v.length <= rule["maxLength"]
                                                         /\ k = "exactLength" => v.length = rule["exactLength"]
                                                         /\ k = "minWords" => v.words >= rule["minWords"]
                                                         /\ k = "maxWords" => v.words <= rule["maxWords"]
    BY <1>1, <1>3 DEF Rules!Passes, Rules!Measured, Rules!AtLeast, Rules!AtMost, Rules!Exactly, Bound
  <2> QED
    BY <1>1, <2>1, <2>2 DEF Rules!Accepted, Bound
<1>7. Rules(s)!Values = {v \in [length : 1..Most, words : 1..Most] : 2 * v.words - 1 <= v.length}
  BY DEF Rules!Values, Rules!ParagraphValues
<1>8. Most \in Nat \ {0}
  BY CeilingTypes
<1>9. ASSUME ~Refuses(s), ~Rules(s)!Overlooked PROVE Rules(s)!Answerable
  <2> DEFINE w == IF Bound("minWords") /\ rule["minWords"] > 1 THEN rule["minWords"] ELSE 1
             n == IF Bound("exactLength") THEN rule["exactLength"]
                  ELSE IF Bound("minLength") /\ rule["minLength"] > 2 * w - 1 THEN rule["minLength"] ELSE 2 * w - 1
             v == [length |-> n, words |-> w]
  <2>1. w \in Nat \ {0} /\ 2 * w - 1 <= Most
    BY <1>3, <1>5, <1>8, <1>9
  <2>2. n \in Nat /\ 2 * w - 1 <= n /\ n <= Most
    BY <1>3, <1>4, <1>5, <1>8, <1>9, <2>1
  <2>3. v \in Rules(s)!Values
    BY <1>7, <1>8, <2>1, <2>2
  <2>4. Rules(s)!Accepted(v)
    BY <1>3, <1>4, <1>5, <1>6, <1>8, <1>9, <2>1, <2>2 DEF Above
  <2> QED
    BY <2>3, <2>4 DEF Rules!Answerable
<1>10. ASSUME Refuses(s) \/ Rules(s)!Overlooked, NEW v \in Rules(s)!Values, Rules(s)!Accepted(v) PROVE FALSE
  <2>1. v.length \in 1..Most /\ v.words \in 1..Most /\ 2 * v.words - 1 <= v.length
    BY <1>7, <1>10
  <2> QED
    BY <1>3, <1>4, <1>5, <1>6, <1>8, <1>10, <2>1 DEF Above
<1> QED
  BY <1>9, <1>10 DEF Judged, Rules!Answerable

LEMMA NumberJudged == ASSUME NEW s, RuleTypes(s), kind = "NUMBER" PROVE Judged(s)
<1>1. \A k : Bound(k) => k \in {"minValue", "maxValue", "exactValue"}
  BY DEF RuleTypes, Rules!TypeOK, Rules!Keys, Bound
<1>2. flags \subseteq {"positiveOnly", "noNegative", "integerOnly"}
  BY DEF RuleTypes, Rules!TypeOK, Rules!Switches
<1>3. \A k : Bound(k) => /\ Rules(s)!At(k) = rule[k]
                         /\ rule[k] \in Int /\ 4 - s.reach <= rule[k] /\ rule[k] <= s.reach - 4
                         /\ rule[k] % 2 = 0
  BY BoundTypes, CeilingTypes DEF Rules!Numbered
<1>4. Refuses(s) <=> \/ Above(s, "minValue", "maxValue") \/ Above(s, "exactValue", "maxValue")
                     \/ Above(s, "minValue", "exactValue")
                     \/ Bound("maxValue") /\ "positiveOnly" \in flags /\ rule["maxValue"] <= 0
                     \/ Bound("maxValue") /\ "noNegative" \in flags /\ rule["maxValue"] < 0
  <2>1. Rules(s)!Reversed <=> Above(s, "minValue", "maxValue")
    BY <1>1, ReversedMeans DEF Above, Later
  <2>2. ~Rules(s)!OutOfScale /\ ~Rules(s)!PhoneConflict /\ ~Rules(s)!LengthConflict /\ ~Rules(s)!SelectionConflict
    BY <1>1, OverIsAbove DEF Rules!OutOfScale, Rules!PhoneConflict, Rules!LengthConflict, Rules!SelectionConflict, Above
  <2>3. ~Rules(s)!DateConflict /\ ~Rules(s)!FileConflict
    BY <1>1, <1>2, NoFileConflict DEF Rules!DateConflict, Rules!On
  <2>4. Rules(s)!NumberConflict <=>
          \/ Above(s, "exactValue", "maxValue") \/ Above(s, "minValue", "exactValue")
          \/ Bound("maxValue") /\ "positiveOnly" \in flags /\ rule["maxValue"] <= 0
          \/ Bound("maxValue") /\ "noNegative" \in flags /\ rule["maxValue"] < 0
    BY <1>3, OverIsAbove DEF Rules!NumberConflict, Rules!On
  <2> QED
    BY <2>1, <2>2, <2>3, <2>4 DEF Refuses, Rules!Conflicts
<1>5. Rules(s)!Overlooked <=> Bound("exactValue") /\ \/ "positiveOnly" \in flags /\ rule["exactValue"] <= 0
                                                     \/ "noNegative" \in flags /\ rule["exactValue"] < 0
  BY <1>1, <1>2, <1>3, OverIsAbove, NoFileLimits DEF Rules!Overlooked, Above, Rules!On
<1>6. ASSUME NEW v
      PROVE  Rules(s)!Accepted(v) <=> /\ Bound("minValue") => v.number >= rule["minValue"]
                                      /\ Bound("maxValue") => v.number <= rule["maxValue"]
                                      /\ Bound("exactValue") => v.number = rule["exactValue"]
                                      /\ "positiveOnly" \in flags => v.number > 0
                                      /\ "noNegative" \in flags => v.number >= 0
                                      /\ "integerOnly" \in flags => v.number % 2 = 0
  <2>1. Rules(s)!DateSwitches(v)
    BY <1>2 DEF Rules!DateSwitches, Rules!On
  <2>2. \A k \in DOMAIN rule : Rules(s)!Passes(k, v) <=> /\ k = "minValue" => v.number >= rule["minValue"]
                                                         /\ k = "maxValue" => v.number <= rule["maxValue"]
                                                         /\ k = "exactValue" => v.number = rule["exactValue"]
    BY <1>1, <1>3 DEF Rules!Passes, Rules!Measured, Rules!AtLeast, Rules!AtMost, Rules!Exactly, Bound
  <2> QED
    BY <1>1, <2>1, <2>2 DEF Rules!Accepted, Rules!NumberSwitches, Rules!On, Bound
<1>7. Rules(s)!Values = [number : -s.reach..s.reach]
  BY DEF Rules!Values
<1>8. s.reach \in Nat /\ s.reach >= 16
  BY CeilingTypes
<1>9. ASSUME ~Refuses(s), ~Rules(s)!Overlooked PROVE Rules(s)!Answerable
  <2> DEFINE least == IF Bound("maxValue") /\ rule["maxValue"] < 2 THEN rule["maxValue"] ELSE 2
             n == IF Bound("exactValue") THEN rule["exactValue"]
                  ELSE IF Bound("minValue") /\ rule["minValue"] > least THEN rule["minValue"] ELSE least
             v == [number |-> n]
  <2>1. n \in Int /\ -s.reach <= n /\ n <= s.reach /\ n % 2 = 0
    BY <1>3, <1>8
  <2>2. v \in Rules(s)!Values
    BY <1>7, <1>8, <2>1
  <2>3. Rules(s)!Accepted(v)
    BY <1>3, <1>4, <1>5, <1>6, <1>9, <2>1 DEF Above
  <2> QED
    BY <2>2, <2>3 DEF Rules!Answerable
<1>10. ASSUME Refuses(s) \/ Rules(s)!Overlooked, NEW v \in Rules(s)!Values, Rules(s)!Accepted(v) PROVE FALSE
  <2>1. v.number \in Int
    BY <1>7, <1>8, <1>10
  <2> QED
    BY <1>3, <1>4, <1>5, <1>6, <1>10, <2>1 DEF Above
<1> QED
  BY <1>9, <1>10 DEF Judged, Rules!Answerable

LEMMA ComparedJudged == ASSUME NEW s, RuleTypes(s), kind = "COMPARED" PROVE Judged(s)
<1>1. \A k : Bound(k) => k \in {"gt", "gte", "lt", "lte"}
  BY DEF RuleTypes, Rules!TypeOK, Rules!Keys, Bound
<1>2. flags \subseteq {"integerOnly"}
  BY DEF RuleTypes, Rules!TypeOK, Rules!Switches
<1>3. \A k : Bound(k) => /\ Rules(s)!At(k) = rule[k]
                         /\ rule[k] \in Int /\ 4 - s.reach <= rule[k] /\ rule[k] <= s.reach - 4
                         /\ rule[k] % 2 = 0
  BY BoundTypes, CeilingTypes DEF Rules!Numbered
<1>4. Refuses(s) <=> Above(s, "gte", "lte")
  <2>1. Rules(s)!Reversed <=> Above(s, "gte", "lte")
    BY <1>1, ReversedMeans DEF Above, Later
  <2>2. ~Rules(s)!OutOfScale /\ ~Rules(s)!PhoneConflict /\ ~Rules(s)!LengthConflict /\ ~Rules(s)!SelectionConflict
    BY <1>1, OverIsAbove DEF Rules!OutOfScale, Rules!PhoneConflict, Rules!LengthConflict, Rules!SelectionConflict, Above
  <2>3. ~Rules(s)!DateConflict /\ ~Rules(s)!FileConflict /\ ~Rules(s)!NumberConflict
    BY <1>1, <1>2, OverIsAbove, NoFileConflict DEF Rules!DateConflict, Rules!NumberConflict, Rules!On, Above
  <2> QED
    BY <2>1, <2>2, <2>3 DEF Refuses, Rules!Conflicts
<1> DEFINE Meets(k, l) == Bound(k) /\ Bound(l) /\ rule[k] >= rule[l]
<1>5. Rules(s)!Overlooked <=> \/ Meets("gt", "lt") \/ Meets("gt", "lte") \/ Meets("gte", "lt")
                              \/ "integerOnly" \in flags /\ Bound("gt") /\ Bound("lt") /\ rule["gt"] + 2 >= rule["lt"]
  <2>1. (\E pair \in {<<"gt", "lt">>, <<"gt", "lte">>, <<"gte", "lt">>} :
           Rules(s)!Has(pair[1]) /\ Rules(s)!Has(pair[2]) /\ Rules(s)!At(pair[1]) >= Rules(s)!At(pair[2]))
        <=> Meets("gt", "lt") \/ Meets("gt", "lte") \/ Meets("gte", "lt")
    <3>1. \A k, l : Rules(s)!Has(k) /\ Rules(s)!Has(l) /\ Rules(s)!At(k) >= Rules(s)!At(l) <=> Meets(k, l)
      BY <1>3, OverIsAbove
    <3> HIDE DEF Meets
    <3> QED
      BY <3>1
  <2> HIDE DEF Meets
  <2> QED
    BY <1>1, <1>2, <1>3, <2>1, OverIsAbove, NoFileLimits DEF Rules!Overlooked, Above, Rules!On
<1>6. ASSUME NEW v
      PROVE  Rules(s)!Accepted(v) <=> /\ Bound("gt") => v.number > rule["gt"]
                                      /\ Bound("gte") => v.number >= rule["gte"]
                                      /\ Bound("lt") => v.number < rule["lt"]
                                      /\ Bound("lte") => v.number <= rule["lte"]
                                      /\ "integerOnly" \in flags => v.number % 2 = 0
  <2>1. Rules(s)!DateSwitches(v)
    BY <1>2 DEF Rules!DateSwitches, Rules!On
  <2>2. \A k \in DOMAIN rule : Rules(s)!Passes(k, v) <=> /\ k = "gt" => v.number > rule["gt"]
                                                         /\ k = "gte" => v.number >= rule["gte"]
                                                         /\ k = "lt" => v.number < rule["lt"]
                                                         /\ k = "lte" => v.number <= rule["lte"]
    BY <1>1, <1>3 DEF Rules!Passes, Rules!Measured, Rules!AtLeast, Rules!AtMost, Rules!Exactly, Bound
  <2> QED
    BY <1>1, <1>2, <2>1, <2>2 DEF Rules!Accepted, Rules!NumberSwitches, Rules!On, Bound
<1>7. Rules(s)!Values = [number : -s.reach..s.reach]
  BY DEF Rules!Values
<1>8. s.reach \in Nat /\ s.reach >= 16
  BY CeilingTypes
<1>9. ASSUME ~Refuses(s), ~Rules(s)!Overlooked PROVE Rules(s)!Answerable
  \* The least number over "gt", by a whole one if the answer must be whole,
  \* if that is not under "gte"; with neither, one under "lt" and "lte".
  <2> DEFINE more == IF "integerOnly" \in flags THEN 2 ELSE 1
             most == IF Bound("lt") /\ (Bound("lte") => rule["lt"] - more < rule["lte"]) THEN rule["lt"] - more
                     ELSE IF Bound("lte") THEN rule["lte"] ELSE 0
             n == IF Bound("gt") /\ (Bound("gte") => rule["gt"] + more > rule["gte"]) THEN rule["gt"] + more
                  ELSE IF Bound("gte") THEN rule["gte"] ELSE most
             v == [number |-> n]
  <2>1. most \in Int /\ -s.reach <= most /\ most <= s.reach /\ ("integerOnly" \in flags => most % 2 = 0)
    BY <1>3, <1>8
  <2>2. n \in Int /\ -s.reach <= n /\ n <= s.reach /\ ("integerOnly" \in flags => n % 2 = 0)
    BY <1>3, <1>8, <2>1
  <2>3. v \in Rules(s)!Values
    BY <1>7, <1>8, <2>2
  <2>4. Rules(s)!Accepted(v)
    BY <1>3, <1>4, <1>5, <1>6, <1>9, <2>2 DEF Above
  <2> QED
    BY <2>3, <2>4 DEF Rules!Answerable
<1>10. ASSUME Refuses(s) \/ Rules(s)!Overlooked, NEW v \in Rules(s)!Values, Rules(s)!Accepted(v) PROVE FALSE
  <2>1. v.number \in Int
    BY <1>7, <1>8, <1>10
  <2> QED
    BY <1>3, <1>4, <1>5, <1>6, <1>10, <2>1 DEF Above
<1> QED
  BY <1>9, <1>10 DEF Judged, Rules!Answerable

LEMMA ScaleJudged == ASSUME NEW s, RuleTypes(s), kind = "SCALE" PROVE Judged(s)
<1>1. \A k : Bound(k) => k \in {"LOW", "HIGH"}
  BY DEF RuleTypes, Rules!TypeOK, Rules!Keys, Bound
<1>2. flags = {}
  BY DEF RuleTypes, Rules!TypeOK, Rules!Switches
<1>3. \A k : Bound(k) => /\ Rules(s)!At(k) = rule[k]
                         /\ rule[k] \in Int /\ 4 - s.reach <= rule[k] /\ rule[k] <= s.reach - 4
                         /\ rule[k] % 2 = 0
  BY BoundTypes, CeilingTypes DEF Rules!Numbered
<1>4. Refuses(s) <=> Rules(s)!OutOfScale
  <2>1. ~Rules(s)!Reversed
    BY <1>1, ReversedMeans DEF Above, Later
  <2>2. ~Rules(s)!PhoneConflict /\ ~Rules(s)!LengthConflict /\ ~Rules(s)!SelectionConflict
    BY <1>1, OverIsAbove DEF Rules!PhoneConflict, Rules!LengthConflict, Rules!SelectionConflict, Above
  <2>3. ~Rules(s)!DateConflict /\ ~Rules(s)!FileConflict /\ ~Rules(s)!NumberConflict
    BY <1>1, <1>2, OverIsAbove, NoFileConflict DEF Rules!DateConflict, Rules!NumberConflict, Rules!On, Above
  <2> QED
    BY <2>1, <2>2, <2>3 DEF Refuses, Rules!Conflicts
<1>5. Rules(s)!Overlooked <=> \/ Bound("LOW") /\ ~Bound("HIGH") /\ rule["LOW"] > 10
                              \/ Bound("HIGH") /\ ~Bound("LOW") /\ rule["HIGH"] < 2
  BY <1>1, <1>2, <1>3, OverIsAbove, NoFileLimits DEF Rules!Overlooked, Above, Rules!On
<1>6. ASSUME NEW v PROVE Rules(s)!Accepted(v)
  BY <1>1, <1>2 DEF Rules!Accepted, Rules!NumberSwitches, Rules!DateSwitches, Rules!On, Bound, Rules!Passes,
                    Rules!AtLeast, Rules!AtMost, Rules!Exactly
<1> DEFINE low  == IF Bound("LOW") THEN rule["LOW"] ELSE 2
           high == IF Bound("HIGH") THEN rule["HIGH"] ELSE 10
<1>7. Rules(s)!Values = {v \in [number : -s.reach..s.reach] : v.number % 2 = 0 /\ v.number >= low /\ v.number <= high}
  <2>1. Rules(s)!Values = Rules(s)!ScaleValues
    BY DEF Rules!Values
  <2> QED
    BY <1>3, <2>1, OverIsAbove DEF Rules!ScaleValues
<1>8. /\ s.reach \in Nat /\ s.reach >= 16
      /\ low \in Int /\ -s.reach <= low /\ low <= s.reach /\ low % 2 = 0 /\ high \in Int
  BY <1>3, CeilingTypes
<1>9. ASSUME ~Refuses(s), ~Rules(s)!Overlooked PROVE Rules(s)!Answerable
  <2>1. low <= high
    <3>1. CASE Bound("LOW") /\ Bound("HIGH")
      <4>1. ~ Rules(s)!At("LOW") >= Rules(s)!At("HIGH")
        BY <1>4, <1>9, <3>1, OverIsAbove DEF Rules!OutOfScale
      <4> QED
        BY <1>3, <3>1, <4>1
    <3> QED
      BY <1>3, <1>5, <1>9, <3>1
  <2>2. [number |-> low] \in Rules(s)!Values
    BY <1>7, <1>8, <2>1
  <2> QED
    BY <1>6, <2>2 DEF Rules!Answerable
<1>10. ASSUME NEW v \in Rules(s)!Values PROVE low <= high
  BY <1>7, <1>8, <1>10
<1>11. ASSUME Rules(s)!Overlooked PROVE ~ low <= high
  BY <1>3, <1>5, <1>11
<1>12. ASSUME Refuses(s), ~Rules(s)!Overcautious PROVE ~ low <= high
  <2>1. Bound("LOW") /\ Bound("HIGH")
    BY <1>4, <1>12, OverIsAbove DEF Rules!OutOfScale
  <2>2. ~ Rules(s)!At("LOW") <= Rules(s)!At("HIGH")
    BY <1>4, <1>12 DEF Rules!Overcautious
  <2> QED
    BY <1>3, <2>1, <2>2
<1> QED
  BY <1>9, <1>10, <1>11, <1>12 DEF Judged, Rules!Answerable

LEMMA CheckboxJudged == ASSUME NEW s, RuleTypes(s), kind = "CHECKBOX" PROVE Judged(s)
<1> DEFINE Most == IF "allowOther" \in flags THEN s.reach ELSE s.limits["options"]
<1>1. \A k : Bound(k) => k \in {"minSelected", "maxSelected", "exactSelected"}
  BY DEF RuleTypes, Rules!TypeOK, Rules!Keys, Bound
<1>2. flags \subseteq {"allowOther"}
  BY DEF RuleTypes, Rules!TypeOK, Rules!Switches
<1>3. \A k : Bound(k) => Rules(s)!At(k) = rule[k] /\ rule[k] \in Nat /\ rule[k] <= s.reach
  BY BoundTypes, CeilingTypes DEF Rules!Counted
<1>4. Refuses(s) <=> \/ Above(s, "minSelected", "maxSelected") \/ Above(s, "exactSelected", "maxSelected")
                     \/ Above(s, "minSelected", "exactSelected")
                     \/ Bound("minSelected") /\ rule["minSelected"] > Most
                     \/ Bound("exactSelected") /\ rule["exactSelected"] > Most
  <2>1. Rules(s)!Reversed <=> Above(s, "minSelected", "maxSelected")
    BY <1>1, ReversedMeans DEF Above, Later
  <2>2. ~Rules(s)!OutOfScale /\ ~Rules(s)!PhoneConflict /\ ~Rules(s)!NumberConflict /\ ~Rules(s)!LengthConflict
    BY <1>1, OverIsAbove DEF Rules!OutOfScale, Rules!PhoneConflict, Rules!NumberConflict, Rules!LengthConflict, Above
  <2>3. ~Rules(s)!DateConflict /\ ~Rules(s)!FileConflict
    BY <1>1, <1>2, NoFileConflict DEF Rules!DateConflict, Rules!On
  <2>4. Rules(s)!SelectionConflict <=> \/ Above(s, "exactSelected", "maxSelected") \/ Above(s, "minSelected", "exactSelected")
                                       \/ Bound("minSelected") /\ rule["minSelected"] > Most
                                       \/ Bound("exactSelected") /\ rule["exactSelected"] > Most
    BY <1>3, OverIsAbove, CeilingTypes DEF Rules!SelectionConflict, Rules!On
  <2> QED
    BY <2>1, <2>2, <2>3, <2>4 DEF Refuses, Rules!Conflicts
<1>5. Rules(s)!Overlooked <=> \/ Bound("maxSelected") /\ rule["maxSelected"] = 0
                              \/ Bound("exactSelected") /\ rule["exactSelected"] = 0
  BY <1>1, <1>2, <1>3, OverIsAbove, NoFileLimits DEF Rules!Overlooked, Above, Bound, Rules!On, Rules!AtMost, Rules!Exactly
<1>6. ASSUME NEW v
      PROVE  Rules(s)!Accepted(v) <=> /\ Bound("minSelected") => v.selected >= rule["minSelected"]
                                      /\ Bound("maxSelected") => v.selected <= rule["maxSelected"]
                                      /\ Bound("exactSelected") => v.selected = rule["exactSelected"]
  <2>1. Rules(s)!NumberSwitches(v) /\ Rules(s)!DateSwitches(v)
    BY <1>2 DEF Rules!NumberSwitches, Rules!DateSwitches, Rules!On
  <2>2. \A k \in DOMAIN rule : Rules(s)!Passes(k, v) <=> /\ k = "minSelected" => v.selected >= rule["minSelected"]
                                                         /\ k = "maxSelected" => v.selected <= rule["maxSelected"]
                                                         /\ k = "exactSelected" => v.selected = rule["exactSelected"]
    BY <1>1, <1>3 DEF Rules!Passes, Rules!Measured, Rules!AtLeast, Rules!AtMost, Rules!Exactly, Bound
  <2> QED
    BY <1>1, <2>1, <2>2 DEF Rules!Accepted, Bound
<1>7. Rules(s)!Values = [selected : 1..Most]
  BY DEF Rules!Values, Rules!CheckboxValues, Rules!On
<1>8. Most \in Nat \ {0}
  BY CeilingTypes
<1> HIDE DEF Most
<1>9. ASSUME ~Refuses(s), ~Rules(s)!Overlooked PROVE Rules(s)!Answerable
  <2> DEFINE n == IF Bound("exactSelected") THEN rule["exactSelected"]
                  ELSE IF Bound("minSelected") /\ rule["minSelected"] > 1 THEN rule["minSelected"] ELSE 1
             v == [selected |-> n]
  <2>1. n \in 1..Most /\ v \in Rules(s)!Values
    BY <1>3, <1>4, <1>5, <1>7, <1>8, <1>9
  <2>2. Rules(s)!Accepted(v)
    BY <1>3, <1>4, <1>5, <1>6, <1>8, <1>9, <2>1 DEF Above
  <2> QED
    BY <2>1, <2>2 DEF Rules!Answerable
<1>10. ASSUME Refuses(s) \/ Rules(s)!Overlooked, NEW v \in Rules(s)!Values, Rules(s)!Accepted(v) PROVE FALSE
  <2>1. v.selected \in 1..Most
    BY <1>7, <1>10
  <2> QED
    BY <1>3, <1>4, <1>5, <1>6, <1>8, <1>10, <2>1 DEF Above
<1> QED
  BY <1>9, <1>10 DEF Judged, Rules!Answerable

LEMMA PhoneJudged == ASSUME NEW s, RuleTypes(s), kind = "PHONE" PROVE Judged(s)
<1>1. \A k : Bound(k) => k \in {"minDigits", "maxDigits"}
  BY DEF RuleTypes, Rules!TypeOK, Rules!Keys, Bound
<1>2. flags \subseteq {"pattern"}
  BY DEF RuleTypes, Rules!TypeOK, Rules!Switches
<1>3. \A k : Bound(k) => Rules(s)!At(k) = rule[k] /\ rule[k] \in Nat
  BY BoundTypes, CeilingTypes DEF Rules!Counted
<1>4. Refuses(s) <=> \/ Above(s, "minDigits", "maxDigits")
                     \/ Bound("maxDigits") /\ rule["maxDigits"] < 7
                     \/ Bound("minDigits") /\ rule["minDigits"] > 15
  <2>1. Rules(s)!Reversed <=> Above(s, "minDigits", "maxDigits")
    BY <1>1, ReversedMeans DEF Above, Later
  <2>2. ~Rules(s)!OutOfScale /\ ~Rules(s)!LengthConflict /\ ~Rules(s)!NumberConflict /\ ~Rules(s)!SelectionConflict
    BY <1>1, OverIsAbove DEF Rules!OutOfScale, Rules!LengthConflict, Rules!NumberConflict, Rules!SelectionConflict, Above
  <2>3. ~Rules(s)!DateConflict /\ ~Rules(s)!FileConflict
    BY <1>1, <1>2, NoFileConflict DEF Rules!DateConflict, Rules!On
  <2> QED
    BY <1>3, <2>1, <2>2, <2>3, OverIsAbove DEF Refuses, Rules!Conflicts, Rules!PhoneConflict
<1>5. ~Rules(s)!Overlooked
  BY <1>1, <1>2, <1>3, OverIsAbove, NoFileLimits DEF Rules!Overlooked, Above, Rules!On
<1>6. ASSUME NEW v
      PROVE  Rules(s)!Accepted(v) <=> /\ Bound("minDigits") => v.digits >= rule["minDigits"]
                                      /\ Bound("maxDigits") => v.digits <= rule["maxDigits"]
  <2>1. Rules(s)!NumberSwitches(v) /\ Rules(s)!DateSwitches(v)
    BY <1>2 DEF Rules!NumberSwitches, Rules!DateSwitches, Rules!On
  <2>2. \A k \in DOMAIN rule : Rules(s)!Passes(k, v) <=> /\ k = "minDigits" => v.digits >= rule["minDigits"]
                                                         /\ k = "maxDigits" => v.digits <= rule["maxDigits"]
    BY <1>1, <1>3 DEF Rules!Passes, Rules!Measured, Rules!AtLeast, Rules!AtMost, Rules!Exactly, Bound
  <2> QED
    BY <1>1, <2>1, <2>2 DEF Rules!Accepted, Bound
<1>7. Rules(s)!Values = [digits : IF "pattern" \in flags THEN 0..s.reach ELSE 7..15]
  BY DEF Rules!Values, Rules!PhoneValues, Rules!On
<1>8. ASSUME ~Refuses(s) PROVE Rules(s)!Answerable
  <2> DEFINE n == IF Bound("minDigits") /\ rule["minDigits"] > 7 THEN rule["minDigits"] ELSE 7
             v == [digits |-> n]
  <2>1. n \in 7..15 /\ n \in 0..s.reach
    BY <1>3, <1>4, <1>8, CeilingTypes
  <2>2. v \in Rules(s)!Values
    BY <1>7, <2>1
  <2>3. Rules(s)!Accepted(v)
    BY <1>3, <1>4, <1>6, <1>8, <2>1 DEF Above
  <2> QED
    BY <2>2, <2>3 DEF Rules!Answerable
<1>9. ASSUME Refuses(s), ~Rules(s)!Overcautious, NEW v \in Rules(s)!Values, Rules(s)!Accepted(v) PROVE FALSE
  <2>1. "pattern" \notin flags
    BY <1>9 DEF Rules!Overcautious, Rules!On
  <2>2. v.digits \in 7..15
    BY <1>7, <1>9, <2>1
  <2> QED
    BY <1>3, <1>4, <1>6, <1>9, <2>2 DEF Above
<1> QED
  BY <1>5, <1>8, <1>9 DEF Judged, Rules!Answerable

LEMMA DateJudged == ASSUME NEW s, RuleTypes(s), kind = "DATE" PROVE Judged(s)
<1> DEFINE at(k) == Rules(s)!At(k)
<1>1. \A k : Bound(k) => k \in {"minDate", "maxDate", "notBefore", "notAfter"}
  BY DEF RuleTypes, Rules!TypeOK, Rules!Keys, Bound
<1>2. flags \subseteq {"pastOnly", "futureOnly", "noToday"}
  BY DEF RuleTypes, Rules!TypeOK, Rules!Switches
<1>3. s.reach \in Nat /\ s.reach >= 16
  BY CeilingTypes
<1>4. \A k : Bound(k) => at(k) \in Int /\ -s.reach < at(k) /\ at(k) < s.reach
  BY <1>3, BoundTypes DEF Rules!Dated
<1> DEFINE Early == \/ Bound("minDate") /\ at("minDate") >= 0
                    \/ ~Bound("minDate") /\ Bound("notBefore") /\ at("notBefore") >= 0
           Late  == \/ Bound("maxDate") /\ at("maxDate") <= 0
                    \/ ~Bound("maxDate") /\ Bound("notAfter") /\ at("notAfter") <= 0
<1>5. Refuses(s) <=> \/ Later(s, "minDate", "maxDate")
                     \/ "pastOnly" \in flags /\ "futureOnly" \in flags
                     \/ "futureOnly" \in flags /\ Late
                     \/ "pastOnly" \in flags /\ Early
  <2>1. Rules(s)!Reversed <=> Later(s, "minDate", "maxDate")
    BY <1>1, ReversedMeans DEF Above, Later
  <2>2. /\ ~Rules(s)!OutOfScale /\ ~Rules(s)!PhoneConflict /\ ~Rules(s)!NumberConflict
        /\ ~Rules(s)!SelectionConflict /\ ~Rules(s)!LengthConflict
    BY <1>1, OverIsAbove DEF Rules!OutOfScale, Rules!PhoneConflict, Rules!NumberConflict, Rules!SelectionConflict,
                             Rules!LengthConflict, Above
  <2>3. ~Rules(s)!FileConflict
    BY <1>1, <1>2, NoFileConflict
  <2>4. /\ (\E d \in Rules(s)!FirstOf("maxDate", "notAfter") : d <= 0) <=> Late
        /\ (\E d \in Rules(s)!FirstOf("minDate", "notBefore") : d >= 0) <=> Early
    BY OverIsAbove DEF Rules!FirstOf
  <2> QED
    BY <2>1, <2>2, <2>3, <2>4 DEF Refuses, Rules!Conflicts, Rules!DateConflict, Rules!On
<1> DEFINE Passed(k, l) == \/ Above(s, k, l)
                           \/ "noToday" \in flags /\ Bound(k) /\ Bound(l) /\ at(k) = 0 /\ at(l) = 0
<1>6. Rules(s)!Overlooked <=> \/ Passed("minDate", "maxDate") \/ Passed("minDate", "notAfter")
                              \/ Passed("notBefore", "maxDate") \/ Passed("notBefore", "notAfter")
                              \/ "pastOnly" \in flags /\ Bound("notBefore") /\ at("notBefore") >= 0
                              \/ "futureOnly" \in flags /\ Bound("notAfter") /\ at("notAfter") <= 0
  <2>1. \A k, l : (\/ Rules(s)!Over(k, l)
                   \/ Rules(s)!On("noToday") /\ Rules(s)!Has(k) /\ Rules(s)!Has(l) /\ at(k) = 0 /\ at(l) = 0) <=> Passed(k, l)
    BY OverIsAbove DEF Rules!On
  <2> HIDE DEF Passed
  <2>2. (\E k \in {"minDate", "notBefore"}, l \in {"maxDate", "notAfter"} :
           \/ Rules(s)!Over(k, l)
           \/ Rules(s)!On("noToday") /\ Rules(s)!Has(k) /\ Rules(s)!Has(l) /\ at(k) = 0 /\ at(l) = 0)
        <=> \/ Passed("minDate", "maxDate") \/ Passed("minDate", "notAfter")
            \/ Passed("notBefore", "maxDate") \/ Passed("notBefore", "notAfter")
    BY <2>1
  <2>3. ~Rules(s)!Over("minTime", "maxTime")
    BY <1>1, OverIsAbove DEF Above
  <2> QED
    BY <1>1, <1>2, <2>2, <2>3, OverIsAbove, NoFileLimits DEF Rules!Overlooked, Rules!On
<1>7. ASSUME NEW v
      PROVE  Rules(s)!Accepted(v) <=> /\ Bound("minDate") => v.day >= at("minDate")
                                      /\ Bound("notBefore") => v.day >= at("notBefore")
                                      /\ Bound("maxDate") => v.day <= at("maxDate")
                                      /\ Bound("notAfter") => v.day <= at("notAfter")
                                      /\ "pastOnly" \in flags => v.day < 0
                                      /\ "futureOnly" \in flags => v.day > 0
                                      /\ "noToday" \in flags => v.day # 0
  <2>1. Rules(s)!NumberSwitches(v)
    BY <1>2 DEF Rules!NumberSwitches, Rules!On
  <2>2. \A k \in DOMAIN rule : Rules(s)!Passes(k, v) <=> /\ k = "minDate" => v.day >= at("minDate")
                                                         /\ k = "notBefore" => v.day >= at("notBefore")
                                                         /\ k = "maxDate" => v.day <= at("maxDate")
                                                         /\ k = "notAfter" => v.day <= at("notAfter")
    BY <1>1 DEF Rules!Passes, Rules!Measured, Rules!AtLeast, Rules!AtMost, Rules!Exactly, Bound
  <2> QED
    BY <1>1, <2>1, <2>2 DEF Rules!Accepted, Rules!DateSwitches, Rules!On, Bound
<1>8. Rules(s)!Values = [day : -s.reach..s.reach]
  BY DEF Rules!Values
<1> HIDE DEF at
<1>9. ASSUME ~Refuses(s), ~Rules(s)!Overlooked PROVE Rules(s)!Answerable
  \* The first day and the last that the bounds leave.
  <2> DEFINE first == IF Bound("minDate") /\ (Bound("notBefore") => at("minDate") >= at("notBefore")) THEN at("minDate")
                      ELSE IF Bound("notBefore") THEN at("notBefore") ELSE -s.reach
             last  == IF Bound("maxDate") /\ (Bound("notAfter") => at("maxDate") <= at("notAfter")) THEN at("maxDate")
                      ELSE IF Bound("notAfter") THEN at("notAfter") ELSE s.reach
             n == IF "pastOnly" \in flags THEN IF last < 0 THEN last ELSE -1
                  ELSE IF "futureOnly" \in flags THEN IF first > 0 THEN first ELSE 1
                  ELSE IF first # 0 THEN first ELSE last
             v == [day |-> n]
  <2>1. /\ first \in Int /\ -s.reach <= first /\ first < s.reach
        /\ last \in Int /\ -s.reach < last /\ last <= s.reach
    BY <1>3, <1>4
  <2>2. /\ Bound("minDate") => at("minDate") <= first
        /\ Bound("notBefore") => at("notBefore") <= first
        /\ Bound("maxDate") => last <= at("maxDate")
        /\ Bound("notAfter") => last <= at("notAfter")
    BY <1>4
  <2>3. first <= last
    BY <1>3, <1>4, <1>6, <1>9 DEF Above, at
  <2>4. "pastOnly" \in flags => first < 0 /\ "futureOnly" \notin flags
    BY <1>3, <1>4, <1>5, <1>6, <1>9
  <2>5. "futureOnly" \in flags => last > 0
    BY <1>3, <1>4, <1>5, <1>6, <1>9
  <2>6. "noToday" \in flags => ~(first = 0 /\ last = 0)
    BY <1>3, <1>4, <1>6, <1>9
  <2> HIDE DEF first, last
  <2>7. n \in Int /\ first <= n /\ n <= last
    BY <2>1, <2>3, <2>4, <2>5
  <2>8. v \in Rules(s)!Values
    BY <1>3, <1>8, <2>1, <2>7
  <2>9. "pastOnly" \in flags => n < 0
    BY <2>1
  <2>10. "futureOnly" \in flags => n > 0
    BY <2>1, <2>4
  <2>11. "noToday" \in flags => n # 0
    BY <2>1, <2>6
  <2>12. Rules(s)!Accepted(v)
    <3>1. v.day = n
      OBVIOUS
    <3> HIDE DEF n, v
    <3> QED
      BY <1>4, <1>7, <2>1, <2>2, <2>7, <2>9, <2>10, <2>11, <3>1
  <2> QED
    BY <2>8, <2>12 DEF Rules!Answerable
<1>10. ASSUME (Refuses(s) /\ ~Rules(s)!Overcautious) \/ Rules(s)!Overlooked,
              NEW v \in Rules(s)!Values, Rules(s)!Accepted(v)
       PROVE  FALSE
  <2>1. v.day \in Int
    BY <1>3, <1>8, <1>10
  <2>2. Refuses(s) => ~Later(s, "minDate", "maxDate") \/ Above(s, "minDate", "maxDate")
    <3>1. ASSUME ~Rules(s)!Overcautious PROVE ~Later(s, "minDate", "maxDate") \/ Above(s, "minDate", "maxDate")
      BY <3>1, OverIsAbove DEF Rules!Overcautious
    <3>2. ASSUME Above(s, "minDate", "maxDate") PROVE FALSE
      BY <1>4, <1>7, <1>10, <2>1, <3>2 DEF Above, at
    <3>3. CASE Rules(s)!Overlooked
      BY <1>4, <1>6, <1>7, <1>10, <2>1, <3>3 DEF Above, at
    <3> QED
      BY <1>10, <3>1, <3>3
  <2> QED
    BY <1>4, <1>5, <1>6, <1>7, <1>10, <2>1, <2>2 DEF Above, at
<1> QED
  BY <1>9, <1>10 DEF Judged, Rules!Answerable

LEMMA TimeJudged == ASSUME NEW s, RuleTypes(s), kind = "TIME" PROVE Judged(s)
<1> DEFINE at(k) == Rules(s)!At(k)
<1>1. \A k : Bound(k) => k \in {"minTime", "maxTime"}
  BY DEF RuleTypes, Rules!TypeOK, Rules!Keys, Bound
<1>2. flags = {}
  BY DEF RuleTypes, Rules!TypeOK, Rules!Switches
<1>3. s.reach \in Nat /\ s.reach >= 16
  BY CeilingTypes
<1>4. \A k : Bound(k) => at(k) \in Int /\ -s.reach < at(k) /\ at(k) < s.reach
  BY <1>3, BoundTypes DEF Rules!Dated
<1>5. Refuses(s) <=> Later(s, "minTime", "maxTime")
  <2>1. Rules(s)!Reversed <=> Later(s, "minTime", "maxTime")
    BY <1>1, ReversedMeans DEF Above, Later
  <2>2. /\ ~Rules(s)!OutOfScale /\ ~Rules(s)!PhoneConflict /\ ~Rules(s)!NumberConflict
        /\ ~Rules(s)!SelectionConflict /\ ~Rules(s)!LengthConflict
    BY <1>1, OverIsAbove DEF Rules!OutOfScale, Rules!PhoneConflict, Rules!NumberConflict, Rules!SelectionConflict,
                             Rules!LengthConflict, Above
  <2>3. ~Rules(s)!FileConflict /\ ~Rules(s)!DateConflict
    BY <1>1, <1>2, NoFileConflict DEF Rules!DateConflict, Rules!On
  <2> QED
    BY <2>1, <2>2, <2>3 DEF Refuses, Rules!Conflicts
<1>6. Rules(s)!Overlooked <=> Above(s, "minTime", "maxTime")
  BY <1>1, <1>2, OverIsAbove, NoFileLimits DEF Rules!Overlooked, Rules!On, Above
<1>7. ASSUME NEW v
      PROVE  Rules(s)!Accepted(v) <=> /\ Bound("minTime") => v.hour >= at("minTime")
                                      /\ Bound("maxTime") => v.hour <= at("maxTime")
  <2>1. Rules(s)!NumberSwitches(v) /\ Rules(s)!DateSwitches(v)
    BY <1>2 DEF Rules!NumberSwitches, Rules!DateSwitches, Rules!On
  <2>2. \A k \in DOMAIN rule : Rules(s)!Passes(k, v) <=> /\ k = "minTime" => v.hour >= at("minTime")
                                                         /\ k = "maxTime" => v.hour <= at("maxTime")
    BY <1>1 DEF Rules!Passes, Rules!Measured, Rules!AtLeast, Rules!AtMost, Rules!Exactly, Bound
  <2> QED
    BY <1>1, <2>1, <2>2 DEF Rules!Accepted, Bound
<1>8. Rules(s)!Values = [hour : -s.reach..s.reach]
  BY DEF Rules!Values
<1> HIDE DEF at
<1>9. ASSUME ~Rules(s)!Overlooked PROVE Rules(s)!Answerable
  <2> DEFINE n == IF Bound("minTime") THEN at("minTime") ELSE IF Bound("maxTime") THEN at("maxTime") ELSE 0
             v == [hour |-> n]
  <2>1. v \in Rules(s)!Values
    BY <1>3, <1>4, <1>8
  <2>2. Rules(s)!Accepted(v)
    BY <1>3, <1>4, <1>6, <1>7, <1>9 DEF Above, at
  <2> QED
    BY <2>1, <2>2 DEF Rules!Answerable
<1>10. ASSUME Above(s, "minTime", "maxTime"), NEW v \in Rules(s)!Values, Rules(s)!Accepted(v) PROVE FALSE
  <2>1. v.hour \in Int
    BY <1>3, <1>8, <1>10
  <2> QED
    BY <1>4, <1>7, <1>10, <2>1 DEF Above, at
<1>11. ASSUME Refuses(s), ~Rules(s)!Overcautious PROVE Above(s, "minTime", "maxTime")
  BY <1>5, <1>11, OverIsAbove DEF Rules!Overcautious
<1> QED
  BY <1>6, <1>9, <1>10, <1>11 DEF Judged, Rules!Answerable

LEMMA FewestFit ==
    ASSUME NEW m \in Nat, NEW n \in Nat, NEW f \in Nat, NEW z \in Nat, m <= f, n <= z
    PROVE  m * n <= f * z
<1>1. PICK a \in Nat : f = m + a
  <2>1. f - m \in Nat /\ f = m + (f - m)
    OBVIOUS
  <2> QED
    BY <2>1
<1>2. PICK b \in Nat : z = n + b
  <2>1. z - n \in Nat /\ z = n + (z - n)
    OBVIOUS
  <2> QED
    BY <2>1
<1>3. f * z = m * n + m * b + a * n + a * b
  BY <1>1, <1>2
<1>4. m * n \in Nat /\ m * b \in Nat /\ a * n \in Nat /\ a * b \in Nat
  OBVIOUS
<1> QED
  BY <1>3, <1>4

LEMMA FilesJudged == ASSUME NEW s, RuleTypes(s), kind = "FILES" PROVE Judged(s)
<1> DEFINE Most    == IF Bound("maxFileSize") THEN s.limits["size"] ELSE s.limits["defaultSize"]
           total   == s.limits["total"]
           allowed == Rules(s)!Allowed
           blocked == Rules(s)!Blocked
           files   == Rules(s)!Least("minFiles")
           size1   == Rules(s)!Least("minFileSize")
<1>1. \A k : Bound(k) => k \in {"minFiles", "maxFiles", "minFileSize", "maxFileSize"}
  BY DEF RuleTypes, Rules!TypeOK, Rules!Keys, Bound
<1>2. flags \subseteq {"allowDOC", "allowEXE", "blockDOC", "blockEXE"}
  BY DEF RuleTypes, Rules!TypeOK, Rules!Switches
<1>3. \A k : Bound(k) => Rules(s)!At(k) = rule[k] /\ rule[k] \in Nat /\ rule[k] <= s.reach
  BY BoundTypes, CeilingTypes DEF Rules!Counted
<1>4. /\ s.reach \in Nat /\ s.reach >= 16 /\ total \in Nat /\ s.limits["files"] \in Nat \ {0}
      /\ s.limits["size"] \in Nat \ {0} /\ Most \in Nat \ {0}
  BY CeilingTypes
<1>5. Refuses(s) <=> \/ Above(s, "minFiles", "maxFiles") \/ Above(s, "minFileSize", "maxFileSize")
                     \/ Bound("maxFileSize") /\ rule["maxFileSize"] > s.limits["size"]
                     \/ allowed # {} /\ allowed \subseteq blocked
  <2>1. Rules(s)!Reversed <=> Above(s, "minFiles", "maxFiles")
    BY <1>1, ReversedMeans DEF Above, Later
  <2>2. /\ ~Rules(s)!OutOfScale /\ ~Rules(s)!PhoneConflict /\ ~Rules(s)!NumberConflict
        /\ ~Rules(s)!SelectionConflict /\ ~Rules(s)!LengthConflict
    BY <1>1, OverIsAbove DEF Rules!OutOfScale, Rules!PhoneConflict, Rules!NumberConflict, Rules!SelectionConflict,
                             Rules!LengthConflict, Above
  <2>3. ~Rules(s)!DateConflict
    BY <1>2 DEF Rules!DateConflict, Rules!On
  <2> QED
    BY <1>3, <2>1, <2>2, <2>3, OverIsAbove DEF Refuses, Rules!Conflicts, Rules!FileConflict
<1>6. Rules(s)!SizeLimit = Most
  BY OverIsAbove DEF Rules!SizeLimit
<1>7. Rules(s)!Overlooked <=> \/ Bound("maxFiles") /\ rule["maxFiles"] = 0
                              \/ Bound("maxFileSize") /\ rule["maxFileSize"] = 0
                              \/ Bound("minFiles") /\ ~Bound("maxFiles") /\ rule["minFiles"] > s.limits["files"]
                              \/ Bound("minFileSize") /\ rule["minFileSize"] > Most
                              \/ files * size1 > total
  <2> HIDE DEF Most, files, size1, total
  <2> QED
    BY <1>1, <1>2, <1>3, <1>6, OverIsAbove
    DEF Rules!Overlooked, Above, Bound, Rules!On, Rules!AtMost, Rules!Exactly, files, size1, total
<1>8. ASSUME NEW v
      PROVE  Rules(s)!Accepted(v) <=> /\ Bound("minFiles") => v.files >= rule["minFiles"]
                                      /\ Bound("maxFiles") => v.files <= rule["maxFiles"]
                                      /\ Bound("minFileSize") => v.size >= rule["minFileSize"]
                                      /\ Bound("maxFileSize") => v.size <= rule["maxFileSize"]
  <2>1. Rules(s)!NumberSwitches(v) /\ Rules(s)!DateSwitches(v)
    BY <1>2 DEF Rules!NumberSwitches, Rules!DateSwitches, Rules!On
  <2>2. \A k \in DOMAIN rule : Rules(s)!Passes(k, v) <=> /\ k = "minFiles" => v.files >= rule["minFiles"]
                                                         /\ k = "maxFiles" => v.files <= rule["maxFiles"]
                                                         /\ k = "minFileSize" => v.size >= rule["minFileSize"]
                                                         /\ k = "maxFileSize" => v.size <= rule["maxFileSize"]
    BY <1>1, <1>3 DEF Rules!Passes, Rules!Measured, Rules!AtLeast, Rules!AtMost, Rules!Exactly, Bound
  <2> QED
    BY <1>1, <2>1, <2>2 DEF Rules!Accepted, Bound
<1>9. Rules(s)!Values = {v \in [files : 1..s.reach, size : 1..Most, of : {"DOC", "EXE", "OTHER"}] :
                           /\ v.files * v.size <= total
                           /\ Bound("maxFiles") \/ v.files <= s.limits["files"]
                           /\ allowed = {} \/ v.of \in allowed
                           /\ v.of \notin blocked
                           /\ v.of = "EXE" => v.of \in allowed}
  <2>1. Rules(s)!Values = Rules(s)!FileValues
    BY DEF Rules!Values
  <2> QED
    BY <1>6, <2>1, OverIsAbove DEF Rules!FileValues
<1>10. /\ files \in Nat \ {0} /\ size1 \in Nat \ {0}
       /\ files <= s.reach
       /\ Bound("minFiles") => rule["minFiles"] <= files
       /\ Bound("minFileSize") => rule["minFileSize"] <= size1
       /\ files = 1 \/ (Bound("minFiles") /\ files = rule["minFiles"])
       /\ size1 = 1 \/ (Bound("minFileSize") /\ size1 = rule["minFileSize"])
  <2>1. /\ files = IF Bound("minFiles") /\ rule["minFiles"] > 1 THEN rule["minFiles"] ELSE 1
        /\ size1 = IF Bound("minFileSize") /\ rule["minFileSize"] > 1 THEN rule["minFileSize"] ELSE 1
    BY <1>3, OverIsAbove DEF Rules!Least
  <2> HIDE DEF files, size1
  <2> QED
    BY <1>3, <1>4, <2>1
<1>11. /\ allowed \subseteq {"DOC", "EXE"} /\ blocked \subseteq {"DOC", "EXE"}
  BY DEF Rules!Allowed, Rules!Blocked, Rules!Listed
<1> HIDE DEF Most, total, allowed, blocked, files, size1
<1>12. ASSUME ~Refuses(s), ~Rules(s)!Overlooked PROVE Rules(s)!Answerable
  <2>1. PICK t \in {"DOC", "EXE", "OTHER"} : /\ allowed = {} \/ t \in allowed
                                             /\ t \notin blocked
                                             /\ t = "EXE" => t \in allowed
    <3>1. CASE allowed = {}
      BY <1>11, <3>1
    <3>2. CASE allowed # {}
      BY <1>5, <1>11, <1>12, <3>2
    <3> QED
      BY <3>1, <3>2
  <2> DEFINE v == [files |-> files, size |-> size1, of |-> t]
  <2>2. files \in 1..s.reach /\ (Bound("maxFiles") \/ files <= s.limits["files"])
    BY <1>3, <1>4, <1>7, <1>10, <1>12
  <2>3. size1 \in 1..Most
    BY <1>3, <1>4, <1>7, <1>10, <1>12
  <2>4. files * size1 <= total
    BY <1>4, <1>7, <1>10, <1>12
  <2>5. v \in Rules(s)!Values
    BY <1>9, <2>1, <2>2, <2>3, <2>4
  <2>6. /\ Bound("maxFiles") => files <= rule["maxFiles"]
        /\ Bound("maxFileSize") => size1 <= rule["maxFileSize"]
    BY <1>3, <1>5, <1>7, <1>10, <1>12 DEF Above
  <2>7. Rules(s)!Accepted(v)
    BY <1>3, <1>8, <1>10, <2>6
  <2> QED
    BY <2>5, <2>7 DEF Rules!Answerable
<1>13. ASSUME NEW v \in Rules(s)!Values, Rules(s)!Accepted(v)
       PROVE  ~Rules(s)!Overlooked /\ (Refuses(s) => Rules(s)!Overcautious)
  <2>1. /\ v.files \in 1..s.reach /\ v.size \in 1..Most /\ v.files * v.size <= total
        /\ Bound("maxFiles") \/ v.files <= s.limits["files"]
        /\ allowed = {} \/ v.of \in allowed
        /\ v.of \notin blocked
    BY <1>9, <1>13
  <2>2. /\ Bound("minFiles") => v.files >= rule["minFiles"]
        /\ Bound("maxFiles") => v.files <= rule["maxFiles"]
        /\ Bound("minFileSize") => v.size >= rule["minFileSize"]
        /\ Bound("maxFileSize") => v.size <= rule["maxFileSize"]
    BY <1>8, <1>13
  <2>3. files <= v.files /\ size1 <= v.size
    BY <1>3, <1>4, <1>10, <2>1, <2>2
  <2>4. files * size1 <= v.files * v.size
    BY <1>4, <1>10, <2>1, <2>3, FewestFit
  <2>5. ~ files * size1 > total
    <3>1. files * size1 \in Nat /\ v.files * v.size \in Nat
      BY <1>4, <1>10, <2>1
    <3> QED
      BY <1>4, <2>1, <2>4, <3>1
  <2>6. ~Rules(s)!Overlooked
    BY <1>3, <1>4, <1>7, <2>1, <2>2, <2>5
  <2>7. ASSUME Refuses(s) PROVE Bound("maxFileSize") /\ rule["maxFileSize"] > s.limits["size"]
    BY <1>3, <1>4, <1>5, <2>1, <2>2, <2>7 DEF Above
  <2>8. Refuses(s) => Rules(s)!Overcautious
    BY <1>3, <2>7, OverIsAbove DEF Rules!Overcautious
  <2> QED
    BY <2>6, <2>8
<1> QED
  BY <1>12, <1>13 DEF Judged, Rules!Answerable

LEMMA RulesAreJudged == ASSUME NEW s, RuleTypes(s) PROVE Judged(s)
<1>1. kind \in Rules(s)!Counted \cup Rules(s)!Numbered \cup Rules(s)!Dated
  BY DEF RuleTypes, Rules!BoundsReadable, Rules!TypeOK
<1> QED
  BY <1>1, TextJudged, ParagraphJudged, NumberJudged, ComparedJudged, ScaleJudged, CheckboxJudged,
     PhoneJudged, DateJudged, TimeJudged, FilesJudged
  DEF Rules!Counted, Rules!Numbered, Rules!Dated

-----------------------------------------------------------------------------
(* A question is checked once, and its rules stay as they were.            *)

RuleInv(s) == Rules(s)!TypeOK /\ Rules(s)!RulesJudged

LEMMA RuleInitHolds ==
    ASSUME NEW s, Rules(s)!Init
    PROVE  RuleInv(s)
BY DEF RuleInv, Rules!Init, Rules!TypeOK, Rules!RulesJudged

LEMMA RulesStay ==
    ASSUME NEW s, Rules(s)!TypeOK, UNCHANGED <<kind, rule, flags>>,
           verdict' \in {"NONE", "PUBLISHABLE", "REFUSED"}
    PROVE  /\ Rules(s)!TypeOK'
           /\ (Rules(s)!Answerable)' <=> Rules(s)!Answerable
           /\ (Rules(s)!Overlooked)' <=> Rules(s)!Overlooked
           /\ (Rules(s)!Overcautious)' <=> Rules(s)!Overcautious
<1>1. Rules(s)!TypeOK'
  BY DEF Rules!TypeOK, Rules!Keys, Rules!Switches
<1>2. \A k : /\ Rules(s)!Has(k)' <=> Rules(s)!Has(k)
             /\ Rules(s)!At(k)' = Rules(s)!At(k)
             /\ Rules(s)!On(k)' <=> Rules(s)!On(k)
  BY DEF Rules!Has, Rules!At, Rules!On
<1>3. \A k, l : /\ Rules(s)!Over(k, l)' <=> Rules(s)!Over(k, l)
                /\ Rules(s)!TextOver(k, l)' <=> Rules(s)!TextOver(k, l)
  BY <1>2 DEF Rules!Over, Rules!TextOver
<1>4. Rules(s)!Allowed' = Rules(s)!Allowed /\ Rules(s)!Blocked' = Rules(s)!Blocked
  BY DEF Rules!Allowed, Rules!Blocked, Rules!Listed, Rules!On
<1>5. Rules(s)!SizeLimit' = Rules(s)!SizeLimit /\ \A k : Rules(s)!Least(k)' = Rules(s)!Least(k)
  BY <1>2 DEF Rules!SizeLimit, Rules!Least
<1>6. Rules(s)!Values' = Rules(s)!Values
  <2>1. Rules(s)!ScaleValues' = Rules(s)!ScaleValues
    BY <1>2 DEF Rules!ScaleValues
  <2>2. Rules(s)!PhoneValues' = Rules(s)!PhoneValues /\ Rules(s)!CheckboxValues' = Rules(s)!CheckboxValues
    BY <1>2 DEF Rules!PhoneValues, Rules!CheckboxValues
  <2>3. Rules(s)!FileValues' = Rules(s)!FileValues
    BY <1>2, <1>4, <1>5 DEF Rules!FileValues
  <2>4. Rules(s)!ParagraphValues' = Rules(s)!ParagraphValues
    BY DEF Rules!ParagraphValues
  <2> QED
    BY <2>1, <2>2, <2>3, <2>4 DEF Rules!Values
<1>7. \A v : Rules(s)!Accepted(v)' <=> Rules(s)!Accepted(v)
  <2>1. \A k, v : Rules(s)!Measured(k, v)' = Rules(s)!Measured(k, v)
    BY DEF Rules!Measured
  <2>2. \A k, v : Rules(s)!Passes(k, v)' <=> Rules(s)!Passes(k, v)
    BY <1>2, <2>1 DEF Rules!Passes
  <2> QED
    BY <1>2, <2>2 DEF Rules!Accepted, Rules!NumberSwitches, Rules!DateSwitches
<1>8. (Rules(s)!Overlooked)' <=> Rules(s)!Overlooked
  BY <1>2, <1>3, <1>5 DEF Rules!Overlooked
<1>9. (Rules(s)!Overcautious)' <=> Rules(s)!Overcautious
  BY <1>2, <1>3 DEF Rules!Overcautious, Rules!OutOfScale
<1>10. (Rules(s)!Answerable)' <=> Rules(s)!Answerable
  BY <1>6, <1>7 DEF Rules!Answerable
<1> QED
  BY <1>1, <1>8, <1>9, <1>10

LEMMA RuleStep ==
    ASSUME NEW s, Rules(s)!BoundsReadable, RuleInv(s), Rules(s)!Next
    PROVE  RuleInv(s)'
<1>1. /\ UNCHANGED <<kind, rule, flags>>
      /\ verdict' = IF Refuses(s) THEN "REFUSED" ELSE "PUBLISHABLE"
  BY DEF Rules!Next, Rules!Check, Refuses
<1>2. Judged(s)
  BY RulesAreJudged DEF RuleTypes, RuleInv
<1>3. /\ verdict' = "PUBLISHABLE" => (Rules(s)!Answerable <=> ~Rules(s)!Overlooked)
      /\ verdict' = "REFUSED" /\ ~Rules(s)!Overcautious => ~Rules(s)!Answerable
  BY <1>1, <1>2 DEF Judged
<1> QED
  BY <1>1, <1>3, RulesStay DEF RuleInv, Rules!RulesJudged

LEMMA RuleStutter ==
    ASSUME NEW s, RuleInv(s), UNCHANGED <<kind, rule, flags, verdict>>
    PROVE  RuleInv(s)'
<1>1. verdict' \in {"NONE", "PUBLISHABLE", "REFUSED"}
  BY DEF RuleInv, Rules!TypeOK
<1> QED
  BY <1>1, RulesStay DEF RuleInv, Rules!RulesJudged

-----------------------------------------------------------------------------
(* The parts together: a behaviour is that of one part, of one size.       *)

PartsHold ==
    /\ \A s \in SeatSizes : Playing("SEATS", s) => SeatInv(s)
    /\ \A s \in ReminderSizes : Playing("REMIND", s) => RemindInv(s)
    /\ \A s \in UploadSizes : Playing("FILES", s) => UploadInv(s)
    /\ \A s \in LogicSizes : Playing("LOGIC", s) => LogicInv(s)
    /\ \A s \in HistorySizes : Playing("HISTORY", s) => HistoryInv(s)
    /\ \A s \in RuleSizes : Playing("RULES", s) => RuleInv(s)

\* What a step of the submissions may do.
PartsAct == \A s \in SeatSizes : Playing("SEATS", s) => Seats(s)!SubmissionRespectsLimits

LEMMA InitHolds == Init => PartsHold
<1>1. ASSUME NEW s \in SeatSizes, Playing("SEATS", s), Seats(s)!Init PROVE PartsHold
  <2>1. SeatInv(s)
    BY <1>1, FormsAssumption, SeatInitHolds
  <2> QED
    BY <1>1, <2>1 DEF PartsHold, Playing
<1>2. ASSUME NEW s \in ReminderSizes, Playing("REMIND", s), Remind(s)!Init PROVE PartsHold
  <2>1. RemindInv(s)
    BY <1>2, FormsAssumption, RemindInitHolds
  <2> QED
    BY <1>2, <2>1 DEF PartsHold, Playing
<1>3. ASSUME NEW s \in UploadSizes, Playing("FILES", s), Files(s)!Init PROVE PartsHold
  <2>1. UploadInv(s)
    BY <1>3, FormsAssumption, UploadInitHolds
  <2> QED
    BY <1>3, <2>1 DEF PartsHold, Playing
<1>4. ASSUME NEW s \in LogicSizes, Playing("LOGIC", s), Logic(s)!Init PROVE PartsHold
  <2>1. LogicInv(s)
    BY <1>4, FormsAssumption, LogicInitHolds
  <2> QED
    BY <1>4, <2>1 DEF PartsHold, Playing
<1>5. ASSUME NEW s \in HistorySizes, Playing("HISTORY", s), History(s)!Init PROVE PartsHold
  <2>1. HistoryInv(s)
    BY <1>5, FormsAssumption, HistoryInitHolds
  <2> QED
    BY <1>5, <2>1 DEF PartsHold, Playing
<1>6. ASSUME NEW s \in RuleSizes, Playing("RULES", s), Rules(s)!Init PROVE PartsHold
  <2>1. RuleInv(s)
    BY <1>6, RuleInitHolds
  <2> QED
    BY <1>6, <2>1 DEF PartsHold, Playing
<1> QED
  BY <1>1, <1>2, <1>3, <1>4, <1>5, <1>6 DEF Init

LEMMA StepsHold == ASSUME PartsHold, Next PROVE PartsHold' /\ PartsAct
<1>0. part' = part /\ size' = size
  BY DEF Next
<1>1. ASSUME NEW s \in SeatSizes, Playing("SEATS", s), Seats(s)!Next PROVE PartsHold' /\ PartsAct
  <2>1. SeatInv(s)' /\ Seats(s)!SubmissionRespectsLimits
    BY <1>1, FormsAssumption, SeatStep DEF PartsHold
  <2> QED
    BY <1>0, <1>1, <2>1 DEF PartsHold, PartsAct, Playing
<1>2. ASSUME NEW s \in ReminderSizes, Playing("REMIND", s), Remind(s)!Next PROVE PartsHold' /\ PartsAct
  <2>1. RemindInv(s)'
    BY <1>2, FormsAssumption, RemindStep DEF PartsHold
  <2> QED
    BY <1>0, <1>2, <2>1 DEF PartsHold, PartsAct, Playing
<1>3. ASSUME NEW s \in UploadSizes, Playing("FILES", s), Files(s)!Next PROVE PartsHold' /\ PartsAct
  <2>1. UploadInv(s)'
    BY <1>3, FormsAssumption, UploadStep DEF PartsHold
  <2> QED
    BY <1>0, <1>3, <2>1 DEF PartsHold, PartsAct, Playing
<1>4. ASSUME NEW s \in LogicSizes, Playing("LOGIC", s), Logic(s)!Next PROVE PartsHold' /\ PartsAct
  <2>1. LogicInv(s)'
    BY <1>4, FormsAssumption, LogicStep DEF PartsHold
  <2> QED
    BY <1>0, <1>4, <2>1 DEF PartsHold, PartsAct, Playing
<1>5. ASSUME NEW s \in HistorySizes, Playing("HISTORY", s), History(s)!Next PROVE PartsHold' /\ PartsAct
  <2>1. HistoryInv(s)'
    BY <1>5, FormsAssumption, HistoryStep DEF PartsHold
  <2> QED
    BY <1>0, <1>5, <2>1 DEF PartsHold, PartsAct, Playing
<1>6. ASSUME NEW s \in RuleSizes, Playing("RULES", s), Rules(s)!Next PROVE PartsHold' /\ PartsAct
  <2>1. RuleInv(s)'
    BY <1>6, FormsAssumption, RuleStep DEF PartsHold
  <2> QED
    BY <1>0, <1>6, <2>1 DEF PartsHold, PartsAct, Playing
<1> QED
  BY <1>1, <1>2, <1>3, <1>4, <1>5, <1>6 DEF Next

LEMMA StutterHolds == ASSUME PartsHold, UNCHANGED vars PROVE PartsHold' /\ PartsAct
<1>0. part' = part /\ size' = size
  BY DEF vars
<1>1. \A s \in SeatSizes : Playing("SEATS", s) => SeatInv(s)' /\ Seats(s)!SubmissionRespectsLimits
  BY SeatStutter, NothingAdded DEF PartsHold, vars, sharedVars, seatVars, remindVars, fileVars, logicVars, historyVars, ruleVars
<1>2. \A s \in ReminderSizes : Playing("REMIND", s) => RemindInv(s)'
  BY RemindStutter DEF PartsHold, vars, sharedVars, seatVars, remindVars, fileVars, logicVars, historyVars, ruleVars
<1>3. \A s \in UploadSizes : Playing("FILES", s) => UploadInv(s)'
  BY UploadStutter DEF PartsHold, vars, sharedVars, seatVars, remindVars, fileVars, logicVars, historyVars, ruleVars
<1>4. \A s \in LogicSizes : Playing("LOGIC", s) => LogicInv(s)'
  BY LogicStutter DEF PartsHold, vars, sharedVars, seatVars, remindVars, fileVars, logicVars, historyVars, ruleVars
<1>5. \A s \in HistorySizes : Playing("HISTORY", s) => HistoryInv(s)'
  BY HistoryStutter DEF PartsHold, vars, sharedVars, seatVars, remindVars, fileVars, logicVars, historyVars, ruleVars
<1>6. \A s \in RuleSizes : Playing("RULES", s) => RuleInv(s)'
  BY RuleStutter DEF PartsHold, vars, sharedVars, seatVars, remindVars, fileVars, logicVars, historyVars, ruleVars
<1> QED
  BY <1>0, <1>1, <1>2, <1>3, <1>4, <1>5, <1>6 DEF PartsHold, PartsAct, Playing

\* Every part keeps its invariant.
LEMMA AlwaysHolds == Spec => []PartsHold
<1>1. PartsHold /\ [Next]_vars => PartsHold'
  BY StepsHold, StutterHolds
<1> QED
  BY <1>1, InitHolds, PTL DEF Spec

-----------------------------------------------------------------------------
(* The properties. *)

\* Every part of the forms keeps its types, whatever its size: the statuses
\* of a form, the rows of responses and files, the bounds of compute_layout
\* (its rounds and passes), and questions that are what models.py has.
THEOREM TypeCorrect == Spec => []TypeOK
<1>1. PartsHold => TypeOK
  BY SeatInvGives, RemindInvGives, UploadInvGives, LogicInvGives, HistoryInvGives DEF PartsHold, TypeOK, RuleInv
<1> QED
  BY <1>1, AlwaysHolds, PTL

\* ResponseViewSet.create, cancel and reopen_if_room, while requests come one
\* at a time: a form that closed because it was full is full, or someone
\* other than a respondent has made the room.
THEOREM ClosedFormsAreFull == Spec => []ClosedFormIsFull
<1>1. PartsHold => ClosedFormIsFull
  BY SeatInvGives DEF PartsHold, ClosedFormIsFull
<1> QED
  BY <1>1, AlwaysHolds, PTL

\* ResponseViewSet.create under the form's lock, however many requests
\* overlap: what a submission adds stays within the limits it has read, of
\* the form, of the person and of an option.
THEOREM LimitsAreKept == Spec => LimitsHold
<1>1. PartsHold /\ [Next]_vars =>
        [\A s \in SeatSizes : Playing("SEATS", s) => Seats(s)!SubmissionRespectsLimits]_vars
  BY StepsHold DEF PartsAct
<1> QED
  BY <1>1, AlwaysHolds, PTL DEF Spec, LimitsHold

\* send_due, whichever runs overlap and whichever die: the row that
\* claims a reminder is made before it is sent, so nobody gets it twice.
THEOREM RemindedAtMostOnce == Spec => []RemindedOnce
<1>1. PartsHold => RemindedOnce
  BY RemindInvGives DEF PartsHold, RemindedOnce
<1> QED
  BY <1>1, AlwaysHolds, PTL

\* resolve_references, attach, replace_file, remove_files, the quarantine and
\* sweep_expired, while requests do not overlap it: the files an answer names are attached and kept.
THEOREM AnswersKeepTheirFiles == Spec => []AnswerNamesItsFiles
<1>1. PartsHold => AnswerNamesItsFiles
  BY UploadInvGives DEF PartsHold, AnswerNamesItsFiles
<1> QED
  BY <1>1, AlwaysHolds, PTL

\* compute_layout, for forms of any length, any number of pages, any rules of
\* one condition each that the publish check lets pass and any answers: its
\* bounded passes and rounds are enough, if no question watches a later page.
THEOREM LayoutsSettle == Spec => []LayoutSettles
<1>1. PartsHold => LayoutSettles
  BY LogicInvGives DEF PartsHold, LayoutSettles
<1> QED
  BY <1>1, AlwaysHolds, PTL

\* FormSerializer.update, restore, publish, soft deletion and the responses:
\* no answer is reinterpreted, the version it names explains it, and a form
\* that was checked keeps no condition on a question it no longer asks.
THEOREM AnswersStayMeaningful == Spec => []AnswersKeepMeaning
<1>1. PartsHold => AnswersKeepMeaning
  BY HistoryInvGives DEF PartsHold, AnswersKeepMeaning
<1> QED
  BY <1>1, AlwaysHolds, PTL

\* validate_form_definition against what a submission takes, for every kind
\* of question, any platform limits and any bounds: what it publishes can be
\* answered but for the cases it is known to overlook, and what it refuses
\* cannot, but for those it is known to be overcautious about.
THEOREM RulesAreWellJudged == Spec => []RulesJudged
<1>1. PartsHold => RulesJudged
  BY DEF PartsHold, RulesJudged, RuleInv
<1> QED
  BY <1>1, AlwaysHolds, PTL
=============================================================================
