---------------------------- MODULE Submissions ----------------------------
(***************************************************************************)
(* A form that takes a limited number of responses, and the event whose    *)
(* seats those are: ResponseViewSet and FormViewSet of forms/views.py,     *)
(* events/registration.py, capacity.py and quick_registration.py.          *)
(*                                                                         *)
(* A submission reads the form, then works under the form's row lock with  *)
(* the values it had read.  A cancellation locks the person's own          *)
(* responses and reads the form without its lock; an edit has loaded its   *)
(* response without any.  Each of them is two steps, and what organizers   *)
(* do may come in between when Overlap is on.                              *)
(***************************************************************************)
EXTENDS Naturals, FiniteSets

CONSTANTS
    People, Requests,
    Rows,           \* ids a Response row can have
    Capacities,     \* max_total_responses; 0: no limit
    PerUser,        \* responses a person may have; 1: one, edited in place
    Editing,        \* allow_response_editing
    Picks,          \* options of a choice question
    OptionLimit,    \* optionLimits of the option LIMITED
    Windows,        \* where the clock can be from open_at to close_at
    Overlap         \* whether requests overlap

VARIABLES
    status, cap, window,  \* the Form row and the clock
    by,                   \* what gave the form its status
    row,                  \* the Response rows
    eventCap,             \* Event.capacity
    req                   \* what each request has read

vars == <<status, cap, window, by, row, eventCap, req>>
formVars == <<status, cap, window, by>>

Nobody   == "NOBODY"
NoRow    == [by |-> Nobody, pick |-> "NONE"]
Row(p, k) == [by |-> p, pick |-> k]
Idle     == [op |-> "IDLE"]
Statuses == {"DRAFT", "PUBLISHED", "SCHEDULED", "CLOSED"}

LimitsNumbered ==
    /\ IsFiniteSet(Rows) /\ Capacities \subseteq Nat /\ PerUser \in Nat \ {0} /\ OptionLimit \in Nat
    /\ Nobody \notin People /\ "NONE" \notin Picks /\ Editing \in BOOLEAN /\ Overlap \in BOOLEAN

TypeOK ==
    /\ status \in Statuses
    /\ {cap, eventCap} \subseteq Capacities
    /\ window \in Windows
    /\ by \in {"ORGANIZER", "FULL", "ROOM", "CLOCK", "EMPTIED"}
    /\ row \in [Rows -> {NoRow} \cup [by : People \cup {Nobody}, pick : Picks]]
    /\ req \in [Requests -> {Idle}
          \cup [op : {"SUBMIT"}, by : People, pick : Picks, cap : Capacities]
          \cup [op : {"EDIT"}, id : Rows, by : People, pick : Picks, locked : BOOLEAN]
          \cup [op : {"CANCEL"}, by : People, ids : SUBSET Rows, full : BOOLEAN,
                closed : BOOLEAN, cap : Capacities]]

Init ==
    /\ status \in {"DRAFT", "PUBLISHED"} /\ by = "ORGANIZER"
    /\ cap \in Capacities /\ eventCap = cap
    /\ window \in Windows
    /\ row = [i \in Rows |-> NoRow]
    /\ req = [r \in Requests |-> Idle]

-----------------------------------------------------------------------------
Taken(rows)   == {i \in Rows : rows[i] # NoRow}
Of(p)         == {i \in Rows : row[i].by = p}
Picked(rows)  == {i \in Rows : rows[i].pick = "LIMITED"}
IsFull(c, rows) == c # 0 /\ Cardinality(Taken(rows)) >= c

\* Form.evaluate_schedule_status.
Evaluated(s) ==
    CASE s \in {"SCHEDULED", "PUBLISHED"} /\ window = "AFTER" -> "CLOSED"
      [] s = "SCHEDULED" /\ window = "WITHIN" -> "PUBLISHED"
      [] OTHER -> s

SetStatus(s, why) == status' = s /\ by' = IF s = status THEN by ELSE why
Evaluate == SetStatus(Evaluated(status), "CLOCK")

Accepts ==
    LET s == Evaluated(status)
    IN  s = "PUBLISHED" \/ (s = "SCHEDULED" /\ window # "BEFORE")
AcceptsEdits == Editing /\ status # "CLOSED"

FormLocked == \E r \in Requests : req[r].op = "EDIT" /\ req[r].locked
Fresh      == {i \in Rows \ Taken(row) : \A r \in Requests : req[r].op = "EDIT" => req[r].id # i}
Locked(ids) == \E r \in Requests : req[r].op = "CANCEL" /\ req[r].ids \cap ids # {}
Free == Overlap \/ \A r \in Requests : req[r] = Idle

Begin(r, what) ==
    /\ req[r] = Idle /\ Free
    /\ req' = [req EXCEPT ![r] = what]

-----------------------------------------------------------------------------
(* Submitting                                                              *)

BeginSubmit(r, p, k) ==
    /\ Accepts
    /\ Begin(r, [op |-> "SUBMIT", by |-> p, pick |-> k, cap |-> cap])
    /\ Evaluate
    /\ UNCHANGED <<cap, window, row, eventCap>>

Refused(r) ==
    LET s == req[r]
    IN  \/ Of(s.by) # {} /\ PerUser # 1 /\ Cardinality(Of(s.by)) >= PerUser
        \/ IsFull(s.cap, row)
        \/ s.pick = "LIMITED" /\ Cardinality(Picked(row)) >= OptionLimit

\* Mutant: the limits are not checked again under the lock.
CommitUnchecked(r) ==
    LET s == req[r]
    IN  /\ s.op = "SUBMIT" /\ ~FormLocked
        /\ PerUser = 1 => Of(s.by) = {}
        /\ req' = [req EXCEPT ![r] = Idle]
        /\ \E i \in Fresh :
              /\ row' = [row EXCEPT ![i] = Row(s.by, s.pick)]
              /\ IF IsFull(s.cap, row') THEN SetStatus("CLOSED", "FULL")
                 ELSE UNCHANGED <<status, by>>
        /\ UNCHANGED <<cap, window, eventCap>>

\* The checks under the form's lock, the row and the closing of a form that
\* is full now, all with the form as it was read.
CommitSubmit(r) ==
    LET s == req[r]
    IN  /\ s.op = "SUBMIT" /\ ~FormLocked
        /\ PerUser = 1 => Of(s.by) = {}
        /\ req' = [req EXCEPT ![r] = Idle]
        /\ IF Refused(r)
           THEN UNCHANGED <<status, by, row>>
           ELSE \E i \in Fresh :
                   /\ row' = [row EXCEPT ![i] = Row(s.by, s.pick)]
                   /\ IF IsFull(s.cap, row') THEN SetStatus("CLOSED", "FULL")
                      ELSE UNCHANGED <<status, by>>
        /\ UNCHANGED <<cap, window, eventCap>>

OptionFull(i, k) == k = "LIMITED" /\ Cardinality(Picked(row) \ {i}) >= OptionLimit
Editing_(i, k, lock) == [op |-> "EDIT", id |-> i, by |-> row[i].by, pick |-> k, locked |-> lock]

\* A second submission of a one-response form edits the first in place, with
\* the form's lock but not the row's.
SubmitAgain(r) ==
    LET s == req[r]
    IN  /\ s.op = "SUBMIT" /\ ~FormLocked /\ PerUser = 1
        /\ \E i \in Of(s.by) :
              req' = [req EXCEPT ![r] = IF Editing /\ ~OptionFull(i, s.pick)
                                        THEN Editing_(i, s.pick, TRUE) ELSE Idle]
        /\ UNCHANGED <<formVars, row, eventCap>>

BeginEdit(r, i, k) ==
    /\ AcceptsEdits /\ row[i].by \in People /\ ~OptionFull(i, k)
    /\ Begin(r, Editing_(i, k, FALSE))
    /\ UNCHANGED <<formVars, row, eventCap>>

\* save() inserts the row again when a cancellation has deleted it.
CommitEdit(r) ==
    LET e == req[r]
    IN  /\ e.op = "EDIT" /\ ~Locked({e.id})
        /\ req' = [req EXCEPT ![r] = Idle]
        /\ row' = [row EXCEPT ![e.id] = Row(e.by, e.pick)]
        /\ UNCHANGED <<formVars, eventCap>>

-----------------------------------------------------------------------------
(* Cancelling                                                              *)

BeginCancel(r, p) ==
    /\ Of(p) # {}
    /\ ~Locked(Of(p))
    /\ Begin(r, [op |-> "CANCEL", by |-> p, ids |-> Of(p), full |-> IsFull(cap, row),
                 closed |-> status = "CLOSED", cap |-> cap])
    /\ UNCHANGED <<formVars, row, eventCap>>

\* Mutant: whether it was full is asked after the change.
ReopenIfFull(full, closed, c, rows) ==
    IF IsFull(c, rows) /\ closed /\ window # "AFTER"
    THEN SetStatus("PUBLISHED", "ROOM") ELSE UNCHANGED <<status, by>>

\* capacity.reopen_if_room, with the form as it was read before the change.
ReopenIfRoom(full, closed, c, rows) ==
    IF full /\ closed /\ ~IsFull(c, rows) /\ window # "AFTER"
    THEN SetStatus("PUBLISHED", "ROOM") ELSE UNCHANGED <<status, by>>

CommitCancel(r) ==
    LET c == req[r]
    IN  /\ c.op = "CANCEL"
        /\ req' = [req EXCEPT ![r] = Idle]
        /\ row' = [i \in Rows |-> IF i \in c.ids THEN NoRow ELSE row[i]]
        /\ ReopenIfRoom(c.full, c.closed, c.cap, row')
        /\ UNCHANGED <<cap, window, eventCap>>

-----------------------------------------------------------------------------
(* Organizers and the clock                                                *)

\* publish, unpublish, close, reopen, schedule.
Press(s) ==
    /\ Free /\ s # status
    /\ status' = s /\ by' = "ORGANIZER"
    /\ IF s = "SCHEDULED" THEN window' \in Windows ELSE UNCHANGED window
    /\ UNCHANGED <<cap, row, eventCap, req>>

\* Close is also pressed on a form that has closed itself.
CloseAgain ==
    /\ Free /\ status = "CLOSED"
    /\ by' = "ORGANIZER"
    /\ UNCHANGED <<status, cap, window, row, eventCap, req>>

\* An event of one-click registration keeps its form's limit in step.
SetEventCapacity(c) ==
    /\ Free /\ c # eventCap
    /\ eventCap' = c /\ cap' = c
    /\ IF c # cap THEN ReopenIfRoom(IsFull(cap, row), status = "CLOSED", c, row)
       ELSE UNCHANGED <<status, by>>
    /\ UNCHANGED <<window, row, req>>

Emptied(c, rows) ==
    /\ UNCHANGED status
    /\ by' = IF by = "FULL" /\ ~IsFull(c, rows) THEN "EMPTIED" ELSE by

\* The builder saves a limit and deletes responses without opening a form.
SetLimit(c) ==
    /\ Free /\ c # cap
    /\ cap' = c
    /\ Emptied(c, row)
    /\ UNCHANGED <<window, row, eventCap, req>>

BulkDelete(ids) ==
    /\ Free /\ ids # {} /\ ids \subseteq Taken(row) /\ ~Locked(ids)
    /\ row' = [i \in Rows |-> IF i \in ids THEN NoRow ELSE row[i]]
    /\ Emptied(cap, row')
    /\ UNCHANGED <<cap, window, eventCap, req>>

\* manual_entry and bulk_ingest: no limit, no owner.
ManualEntry(k) ==
    /\ Free
    /\ \E i \in Fresh : row' = [row EXCEPT ![i] = Row(Nobody, k)]
    /\ UNCHANGED <<formVars, eventCap, req>>

Tick ==
    /\ \/ window = "BEFORE" /\ window' = "WITHIN"
       \/ window = "WITHIN" /\ window' = "AFTER"
    /\ window' \in Windows
    /\ UNCHANGED <<status, cap, by, row, eventCap, req>>

\* sync_all_scheduled_form_statuses.
SyncStatuses ==
    /\ Free /\ Evaluated(status) # status
    /\ Evaluate
    /\ UNCHANGED <<cap, window, row, eventCap, req>>

Respond(r) ==
    \/ \E p \in People, k \in Picks : BeginSubmit(r, p, k)
    \/ CommitSubmit(r) \/ SubmitAgain(r)
    \/ \E i \in Rows, k \in Picks : BeginEdit(r, i, k)
    \/ CommitEdit(r)
    \/ \E p \in People : BeginCancel(r, p)
    \/ CommitCancel(r)

Organize ==
    \/ \E s \in Statuses : Press(s)
    \/ CloseAgain
    \/ \E c \in Capacities : SetEventCapacity(c) \/ SetLimit(c)
    \/ \E ids \in SUBSET Rows : BulkDelete(ids)
    \/ \E k \in Picks : ManualEntry(k)

Next == \/ \E r \in Requests : Respond(r)
        \/ Organize
        \/ Tick \/ SyncStatuses
Spec == Init /\ [][Next]_vars

-----------------------------------------------------------------------------
(* One request at a time: a form that closed because it filled up is full, *)
(* or nobody could take the seat that came back by a cancellation or a     *)
(* larger event.  (events/capacity.py; an organizer who deletes responses  *)
(* or raises the form's own limit opens the form by hand.)                 *)
ClosedFormIsFull == status = "CLOSED" /\ by = "FULL" /\ window # "AFTER" => IsFull(cap, row)

SubmissionAdds(r) == req[r].op = "SUBMIT" /\ req'[r] = Idle /\ row' # row

SubmissionRespectsLimits ==
    \A r \in Requests : SubmissionAdds(r) =>
        /\ req[r].cap # 0 => Cardinality(Taken(row')) <= req[r].cap
        /\ Cardinality({i \in Rows : row'[i].by = req[r].by}) <= PerUser
        /\ Picked(row') # Picked(row) => Cardinality(Picked(row')) <= OptionLimit

(* Requests that overlap: what a submission adds leaves the form, the      *)
(* person and the option it picks within the limits it has read, however   *)
(* many were accepted at the door.  (ResponseViewSet.create checks under   *)
(* the form's lock, with the form as it was read; organizers' entries and  *)
(* edits may go over.)                                                     *)
LimitsHold == [][SubmissionRespectsLimits]_vars
=============================================================================
