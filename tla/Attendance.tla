----------------------------- MODULE Attendance -----------------------------
(***************************************************************************)
(* Attendance at an event that uses a form: the sessions a form's schedule *)
(* calls for, a badge for each response, and the scans of badges in        *)
(* sessions (apps/attendance).                                             *)
(*                                                                         *)
(* Saving the form regenerates its sessions.  It looks for the sessions    *)
(* nobody was scanned in and deletes those; the database cascades, so with *)
(* Overlap a scan in between goes with its session.  Whether a scan comes  *)
(* within the form's scan window only decides whether it is made at all.   *)
(***************************************************************************)
EXTENDS Naturals, FiniteSets

CONSTANTS
    Responses,  \* numbers, in the order they are submitted; all of one person
    Starts,     \* dates an organizer picks as attendance_start_date
    MaxDays,    \* bound on attendance_days
    Labels,     \* SessionLabel by position: the sessions a day can have
    Overlap     \* whether scans commit while a form is being saved

VARIABLES
    config,   \* attendance_enabled and the schedule
    session,  \* the date of each AttendanceSession row, None where there is none
    badge,    \* of each response: ABSENT without the response, NONE, or ISSUED
    record,   \* AttendanceRecord rows
    welcomed, \* whether the person had the event's check-in celebration
    saving,   \* whether a save runs, and the sessions it is about to delete
    made      \* history: the scans made of each response there is

vars == <<config, session, badge, record, welcomed, saving, made>>

Keys    == (0..MaxDays - 1) \X (1..Labels)
None    == 0
Idle    == [on |-> FALSE, drop |-> {}]
Saving(ks) == [on |-> TRUE, drop |-> ks]

\* Days are counted from 1, and positions from 0.
DaysCount == Starts \subseteq Nat \ {None} /\ MaxDays \in Nat /\ Labels \in Nat

Configs == [enabled : BOOLEAN, start : Starts, days : 1..MaxDays, perDay : 1..Labels]

TypeOK ==
    /\ config \in Configs
    /\ \A k \in Keys : session[k] = None \/ \E s \in Starts : session[k] = s + k[1]
    /\ badge \in [Responses -> {"ABSENT", "NONE", "ISSUED"}]
    /\ record \subseteq Responses \X Keys
    /\ welcomed \in BOOLEAN
    /\ saving \in [on : BOOLEAN, drop : SUBSET Keys]
    /\ made \in [Responses -> SUBSET Keys]

Desired(c) == IF c.enabled THEN (0..c.days - 1) \X (1..c.perDay) ELSE {}
Rows       == {k \in Keys : session[k] # None}
Scanned    == {r[2] : r \in record}
Submitted  == {r \in Responses : badge[r] # "ABSENT"}

Init ==
    /\ config \in {c \in Configs : ~c.enabled}
    /\ session = [k \in Keys |-> None]
    /\ badge = [r \in Responses |-> "ABSENT"]
    /\ record = {} /\ welcomed = FALSE /\ saving = Idle
    /\ made = [r \in Responses |-> {}]

-----------------------------------------------------------------------------
(* generate_sessions *)

BeginSave(c) ==
    /\ ~saving.on
    /\ config' = c
    /\ saving' = Saving(Rows \ (Desired(c) \cup Scanned))
    /\ UNCHANGED <<session, badge, record, welcomed, made>>

\* Those sessions go, with their records; the schedule's get their dates,
\* those with scans too.
CommitSave ==
    /\ saving.on
    /\ session' = [k \in Keys |-> IF k \in Desired(config) THEN config.start + k[1]
                                  ELSE IF k \in saving.drop THEN None ELSE session[k]]
    /\ record' = {r \in record : r[2] \notin saving.drop}
    /\ saving' = Idle
    /\ UNCHANGED <<config, badge, welcomed, made>>

-----------------------------------------------------------------------------
(* Registrants and their badges *)

Free == ~saving.on \/ Overlap

\* A submission is given a badge if attendance is on by then.
Submit(r) ==
    /\ Free
    /\ \A q \in Submitted : q < r
    /\ badge' = [badge EXCEPT ![r] = IF config.enabled THEN "ISSUED" ELSE "NONE"]
    /\ UNCHANGED <<config, session, record, welcomed, saving, made>>

\* issue_badge when the person asks: for their newest response.
MyBadge(r) ==
    /\ Free
    /\ config.enabled
    /\ badge[r] = "NONE" /\ \A q \in Submitted : q <= r
    /\ badge' = [badge EXCEPT ![r] = "ISSUED"]
    /\ UNCHANGED <<config, session, record, welcomed, saving, made>>

DeleteResponse(r) ==
    /\ Free
    /\ r \in Submitted
    /\ badge' = [badge EXCEPT ![r] = "ABSENT"]
    /\ record' = {x \in record : x[1] # r}
    /\ made' = [made EXCEPT ![r] = {}]
    /\ UNCHANGED <<config, session, welcomed, saving>>

\* get_or_create; the first scan at the event is celebrated.
Scan(r, k) ==
    /\ Free
    /\ badge[r] = "ISSUED" /\ k \in Rows
    /\ record' = record \cup {<<r, k>>}
    /\ welcomed' = TRUE
    /\ made' = [made EXCEPT ![r] = @ \cup {k}]
    /\ UNCHANGED <<config, session, badge, saving>>

-----------------------------------------------------------------------------
Next ==
    \/ \E c \in Configs : BeginSave(c)
    \/ CommitSave
    \/ \E r \in Responses : \/ Submit(r) \/ MyBadge(r) \/ DeleteResponse(r)
                            \/ \E k \in Keys : Scan(r, k)
Spec == Init /\ [][Next]_vars

\* What the report says of a response.
Attended(r) == {k \in Rows : <<r, k>> \in record}

(* However the schedule was changed, moved, shortened or switched off and  *)
(* on again, the report shows every scan that was made of a response, in   *)
(* the session it was made in.  (generate_sessions: "an AttendanceSession  *)
(* that already has one or more AttendanceRecord scans is NEVER deleted".) *)
ScansAreReported == \A r \in Responses : Attended(r) = made[r]
=============================================================================
