------------------------------ MODULE Imports ------------------------------
(***************************************************************************)
(* A backup file is previewed and committed: core/services/backup/ (users, *)
(* events, hackathons, form responses, the raw vault) and the older member *)
(* import, accounts/services/member_import_service.py.                     *)
(*                                                                         *)
(* A commit is one transaction with a savepoint per row; the status it is  *)
(* refused by is read before.  A preview is three statements that commit   *)
(* one by one: the attempt, its rows, the attempt again.  Without Overlap  *)
(* a request runs to its end before the next, unless its process dies.     *)
(*                                                                         *)
(* An event (a hackathon) is looked for by its title and date and made     *)
(* when none is there, and no constraint backs the search: a commit that   *)
(* overlaps another may not see what that one makes.  A row without a date *)
(* takes the time of the commit, so it is looked for on that day alone.    *)
(***************************************************************************)
EXTENDS Integers, FiniteSets

CONSTANTS
    Attempts,  \* ImportAttempt and ImportJob rows
    Rows,      \* rows of the file
    Keys,      \* what a row is recognised by: an e-mail address, a title and date
    Domains,
    Overlap

VARIABLES
    file,      \* the key of each row, Blank for none
    undated,   \* titles that some row gives no date, or one of no known format
    attempt,   \* each attempt's domain, status and whether its mapping is good enough
    progress,  \* how far the preview of each attempt is
    row,       \* ImportRow of each row of the file
    checked,   \* attempts a commit has found not committed yet
    unseen,    \* events that were not there when that commit began
    count,     \* users, events and hackathons with each key
    made,      \* responses and raw rows made of each row
    backup,    \* BackupJob.status
    formGone   \* the target form was deleted

vars == <<file, undated, attempt, progress, row, checked, unseen, count, made, backup, formGone>>

Blank     == "BLANK"
NoAttempt == [status |-> "NEW"]

KeysNamed == Blank \notin Keys /\ Rows \subseteq Nat /\ IsFiniteSet(Rows) /\ Overlap \in BOOLEAN
Kinds     == {"USERS", "EVENTS"}     \* what is recognised by its key
Keyed     == {"USERS", "MEMBERS", "EVENTS"}
KindOf(d) == IF d = "EVENTS" THEN "EVENTS" ELSE "USERS"
Ended     == {"NEW", "SAVED", "CUT"}
Marks     == {"NONE", "VALID", "INVALID", "DONE", "CONFLICT"}

TypeOK ==
    /\ file \in [Rows -> Keys \cup {Blank}] /\ undated \subseteq Keys
    /\ attempt \in [Attempts -> {NoAttempt} \cup
           [status : {"PREVIEWED", "COMMITTED"}, domain : Domains, eligible : BOOLEAN, expired : BOOLEAN]]
    /\ progress \in [Attempts -> Ended \cup {"CREATED", "FILLED"}]
    /\ row \in [Attempts -> [Rows -> Marks]]
    /\ checked \subseteq Attempts /\ unseen \in [Attempts -> SUBSET Keys]
    /\ count \in [Kinds -> [Keys -> Nat]]
    /\ made \in [Attempts -> [Rows -> Nat]]
    /\ backup \in {"AWAITING", "READY", "PARTIALLY_IMPORTED", "ARCHIVED_RAW"}
    /\ formGone \in BOOLEAN

\* Intake keeps the file as it came; some accounts and events exist before.
Init ==
    /\ file \in [Rows -> Keys \cup {Blank}]
    /\ undated \in SUBSET (IF "EVENTS" \in Domains THEN {file[r] : r \in Rows} \ {Blank} ELSE {})
    /\ attempt = [t \in Attempts |-> NoAttempt]
    /\ progress = [t \in Attempts |-> "NEW"]
    /\ row = [t \in Attempts |-> [r \in Rows |-> "NONE"]]
    /\ checked = {} /\ unseen = [t \in Attempts |-> {}]
    /\ \E known \in SUBSET Keys : count = [k \in Kinds |-> [x \in Keys |-> IF x \in known THEN 1 ELSE 0]]
    /\ made = [t \in Attempts |-> [r \in Rows |-> 0]]
    /\ backup = "AWAITING" /\ formGone = FALSE

Quiet ==
    \/ Overlap
    \/ checked = {} /\ \A t \in Attempts : progress[t] \in Ended

-----------------------------------------------------------------------------
(* What each preview finds valid, of rows with their other checks passed   *)

Repeats(r)   == \E q \in Rows : q < r /\ file[q] = file[r]
ValidUsers   == {r \in Rows : file[r] # Blank /\ ~Repeats(r)}
ValidEvents  == {r \in Rows : file[r] # Blank}
ValidForms   == Rows
ValidRaw     == Rows

\* Users and members are refused for more: ids, formats, holders.
Valid(d) ==
    CASE d \in {"USERS", "MEMBERS"} -> SUBSET ValidUsers
      [] d = "EVENTS"   -> {ValidEvents}
      [] d = "FORMS"    -> {ValidForms, {}}     \* a mapping without a field
      [] d = "RAW"      -> {ValidRaw}

Marked(valid) == [r \in Rows |-> IF r \in valid THEN "VALID" ELSE "INVALID"]

-----------------------------------------------------------------------------
(* Previews                                                                *)

NewAttempt(d, eligible) ==
    [status |-> "PREVIEWED", domain |-> d, eligible |-> eligible, expired |-> FALSE]

\* The attempt is there, with its key, before its rows.
StartPreview(t, d, eligible) ==
    /\ Quiet /\ attempt[t] = NoAttempt /\ d # "MEMBERS"
    /\ d = "FORMS" => ~formGone
    /\ d = "RAW" => eligible
    /\ attempt' = [attempt EXCEPT ![t] = NewAttempt(d, eligible)]
    /\ progress' = [progress EXCEPT ![t] = "CREATED"]
    /\ UNCHANGED <<file, undated, row, checked, unseen, count, made, backup, formGone>>

FillRows(t) ==
    /\ progress[t] = "CREATED"
    /\ \E valid \in Valid(attempt[t].domain) : row' = [row EXCEPT ![t] = Marked(valid)]
    /\ progress' = [progress EXCEPT ![t] = "FILLED"]
    /\ UNCHANGED <<file, undated, attempt, checked, unseen, count, made, backup, formGone>>

\* The attempt is saved whole, as it was created, and the file is READY.
SavePreview(t) ==
    /\ progress[t] = "FILLED"
    /\ attempt' = IF attempt[t].domain = "RAW" THEN attempt
                  ELSE [attempt EXCEPT ![t].status = "PREVIEWED"]
    /\ progress' = [progress EXCEPT ![t] = "SAVED"]
    /\ backup' = "READY"
    /\ UNCHANGED <<file, undated, row, checked, unseen, count, made, formGone>>

\* The process dies.  Asked again with the same key, the attempt is returned.
CutPreview(t) ==
    /\ progress[t] \in {"CREATED", "FILLED"}
    /\ progress' = [progress EXCEPT ![t] = "CUT"]
    /\ UNCHANGED <<file, undated, attempt, row, checked, unseen, count, made, backup, formGone>>

\* An ImportJob is stored with its valid rows in one statement.
PreviewMembers(t) ==
    /\ Quiet /\ attempt[t] = NoAttempt /\ "MEMBERS" \in Domains
    /\ attempt' = [attempt EXCEPT ![t] = NewAttempt("MEMBERS", TRUE)]
    /\ \E valid \in Valid("MEMBERS") : row' = [row EXCEPT ![t] = Marked(valid)]
    /\ progress' = [progress EXCEPT ![t] = "SAVED"]
    /\ UNCHANGED <<file, undated, checked, unseen, count, made, backup, formGone>>

\* Its day is over.
Expire(t) ==
    /\ Quiet /\ attempt[t].status = "PREVIEWED" /\ attempt[t].domain = "MEMBERS" /\ ~attempt[t].expired
    /\ attempt' = [attempt EXCEPT ![t].expired = TRUE]
    /\ UNCHANGED <<file, undated, progress, row, checked, unseen, count, made, backup, formGone>>

-----------------------------------------------------------------------------
(* Commits                                                                 *)

\* Mutant: a committed attempt is not told apart.
AcceptAnyAttempt(t) ==
    /\ attempt[t] # NoAttempt /\ t \notin checked
    /\ attempt[t].eligible /\ ~attempt[t].expired
    /\ checked' = checked \cup {t}

\* Required fields mapped, half of the columns matched, not expired.
AcceptCommit(t) ==
    /\ attempt[t].status = "PREVIEWED" /\ t \notin checked
    /\ attempt[t].eligible /\ ~attempt[t].expired
    /\ checked' = checked \cup {t}

NoEvents == {x \in Keys : count["EVENTS"][x] = 0}

BeginCommit(t) ==
    /\ Quiet /\ AcceptCommit(t)
    /\ unseen' = [unseen EXCEPT ![t] = IF attempt[t].domain = "EVENTS" THEN NoEvents ELSE {}]
    /\ UNCHANGED <<file, undated, attempt, progress, row, count, made, backup, formGone>>

ValidRows(t) == {r \in Rows : row[t][r] = "VALID" \/ row[t][r] = "DONE"}

\* A row that fails is rolled back to its savepoint, the others stand.
Settle(t, done, failed) ==
    /\ t \in checked
    /\ row' = [row EXCEPT ![t] = [r \in Rows |-> CASE r \in done -> "DONE"
                                                   [] r \in failed -> "CONFLICT"
                                                   [] OTHER -> row[t][r]]]
    /\ attempt' = [attempt EXCEPT ![t].status = "COMMITTED"]
    /\ \/ checked' = checked \ {t} /\ unseen' = [unseen EXCEPT ![t] = {}]
       \/ /\ Overlap /\ attempt[t].status # "COMMITTED"       \* a second request
          /\ UNCHANGED <<checked, unseen>>
    /\ UNCHANGED <<file, undated, progress, formGone>>

\* An account that is there is updated: no two have one e-mail address.
GetOrMakeUsers(done) ==
    count' = [count EXCEPT !["USERS"] = [x \in Keys |->
                 IF count["USERS"][x] = 0 /\ \E r \in done : file[r] = x THEN 1 ELSE count["USERS"][x]]]

\* The events with key x that the rows imported may make: none when one is
\* there and seen, the first of the rows one when not, and each row without
\* a date one when there is none of its title on this day.
MadeWithKey(t, x, done) ==
    {n \in 0..Cardinality({r \in done : file[r] = x}) :
        /\ count["EVENTS"][x] = 0 /\ (\E r \in done : file[r] = x) => n >= 1
        /\ n <= 1 \/ x \in undated
        /\ n = 0 \/ x \in undated \/ count["EVENTS"][x] = 0 \/ (Overlap /\ x \in unseen[t])}

GetOrMakeEvents(t, done) ==
    \E new \in [Keys -> 0..Cardinality(Rows)] :
        /\ \A x \in Keys : new[x] \in MadeWithKey(t, x, done)
        /\ count' = [count EXCEPT !["EVENTS"] = [x \in Keys |-> count["EVENTS"][x] + new[x]]]

CommitUsers(t, failed) ==
    /\ attempt[t].domain = "USERS"
    /\ GetOrMakeUsers(ValidRows(t) \ failed)
    /\ Settle(t, ValidRows(t) \ failed, failed)
    /\ backup' = "PARTIALLY_IMPORTED"
    /\ UNCHANGED made

CommitMembers(t, failed) ==
    /\ attempt[t].domain = "MEMBERS"
    /\ GetOrMakeUsers(ValidRows(t) \ failed)
    /\ Settle(t, ValidRows(t) \ failed, failed)
    /\ UNCHANGED <<made, backup>>

CommitEvents(t, failed) ==
    /\ attempt[t].domain = "EVENTS"
    /\ GetOrMakeEvents(t, ValidRows(t) \ failed)
    /\ Settle(t, ValidRows(t) \ failed, failed)
    /\ backup' = "PARTIALLY_IMPORTED"
    /\ UNCHANGED made

Make(t, done) == made' = [made EXCEPT ![t] = [r \in Rows |-> made[t][r] + (IF r \in done THEN 1 ELSE 0)]]

CommitForms(t, failed) ==
    /\ attempt[t].domain = "FORMS" /\ ~formGone
    /\ Make(t, ValidRows(t) \ failed)
    /\ Settle(t, ValidRows(t) \ failed, failed)
    /\ backup' = "PARTIALLY_IMPORTED"
    /\ UNCHANGED count

\* The vault takes every row, into the one archive of the file.
CommitRaw(t) ==
    /\ attempt[t].domain = "RAW"
    /\ LET all == {r \in Rows : row[t][r] # "NONE"}
       IN  Make(t, all) /\ Settle(t, all, {})
    /\ backup' = "ARCHIVED_RAW"
    /\ UNCHANGED count

Commit(t) ==
    \/ \E failed \in SUBSET ValidRows(t) :
          \/ CommitUsers(t, failed) \/ CommitMembers(t, failed)
          \/ CommitEvents(t, failed) \/ CommitForms(t, failed)
    \/ CommitRaw(t)

\* An error outside the rows, or the process dies: all of it is rolled back.
AbandonCommit(t) ==
    /\ t \in checked
    /\ checked' = checked \ {t} /\ unseen' = [unseen EXCEPT ![t] = {}]
    /\ UNCHANGED <<file, undated, attempt, progress, row, count, made, backup, formGone>>

\* The form and its responses are deleted; the attempt keeps no form.
DeleteForm ==
    /\ Quiet /\ ~formGone /\ "FORMS" \in Domains
    /\ formGone' = TRUE
    /\ made' = [t \in Attempts |-> IF attempt[t] # NoAttempt /\ attempt[t].domain = "FORMS"
                                   THEN [r \in Rows |-> 0] ELSE made[t]]
    /\ UNCHANGED <<file, undated, attempt, progress, row, checked, unseen, count, backup>>

-----------------------------------------------------------------------------
Next ==
    \/ \E t \in Attempts :
          \/ \E d \in Domains, eligible \in BOOLEAN : StartPreview(t, d, eligible)
          \/ FillRows(t) \/ SavePreview(t) \/ CutPreview(t) \/ PreviewMembers(t) \/ Expire(t)
          \/ BeginCommit(t) \/ AbandonCommit(t)
          \/ t \in checked /\ Commit(t)
    \/ DeleteForm
Spec == Init /\ [][Next]_vars

-----------------------------------------------------------------------------
(* No account is there twice for having been imported twice, by two        *)
(* attempts, in two rows or over what was there before; nor, with requests *)
(* one at a time, is an event of a title that every row gives a date.      *)
KeyedOnce ==
    /\ \A x \in Keys : count["USERS"][x] <= 1
    /\ \A x \in Keys \ undated : Overlap \/ count["EVENTS"][x] <= 1

(* A row reported imported has its object; with one request at a time a    *)
(* row makes exactly one response or raw row (the engine's document calls  *)
(* a commit idempotent).                                                   *)
DoneIsThere ==
    \A t \in Attempts, r \in Rows : row[t][r] = "DONE" =>
        LET d == attempt[t].domain
        IN  CASE d \in Keyed   -> count[KindOf(d)][file[r]] >= 1
              [] d = "FORMS"   -> formGone \/ Overlap \/ made[t][r] = 1
              [] OTHER         -> Overlap \/ made[t][r] = 1

(* Requests one at a time: an attempt that is not committed has made       *)
(* nothing, one that is was good enough and left no valid row out, and a   *)
(* file called imported was.                                               *)
CommitIsWhole ==
    /\ \A t \in Attempts :
          /\ attempt[t].status # "COMMITTED" =>
                \A r \in Rows : made[t][r] = 0 /\ row[t][r] \notin {"DONE", "CONFLICT"}
          /\ attempt[t].status = "COMMITTED" =>
                attempt[t].eligible /\ \A r \in Rows : row[t][r] # "VALID"
    /\ backup = "PARTIALLY_IMPORTED" =>
          \E t \in Attempts : attempt[t].status = "COMMITTED" /\ attempt[t].domain \notin {"MEMBERS", "RAW"}
    /\ backup = "ARCHIVED_RAW" =>
          \E t \in Attempts : attempt[t].status = "COMMITTED" /\ attempt[t].domain = "RAW"

ImportsAreWhole == KeyedOnce /\ DoneIsThere /\ (Overlap \/ CommitIsWhole)
=============================================================================
