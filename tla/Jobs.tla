-------------------------------- MODULE Jobs --------------------------------
(***************************************************************************)
(* Work on background threads, each with a row that says how it went:      *)
(* e-mail jobs (core/services/email_service.py), large exports             *)
(* (core/dmc/export_service.py) and maintenance runs (core/maintenance.py).*)
(*                                                                         *)
(* There is no queue: a restart ends every thread and nothing starts them  *)
(* again.  The row is written by the thread, step by step.                 *)
(***************************************************************************)
EXTENDS Integers, FiniteSets

CONSTANTS
    People,    \* recipients of the one e-mail job
    Exports,   \* ExportJob rows for one dataset and format
    Seconds,   \* an export's file is named by the second it starts in
    Runs,      \* MaintenanceRun rows of one task
    Overlap    \* two starts of a task, or two exports of a second

VARIABLES
    mail, delivery, posted,     \* EmailJob, its deliveries, mails that went out
    export, disk,
    run, starting               \* runs checked and not created yet

vars == <<mail, delivery, posted, export, disk, run, starting>>

None == "NONE"
Dead == "DEAD"
NoRow == [status |-> "NEW"]

JobsNamed == None \notin Exports \cup Seconds /\ People \cap {None, Dead, "MADE", "LISTED"} = {} /\ Overlap \in BOOLEAN
Settled == {"COMPLETED", "PARTIALLY_FAILED"}

TypeOK ==
    /\ mail \in [status : {"NEW", "PENDING", "PROCESSING"} \cup Settled, at : {None, Dead, "MADE", "LISTED"} \cup People,
                 failed : Nat]
    /\ delivery \in [People -> {None, "PENDING", "SENT", "FAILED"}]
    /\ posted \in [People -> Nat]
    /\ export \in [Exports -> {NoRow} \cup
           [status : {"QUEUED", "RUNNING", "COMPLETED", "FAILED", "EXPIRED"},
            name : Seconds \cup {None}, at : {"START", "STREAM", "SAVE", "END", Dead}]]
    /\ disk \in [Seconds -> Exports \cup {None}]
    /\ run \in [Runs -> {NoRow} \cup
           [status : {"RUNNING", "SUCCESS", "FAILED"}, stale : BOOLEAN, work : {"ALIVE", "DONE", "RAISED", Dead}]]
    /\ starting \subseteq Runs

Init ==
    /\ mail = [status |-> "NEW", at |-> None, failed |-> 0]
    /\ delivery = [p \in People |-> None] /\ posted = [p \in People |-> 0]
    /\ export = [e \in Exports |-> NoRow] /\ disk = [s \in Seconds |-> None]
    /\ run = [r \in Runs |-> NoRow] /\ starting = {}

mailVars == <<mail, delivery, posted>>
exportVars == <<export, disk>>
runVars == <<run, starting>>

-----------------------------------------------------------------------------
(* E-mail jobs                                                             *)

CreateJob ==
    /\ mail.status = "NEW" /\ People # {}
    /\ mail' = [mail EXCEPT !.status = "PENDING", !.at = "MADE"]
    /\ UNCHANGED <<delivery, posted, exportVars, runVars>>

\* The rows of its recipients, which have a transaction of their own.
AddRecipients ==
    /\ mail.at = "MADE"
    /\ delivery' = [p \in People |-> "PENDING"]
    /\ mail' = [mail EXCEPT !.at = None]
    /\ UNCHANGED <<posted, exportVars, runVars>>

\* The pending deliveries are listed once the job is PROCESSING.
StartJob ==
    /\ mail.status = "PENDING" /\ mail.at = None
    /\ mail' = [mail EXCEPT !.status = "PROCESSING", !.at = "LISTED"]
    /\ UNCHANGED <<delivery, posted, exportVars, runVars>>

Working == mail.status = "PROCESSING" /\ mail.at = "LISTED"

Post(p) ==
    /\ Working /\ delivery[p] = "PENDING"
    /\ mail' = [mail EXCEPT !.at = p]
    /\ posted' = [posted EXCEPT ![p] = @ + 1]
    /\ UNCHANGED <<delivery, exportVars, runVars>>

\* The mail server refuses, or what went out cannot be saved as SENT.
FailDelivery(p) ==
    /\ \/ Working /\ delivery[p] = "PENDING"
       \/ mail.at = p
    /\ delivery' = [delivery EXCEPT ![p] = "FAILED"]
    /\ mail' = [mail EXCEPT !.at = "LISTED", !.failed = @ + 1]
    /\ UNCHANGED <<posted, exportVars, runVars>>

SaveDelivery ==
    /\ mail.at \in People
    /\ delivery' = [delivery EXCEPT ![mail.at] = "SENT"]
    /\ mail' = [mail EXCEPT !.at = "LISTED"]
    /\ UNCHANGED <<posted, exportVars, runVars>>

FinishJob ==
    /\ Working /\ \A p \in People : delivery[p] # "PENDING"
    /\ mail' = [mail EXCEPT !.at = None,
                            !.status = IF mail.failed = 0 THEN "COMPLETED" ELSE "PARTIALLY_FAILED"]
    /\ UNCHANGED <<delivery, posted, exportVars, runVars>>

-----------------------------------------------------------------------------
(* Exports                                                                 *)

Request(e) ==
    /\ export[e] = NoRow
    /\ export' = [export EXCEPT ![e] = [status |-> "QUEUED", name |-> None, at |-> "START"]]
    /\ UNCHANGED <<disk, mailVars, runVars>>

\* run_export_job names the file, and the job is RUNNING.
StartExport(e, s) ==
    /\ export[e].status = "QUEUED" /\ export[e].at = "START"
    /\ Overlap \/ ~\E d \in Exports : export[d] # NoRow /\ export[d].name = s
    /\ export' = [export EXCEPT ![e] = [status |-> "RUNNING", name |-> s, at |-> "STREAM"]]
    /\ UNCHANGED <<disk, mailVars, runVars>>

WriteFile(e) ==
    /\ export[e].status = "RUNNING" /\ export[e].at = "STREAM"
    /\ disk' = [disk EXCEPT ![export[e].name] = e]
    /\ export' = [export EXCEPT ![e].at = "SAVE"]
    /\ UNCHANGED <<mailVars, runVars>>

SaveExport(e) ==
    /\ export[e].status = "RUNNING" /\ export[e].at = "SAVE"
    /\ export' = [export EXCEPT ![e].status = "COMPLETED", ![e].at = "END"]
    /\ UNCHANGED <<disk, mailVars, runVars>>

\* Reading the records, or writing the file, raises.
FailExport(e) ==
    /\ export[e].status = "RUNNING" /\ export[e].at = "STREAM"
    /\ export' = [export EXCEPT ![e].status = "FAILED", ![e].at = "END"]
    /\ UNCHANGED <<disk, mailVars, runVars>>

\* The temporary directory is emptied; a download then finds no file.
LoseFile(s) ==
    /\ disk[s] # None
    /\ disk' = [disk EXCEPT ![s] = None]
    /\ UNCHANGED <<export, mailVars, runVars>>

Download(e) ==
    /\ export[e].status = "COMPLETED" /\ disk[export[e].name] = None
    /\ export' = [export EXCEPT ![e].status = "EXPIRED"]
    /\ UNCHANGED <<disk, mailVars, runVars>>

-----------------------------------------------------------------------------
(* Maintenance runs                                                        *)

\* _fail_stale: RUNNING for a quarter of an hour.
FailedStale ==
    [r \in Runs |-> IF run[r] # NoRow /\ run[r].status = "RUNNING" /\ run[r].stale
                    THEN [run[r] EXCEPT !.status = "FAILED"] ELSE run[r]]

\* The page is looked at.
Look ==
    /\ FailedStale # run
    /\ run' = FailedStale
    /\ UNCHANGED <<starting, mailVars, exportVars>>

\* Mutant: a stale run blocks no other and is not failed either.
CheckFresh(r) ==
    /\ Overlap \/ starting = {}
    /\ run[r] = NoRow /\ r \notin starting
    /\ \A q \in Runs : FailedStale[q].status # "RUNNING"
    /\ starting' = starting \cup {r}
    /\ UNCHANGED <<run, mailVars, exportVars>>

\* No row to lock when none is RUNNING.
CheckIdle(r) ==
    /\ Overlap \/ starting = {}
    /\ run[r] = NoRow /\ r \notin starting
    /\ \A q \in Runs : FailedStale[q].status # "RUNNING"
    /\ run' = FailedStale
    /\ starting' = starting \cup {r}
    /\ UNCHANGED <<mailVars, exportVars>>

StartRun(r) ==
    /\ r \in starting
    /\ run' = [run EXCEPT ![r] = [status |-> "RUNNING", stale |-> FALSE, work |-> "ALIVE"]]
    /\ starting' = starting \ {r}
    /\ UNCHANGED <<mailVars, exportVars>>

GrowStale(r) ==
    /\ run[r].status = "RUNNING" /\ ~run[r].stale
    /\ run' = [run EXCEPT ![r].stale = TRUE]
    /\ UNCHANGED <<starting, mailVars, exportVars>>

\* The thread writes its end, also over the FAILED of a stale run.
FinishRun(r, work) ==
    /\ run[r] # NoRow /\ run[r].work = "ALIVE"
    /\ run' = [run EXCEPT ![r].work = work,
                          ![r].status = IF work = "DONE" THEN "SUCCESS" ELSE "FAILED"]
    /\ UNCHANGED <<starting, mailVars, exportVars>>

-----------------------------------------------------------------------------
\* The process restarts: every thread and request ends where it is.
Restart ==
    /\ mail' = IF mail.status \in {"PENDING", "PROCESSING"} THEN [mail EXCEPT !.at = Dead] ELSE mail
    /\ export' = [e \in Exports |-> IF export[e] = NoRow \/ export[e].at = "END" THEN export[e]
                                    ELSE [export[e] EXCEPT !.at = Dead]]
    /\ run' = [r \in Runs |-> IF run[r] = NoRow \/ run[r].work # "ALIVE" THEN run[r]
                              ELSE [run[r] EXCEPT !.work = Dead]]
    /\ starting' = {}
    /\ UNCHANGED <<delivery, posted, disk>>

Mailing ==
    \/ CreateJob \/ AddRecipients \/ StartJob \/ SaveDelivery \/ FinishJob
    \/ \E p \in People : Post(p) \/ FailDelivery(p)

Exporting ==
    \/ \E e \in Exports :
          \/ Request(e) \/ WriteFile(e) \/ SaveExport(e) \/ FailExport(e) \/ Download(e)
          \/ \E s \in Seconds : StartExport(e, s)
    \/ \E s \in Seconds : LoseFile(s)

Maintaining ==
    \/ Look
    \/ \E r \in Runs :
          \/ CheckIdle(r) \/ StartRun(r) \/ GrowStale(r)
          \/ \E work \in {"DONE", "RAISED"} : FinishRun(r, work)

Next == Mailing \/ Exporting \/ Maintaining \/ Restart
Spec == Init /\ [][Next]_vars

-----------------------------------------------------------------------------
(* A settled e-mail job says what happened: COMPLETED means that everybody *)
(* was mailed once; a mail never goes out twice, wherever the thread died. *)
MailTold ==
    /\ \A p \in People : posted[p] <= 1 /\ (delivery[p] = "SENT" => posted[p] = 1)
    /\ mail.status = "COMPLETED" => \A p \in People : delivery[p] = "SENT"
    /\ mail.status \in Settled => \A p \in People : delivery[p] \in {"SENT", "FAILED"}

(* The file a completed export offers holds its own records; when two      *)
(* start in the same second it may hold the other's.                       *)
ExportTold ==
    Overlap \/ \A e \in Exports : export[e].status = "COMPLETED" => disk[export[e].name] \in {e, None}

(* A run reported done was done, and while requests do not overlap one     *)
(* run at a time is reported running ("it no longer blocks another run").  *)
RunTold ==
    /\ \A r \in Runs : run[r].status = "SUCCESS" => run[r].work = "DONE"
    /\ Overlap \/ \A q, r \in Runs : run[q].status = "RUNNING" /\ run[r].status = "RUNNING" => q = r

JobsTellTruth == MailTold /\ ExportTold /\ RunTold
=============================================================================
