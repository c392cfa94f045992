------------------------------ MODULE Accounts ------------------------------
(***************************************************************************)
(* The parts of accounts and of the club's data that keep their own rows,  *)
(* side by side, as in Hackathon: a behaviour is one part's, of one of the *)
(* sizes that part is given, both picked at the start, and the variables   *)
(* of the other parts are Unused.                                          *)
(*                                                                         *)
(* A size is a record of the values of the part's constants.               *)
(***************************************************************************)
EXTENDS Integers, FiniteSets

CONSTANTS IdSizes, SheetSizes, LinkSizes, FileSizes, JobSizes

VARIABLES
    part, size,
    id, role, hold, retired, counter, waiting, pend,                        \* ClubIds
    sheet, outcome, resolution, invited, batch, acting,                     \* Reconciliation, with them
    account, link, setup, quiet, invite, toVerify, proved,                  \* AccountLinks
    file, undated, attempt, progress, row, checked, unseen, count, made, backup, formGone,   \* Imports
    mail, delivery, posted, export, disk, run, starting                     \* Jobs

Unused == "UNUSED"

Ids(s)   == INSTANCE ClubIds WITH People <- s.people, MaxId <- s.maxId, Requests <- s.requests
Sheet(s) == INSTANCE Reconciliation WITH People <- s.people, MaxId <- s.maxId, Lines <- s.lines,
                                         Requests <- s.requests
Links(s) == INSTANCE AccountLinks WITH Accounts <- s.accounts, Addresses <- s.addresses,
                                       Links <- s.links, Setups <- s.setups, Overlap <- s.overlap
Files(s) == INSTANCE Imports WITH Attempts <- s.attempts, Rows <- s.rows, Keys <- s.keys,
                                  Domains <- s.domains, Overlap <- s.overlap
Work(s)  == INSTANCE Jobs WITH People <- s.people, Exports <- s.exports, Runs <- s.runs,
                               Seconds <- s.seconds, Overlap <- s.overlap

ASSUME AccountsAssumption ==
    /\ \A s \in IdSizes : Ids(s)!PeopleNamed
    /\ \A s \in SheetSizes : Sheet(s)!PeopleNamed /\ Sheet(s)!LinesNumbered
    /\ \A s \in LinkSizes : Links(s)!AddressesNamed
    /\ \A s \in FileSizes : Files(s)!KeysNamed
    /\ \A s \in JobSizes : Work(s)!JobsNamed

idVars    == <<id, role, hold, retired, counter, waiting, pend>>
sheetVars == <<sheet, outcome, resolution, invited, batch, acting>>
linkVars  == <<account, link, setup, quiet, invite, toVerify, proved>>
fileVars  == <<file, undated, attempt, progress, row, checked, unseen, count, made, backup, formGone>>
jobVars   == <<mail, delivery, posted, export, disk, run, starting>>
vars == <<part, size, idVars, sheetVars, linkVars, fileVars, jobVars>>

NoIds   == /\ id = Unused /\ role = Unused /\ hold = Unused /\ retired = Unused
           /\ counter = Unused /\ waiting = Unused /\ pend = Unused
NoSheet == /\ sheet = Unused /\ outcome = Unused /\ resolution = Unused
           /\ invited = Unused /\ batch = Unused /\ acting = Unused
NoLinks == /\ account = Unused /\ link = Unused /\ setup = Unused /\ quiet = Unused
           /\ invite = Unused /\ toVerify = Unused /\ proved = Unused
NoFiles == /\ file = Unused /\ undated = Unused /\ attempt = Unused /\ progress = Unused
           /\ row = Unused /\ checked = Unused /\ unseen = Unused /\ count = Unused /\ made = Unused
           /\ backup = Unused /\ formGone = Unused
NoJobs  == /\ mail = Unused /\ delivery = Unused /\ posted = Unused /\ export = Unused
           /\ disk = Unused /\ run = Unused /\ starting = Unused

\* The behaviour is that of part p, of size s.
Playing(p, s) == part = p /\ size = s

Init ==
    \/ /\ \E s \in IdSizes : Playing("IDS", s) /\ Ids(s)!Init
       /\ NoSheet /\ NoLinks /\ NoFiles /\ NoJobs
    \/ /\ \E s \in SheetSizes : Playing("SHEET", s) /\ Sheet(s)!ReconInit
       /\ NoLinks /\ NoFiles /\ NoJobs
    \/ /\ \E s \in LinkSizes : Playing("LINKS", s) /\ Links(s)!Init
       /\ NoIds /\ NoSheet /\ NoFiles /\ NoJobs
    \/ /\ \E s \in FileSizes : Playing("FILES", s) /\ Files(s)!Init
       /\ NoIds /\ NoSheet /\ NoLinks /\ NoJobs
    \/ /\ \E s \in JobSizes : Playing("JOBS", s) /\ Work(s)!Init
       /\ NoIds /\ NoSheet /\ NoLinks /\ NoFiles

Next ==
    /\ UNCHANGED <<part, size>>
    /\ \/ /\ \E s \in IdSizes : Playing("IDS", s) /\ Ids(s)!Next
          /\ UNCHANGED <<sheetVars, linkVars, fileVars, jobVars>>
       \/ /\ \E s \in SheetSizes : Playing("SHEET", s) /\ Sheet(s)!ReconNext
          /\ UNCHANGED <<linkVars, fileVars, jobVars>>
       \/ /\ \E s \in LinkSizes : Playing("LINKS", s) /\ Links(s)!Next
          /\ UNCHANGED <<idVars, sheetVars, fileVars, jobVars>>
       \/ /\ \E s \in FileSizes : Playing("FILES", s) /\ Files(s)!Next
          /\ UNCHANGED <<idVars, sheetVars, linkVars, jobVars>>
       \/ /\ \E s \in JobSizes : Playing("JOBS", s) /\ Work(s)!Next
          /\ UNCHANGED <<idVars, sheetVars, linkVars, fileVars>>
Spec == Init /\ [][Next]_vars

-----------------------------------------------------------------------------
(* Every part keeps its types (see the module each instance names). *)
TypeOK ==
    /\ \A s \in IdSizes : Playing("IDS", s) => Ids(s)!TypeOK
    /\ \A s \in SheetSizes : Playing("SHEET", s) => Sheet(s)!ReconTypeOK
    /\ \A s \in LinkSizes : Playing("LINKS", s) => Links(s)!TypeOK
    /\ \A s \in FileSizes : Playing("FILES", s) => Files(s)!TypeOK
    /\ \A s \in JobSizes : Playing("JOBS", s) => Work(s)!TypeOK

(* ClubIds: affiliates have ids, and, of requests that take turns, ids     *)
(* kept back are nobody's.                                                 *)
(* Reconciliation: so also while a sheet is followed.                      *)
IdsAreSound ==
    /\ \A s \in IdSizes : Playing("IDS", s) => Ids(s)!IdsAreSound
    /\ \A s \in SheetSizes : Playing("SHEET", s) => Sheet(s)!IdsAreSound

(* Reconciliation: following a sheet takes an id from nobody. *)
SheetIsFollowed ==
    [][\A s \in SheetSizes : Playing("SHEET", s) => Sheet(s)!TakesFromNobody]_vars

(* AccountLinks: what is verified was proved, and one setup link is live. *)
LinksProve == \A s \in LinkSizes : Playing("LINKS", s) => Links(s)!LinksProve

(* Imports: an import happens as a whole, once. *)
ImportsAreWhole == \A s \in FileSizes : Playing("FILES", s) => Files(s)!ImportsAreWhole

(* Jobs: what the row of a job says has happened. *)
JobsTellTruth == \A s \in JobSizes : Playing("JOBS", s) => Work(s)!JobsTellTruth
=============================================================================
